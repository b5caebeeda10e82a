--------------------------- MODULE MonitorProofs ----------------------------
(***************************************************************************)
(* A working monitor has exactly one unreaped child, the one it knows.     *)
(***************************************************************************)
EXTENDS Monitor, TLAPS

LEMMA InitGood == Init => IInv
BY DEF Init, IInv, Typed, OneChild, Children

(* What a step of one process does to the set of the children. *)
LEMMA ChildrenAfter ==
    ASSUME NEW p \in Pid, NEW s \in {"free", "starting", "serving", "zombie"},
           Typed, proc' = [proc EXCEPT ![p] = s]
    PROVE  Children' = IF s = "free" THEN Children \ {p} ELSE Children \cup {p}
BY DEF Children, Typed

(* A step that leaves the monitor and the set of its children alone. *)
LEMMA Alone ==
    ASSUME IInv, Typed', Children' = Children, UNCHANGED <<pc, child, termed, stale>>
    PROVE  IInv'
BY DEF IInv, OneChild

(* Back to "wait": the monitor is, as before, with its one child. *)
LEMMA Waits ==
    ASSUME Typed', pc' \in {"wait", "reap", "reload", "term"},
           Children' = {child'}, termed' \cup stale' \subseteq {child'}
    PROVE  IInv'
BY DEF IInv, OneChild

LEMMA SpawnGood == IInv /\ Spawn => IInv'
<1> SUFFICES ASSUME IInv, Spawn PROVE IInv'
  OBVIOUS
<1>1. PICK p \in Pid : child' = p /\ proc' = [proc EXCEPT ![p] = "starting"]
  BY DEF Spawn
<1>2. Children = {} /\ termed \cup stale = {}
  BY DEF Spawn, IInv, OneChild
<1>3. Children' = {child'}
  <2>1. Children' = Children \cup {p}
    BY <1>1, ChildrenAfter DEF IInv
  <2> QED BY <1>1, <1>2, <2>1
<1>4. Typed'
  BY <1>1 DEF IInv, Typed, Spawn
<1> QED BY <1>2, <1>3, <1>4, Waits DEF Spawn

(* Whatever sigwaitinfo() returns, and the kill() that may follow. *)
LEMMA SignalGood ==
    IInv /\ (TakeSIGCHLD \/ TakeSIGHUP \/ TakeOther \/ Kill \/ ReapNone) => IInv'
<1> SUFFICES ASSUME IInv, TakeSIGCHLD \/ TakeSIGHUP \/ TakeOther \/ Kill \/ ReapNone
             PROVE  IInv'
  OBVIOUS
<1> USE DEF Take
<1>1. /\ pc \in {"wait", "reap", "reload", "term"}
      /\ pc' \in {"wait", "reap", "reload", "term"}
      /\ UNCHANGED <<child, proc>>
  BY DEF TakeSIGCHLD, TakeSIGHUP, TakeOther, Kill, ReapNone
<1>2. termed' \cup stale' \subseteq termed \cup stale \cup {child}
  BY DEF TakeSIGCHLD, TakeSIGHUP, TakeOther, Kill, ReapNone
<1>3. Children' = {child'}
  BY <1>1 DEF IInv, OneChild, Children
<1>4. Typed'
  BY <1>1 DEF IInv, Typed
<1>5. termed \cup stale \subseteq {child}
  BY <1>1 DEF IInv, OneChild
<1> QED BY <1>1, <1>2, <1>3, <1>4, <1>5, Waits

(* A reaped child is the one the monitor knows; the next one takes its      *)
(* place, unless the monitor exits or the fork fails.                       *)
LEMMA ReapGood ==
    ASSUME NEW p \in Pid, IInv, ReapLast(p) \/ Reap(p) \/ ReapForkFails(p)
    PROVE  IInv'
<1>1. Buried(p)
  BY DEF ReapLast, Reap, ReapForkFails
<1>2. Children = {p} /\ p = child
  BY <1>1 DEF Buried, IInv, OneChild, Children
<1>3. termed' \cup stale' = {}
  BY <1>1, <1>2 DEF Buried, IInv, OneChild
<1>4. CASE Reap(p)
  <2>1. PICK q \in Pid : child' = q /\ proc' = [Reaped(p) EXCEPT ![q] = "starting"]
    BY <1>2, <1>4 DEF Reap
  <2>2. Children' = {q}
    BY <1>2, <2>1 DEF Children, Reaped, IInv, Typed
  <2>3. Typed'
    BY <1>4, <2>1 DEF IInv, Typed, Reap, Reaped
  <2> QED BY <1>3, <1>4, <2>1, <2>2, <2>3, Waits DEF Reap
<1>5. CASE ReapLast(p) \/ ReapForkFails(p)
  <2>1. proc' = [proc EXCEPT ![p] = "free"] /\ pc' \in {"exited", "aborted"}
        /\ child' = child
    BY <1>5 DEF ReapLast, ReapForkFails, Reaped
  <2>2. Children' = {}
    BY <1>2, <2>1, ChildrenAfter DEF IInv
  <2>3. Typed'
    BY <2>1 DEF IInv, Typed
  <2> QED BY <1>3, <2>1, <2>2, <2>3 DEF IInv, OneChild
<1> QED BY <1>4, <1>5

(* The monitor gives up. *)
LEMMA FailGood == IInv /\ (SpawnFails \/ SigwaitFails) => IInv'
<1> SUFFICES ASSUME IInv, SpawnFails \/ SigwaitFails PROVE IInv'
  OBVIOUS
<1>1. pc' \in {"aborted", "failed"} /\ UNCHANGED <<child, proc, termed, stale>>
  BY DEF SpawnFails, SigwaitFails
<1> QED BY <1>1 DEF IInv, Typed, OneChild, Children

(* The worker and the senders of signals. *)
LEMMA OthersGood ==
    ASSUME IInv,
           \/ \E s \in Signal : SendSignal(s)
           \/ \E p \in Pid : \/ WorkerExits(p) \/ WorkerStopped(p)
                             \/ WorkerStarts(p) \/ WorkerTerminates(p)
    PROVE  IInv'
<1>1. UNCHANGED <<pc, child, termed, stale>>
  BY DEF SendSignal, WorkerExits, WorkerStopped, WorkerStarts, WorkerTerminates, Dies
<1>2. CASE UNCHANGED proc
  BY <1>1, <1>2, Alone DEF IInv, Typed, Children
<1>3. ASSUME NEW p \in Pid, NEW s \in {"serving", "zombie"},
             proc[p] \in {"starting", "serving"}, proc' = [proc EXCEPT ![p] = s]
      PROVE  IInv'
  <2>1. Children' = Children
    BY <1>3, ChildrenAfter DEF IInv, Children
  <2>2. Typed'
    BY <1>1, <1>3 DEF IInv, Typed
  <2> QED BY <1>1, <2>1, <2>2, Alone
<1> QED BY <1>2, <1>3
     DEF SendSignal, WorkerExits, WorkerStopped, WorkerStarts, WorkerTerminates, Dies

LEMMA NextGood == IInv /\ [Next]_vars => IInv'
<1> SUFFICES ASSUME IInv, [Next]_vars PROVE IInv'
  OBVIOUS
<1>1. CASE UNCHANGED vars
  BY <1>1 DEF vars, IInv, Typed, OneChild, Children
<1> QED BY <1>1, SpawnGood, SignalGood, ReapGood, FailGood, OthersGood
     DEF Next, MonitorStep, Disturbance

(* One waitpid() per SIGCHLD is enough: the monitor never loses its child,  *)
(* never signals a stranger, and leaves none behind.                        *)
THEOREM MonitorHasOneChild == Spec => []OneChild
<1>1. IInv => OneChild
  BY DEF IInv
<1> QED BY <1>1, InitGood, NextGood, PTL DEF Spec

=============================================================================
