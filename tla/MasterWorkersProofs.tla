------------------------ MODULE MasterWorkersProofs -------------------------
(***************************************************************************)
(* The older master: its two maps only name unreaped children, though      *)
(* KillAllChildren overwrites one of them, and up to the first SIGTERM they *)
(* split the children exactly.                                             *)
(***************************************************************************)
EXTENDS MasterWorkers, MasterProofs

(* The actions taken over from Master keep their types, ... *)
LEMMA SharedTyped ==
    ASSUME TypeOK,
           \/ SpawnChildWorkers \/ SpawnFails \/ SigwaitFails
           \/ TakeSIGCHLD \/ TakeSIGINT \/ IgnoreSIGHUP \/ TermDone \/ ReapDone
           \/ \E p \in Pid : Reap(p) \/ ReapRunningForkFails(p)
           \/ \E s \in Signal : SendSignal(s)
           \/ \E p \in Pid : \/ WorkerStarts(p) \/ WorkerTerminates(p)
                             \/ WorkerExits(p) \/ WorkerStopped(p)
    PROVE  TypeOK'
BY TypeCorrectStep DEF Next, MasterStep, Disturbance

(* ... and so do those of the older master. *)
LEMMA OwnTyped ==
    ASSUME TypeOK,
           \/ SpawnsDone \/ TermSIGTERM \/ ReloadSIGHUP \/ ReloadKilled
           \/ \E p \in Pid : KillWorker(p)
    PROVE  TypeOK'
<1> USE WorkersNat DEF TypeOK, PC
<1>1. CASE SpawnsDone
  BY <1>1 DEF SpawnsDone
<1>2. CASE TermSIGTERM
  BY <1>2 DEF TermSIGTERM, KillAllBegins, Dequeue
<1>3. CASE ReloadSIGHUP
  BY <1>3 DEF ReloadSIGHUP, KillAllBegins, Dequeue
<1>4. CASE ReloadKilled
  BY <1>4 DEF ReloadKilled
<1>5. CASE \E p \in Pid : KillWorker(p)
  BY <1>5 DEF KillWorker
<1> QED BY <1>1, <1>2, <1>3, <1>4, <1>5

LEMMA WorkersInitGood == Init => WorkersIInv
<1> SUFFICES ASSUME Init PROVE WorkersIInv
  OBVIOUS
<1>1. Children = {}
  BY DEF Init, Children
<1> QED BY <1>1, TypeCorrectInit
     DEF Init, WorkersIInv, EntriesAreChildren, SignalsOnlyChildren, Killing, Split

(* The invariant speaks of the process table only through the children. *)
LEMMA SameChildren ==
    ASSUME WorkersIInv, TypeOK', Children' = Children,
           UNCHANGED <<running_processes, exiting_processes, m, exiting, termed>>,
           \/ pc' = pc
           \/ pc' \in {"exited", "failed", "aborted"}
           \/ /\ pc \in {"start", "wait", "reap", "reload"}
              /\ pc' \in {"start", "wait", "reap", "reload"}
    PROVE  WorkersIInv'
BY DEF WorkersIInv, EntriesAreChildren, SignalsOnlyChildren, Killing, Split, Ended

LEMMA QuietGood ==
    ASSUME WorkersIInv, TypeOK',
           \/ SpawnsDone \/ SpawnFails \/ TakeSIGCHLD \/ TakeSIGINT \/ IgnoreSIGHUP
           \/ SigwaitFails \/ ReapDone \/ UNCHANGED vars
    PROVE  WorkersIInv'
<1>1. UNCHANGED <<proc, running_processes, exiting_processes, m, exiting, termed>>
  BY DEF SpawnsDone, SpawnFails, TakeSIGCHLD, TakeSIGINT, IgnoreSIGHUP, SigwaitFails,
         ReapDone, vars, masterVars
<1>2. Children' = Children
  BY <1>1 DEF Children
<1>3. \/ pc' = pc
      \/ pc' \in {"exited", "failed", "aborted"}
      \/ /\ pc \in {"start", "wait", "reap", "reload"}
         /\ pc' \in {"start", "wait", "reap", "reload"}
  BY DEF SpawnsDone, SpawnFails, TakeSIGCHLD, TakeSIGINT, IgnoreSIGHUP, SigwaitFails,
         ReapDone, vars, masterVars, Dequeue
<1> QED BY <1>1, <1>2, <1>3, SameChildren

LEMMA EnvironmentGood ==
    ASSUME WorkersIInv, TypeOK',
           \/ \E s \in Signal : SendSignal(s)
           \/ \E p \in Pid : \/ WorkerStarts(p) \/ WorkerTerminates(p)
                             \/ WorkerExits(p) \/ WorkerStopped(p)
    PROVE  WorkersIInv'
<1>1. UNCHANGED <<pc, running_processes, exiting_processes, m, exiting, termed>>
  BY DEF SendSignal, WorkerStarts, WorkerTerminates, WorkerExits, WorkerStopped, Dies,
         masterVars
<1>2. CASE UNCHANGED proc
  BY <1>1, <1>2, SameChildren DEF Children
<1>3. ASSUME NEW p \in Pid, NEW s \in {"serving", "zombie"},
             proc[p] # "free", proc' = [proc EXCEPT ![p] = s]
      PROVE  WorkersIInv'
  <2>1. Children' = Children
    BY <1>3 DEF Children, WorkersIInv, TypeOK
  <2> QED BY <1>1, <2>1, SameChildren
<1> QED BY <1>2, <1>3
     DEF SendSignal, WorkerStarts, WorkerTerminates, WorkerExits, WorkerStopped, Dies,
         Live

(* A new child goes into running_processes_, and was told nothing. *)
LEMMA SpawnGood ==
    ASSUME WorkersIInv, TypeOK', SpawnChildWorkers
    PROVE  WorkersIInv'
<1>1. PICK p \in Pid : /\ proc[p] = "free"
                       /\ proc' = [proc EXCEPT ![p] = "starting"]
                       /\ running_processes' = running_processes \cup {p}
  BY DEF SpawnChildWorkers
<1>2. Children' = Children \cup {p} /\ p \notin Children
  BY <1>1 DEF Children, WorkersIInv, TypeOK
<1>3. /\ pc \in {"start", "reload"}
      /\ UNCHANGED <<pc, exiting_processes, m, exiting, termed>>
  BY DEF SpawnChildWorkers
<1> QED BY <1>1, <1>2, <1>3
     DEF WorkersIInv, EntriesAreChildren, SignalsOnlyChildren, Killing, Split, Ended

(* KillAllChildren: the copy, each kill, and what SIGHUP or SIGTERM do next.*)
LEMMA KillGood ==
    ASSUME WorkersIInv, TypeOK',
           \/ TermSIGTERM \/ ReloadSIGHUP \/ ReloadKilled \/ TermDone
           \/ \E p \in Pid : KillWorker(p)
    PROVE  WorkersIInv'
<1> USE DEF WorkersIInv, EntriesAreChildren, SignalsOnlyChildren, Killing, Split, Ended
<1>1. UNCHANGED proc
  BY DEF TermSIGTERM, ReloadSIGHUP, KillAllBegins, ReloadKilled, TermDone, KillWorker
<1>2. Children' = Children
  BY <1>1 DEF Children
<1>3. CASE TermSIGTERM
  BY <1>2, <1>3 DEF TermSIGTERM, KillAllBegins, Dequeue
<1>4. CASE ReloadSIGHUP
  BY <1>2, <1>4 DEF ReloadSIGHUP, KillAllBegins, Dequeue
<1>5. CASE ReloadKilled
  BY <1>2, <1>5 DEF ReloadKilled
<1>6. CASE TermDone
  BY <1>2, <1>6 DEF TermDone
<1>7. ASSUME NEW p \in Pid, KillWorker(p)
      PROVE  WorkersIInv'
  BY <1>2, <1>7 DEF KillWorker
<1> QED BY <1>3, <1>4, <1>5, <1>6, <1>7

(* A reaped child leaves both maps; a running one makes room for a new one, *)
(* under its own process id perhaps.                                        *)
LEMMA ReapGood ==
    ASSUME WorkersIInv, TypeOK', NEW p \in Pid, Reap(p) \/ ReapRunningForkFails(p)
    PROVE  WorkersIInv'
<1> USE DEF WorkersIInv, EntriesAreChildren, SignalsOnlyChildren, Killing, Split, Ended
<1>1. pc = "reap" /\ p \in Children /\ termed' = termed \ {p} /\ UNCHANGED exiting
  BY DEF Reap, ReapExiting, ReapRunning, ReapRunningForkFails, Children
<1>2. CASE ReapExiting(p)
  <2>1. Children' = Children \ {p}
    BY <1>2 DEF ReapExiting, Reaped, Children, TypeOK
  <2> QED BY <1>1, <1>2, <2>1 DEF ReapExiting
<1>3. CASE ReapRunning(p)
  <2>1. PICK q \in Pid :
           /\ Reaped(p)[q] = "free"
           /\ proc' = [Reaped(p) EXCEPT ![q] = "starting"]
           /\ running_processes' = (running_processes \ {p}) \cup {q}
    BY <1>3 DEF ReapRunning
  <2>2. /\ Children' = (Children \ {p}) \cup {q}
        /\ q \notin Children \ {p}
    BY <2>1 DEF Reaped, Children, TypeOK
  <2> QED BY <1>1, <1>3, <2>1, <2>2 DEF ReapRunning
<1>4. CASE ReapRunningForkFails(p)
  <2>1. Children' = Children \ {p}
    BY <1>4 DEF ReapRunningForkFails, Reaped, Children, TypeOK
  <2> QED BY <1>1, <1>4, <2>1 DEF ReapRunningForkFails
<1> QED BY <1>2, <1>3, <1>4 DEF Reap

LEMMA WorkersNextGood == WorkersIInv /\ [WorkersNext]_vars => WorkersIInv'
<1> SUFFICES ASSUME WorkersIInv, [WorkersNext]_vars PROVE WorkersIInv'
  OBVIOUS
<1>1. CASE UNCHANGED vars
  BY <1>1, QuietGood DEF WorkersIInv, TypeOK, vars, masterVars
<1>2. CASE WorkersNext
  <2>1. TypeOK'
    BY <1>2, SharedTyped, OwnTyped DEF WorkersNext, WorkersIInv
  <2> QED BY <1>2, <2>1, QuietGood, EnvironmentGood, SpawnGood, KillGood, ReapGood
       DEF WorkersNext
<1> QED BY <1>1, <1>2

(* No entry of a map outlives its process, and SIGTERM hits no stranger. *)
THEOREM EntriesNameChildren == WorkersSpec => []EntriesAreChildren
<1>1. WorkersIInv => EntriesAreChildren
  BY DEF WorkersIInv
<1> QED BY <1>1, WorkersInitGood, WorkersNextGood, PTL DEF WorkersSpec

(* Before the first SIGTERM the maps tell who was told to leave. *)
THEOREM MapsSplitUntilTerm == WorkersSpec => []TrackedUntilTerm
<1>1. WorkersIInv => TrackedUntilTerm
  BY DEF WorkersIInv, Split, TrackedUntilTerm
<1> QED BY <1>1, WorkersInitGood, WorkersNextGood, PTL DEF WorkersSpec

=============================================================================
