---------------------------- MODULE MasterProofs ----------------------------
(***************************************************************************)
(* The safety properties of Master for every set of process ids and every  *)
(* value of worker_processes().  They follow from the inductive invariant  *)
(* IInv of Master.                                                         *)
(***************************************************************************)
EXTENDS Master, FiniteSetTheorems, TLAPS

(* The loop bound is a natural number. *)
LEMMA WorkersNat == Workers \in Nat
BY WorkerProcessesAssumption DEF Workers

(* Sets of process ids are finite. *)
LEMMA PidCard ==
    ASSUME NEW A \in SUBSET Pid
    PROVE  IsFiniteSet(A) /\ Cardinality(A) \in Nat
BY PidAssumption, FS_Subset, FS_CardinalityType

LEMMA CardSubset ==
    ASSUME NEW A \in SUBSET Pid, NEW B \in SUBSET A
    PROVE  Cardinality(B) <= Cardinality(A)
BY PidCard, FS_Subset

LEMMA CardAdd ==
    ASSUME NEW A \in SUBSET Pid, NEW p \in Pid, p \notin A
    PROVE  Cardinality(A \cup {p}) = Cardinality(A) + 1
BY PidCard, FS_AddElement

LEMMA CardRemove ==
    ASSUME NEW A \in SUBSET Pid, NEW p \in A
    PROVE  Cardinality(A \ {p}) = Cardinality(A) - 1
BY PidCard, FS_RemoveElement

LEMMA CardEmpty ==
    ASSUME NEW A \in SUBSET Pid
    PROVE  Cardinality(A) = 0 <=> A = {}
BY PidCard, FS_EmptySet

(* Two sets that share no element. *)
LEMMA CardUnion ==
    ASSUME NEW A \in SUBSET Pid, NEW B \in SUBSET Pid
    PROVE  /\ Cardinality(A \cup B) <= Cardinality(A) + Cardinality(B)
           /\ A \cap B = {} =>
                 Cardinality(A \cup B) = Cardinality(A) + Cardinality(B)
<1>1. Cardinality(A \cup B) = Cardinality(A) + Cardinality(B) - Cardinality(A \cap B)
  BY PidCard, FS_Union
<1>2. A \cap B \in SUBSET Pid
  OBVIOUS
<1>3. QED
  BY <1>1, <1>2, PidCard, CardEmpty

-----------------------------------------------------------------------------
LEMMA TypeCorrectInit == Init => TypeOK
<1> SUFFICES ASSUME Init PROVE TypeOK
  OBVIOUS
<1>1. spawns \in 0 .. Workers
  BY WorkersNat DEF Init
<1>2. proc \in [Pid -> {"free", "starting", "serving", "zombie"}]
  BY DEF Init
<1>3. QED
  BY <1>1, <1>2 DEF Init, TypeOK, PC

LEMMA TypeCorrectStep == TypeOK /\ [Next]_vars => TypeOK'
<1> SUFFICES ASSUME TypeOK, [Next]_vars PROVE TypeOK'
  OBVIOUS
<1> USE WorkersNat DEF TypeOK, PC, Signal
<1>1. CASE SpawnChildWorkers BY <1>1 DEF SpawnChildWorkers
<1>2. CASE SpawnChildWorkersDone BY <1>2 DEF SpawnChildWorkersDone
<1>3. CASE TakeSIGCHLD BY <1>3 DEF TakeSIGCHLD, Dequeue
<1>4. CASE TakeSIGINT BY <1>4 DEF TakeSIGINT, Dequeue, masterVars
<1>5. CASE TakeSIGTERM BY <1>5 DEF TakeSIGTERM, Dequeue
<1>6. CASE IgnoreSIGHUP BY <1>6 DEF IgnoreSIGHUP, Dequeue, masterVars
<1>7. CASE AcceptSIGHUP
  BY <1>7 DEF AcceptSIGHUP, ReloadBegins, Dequeue, Children
<1>8. ASSUME NEW p \in Pid, KillChild(p) PROVE TypeOK' BY <1>8 DEF KillChild
<1>9. CASE RetireDone BY <1>9 DEF RetireDone
<1>10. CASE TermDone BY <1>10 DEF TermDone
<1>11. ASSUME NEW p \in Pid, Reap(p) PROVE TypeOK'
  BY <1>11 DEF Reap, ReapExiting, ReapRunning, Reaped
<1>12. CASE ReapDone BY <1>12 DEF ReapDone
<1>13. CASE SpawnFails BY <1>13 DEF SpawnFails
<1>14. CASE SigwaitFails BY <1>14 DEF SigwaitFails
<1>15. CASE ReloadInitFails BY <1>15 DEF ReloadInitFails, Dequeue, masterVars
<1>16. ASSUME NEW p \in Pid, ReapRunningForkFails(p) PROVE TypeOK'
  BY <1>16 DEF ReapRunningForkFails, Reaped
<1>17. ASSUME NEW s \in Signal, SendSignal(s) PROVE TypeOK'
  BY <1>17 DEF SendSignal, masterVars
<1>18. ASSUME NEW p \in Pid, Dies(p) PROVE TypeOK'
  BY <1>18 DEF Dies, NotifyMaster, masterVars
<1>19. ASSUME NEW p \in Pid, WorkerStopped(p) PROVE TypeOK'
  BY <1>19 DEF WorkerStopped, NotifyMaster, masterVars
<1>20. ASSUME NEW p \in Pid, WorkerStarts(p) PROVE TypeOK'
  BY <1>20 DEF WorkerStarts, masterVars
<1>21. CASE UNCHANGED vars BY <1>21 DEF vars, masterVars
<1>22. QED
  BY <1>1, <1>2, <1>3, <1>4, <1>5, <1>6, <1>7, <1>8, <1>9, <1>10, <1>11,
     <1>12, <1>13, <1>14, <1>15, <1>16, <1>17, <1>18, <1>19, <1>20, <1>21
     DEF Next, MasterStep, Disturbance, WorkerExits, WorkerTerminates

(* The type invariant: every variable of the master keeps its range. *)
THEOREM TypeCorrect == Spec => []TypeOK
BY TypeCorrectInit, TypeCorrectStep, PTL DEF Spec

-----------------------------------------------------------------------------
(* IInv is inductive: one lemma per action that touches what it speaks of. *)

LEMMA InitIInv == Init => IInv
<1> SUFFICES ASSUME Init PROVE IInv
  OBVIOUS
<1>1. TypeOK
  BY TypeCorrectInit
<1>2. Children = {} /\ Live = {} /\ Leaving = {}
  BY DEF Init, Children, Live, Leaving
<1>3. Cardinality({}) = 0
  BY FS_EmptySet
<1>4. TermedTracked /\ Separation
  BY <1>2 DEF Init, TermedTracked, ChildrenTracked, SignalsOnlyChildren, Separation
<1>5. Counting /\ Terminating
  BY <1>3, WorkersNat DEF Init, Counting, Terminating
<1>6. Bounded
  BY <1>2, <1>3, WorkersNat DEF Bounded, ChildBound
<1>7. NoLostSigchld /\ OrphansTermed
  BY DEF Init, NoLostSigchld, OrphansTermed
<1>8. QED
  BY <1>1, <1>4, <1>5, <1>6, <1>7 DEF IInv

(* The children split into the pool and those that leave it. *)
LEMMA ChildrenSplit ==
    ASSUME IInv, ~Ended
    PROVE  /\ Children = running_processes \cup Leaving
           /\ running_processes \cap Leaving = {}
           /\ Children \in SUBSET Pid /\ Leaving \in SUBSET Pid
           /\ Cardinality(Children) =
                 Cardinality(running_processes) + Cardinality(Leaving)
<1>1. /\ Children = running_processes \cup Leaving
      /\ running_processes \cap Leaving = {}
      /\ Children \in SUBSET Pid /\ Leaving \in SUBSET Pid
  BY DEF IInv, TypeOK, TermedTracked, ChildrenTracked, Leaving, Children
<1>2. running_processes \in SUBSET Pid
  BY DEF IInv, TypeOK
<1>3. QED
  BY <1>1, <1>2, CardUnion

LEMMA SpawnIInv == IInv /\ TypeOK' /\ SpawnChildWorkers => IInv'
<1> SUFFICES ASSUME IInv, TypeOK', SpawnChildWorkers PROVE IInv'
  OBVIOUS
<1>1. PICK p \in Pid : /\ proc[p] = "free"
                       /\ proc' = [proc EXCEPT ![p] = "starting"]
                       /\ running_processes' = running_processes \cup {p}
  BY DEF SpawnChildWorkers
<1>2. /\ pc \in {"start", "reload"} /\ pc' = pc /\ spawns > 0 /\ spawns' = spawns - 1
      /\ UNCHANGED <<exiting_processes, m, exiting, pending, termed>>
      /\ ~Ended /\ ~Ended'
  BY DEF SpawnChildWorkers, Ended
<1>3. TypeOK /\ running_processes \in SUBSET Pid /\ spawns \in Nat
  BY WorkersNat DEF IInv, TypeOK
<1>4. Children' = Children \cup {p} /\ p \notin Children /\ Children \in SUBSET Pid
  BY <1>1, <1>3 DEF Children, TypeOK
<1>5. Children = running_processes \cup exiting_processes \cup m
  BY <1>2 DEF IInv, TermedTracked, ChildrenTracked
<1>6. ~exiting
  <2> SUFFICES ASSUME exiting PROVE FALSE
    OBVIOUS
  <2>1. running_processes = {} /\ Workers = 0
    BY <1>2 DEF IInv, Terminating
  <2>2. Cardinality(running_processes) + spawns = Workers
    BY <1>2 DEF IInv, Counting
  <2>3. QED
    BY <2>1, <2>2, <1>2, <1>3, CardEmpty
<1>7. TermedTracked'
  BY <1>1, <1>2, <1>4, <1>5 DEF IInv, TermedTracked, ChildrenTracked, SignalsOnlyChildren
<1>8. Separation'
  BY <1>1, <1>2, <1>4, <1>5 DEF IInv, Separation
<1>9. Counting'
  <2>1. Cardinality(running_processes') = Cardinality(running_processes) + 1
    BY <1>1, <1>3, <1>4, <1>5, CardAdd
  <2>2. Cardinality(running_processes) \in Nat
    BY <1>3, PidCard
  <2>3. QED
    BY <1>2, <1>3, <1>6, <2>1, <2>2, WorkersNat DEF IInv, Counting
<1>10. Terminating'
  BY <1>2, <1>6 DEF Terminating
<1>11. Bounded'
  <2>1. Leaving' = Leaving
    BY <1>1, <1>2, <1>4, <1>5 DEF Leaving
  <2>2. Cardinality(Leaving) <= Workers
    BY <1>2, <1>6 DEF IInv, Bounded
  <2>3. Cardinality(Children) = Cardinality(running_processes) + Cardinality(Leaving)
    BY <1>2, ChildrenSplit
  <2>4. Cardinality(running_processes) + spawns = Workers
    BY <1>2 DEF IInv, Counting
  <2>5. Cardinality(Children') = Cardinality(Children) + 1
    BY <1>4, CardAdd
  <2>6. Leaving \in SUBSET Pid
    BY <1>2, ChildrenSplit
  <2>7. Cardinality(Leaving) \in Nat /\ Cardinality(running_processes) \in Nat
    BY <1>3, <2>6, PidCard
  <2>8. QED
    BY <1>2, <1>3, <2>1, <2>2, <2>3, <2>4, <2>5, <2>7, WorkersNat DEF Bounded, ChildBound
<1>12. NoLostSigchld'
  BY <1>1, <1>2, <1>3 DEF IInv, NoLostSigchld, TypeOK, Ended
<1>13. OrphansTermed'
  BY <1>2 DEF OrphansTermed
<1>14. QED
  BY <1>7, <1>8, <1>9, <1>10, <1>11, <1>12, <1>13 DEF IInv

(* Steps that leave the maps and the process table alone. *)
LEMMA QuietStepIInv ==
    ASSUME IInv, TypeOK',
           UNCHANGED <<spawns, running_processes, exiting_processes, m, exiting,
                       proc, termed>>,
           \/ SpawnChildWorkersDone \/ TakeSIGCHLD \/ TakeSIGINT \/ IgnoreSIGHUP
           \/ ReloadInitFails \/ RetireDone \/ ReapDone
           \/ SpawnFails \/ SigwaitFails
    PROVE  IInv'
<1> USE DEF Dequeue, Ended, masterVars
<1>1. Children' = Children /\ Live' = Live /\ Leaving' = Leaving
  BY DEF Children, Live, Leaving
<1>2. ~Ended
  BY DEF SpawnChildWorkersDone, TakeSIGCHLD, TakeSIGINT, IgnoreSIGHUP,
         ReloadInitFails, RetireDone, ReapDone, SpawnFails, SigwaitFails
<1>3. TermedTracked'
  BY <1>1, <1>2 DEF IInv, TermedTracked, ChildrenTracked, SignalsOnlyChildren
<1>4. Separation'
  BY DEF IInv, Separation, SpawnChildWorkersDone, TakeSIGCHLD, TakeSIGINT,
         IgnoreSIGHUP, ReloadInitFails, RetireDone, ReapDone, SpawnFails,
         SigwaitFails
<1>5. Counting'
  <2>1. Cardinality(running_processes) \in Nat
    BY PidCard DEF IInv, TypeOK
  <2>2. spawns \in Int
    BY WorkersNat DEF IInv, TypeOK
  <2>3. QED
    BY <2>1, <2>2, WorkersNat
    DEF IInv, Counting, SpawnChildWorkersDone, TakeSIGCHLD, TakeSIGINT,
        IgnoreSIGHUP, ReloadInitFails, RetireDone, ReapDone, SpawnFails,
        SigwaitFails
<1>6. Terminating'
  BY WorkersNat
  DEF IInv, Terminating, SpawnChildWorkersDone, TakeSIGCHLD, TakeSIGINT,
      IgnoreSIGHUP, ReloadInitFails, RetireDone, ReapDone, SpawnFails,
      SigwaitFails
<1>7. Bounded'
  BY <1>1, <1>2 DEF IInv, Bounded, ChildBound
<1>8. NoLostSigchld'
  BY DEF IInv, NoLostSigchld, SpawnChildWorkersDone, TakeSIGCHLD, TakeSIGINT,
         IgnoreSIGHUP, ReloadInitFails, RetireDone, ReapDone, SpawnFails,
         SigwaitFails
<1>9. OrphansTermed'
  <2>1. CASE ReapDone /\ exiting
    <3>1. Children = exiting_processes /\ termed = exiting_processes
      BY <1>2, <2>1 DEF IInv, Terminating, TermedTracked, ChildrenTracked, ReapDone
    <3>2. Live \subseteq Children
      BY DEF Live, Children
    <3>3. QED
      BY <1>1, <3>1, <3>2 DEF OrphansTermed
  <2>2. CASE ~(ReapDone /\ exiting)
    BY <1>1, <2>2
    DEF IInv, OrphansTermed, SpawnChildWorkersDone, TakeSIGCHLD, TakeSIGINT,
        IgnoreSIGHUP, ReloadInitFails, RetireDone, ReapDone, SpawnFails,
        SigwaitFails
  <2>3. QED
    BY <2>1, <2>2
<1>10. QED
  BY <1>3, <1>4, <1>5, <1>6, <1>7, <1>8, <1>9 DEF IInv

(* Steps of the environment: the master keeps its state and its children. *)
LEMMA EnvironmentIInv ==
    ASSUME IInv, TypeOK', UNCHANGED <<masterVars, termed>>,
           \/ \E s \in Signal : SendSignal(s)
           \/ \E p \in Pid : \/ WorkerStarts(p)
                             \/ Dies(p) /\ proc[p] # "free"
                             \/ WorkerStopped(p)
    PROVE  IInv'
<1> DEFINE Kept == Children' = Children /\ Live' \subseteq Live /\ NoLostSigchld'
<1>1. Kept
  <2>1. CASE \E s \in Signal : SendSignal(s)
    BY <2>1 DEF SendSignal, Children, Live, IInv, NoLostSigchld, Ended, masterVars
  <2>2. ASSUME NEW p \in Pid, WorkerStarts(p) PROVE Kept
    BY <2>2 DEF WorkerStarts, Children, Live, IInv, TypeOK, NoLostSigchld, Ended, masterVars
  <2>3. ASSUME NEW p \in Pid, Dies(p), proc[p] # "free" PROVE Kept
    BY <2>3 DEF Dies, NotifyMaster, Children, Live, IInv, TypeOK, NoLostSigchld, Ended, masterVars
  <2>4. ASSUME NEW p \in Pid, WorkerStopped(p) PROVE Kept
    BY <2>4 DEF WorkerStopped, NotifyMaster, Children, Live, IInv, NoLostSigchld, Ended, masterVars
  <2>5. QED
    BY <2>1, <2>2, <2>3, <2>4
<1> USE DEF masterVars
<1>2. Leaving' = Leaving /\ Ended' = Ended
  BY DEF Leaving, Ended
<1>3. TermedTracked'
  BY <1>1, <1>2 DEF IInv, TermedTracked, ChildrenTracked, SignalsOnlyChildren
<1>4. Separation'
  BY <1>2 DEF IInv, Separation
<1>5. Counting' /\ Terminating'
  BY <1>2 DEF IInv, Counting, Terminating
<1>6. Bounded'
  BY <1>1, <1>2 DEF IInv, Bounded, ChildBound
<1>7. OrphansTermed'
  BY <1>1 DEF IInv, OrphansTermed
<1>8. QED
  BY <1>1, <1>3, <1>4, <1>5, <1>6, <1>7 DEF IInv

(* SIGTERM: m becomes a copy of running_processes_. *)
LEMMA TakeSIGTERMIInv == IInv /\ TypeOK' /\ TakeSIGTERM => IInv'
<1> SUFFICES ASSUME IInv, TypeOK', TakeSIGTERM PROVE IInv'
  OBVIOUS
<1>1. /\ pc = "wait" /\ pc' = "term" /\ m' = running_processes
      /\ UNCHANGED <<running_processes, exiting_processes, exiting, proc, termed>>
      /\ ~Ended /\ ~Ended'
      /\ pending' = pending \ {"SIGTERM"}
  BY DEF TakeSIGTERM, Dequeue, Ended
<1>2. m = {} /\ running_processes \cap exiting_processes = {}
  BY <1>1 DEF IInv, Separation
<1>3. Children' = Children /\ Leaving' = Leaving
  BY <1>1, <1>2 DEF Children, Leaving
<1>4. TermedTracked'
  BY <1>1, <1>2, <1>3 DEF IInv, TermedTracked, ChildrenTracked, SignalsOnlyChildren
<1>5. Separation'
  BY <1>1, <1>2 DEF Separation
<1>6. Counting'
  BY <1>1 DEF IInv, Counting
<1>7. Terminating'
  <2>1. ~exiting /\ Workers > 0 => running_processes # {}
    <3>1. ~exiting => Cardinality(running_processes) = Workers
      BY <1>1 DEF IInv, Counting
    <3>2. running_processes \in SUBSET Pid
      BY DEF IInv, TypeOK
    <3>3. QED
      BY <3>1, <3>2, CardEmpty
  <2>2. QED
    BY <1>1, <2>1 DEF IInv, Terminating
<1>8. Bounded'
  BY <1>1, <1>3 DEF IInv, Bounded, ChildBound
<1>9. NoLostSigchld' /\ OrphansTermed'
  BY <1>1 DEF IInv, NoLostSigchld, OrphansTermed
<1>10. QED
  BY <1>4, <1>5, <1>6, <1>7, <1>8, <1>9 DEF IInv

(* SIGHUP: the pool is swapped into m; exiting_processes_ is empty. *)
LEMMA AcceptSIGHUPIInv == IInv /\ TypeOK' /\ AcceptSIGHUP => IInv'
<1> SUFFICES ASSUME IInv, TypeOK', AcceptSIGHUP PROVE IInv'
  OBVIOUS
<1>1. /\ pc = "wait" /\ pc' = "reload"
      /\ exiting_processes = {} /\ running_processes' = {}
      /\ m' = running_processes /\ spawns' = Workers
      /\ UNCHANGED <<exiting_processes, exiting, proc, termed>>
      /\ ~Ended /\ ~Ended'
      /\ pending' = pending \ {"SIGHUP"}
  BY DEF AcceptSIGHUP, ReloadBegins, Dequeue, Ended
<1>2. m = {}
  BY <1>1 DEF IInv, Separation
<1>3. Children' = Children /\ Leaving' = running_processes
  BY <1>1 DEF Children, Leaving
<1>4. TermedTracked'
  BY <1>1, <1>2, <1>3 DEF IInv, TermedTracked, ChildrenTracked, SignalsOnlyChildren
<1>5. Separation'
  BY <1>1 DEF Separation
<1>6. ~exiting => Cardinality(running_processes) = Workers
  BY <1>1 DEF IInv, Counting
<1>7. Counting'
  <2>1. Cardinality({}) = 0
    BY FS_EmptySet
  <2>2. QED
    BY <1>1, <1>6, <2>1, WorkersNat DEF Counting
<1>8. Terminating'
  BY <1>1, WorkersNat DEF IInv, Terminating
<1>9. Bounded'
  BY <1>1, <1>3, <1>6, WorkersNat DEF IInv, Bounded, ChildBound
<1>10. NoLostSigchld' /\ OrphansTermed'
  BY <1>1 DEF IInv, NoLostSigchld, OrphansTermed
<1>11. QED
  BY <1>4, <1>5, <1>7, <1>8, <1>9, <1>10 DEF IInv

(* One kill() and the move of the entry to exiting_processes_. *)
LEMMA KillChildIInv ==
    ASSUME IInv, TypeOK', NEW p \in Pid, KillChild(p)
    PROVE  IInv'
<1>1. /\ pc \in {"retire", "term"} /\ pc' = pc /\ p \in m /\ m' = m \ {p}
      /\ termed' = termed \cup {p}
      /\ exiting_processes' = exiting_processes \cup {p}
      /\ UNCHANGED <<running_processes, exiting, proc, pending>>
      /\ ~Ended /\ ~Ended'
  BY DEF KillChild, Ended
<1>2. Children' = Children /\ Leaving' = Leaving
  BY <1>1 DEF Children, Leaving
<1>3. TermedTracked'
  BY <1>1, <1>2 DEF IInv, TermedTracked, ChildrenTracked, SignalsOnlyChildren
<1>4. Separation'
  BY <1>1 DEF IInv, Separation
<1>5. Counting' /\ Terminating'
  BY <1>1 DEF IInv, Counting, Terminating
<1>6. Bounded'
  BY <1>1, <1>2 DEF IInv, Bounded, ChildBound
<1>7. NoLostSigchld' /\ OrphansTermed'
  BY <1>1 DEF IInv, NoLostSigchld, OrphansTermed
<1>8. QED
  BY <1>3, <1>4, <1>5, <1>6, <1>7 DEF IInv

(* The end of the SIGTERM branch: every running worker is in the kill list. *)
LEMMA TermDoneIInv == IInv /\ TypeOK' /\ TermDone => IInv'
<1> SUFFICES ASSUME IInv, TypeOK', TermDone PROVE IInv'
  OBVIOUS
<1>1. /\ pc = "term" /\ pc' = "wait" /\ m = {} /\ running_processes' = {} /\ exiting'
      /\ UNCHANGED <<exiting_processes, m, proc, termed, pending>>
      /\ ~Ended /\ ~Ended'
  BY DEF TermDone, Ended
<1>2. running_processes \subseteq exiting_processes
  BY <1>1 DEF IInv, Separation
<1>3. Children' = Children
  BY <1>1 DEF Children
<1>4. TermedTracked'
  BY <1>1, <1>2, <1>3 DEF IInv, TermedTracked, ChildrenTracked, SignalsOnlyChildren
<1>5. Separation' /\ Counting'
  BY <1>1 DEF Separation, Counting
<1>6. Terminating'
  BY <1>1 DEF IInv, Terminating
<1>7. Bounded'
  BY <1>1, <1>3 DEF IInv, Bounded, ChildBound
<1>8. NoLostSigchld' /\ OrphansTermed'
  BY <1>1 DEF IInv, NoLostSigchld, OrphansTermed
<1>9. QED
  BY <1>4, <1>5, <1>6, <1>7, <1>8 DEF IInv

(* waitpid() returned a child that is not a running worker. *)
LEMMA ReapExitingIInv ==
    ASSUME IInv, TypeOK', NEW p \in Pid, ReapExiting(p)
    PROVE  IInv'
<1>1. /\ pc = "reap" /\ pc' = pc /\ proc[p] = "zombie" /\ p \notin running_processes
      /\ proc' = [proc EXCEPT ![p] = "free"]
      /\ exiting_processes' = exiting_processes \ {p} /\ termed' = termed \ {p}
      /\ UNCHANGED <<running_processes, m, exiting>>
      /\ ~Ended /\ ~Ended'
  BY DEF ReapExiting, Reaped, Ended
<1>2. m = {} /\ running_processes \cap exiting_processes = {}
  BY <1>1 DEF IInv, Separation
<1>3. /\ Children' = Children \ {p}
      /\ Leaving' \in SUBSET Leaving
      /\ Children \in SUBSET Pid /\ Leaving \in SUBSET Pid
  BY <1>1 DEF Children, Leaving, IInv, TypeOK
<1>4. TermedTracked'
  BY <1>1, <1>2, <1>3 DEF IInv, TermedTracked, ChildrenTracked, SignalsOnlyChildren
<1>5. Separation'
  BY <1>1, <1>2 DEF Separation
<1>6. Counting' /\ Terminating'
  BY <1>1 DEF IInv, Counting, Terminating
<1>7. Bounded'
  <2>1. /\ Cardinality(Leaving') <= Cardinality(Leaving)
        /\ Cardinality(Children') <= Cardinality(Children)
    BY <1>3, CardSubset
  <2>2. /\ Cardinality(Leaving) \in Nat /\ Cardinality(Leaving') \in Nat
        /\ Cardinality(Children) \in Nat /\ Cardinality(Children') \in Nat
    BY <1>3, PidCard
  <2>3. QED
    BY <1>1, <2>1, <2>2, WorkersNat DEF IInv, Bounded, ChildBound
<1>8. NoLostSigchld' /\ OrphansTermed'
  BY <1>1 DEF NoLostSigchld, OrphansTermed
<1>9. QED
  BY <1>4, <1>5, <1>6, <1>7, <1>8 DEF IInv

(* waitpid() returned a running worker, and q takes its place. *)
LEMMA ReapRunningIInv ==
    ASSUME IInv, TypeOK', NEW p \in Pid, ReapRunning(p)
    PROVE  IInv'
<1>1. PICK q \in Pid :
         /\ Reaped(p)[q] = "free"
         /\ proc' = [Reaped(p) EXCEPT ![q] = "starting"]
         /\ running_processes' = (running_processes \ {p}) \cup {q}
  BY DEF ReapRunning
<1>2. /\ pc = "reap" /\ pc' = pc /\ proc[p] = "zombie" /\ p \in running_processes
      /\ exiting_processes' = exiting_processes \ {p} /\ termed' = termed \ {p}
      /\ UNCHANGED <<m, exiting>>
      /\ ~Ended /\ ~Ended'
  BY DEF ReapRunning, Ended
<1>3. /\ m = {} /\ running_processes \cap exiting_processes = {}
      /\ Children = running_processes \cup exiting_processes
  BY <1>2 DEF IInv, Separation, TermedTracked, ChildrenTracked
<1>4. /\ Children' = (Children \ {p}) \cup {q} /\ q \notin Children \ {p}
      /\ p \in Children
      /\ Children \in SUBSET Pid /\ running_processes \in SUBSET Pid
  BY <1>1, <1>2 DEF Children, Reaped, IInv, TypeOK
<1>5. ~exiting
  BY <1>2 DEF IInv, Terminating
<1>6. /\ Cardinality(Children') = Cardinality(Children)
      /\ Cardinality(running_processes') = Cardinality(running_processes)
  <2>1. ASSUME NEW A \in SUBSET Pid, p \in A, q \notin A \ {p}
        PROVE  Cardinality((A \ {p}) \cup {q}) = Cardinality(A)
    <3>1. Cardinality(A \ {p}) = Cardinality(A) - 1
      BY <2>1, CardRemove
    <3>2. Cardinality((A \ {p}) \cup {q}) = Cardinality(A \ {p}) + 1
      BY <2>1, CardAdd
    <3>3. QED
      BY <3>1, <3>2, PidCard
  <2>2. q \notin running_processes \ {p}
    BY <1>3, <1>4
  <2>3. QED
    BY <1>1, <1>2, <1>4, <2>1, <2>2
<1>7. TermedTracked'
  BY <1>1, <1>2, <1>3, <1>4 DEF IInv, TermedTracked, ChildrenTracked, SignalsOnlyChildren
<1>8. Separation'
  BY <1>1, <1>2, <1>3, <1>4 DEF Separation
<1>9. Counting' /\ Terminating'
  BY <1>2, <1>5, <1>6 DEF IInv, Counting, Terminating
<1>10. Bounded'
  <2>1. Leaving' = Leaving
    BY <1>1, <1>2, <1>3, <1>4 DEF Leaving
  <2>2. QED
    BY <1>2, <1>5, <1>6, <2>1 DEF IInv, Bounded, ChildBound
<1>11. NoLostSigchld' /\ OrphansTermed'
  BY <1>2 DEF NoLostSigchld, OrphansTermed
<1>12. QED
  BY <1>7, <1>8, <1>9, <1>10, <1>11 DEF IInv

LEMMA ReapRunningForkFailsIInv ==
    ASSUME IInv, TypeOK', NEW p \in Pid, ReapRunningForkFails(p)
    PROVE  IInv'
<1>1. /\ pc = "reap" /\ pc' = "aborted" /\ p \in running_processes
      /\ proc' = [proc EXCEPT ![p] = "free"]
      /\ exiting_processes' = exiting_processes \ {p} /\ termed' = termed \ {p}
      /\ UNCHANGED <<m, exiting>>
      /\ ~Ended /\ Ended'
  BY DEF ReapRunningForkFails, Reaped, Ended
<1>2. ~exiting /\ exiting' = exiting
  BY <1>1 DEF IInv, Terminating
<1>3. Children' = Children \ {p} /\ Children \in SUBSET Pid
  BY <1>1 DEF Children, IInv, TypeOK
<1>4. TermedTracked'
  BY <1>1, <1>3 DEF IInv, TermedTracked, ChildrenTracked, SignalsOnlyChildren
<1>5. Separation' /\ Counting' /\ Terminating'
  BY <1>1, <1>2 DEF Separation, Counting, Terminating
<1>6. Bounded'
  <2>1. Cardinality(Children') <= Cardinality(Children)
    BY <1>3, CardSubset
  <2>2. Cardinality(Children) \in Nat /\ Cardinality(Children') \in Nat
    BY <1>3, PidCard
  <2>3. QED
    BY <1>1, <2>1, <2>2, WorkersNat DEF IInv, Bounded, ChildBound
<1>7. NoLostSigchld' /\ OrphansTermed'
  BY <1>1 DEF NoLostSigchld, OrphansTermed
<1>8. QED
  BY <1>4, <1>5, <1>6, <1>7 DEF IInv

LEMMA NextIInv == IInv /\ [Next]_vars => IInv'
<1> SUFFICES ASSUME IInv, [Next]_vars PROVE IInv'
  OBVIOUS
<1>1. TypeOK'
  BY TypeCorrectStep DEF IInv
<1>2. CASE UNCHANGED vars
  BY <1>2
  DEF vars, masterVars, IInv, TypeOK, TermedTracked, ChildrenTracked,
      SignalsOnlyChildren, Separation, Counting, Terminating, Bounded,
      ChildBound, Leaving, NoLostSigchld, OrphansTermed, Children, Live, Ended
<1>3. CASE MasterStep
  <2>1. CASE SpawnChildWorkers BY <1>1, <2>1, SpawnIInv
  <2>2. CASE \/ SpawnChildWorkersDone \/ TakeSIGCHLD \/ TakeSIGINT
             \/ IgnoreSIGHUP \/ RetireDone \/ ReapDone
    BY <1>1, <2>2, QuietStepIInv
    DEF SpawnChildWorkersDone, TakeSIGCHLD, TakeSIGINT, IgnoreSIGHUP,
        RetireDone, ReapDone, masterVars
  <2>3. CASE TakeSIGTERM BY <1>1, <2>3, TakeSIGTERMIInv
  <2>4. CASE AcceptSIGHUP BY <1>1, <2>4, AcceptSIGHUPIInv
  <2>5. CASE \E p \in Pid : KillChild(p) BY <1>1, <2>5, KillChildIInv
  <2>6. CASE TermDone BY <1>1, <2>6, TermDoneIInv
  <2>7. CASE \E p \in Pid : Reap(p)
    BY <1>1, <2>7, ReapExitingIInv, ReapRunningIInv DEF Reap
  <2>8. QED
    BY <1>3, <2>1, <2>2, <2>3, <2>4, <2>5, <2>6, <2>7 DEF MasterStep
<1>4. CASE SpawnFails \/ SigwaitFails \/ ReloadInitFails
  BY <1>1, <1>4, QuietStepIInv DEF SpawnFails, SigwaitFails, ReloadInitFails, masterVars
<1>5. CASE \E p \in Pid : ReapRunningForkFails(p)
  BY <1>1, <1>5, ReapRunningForkFailsIInv
<1>6. CASE \E s \in Signal : SendSignal(s)
  BY <1>1, <1>6, EnvironmentIInv DEF SendSignal
<1>7. CASE \E p \in Pid : WorkerExits(p) \/ WorkerTerminates(p)
  BY <1>1, <1>7, EnvironmentIInv DEF WorkerExits, WorkerTerminates, Dies, Live
<1>8. CASE \E p \in Pid : WorkerStarts(p) \/ WorkerStopped(p)
  BY <1>1, <1>8, EnvironmentIInv DEF WorkerStarts, WorkerStopped
<1>9. QED
  BY <1>2, <1>3, <1>4, <1>5, <1>6, <1>7, <1>8 DEF Next, Disturbance

(* The inductive invariant holds in every reachable state. *)
THEOREM Invariance == Spec => []IInv
BY InitIInv, NextIInv, PTL DEF Spec

-----------------------------------------------------------------------------
(* The properties of Master that follow from it. *)

(* The maps of the master name exactly its unreaped children. *)
THEOREM ChildrenAreTracked == Spec => []ChildrenTracked
<1>1. IInv => ChildrenTracked
  BY DEF IInv, TermedTracked
<1>2. QED
  BY <1>1, Invariance, PTL

(* The master never sends SIGTERM to a process that is not its child. *)
THEOREM SignalsReachOnlyChildren == Spec => []SignalsOnlyChildren
<1>1. IInv => SignalsOnlyChildren
  BY DEF IInv, TermedTracked
<1>2. QED
  BY <1>1, Invariance, PTL

(* No death of a child goes unnoticed although SIGCHLD does not queue. *)
THEOREM SigchldNotLost == Spec => []NoLostSigchld
<1>1. IInv => NoLostSigchld
  BY DEF IInv
<1>2. QED
  BY <1>1, Invariance, PTL

(* The pool has exactly worker_processes() members between two handlers. *)
THEOREM PoolIsFull == Spec => []PoolFull
<1>1. IInv => PoolFull
  BY DEF IInv, Counting, PoolFull
<1>2. QED
  BY <1>1, Invariance, PTL

(* Through every reload worker_processes() children are not asked to leave. *)
THEOREM CapacityIsKept == Spec => []CapacityKept
<1>1. IInv => CapacityKept
  <2> SUFFICES ASSUME IInv, pc \in {"wait", "reap", "reload", "retire"}, ~exiting
               PROVE  Cardinality(Children \ termed) >= Workers
    BY DEF CapacityKept
  <2>1. /\ Children = running_processes \cup exiting_processes \cup m
        /\ termed = exiting_processes
    BY DEF IInv, TermedTracked, ChildrenTracked, Ended
  <2>2. PICK A \in SUBSET (Children \ termed) : Cardinality(A) = Workers
    <3>1. CASE pc = "reload"
      <4>1. m \subseteq Children \ termed /\ Cardinality(m) = Workers
        BY <2>1, <3>1 DEF IInv, Separation, Counting, Ended
      <4>2. QED
        BY <4>1
    <3>2. CASE pc # "reload"
      <4>1. /\ running_processes \subseteq Children \ termed
            /\ Cardinality(running_processes) = Workers
        BY <2>1, <3>2 DEF IInv, Separation, Counting, Ended
      <4>2. QED
        BY <4>1
    <3>3. QED
      BY <3>1, <3>2
  <2>3. Children \ termed \in SUBSET Pid
    BY DEF Children
  <2>4. QED
    BY <2>2, <2>3, CardSubset, PidCard, WorkersNat
<1>2. QED
  BY <1>1, Invariance, PTL

(* There are never more than two generations of workers. *)
THEOREM ChildrenAreBounded == Spec => []ChildBound
<1>1. IInv => ChildBound
  BY DEF IInv, Bounded
<1>2. QED
  BY <1>1, Invariance, PTL

(* Every worker that outlives the master was asked to terminate. *)
THEOREM OrphansAreTermed == Spec => []OrphansTermed
<1>1. IInv => OrphansTermed
  BY DEF IInv
<1>2. QED
  BY <1>1, Invariance, PTL

(* After SIGTERM has been handled no process is created any more. *)
THEOREM NoSpawnAfterSIGTERM == Spec => NoSpawnAfterTerm
<1>1. IInv /\ [Next]_vars => [exiting => Children' \subseteq Children]_vars
  <2> SUFFICES ASSUME IInv, Next, exiting PROVE Children' \subseteq Children
    BY DEF vars
  <2>1. running_processes = {}
    BY DEF IInv, Terminating
  <2>2. CASE SpawnChildWorkers
    <3>1. spawns > 0 /\ Workers = 0 /\ Cardinality(running_processes) + spawns = Workers
      BY <2>2 DEF SpawnChildWorkers, IInv, Terminating, Counting
    <3>2. Cardinality(running_processes) \in Nat /\ spawns \in Nat
      BY PidCard, WorkersNat DEF IInv, TypeOK
    <3>3. QED
      BY <3>1, <3>2
  <2>3. CASE \E p \in Pid : Reap(p) \/ ReapRunningForkFails(p)
    BY <2>1, <2>3
    DEF Reap, ReapExiting, ReapRunning, ReapRunningForkFails, Reaped, Children,
        IInv, TypeOK
  <2>4. CASE \E p \in Pid : \/ WorkerExits(p) \/ WorkerTerminates(p)
                            \/ WorkerStarts(p) \/ WorkerStopped(p)
    BY <2>4
    DEF WorkerExits, WorkerTerminates, WorkerStarts, WorkerStopped, Dies,
        Children, Live, IInv, TypeOK
  <2>5. CASE proc' = proc
    BY <2>5 DEF Children
  <2>6. QED
    BY <2>2, <2>3, <2>4, <2>5
    DEF Next, MasterStep, Disturbance, SpawnChildWorkersDone, TakeSIGCHLD,
        TakeSIGINT, TakeSIGTERM, IgnoreSIGHUP, AcceptSIGHUP, ReloadBegins,
        KillChild, RetireDone, TermDone, ReapDone, SpawnFails, SigwaitFails,
        ReloadInitFails, SendSignal
<1>2. QED
  BY <1>1, Invariance, PTL DEF Spec, NoSpawnAfterTerm

-----------------------------------------------------------------------------
(* The master implements the abstract pool of workers: every step of Master *)
(* is a step of Pool or leaves its variables alone, under the mapping P of  *)
(* Master.                                                                  *)

(* Pool takes Cardinality from its own copy of FiniteSets. *)
LEMMA SameCardinality ==
    ASSUME NEW S
    PROVE  P!Cardinality(S) = Cardinality(S)
BY DEF P!Cardinality, Cardinality

LEMMA InitImplements == Init => P!Init
<1> SUFFICES ASSUME Init PROVE P!Init
  OBVIOUS
<1>1. Phase = "up"
  BY DEF Init, Phase, Ended
<1>2. Children = {} /\ termed = {}
  BY DEF Init, Children
<1>3. QED
  BY <1>1, <1>2 DEF P!Init

(* A fork in the loop of SpawnChildWorkers is a Join. *)
LEMMA SpawnJoins ==
    ASSUME IInv, SpawnChildWorkers
    PROVE  \E p \in Pid : P!Join(p)
<1>1. PICK p \in Pid : /\ proc[p] = "free"
                       /\ proc' = [proc EXCEPT ![p] = "starting"]
                       /\ running_processes' = running_processes \cup {p}
  BY DEF SpawnChildWorkers
<1>2. /\ pc \in {"start", "reload"} /\ pc' = pc /\ spawns > 0
      /\ UNCHANGED <<exiting, termed>> /\ ~Ended
  BY DEF SpawnChildWorkers, Ended
<1>3. /\ running_processes \in SUBSET Pid /\ m \in SUBSET Pid /\ spawns \in Nat
      /\ Children' = Children \cup {p} /\ p \notin Children
  BY <1>1, WorkersNat DEF IInv, TypeOK, Children
<1>4. /\ Children = running_processes \cup m /\ termed = {} /\ Leaving = m
  BY <1>2 DEF IInv, TermedTracked, ChildrenTracked, Separation, Leaving
<1>5. /\ Cardinality(running_processes) \in Nat /\ Cardinality(m) \in Nat
      /\ Cardinality(running_processes) + spawns = Workers
  BY <1>2, <1>3, PidCard DEF IInv, Counting
<1>6. ~exiting
  <2>1. exiting => Workers = 0
    BY <1>2 DEF IInv, Terminating
  <2>2. QED
    BY <1>2, <1>3, <1>5, <2>1
<1>7. Phase = "up" /\ Phase' = "up"
  BY <1>2, <1>6 DEF Phase, Ended
<1>8. Cardinality(Children \ termed) < 2 * Workers
  <2>1. Cardinality(m) <= Workers
    BY <1>2, <1>4, <1>6 DEF IInv, Bounded
  <2>2. Cardinality(running_processes \cup m) <= Cardinality(running_processes) + Cardinality(m)
    BY <1>3, CardUnion
  <2>3. running_processes \cup m = Children \ termed
    BY <1>4
  <2>4. Cardinality(Children \ termed) <= Cardinality(running_processes) + Cardinality(m)
    BY <2>2, <2>3
  <2>5. Children \ termed \in SUBSET Pid
    BY DEF Children
  <2>6. Cardinality(Children \ termed) \in Nat /\ spawns > 0
    BY <1>2, <2>5, PidCard
  <2>7. QED
    BY <1>3, <1>5, <2>1, <2>4, <2>6, WorkersNat
<1>9. P!Join(p)
  BY <1>2, <1>3, <1>4, <1>7, <1>8, SameCardinality DEF P!Join
<1>10. QED
  BY <1>9

(* A kill() is a Retire in a reload, with enough workers besides, and a     *)
(* Dismiss on SIGTERM.                                                      *)
LEMMA KillRetiresOrDismisses ==
    ASSUME IInv, NEW p \in Pid, KillChild(p)
    PROVE  P!Retire(p) \/ P!Dismiss(p)
<1>1. /\ pc \in {"retire", "term"} /\ pc' = pc /\ p \in m
      /\ termed' = termed \cup {p} /\ UNCHANGED <<exiting, proc>> /\ ~Ended
  BY DEF KillChild, Ended
<1>2. /\ Children = running_processes \cup exiting_processes \cup m
      /\ termed = exiting_processes /\ p \notin exiting_processes
      /\ Children' = Children /\ ~exiting
  BY <1>1 DEF IInv, TermedTracked, ChildrenTracked, Separation, Terminating, Children
<1>3. CASE pc = "retire"
  <2>1. Phase = "up" /\ Phase' = "up"
    BY <1>1, <1>2, <1>3 DEF Phase, Ended
  <2>2. Cardinality(Children \ termed) > Workers
    <3>1. /\ running_processes \in SUBSET Pid /\ Children \ termed \in SUBSET Pid
          /\ p \notin running_processes
          /\ running_processes \cup {p} \in SUBSET (Children \ termed)
          /\ Cardinality(running_processes) = Workers
      BY <1>1, <1>2, <1>3 DEF IInv, TypeOK, Separation, Counting, Children
    <3>2. Cardinality(running_processes \cup {p}) = Workers + 1
      BY <3>1, CardAdd
    <3>3. Cardinality(running_processes \cup {p}) <= Cardinality(Children \ termed)
      BY <3>1, CardSubset
    <3>4. QED
      BY <3>1, <3>2, <3>3, PidCard, WorkersNat
  <2>3. QED
    BY <1>1, <1>2, <2>1, <2>2, SameCardinality DEF P!Retire
<1>4. CASE pc = "term"
  <2>1. Phase = "down" /\ Phase' = "down"
    BY <1>1, <1>4 DEF Phase, Ended
  <2>2. QED
    BY <1>1, <1>2, <2>1 DEF P!Dismiss
<1>5. QED
  BY <1>1, <1>3, <1>4

(* Reaping: a child that was asked to leave has left, a worker is replaced. *)
LEMMA ReapLeavesOrReplaces ==
    ASSUME IInv, NEW p \in Pid, Reap(p)
    PROVE  P!Leave(p) \/ \E q \in Pid : P!Replace(p, q)
<1>1. /\ pc = "reap" /\ pc' = pc /\ proc[p] = "zombie" /\ termed' = termed \ {p}
      /\ UNCHANGED exiting /\ ~Ended
  BY DEF Reap, ReapExiting, ReapRunning, Ended
<1>2. /\ Children = running_processes \cup exiting_processes
      /\ termed = exiting_processes
      /\ running_processes \cap exiting_processes = {}
      /\ p \in Children /\ proc \in [Pid -> {"free", "starting", "serving", "zombie"}]
  BY <1>1 DEF IInv, TypeOK, TermedTracked, ChildrenTracked, Separation, Children
<1>3. CASE ReapExiting(p)
  <2>1. Children' = Children \ {p} /\ p \in termed
    BY <1>2, <1>3 DEF ReapExiting, Reaped, Children
  <2>2. Phase \in {"up", "down"} /\ Phase' = Phase
    BY <1>1 DEF Phase, Ended
  <2>3. QED
    BY <1>1, <1>2, <2>1, <2>2 DEF P!Leave
<1>4. CASE ReapRunning(p)
  <2>1. PICK q \in Pid : /\ Reaped(p)[q] = "free"
                         /\ proc' = [Reaped(p) EXCEPT ![q] = "starting"]
    BY <1>4 DEF ReapRunning
  <2>2. /\ Children' = (Children \ {p}) \cup {q} /\ q \notin Children \ {p}
        /\ p \in running_processes
    BY <1>2, <1>4, <2>1 DEF ReapRunning, Reaped, Children
  <2>3. ~exiting
    BY <2>2 DEF IInv, Terminating
  <2>4. Phase = "up" /\ Phase' = "up"
    BY <1>1, <2>3 DEF Phase, Ended
  <2>5. P!Replace(p, q)
    BY <1>1, <1>2, <2>2, <2>4 DEF P!Replace
  <2>6. QED
    BY <2>5
<1>5. QED
  BY <1>3, <1>4 DEF Reap

(* A failing call is a GiveUp. *)
LEMMA FailureGivesUp ==
    ASSUME IInv,
           \/ SpawnFails \/ SigwaitFails
           \/ \E p \in Pid : ReapRunningForkFails(p)
    PROVE  P!GiveUp
<1>1. Phase \in {"up", "down"} /\ Phase' = "gone"
  BY DEF SpawnFails, SigwaitFails, ReapRunningForkFails, Phase, Ended
<1>2. CASE SpawnFails \/ SigwaitFails
  <2>1. Children' = Children /\ termed' = termed
    BY <1>2 DEF SpawnFails, SigwaitFails, Children
  <2>2. Cardinality({}) <= 1 /\ {} \in SUBSET (Children \ termed)
    BY FS_EmptySet
  <2>3. QED
    BY <1>1, <2>1, <2>2, SameCardinality DEF P!GiveUp
<1>3. ASSUME NEW p \in Pid, ReapRunningForkFails(p) PROVE P!GiveUp
  <2>1. /\ pc = "reap" /\ p \in running_processes /\ ~Ended
        /\ proc' = [proc EXCEPT ![p] = "free"] /\ termed' = termed \ {p}
    BY <1>3 DEF ReapRunningForkFails, Reaped, Ended
  <2>2. p \in Children \ termed /\ termed' = termed
    BY <2>1 DEF IInv, TermedTracked, ChildrenTracked, Separation
  <2>3. Children' = Children \ {p}
    BY <2>1 DEF Children, IInv, TypeOK
  <2>4. Cardinality({p}) = 1 /\ {p} \in SUBSET (Children \ termed)
    <3>1. Cardinality({p}) = 1
      BY FS_Singleton, Zenon
    <3>2. QED
      BY <2>2, <3>1
  <2>5. (Children \ termed)' = (Children \ termed) \ {p}
    BY <2>2, <2>3
  <2>6. QED
    BY <1>1, <2>2, <2>4, <2>5, SameCardinality DEF P!GiveUp
<1>4. QED
  BY <1>2, <1>3

(* SIGTERM is a Stop, unless it came before, and the end of the loop is Over. *)
LEMMA SigtermStops == IInv /\ TakeSIGTERM => P!Stop \/ UNCHANGED P!vars
<1> SUFFICES ASSUME IInv, TakeSIGTERM PROVE P!Stop \/ UNCHANGED P!vars
  OBVIOUS
<1>1. /\ pc = "wait" /\ pc' = "term" /\ UNCHANGED <<exiting, proc, termed>>
  BY DEF TakeSIGTERM, Dequeue
<1>2. Phase = (IF exiting THEN "down" ELSE "up") /\ Phase' = "down"
  BY <1>1 DEF Phase, Ended
<1>3. Children' = Children
  BY <1>1 DEF Children
<1>4. QED
  BY <1>1, <1>2, <1>3 DEF P!Stop, P!vars

LEMMA ReapDoneEnds == IInv /\ ReapDone => P!Over \/ UNCHANGED P!vars
<1> SUFFICES ASSUME IInv, ReapDone PROVE P!Over \/ UNCHANGED P!vars
  OBVIOUS
<1>1. /\ pc = "reap" /\ pc' = (IF exiting THEN "exited" ELSE "wait")
      /\ UNCHANGED <<exiting, proc, termed>> /\ ~Ended
  BY DEF ReapDone, Ended
<1>2. Children' = Children
  BY <1>1 DEF Children
<1>3. CASE exiting
  <2>1. Children \ termed = {}
    BY <1>1, <1>3 DEF IInv, TermedTracked, ChildrenTracked, Terminating
  <2>2. Phase = "down" /\ Phase' = "over"
    BY <1>1, <1>3 DEF Phase, Ended
  <2>3. QED
    BY <1>1, <1>2, <2>1, <2>2 DEF P!Over
<1>4. CASE ~exiting
  <2>1. Phase = "up" /\ Phase' = "up"
    BY <1>1, <1>4 DEF Phase, Ended
  <2>2. QED
    BY <1>1, <1>2, <2>1 DEF P!vars
<1>5. QED
  BY <1>3, <1>4

(* All other steps of the master and its environment are invisible. *)
LEMMA Invisible ==
    ASSUME IInv,
           \/ SpawnChildWorkersDone \/ TakeSIGCHLD \/ TakeSIGINT \/ IgnoreSIGHUP
           \/ AcceptSIGHUP \/ RetireDone \/ TermDone \/ ReloadInitFails
           \/ \E s \in Signal : SendSignal(s)
           \/ \E p \in Pid : \/ WorkerExits(p) \/ WorkerStopped(p)
                             \/ WorkerStarts(p) \/ WorkerTerminates(p)
           \/ UNCHANGED vars
    PROVE  UNCHANGED P!vars
<1>1. termed' = termed
  BY DEF SpawnChildWorkersDone, TakeSIGCHLD, TakeSIGINT, IgnoreSIGHUP,
         AcceptSIGHUP, ReloadBegins, RetireDone, TermDone, ReloadInitFails,
         SendSignal, WorkerExits, WorkerStopped, WorkerStarts,
         WorkerTerminates, Dies, vars
<1>2. Phase' = Phase
  BY DEF SpawnChildWorkersDone, TakeSIGCHLD, TakeSIGINT, IgnoreSIGHUP,
         AcceptSIGHUP, ReloadBegins, RetireDone, TermDone, ReloadInitFails,
         SendSignal, WorkerExits, WorkerStopped, WorkerStarts,
         WorkerTerminates, Dies, Dequeue, vars, masterVars, Phase, Ended
<1>3. Children' = Children
  <2>1. CASE \E p \in Pid : \/ WorkerExits(p) \/ WorkerStopped(p)
                            \/ WorkerStarts(p) \/ WorkerTerminates(p)
    BY <2>1
    DEF WorkerExits, WorkerStopped, WorkerStarts, WorkerTerminates, Dies,
        Live, Children, IInv, TypeOK
  <2>2. CASE proc' = proc
    BY <2>2 DEF Children
  <2>3. QED
    BY <2>1, <2>2
    DEF SpawnChildWorkersDone, TakeSIGCHLD, TakeSIGINT, IgnoreSIGHUP,
        AcceptSIGHUP, ReloadBegins, RetireDone, TermDone, ReloadInitFails,
        SendSignal, vars
<1>4. QED
  BY <1>1, <1>2, <1>3 DEF P!vars

LEMMA StepImplements == IInv /\ [Next]_vars => [P!Next]_(P!vars)
<1> SUFFICES ASSUME IInv, [Next]_vars PROVE P!Next \/ UNCHANGED P!vars
  OBVIOUS
<1>1. CASE SpawnChildWorkers
  BY <1>1, SpawnJoins DEF P!Next
<1>2. CASE \E p \in Pid : KillChild(p)
  BY <1>2, KillRetiresOrDismisses DEF P!Next
<1>3. CASE \E p \in Pid : Reap(p)
  BY <1>3, ReapLeavesOrReplaces DEF P!Next
<1>4. CASE SpawnFails \/ SigwaitFails \/ \E p \in Pid : ReapRunningForkFails(p)
  BY <1>4, FailureGivesUp DEF P!Next
<1>5. CASE TakeSIGTERM
  BY <1>5, SigtermStops DEF P!Next
<1>6. CASE ReapDone
  BY <1>6, ReapDoneEnds DEF P!Next
<1>7. CASE \/ SpawnChildWorkersDone \/ TakeSIGCHLD \/ TakeSIGINT \/ IgnoreSIGHUP
           \/ AcceptSIGHUP \/ RetireDone \/ TermDone \/ ReloadInitFails
           \/ \E s \in Signal : SendSignal(s)
           \/ \E p \in Pid : \/ WorkerExits(p) \/ WorkerStopped(p)
                             \/ WorkerStarts(p) \/ WorkerTerminates(p)
           \/ UNCHANGED vars
  BY <1>7, Invisible
<1>8. QED
  BY <1>1, <1>2, <1>3, <1>4, <1>5, <1>6, <1>7 DEF Next, MasterStep, Disturbance

(* Master implements Pool. *)
THEOREM Implementation == Spec => PoolSpec
BY InitImplements, StepImplements, Invariance, PTL DEF Spec, PoolSpec, P!Spec

=============================================================================
