---------------------------- MODULE SystemProofs ----------------------------
(***************************************************************************)
(* The composition of System, for any number of invocations, process ids   *)
(* and workers: it is an implementation of Daemon, the invariant of Master *)
(* survives in it, and a -k that succeeded leaves no worker behind that    *)
(* was not told to end.                                                    *)
(***************************************************************************)
EXTENDS System, MasterProofs

(* Each step of the system is a step of Daemon or leaves Daemon alone. *)
LEMMA StepIsDaemonStep == [SysNext]_sysvars => [D!Next]_(D!vars)
<1> SUFFICES ASSUME [SysNext]_sysvars PROVE [D!Next]_(D!vars)
  OBVIOUS
<1> USE DEF D!Next, D!DaemonStep, D!Kill, D!Reload
<1>1. CASE OutsideRunMaster
  BY <1>1 DEF OutsideRunMaster
<1>2. ASSUME NEW d \in Starts, EnterRunMaster(d) PROVE D!Next
  BY <1>2 DEF EnterRunMaster
<1>3. CASE CommandSignals
  BY <1>3 DEF CommandSignals
<1>4. CASE RunMasterStep
  <2>1. PICK d \in Starts : HandlesSIGHUP(d) \/ Works(d) \/ Returns(d)
    BY <1>4 DEF RunMasterStep
  <2>2. CASE HandlesSIGHUP(d)
    BY <2>2 DEF HandlesSIGHUP
  <2>3. CASE Works(d)
    BY <2>3 DEF Works, commandVars, D!vars, D!daemonVars
  <2>4. CASE Returns(d)
    BY <2>4 DEF Returns
  <2>5. QED
    BY <2>1, <2>2, <2>3, <2>4
<1>5. CASE RunMasterFails
  BY <1>5 DEF RunMasterFails
<1>6. CASE MasterCrashes
  BY <1>6 DEF MasterCrashes
<1>7. CASE WorkerDisturbs \/ \E p \in Pid : WorkerStep(p)
  BY <1>7 DEF WorkerDisturbs, WorkerStep, commandVars, D!vars, D!daemonVars
<1>8. CASE UNCHANGED sysvars
  BY <1>8 DEF sysvars, commandVars, D!vars, D!daemonVars
<1>9. QED
  BY <1>1, <1>2, <1>3, <1>4, <1>5, <1>6, <1>7, <1>8 DEF SysNext

(* The system implements Daemon: what Daemon leaves open about RunMaster is *)
(* filled by Master and its workers without a step Daemon does not have, so *)
(* the theorems about Daemon hold of the system.                            *)
THEOREM DaemonImplemented == SysSpec => D!Spec
<1>1. SysInit => D!Init
  BY DEF SysInit
<1>2. QED
  BY <1>1, StepIsDaemonStep, PTL DEF SysSpec, D!Spec

-----------------------------------------------------------------------------
LEMMA InitSysInv == SysInit => SysInv
<1> SUFFICES ASSUME SysInit PROVE SysInv
  OBVIOUS
<1>1. IInv
  BY InitIInv DEF SysInit
<1>2. Followed
  BY NoPidAssumption
     DEF SysInit, Init, D!Init, D!DaemonPC, Followed, Serves, Ended
<1>3. QED
  BY <1>1, <1>2 DEF SysInv

(* Where the system moves, Master does, but for two steps. *)
LEMMA StepOfMaster ==
    ASSUME SysInv, SysNext
    PROVE  \/ [Next]_vars
           \/ \E d \in Starts : EnterRunMaster(d)
           \/ MasterCrashes
<1>1. CASE OutsideRunMaster
  BY <1>1 DEF OutsideRunMaster
<1>2. CASE CommandSignals
  <2>1. PICK s \in {"SIGTERM", "SIGHUP"} : Deliver(s)
    BY <1>2 DEF CommandSignals
  <2>2. CASE D!IsRunning /\ Serves(pid_file)
    <3>1. pid_file \in Starts
      BY <2>2 DEF D!IsRunning, SysInv, Followed
    <3>2. SendSignal(s)
      BY <2>1, <2>2, <3>1 DEF Deliver, SendSignal, Signal, SysInv, Followed
    <3>3. QED
      BY <3>2, <2>1 DEF Next, Disturbance, Signal
  <2>3. CASE ~(D!IsRunning /\ Serves(pid_file))
    BY <2>1, <2>3 DEF Deliver, vars
  <2>4. QED
    BY <2>2, <2>3
<1>3. CASE RunMasterStep
  BY <1>3 DEF RunMasterStep, HandlesSIGHUP, Works, Returns, Next, MasterStep
<1>4. CASE RunMasterFails
  BY <1>4 DEF RunMasterFails, Next, Disturbance
<1>5. CASE WorkerDisturbs \/ \E p \in Pid : WorkerStep(p)
  BY <1>5 DEF WorkerDisturbs, WorkerStep, Next, Disturbance
<1>6. QED
  BY <1>1, <1>2, <1>3, <1>4, <1>5 DEF SysNext

LEMMA SysStepIInv == SysInv /\ [SysNext]_sysvars => IInv'
<1> SUFFICES ASSUME SysInv, [SysNext]_sysvars PROVE IInv'
  OBVIOUS
<1>1. CASE [Next]_vars
  BY <1>1, NextIInv DEF SysInv
<1>2. ASSUME NEW d \in Starts, EnterRunMaster(d) PROVE IInv'
  <2> USE <1>2 DEF EnterRunMaster, SysInv, Followed, Init, masterVars
  <2>1. TypeOK'
    BY DEF IInv, TypeOK, Signal
  <2>2. Children' = Children /\ Live' = Live /\ Leaving' = Leaving /\ Ended' = Ended
    BY DEF Children, Live, Leaving, Ended
  <2>3. TermedTracked' /\ Separation' /\ Counting' /\ Terminating' /\ Bounded'
    BY <2>2 DEF IInv, TermedTracked, ChildrenTracked, SignalsOnlyChildren, Separation,
                Counting, Terminating, Bounded, ChildBound
  <2>4. NoLostSigchld' /\ OrphansTermed'
    BY DEF NoLostSigchld, OrphansTermed
  <2>5. QED
    BY <2>1, <2>3, <2>4 DEF IInv
<1>3. CASE MasterCrashes
  <2> USE <1>3 DEF MasterCrashes, SysInv
  <2>1. TypeOK'
    BY DEF IInv, TypeOK, PC
  <2>2. Children' = Children /\ Ended'
    BY DEF Children, Ended
  <2>3. TermedTracked' /\ Separation' /\ Counting' /\ Terminating' /\ Bounded'
    BY <2>2 DEF IInv, TermedTracked, ChildrenTracked, SignalsOnlyChildren, Separation,
                Counting, Terminating, Bounded, ChildBound
  <2>4. NoLostSigchld' /\ OrphansTermed'
    BY <2>2 DEF NoLostSigchld, OrphansTermed
  <2>5. QED
    BY <2>1, <2>3, <2>4 DEF IInv
<1>4. QED
  BY <1>1, <1>2, <1>3, StepOfMaster DEF sysvars

-----------------------------------------------------------------------------
(* Followed, in the steps outside RunMaster. *)
LEMMA OutsideFollowed ==
    ASSUME SysInv, OutsideRunMaster
    PROVE  Followed'
<1> USE NoPidAssumption DEF SysInv, Followed, Serves, D!DaemonPC
<1>1. Init' = Init /\ Ended' = Ended /\ pc' = pc
  BY DEF OutsideRunMaster, Init, Ended, vars, masterVars
<1>2. ASSUME NEW c \in Starts, D!Start(c) \/ D!StartFails(c) PROVE Followed'
  BY <1>1, <1>2 DEF D!Start, D!StartChecks, D!StartForks, D!StartAnswered,
     D!StartUnanswered, D!StartFails, D!DropStale, D!daemonVars
<1>3. ASSUME NEW d \in Starts,
             \/ D!CreatePidFile(d) \/ D!CreateFails(d) \/ D!CloseAllFails(d)
             \/ D!SendsSuccess(d) \/ D!Finishes(d) \/ D!RemovesPidFile(d)
             \/ D!Exits(d) \/ D!DefaultAction(d)
             \/ ~Serves(d) /\ (D!MainFails(d) \/ D!Crashes(d))
      PROVE  Followed'
  BY <1>1, <1>3 DEF D!CreatePidFile, D!CreateFails, D!CloseAllFails, D!Fails,
     D!SendsSuccess, D!Finishes, D!RemovesPidFile, D!Exits, D!DefaultAction,
     D!MainFails, D!MainReturns, D!Crashes, D!Dies
<1>4. ASSUME NEW c, \/ D!CommandChecks(c) \/ D!KillSucceeds(c) \/ D!KillTimesOut(c)
                    \/ D!StatusChecks(c)
      PROVE  Followed'
  BY <1>1, <1>4 DEF D!CommandChecks, D!KillSucceeds, D!KillTimesOut,
     D!StatusChecks, D!DropStale, D!daemonVars
<1>5. QED
  BY <1>2, <1>3, <1>4 DEF OutsideRunMaster

LEMMA EnterFollowed ==
    ASSUME SysInv, NEW d \in Starts, EnterRunMaster(d)
    PROVE  Followed'
<1>1. Serves(d)' /\ blocked' = {d} /\ ~Ended'
  BY DEF EnterRunMaster, D!BlocksSignals, SysInv, Followed, Serves, Init, Ended,
         masterVars
<1>2. QED
  BY <1>1, NoPidAssumption
     DEF EnterRunMaster, D!BlocksSignals, SysInv, Followed, Serves, D!DaemonPC

LEMMA SignalsFollowed ==
    ASSUME SysInv, CommandSignals
    PROVE  Followed'
<1> USE DEF SysInv, Followed, Serves, D!DaemonPC
<1>1. /\ UNCHANGED <<daemon, main, blocked, masterVars>>
      /\ pid_file' \in Starts \cup {NoPid}
  BY DEF CommandSignals, D!KillSignals, D!ReloadSignals, D!DropStale, Deliver,
         D!daemonVars
<1>2. signals' \in [Starts -> SUBSET {"SIGTERM", "SIGHUP"}]
  BY DEF CommandSignals, D!KillSignals, D!ReloadSignals, D!Signal, D!IsRunning
<1>3. blocked = {} => UNCHANGED vars
  BY DEF CommandSignals, Deliver, D!IsRunning, vars, masterVars
<1>4. Ended' = Ended
  BY <1>1 DEF Ended, masterVars
<1>5. blocked' = {} => Init'
  BY <1>1, <1>3 DEF Init, vars, masterVars
<1>6. QED
  BY <1>1, <1>2, <1>4, <1>5 DEF masterVars

(* A step of RunMaster in d is one of the only daemon that has entered it. *)
LEMMA ServingFollowed ==
    ASSUME SysInv, NEW d \in Starts, Serves(d),
           pid_file' = pid_file, blocked' = blocked,
           daemon' \in [Starts -> D!DaemonPC], main' \in [Starts -> {0, 1, NoPid}],
           signals' \in [Starts -> SUBSET {"SIGTERM", "SIGHUP"}],
           \A e \in Starts : e # d => daemon'[e] = daemon[e] /\ main'[e] = main[e],
           Serves(d)' => ~Ended' /\ main'[d] = main[d],
           main'[d] = main[d] \/ main'[d] = 1 \/ pc' = "exited"
    PROVE  Followed'
<1> USE NoPidAssumption DEF SysInv, Followed
<1>1. d \in blocked /\ \A e \in blocked : e = d
  OBVIOUS
<1>2. main[d] # 0
  OBVIOUS
<1>3. \A e \in Starts : e # d => ~Serves(e) /\ ~Serves(e)' /\ main'[e] # 0
  BY <1>1 DEF Serves
<1>4. QED
  BY <1>1, <1>2, <1>3 DEF Serves

LEMMA RunMasterFollowed ==
    ASSUME SysInv, RunMasterStep \/ RunMasterFails \/ MasterCrashes
    PROVE  Followed'
<1>1. PICK d \in Starts :
          /\ Serves(d)
          /\ \/ HandlesSIGHUP(d) \/ Works(d) \/ Returns(d)
             \/ ReloadInitFails /\ D!MainReloads(d)
             \/ SigwaitFails /\ D!MainFails(d)
             \/ (SpawnFails \/ \E p \in Pid : ReapRunningForkFails(p)) /\ D!Crashes(d)
             \/ MasterCrashes /\ D!Crashes(d)
  BY DEF RunMasterStep, RunMasterFails, MasterCrashes
<1> USE <1>1, NoPidAssumption DEF SysInv, Followed, Serves, D!DaemonPC
<1>2. CASE D!Crashes(d)
  BY <1>2, ServingFollowed DEF D!Crashes, D!Dies
<1>3. CASE SigwaitFails /\ D!MainFails(d)
  BY <1>3, ServingFollowed DEF D!MainFails, D!MainReturns
<1>4. CASE Returns(d)
  BY <1>4, ServingFollowed DEF Returns, ReapDone, D!MainTerminates, D!MainReturns
<1>5. CASE Works(d)
  <2>1. ~Ended'
    BY <1>5 DEF Works, Ended, SpawnChildWorkers, SpawnChildWorkersDone, TakeSIGCHLD,
       TakeSIGTERM, RetireDone, TermDone, KillChild, Reap, ReapExiting, ReapRunning,
       ReapDone, Dequeue
  <2>2. QED
    BY <1>5, <2>1, ServingFollowed DEF Works, commandVars
<1>6. CASE D!MainReloads(d) /\ (HandlesSIGHUP(d) \/ ReloadInitFails)
  <2>1. ~Ended'
    BY <1>6 DEF HandlesSIGHUP, Ended, IgnoreSIGHUP, AcceptSIGHUP, ReloadBegins,
       ReloadInitFails, Dequeue, masterVars
  <2>2. QED
    BY <1>6, <2>1, ServingFollowed DEF D!MainReloads, D!daemonVars
<1>7. QED
  BY <1>2, <1>3, <1>4, <1>5, <1>6 DEF HandlesSIGHUP

(* The workers: before RunMaster there are none. *)
LEMMA WorkersFollowed ==
    ASSUME SysInv, WorkerDisturbs \/ \E p \in Pid : WorkerStep(p)
    PROVE  Followed'
<1> USE DEF SysInv, Followed
<1>1. UNCHANGED masterVars /\ UNCHANGED commandVars
  BY DEF WorkerDisturbs, WorkerStep, WorkerStarts, WorkerTerminates, WorkerExits,
         WorkerStopped, Dies
<1>2. blocked # {}
  BY DEF WorkerDisturbs, WorkerStep, WorkerStarts, WorkerTerminates, WorkerExits,
         WorkerStopped, Live, Init
<1>3. QED
  BY <1>1, <1>2 DEF Serves, Ended, masterVars, commandVars

LEMMA SysStepInv == SysInv /\ [SysNext]_sysvars => SysInv'
<1> SUFFICES ASSUME SysInv, [SysNext]_sysvars PROVE Followed'
  BY SysStepIInv DEF SysInv
<1>1. CASE UNCHANGED sysvars
  BY <1>1 DEF SysInv, Followed, Serves, Ended, Init, sysvars, vars, masterVars, commandVars
<1>2. CASE SysNext
  BY <1>2, OutsideFollowed, EnterFollowed, SignalsFollowed, RunMasterFollowed,
     WorkersFollowed DEF SysNext
<1>3. QED
  BY <1>1, <1>2

(* The invariant of Master holds in the system too, and RunMaster is over   *)
(* where it should be.                                                      *)
THEOREM SystemInvariance == SysSpec => []SysInv
BY InitSysInv, SysStepInv, PTL DEF SysSpec

(* When a -k has reported success and RunMaster returned because of it, no  *)
(* worker is alive that was not told to end.                                *)
THEOREM KillDismisses == SysSpec => []KilledDismisses
<1>1. SysInv => KilledDismisses
  BY DEF SysInv, Followed, IInv, OrphansTermed, KilledDismisses
<1>2. QED
  BY <1>1, SystemInvariance, PTL

=============================================================================
