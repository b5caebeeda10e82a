---------------------------- MODULE DaemonProofs ----------------------------
(***************************************************************************)
(* What the pid file and the exit codes of Daemon can be relied on for,    *)
(* for any number of invocations of each kind.  The properties follow from *)
(* the inductive invariant IInv of Daemon.                                 *)
(***************************************************************************)
EXTENDS Daemon, TLAPS

LEMMA InitIInv == Init => IInv
<1> SUFFICES ASSUME Init PROVE IInv
  OBVIOUS
<1>1. TypeOK
  BY DEF Init, TypeOK, DaemonPC
<1>2. Forked /\ RaceLost /\ PipeHonest /\ Owned
  BY DEF Init, Forked, RaceLost, PipeHonest, Owned, Commands
<1>3. StartHonest
  BY DEF Init, StartHonest, Commands
<1>4. QED
  BY <1>1, <1>2, <1>3 DEF IInv

-----------------------------------------------------------------------------
(* The steps of Next. *)
LEMMA TypeCorrectStep == TypeOK /\ [Next]_vars => TypeOK'
<1> SUFFICES ASSUME TypeOK, [Next]_vars PROVE TypeOK'
  OBVIOUS
<1> USE DEF TypeOK, DaemonPC, Commands
<1>1. ASSUME NEW c \in Starts, Start(c) \/ StartFails(c) PROVE TypeOK'
  BY <1>1 DEF Start, StartChecks, StartForks, StartAnswered, StartUnanswered,
              StartFails, DropStale, Exit, Goto, daemonVars
<1>2. ASSUME NEW d \in Starts,
             \/ CreatePidFile(d) \/ CreateFails(d) \/ CloseAllFails(d)
             \/ SendsSuccess(d) \/ BlocksSignals(d) \/ MainTerminates(d)
             \/ MainFails(d) \/ MainReloads(d)
      PROVE  TypeOK'
  BY <1>2 DEF CreatePidFile, CreateFails, CloseAllFails, Fails, SendsSuccess,
              BlocksSignals, MainTerminates, MainFails, MainReturns, MainReloads,
              daemonVars
<1>3. ASSUME NEW d \in Starts,
             \/ Finishes(d) \/ RemovesPidFile(d) \/ Exits(d)
             \/ DefaultAction(d) \/ Crashes(d)
      PROVE  TypeOK'
  BY <1>3 DEF Finishes, RemovesPidFile, Exits, DefaultAction, Crashes, Dies
<1>4. ASSUME NEW c \in Kills \cup Reloads, CommandChecks(c) PROVE TypeOK'
  BY <1>4 DEF CommandChecks, DropStale, Exit, Goto, daemonVars
<1>5. ASSUME NEW c \in Reloads, ReloadSignals(c) PROVE TypeOK'
  BY <1>5 DEF ReloadSignals, DropStale, Exit, Signal, IsRunning, daemonVars
<1>6. ASSUME NEW c \in Kills, KillSignals(c) \/ KillSucceeds(c) \/ KillTimesOut(c)
      PROVE  TypeOK'
  BY <1>6 DEF KillSignals, KillSucceeds, KillTimesOut, DropStale, Exit, Goto,
              Signal, IsRunning, daemonVars
<1>7. ASSUME NEW c \in Statuses, StatusChecks(c) PROVE TypeOK'
  BY <1>7 DEF StatusChecks, DropStale, Exit, daemonVars
<1>8. CASE UNCHANGED vars
  BY <1>8 DEF vars, daemonVars
<1>9. QED
  BY <1>1, <1>2, <1>3, <1>4, <1>5, <1>6, <1>7, <1>8
     DEF Next, DaemonStep, Kill, Reload

(* The parent of a start, before and after the fork. *)
LEMMA StartIInv ==
    ASSUME IInv, NEW c \in Starts, Start(c) \/ StartFails(c), TypeOK'
    PROVE  IInv'
<1> USE NoPidAssumption, KindsAssumption DEF IInv, TypeOK, Commands
<1>1. ASSUME ~StartForks(c) PROVE UNCHANGED <<daemonVars, target, signals>>
  BY <1>1 DEF Start, StartChecks, StartAnswered, StartUnanswered, StartFails
<1>2. Forked'
  BY <1>1 DEF Forked, Start, StartChecks, StartForks, StartAnswered,
              StartUnanswered, StartFails, Exit, Goto, daemonVars
<1>3. RaceLost' /\ PipeHonest'
  BY <1>1 DEF RaceLost, PipeHonest, Forked, Start, StartChecks, StartForks,
              StartAnswered, StartUnanswered, StartFails, Exit, Goto, daemonVars
<1>4. Owned'
  BY <1>1 DEF Owned, Start, StartChecks, StartForks, StartAnswered,
              StartUnanswered, StartFails, DropStale, IsRunning, Alive, daemonVars
<1>5. StartHonest'
  BY <1>1 DEF StartHonest, PipeHonest, RaceLost, Running, Start, StartChecks,
              StartForks, StartAnswered, StartUnanswered, StartFails, Exit, Goto,
              daemonVars
<1>6. QED
  BY <1>2, <1>3, <1>4, <1>5

(* The daemon, up to the end of its main routine. *)
LEMMA MainIInv ==
    ASSUME IInv, NEW d \in Starts, TypeOK',
           \/ CreatePidFile(d) \/ CreateFails(d) \/ CloseAllFails(d)
           \/ SendsSuccess(d) \/ BlocksSignals(d) \/ MainTerminates(d)
           \/ MainFails(d) \/ MainReloads(d)
    PROVE  IInv'
<1> USE NoPidAssumption DEF IInv, TypeOK, Commands, CreatePidFile, CreateFails,
        CloseAllFails, Fails, SendsSuccess, BlocksSignals, MainTerminates,
        MainFails, MainReturns, MainReloads, daemonVars
<1>1. Forked'
  BY DEF Forked
<1>2. RaceLost'
  BY DEF RaceLost
<1>3. PipeHonest'
  BY DEF PipeHonest, RaceLost
<1>4. Owned'
  BY DEF Owned
<1>5. StartHonest'
  BY DEF StartHonest, RaceLost, Running, Forked, PipeHonest
<1>6. QED
  BY <1>1, <1>2, <1>3, <1>4, <1>5

(* The end of the daemon. *)
LEMMA EndIInv ==
    ASSUME IInv, NEW d \in Starts, TypeOK',
           \/ Finishes(d) \/ RemovesPidFile(d) \/ Exits(d)
           \/ DefaultAction(d) \/ Crashes(d)
    PROVE  IInv'
<1> USE NoPidAssumption DEF IInv, TypeOK, Commands, Finishes, RemovesPidFile, Exits,
        DefaultAction, Crashes, Dies, Alive
<1>1. Forked'
  BY DEF Forked
<1>2. RaceLost'
  BY DEF RaceLost
<1>3. PipeHonest'
  BY DEF PipeHonest, RaceLost
<1>4. Owned'
  BY DEF Owned
<1>5. StartHonest'
  BY DEF StartHonest, RaceLost, Running
<1>6. QED
  BY <1>1, <1>2, <1>3, <1>4, <1>5

(* The commands -k, -r and -s. *)
LEMMA CommandIInv ==
    ASSUME IInv, NEW c \in Kills \cup Reloads \cup Statuses, TypeOK',
           \/ CommandChecks(c)
           \/ c \in Reloads /\ ReloadSignals(c)
           \/ c \in Kills /\ (KillSignals(c) \/ KillSucceeds(c) \/ KillTimesOut(c))
           \/ c \in Statuses /\ StatusChecks(c)
    PROVE  IInv'
<1> USE NoPidAssumption, KindsAssumption DEF IInv, TypeOK, Commands
<1>1. UNCHANGED daemonVars /\ c \notin Starts
  BY DEF CommandChecks, ReloadSignals, KillSignals, KillSucceeds, KillTimesOut,
         StatusChecks
<1>2. \A s \in Starts : cmd'[s] = cmd[s] /\ code'[s] = code[s]
  BY <1>1 DEF CommandChecks, ReloadSignals, KillSignals, KillSucceeds, KillTimesOut,
              StatusChecks, Exit, Goto
<1>3. Forked'
  BY <1>1, <1>2 DEF Forked, daemonVars
<1>4. RaceLost' /\ PipeHonest'
  BY <1>1, <1>2 DEF RaceLost, PipeHonest, daemonVars
<1>5. Owned'
  BY <1>1 DEF Owned, CommandChecks, ReloadSignals, KillSignals, KillSucceeds,
         KillTimesOut, StatusChecks, DropStale, IsRunning, Alive, daemonVars
<1>6. StartHonest'
  BY <1>1, <1>2 DEF StartHonest, Running, daemonVars
<1>7. QED
  BY <1>3, <1>4, <1>5, <1>6

LEMMA NextIInv == IInv /\ [Next]_vars => IInv'
<1> SUFFICES ASSUME IInv, [Next]_vars PROVE IInv'
  OBVIOUS
<1>1. TypeOK'
  BY TypeCorrectStep DEF IInv
<1>2. CASE UNCHANGED vars
  BY <1>1, <1>2 DEF vars, daemonVars, IInv, Forked, RaceLost, PipeHonest, Owned,
                    StartHonest, Running
<1>3. CASE Next
  BY <1>1, <1>3, StartIInv, MainIInv, EndIInv, CommandIInv
     DEF Next, DaemonStep, Kill, Reload
<1>4. QED
  BY <1>2, <1>3

-----------------------------------------------------------------------------
(* The inductive invariant. *)
THEOREM Invariance == Spec => []IInv
BY InitIInv, NextIInv, PTL DEF Spec

(* Every variable keeps its range. *)
THEOREM TypeCorrect == Spec => []TypeOK
<1>1. IInv => TypeOK
  BY DEF IInv
<1>2. QED
  BY <1>1, Invariance, PTL

(* While no start has lost the race for the pid file, every running daemon  *)
(* is the one the pid file names.                                           *)
THEOREM FoundByPidFile == Spec => []FoundUnlessRaceLost
<1>1. IInv => FoundUnlessRaceLost
  BY DEF IInv, Owned, FoundUnlessRaceLost, Running
<1>2. QED
  BY <1>1, Invariance, PTL

(* Exit codes 0 and 2 of a start say the truth about its daemon. *)
THEOREM StartsAreHonest == Spec => []StartHonest
<1>1. IInv => StartHonest
  BY DEF IInv
<1>2. QED
  BY <1>1, Invariance, PTL

=============================================================================
