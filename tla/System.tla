------------------------------- MODULE System -------------------------------
(***************************************************************************)
(* The whole of mpic: the commands and the daemon processes of module      *)
(* Daemon, with the RunMaster of module Master running in the daemon that  *)
(* comes to serve.  Daemon knows of RunMaster only that it handles a       *)
(* SIGHUP and returns some time after a SIGTERM; here it does so by its    *)
(* handlers and its workers, and the workers outlive it.                   *)
(*                                                                         *)
(* The two meet in the signals.  Those a command sends to a daemon that    *)
(* has blocked them are what sigwaitinfo() finds pending, the end of       *)
(* RunMaster is the return to RunAsDaemon, and PLOG(FATAL) in a handler is *)
(* the crash of the daemon.                                                *)
(*                                                                         *)
(* As in Master, Bad... is a wrong version of the definition after it.     *)
(***************************************************************************)
EXTENDS Master

CONSTANTS Starts, Kills, Reloads, Statuses, NoPid       \* as in Daemon

ASSUME NoPidAssumption == NoPid \notin Starts \cup {0, 1, 2}

VARIABLES pid_file, cmd, code, target, daemon, retval, pipe, main, blocked,
          signals                                       \* as in Daemon

D == INSTANCE Daemon

commandVars == <<pid_file, cmd, code, target, daemon, retval, pipe, main,
                 blocked, signals>>
sysvars == <<vars, commandVars>>

(* RunMaster runs in d. *)
Serves(d) == daemon[d] = "serving"

SysInit == D!Init /\ Init

-----------------------------------------------------------------------------
(* Steps of Daemon that do not touch RunMaster. *)
OutsideRunMaster ==
    /\ \/ \E c \in Starts : D!Start(c) \/ D!StartFails(c)
       \/ \E d \in Starts :
             \/ D!CreatePidFile(d) \/ D!CreateFails(d) \/ D!CloseAllFails(d)
             \/ D!SendsSuccess(d) \/ D!Finishes(d) \/ D!RemovesPidFile(d) \/ D!Exits(d)
             \/ D!DefaultAction(d)
             \/ ~Serves(d) /\ (D!MainFails(d) \/ D!Crashes(d))
       \/ \E k \in Kills : D!CommandChecks(k) \/ D!KillSucceeds(k) \/ D!KillTimesOut(k)
       \/ \E r \in Reloads : D!CommandChecks(r)
       \/ \E s \in Statuses : D!StatusChecks(s)
    /\ UNCHANGED vars

(* sigprocmask(SIG_BLOCK): what was on its way is now pending.  The bound   *)
(* blocked = {} follows one daemon into RunMaster, which has the one        *)
(* process table there is here; another start waits before it for ever.     *)
EnterRunMaster(d) ==
    /\ D!BlocksSignals(d)
    /\ blocked = {}
    /\ pending' = signals[d]
    /\ UNCHANGED <<masterVars, proc, termed, stale>>

(* The kill(2) of a command, on the process the pid file names. *)
Deliver(s) ==
    /\ pending' = IF D!IsRunning /\ Serves(pid_file) THEN pending \cup {s} ELSE pending
    /\ UNCHANGED <<masterVars, proc, termed, stale>>

CommandSignals ==
    \/ \E k \in Kills : D!KillSignals(k) /\ Deliver("SIGTERM")
    \/ \E r \in Reloads : D!ReloadSignals(r) /\ Deliver("SIGHUP")

-----------------------------------------------------------------------------
(* RunMaster goes on; a SIGHUP is over for Daemon when it is taken up, a    *)
(* SIGTERM when RunMaster returns.                                          *)
HandlesSIGHUP(d) ==
    /\ IgnoreSIGHUP \/ AcceptSIGHUP
    /\ D!MainReloads(d)

Works(d) ==
    /\ \/ SpawnChildWorkers \/ SpawnChildWorkersDone
       \/ TakeSIGCHLD \/ TakeSIGTERM \/ RetireDone \/ TermDone
       \/ \E p \in Pid : KillChild(p) \/ Reap(p)
       \/ ~exiting /\ ReapDone
    /\ UNCHANGED commandVars

BadReturns(d) == FALSE

Returns(d) ==
    /\ exiting
    /\ ReapDone
    /\ D!MainTerminates(d)

RunMasterStep == \E d \in Starts : Serves(d) /\ (HandlesSIGHUP(d) \/ Works(d) \/ Returns(d))

(* InitModule fails in a reload; sigwaitinfo() fails; fork() fails. *)
RunMasterFails ==
    \E d \in Starts :
        /\ Serves(d)
        /\ \/ ReloadInitFails /\ D!MainReloads(d)
           \/ SigwaitFails /\ D!MainFails(d)
           \/ (SpawnFails \/ \E p \in Pid : ReapRunningForkFails(p)) /\ D!Crashes(d)

(* The daemon is killed from outside, at any step of RunMaster. *)
MasterCrashes ==
    /\ \E d \in Starts : Serves(d) /\ D!Crashes(d)
    /\ pc' = "aborted"
    /\ UNCHANGED <<spawns, running_processes, exiting_processes, m, exiting,
                   pending, proc, termed, stale>>

WorkerStep(p) == (WorkerStarts(p) \/ WorkerTerminates(p)) /\ UNCHANGED commandVars

WorkerDisturbs ==
    /\ \E p \in Pid : WorkerExits(p) \/ WorkerStopped(p)
    /\ UNCHANGED commandVars

SysNext ==
    \/ OutsideRunMaster
    \/ \E d \in Starts : EnterRunMaster(d)
    \/ CommandSignals
    \/ RunMasterStep \/ RunMasterFails \/ MasterCrashes
    \/ \E p \in Pid : WorkerStep(p)
    \/ WorkerDisturbs

SysSpec == SysInit /\ [][SysNext]_sysvars

(* The fairness of Daemon outside RunMaster, and of Master inside it. *)
SysFairness ==
    /\ \A c \in Starts : WF_sysvars(cmd[c] # "idle" /\ D!Start(c) /\ UNCHANGED vars)
    /\ \A d \in Starts :
          WF_sysvars(\/ D!DaemonStep(d) /\ OutsideRunMaster
                     \/ EnterRunMaster(d))
    /\ \A k \in Kills :
          WF_sysvars(cmd[k] # "idle" /\ \/ D!Kill(k) /\ OutsideRunMaster
                                        \/ D!KillSignals(k) /\ CommandSignals)
    /\ WF_sysvars(RunMasterStep)
    /\ \A p \in Pid : WF_sysvars(WorkerStep(p))

SysFairSpec == SysSpec /\ SysFairness

-----------------------------------------------------------------------------
(* Properties *)

(* What -k leaves behind: when the daemon it has killed returned from       *)
(* RunMaster because of the SIGTERM, every worker that is still alive has   *)
(* been told to end.                                                        *)
KilledDismisses ==
    \A k \in Kills, d \in Starts :
        cmd[k] = "done" /\ code[k] = 0 /\ target[k] = d /\ main[d] = 0 =>
            Live \subseteq termed

(* Before RunMaster nothing of it has happened; in the daemon that came to  *)
(* serve it runs or has returned, 0 only by leaving its loop on SIGTERM.    *)
Followed ==
    /\ pid_file \in Starts \cup {NoPid}
    /\ daemon \in [Starts -> D!DaemonPC]
    /\ main \in [Starts -> {0, 1, NoPid}]
    /\ signals \in [Starts -> SUBSET {"SIGTERM", "SIGHUP"}]
    /\ blocked \subseteq Starts
    /\ blocked = {} => Init
    /\ \A d, e \in blocked : d = e
    /\ \A d \in Starts :
          /\ Serves(d) => d \in blocked /\ ~Ended
          /\ main[d] = 0 => d \in blocked /\ ~Serves(d) /\ pc = "exited"

SysInv == IInv /\ Followed

(* From some point on nothing fails and no worker moves of itself. *)
SysQuiet == <>[][~(RunMasterFails \/ WorkerDisturbs)]_sysvars

(* SIGTERM kills the daemon whenever it comes: by the default action before *)
(* RunMaster has blocked it, by its handlers and its workers afterwards.    *)
SigtermKillsSystem == SysQuiet => D!SigtermKills

(* After a -k has reported success and the workers had the time to end,     *)
(* nothing is left of the program, unless it was not RunMaster that ended   *)
(* the daemon.                                                              *)
KillLeavesNothing ==
    \A k \in Kills, d \in Starts :
        cmd[k] = "done" /\ code[k] = 0 /\ target[k] = d /\ main[d] = 0 ~> Live = {}

=============================================================================
