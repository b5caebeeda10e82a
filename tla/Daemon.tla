------------------------------- MODULE Daemon -------------------------------
(***************************************************************************)
(* Starting, killing, reloading and inspecting the daemon: RunAsDaemon,    *)
(* KillDaemon, ReloadDaemon and CheckStatus of mpic/master_linux.cc, run   *)
(* by independent invocations of the program that share nothing but the    *)
(* pid file.  A start forks; its parent waits for the answer of the daemon *)
(* in a pipe, for ten seconds.                                             *)
(*                                                                         *)
(* The pid file and the pipe are those of libdaemon, modelled by what this *)
(* code relies on.  daemon_pid_file_is_running() holds a lock on the file  *)
(* and is one step here.  What the daemon does between blocking its        *)
(* signals and the end of RunMaster is the business of module Master; here *)
(* it ends after a SIGTERM, or of itself when RunMaster returns an error.  *)
(*                                                                         *)
(* As in Master, Bad... is a wrong version of the definition after it.     *)
(***************************************************************************)
EXTENDS Integers, FiniteSets

CONSTANTS
    Starts,     \* invocations that start a daemon; also the pid of the daemon
    Kills,      \* invocations with -k
    Reloads,    \* invocations with -r
    Statuses,   \* invocations with -s
    NoPid       \* the pid file does not exist, nothing was written, no process

ASSUME NoPidAssumption == NoPid \notin Starts \cup {0, 1, 2}

ASSUME KindsAssumption ==       \* an invocation is of one kind
    /\ Starts \cap (Kills \cup Reloads \cup Statuses) = {}
    /\ Kills \cap (Reloads \cup Statuses) = {}

VARIABLES
    pid_file,   \* content of the pid file
    cmd,        \* where each invocation is: its parent process for a start
    code,       \* the exit code of an invocation, once it has one
    target,     \* the process a -k has sent SIGTERM to
    daemon,     \* where the daemon process of each start is
    retval,     \* the local retval of RunAsDaemon in the daemon
    pipe,       \* what the daemon has written for its parent
    main,       \* what RunMainRoutine returned in the daemon
    blocked,    \* daemons that have blocked SIGTERM and SIGHUP
    signals     \* signals sent to a daemon and not handled yet

daemonVars == <<daemon, retval, pipe, main, blocked>>
vars == <<pid_file, cmd, code, target, daemonVars, signals>>

-----------------------------------------------------------------------------
Commands == Starts \cup Kills \cup Reloads \cup Statuses

DaemonPC == {"none", "forked", "created", "init", "serving", "finish",
             "remove", "exiting", "dead"}

Alive(d) == daemon[d] \notin {"none", "dead"}

(* Daemons that own the pid file or think they do. *)
Running == {d \in Starts : daemon[d] \in {"created", "init", "serving"}}

Init ==
    /\ pid_file = NoPid
    /\ cmd = [c \in Commands |-> "idle"]
    /\ code = [c \in Commands |-> NoPid]
    /\ target = [k \in Kills |-> NoPid]
    /\ daemon = [d \in Starts |-> "none"]
    /\ retval = [d \in Starts |-> 0]
    /\ pipe = [d \in Starts |-> NoPid]
    /\ main = [d \in Starts |-> NoPid]
    /\ blocked = {}
    /\ signals = [d \in Starts |-> {}]

-----------------------------------------------------------------------------
(* daemon_pid_file_is_running(): the pid in the file if that process is     *)
(* alive; the file of a dead process is removed.                            *)
IsRunning == pid_file # NoPid /\ Alive(pid_file)
DropStale == pid_file' = IF IsRunning THEN pid_file ELSE NoPid

Exit(c, n) ==
    /\ cmd' = [cmd EXCEPT ![c] = "done"]
    /\ code' = [code EXCEPT ![c] = n]

Goto(c, l) ==
    /\ cmd' = [cmd EXCEPT ![c] = l]
    /\ UNCHANGED code

-----------------------------------------------------------------------------
(* RunAsDaemon, before the fork and in the parent. *)

StartChecks(c) ==
    /\ cmd[c] = "idle"
    /\ DropStale
    /\ IF IsRunning THEN Exit(c, 1) ELSE Goto(c, "checked")
    /\ UNCHANGED <<target, daemonVars, signals>>

(* daemon_retval_init() or daemon_fork() failed. *)
StartFails(c) ==
    /\ cmd[c] = "checked"
    /\ Exit(c, 1)
    /\ UNCHANGED <<pid_file, target, daemonVars, signals>>

StartForks(c) ==
    /\ cmd[c] = "checked"
    /\ Goto(c, "waiting")
    /\ daemon' = [daemon EXCEPT ![c] = "forked"]
    /\ UNCHANGED <<pid_file, target, retval, pipe, main, blocked, signals>>

(* daemon_retval_wait(10) returned what the daemon sent. *)
StartAnswered(c) ==
    /\ cmd[c] = "waiting"
    /\ pipe[c] # NoPid
    /\ Exit(c, pipe[c])
    /\ UNCHANGED <<pid_file, target, daemonVars, signals>>

BadWaitsForever(c) == StartAnswered(c)

(* daemon_retval_wait(10) failed: ten seconds without an answer, or the     *)
(* daemon is gone and has closed the pipe.                                  *)
StartUnanswered(c) ==
    /\ cmd[c] = "waiting"
    /\ pipe[c] = NoPid
    /\ Exit(c, 1)
    /\ UNCHANGED <<pid_file, target, daemonVars, signals>>

-----------------------------------------------------------------------------
(* RunAsDaemon in the daemon. *)

(* daemon_close_all() or daemon_pid_file_create(), the latter with O_EXCL,  *)
(* failed: on to the label finish.                                          *)
Fails(d, n) ==
    /\ daemon' = [daemon EXCEPT ![d] = "finish"]
    /\ retval' = [retval EXCEPT ![d] = n]
    /\ UNCHANGED <<pid_file, cmd, code, target, pipe, main, blocked, signals>>

BadCloseAllFails(d) == daemon[d] = "forked" /\ Fails(d, -1)
CloseAllFails(d) == daemon[d] = "forked" /\ Fails(d, 1)

(* The file may exist, or open() and write() fail for other reasons. *)
CreateFails(d) == daemon[d] = "forked" /\ Fails(d, 2)

BadCreateWithoutExcl(d) ==
    /\ daemon[d] = "forked"
    /\ pid_file' = d
    /\ daemon' = [daemon EXCEPT ![d] = "created"]
    /\ UNCHANGED <<cmd, code, target, retval, pipe, main, blocked, signals>>

CreatePidFile(d) ==
    /\ daemon[d] = "forked"
    /\ pid_file = NoPid
    /\ pid_file' = d
    /\ daemon' = [daemon EXCEPT ![d] = "created"]
    /\ UNCHANGED <<cmd, code, target, retval, pipe, main, blocked, signals>>

(* daemon_retval_send(0), then RunMainRoutine *)
BadSendsBeforeCreate(d) ==
    /\ daemon[d] \in {"forked", "created"}
    /\ pipe' = [pipe EXCEPT ![d] = 0]
    /\ daemon' = [daemon EXCEPT ![d] = IF @ = "forked" THEN "forked" ELSE "init"]
    /\ UNCHANGED <<pid_file, cmd, code, target, retval, main, blocked, signals>>

SendsSuccess(d) ==
    /\ daemon[d] = "created"
    /\ pipe' = [pipe EXCEPT ![d] = 0]
    /\ daemon' = [daemon EXCEPT ![d] = "init"]
    /\ UNCHANGED <<pid_file, cmd, code, target, retval, main, blocked, signals>>

(* RunMaster: LoadModule succeeded and the signals are blocked. *)
BlocksSignals(d) ==
    /\ daemon[d] = "init"
    /\ daemon' = [daemon EXCEPT ![d] = "serving"]
    /\ blocked' = blocked \cup {d}
    /\ UNCHANGED <<pid_file, cmd, code, target, retval, pipe, main, signals>>

MainReturns(d, n) ==
    /\ daemon' = [daemon EXCEPT ![d] = "finish"]
    /\ main' = [main EXCEPT ![d] = n]
    /\ UNCHANGED <<pid_file, cmd, code, target, retval, pipe, blocked, signals>>

(* RunMaster returned 1: LoadModule failed, or sigwaitinfo(); the result of *)
(* RunMainRoutine is dropped, retval stays 0.                               *)
MainFails(d) == daemon[d] \in {"init", "serving"} /\ MainReturns(d, 1)

BadDropsSigterm(d) ==
    /\ daemon[d] = "serving"
    /\ "SIGTERM" \in signals[d]
    /\ signals' = [signals EXCEPT ![d] = @ \ {"SIGTERM"}]
    /\ UNCHANGED <<pid_file, cmd, code, target, daemonVars>>

(* RunMaster returned 0 because of SIGTERM. *)
MainTerminates(d) ==
    /\ daemon[d] = "serving"
    /\ "SIGTERM" \in signals[d]
    /\ MainReturns(d, 0)

(* RunMaster has handled a SIGHUP. *)
MainReloads(d) ==
    /\ daemon[d] = "serving"
    /\ "SIGHUP" \in signals[d]
    /\ signals' = [signals EXCEPT ![d] = @ \ {"SIGHUP"}]
    /\ UNCHANGED <<pid_file, cmd, code, target, daemonVars>>

(* finish: the retval is sent only if it is not 0. *)
Finishes(d) ==
    /\ daemon[d] = "finish"
    /\ daemon' = [daemon EXCEPT ![d] = "remove"]
    /\ pipe' = IF retval[d] # 0 THEN [pipe EXCEPT ![d] = retval[d]] ELSE pipe
    /\ UNCHANGED <<pid_file, cmd, code, target, retval, main, blocked, signals>>

(* daemon_pid_file_remove() removes the file, whose ever it is. *)
RemovesPidFile(d) ==
    /\ daemon[d] = "remove"
    /\ pid_file' = NoPid
    /\ daemon' = [daemon EXCEPT ![d] = "exiting"]
    /\ UNCHANGED <<cmd, code, target, retval, pipe, main, blocked, signals>>

Dies(d) ==
    /\ daemon' = [daemon EXCEPT ![d] = "dead"]
    /\ UNCHANGED <<pid_file, cmd, code, target, retval, pipe, main, blocked, signals>>

Exits(d) == daemon[d] = "exiting" /\ Dies(d)

(* The default action of SIGTERM and SIGHUP, unless RunMaster has blocked   *)
(* them: the process ends at once and leaves the pid file behind.           *)
DefaultAction(d) ==
    /\ Alive(d)
    /\ d \notin blocked
    /\ signals[d] # {}
    /\ Dies(d)

(* PLOG(FATAL), a crash, SIGKILL *)
Crashes(d) == Alive(d) /\ Dies(d)

-----------------------------------------------------------------------------
(* KillDaemon, ReloadDaemon, CheckStatus: a first look at the pid file. *)
CommandChecks(c) ==
    /\ c \in Kills \cup Reloads
    /\ cmd[c] = "idle"
    /\ DropStale
    /\ IF IsRunning THEN Goto(c, "checked") ELSE Exit(c, 1)
    /\ UNCHANGED <<target, daemonVars, signals>>

StatusChecks(c) ==
    /\ cmd[c] = "idle"
    /\ DropStale
    /\ Exit(c, IF IsRunning THEN 0 ELSE 1)
    /\ UNCHANGED <<target, daemonVars, signals>>

Signal(d, s) == signals' = [signals EXCEPT ![d] = @ \cup {s}]

(* daemon_pid_file_kill(SIGHUP) looks at the pid file once more. *)
ReloadSignals(c) ==
    /\ cmd[c] = "checked"
    /\ DropStale
    /\ IF IsRunning
         THEN Signal(pid_file, "SIGHUP") /\ Exit(c, 0)
         ELSE UNCHANGED signals /\ Exit(c, 1)
    /\ UNCHANGED <<target, daemonVars>>

(* daemon_pid_file_kill_wait(SIGTERM, 5) does so too, and then polls. *)
KillSignals(c) ==
    /\ cmd[c] = "checked"
    /\ DropStale
    /\ IF IsRunning
         THEN /\ Signal(pid_file, "SIGTERM")
              /\ target' = [target EXCEPT ![c] = pid_file]
              /\ Goto(c, "polling")
         ELSE UNCHANGED <<signals, target>> /\ Exit(c, 1)
    /\ UNCHANGED daemonVars

KillSucceeds(c) ==
    /\ cmd[c] = "polling"
    /\ ~Alive(target[c])
    /\ Exit(c, 0)
    /\ UNCHANGED <<pid_file, target, daemonVars, signals>>

(* ETIME after five seconds *)
KillTimesOut(c) ==
    /\ cmd[c] = "polling"
    /\ Exit(c, 1)
    /\ UNCHANGED <<pid_file, target, daemonVars, signals>>

-----------------------------------------------------------------------------
Start(c) ==
    \/ StartChecks(c) \/ StartForks(c) \/ StartAnswered(c) \/ StartUnanswered(c)

DaemonStep(d) ==
    \/ CreatePidFile(d) \/ (pid_file # NoPid /\ CreateFails(d))
    \/ SendsSuccess(d) \/ BlocksSignals(d) \/ MainTerminates(d)
    \/ Finishes(d) \/ RemovesPidFile(d) \/ Exits(d) \/ DefaultAction(d)

Kill(c) == CommandChecks(c) \/ KillSignals(c) \/ KillSucceeds(c) \/ KillTimesOut(c)
Reload(c) == CommandChecks(c) \/ ReloadSignals(c)

Next ==
    \/ \E c \in Starts : Start(c) \/ StartFails(c)
    \/ \E d \in Starts : \/ DaemonStep(d) \/ MainReloads(d)
                         \/ CloseAllFails(d) \/ CreateFails(d) \/ MainFails(d)
                         \/ Crashes(d)
    \/ \E c \in Kills : Kill(c)
    \/ \E c \in Reloads : Reload(c)
    \/ \E c \in Statuses : StatusChecks(c)

Spec == Init /\ [][Next]_vars

(* Every process that can run does; the two timeouts of the commands run on *)
(* the clock.                                                               *)
Fairness ==
    /\ \A c \in Starts : WF_vars(cmd[c] # "idle" /\ Start(c))
    /\ \A d \in Starts : WF_vars(DaemonStep(d))
    /\ \A c \in Kills : WF_vars(cmd[c] # "idle" /\ Kill(c))

FairSpec == Spec /\ Fairness

-----------------------------------------------------------------------------
(* Properties *)

(* The type invariant. *)
TypeOK ==
    /\ pid_file \in Starts \cup {NoPid}
    /\ cmd \in [Commands -> {"idle", "checked", "waiting", "polling", "done"}]
    /\ code \in [Commands -> {0, 1, 2, NoPid}]
    /\ target \in [Kills -> Starts \cup {NoPid}]
    /\ daemon \in [Starts -> DaemonPC]
    /\ retval \in [Starts -> 0 .. 2]
    /\ pipe \in [Starts -> {0, 1, 2, NoPid}]
    /\ main \in [Starts -> {0, 1, NoPid}]
    /\ blocked \subseteq Starts
    /\ signals \in [Starts -> SUBSET {"SIGTERM", "SIGHUP"}]

(* As long as no daemon has failed before its main routine, the pid file    *)
(* names every running daemon: -k, -r and -s reach it, and there is no      *)
(* second one, whatever starts race and whatever crashed or was killed.     *)
FoundUnlessRaceLost ==
    (\A d \in Starts : retval[d] = 0) => \A d \in Running : pid_file = d

(* "started successfully" means that the daemon had created the pid file;   *)
(* another answer, that it never entered the main routine.                  *)
StartHonest ==
    \A c \in Starts : cmd[c] = "done" =>
        /\ code[c] = 0 => daemon[c] \notin {"none", "forked"} /\ retval[c] = 0
        /\ code[c] = 2 => c \notin Running /\ main[c] = NoPid

(* What makes the two inductive.  A daemon exists once its start has forked.*)
Forked == \A c \in Starts : cmd[c] \in {"idle", "checked"} => daemon[c] = "none"

(* A daemon that has failed has not entered its main routine and will not.  *)
RaceLost ==
    \A d \in Starts :
        /\ retval[d] # 0 => daemon[d] \in {"finish", "remove", "exiting", "dead"}
        /\ retval[d] # 0 \/ daemon[d] \in {"none", "forked"} => main[d] = NoPid

(* The pipe holds what the local retval holds, 0 only after the pid file    *)
(* was created, and an answer 2 came from it.                               *)
PipeHonest ==
    \A d \in Starts :
        /\ pipe[d] # NoPid => /\ pipe[d] = retval[d]
                              /\ daemon[d] \notin {"none", "forked", "created"}
        /\ cmd[d] = "done" /\ code[d] = 2 => pipe[d] = 2

(* The pid file stays that of its daemon until that daemon removes it.      *)
Owned ==
    (\A d \in Starts : retval[d] = 0) =>
        \A d \in Starts : daemon[d] \in {"created", "init", "serving", "finish", "remove"} =>
            pid_file = d

IInv == TypeOK /\ Forked /\ RaceLost /\ PipeHonest /\ Owned /\ StartHonest

(* A start and a -k, once begun, end. *)
CommandsEnd ==
    \A c \in Starts \cup Kills : cmd[c] # "idle" ~> cmd[c] = "done"

(* A daemon that got SIGTERM dies, whenever the signal caught it. *)
SigtermKills ==
    \A d \in Starts : "SIGTERM" \in signals[d] ~> daemon[d] = "dead"

(* RunAsDaemon claims that a second daemon is turned away ("is already      *)
(* running, please kill it and then run it again").                         *)
SingleDaemon == Cardinality(Running) <= 1

(* The option -r is documented to reload the running process. *)
ReloadNeverKills ==
    [][\A d \in Starts : DefaultAction(d) => signals[d] # {"SIGHUP"}]_vars

=============================================================================
