------------------------------- MODULE Master -------------------------------
(***************************************************************************)
(* The master process of mpic (mpic/master_linux.cc): it forks a pool of   *)
(* workers, then waits in sigwaitinfo() for SIGCHLD, SIGHUP, SIGTERM and   *)
(* SIGINT, which are blocked from before the first fork on.  A SIGHUP      *)
(* replaces the whole pool by workers of a new module object, a SIGCHLD    *)
(* reaps and replaces workers, a SIGTERM terminates the pool, and the      *)
(* first SIGCHLD after it ends the master.                                 *)
(*                                                                         *)
(* The other actors are the workers, which start, finish, crash or are     *)
(* stopped between any two steps of the master, and whoever sends signals  *)
(* to the master (an operator, the -k and -r commands, a shell).  Blocked  *)
(* signals do not queue: `pending' is a set.  POSIX does not say which of  *)
(* several pending signals sigwaitinfo() returns, so the choice is free.   *)
(*                                                                         *)
(* A handler is cut where the operating system lets others move: one step  *)
(* per fork(), per waitpid() and per kill().                               *)
(*                                                                         *)
(* A definition whose name starts with Bad is a wrong version of the one   *)
(* after it, the way a slip in the code would make it.  Next uses none of  *)
(* them; they show that the properties notice such a slip.                 *)
(***************************************************************************)
EXTENDS Integers, FiniteSets

CONSTANTS
    Pid,               \* process ids; one is free again once it is reaped
    WorkerProcesses    \* Option::worker_processes(), any int (the -p option)

ASSUME PidAssumption == IsFiniteSet(Pid)
ASSUME WorkerProcessesAssumption == WorkerProcesses \in Int

VARIABLES
    pc,                 \* where the master is, see PC
    spawns,             \* iterations left in the loop of SpawnChildWorkers
    running_processes,  \* Master::running_processes_ (its keys)
    exiting_processes,  \* Master::exiting_processes_ (its keys)
    m,                  \* the map KillChildren walks, less the visited entries
    exiting,            \* the local of RunMaster
    pending,            \* blocked signals sigwaitinfo() has not returned yet
    proc,               \* what each process id stands for
    termed,             \* children the master has sent SIGTERM to
    stale               \* children forked from a module a reload has replaced

masterVars == <<pc, spawns, running_processes, exiting_processes, m, exiting>>
vars == <<masterVars, pending, proc, termed, stale>>

-----------------------------------------------------------------------------
(* The number of iterations of `for (i = 0; i < worker_processes(); ++i)'. *)
Workers == IF WorkerProcesses > 0 THEN WorkerProcesses ELSE 0

(* "start" and "reload": the loop of SpawnChildWorkers, called by RunMaster *)
(* or by HandleSIGHUB; "retire" and "term": KillChildren, called by         *)
(* HandleSIGHUB or for SIGTERM; "wait": sigwaitinfo(); "reap": the waitpid  *)
(* loop of HandleSIGCHLD; then the three ways the master ends: RunMaster    *)
(* returned 0, it returned 1, PLOG(FATAL) aborted it.                       *)
PC == {"start", "wait", "reap", "reload", "retire", "term",
       "exited", "failed", "aborted"}

Signal == {"SIGCHLD", "SIGHUP", "SIGTERM", "SIGINT"}

Ended == pc \in {"exited", "failed", "aborted"}
Children == {p \in Pid : proc[p] # "free"}
Live == {p \in Pid : proc[p] \in {"starting", "serving"}}

Init ==
    /\ pc = "start"
    /\ spawns = Workers
    /\ running_processes = {}
    /\ exiting_processes = {}
    /\ m = {}
    /\ exiting = FALSE
    /\ pending = {}
    /\ proc = [p \in Pid |-> "free"]
    /\ termed = {}
    /\ stale = {}

-----------------------------------------------------------------------------
(* Forking.  SpawnChildWorker records the child in running_processes_; the *)
(* child is "starting" until it has unblocked its signals.                 *)

BadSpawnOneMore ==
    /\ pc \in {"start", "reload"}
    /\ spawns >= 0
    /\ \E p \in Pid :
          /\ proc[p] = "free"
          /\ proc' = [proc EXCEPT ![p] = "starting"]
          /\ running_processes' = running_processes \cup {p}
    /\ spawns' = spawns - 1
    /\ UNCHANGED <<pc, exiting_processes, m, exiting, pending, termed, stale>>

SpawnChildWorkers ==
    /\ pc \in {"start", "reload"}
    /\ spawns > 0
    /\ \E p \in Pid :
          /\ proc[p] = "free"
          /\ proc' = [proc EXCEPT ![p] = "starting"]
          /\ running_processes' = running_processes \cup {p}
    /\ spawns' = spawns - 1
    /\ UNCHANGED <<pc, exiting_processes, m, exiting, pending, termed, stale>>

SpawnChildWorkersDone ==
    /\ pc \in {"start", "reload"}
    /\ spawns = 0
    /\ pc' = IF pc = "start" THEN "wait" ELSE "retire"
    /\ UNCHANGED <<spawns, running_processes, exiting_processes, m, exiting,
                   pending, proc, termed, stale>>

(* fork() < 0 is PLOG(FATAL): glog aborts the master. *)
SpawnFails ==
    /\ pc \in {"start", "reload"}
    /\ spawns > 0
    /\ pc' = "aborted"
    /\ UNCHANGED <<spawns, running_processes, exiting_processes, m, exiting,
                   pending, proc, termed, stale>>

-----------------------------------------------------------------------------
(* sigwaitinfo() *)

Dequeue(s) ==
    /\ pc = "wait"
    /\ s \in pending
    /\ pending' = pending \ {s}

TakeSIGCHLD ==
    /\ Dequeue("SIGCHLD")
    /\ pc' = "reap"
    /\ UNCHANGED <<spawns, running_processes, exiting_processes, m, exiting,
                   proc, termed, stale>>

TakeSIGINT ==
    /\ Dequeue("SIGINT")
    /\ UNCHANGED <<masterVars, proc, termed, stale>>

BadTakeSIGTERM ==
    /\ Dequeue("SIGTERM")
    /\ pc' = "term"
    /\ m' = {p \in running_processes : proc[p] = "serving"}
    /\ UNCHANGED <<spawns, running_processes, exiting_processes, exiting,
                   proc, termed, stale>>

TakeSIGTERM ==
    /\ Dequeue("SIGTERM")
    /\ pc' = "term"
    /\ m' = running_processes
    /\ UNCHANGED <<spawns, running_processes, exiting_processes, exiting,
                   proc, termed, stale>>

(* HandleSIGHUB: a reload in progress makes the master drop the request. *)
IgnoreSIGHUP ==
    /\ Dequeue("SIGHUP")
    /\ exiting_processes # {}
    /\ UNCHANGED <<masterVars, proc, termed, stale>>

(* HandleSIGHUB: InitModule failed and the old module stays in place. *)
ReloadInitFails ==
    /\ Dequeue("SIGHUP")
    /\ exiting_processes = {}
    /\ UNCHANGED <<masterVars, proc, termed, stale>>

(* HandleSIGHUB: m.swap(running_processes_), then the spawn loop. *)
ReloadBegins(n) ==
    /\ Dequeue("SIGHUP")
    /\ pc' = "reload"
    /\ m' = running_processes
    /\ running_processes' = {}
    /\ spawns' = n
    /\ stale' = Children
    /\ UNCHANGED <<exiting_processes, exiting, proc, termed>>

BadReloadDuringReload == ReloadBegins(Workers)
BadReloadOneShort == exiting_processes = {} /\ Workers > 0 /\ ReloadBegins(Workers - 1)
AcceptSIGHUP == exiting_processes = {} /\ ReloadBegins(Workers)

(* An error of sigwaitinfo() other than EINTR and EAGAIN: return 1. *)
SigwaitFails ==
    /\ pc = "wait"
    /\ pc' = "failed"
    /\ UNCHANGED <<spawns, running_processes, exiting_processes, m, exiting,
                   pending, proc, termed, stale>>

-----------------------------------------------------------------------------
(* KillChildren: kill(pid, SIGTERM) and the entry in exiting_processes_.   *)

BadKillChildForgets(p) ==
    /\ pc \in {"retire", "term"}
    /\ p \in m
    /\ m' = m \ {p}
    /\ termed' = termed \cup {p}
    /\ UNCHANGED <<pc, spawns, running_processes, exiting_processes, exiting,
                   pending, proc, stale>>

BadKillChildNoSignal(p) ==
    /\ pc \in {"retire", "term"}
    /\ p \in m
    /\ m' = m \ {p}
    /\ exiting_processes' = exiting_processes \cup {p}
    /\ UNCHANGED <<pc, spawns, running_processes, exiting, pending, proc,
                   termed, stale>>

KillChild(p) ==
    /\ pc \in {"retire", "term"}
    /\ p \in m
    /\ m' = m \ {p}
    /\ termed' = termed \cup {p}
    /\ exiting_processes' = exiting_processes \cup {p}
    /\ UNCHANGED <<pc, spawns, running_processes, exiting, pending, proc, stale>>

(* The end of HandleSIGHUB. *)
RetireDone ==
    /\ pc = "retire"
    /\ m = {}
    /\ pc' = "wait"
    /\ UNCHANGED <<spawns, running_processes, exiting_processes, m, exiting,
                   pending, proc, termed, stale>>

(* The end of the SIGTERM branch of RunMaster. *)
BadTermDoneEarly ==
    /\ pc = "term"
    /\ pc' = "wait"
    /\ m' = {}
    /\ running_processes' = {}
    /\ exiting' = TRUE
    /\ UNCHANGED <<spawns, exiting_processes, pending, proc, termed, stale>>

BadTermDoneKeepsRunning ==
    /\ pc = "term"
    /\ m = {}
    /\ pc' = "wait"
    /\ exiting' = TRUE
    /\ UNCHANGED <<spawns, running_processes, exiting_processes, m, pending,
                   proc, termed, stale>>

TermDone ==
    /\ pc = "term"
    /\ m = {}
    /\ pc' = "wait"
    /\ running_processes' = {}
    /\ exiting' = TRUE
    /\ UNCHANGED <<spawns, exiting_processes, m, pending, proc, termed, stale>>

-----------------------------------------------------------------------------
(* HandleSIGCHLD: one iteration of the waitpid(-1, WNOHANG) loop.          *)

(* What waitpid() returning p does to the process table. *)
Reaped(p) == [proc EXCEPT ![p] = "free"]

(* p is not a running worker: it is only erased from exiting_processes_. *)
ReapExiting(p) ==
    /\ pc = "reap"
    /\ proc[p] = "zombie"
    /\ p \notin running_processes
    /\ proc' = Reaped(p)
    /\ exiting_processes' = exiting_processes \ {p}
    /\ termed' = termed \ {p}
    /\ stale' = stale \ {p}
    /\ UNCHANGED <<pc, spawns, running_processes, m, exiting, pending>>

(* p is a running worker: it is erased and replaced by q at once; q may be *)
(* the process id that has just become free.                               *)
BadReapRunningKeepsEntry(p) ==
    /\ pc = "reap"
    /\ proc[p] = "zombie"
    /\ p \in running_processes
    /\ \E q \in Pid :
          /\ Reaped(p)[q] = "free"
          /\ proc' = [Reaped(p) EXCEPT ![q] = "starting"]
          /\ running_processes' = running_processes \cup {q}
    /\ termed' = termed \ {p}
    /\ stale' = stale \ {p}
    /\ UNCHANGED <<pc, spawns, exiting_processes, m, exiting, pending>>

BadReapRunningNoRespawn(p) ==
    /\ pc = "reap"
    /\ proc[p] = "zombie"
    /\ p \in running_processes
    /\ proc' = Reaped(p)
    /\ running_processes' = running_processes \ {p}
    /\ termed' = termed \ {p}
    /\ stale' = stale \ {p}
    /\ UNCHANGED <<pc, spawns, exiting_processes, m, exiting, pending>>

ReapRunning(p) ==
    /\ pc = "reap"
    /\ proc[p] = "zombie"
    /\ p \in running_processes
    /\ \E q \in Pid :
          /\ Reaped(p)[q] = "free"
          /\ proc' = [Reaped(p) EXCEPT ![q] = "starting"]
          /\ running_processes' = (running_processes \ {p}) \cup {q}
    /\ exiting_processes' = exiting_processes \ {p}
    /\ termed' = termed \ {p}
    /\ stale' = stale \ {p}
    /\ UNCHANGED <<pc, spawns, m, exiting, pending>>

(* As ReapRunning, but the fork() of the replacement fails. *)
ReapRunningForkFails(p) ==
    /\ pc = "reap"
    /\ proc[p] = "zombie"
    /\ p \in running_processes
    /\ pc' = "aborted"
    /\ proc' = Reaped(p)
    /\ running_processes' = running_processes \ {p}
    /\ exiting_processes' = exiting_processes \ {p}
    /\ termed' = termed \ {p}
    /\ stale' = stale \ {p}
    /\ UNCHANGED <<spawns, m, exiting, pending>>

(* waitpid() returned 0 (children, none dead) or -1 (no children); RunMaster *)
(* then leaves its loop if a SIGTERM came before, whoever is still alive.    *)
BadReapOnePerSignal ==
    /\ pc = "reap"
    /\ pc' = IF exiting THEN "exited" ELSE "wait"
    /\ UNCHANGED <<spawns, running_processes, exiting_processes, m, exiting,
                   pending, proc, termed, stale>>

BadReapDoneNeverLeaves ==
    /\ pc = "reap"
    /\ \A p \in Pid : proc[p] # "zombie"
    /\ pc' = "wait"
    /\ UNCHANGED <<spawns, running_processes, exiting_processes, m, exiting,
                   pending, proc, termed, stale>>

ReapDone ==
    /\ pc = "reap"
    /\ \A p \in Pid : proc[p] # "zombie"
    /\ pc' = IF exiting THEN "exited" ELSE "wait"
    /\ UNCHANGED <<spawns, running_processes, exiting_processes, m, exiting,
                   pending, proc, termed, stale>>

-----------------------------------------------------------------------------
(* The environment.  Once the master has ended nobody collects its signals. *)

SendSignal(s) ==
    /\ ~Ended
    /\ s \in Signal \ {"SIGCHLD"}
    /\ pending' = pending \cup {s}
    /\ UNCHANGED <<masterVars, proc, termed, stale>>

NotifyMaster == pending' = IF Ended THEN pending ELSE pending \cup {"SIGCHLD"}

(* The child has unblocked its signals (SpawnChildWorker, line 49). *)
WorkerStarts(p) ==
    /\ proc[p] = "starting"
    /\ proc' = [proc EXCEPT ![p] = "serving"]
    /\ UNCHANGED <<masterVars, pending, termed, stale>>

Dies(p) ==
    /\ proc' = [proc EXCEPT ![p] = "zombie"]
    /\ NotifyMaster
    /\ UNCHANGED <<masterVars, termed, stale>>

(* A worker whose SIGTERM is delivered ends: by the default action, or by the *)
(* handler its module installed.                                              *)
WorkerTerminates(p) ==
    /\ proc[p] = "serving"
    /\ p \in termed
    /\ Dies(p)

(* Module::Run returned of itself, the worker crashed, somebody killed it. *)
WorkerExits(p) ==
    /\ p \in Live
    /\ Dies(p)

(* Job control: sigchld() is installed without SA_NOCLDSTOP, so a stopped or *)
(* continued child sends SIGCHLD although waitpid() has nothing to report.   *)
WorkerStopped(p) ==
    /\ p \in Live
    /\ NotifyMaster
    /\ UNCHANGED <<masterVars, proc, termed, stale>>

-----------------------------------------------------------------------------
Reap(p) == ReapExiting(p) \/ ReapRunning(p)

(* A step the master takes of itself, when nothing fails. *)
MasterStep ==
    \/ SpawnChildWorkers \/ SpawnChildWorkersDone
    \/ TakeSIGCHLD \/ TakeSIGINT \/ TakeSIGTERM
    \/ IgnoreSIGHUP \/ AcceptSIGHUP
    \/ \E p \in Pid : KillChild(p)
    \/ RetireDone \/ TermDone
    \/ \E p \in Pid : Reap(p)
    \/ ReapDone

(* What may happen but need not. *)
Disturbance ==
    \/ SpawnFails \/ SigwaitFails \/ ReloadInitFails
    \/ \E p \in Pid : ReapRunningForkFails(p)
    \/ \E s \in Signal : SendSignal(s)
    \/ \E p \in Pid : WorkerExits(p) \/ WorkerStopped(p)

Next ==
    \/ MasterStep
    \/ Disturbance
    \/ \E p \in Pid : WorkerStarts(p) \/ WorkerTerminates(p)

Spec == Init /\ [][Next]_vars

(* The scheduler runs the master whenever it is not blocked in sigwaitinfo, *)
(* every new process gets to run, and a worker that gets SIGTERM ends (what  *)
(* the modules of this repository do).                                       *)
Fairness ==
    /\ WF_vars(MasterStep)
    /\ \A p \in Pid : WF_vars(WorkerStarts(p)) /\ WF_vars(WorkerTerminates(p))

FairSpec == Spec /\ Fairness

-----------------------------------------------------------------------------
(* Safety *)

(* The type invariant. *)
TypeOK ==
    /\ pc \in PC
    /\ spawns \in 0 .. Workers
    /\ running_processes \subseteq Pid
    /\ exiting_processes \subseteq Pid
    /\ m \subseteq Pid
    /\ exiting \in BOOLEAN
    /\ pending \subseteq Signal
    /\ proc \in [Pid -> {"free", "starting", "serving", "zombie"}]
    /\ termed \subseteq Pid
    /\ stale \subseteq Pid

(* While the master works, its maps name exactly its unreaped children: no  *)
(* worker is lost between the swap, the spawn loop, the kill loop and the   *)
(* reaping, and no entry outlives its process.                              *)
ChildrenTracked ==
    ~Ended => Children = running_processes \cup exiting_processes \cup m

(* SIGTERM goes to children only.  An entry kept beyond the reaping of its  *)
(* process would let KillChildren hit a stranger that got the process id.   *)
SignalsOnlyChildren == termed \subseteq Children

(* SIGCHLD does not queue: whenever a dead child waits to be reaped, the    *)
(* loop of HandleSIGCHLD is running or one more SIGCHLD is on its way.      *)
NoLostSigchld ==
    (\E p \in Pid : proc[p] = "zombie") =>
        "SIGCHLD" \in pending \/ pc = "reap" \/ Ended

(* Between two handlers of a master that is not terminating the pool has    *)
(* exactly worker_processes() members, whatever reloads and deaths came     *)
(* before (a zombie still counts: its SIGCHLD is due).                      *)
PoolFull ==
    pc \in {"wait", "reap"} /\ ~exiting => Cardinality(running_processes) = Workers

(* The promise of the reload order, spawn first and kill afterwards: from   *)
(* the end of the start on and until SIGTERM there are never fewer than     *)
(* worker_processes() children that were not asked to leave.                *)
CapacityKept ==
    pc \in {"wait", "reap", "reload", "retire"} /\ ~exiting =>
        Cardinality(Children \ termed) >= Workers

(* The guard of HandleSIGHUB on exiting_processes_ bounds the processes:    *)
(* reloads never pile up more than two generations of workers.              *)
ChildBound == Cardinality(Children) <= 2 * Workers

(* A master that left its loop on SIGTERM may leave workers behind, for it  *)
(* goes at the first SIGCHLD, but each of them has been sent SIGTERM.       *)
OrphansTermed == pc = "exited" => Live \subseteq termed

(* Once SIGTERM has been handled no worker is forked any more, not by the   *)
(* reaping of a worker that died earlier nor by a SIGHUP that was pending.  *)
NoSpawnAfterTerm == [][exiting => Children' \subseteq Children]_vars

-----------------------------------------------------------------------------
(* The inductive invariant behind the safety properties, in named parts.    *)

(* SIGTERM has been sent to exactly the entries of exiting_processes_.      *)
TermedTracked ==
    /\ ChildrenTracked
    /\ SignalsOnlyChildren
    /\ ~Ended => termed = exiting_processes

(* How the three maps overlap: only while SIGTERM is handled, when m is a   *)
(* copy of running_processes_ and not what was swapped out of it.           *)
Separation ==
    ~Ended =>
      /\ m \cap exiting_processes = {}
      /\ pc \in {"start", "wait", "reap"} => m = {}
      /\ pc \in {"start", "reload"} => exiting_processes = {}
      /\ pc = "term" => /\ m \subseteq running_processes
                        /\ running_processes \subseteq m \cup exiting_processes
      /\ pc # "term" => running_processes \cap (m \cup exiting_processes) = {}

Counting ==
    /\ pc \in {"start", "reload"} =>
           Cardinality(running_processes) + spawns = Workers
    /\ pc \in {"wait", "reap", "retire", "term"} /\ ~exiting =>
           Cardinality(running_processes) = Workers
    /\ pc = "reload" /\ ~exiting => Cardinality(m) = Workers

(* After SIGTERM no worker is running; some child is still to be reaped, so *)
(* that a SIGHUP is ignored, unless there are no workers at all.            *)
Terminating ==
    /\ exiting => /\ running_processes = {}
                  /\ pc # "start"
                  /\ ~Ended => m = {}
                  /\ pc \in {"reload", "retire"} => Workers = 0
                  /\ pc = "wait" /\ Workers > 0 => exiting_processes # {}
    /\ pc = "term" /\ Workers > 0 => exiting_processes \cup m # {}

(* Children that are no longer, or not for long, members of the pool. *)
Leaving == (exiting_processes \cup m) \ running_processes

Bounded ==
    /\ ~Ended /\ ~exiting => Cardinality(Leaving) <= Workers
    /\ ChildBound

IInv ==
    /\ TypeOK
    /\ TermedTracked
    /\ Separation
    /\ Counting
    /\ Terminating
    /\ Bounded
    /\ NoLostSigchld
    /\ OrphansTermed

-----------------------------------------------------------------------------
(* Refinement: a child is active until the master has sent it SIGTERM.      *)
Phase ==
    CASE pc = "exited" -> "over"
      [] pc \in {"failed", "aborted"} -> "gone"
      [] ~Ended /\ (exiting \/ pc = "term") -> "down"
      [] OTHER -> "up"

P == INSTANCE Pool WITH
        Worker <- Pid, Size <- Workers,
        phase <- Phase, active <- Children \ termed, leaving <- termed

(* The master keeps the promises of Pool: workers join ahead of those that  *)
(* retire, a dead one is replaced while the pool is up, and the master ends *)
(* in order only when every worker has been dismissed.                      *)
PoolSpec == P!Spec

-----------------------------------------------------------------------------
(* Liveness, for runs that become quiet: from some point on nobody sends    *)
(* signals, workers die only of SIGTERM and no system call fails.           *)
Quiet == <>[][~Disturbance]_vars

(* A SIGTERM sent to the master ends it. *)
TermLeadsToExit == Quiet => ("SIGTERM" \in pending ~> Ended)

(* The pool heals: in the end worker_processes() workers serve, or the      *)
(* master was asked to stop or gave up.                                     *)
PoolHeals ==
    Quiet => <>[](Ended \/ Cardinality({p \in running_processes :
                                           proc[p] = "serving"}) = Workers)

(* A reload completes: the workers of replaced modules all go away, and the *)
(* master accepts the next SIGHUP again.                                    *)
ReloadCompletes == Quiet => <>[](Ended \/ (stale = {} /\ exiting_processes = {}))

(* The workers an exiting master leaves behind go away by themselves. *)
OrphansVanish == Quiet => <>[](pc = "exited" => Live = {})

=============================================================================
