------------------------------- MODULE Monitor -------------------------------
(***************************************************************************)
(* The monitor of examples/monitor-worker/monitor.cc: a process with one   *)
(* worker, which it restarts when it ends.  SIGHUP restarts it by killing  *)
(* it, every other signal kills it and ends the monitor.  Unlike the       *)
(* master of mpic the monitor calls waitpid() once per SIGCHLD.            *)
(*                                                                         *)
(* The worker and the senders of signals move between any two calls of the *)
(* monitor; blocked signals do not queue and sigwaitinfo() may return any  *)
(* of those that are pending, as in Master.                                *)
(*                                                                         *)
(* As in Master, Bad... is a wrong version of the definition after it.     *)
(***************************************************************************)
EXTENDS Integers

CONSTANTS
    Pid,        \* process ids; one is free again once it is reaped
    NoChild     \* `child' before the first fork

ASSUME NoChildAssumption == NoChild \notin Pid

VARIABLES
    pc,         \* where the monitor is
    child,      \* the local of RunMonitor
    exiting,    \* the local of RunMonitor
    pending,    \* blocked signals sigwaitinfo() has not returned yet
    proc,       \* what each process id stands for
    termed,     \* children the monitor has sent SIGTERM to
    stale       \* the child a reload was asked for, until it is reaped

vars == <<pc, child, exiting, pending, proc, termed, stale>>

Signal == {"SIGCHLD", "SIGHUP", "SIGTERM", "SIGINT", "SIGQUIT"}

Ended == pc \in {"exited", "failed", "aborted"}
Children == {p \in Pid : proc[p] # "free"}

Init ==
    /\ pc = "start"
    /\ child = NoChild
    /\ exiting = FALSE
    /\ pending = {}
    /\ proc = [p \in Pid |-> "free"]
    /\ termed = {}
    /\ stale = {}

-----------------------------------------------------------------------------
(* SpawnChildWorker *)

Spawn ==
    /\ pc = "start"
    /\ pc' = "wait"
    /\ \E p \in Pid : child' = p /\ proc' = [proc EXCEPT ![p] = "starting"]
    /\ UNCHANGED <<exiting, pending, termed, stale>>

SpawnFails ==
    /\ pc = "start"
    /\ pc' = "aborted"
    /\ UNCHANGED <<child, exiting, pending, proc, termed, stale>>

-----------------------------------------------------------------------------
(* sigwaitinfo() *)

Take(s, to) ==
    /\ pc = "wait"
    /\ s \in pending
    /\ pending' = pending \ {s}
    /\ pc' = to

TakeSIGCHLD ==
    /\ Take("SIGCHLD", "reap")
    /\ UNCHANGED <<child, exiting, proc, termed, stale>>

TakeSIGHUP ==
    /\ Take("SIGHUP", "reload")
    /\ stale' = {child}
    /\ UNCHANGED <<child, exiting, proc, termed>>

TakeOther ==
    /\ \E s \in Signal \ {"SIGCHLD", "SIGHUP"} : Take(s, "term")
    /\ UNCHANGED <<child, exiting, proc, termed, stale>>

SigwaitFails ==
    /\ pc = "wait"
    /\ pc' = "failed"
    /\ UNCHANGED <<child, exiting, pending, proc, termed, stale>>

(* kill(child, SIGTERM) and, unless it is for SIGHUP, exiting = true *)
BadKillFirstOnly ==
    /\ pc \in {"reload", "term"}
    /\ pc' = "wait"
    /\ termed' = IF pc = "term" THEN termed \cup {child} ELSE termed
    /\ exiting' = (exiting \/ pc = "term")
    /\ UNCHANGED <<child, pending, proc, stale>>

Kill ==
    /\ pc \in {"reload", "term"}
    /\ pc' = "wait"
    /\ termed' = termed \cup {child}
    /\ exiting' = (exiting \/ pc = "term")
    /\ UNCHANGED <<child, pending, proc, stale>>

-----------------------------------------------------------------------------
(* One waitpid(-1, WNOHANG) for a SIGCHLD. *)

Reaped(p) == [proc EXCEPT ![p] = "free"]

Buried(p) ==
    /\ pc = "reap"
    /\ proc[p] = "zombie"
    /\ termed' = termed \ {p}
    /\ stale' = stale \ {p}
    /\ UNCHANGED <<exiting, pending>>

(* No child has anything to report. *)
ReapNone ==
    /\ pc = "reap"
    /\ \A p \in Pid : proc[p] # "zombie"
    /\ pc' = "wait"
    /\ UNCHANGED <<child, exiting, pending, proc, termed, stale>>

BadReapLast(p) ==
    /\ Buried(p)
    /\ exiting
    /\ pc' = "wait"
    /\ proc' = Reaped(p)
    /\ UNCHANGED child

ReapLast(p) ==
    /\ Buried(p)
    /\ exiting
    /\ pc' = "exited"
    /\ proc' = Reaped(p)
    /\ UNCHANGED child

(* The worker is forked again, under the process id just freed perhaps. *)
BadReapForgets(p) ==
    /\ Buried(p)
    /\ ~exiting
    /\ pc' = "wait"
    /\ \E q \in Pid :
          /\ Reaped(p)[q] = "free"
          /\ proc' = [Reaped(p) EXCEPT ![q] = "starting"]
    /\ UNCHANGED child

Reap(p) ==
    /\ Buried(p)
    /\ ~exiting
    /\ pc' = "wait"
    /\ IF p = child
         THEN \E q \in Pid :
                 /\ Reaped(p)[q] = "free"
                 /\ child' = q
                 /\ proc' = [Reaped(p) EXCEPT ![q] = "starting"]
         ELSE proc' = Reaped(p) /\ UNCHANGED child

ReapForkFails(p) ==
    /\ Buried(p)
    /\ ~exiting
    /\ p = child
    /\ pc' = "aborted"
    /\ proc' = Reaped(p)
    /\ UNCHANGED child

-----------------------------------------------------------------------------
(* The environment, as in Master. *)

SendSignal(s) ==
    /\ ~Ended
    /\ s # "SIGCHLD"
    /\ pending' = pending \cup {s}
    /\ UNCHANGED <<pc, child, exiting, proc, termed, stale>>

NotifyMonitor == pending' = IF Ended THEN pending ELSE pending \cup {"SIGCHLD"}

WorkerStarts(p) ==
    /\ proc[p] = "starting"
    /\ proc' = [proc EXCEPT ![p] = "serving"]
    /\ UNCHANGED <<pc, child, exiting, pending, termed, stale>>

Dies(p) ==
    /\ proc' = [proc EXCEPT ![p] = "zombie"]
    /\ NotifyMonitor
    /\ UNCHANGED <<pc, child, exiting, termed, stale>>

WorkerTerminates(p) == proc[p] = "serving" /\ p \in termed /\ Dies(p)

WorkerExits(p) == proc[p] \in {"starting", "serving"} /\ Dies(p)

WorkerStopped(p) ==
    /\ proc[p] \in {"starting", "serving"}
    /\ NotifyMonitor
    /\ UNCHANGED <<pc, child, exiting, proc, termed, stale>>

-----------------------------------------------------------------------------
MonitorStep ==
    \/ Spawn \/ TakeSIGCHLD \/ TakeSIGHUP \/ TakeOther \/ Kill
    \/ ReapNone \/ \E p \in Pid : ReapLast(p) \/ Reap(p)

Disturbance ==
    \/ SpawnFails \/ SigwaitFails
    \/ \E s \in Signal : SendSignal(s)
    \/ \E p \in Pid : ReapForkFails(p) \/ WorkerExits(p) \/ WorkerStopped(p)

Next ==
    \/ MonitorStep
    \/ Disturbance
    \/ \E p \in Pid : WorkerStarts(p) \/ WorkerTerminates(p)

Spec == Init /\ [][Next]_vars

(* The scheduler, and workers that end after SIGTERM. *)
Fairness ==
    /\ WF_vars(MonitorStep)
    /\ \A p \in Pid : WF_vars(WorkerStarts(p)) /\ WF_vars(WorkerTerminates(p))

FairSpec == Spec /\ Fairness

-----------------------------------------------------------------------------
(* One waitpid() per SIGCHLD is enough: a working monitor always has exactly*)
(* one unreaped child and knows its process id, so that a SIGTERM hits no   *)
(* stranger, and a monitor that ends in order leaves no worker behind.      *)
OneChild ==
    /\ pc \in {"wait", "reload", "term", "reap"} => Children = {child}
    /\ termed \cup stale \subseteq Children
    /\ pc = "exited" => Children = {}

(* From some point on nobody sends signals, the worker ends only because of *)
(* SIGTERM, and no call fails.                                              *)
Quiet == <>[][~Disturbance]_vars

(* Each of the signals that mean "stop" ends the monitor. *)
StopLeadsToExit ==
    Quiet => (pending \cap {"SIGTERM", "SIGINT", "SIGQUIT"} # {} ~> Ended)

(* A comment of RunMonitor says of SIGHUP that the monitor will then receive*)
(* a SIGCHLD and restart the worker: the child a reload met goes away, and  *)
(* a worker serves in its place.                                            *)
ReloadRestarts ==
    Quiet => <>[](Ended \/ (stale = {} /\ \E p \in Pid : p = child /\ proc[p] = "serving"))

-----------------------------------------------------------------------------
(* The inductive invariant of OneChild. *)
Typed ==
    /\ pc \in {"start", "wait", "reap", "reload", "term", "exited", "failed", "aborted"}
    /\ child \in Pid \cup {NoChild}
    /\ proc \in [Pid -> {"free", "starting", "serving", "zombie"}]

IInv ==
    /\ Typed
    /\ pc = "start" => Children = {}
    /\ OneChild

=============================================================================
