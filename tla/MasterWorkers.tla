---------------------------- MODULE MasterWorkers ----------------------------
(***************************************************************************)
(* The older master of examples/master-workers/master.cc.  It shares its   *)
(* loop, its reaping and its workers with mpic/master_linux.cc, so this    *)
(* module uses the actions of Master for them.  What differs: workers are  *)
(* killed by KillAllChildren, which first makes exiting_processes_ a copy  *)
(* of running_processes_, whatever it held; a SIGHUP kills the old workers *)
(* before it forks the new ones; no module object can fail to load.        *)
(*                                                                         *)
(* pc = "retire" is KillAllChildren called for SIGHUP, "term" for SIGTERM; *)
(* m is what its loop has still to visit.  `stale' stays empty.            *)
(***************************************************************************)
EXTENDS Master

(* The first statement of KillAllChildren, on behalf of a signal. *)
BadKillAllBegins(to) ==
    /\ pc' = to
    /\ m' = running_processes
    /\ UNCHANGED <<spawns, running_processes, exiting_processes, exiting,
                   proc, termed, stale>>

KillAllBegins(to) ==
    /\ pc' = to
    /\ exiting_processes' = running_processes
    /\ m' = running_processes
    /\ UNCHANGED <<spawns, running_processes, exiting, proc, termed, stale>>

(* SIGHUP, unless a reload is under way (then IgnoreSIGHUP of Master). *)
ReloadSIGHUP ==
    /\ Dequeue("SIGHUP")
    /\ exiting_processes = {}
    /\ KillAllBegins("retire")

TermSIGTERM == Dequeue("SIGTERM") /\ KillAllBegins("term")

(* One kill(pid, SIGTERM) of the loop. *)
KillWorker(p) ==
    /\ pc \in {"retire", "term"}
    /\ p \in m
    /\ m' = m \ {p}
    /\ termed' = termed \cup {p}
    /\ UNCHANGED <<pc, spawns, running_processes, exiting_processes, exiting,
                   pending, proc, stale>>

(* The end of KillAllChildren for SIGHUP, where SpawnChildWorkers follows;  *)
(* for SIGTERM it is TermDone of Master.                                    *)
ReloadKilled ==
    /\ pc = "retire"
    /\ m = {}
    /\ pc' = "reload"
    /\ running_processes' = {}
    /\ spawns' = Workers
    /\ UNCHANGED <<exiting_processes, m, exiting, pending, proc, termed, stale>>

SpawnsDone ==
    /\ pc \in {"start", "reload"}
    /\ spawns = 0
    /\ pc' = "wait"
    /\ UNCHANGED <<spawns, running_processes, exiting_processes, m, exiting,
                   pending, proc, termed, stale>>

WorkersNext ==
    \/ SpawnChildWorkers \/ SpawnsDone \/ SpawnFails
    \/ TakeSIGCHLD \/ TakeSIGINT \/ TermSIGTERM \/ IgnoreSIGHUP \/ ReloadSIGHUP
    \/ SigwaitFails
    \/ \E p \in Pid : KillWorker(p)
    \/ ReloadKilled \/ TermDone
    \/ \E p \in Pid : Reap(p) \/ ReapRunningForkFails(p)
    \/ ReapDone
    \/ \E s \in Signal : SendSignal(s)
    \/ \E p \in Pid : \/ WorkerStarts(p) \/ WorkerTerminates(p)
                      \/ WorkerExits(p) \/ WorkerStopped(p)

WorkersSpec == Init /\ [][WorkersNext]_vars

-----------------------------------------------------------------------------
(* Both maps only name unreaped children, and SIGTERM goes to children only,*)
(* even after the map of the exiting ones has been overwritten.             *)
EntriesAreChildren ==
    /\ ~Ended => running_processes \cup exiting_processes \subseteq Children
    /\ SignalsOnlyChildren

(* Up to the first SIGTERM the overwriting does no harm: the two maps split *)
(* the children into those that were told to leave and those that were not. *)
TrackedUntilTerm ==
    pc \in {"wait", "reap"} /\ ~exiting =>
        /\ running_processes = Children \ termed
        /\ exiting_processes = termed

(* The comment on exiting_processes_ in master.h, "worker processes which   *)
(* are exiting": a child that was sent SIGTERM and is not reaped has an     *)
(* entry.                                                                   *)
ExitingTracked == pc = "wait" => termed \subseteq exiting_processes

-----------------------------------------------------------------------------
(* The inductive invariant of the two that hold: what KillAllChildren has   *)
(* done so far, and how the children are split at every place of the code.  *)
Killing ==
    pc \in {"retire", "term"} =>
        m \subseteq running_processes /\ exiting_processes = running_processes

Split ==
    ~exiting =>
        /\ pc \in {"start", "wait", "reap", "reload"} =>
              running_processes = Children \ termed /\ exiting_processes = termed
        /\ pc = "retire" => running_processes = Children /\ termed = Children \ m

WorkersIInv == TypeOK /\ EntriesAreChildren /\ Killing /\ Split

=============================================================================
