----------------------------- MODULE EchoWorker -----------------------------
(***************************************************************************)
(* A worker of the echo module: the servers that Resource::Init creates in *)
(* the master, the worker that a fork makes of them, and how it ends after *)
(* SIGTERM (apps/modules/echo, echo_module.cc and nfmpic_resource.cc).     *)
(*                                                                         *)
(* The code is straight-line: a list of calls on the base loop and on the  *)
(* three servers.  `todo' is what is left of that list.  Around it move    *)
(* the threads of the servers, which stop some time after they have been   *)
(* asked to, and whoever sends SIGTERM, at any call.                       *)
(*                                                                         *)
(* The servers are those of evpp, which is not part of the repository:     *)
(* modelled is what this code relies on.  The TCP server runs on the base  *)
(* loop it was constructed with; whether it can still stop once that loop  *)
(* has is left open.                                                       *)
(*                                                                         *)
(* As in Master, Bad... is a wrong version of the definition after it.     *)
(***************************************************************************)
EXTENDS Integers, Sequences

CONSTANT MaxSigterms    \* bound: SIGTERMs one worker gets

VARIABLES
    todo,       \* the calls still to be made
    fate,       \* "alive", or how the process has ended
    component,  \* the state of the loop and of each server
    handled,    \* servers whose callbacks are registered
    running,    \* the flag of echo_module.cc
    sigterms    \* SIGTERMs delivered so far

vars == <<todo, fate, component, handled, running, sigterms>>

-----------------------------------------------------------------------------
Server == {"http", "tcp", "udp"}
Component == {"loop"} \cup Server

(* One call: what is done, and to which component. *)
Each(call, order) == [i \in DOMAIN order |-> <<call, order[i]>>]

ResourceInit == Each("create", <<"loop", "http", "tcp", "udp">>)

AfterFork == Each("after_fork", <<"loop", "http", "tcp", "udp">>)

RunServers == Each("start", <<"tcp", "http", "udp", "loop">>)

BadInitInWorker ==
    <<<<"signal", "main">>>> \o AfterFork \o RunServers
        \o Each("handler", <<"http", "udp", "tcp">>)

InitInWorker ==
    <<<<"signal", "main">>>> \o AfterFork
        \o Each("handler", <<"http", "udp", "tcp">>) \o RunServers

BadStopServersNoWait ==
    Each("pause", <<"udp", "http">>) \o <<<<"stop", "loop">>>>
        \o Each("stop", <<"udp", "http", "loop", "tcp">>)
        \o Each("await", <<"loop", "tcp", "http">>)

BadStopServersPauseOnly ==
    Each("pause", <<"udp", "http">>) \o <<<<"stop", "loop">>>>
        \o Each("stop", <<"udp", "loop", "tcp">>)
        \o Each("await", <<"loop", "tcp", "udp", "http">>)

(* The poll at the end starts over whenever a component has not stopped;    *)
(* since none starts again that is to await one after the other.            *)
StopServers ==
    Each("pause", <<"udp", "http">>) \o <<<<"stop", "loop">>>>
        \o Each("stop", <<"udp", "http", "loop", "tcp">>)
        \o Each("await", <<"loop", "tcp", "udp", "http">>)

(* Resource::Init in the master, SpawnChildWorker, InitInWorker, Run, the   *)
(* end of the worker branch, and ~Master.                                   *)
Calls ==
    ResourceInit \o <<<<"fork", "main">>>> \o InitInWorker
        \o <<<<"run", "main">>>> \o StopServers
        \o <<<<"uninit", "main">>, <<"unload", "main">>, <<"exit", "main">>>>

Due(call, c) == fate = "alive" /\ todo # <<>> /\ Head(todo) = <<call, c>>
Made(call, c) == \A i \in DOMAIN todo : todo[i] # <<call, c>>
Advance == todo' = Tail(todo)

(* A server is "absent" unless its port is set. *)
Init ==
    /\ todo = Calls
    /\ fate = "alive"
    /\ component \in [Component -> {"absent", "unmade"}]
    /\ component["loop"] = "unmade"
    /\ handled = {}
    /\ running = TRUE
    /\ sigterms = 0

Becomes(c, state) ==
    /\ component' = [component EXCEPT ![c] = state]
    /\ Advance
    /\ UNCHANGED <<fate, handled, running, sigterms>>

Ends(how) ==
    /\ fate' = how
    /\ UNCHANGED <<todo, component, handled, running, sigterms>>

Continue == Advance /\ UNCHANGED <<fate, component, handled, running, sigterms>>

-----------------------------------------------------------------------------
(* Resource::Init *)

Create(c) ==
    /\ Due("create", c)
    /\ IF component[c] = "absent" THEN Continue ELSE Becomes(c, "made")

(* A port in use, an address that does not parse: Init returns false. *)
CreateFails(c) ==
    /\ c \in Server
    /\ Due("create", c)
    /\ component[c] # "absent"
    /\ Ends("rejected")

(* fork(), and signal(SIGTERM, &sigterm) in the worker *)
Prepare(call) == Due(call, "main") /\ Continue

-----------------------------------------------------------------------------
(* InitInWorker, AfterFork, RunServers *)

CallAfterFork(c) ==
    /\ Due("after_fork", c)
    /\ component[c] # "absent"
    /\ Becomes(c, "forked")

RegisterHandler(c) ==
    /\ Due("handler", c)
    /\ component[c] # "absent"
    /\ handled' = handled \cup {c}
    /\ Advance
    /\ UNCHANGED <<fate, component, running, sigterms>>

Start(c) ==
    /\ Due("start", c)
    /\ component[c] # "absent"
    /\ Becomes(c, "running")

(* LOG(FATAL) *)
StartFails(c) ==
    /\ Due("start", c)
    /\ component[c] # "absent"
    /\ Ends("aborted")

(* Three functions use every server, whether Init has created it or not. *)
NullServer(c) ==
    /\ \E call \in {"after_fork", "handler", "start"} : Due(call, c)
    /\ component[c] = "absent"
    /\ Ends("crashed")

-----------------------------------------------------------------------------
(* EchoModule::Run: poll the flag, then StopServers. *)

BadLeaveRun == Due("run", "main") /\ Continue

LeaveRun ==
    /\ Due("run", "main")
    /\ ~running
    /\ Continue

Pause(c) ==
    /\ Due("pause", c)
    /\ IF component[c] = "absent" THEN Continue ELSE Becomes(c, "paused")

Stop(c) ==
    /\ Due("stop", c)
    /\ IF component[c] \in {"absent", "stopped"} THEN Continue
       ELSE Becomes(c, "stopping")

Await(c) ==
    /\ Due("await", c)
    /\ component[c] \in {"absent", "stopped"}
    /\ Continue

(* Uninit, the reset of module and resource, dlclose() in ~Master *)
TearDown == Prepare("uninit") \/ Prepare("unload")

Exit == Due("exit", "main") /\ Ends("exited")

-----------------------------------------------------------------------------
(* The threads of the servers, and the sender of SIGTERM *)

HasStopped(c) ==
    /\ fate = "alive"
    /\ component[c] = "stopping"
    /\ component' = [component EXCEPT ![c] = "stopped"]
    /\ UNCHANGED <<todo, fate, handled, running, sigterms>>

(* Before signal() the default action; then the handler; once dlclose() has *)
(* unmapped the library the handler is in, perhaps a crash.  The handler    *)
(* also allocates strings, which no handler may do; the model takes it that *)
(* this never fails, whatever call it interrupts.                           *)
Sigterm ==
    /\ fate = "alive"
    /\ Made("fork", "main")
    /\ sigterms < MaxSigterms
    /\ sigterms' = sigterms + 1
    /\ \/ /\ Made("signal", "main")
          /\ running' = FALSE
          /\ UNCHANGED fate
       \/ /\ ~Made("signal", "main")
          /\ fate' = "killed"
          /\ UNCHANGED running
       \/ /\ Made("unload", "main")
          /\ fate' = "crashed"
          /\ UNCHANGED running
    /\ UNCHANGED <<todo, component, handled>>

-----------------------------------------------------------------------------
WorkerStep ==
    \/ Prepare("fork") \/ Prepare("signal") \/ LeaveRun \/ TearDown \/ Exit
    \/ \E c \in Component : \/ Create(c) \/ CallAfterFork(c) \/ RegisterHandler(c)
                            \/ Start(c) \/ NullServer(c)
                            \/ Pause(c) \/ Stop(c) \/ Await(c)

Next ==
    \/ WorkerStep
    \/ \E c \in Component : CreateFails(c) \/ StartFails(c) \/ HasStopped(c)
    \/ Sigterm

Spec == Init /\ [][Next]_vars

(* The worker runs, and whatever is asked to stop does in the end; the TCP  *)
(* server only if its loop has not stopped before.                          *)
Fairness ==
    /\ WF_vars(WorkerStep)
    /\ \A c \in Component \ {"tcp"} : WF_vars(HasStopped(c))
    /\ WF_vars(component["loop"] # "stopped" /\ HasStopped("tcp"))

FairSpec == Spec /\ Fairness

-----------------------------------------------------------------------------
(* Properties *)

(* A server that may take requests; TCP accepts them on the base loop. *)
Serving(c) ==
    /\ component[c] = "running"
    /\ c = "tcp" => component["loop"] \in {"running", "stopping"}

(* No request ever meets a server without its callbacks, and after the      *)
(* pauses of StopServers only TCP, which has none, still takes any, while   *)
(* its loop is stopping ("do not receive new request").                     *)
RequestsHandled ==
    fate = "alive" => \A c \in Server : Serving(c) =>
        /\ c \in handled
        /\ Made("pause", "http") => c = "tcp" /\ ~Made("await", "loop")

(* When Run returns, and the module, the resource and the library go, every *)
(* component has stopped, though each stops by itself and long after the    *)
(* call that asked it to.                                                   *)
StoppedAtReturn ==
    fate = "alive" /\ Made("run", "main") /\ Made("await", "http") =>
        \A c \in Component : component[c] \in {"absent", "stopped"}

(* A worker that has come up, and gets one SIGTERM at most, can only end in *)
(* order: through the end of Run, after its SIGTERM, with every component   *)
(* stopped.  (A second one may meet the handler of a library that has been  *)
(* unmapped.  That it does end is SigtermEnds.)                             *)
OneSigtermIsSafe ==
    fate # "alive" /\ Made("start", "loop") /\ sigterms <= 1 =>
        /\ fate = "exited"
        /\ ~running
        /\ \A c \in Component : component[c] \in {"absent", "stopped"}

(* SIGTERM ends the worker, which the master counts on, with one exception: *)
(* the TCP server is told to stop after the loop it runs on has been, and   *)
(* may keep the worker waiting.                                             *)
SigtermEnds ==
    ~running ~> \/ fate # "alive"
                \/ Due("await", "tcp") /\ component["loop"] = "stopped"

-----------------------------------------------------------------------------
(* The inductive invariant: what the calls already made have left behind,   *)
(* whatever the servers and the senders of SIGTERM did in between.          *)
State == {"absent", "unmade", "made", "forked", "running", "paused",
          "stopping", "stopped"}

Typed ==
    /\ component \in [Component -> State]
    /\ sigterms \in Nat

(* What is left of the list is an end of it. *)
Remaining == \E n \in 0 .. Len(Calls) : todo = SubSeq(Calls, n + 1, Len(Calls))

Traces ==
    \A c \in Component :
        /\ c \in Server /\ component[c] = "running" => c \in handled
        /\ c \in Server /\ Made("handler", c) => c \in handled
        /\ c \in {"http", "udp"} /\ Made("pause", c) => component[c] # "running"
        /\ Made("await", c) => component[c] \in {"absent", "stopped"}

Asked ==
    /\ Made("run", "main") => ~running
    /\ ~running => sigterms > 0

IInv ==
    /\ Typed /\ Remaining /\ Traces /\ Asked
    /\ component["loop"] # "absent"
    /\ OneSigtermIsSafe

=============================================================================
