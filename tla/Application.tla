---------------------------- MODULE Application -----------------------------
(***************************************************************************)
(* The nfmpic application with the echo module (apps/nfmpic, apps/modules/ *)
(* echo), from main() to the end of one worker: Master::Init of module     *)
(* Startup, then the Resource and the worker of module EchoWorker.  They   *)
(* meet in the title, which RunMaster, the new worker and the SIGTERM      *)
(* handler set, the handler in the middle of anything else; and in the     *)
(* ports of nfmpic::Option, which say what servers there are.              *)
(***************************************************************************)
EXTENDS Startup

CONSTANT MaxSigterms    \* as in EchoWorker

ASSUME MaxSigtermsAssumption == MaxSigterms \in Nat

VARIABLES todo, fate, component, handled, running, sigterms

W == INSTANCE EchoWorker

workerVars == <<todo, fate, component, handled, running, sigterms>>
appvars == <<vars, workerVars>>

AppInit == Init /\ W!Init

-----------------------------------------------------------------------------
SomeTitle == \E n \in TitleLengths : SetTitle(n)

(* RunMaster sets its title before it loads the module. *)
RunMaster ==
    /\ stage = "up"
    /\ \/ SomeTitle /\ stage' = "running"
       \/ SetTitleCrashes
    /\ UNCHANGED workerVars

SpawnChildWorker ==
    /\ stage = "running"
    /\ W!Prepare("fork")
    /\ SomeTitle
    /\ UNCHANGED stage

WorkerStep ==
    /\ stage = "running"
    /\ W!WorkerStep /\ ~W!Prepare("fork")
    /\ UNCHANGED vars

SomethingFails ==
    /\ stage = "running"
    /\ \E c \in W!Component : W!CreateFails(c) \/ W!StartFails(c)
    /\ UNCHANGED vars

HasStopped(c) ==
    /\ W!HasStopped(c)
    /\ UNCHANGED vars

(* The handler sets the title first, wherever the worker is. *)
Sigterm ==
    /\ W!Sigterm
    /\ IF running' THEN UNCHANGED titleVars ELSE SomeTitle
    /\ UNCHANGED <<stage, given, option>>

AppNext ==
    \/ MasterInit /\ UNCHANGED workerVars
    \/ RunMaster
    \/ SpawnChildWorker
    \/ WorkerStep
    \/ SomethingFails
    \/ \E c \in W!Component : HasStopped(c)
    \/ Sigterm

AppSpec == AppInit /\ [][AppNext]_appvars

(* The fairness of EchoWorker. *)
AppFairness ==
    /\ WF_appvars(SpawnChildWorker \/ WorkerStep)
    /\ \A c \in W!Component \ {"tcp"} : WF_appvars(HasStopped(c))
    /\ WF_appvars(component["loop"] # "stopped" /\ HasStopped("tcp"))

AppFairSpec == AppSpec /\ AppFairness

-----------------------------------------------------------------------------
(* The properties of EchoWorker, of a worker that came to be this way; they *)
(* are stated and explained there.                                          *)
RequestsHandled == W!RequestsHandled
StoppedAtReturn == W!StoppedAtReturn
OneSigtermIsSafe == W!OneSigtermIsSafe
SigtermEnds == W!SigtermEnds

=============================================================================
