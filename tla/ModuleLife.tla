----------------------------- MODULE ModuleLife -----------------------------
(***************************************************************************)
(* The objects of a dynamically loaded module and who may still use them:  *)
(* LoadModule, InitResource, InitModule and UnloadModule of mpic/master.cc,*)
(* the reload of HandleSIGHUB, the foreground branch of RunMaster and the  *)
(* worker branch of SpawnChildWorker.  A fork copies the heap, so every    *)
(* process has its own copy of each object; module objects are numbered in *)
(* the order in which MPIC_NewModule made them.                            *)
(*                                                                         *)
(* Every call into the library may fail in the ways the code looks at: a   *)
(* missing symbol, an exception of the constructor, an Init that returns   *)
(* false or throws.  A process ends by exit(), which runs ~Master, or by a *)
(* crash, which does not; and a SIGTERM handler may call exit() wherever   *)
(* the signal is not blocked.                                              *)
(*                                                                         *)
(* As in Master, Bad... is a wrong version of the definition after it.     *)
(***************************************************************************)
EXTENDS Integers

CONSTANTS
    Worker,         \* worker processes
    MaxModules      \* bound: module objects made in one life of the master

ASSUME MaxModulesAssumption == MaxModules \in Nat \ {0}

VARIABLES
    pc,     \* where each process is
    heap    \* the members of Master and the module objects, in each process

vars == <<pc, heap>>

-----------------------------------------------------------------------------
Root == "master"
Process == {Root} \cup Worker
Object == 1 .. MaxModules
Null == 0

(* One module object: whether MPIC_NewModule has returned it, whether it is *)
(* still allocated, what InitInMaster said, how often Uninit was called, and*)
(* (history) whether a handler's exit() came after that, before the reset.  *)
Fresh ==
    [made |-> FALSE, live |-> FALSE, init |-> "none", uninits |-> 0, cut |-> FALSE]

EmptyHeap ==
    [module_ |-> Null, old_module |-> Null, resource_ |-> "none",
     dlmodule_ |-> "none", object |-> [i \in Object |-> Fresh]]

Init ==
    /\ pc = [p \in Process |-> IF p = Root THEN "load" ELSE "none"]
    /\ heap = [p \in Process |-> EmptyHeap]

-----------------------------------------------------------------------------
(* Operations on the heap of one process. *)

(* shared_ptr: an object without an owner is deleted. *)
Collect(h) ==
    [h EXCEPT !.object = [i \in Object |->
        [h.object[i] EXCEPT !.live = @ /\ i \in {h.module_, h.old_module}]]]

(* p->Uninit(); MaxUninits is a bound of the model. *)
MaxUninits == 3
CallUninit(h, i) ==
    [h EXCEPT !.object[i].uninits = IF @ < MaxUninits THEN @ + 1 ELSE @]

(* A new object in module_, which Init has accepted or rejected. *)
Created(h, i, verdict) ==
    Collect([h EXCEPT
                !.module_ = i,
                !.object[i] = [made |-> TRUE, live |-> TRUE, init |-> verdict,
                               uninits |-> 0, cut |-> FALSE]])

(* InitModule: what a call may leave behind, and its result. *)
Made(h) == {i \in Object : h.object[i].made}
InitModuleResults(h) ==
    LET next == {i \in Object \ Made(h) : \A j \in Object \ Made(h) : i <= j}
    IN {[ok |-> FALSE, h |-> h]} \cup
       {[ok |-> v = "ok", h |-> Created(h, i, v)] : v \in {"ok", "rejected"}, i \in next}

Step(p, from, to, h) ==
    /\ pc[p] = from
    /\ pc' = [pc EXCEPT ![p] = to]
    /\ heap' = [heap EXCEPT ![p] = h]

-----------------------------------------------------------------------------
(* LoadModule *)

(* The file is missing or unreadable, or dlopen() fails. *)
LoadFails ==
    \E d \in {"none", "unloaded"} :
        Step(Root, "load", "exit", [heap[Root] EXCEPT !.dlmodule_ = d])

LoadLibrary ==
    Step(Root, "load", "resource", [heap[Root] EXCEPT !.dlmodule_ = "loaded"])

(* No symbol or no object; or an object whose Init failed. *)
InitResourceFails ==
    \E r \in {"none", "rejected"} :
        Step(Root, "resource", "exit", [heap[Root] EXCEPT !.resource_ = r])

InitResource ==
    Step(Root, "resource", "module", [heap[Root] EXCEPT !.resource_ = "ready"])

InitModule ==
    \E r \in InitModuleResults(heap[Root]) :
        Step(Root, "module", IF r.ok THEN "loaded" ELSE "exit", r.h)

(* RunMaster goes on in the foreground, where the process is its own worker,*)
(* or blocks the signals and becomes a master.                              *)
RunMaster ==
    \E to \in {"worker", "wait"} : Step(Root, "loaded", to, heap[Root])

-----------------------------------------------------------------------------
(* HandleSIGHUB *)

BadReloadUninitsFirst ==
    LET h == heap[Root]
        saved == CallUninit([h EXCEPT !.old_module = h.module_], h.module_)
    IN \E r \in InitModuleResults(saved) :
          LET new == IF r.ok THEN r.h ELSE [r.h EXCEPT !.module_ = h.module_]
          IN Step(Root, "wait", "wait", Collect([new EXCEPT !.old_module = Null]))

BadReloadKeepsRejected ==
    LET h == heap[Root]
        saved == [h EXCEPT !.old_module = h.module_]
    IN \E r \in InitModuleResults(saved) :
          LET new == IF r.ok THEN CallUninit(r.h, h.module_) ELSE r.h
          IN Step(Root, "wait", "wait", Collect([new EXCEPT !.old_module = Null]))

BadReloadKeepsOld ==
    LET h == heap[Root]
        saved == [h EXCEPT !.old_module = h.module_]
    IN \E r \in InitModuleResults(saved) :
          LET new == IF r.ok THEN CallUninit(r.h, h.module_)
                             ELSE [r.h EXCEPT !.module_ = h.module_]
          IN Step(Root, "wait", "wait", new)

BadReloadNoUninit ==
    LET h == heap[Root]
        saved == [h EXCEPT !.old_module = h.module_]
    IN \E r \in InitModuleResults(saved) :
          LET new == IF r.ok THEN r.h ELSE [r.h EXCEPT !.module_ = h.module_]
          IN Step(Root, "wait", "wait", Collect([new EXCEPT !.old_module = Null]))

Reload ==
    LET h == heap[Root]
        saved == [h EXCEPT !.old_module = h.module_]
    IN \E r \in InitModuleResults(saved) :
          LET new == IF r.ok THEN CallUninit(r.h, h.module_)
                             ELSE [r.h EXCEPT !.module_ = h.module_]
          IN Step(Root, "wait", "wait", Collect([new EXCEPT !.old_module = Null]))

(* RunMaster returned, with 0 or with 1. *)
MasterReturns == Step(Root, "wait", "exit", heap[Root])

-----------------------------------------------------------------------------
(* SpawnChildWorker and the foreground branch of RunMaster *)

Fork(w) ==
    /\ pc[Root] = "wait"
    /\ pc[w] = "none"
    /\ pc' = [pc EXCEPT ![w] = "worker"]
    /\ heap' = [heap EXCEPT ![w] = heap[Root]]

(* InitInWorker, whose result is not looked at, and Run. *)
Runs(p) == Step(p, "worker", "returned", heap[p])

Uninit(p) == Step(p, "returned", "reset", CallUninit(heap[p], heap[p].module_))

(* module_.reset(), resource_.reset() and exit() or the return from main *)
BadResetKeepsModule(p) ==
    Step(p, "reset", "exit", [heap[p] EXCEPT !.resource_ = "none"])

Reset(p) ==
    Step(p, "reset", "exit",
         Collect([heap[p] EXCEPT !.module_ = Null, !.resource_ = "none"]))

(* The SIGTERM handler of examples/mpic-framework calls exit(), in the      *)
(* middle of whatever the process is at; a master in RunMaster has blocked  *)
(* the signal.  During Uninit, or after it, module_ is still set.  (Within  *)
(* ~Master the outcome of another exit() is undefined, see Crashes.)        *)
HandlerExits(p) ==
    \/ \E l \in {"load", "resource", "module", "loaded", "worker", "returned"} :
          Step(p, l, "exit", heap[p])
    \/ Step(p, "reset", "exit", [heap[p] EXCEPT !.object[heap[p].module_].cut = TRUE])

-----------------------------------------------------------------------------
(* ~Master: UnloadModule *)

UnloadModule(p) ==
    LET h == heap[p] IN
    Step(p, "exit", "unload",
         IF h.module_ = Null THEN h
         ELSE Collect([CallUninit(h, h.module_) EXCEPT !.module_ = Null]))

UnloadLibrary(p) ==
    Step(p, "unload", "gone",
         [heap[p] EXCEPT !.resource_ = "none", !.dlmodule_ = "none"])

Crashes(p) ==
    /\ pc[p] \notin {"none", "gone", "crashed"}
    /\ pc' = [pc EXCEPT ![p] = "crashed"]
    /\ UNCHANGED heap

Next ==
    \/ LoadFails \/ LoadLibrary \/ InitResourceFails \/ InitResource \/ InitModule
    \/ RunMaster \/ Reload \/ MasterReturns
    \/ \E w \in Worker : Fork(w)
    \/ \E p \in Process : \/ Runs(p) \/ Uninit(p) \/ Reset(p) \/ HandlerExits(p)
                          \/ UnloadModule(p) \/ UnloadLibrary(p) \/ Crashes(p)

Spec == Init /\ [][Next]_vars

-----------------------------------------------------------------------------
(* The type invariant; old_module is a local of HandleSIGHUB. *)
Label == {"none", "load", "resource", "module", "loaded", "wait", "worker",
          "returned", "reset", "exit", "unload", "gone", "crashed"}

ModuleObject == [made : BOOLEAN, live : BOOLEAN,
                 init : {"none", "ok", "rejected"}, uninits : 0 .. MaxUninits,
                 cut : BOOLEAN]

Heap == [module_ : Object \cup {Null}, old_module : {Null},
         resource_ : {"none", "rejected", "ready"},
         dlmodule_ : {"none", "unloaded", "loaded"},
         object : [Object -> ModuleObject]]

TypeOK ==
    /\ pc \in [Process -> Label]
    /\ heap \in [Process -> Heap]

(* The calls of Uninit an accepted object gets: one, and a second one from  *)
(* ~Master if a handler's exit() came between the first and the reset.      *)
Owed(o) == IF o.cut THEN 2 ELSE 1

(* Whatever reloads succeed or fail and however the process ends, no copy   *)
(* of a module object is uninitialised twice, except by a SIGTERM handler   *)
(* that exits while the process is ending anyway; not three times even then.*)
UninitOnce ==
    \A p \in Process, i \in Object :
        heap[p].object[i].uninits <= Owed(heap[p].object[i])

(* The module a master forks from and a worker runs is one InitInMaster has *)
(* accepted and nobody has uninitialised: a failed reload puts back the old *)
(* one in that state.                                                       *)
ServesReadyModule ==
    \A p \in Process : pc[p] \in {"loaded", "wait", "worker"} =>
        /\ heap[p].module_ # Null
        /\ LET o == heap[p].object[heap[p].module_]
           IN o.live /\ o.init = "ok" /\ o.uninits = 0

(* The library and the resource are there as long as a module object is:    *)
(* neither a destructor nor Uninit runs in unmapped code.                   *)
DependenciesAlive ==
    \A p \in Process, i \in Object : heap[p].object[i].live =>
        heap[p].dlmodule_ = "loaded" /\ heap[p].resource_ = "ready"

(* A process that ended through exit(), its own or that of a handler at any *)
(* moment, has deleted every module object, and uninitialised each that     *)
(* InitInMaster had accepted as often as it is owed.                        *)
BalancedAtExit ==
    \A p \in Process, i \in Object :
        pc[p] = "gone" /\ heap[p].object[i].made =>
            /\ ~heap[p].object[i].live
            /\ heap[p].object[i].init = "ok" =>
                  heap[p].object[i].uninits = Owed(heap[p].object[i])

-----------------------------------------------------------------------------
(* The inductive invariant, of the label and the heap of one process.       *)

(* Only module_ owns an object between two calls, and always a live one.    *)
Owned(h) == \A i \in Object : h.object[i].live <=> i = h.module_

Unmade(h) ==
    \A i \in Object : ~h.object[i].made =>
        /\ ~h.object[i].live
        /\ h.object[i].init = "none"
        /\ h.object[i].uninits = 0

(* Of the accepted objects only the present module awaits its Uninit.       *)
Settled(h) ==
    \A i \in Object :
        /\ h.object[i].uninits <= Owed(h.object[i])
        /\ h.object[i].cut => h.object[i].uninits > 0
        /\ i # h.module_ /\ h.object[i].init = "ok" =>
              h.object[i].uninits = Owed(h.object[i])

Supported(h) == h.module_ # Null => h.dlmodule_ = "loaded" /\ h.resource_ = "ready"

Ready(h) ==
    /\ h.module_ # Null
    /\ h.object[h.module_].init = "ok"
    /\ h.object[h.module_].uninits = 0

(* What a process has done of its life, by its label. *)
Staged(l, h) ==
    /\ l \in {"load", "resource", "module"} => Made(h) = {}
    /\ l = "resource" => h.dlmodule_ = "loaded"
    /\ l = "module" => h.dlmodule_ = "loaded" /\ h.resource_ = "ready"
    /\ l \in {"loaded", "wait", "worker", "returned"} => Ready(h)
    /\ l = "reset" => /\ h.module_ # Null
                      /\ h.object[h.module_].uninits = 1 /\ ~h.object[h.module_].cut
    /\ l = "exit" /\ h.module_ # Null =>
          h.object[h.module_].uninits + 1 = Owed(h.object[h.module_])
    /\ l \in {"unload", "gone"} => h.module_ = Null

Good(l, h) == Owned(h) /\ Unmade(h) /\ Settled(h) /\ Supported(h) /\ Staged(l, h)

IInv == TypeOK /\ \A p \in Process : Good(pc[p], heap[p])

=============================================================================
