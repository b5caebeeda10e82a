-------------------------- MODULE ModuleLifeProofs --------------------------
(***************************************************************************)
(* The safety properties of ModuleLife for any number of workers and of    *)
(* module objects.  The inductive invariant IInv speaks of one process at  *)
(* a time, so the proof is about the operations on one heap: what each of  *)
(* them returns, then which label and heap it leads to.                    *)
(***************************************************************************)
EXTENDS ModuleLife, TLAPS

(* A heap in the middle of HandleSIGHUB, whose local may hold an object.    *)
AnyHeap ==
    [module_ : Object \cup {Null}, old_module : Object \cup {Null},
     resource_ : {"none", "rejected", "ready"},
     dlmodule_ : {"none", "unloaded", "loaded"},
     object : [Object -> ModuleObject]]

LEMMA HeapIsAny == \A h : h \in Heap <=> h \in AnyHeap /\ h.old_module = Null
BY DEF Heap, AnyHeap

LEMMA NullIsNoObject == Null \notin Object
BY DEF Null, Object

(* Everything but the objects is the same in both heaps. *)
SameMembers(g, h) ==
    /\ g.module_ = h.module_
    /\ g.old_module = h.old_module
    /\ g.resource_ = h.resource_
    /\ g.dlmodule_ = h.dlmodule_

(* Two states of one object that differ in `live' and `uninits' at most.    *)
SameOrigin(a, b) == (a.made <=> b.made) /\ a.init = b.init /\ (a.cut <=> b.cut)

(* Collect only deletes objects that neither pointer points to. *)
LEMMA CollectResult ==
    ASSUME NEW h \in AnyHeap
    PROVE  /\ Collect(h) \in AnyHeap
           /\ SameMembers(Collect(h), h)
           /\ \A i \in Object :
                 /\ SameOrigin(Collect(h).object[i], h.object[i])
                 /\ Collect(h).object[i].uninits = h.object[i].uninits
                 /\ Collect(h).object[i].live <=>
                       h.object[i].live /\ (i = h.module_ \/ i = h.old_module)
<1> DEFINE o(i) == [h.object[i] EXCEPT !.live = @ /\ i \in {h.module_, h.old_module}]
           objects == [i \in Object |-> o(i)]
<1>1. ASSUME NEW i \in Object
      PROVE  /\ o(i) \in ModuleObject
             /\ SameOrigin(o(i), h.object[i])
             /\ o(i).uninits = h.object[i].uninits
             /\ o(i).live <=> h.object[i].live /\ (i = h.module_ \/ i = h.old_module)
  <2>1. h.object[i] \in ModuleObject
    BY DEF AnyHeap
  <2> QED BY <2>1 DEF ModuleObject, SameOrigin
<1>2. Collect(h) = [h EXCEPT !.object = objects]
  BY DEF Collect
<1> HIDE DEF o
<1>3. objects \in [Object -> ModuleObject] /\ \A i \in Object : objects[i] = o(i)
  BY <1>1
<1> HIDE DEF objects
<1>4. /\ Collect(h) \in AnyHeap
      /\ SameMembers(Collect(h), h)
      /\ Collect(h).object = objects
  BY <1>2, <1>3 DEF AnyHeap, SameMembers
<1> QED BY <1>1, <1>3, <1>4

(* CallUninit counts at the object and nowhere else. *)
LEMMA UninitResult ==
    ASSUME NEW h \in AnyHeap, NEW i \in Object
    PROVE  /\ CallUninit(h, i) \in AnyHeap
           /\ SameMembers(CallUninit(h, i), h)
           /\ \A j \in Object \ {i} : CallUninit(h, i).object[j] = h.object[j]
           /\ SameOrigin(CallUninit(h, i).object[i], h.object[i])
           /\ CallUninit(h, i).object[i].live <=> h.object[i].live
           /\ h.object[i].uninits <= 1 =>
                 CallUninit(h, i).object[i].uninits = h.object[i].uninits + 1
<1>1. h.object \in [Object -> ModuleObject] /\ h.object[i] \in ModuleObject
  BY DEF AnyHeap
<1> DEFINE o == [h.object[i] EXCEPT !.uninits = IF @ < MaxUninits THEN @ + 1 ELSE @]
<1>2. /\ o \in ModuleObject
      /\ SameOrigin(o, h.object[i])
      /\ o.live <=> h.object[i].live
      /\ h.object[i].uninits <= 1 => o.uninits = h.object[i].uninits + 1
  BY <1>1 DEF ModuleObject, SameOrigin, MaxUninits
<1>3. CallUninit(h, i) = [h EXCEPT !.object = [h.object EXCEPT ![i] = o]]
  BY <1>1 DEF CallUninit, AnyHeap, ModuleObject
<1> HIDE DEF o
<1> QED BY <1>1, <1>2, <1>3 DEF AnyHeap, SameMembers

(* Settled, of one object. *)
SettledObject(o, present) ==
    /\ o.uninits <= Owed(o)
    /\ o.cut => o.uninits > 0
    /\ ~present /\ o.init = "ok" => o.uninits = Owed(o)

LEMMA SettledResult ==
    \A h : Settled(h) <=> \A i \in Object : SettledObject(h.object[i], i = h.module_)
BY DEF Settled, SettledObject

(* InitModule leaves g = h, or puts a new object i into module_ and drops   *)
(* the object that was there unless old_module holds it too.                *)
NewModule(h, g, i, ok) ==
    /\ ~h.object[i].made
    /\ g \in AnyHeap
    /\ SameMembers(g, [h EXCEPT !.module_ = i])
    /\ g.object[i].made /\ g.object[i].live
    /\ g.object[i].init = IF ok THEN "ok" ELSE "rejected"
    /\ g.object[i].uninits = 0 /\ ~g.object[i].cut
    /\ \A j \in Object \ {i} :
          /\ SameOrigin(g.object[j], h.object[j])
          /\ g.object[j].uninits = h.object[j].uninits
          /\ g.object[j].live <=> h.object[j].live /\ j = h.old_module

LEMMA CreatedResult ==
    ASSUME NEW h \in AnyHeap, NEW i \in Object, NEW v \in {"ok", "rejected"},
           ~h.object[i].made
    PROVE  NewModule(h, Created(h, i, v), i, v = "ok")
<1> DEFINE o == [made |-> TRUE, live |-> TRUE, init |-> v, uninits |-> 0, cut |-> FALSE]
           f == [h EXCEPT !.module_ = i, !.object[i] = o]
           g == Collect(f)
<1>1. /\ o \in ModuleObject
      /\ o.made /\ o.live /\ o.init = v /\ o.uninits = 0 /\ ~o.cut
  BY DEF ModuleObject, MaxUninits
<1>2. g = Created(h, i, v)
  BY DEF Created
<1> HIDE DEF o
<1>3. /\ f \in AnyHeap
      /\ SameMembers(f, [h EXCEPT !.module_ = i])
      /\ f.module_ = i /\ f.old_module = h.old_module
      /\ f.object = [h.object EXCEPT ![i] = o]
  BY <1>1 DEF AnyHeap, SameMembers
<1> HIDE DEF f
<1>4. f.object[i] = o /\ \A j \in Object \ {i} : f.object[j] = h.object[j]
  BY <1>3 DEF AnyHeap
<1>5. /\ g \in AnyHeap
      /\ SameMembers(g, f)
      /\ \A j \in Object :
            /\ SameOrigin(g.object[j], f.object[j])
            /\ g.object[j].uninits = f.object[j].uninits
            /\ g.object[j].live <=> f.object[j].live /\ (j = f.module_ \/ j = f.old_module)
  BY <1>3, CollectResult
<1> HIDE DEF g
<1>6. SameMembers(g, [h EXCEPT !.module_ = i])
  BY <1>3, <1>5 DEF SameMembers
<1>7. /\ g.object[i].made /\ g.object[i].live
      /\ g.object[i].init = v /\ g.object[i].uninits = 0 /\ ~g.object[i].cut
  BY <1>1, <1>3, <1>4, <1>5 DEF SameOrigin
<1>8. ASSUME NEW j \in Object \ {i}
      PROVE  /\ SameOrigin(g.object[j], h.object[j])
             /\ g.object[j].uninits = h.object[j].uninits
             /\ g.object[j].live <=> h.object[j].live /\ j = h.old_module
  <2>1. f.object[j] = h.object[j]
    BY <1>4
  <2> QED BY <1>3, <1>5, <2>1
<1>9. v = IF v = "ok" THEN "ok" ELSE "rejected"
  OBVIOUS
<1>10. NewModule(h, g, i, v = "ok")
  BY <1>5, <1>6, <1>7, <1>8, <1>9 DEF NewModule
<1> QED BY <1>2, <1>10

LEMMA InitModuleResult ==
    ASSUME NEW h \in AnyHeap, NEW r \in InitModuleResults(h)
    PROVE  \/ ~r.ok /\ r.h = h
           \/ \E i \in Object : NewModule(h, r.h, i, r.ok)
<1>1. \/ r = [ok |-> FALSE, h |-> h]
      \/ \E v \in {"ok", "rejected"}, i \in Object :
            ~h.object[i].made /\ r = [ok |-> v = "ok", h |-> Created(h, i, v)]
  BY DEF InitModuleResults, Made
<1>2. ASSUME NEW v \in {"ok", "rejected"}, NEW i \in Object,
             ~h.object[i].made, r = [ok |-> v = "ok", h |-> Created(h, i, v)]
      PROVE  NewModule(h, r.h, i, r.ok)
  <2>1. NewModule(h, Created(h, i, v), i, v = "ok")
    BY <1>2, CreatedResult
  <2> QED BY <1>2, <2>1
<1> QED BY <1>1, <1>2

(* The end of HandleSIGHUB: old_module goes, and with it what it owned. *)
LEMMA DropOld ==
    ASSUME NEW h \in AnyHeap
    PROVE  LET c == Collect([h EXCEPT !.old_module = Null])
           IN /\ c \in Heap
              /\ c.module_ = h.module_
              /\ c.resource_ = h.resource_ /\ c.dlmodule_ = h.dlmodule_
              /\ \A i \in Object :
                    /\ SameOrigin(c.object[i], h.object[i])
                    /\ c.object[i].uninits = h.object[i].uninits
                    /\ c.object[i].live <=> h.object[i].live /\ i = h.module_
<1> DEFINE d == [h EXCEPT !.old_module = Null]
           c == Collect(d)
<1>1. /\ d \in AnyHeap
      /\ d.module_ = h.module_ /\ d.old_module = Null
      /\ d.resource_ = h.resource_ /\ d.dlmodule_ = h.dlmodule_
      /\ d.object = h.object
  BY DEF AnyHeap
<1> HIDE DEF d
<1>2. /\ c \in AnyHeap
      /\ SameMembers(c, d)
      /\ \A i \in Object :
            /\ SameOrigin(c.object[i], d.object[i])
            /\ c.object[i].uninits = d.object[i].uninits
            /\ c.object[i].live <=> d.object[i].live /\ (i = d.module_ \/ i = d.old_module)
  BY <1>1, CollectResult
<1> HIDE DEF c
<1>3. c \in Heap
  BY <1>1, <1>2, HeapIsAny DEF SameMembers
<1>4. /\ c.module_ = h.module_
      /\ c.resource_ = h.resource_ /\ c.dlmodule_ = h.dlmodule_
  BY <1>1, <1>2 DEF SameMembers
<1>5. \A i \in Object :
         /\ SameOrigin(c.object[i], h.object[i])
         /\ c.object[i].uninits = h.object[i].uninits
         /\ c.object[i].live <=> h.object[i].live /\ i = h.module_
  BY <1>1, <1>2, NullIsNoObject
<1> QED BY <1>3, <1>4, <1>5 DEF c, d

-----------------------------------------------------------------------------
(* HandleSIGHUB.  What a step must leave for IInv, field by field: the heap *)
(* g is the one DropOld describes, so the three cases differ in what the    *)
(* call of InitModule and the one of Uninit did to the object in module_.   *)
LEMMA WaitsAgain ==
    ASSUME NEW h \in AnyHeap, h.module_ # Null,
           h.dlmodule_ = "loaded", h.resource_ = "ready",
           Unmade(h), Settled(h), Ready(h),
           h.object[h.module_].live
    PROVE  LET c == Collect([h EXCEPT !.old_module = Null])
           IN c \in Heap /\ Good("wait", c)
<1> DEFINE c == Collect([h EXCEPT !.old_module = Null])
<1>1. /\ c \in Heap
      /\ c.module_ = h.module_
      /\ c.resource_ = h.resource_ /\ c.dlmodule_ = h.dlmodule_
      /\ \A i \in Object :
            /\ SameOrigin(c.object[i], h.object[i])
            /\ c.object[i].uninits = h.object[i].uninits
            /\ c.object[i].live <=> h.object[i].live /\ i = h.module_
  BY DropOld
<1> HIDE DEF c
<1>2. h.module_ \in Object
  BY DEF AnyHeap
<1>3. Owned(c)
  BY <1>1 DEF Owned
<1>4. Unmade(c)
  BY <1>1 DEF Unmade, SameOrigin
<1>5. Settled(c)
  BY <1>1 DEF Settled, SameOrigin, Owed
<1>6. Supported(c)
  BY <1>1 DEF Supported
<1>7. Ready(c)
  BY <1>1, <1>2 DEF Ready, SameOrigin
<1>8. Good("wait", c)
  BY <1>3, <1>4, <1>5, <1>6, <1>7 DEF Good, Staged
<1> QED BY <1>1, <1>8 DEF c

LEMMA ReloadResult ==
    ASSUME NEW h \in Heap, Good("wait", h),
           NEW r \in InitModuleResults([h EXCEPT !.old_module = h.module_])
    PROVE  LET new == IF r.ok THEN CallUninit(r.h, h.module_)
                              ELSE [r.h EXCEPT !.module_ = h.module_]
               c == Collect([new EXCEPT !.old_module = Null])
           IN c \in Heap /\ Good("wait", c)
<1> DEFINE saved == [h EXCEPT !.old_module = h.module_]
           m == h.module_
           put == [r.h EXCEPT !.module_ = m]
<1>1. h \in AnyHeap /\ m \in Object
  BY HeapIsAny DEF AnyHeap, Good, Staged, Ready
<1>2. /\ Owned(h) /\ Unmade(h) /\ Settled(h) /\ Ready(h)
      /\ h.dlmodule_ = "loaded" /\ h.resource_ = "ready"
  BY DEF Good, Staged, Supported, Ready
<1>3. /\ saved \in AnyHeap
      /\ saved.module_ = m /\ saved.old_module = m
      /\ saved.resource_ = "ready" /\ saved.dlmodule_ = "loaded"
      /\ saved.object = h.object
  BY <1>1, <1>2 DEF AnyHeap
<1>4. /\ h.object[m].made /\ h.object[m].live
      /\ h.object[m].init = "ok" /\ h.object[m].uninits = 0 /\ ~h.object[m].cut
  BY <1>1, <1>2 DEF Owned, Unmade, Ready, Settled
<1> HIDE DEF saved, m
<1>5. \/ ~r.ok /\ r.h = saved
      \/ \E i \in Object : NewModule(saved, r.h, i, r.ok)
  BY <1>3, InitModuleResult DEF saved, m
<1>6. CASE ~r.ok /\ r.h = saved
  <2>1. /\ put \in AnyHeap
        /\ put.module_ = m
        /\ put.resource_ = "ready" /\ put.dlmodule_ = "loaded"
        /\ put.object = h.object
    BY <1>3, <1>6, <1>1 DEF AnyHeap
  <2> HIDE DEF put
  <2>2. Unmade(put) /\ Settled(put) /\ Ready(put)
    BY <2>1, <1>2 DEF Unmade, Settled, Ready, m
  <2>3. put.object[put.module_].live /\ put.module_ # Null
    BY <2>1, <1>4, <1>1, NullIsNoObject
  <2>4. LET c == Collect([put EXCEPT !.old_module = Null])
        IN c \in Heap /\ Good("wait", c)
    BY <2>1, <2>2, <2>3, WaitsAgain
  <2> QED BY <2>4, <1>6 DEF put, m
<1>7. ASSUME NEW i \in Object, NewModule(saved, r.h, i, r.ok)
      PROVE  LET new == IF r.ok THEN CallUninit(r.h, m) ELSE put
                 c == Collect([new EXCEPT !.old_module = Null])
             IN c \in Heap /\ Good("wait", c)
  <2>1. i # m
    BY <1>7, <1>3, <1>4 DEF NewModule
  <2>2. /\ r.h \in AnyHeap
        /\ r.h.module_ = i
        /\ r.h.resource_ = "ready" /\ r.h.dlmodule_ = "loaded"
        /\ r.h.object[i].made /\ r.h.object[i].live
        /\ r.h.object[i].init = IF r.ok THEN "ok" ELSE "rejected"
        /\ r.h.object[i].uninits = 0 /\ ~r.h.object[i].cut
    BY <1>7, <1>3 DEF NewModule, SameMembers, AnyHeap
  <2>3. \A j \in Object \ {i} :
           /\ SameOrigin(r.h.object[j], h.object[j])
           /\ r.h.object[j].uninits = h.object[j].uninits
           /\ r.h.object[j].live <=> h.object[j].live /\ j = m
    BY <1>7, <1>3 DEF NewModule
  <2>4. CASE r.ok
    <3> DEFINE new == CallUninit(r.h, m)
    <3>1. /\ new \in AnyHeap
          /\ SameMembers(new, r.h)
          /\ \A j \in Object \ {m} : new.object[j] = r.h.object[j]
          /\ SameOrigin(new.object[m], r.h.object[m])
          /\ new.object[m].live <=> r.h.object[m].live
          /\ r.h.object[m].uninits <= 1 =>
                new.object[m].uninits = r.h.object[m].uninits + 1
      BY <2>2, <1>1, UninitResult
    <3> HIDE DEF new
    <3>2. /\ new.module_ = i
          /\ new.resource_ = "ready" /\ new.dlmodule_ = "loaded"
      BY <3>1, <2>2 DEF SameMembers
    <3>3. new.object[i] = r.h.object[i]
      BY <3>1, <2>1
    <3>4. new.object[m].uninits = 1 /\ new.object[m].made /\ ~new.object[m].cut
      BY <3>1, <2>1, <2>3, <1>1, <1>4 DEF SameOrigin
    <3>5. \A j \in Object \ {i, m} :
             /\ SameOrigin(new.object[j], h.object[j])
             /\ new.object[j].uninits = h.object[j].uninits
             /\ ~new.object[j].live
      BY <3>1, <2>3
    <3>6. Unmade(new)
      <4> SUFFICES ASSUME NEW j \in Object, ~new.object[j].made
                   PROVE  /\ ~new.object[j].live
                          /\ new.object[j].init = "none"
                          /\ new.object[j].uninits = 0
        BY DEF Unmade
      <4>1. j # i /\ j # m
        BY <3>3, <3>4, <2>2
      <4> QED BY <4>1, <3>5, <1>2 DEF Unmade, SameOrigin
    <3>7. Settled(new)
      <4> SUFFICES ASSUME NEW j \in Object
                   PROVE  SettledObject(new.object[j], j = i)
        BY <3>2, SettledResult
      <4>1. CASE j = i
        BY <4>1, <3>3, <2>2 DEF SettledObject, Owed
      <4>2. CASE j = m
        BY <4>2, <3>4 DEF SettledObject, Owed
      <4>3. CASE j # i /\ j # m
        BY <4>3, <3>5, <1>2 DEF Settled, SettledObject, Owed, SameOrigin, m
      <4> QED BY <4>1, <4>2, <4>3
    <3>8. new.module_ # Null /\ Ready(new) /\ new.object[new.module_].live
      BY <3>2, <3>3, <2>2, <2>4, NullIsNoObject DEF Ready
    <3>9. LET c == Collect([new EXCEPT !.old_module = Null])
          IN c \in Heap /\ Good("wait", c)
      BY <3>1, <3>2, <3>6, <3>7, <3>8, WaitsAgain
    <3> QED BY <3>9, <2>4 DEF new
  <2>5. CASE ~r.ok
    <3>1. /\ put \in AnyHeap
          /\ put.module_ = m
          /\ put.resource_ = "ready" /\ put.dlmodule_ = "loaded"
          /\ put.object = r.h.object
      BY <2>2, <1>1 DEF AnyHeap
    <3> HIDE DEF put
    <3>2. Unmade(put)
      BY <3>1, <2>2, <2>3, <1>2 DEF Unmade, SameOrigin
    <3>3. Settled(put)
      <4> SUFFICES ASSUME NEW j \in Object
                   PROVE  SettledObject(put.object[j], j = m)
        BY <3>1, SettledResult
      <4>1. CASE j = i
        BY <4>1, <3>1, <2>2, <2>5 DEF SettledObject, Owed
      <4>2. CASE j # i
        BY <4>2, <3>1, <2>3, <1>2 DEF Settled, SettledObject, Owed, SameOrigin, m
      <4> QED BY <4>1, <4>2
    <3>4. /\ put.module_ # Null /\ Ready(put)
          /\ put.object[put.module_].live
      BY <3>1, <2>1, <2>3, <1>1, <1>4, NullIsNoObject DEF Ready, SameOrigin
    <3>5. LET c == Collect([put EXCEPT !.old_module = Null])
          IN c \in Heap /\ Good("wait", c)
      BY <3>1, <3>2, <3>3, <3>4, WaitsAgain
    <3> QED BY <3>5, <2>5
  <2> QED BY <2>4, <2>5
<1> QED BY <1>5, <1>6, <1>7 DEF put, m

-----------------------------------------------------------------------------
(* The other operations. *)

(* Before a module object is made, the library and the resource may change. *)
LEMMA NothingMade ==
    ASSUME NEW h \in Heap, Owned(h), Unmade(h), Settled(h), Made(h) = {},
           NEW g, g.module_ = h.module_, g.object = h.object
    PROVE  /\ Owned(g) /\ Unmade(g) /\ Settled(g) /\ Supported(g)
           /\ Made(g) = {} /\ g.module_ = Null
<1>1. h.module_ = Null
  BY DEF Heap, Owned, Unmade, Made
<1> QED BY <1>1 DEF Owned, Unmade, Settled, Supported, Made

(* InitModule of LoadMaster: the first object, accepted or rejected. *)
LEMMA FirstModule ==
    ASSUME NEW h \in Heap, Good("module", h), NEW r \in InitModuleResults(h)
    PROVE  r.h \in Heap /\ Good(IF r.ok THEN "loaded" ELSE "exit", r.h)
<1> DEFINE l == IF r.ok THEN "loaded" ELSE "exit"
<1>1. h \in AnyHeap /\ h.old_module = Null
  BY HeapIsAny
<1>2. /\ Owned(h) /\ Unmade(h) /\ Settled(h) /\ Made(h) = {}
      /\ h.dlmodule_ = "loaded" /\ h.resource_ = "ready"
  BY DEF Good, Staged
<1>3. h.module_ = Null
  BY <1>2, NothingMade
<1>4. \/ ~r.ok /\ r.h = h
      \/ \E i \in Object : NewModule(h, r.h, i, r.ok)
  BY <1>1, InitModuleResult
<1>5. CASE ~r.ok /\ r.h = h
  BY <1>5, <1>3 DEF Good, Staged
<1>6. ASSUME NEW i \in Object, NewModule(h, r.h, i, r.ok)
      PROVE  r.h \in Heap /\ Good(l, r.h)
  <2>1. /\ r.h \in AnyHeap
        /\ r.h.module_ = i /\ r.h.old_module = Null
        /\ r.h.resource_ = "ready" /\ r.h.dlmodule_ = "loaded"
        /\ r.h.object[i].made /\ r.h.object[i].live
        /\ r.h.object[i].init = IF r.ok THEN "ok" ELSE "rejected"
        /\ r.h.object[i].uninits = 0 /\ ~r.h.object[i].cut
    BY <1>6, <1>1, <1>2 DEF NewModule, SameMembers, AnyHeap
  <2>2. \A j \in Object \ {i} :
           /\ SameOrigin(r.h.object[j], h.object[j])
           /\ r.h.object[j].uninits = h.object[j].uninits
           /\ ~r.h.object[j].live
    BY <1>6, <1>1, NullIsNoObject DEF NewModule
  <2>3. r.h \in Heap
    BY <2>1, HeapIsAny
  <2>4. Owned(r.h)
    BY <2>1, <2>2 DEF Owned
  <2>5. Unmade(r.h)
    BY <2>1, <2>2, <1>2 DEF Unmade, SameOrigin
  <2>6. Settled(r.h)
    <3> SUFFICES ASSUME NEW j \in Object
                 PROVE  SettledObject(r.h.object[j], j = i)
      BY <2>1, SettledResult
    <3>1. CASE j = i
      BY <3>1, <2>1 DEF SettledObject, Owed
    <3>2. CASE j # i
      BY <3>2, <2>2, <1>2, <1>3, NullIsNoObject
      DEF Settled, SettledObject, Owed, SameOrigin
    <3> QED BY <3>1, <3>2
  <2>7. Supported(r.h)
    BY <2>1 DEF Supported
  <2>8. Staged(l, r.h)
    BY <2>1, NullIsNoObject DEF Staged, Ready, Owed
  <2> QED BY <2>3, <2>4, <2>5, <2>6, <2>7, <2>8 DEF Good
<1> QED BY <1>4, <1>5, <1>6

(* module_->Uninit(), when it is the last one the module is owed. *)
LEMMA LastUninit ==
    ASSUME NEW h \in Heap, Owned(h), Unmade(h), Settled(h), Supported(h),
           h.module_ # Null,
           h.object[h.module_].uninits + 1 = Owed(h.object[h.module_])
    PROVE  LET g == CallUninit(h, h.module_)
           IN /\ g \in Heap
              /\ g.module_ = h.module_
              /\ Owned(g) /\ Unmade(g) /\ Settled(g) /\ Supported(g)
              /\ g.object[g.module_].uninits = Owed(g.object[g.module_])
              /\ g.object[g.module_].cut <=> h.object[h.module_].cut
<1> DEFINE m == h.module_
           g == CallUninit(h, m)
<1>1. h \in AnyHeap /\ h.old_module = Null /\ m \in Object
  BY HeapIsAny DEF AnyHeap
<1> HIDE DEF m
<1>2. /\ g \in AnyHeap
      /\ SameMembers(g, h)
      /\ \A j \in Object \ {m} : g.object[j] = h.object[j]
      /\ SameOrigin(g.object[m], h.object[m])
      /\ g.object[m].live <=> h.object[m].live
      /\ g.object[m].uninits = Owed(h.object[m])
  <2>1. h.object[m].uninits + 1 = Owed(h.object[m]) /\ h.object[m].uninits <= 1
    BY <1>1 DEF AnyHeap, ModuleObject, MaxUninits, Owed, m
  <2> QED BY <1>1, <2>1, UninitResult DEF m
<1> HIDE DEF g
<1>3. g.module_ = m /\ g \in Heap
  BY <1>1, <1>2, HeapIsAny DEF SameMembers, m
<1>4. h.object[m].made /\ h.object[m].live
  BY <1>1 DEF Owned, Unmade, m
<1>5. Owned(g)
  BY <1>1, <1>2, <1>3 DEF Owned, m
<1>6. Unmade(g)
  BY <1>1, <1>2, <1>4 DEF Unmade, SameOrigin
<1>7. Settled(g)
  <2> SUFFICES ASSUME NEW i \in Object
               PROVE  SettledObject(g.object[i], i = m)
    BY <1>3, SettledResult
  <2>1. CASE i = m
    BY <2>1, <1>2 DEF SettledObject, Owed, SameOrigin
  <2>2. CASE i # m
    BY <2>2, <1>2 DEF Settled, SettledObject, m
  <2> QED BY <2>1, <2>2
<1>8. Supported(g)
  BY <1>2 DEF Supported, SameMembers
<1>9. g.object[m].uninits = Owed(g.object[m]) /\ (g.object[m].cut <=> h.object[m].cut)
  BY <1>2 DEF SameOrigin, Owed
<1> QED BY <1>3, <1>5, <1>6, <1>7, <1>8, <1>9 DEF g, m

(* module_.reset() once nothing more is to be called. *)
LEMMA Released ==
    ASSUME NEW h \in Heap, Owned(h), Unmade(h), Settled(h),
           h.module_ # Null =>
               h.object[h.module_].uninits = Owed(h.object[h.module_]),
           NEW r \in {"none", "rejected", "ready"}
    PROVE  LET g == Collect([h EXCEPT !.module_ = Null, !.resource_ = r])
           IN /\ g \in Heap
              /\ g.module_ = Null
              /\ Owned(g) /\ Unmade(g) /\ Settled(g) /\ Supported(g)
<1> DEFINE f == [h EXCEPT !.module_ = Null, !.resource_ = r]
           g == Collect(f)
<1>1. h \in AnyHeap /\ h.old_module = Null
  BY HeapIsAny
<1>2. /\ f \in AnyHeap
      /\ f.module_ = Null /\ f.old_module = Null
      /\ f.object = h.object
  BY <1>1 DEF AnyHeap
<1> HIDE DEF f
<1>3. /\ g \in AnyHeap
      /\ SameMembers(g, f)
      /\ \A i \in Object :
            /\ SameOrigin(g.object[i], h.object[i])
            /\ g.object[i].uninits = h.object[i].uninits
            /\ ~g.object[i].live
  BY <1>2, CollectResult, NullIsNoObject
<1> HIDE DEF g
<1>4. g.module_ = Null /\ g \in Heap
  BY <1>2, <1>3, HeapIsAny DEF SameMembers
<1>5. Owned(g)
  BY <1>3, <1>4, NullIsNoObject DEF Owned
<1>6. Unmade(g)
  BY <1>3 DEF Unmade, SameOrigin
<1>7. Settled(g)
  <2> SUFFICES ASSUME NEW i \in Object
               PROVE  SettledObject(g.object[i], FALSE)
    BY <1>4, SettledResult, NullIsNoObject DEF SettledObject
  <2>1. CASE i = h.module_
    BY <2>1, <1>3, NullIsNoObject DEF Settled, SettledObject, SameOrigin, Owed
  <2>2. CASE i # h.module_
    BY <2>2, <1>3 DEF Settled, SettledObject, SameOrigin, Owed
  <2> QED BY <2>1, <2>2
<1>8. Supported(g)
  BY <1>4 DEF Supported
<1> QED BY <1>4, <1>5, <1>6, <1>7, <1>8 DEF g, f

(* ~Master: UnloadModule, with or without a module. *)
LEMMA Unloaded ==
    ASSUME NEW h \in Heap, Good("exit", h)
    PROVE  LET g == IF h.module_ = Null THEN h
                    ELSE Collect([CallUninit(h, h.module_) EXCEPT !.module_ = Null])
           IN g \in Heap /\ Good("unload", g)
<1>1. CASE h.module_ = Null
  BY <1>1 DEF Good, Staged
<1>2. CASE h.module_ # Null
  <2> DEFINE u == CallUninit(h, h.module_)
             g == Collect([u EXCEPT !.module_ = Null])
  <2>1. /\ u \in Heap
        /\ Owned(u) /\ Unmade(u) /\ Settled(u)
        /\ u.module_ = h.module_
        /\ u.object[u.module_].uninits = Owed(u.object[u.module_])
    BY <1>2, LastUninit DEF Good, Staged
  <2> HIDE DEF u
  <2>2. /\ [u EXCEPT !.module_ = Null] =
              [u EXCEPT !.module_ = Null, !.resource_ = u.resource_]
        /\ u.resource_ \in {"none", "rejected", "ready"}
    BY <2>1 DEF Heap
  <2>3. /\ g \in Heap
        /\ g.module_ = Null
        /\ Owned(g) /\ Unmade(g) /\ Settled(g) /\ Supported(g)
    BY <2>1, <2>2, Released, ZenonT(30)
  <2> HIDE DEF g
  <2>4. g \in Heap /\ Good("unload", g)
    BY <2>3 DEF Good, Staged
  <2> QED BY <2>4, <1>2 DEF g, u
<1> QED BY <1>1, <1>2

(* The handler's exit(), in the middle of one of these calls, leaves ~Master*)
(* nothing to uninitialise or a module that awaits its only Uninit.         *)
LEMMA ExitFromCall ==
    ASSUME NEW h \in Heap,
           NEW l \in {"load", "resource", "module", "loaded", "worker", "returned"},
           Good(l, h)
    PROVE  Good("exit", h)
<1>1. CASE l \in {"load", "resource", "module"}
  <2>1. h.module_ = Null
    BY <1>1, NothingMade DEF Good, Staged
  <2> QED BY <2>1 DEF Good, Staged
<1>2. CASE l \in {"loaded", "worker", "returned"}
  <2>1. Ready(h) /\ Settled(h) /\ h.module_ \in Object
    BY <1>2 DEF Good, Staged, Ready, Heap
  <2>2. h.object[h.module_].uninits + 1 = Owed(h.object[h.module_])
    BY <2>1 DEF Ready, Settled, Owed
  <2> QED BY <2>2 DEF Good, Staged
<1> QED BY <1>1, <1>2

CutShort(h) == [h EXCEPT !.object[h.module_].cut = TRUE]

(* Once Uninit has begun, it leaves the module there for a second one.      *)
LEMMA ExitFromReset ==
    ASSUME NEW h \in Heap, Good("reset", h)
    PROVE  CutShort(h) \in Heap /\ Good("exit", CutShort(h))
<1> DEFINE m == h.module_
           o == [h.object[m] EXCEPT !.cut = TRUE]
           g == CutShort(h)
<1>1. /\ m \in Object
      /\ h.object[m] \in ModuleObject
      /\ h.object[m].uninits = 1
      /\ Owned(h) /\ Unmade(h) /\ Settled(h) /\ Supported(h)
  BY DEF Heap, Good, Staged
<1>2. /\ o \in ModuleObject
      /\ o.made = h.object[m].made /\ o.live = h.object[m].live
      /\ o.init = h.object[m].init
      /\ o.uninits = 1 /\ o.cut
  BY <1>1 DEF ModuleObject
<1>3. g = [h EXCEPT !.object = [h.object EXCEPT ![m] = o]]
  BY <1>1 DEF CutShort, Heap, ModuleObject
<1> HIDE DEF o, m, g
<1>4. /\ g \in Heap
      /\ g.module_ = h.module_
      /\ g.resource_ = h.resource_ /\ g.dlmodule_ = h.dlmodule_
      /\ g.object[m] = o
      /\ \A i \in Object \ {m} : g.object[i] = h.object[i]
  BY <1>1, <1>2, <1>3 DEF Heap
<1>5. Owned(g)
  BY <1>1, <1>2, <1>4 DEF Owned
<1>6. h.object[m].made
  BY <1>1 DEF Owned, Unmade, m
<1>7. Unmade(g)
  BY <1>1, <1>2, <1>4, <1>6 DEF Unmade
<1>8. Settled(g)
  <2> SUFFICES ASSUME NEW i \in Object
               PROVE  SettledObject(g.object[i], i = m)
    BY <1>4, SettledResult DEF m
  <2>1. CASE i = m
    BY <2>1, <1>2, <1>4 DEF SettledObject, Owed
  <2>2. CASE i # m
    BY <2>2, <1>1, <1>4 DEF Settled, SettledObject, m
  <2> QED BY <2>1, <2>2
<1>9. Supported(g)
  BY <1>1, <1>4 DEF Supported
<1>10. g.object[g.module_].uninits + 1 = Owed(g.object[g.module_])
  BY <1>2, <1>4 DEF Owed, m
<1>11. Good("exit", g)
  BY <1>5, <1>7, <1>8, <1>9, <1>10 DEF Good, Staged
<1> QED BY <1>4, <1>11 DEF g

-----------------------------------------------------------------------------
(* The invariant. *)

LEMMA InitGood == Init => IInv
<1> SUFFICES ASSUME Init PROVE IInv
  OBVIOUS
<1>1. Fresh \in ModuleObject /\ EmptyHeap \in Heap
  BY DEF Fresh, ModuleObject, EmptyHeap, Heap, MaxUninits
<1>2. TypeOK
  BY <1>1 DEF Init, TypeOK, Label, Process, Root
<1>3. ASSUME NEW l \in {"load", "none"}
      PROVE  Good(l, EmptyHeap)
  <2>1. /\ EmptyHeap.module_ = Null
        /\ \A i \in Object : EmptyHeap.object[i] = Fresh
    BY DEF EmptyHeap
  <2> QED
    BY <2>1, NullIsNoObject
    DEF Good, Owned, Unmade, Settled, Supported, Staged, Made, Fresh, Owed
<1>4. ASSUME NEW p \in Process
      PROVE  pc[p] \in {"load", "none"} /\ heap[p] = EmptyHeap
  BY DEF Init
<1> QED BY <1>2, <1>3, <1>4 DEF IInv

(* A step of one process that leads to a good label and heap. *)
LEMMA GoodStep ==
    ASSUME IInv,
           NEW p \in Process, NEW l \in Label, NEW h \in Heap, Good(l, h),
           pc' = [pc EXCEPT ![p] = l],
           heap' = [heap EXCEPT ![p] = h]
    PROVE  IInv'
<1>1. TypeOK'
  BY DEF IInv, TypeOK
<1>2. ASSUME NEW q \in Process, NEW k, NEW g, Good(k, g), pc'[q] = k, heap'[q] = g
      PROVE  Good(pc[q], heap[q])'
  <2>1. Owned(heap[q])'
    BY <1>2 DEF Good, Owned
  <2>2. Unmade(heap[q])'
    BY <1>2 DEF Good, Unmade
  <2>3. Settled(heap[q])'
    BY <1>2 DEF Good, Settled, Owed
  <2>4. Supported(heap[q])'
    BY <1>2 DEF Good, Supported
  <2>5. Staged(pc[q], heap[q])'
    BY <1>2 DEF Good, Staged, Made, Ready, Owed
  <2> QED BY <2>1, <2>2, <2>3, <2>4, <2>5 DEF Good
<1>3. ASSUME NEW q \in Process
      PROVE  Good(pc[q], heap[q])'
  <2>1. CASE q = p
    <3>1. pc'[q] = l /\ heap'[q] = h
      BY <2>1 DEF IInv, TypeOK
    <3> QED BY <3>1, <1>2
  <2>2. CASE q # p
    <3>1. pc'[q] = pc[q] /\ heap'[q] = heap[q]
      BY <2>2 DEF IInv, TypeOK
    <3>2. Good(pc[q], heap[q])
      BY DEF IInv
    <3> QED BY <3>1, <3>2, <1>2
  <2> QED BY <2>1, <2>2
<1> QED BY <1>1, <1>3 DEF IInv

LEMMA NextGood == IInv /\ [Next]_vars => IInv'
<1> SUFFICES ASSUME IInv, [Next]_vars
             PROVE  IInv'
  OBVIOUS
<1>1. \A p \in Process : /\ pc[p] \in Label
                         /\ heap[p] \in Heap
                         /\ Good(pc[p], heap[p])
  BY DEF IInv, TypeOK
<1>2. Root \in Process /\ Worker \subseteq Process
  BY DEF Process
(* The step of `Step', by what it has to show. *)
<1>3. ASSUME NEW p \in Process, NEW from \in Label, NEW to \in Label, NEW h,
             Step(p, from, to, h),
             heap[p] \in Heap /\ Good(from, heap[p]) => h \in Heap /\ Good(to, h)
      PROVE  IInv'
  BY <1>3, <1>1, GoodStep DEF Step
<1>4. CASE LoadFails
  <2> PICK d \in {"none", "unloaded"} :
          Step(Root, "load", "exit", [heap[Root] EXCEPT !.dlmodule_ = d])
    BY <1>4 DEF LoadFails
  <2> DEFINE g == [heap[Root] EXCEPT !.dlmodule_ = d]
  <2>1. ASSUME heap[Root] \in Heap, Good("load", heap[Root])
        PROVE  g \in Heap /\ Good("exit", g)
    <3>1. g \in Heap /\ g.module_ = heap[Root].module_ /\ g.object = heap[Root].object
      BY <2>1 DEF Heap
    <3> QED BY <2>1, <3>1, NothingMade DEF Good, Staged
  <2> QED BY <2>1, <1>2, <1>3 DEF Label
<1>5. CASE LoadLibrary
  <2> DEFINE g == [heap[Root] EXCEPT !.dlmodule_ = "loaded"]
  <2>1. ASSUME heap[Root] \in Heap, Good("load", heap[Root])
        PROVE  g \in Heap /\ Good("resource", g)
    <3>1. /\ g \in Heap /\ g.module_ = heap[Root].module_
          /\ g.object = heap[Root].object /\ g.dlmodule_ = "loaded"
      BY <2>1 DEF Heap
    <3> QED BY <2>1, <3>1, NothingMade DEF Good, Staged
  <2> QED BY <2>1, <1>2, <1>3, <1>5 DEF Label, LoadLibrary
<1>6. CASE InitResourceFails
  <2> PICK r \in {"none", "rejected"} :
          Step(Root, "resource", "exit", [heap[Root] EXCEPT !.resource_ = r])
    BY <1>6 DEF InitResourceFails
  <2> DEFINE g == [heap[Root] EXCEPT !.resource_ = r]
  <2>1. ASSUME heap[Root] \in Heap, Good("resource", heap[Root])
        PROVE  g \in Heap /\ Good("exit", g)
    <3>1. g \in Heap /\ g.module_ = heap[Root].module_ /\ g.object = heap[Root].object
      BY <2>1 DEF Heap
    <3> QED BY <2>1, <3>1, NothingMade DEF Good, Staged
  <2> QED BY <2>1, <1>2, <1>3 DEF Label
<1>7. CASE InitResource
  <2> DEFINE g == [heap[Root] EXCEPT !.resource_ = "ready"]
  <2>1. ASSUME heap[Root] \in Heap, Good("resource", heap[Root])
        PROVE  g \in Heap /\ Good("module", g)
    <3>1. /\ g \in Heap /\ g.module_ = heap[Root].module_
          /\ g.object = heap[Root].object
          /\ g.resource_ = "ready" /\ g.dlmodule_ = heap[Root].dlmodule_
      BY <2>1 DEF Heap
    <3> QED BY <2>1, <3>1, NothingMade DEF Good, Staged
  <2> QED BY <2>1, <1>2, <1>3, <1>7 DEF Label, InitResource
<1>8. CASE InitModule
  <2> PICK r \in InitModuleResults(heap[Root]) :
          Step(Root, "module", IF r.ok THEN "loaded" ELSE "exit", r.h)
    BY <1>8 DEF InitModule
  <2>1. ASSUME heap[Root] \in Heap, Good("module", heap[Root])
        PROVE  r.h \in Heap /\ Good(IF r.ok THEN "loaded" ELSE "exit", r.h)
    BY <2>1, FirstModule
  <2> QED BY <2>1, <1>2, <1>3 DEF Label
<1>9. CASE RunMaster
  <2> PICK to \in {"worker", "wait"} : Step(Root, "loaded", to, heap[Root])
    BY <1>9 DEF RunMaster
  <2>1. Good("loaded", heap[Root]) => Good(to, heap[Root])
    BY DEF Good, Staged
  <2> QED BY <2>1, <1>2, <1>3 DEF Label
<1>10. CASE Reload
  <2> DEFINE h == heap[Root]
             saved == [h EXCEPT !.old_module = h.module_]
             new(r) == IF r.ok THEN CallUninit(r.h, h.module_)
                               ELSE [r.h EXCEPT !.module_ = h.module_]
             c(r) == Collect([new(r) EXCEPT !.old_module = Null])
  <2> PICK r \in InitModuleResults(saved) : Step(Root, "wait", "wait", c(r))
    BY <1>10 DEF Reload
  <2>1. ASSUME h \in Heap, Good("wait", h)
        PROVE  c(r) \in Heap /\ Good("wait", c(r))
    BY <2>1, ReloadResult
  <2> HIDE DEF c
  <2> QED BY <2>1, <1>2, <1>3 DEF Label
<1>11. CASE MasterReturns
  <2>1. Good("wait", heap[Root]) => Good("exit", heap[Root])
    <3>1. Good("wait", heap[Root]) => Good("loaded", heap[Root])
      BY DEF Good, Staged
    <3> QED BY <1>1, <1>2, <3>1, ExitFromCall
  <2> QED BY <2>1, <1>2, <1>3, <1>11 DEF Label, MasterReturns
<1>12. ASSUME NEW w \in Worker, Fork(w)
       PROVE  IInv'
  <2>1. Good("wait", heap[Root]) => Good("worker", heap[Root])
    BY DEF Good, Staged
  <2> QED BY <2>1, <1>1, <1>2, <1>12, GoodStep DEF Fork, Label
<1>13. ASSUME NEW p \in Process, Runs(p)
       PROVE  IInv'
  <2>1. Good("worker", heap[p]) => Good("returned", heap[p])
    BY DEF Good, Staged
  <2> QED BY <2>1, <1>3, <1>13 DEF Label, Runs
<1>14. ASSUME NEW p \in Process, Uninit(p)
       PROVE  IInv'
  <2> DEFINE g == CallUninit(heap[p], heap[p].module_)
  <2>1. ASSUME heap[p] \in Heap, Good("returned", heap[p])
        PROVE  g \in Heap /\ Good("reset", g)
    <3>1. /\ g \in Heap
          /\ g.module_ = heap[p].module_ /\ heap[p].module_ # Null
          /\ Owned(g) /\ Unmade(g) /\ Settled(g) /\ Supported(g)
          /\ g.object[g.module_].uninits = Owed(g.object[g.module_])
          /\ ~g.object[g.module_].cut
      <4>1. heap[p].module_ \in Object /\ Settled(heap[p])
        BY <2>1 DEF Good, Staged, Ready, Heap
      <4>2. ~heap[p].object[heap[p].module_].cut
        BY <2>1, <4>1 DEF Good, Staged, Ready, Settled
      <4> QED BY <2>1, <4>2, LastUninit DEF Good, Staged, Ready, Owed
    <3> HIDE DEF g
    <3> QED BY <3>1 DEF Good, Staged, Owed
  <2> HIDE DEF g
  <2> QED BY <2>1, <1>3, <1>14 DEF Label, Uninit, g
<1>15. ASSUME NEW p \in Process, Reset(p)
       PROVE  IInv'
  <2> DEFINE g == Collect([heap[p] EXCEPT !.module_ = Null, !.resource_ = "none"])
  <2>1. ASSUME heap[p] \in Heap, Good("reset", heap[p])
        PROVE  g \in Heap /\ Good("exit", g)
    <3>1. /\ g \in Heap
          /\ g.module_ = Null
          /\ Owned(g) /\ Unmade(g) /\ Settled(g) /\ Supported(g)
      BY <2>1, Released DEF Good, Staged, Owed
    <3> HIDE DEF g
    <3> QED BY <3>1 DEF Good, Staged
  <2> HIDE DEF g
  <2> QED BY <2>1, <1>3, <1>15 DEF Label, Reset, g
<1>16. ASSUME NEW p \in Process, HandlerExits(p)
       PROVE  IInv'
  <2>1. ASSUME NEW l \in {"load", "resource", "module", "loaded", "worker", "returned"},
               Step(p, l, "exit", heap[p])
        PROVE  IInv'
    <3>1. Good(l, heap[p]) => Good("exit", heap[p])
      BY <1>1, ExitFromCall
    <3> QED BY <2>1, <3>1, <1>3 DEF Label
  <2>2. ASSUME Step(p, "reset", "exit", CutShort(heap[p]))
        PROVE  IInv'
    <3>1. heap[p] \in Heap /\ Good("reset", heap[p]) =>
              CutShort(heap[p]) \in Heap /\ Good("exit", CutShort(heap[p]))
      BY ExitFromReset
    <3> QED BY <2>2, <3>1, <1>3 DEF Label
  <2> QED BY <1>16, <2>1, <2>2 DEF HandlerExits, CutShort
<1>17. ASSUME NEW p \in Process, UnloadModule(p)
       PROVE  IInv'
  <2> DEFINE h == heap[p]
             g == IF h.module_ = Null THEN h
                  ELSE Collect([CallUninit(h, h.module_) EXCEPT !.module_ = Null])
  <2>1. ASSUME h \in Heap, Good("exit", h)
        PROVE  g \in Heap /\ Good("unload", g)
    BY <2>1, Unloaded
  <2>2. Step(p, "exit", "unload", g)
    BY <1>17 DEF UnloadModule
  <2> HIDE DEF g
  <2> QED BY <2>1, <2>2, <1>3 DEF Label
<1>18. ASSUME NEW p \in Process, UnloadLibrary(p)
       PROVE  IInv'
  <2> DEFINE g == [heap[p] EXCEPT !.resource_ = "none", !.dlmodule_ = "none"]
  <2>1. ASSUME heap[p] \in Heap, Good("unload", heap[p])
        PROVE  g \in Heap /\ Good("gone", g)
    <3>1. g \in Heap /\ g.module_ = heap[p].module_ /\ g.object = heap[p].object
      BY <2>1 DEF Heap
    <3> QED BY <2>1, <3>1 DEF Good, Owned, Unmade, Settled, Supported, Staged
  <2> QED BY <2>1, <1>3, <1>18 DEF Label, UnloadLibrary
<1>19. ASSUME NEW p \in Process, Crashes(p)
       PROVE  IInv'
  <2>1. heap' = [heap EXCEPT ![p] = heap[p]]
    BY <1>19 DEF Crashes, IInv, TypeOK
  <2>2. Good("crashed", heap[p])
    BY <1>1 DEF Good, Staged
  <2> QED BY <2>1, <2>2, <1>1, <1>19, GoodStep DEF Crashes, Label
<1>20. CASE UNCHANGED vars
  BY <1>20 DEF vars, IInv, TypeOK, Good, Owned, Unmade, Settled, Supported,
               Staged, Made, Ready, Owed
<1> QED
  BY <1>4, <1>5, <1>6, <1>7, <1>8, <1>9, <1>10, <1>11, <1>12, <1>13, <1>14,
     <1>15, <1>16, <1>17, <1>18, <1>19, <1>20
  DEF Next

(* Between two calls, in whatever order loads, reloads, forks, ends and     *)
(* crashes come, each process holds its live objects in module_ alone.      *)
THEOREM Invariance == Spec => []IInv
<1> QED BY InitGood, NextGood, PTL DEF Spec

-----------------------------------------------------------------------------
(* The properties of module_life. *)

(* The members of Master and the objects keep their types. *)
THEOREM TypeCorrect == Spec => []TypeOK
<1>1. IInv => TypeOK
  BY DEF IInv
<1> QED BY <1>1, Invariance, PTL

(* No copy of a module object is uninitialised twice, however many reloads  *)
(* fail or succeed, unless a handler's exit() comes between its Uninit and  *)
(* its reset; then not three times.                                         *)
THEOREM UninitAsOwed == Spec => []UninitOnce
<1>1. IInv => UninitOnce
  BY DEF IInv, Good, Settled, UninitOnce
<1> QED BY <1>1, Invariance, PTL

(* What a master forks from and a worker runs is accepted, alive and not    *)
(* uninitialised, after a failed reload too.                                *)
THEOREM ReadyToServe == Spec => []ServesReadyModule
<1>1. IInv => ServesReadyModule
  <2> SUFFICES ASSUME IInv, NEW p \in Process,
                      pc[p] \in {"loaded", "wait", "worker"}
               PROVE  /\ heap[p].module_ # Null
                      /\ LET o == heap[p].object[heap[p].module_]
                         IN o.live /\ o.init = "ok" /\ o.uninits = 0
    BY DEF ServesReadyModule
  <2>1. Ready(heap[p]) /\ Owned(heap[p])
    BY DEF IInv, Good, Staged
  <2>2. heap[p].module_ \in Object
    BY <2>1 DEF IInv, TypeOK, Heap, Ready
  <2> QED BY <2>1, <2>2 DEF Ready, Owned
<1> QED BY <1>1, Invariance, PTL

(* A live module object has its resource and its library under it. *)
THEOREM MappedWhileAlive == Spec => []DependenciesAlive
<1>1. IInv => DependenciesAlive
  BY NullIsNoObject DEF IInv, Good, Owned, Supported, DependenciesAlive
<1> QED BY <1>1, Invariance, PTL

(* When a process has ended through exit(), wherever a handler called it,   *)
(* every object is deleted, and each accepted one has had its Uninit, or the*)
(* two it gets when the handler came in between.                            *)
THEOREM NothingLeftAtExit == Spec => []BalancedAtExit
<1>1. IInv => BalancedAtExit
  BY NullIsNoObject DEF IInv, Good, Owned, Settled, Staged, BalancedAtExit
<1> QED BY <1>1, Invariance, PTL

=============================================================================
