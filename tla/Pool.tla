-------------------------------- MODULE Pool --------------------------------
(***************************************************************************)
(* What the master of mpic promises about its workers, without signals,    *)
(* maps or a process table: a pool of Size workers that is renewed without *)
(* ever dropping below Size, in which the dead are replaced one for one,   *)
(* and which is dismissed, down to the last worker, before the master goes.*)
(* Master implements it (PoolSpec there).                                  *)
(***************************************************************************)
EXTENDS Integers, FiniteSets

CONSTANTS Worker, Size

VARIABLES
    phase,      \* "up", "down" (asked to stop), "over" (stopped), "gone" (gave up)
    active,     \* workers that were not asked to leave
    leaving     \* workers that were

vars == <<phase, active, leaving>>

Init == phase = "up" /\ active = {} /\ leaving = {}

(* A new worker: at the start, or ahead of the retirements of a renewal. *)
Join(w) ==
    /\ phase = "up"
    /\ Cardinality(active) < 2 * Size
    /\ w \notin active \cup leaving
    /\ active' = active \cup {w}
    /\ UNCHANGED <<phase, leaving>>

(* A worker is asked to leave; enough others stay. *)
Retire(w) ==
    /\ phase = "up"
    /\ w \in active
    /\ Cardinality(active) > Size
    /\ active' = active \ {w}
    /\ leaving' = leaving \cup {w}
    /\ UNCHANGED phase

(* An active worker died and v takes its place, under the same name perhaps. *)
Replace(w, v) ==
    /\ phase = "up"
    /\ w \in active
    /\ v \notin (active \ {w}) \cup leaving
    /\ active' = (active \ {w}) \cup {v}
    /\ UNCHANGED <<phase, leaving>>

(* A worker that was asked to leave is gone. *)
Leave(w) ==
    /\ phase \in {"up", "down"}
    /\ w \in leaving
    /\ leaving' = leaving \ {w}
    /\ UNCHANGED <<phase, active>>

Stop ==
    /\ phase = "up"
    /\ phase' = "down"
    /\ UNCHANGED <<active, leaving>>

Dismiss(w) ==
    /\ phase = "down"
    /\ w \in active
    /\ active' = active \ {w}
    /\ leaving' = leaving \cup {w}
    /\ UNCHANGED phase

(* The orderly end: nobody is active, some may still be leaving. *)
Over ==
    /\ phase = "down"
    /\ active = {}
    /\ phase' = "over"
    /\ UNCHANGED <<active, leaving>>

(* A system call failed; a worker may just have been buried. *)
GiveUp ==
    /\ phase \in {"up", "down"}
    /\ phase' = "gone"
    /\ \E W \in SUBSET active : Cardinality(W) <= 1 /\ active' = active \ W
    /\ UNCHANGED leaving

Next ==
    \/ \E w \in Worker : Join(w) \/ Retire(w) \/ Leave(w) \/ Dismiss(w)
    \/ \E w, v \in Worker : Replace(w, v)
    \/ Stop \/ Over \/ GiveUp

Spec == Init /\ [][Next]_vars

=============================================================================
