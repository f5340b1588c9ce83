---------------------------- MODULE SnapshotModel ----------------------------
(***************************************************************************)
(* What the snapshot store promises the two export backends (ADR-0002):    *)
(* they read one value that is replaced as a whole, once per collection    *)
(* cycle, by the view of a single cycle.  A view belongs to a generation   *)
(* of clients (one per rebuild of the target set); generations never go    *)
(* back, and within one generation the set of targets is fixed and every   *)
(* published failure counter only grows.                                   *)
(***************************************************************************)
EXTENDS Naturals

VARIABLE snap   \* [cycle, gen, per]: per maps a target's name to its result

EmptySnapshot == [cycle |-> 0, gen |-> 0, per |-> [n \in {} |-> 0]]

OneCycle(s) == \A n \in DOMAIN s.per : s.per[n].at = s.cycle

(* t may follow s within one generation of clients *)
Continues(s, t) ==
    /\ DOMAIN t.per = DOMAIN s.per
    /\ \A n \in DOMAIN t.per : t.per[n].errors >= s.per[n].errors

Init == snap = EmptySnapshot

Replace ==
    /\ snap'.cycle = snap.cycle + 1
    /\ OneCycle(snap')
    /\ \/ snap'.gen > snap.gen
       \/ snap'.gen = snap.gen /\ snap.cycle = 0
       \/ snap'.gen = snap.gen /\ Continues(snap, snap')

Spec == Init /\ [][Replace]_snap
=============================================================================
