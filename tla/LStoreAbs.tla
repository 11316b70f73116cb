----------------------------- MODULE LStoreAbs -----------------------------
(***************************************************************************)
(* What the log store promises: writes take effect one after the other, a  *)
(* write that has taken effect stays, and the network sees no other.       *)
(***************************************************************************)
EXTENDS Sequences, SequencesExt

CONSTANT Write

VARIABLES
    applied,    \* the writes that have taken effect, in order
    visible     \* those the network has seen

AbsInit == applied = <<>> /\ visible = {}

\* Some writes take effect together, none of them twice.
Commit ==
    /\ IsStrictPrefix(applied, applied')
    /\ IsInjective(applied') /\ Range(applied') \subseteq Write
    /\ UNCHANGED visible

Show(w) ==
    /\ w \in Range(applied)
    /\ visible' = visible \union {w}
    /\ UNCHANGED applied

AbsNext == Commit \/ \E w \in Write : Show(w)

Spec == AbsInit /\ [][AbsNext]_<<applied, visible>>
=============================================================================
