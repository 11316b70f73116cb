------------------------------- MODULE KeyMap -------------------------------
(***************************************************************************)
(* What the hash table promises (src/shared/hash_table.c): a map from keys *)
(* to objects, an object being the pair of its key and a version.          *)
(***************************************************************************)
CONSTANTS Key, Version, None

VARIABLES map, got, given

vars == <<map, got, given>>

Init == map = [k \in Key |-> None] /\ got = None /\ given = {}

Insert(k, v) == map' = [map EXCEPT ![k] = <<k, v>>] /\ got' = None /\ UNCHANGED given

Delete(k) == map' = [map EXCEPT ![k] = None] /\ got' = None /\ UNCHANGED given

Lookup(k) == got' = map[k] /\ UNCHANGED <<map, given>>

\* Every object that is present is given to the callback.
Destroy ==
    /\ given' = {map[k] : k \in Key} \ {None}
    /\ map' = [k \in Key |-> None]
    /\ got' = None

Next ==
    \/ \E k \in Key, v \in Version : Insert(k, v)
    \/ \E k \in Key : Delete(k) \/ Lookup(k)
    \/ Destroy

Spec == Init /\ [][Next]_vars
=============================================================================
