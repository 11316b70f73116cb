--------------------------- MODULE BTreeBlockAbs ----------------------------
(***************************************************************************)
(* What the storage of btree blocks promises (src/devd/btree.c): two       *)
(* sibling blocks are two sets of pairs of a key and a value, and all keys *)
(* of the left one come before those of the right one.                     *)
(***************************************************************************)
EXTENDS Integers, FiniteSets

CONSTANTS Key, Value, MaxItems

VARIABLES left, right

Before(l, r) == \A i \in l, j \in r : i.key < j.key

Init == left = {} /\ right = {}

\* What may become of a set of items.
Inserted(s) ==
    {s \union {[key |-> k, val |-> v]} : k \in Key \ {i.key : i \in s}, v \in Value}

Replaced(s) == {(s \ {i}) \union {[i EXCEPT !.val = v]} : i \in s, v \in Value}

Deleted(s) == {s \ {i} : i \in s}

\* An item gets another key, between those of its neighbours.
Rekeyed(s) ==
    UNION {{(s \ {i}) \union {[i EXCEPT !.key = k]} :
              k \in {k \in Key : \A j \in s \ {i} : j.key # k /\ (j.key < i.key <=> j.key < k)}} :
           i \in s}

\* The first item takes the key of the second one, which goes.
Absorbed(s) ==
    {(s \ {i, j}) \union {[i EXCEPT !.key = j.key]} :
        i \in {i \in s : \A n \in s : i.key <= n.key},
        j \in {j \in s : Cardinality({n \in s : n.key < j.key}) = 1}}

Changed(s) ==
    (IF Cardinality(s) < MaxItems THEN Inserted(s) ELSE {})
        \union Replaced(s) \union Deleted(s) \union Rekeyed(s) \union Absorbed(s)

\* One of the blocks changes.
Change ==
    /\ \/ left' \in Changed(left) /\ UNCHANGED right
       \/ right' \in Changed(right) /\ UNCHANGED left
    /\ Before(left', right')

\* A split or a merge moves items: both blocks are half full after it, or one
\* of them has come or gone.
Move ==
    /\ left' \union right' = left \union right
    /\ Before(left', right')
    /\ \A s \in {left', right'} : Cardinality(s) <= MaxItems
    /\ {} \in {left', right'} \/ \A s \in {left', right'} : Cardinality(s) >= MaxItems \div 2

Next == Change \/ Move

Spec == Init /\ [][Next]_<<left, right>>
=============================================================================
