----------------------------- MODULE BTreeBlock -----------------------------
(***************************************************************************)
(* The memory of a btree block (src/devd/btree.c): items of one size are   *)
(* packed from the start of the item area, in the order in which they      *)
(* came, and an array of offsets sorts them.  BTree takes a block for a    *)
(* sequence of items; here are the insertions, deletions, moves and copies *)
(* of memory that have to keep it one, on two siblings of either level.    *)
(***************************************************************************)
EXTENDS Integers, FiniteSets, SequencesExt

CONSTANTS
    Key,        \* the keys, numbers
    Value,      \* of the items of leaves, or references
    MaxItems    \* max_items of a block, for its value size

ASSUME BlockAssumption == Key \subseteq Nat /\ MaxItems \in Nat /\ MaxItems % 4 = 0 /\ MaxItems > 0

VARIABLE block   \* of each of the siblings: its memory

Zero == [key |-> -1, val |-> -1]    \* cleared memory
Slot == 1 .. MaxItems               \* in the order of their offsets

\* A block with no items, cleared by alloc_block.
Empty == [offsets |-> <<>>, slots |-> [s \in Slot |-> Zero]]

Nr(b) == Len(b.offsets)
IndItem(b, ind) == b.slots[b.offsets[ind]]
LastItem(b) == IndItem(b, Nr(b))

\* alloc_block copies what is before free_off, and clears the rest.
Copied(b) == [b EXCEPT !.slots = [s \in Slot |-> IF s <= Nr(b) THEN @[s] ELSE Zero]]

\* find_key_ind; indices count from 1 here.
FindKey(b, key) ==
    LET search[n \in 0 .. MaxItems + 1] ==
            IF n = 0 THEN [start |-> 1, end |-> Nr(b), ind |-> 1, cmp |-> 1]
            ELSE LET s   == search[n - 1]
                     mid == (s.start + s.end) \div 2
                     k   == IndItem(b, mid).key
                 IN IF s.start > s.end \/ s.cmp = 0 THEN s
                    ELSE IF key < k THEN [s EXCEPT !.end = mid - 1, !.ind = mid, !.cmp = -1]
                    ELSE IF key > k THEN [s EXCEPT !.start = mid + 1, !.ind = mid + 1, !.cmp = 1]
                    ELSE [s EXCEPT !.ind = mid, !.cmp = 0]
    IN search[MaxItems + 1]

\* insert_item: behind the last item in memory, at ind of the offsets.
InsertItem(b, ind, item) ==
    [offsets |-> InsertAt(b.offsets, ind, Nr(b) + 1),
     slots   |-> [b.slots EXCEPT ![Nr(b) + 1] = item]]

\* Faulty: the index of the end item is searched while the deleted one is
\* still in the array.
DeleteItemLate(b, ind) ==
    LET off  == b.offsets[ind]
        end  == Nr(b)
        find == FindKey(b, b.slots[end].key).ind
        less == RemoveAt(IF off = end THEN b.offsets ELSE [b.offsets EXCEPT ![find] = off], ind)
    IN [offsets |-> less,
        slots   |-> [[b.slots EXCEPT ![off] = b.slots[end]] EXCEPT ![end] = Zero]]

\* delete_item: the end item moves into the room, and its offset, found by
\* its key, is set.
DeleteItem(b, ind) ==
    LET off  == b.offsets[ind]
        end  == Nr(b)
        less == [b EXCEPT !.offsets = RemoveAt(@, ind)]
        find == FindKey(less, b.slots[end].key).ind
    IN IF off = end THEN [less EXCEPT !.slots[end] = Zero]
       ELSE [offsets |-> [less.offsets EXCEPT ![find] = off],
             slots   |-> [less.slots EXCEPT ![off] = b.slots[end], ![end] = Zero]]

\* Faulty: src_ind goes on too, although the deletion moved the next one there.
MoveItemsOn(dst, di, src, si, nr) ==
    FoldLeft(LAMBDA m, n : [dst |-> InsertItem(m.dst, di + n - 1, IndItem(m.src, Min({si + n - 1, Nr(m.src)}))),
                            src |-> DeleteItem(m.src, Min({si + n - 1, Nr(m.src)}))],
             [dst |-> dst, src |-> src], [n \in 1 .. nr |-> n])

\* move_items, one by one.
MoveItems(dst, di, src, si, nr) ==
    LET moved[n \in 0 .. nr] ==
            IF n = 0 THEN [dst |-> dst, src |-> src]
            ELSE [dst |-> InsertItem(moved[n - 1].dst, di + n - 1, IndItem(moved[n - 1].src, si)),
                  src |-> DeleteItem(moved[n - 1].src, si)]
    IN moved[nr]

\* update_ref_key, and the value of an item that btree_replace finds.
WithKey(b, ind, key) == [b EXCEPT !.slots[b.offsets[ind]].key = key]
WithValue(b, ind, v) == [b EXCEPT !.slots[b.offsets[ind]].val = v]

-----------------------------------------------------------------------------
(* Two siblings; one that is empty stands for none.                        *)

Side == {"left", "right"}
Other(s) == IF s = "left" THEN "right" ELSE "left"

Items(b) == {IndItem(b, i) : i \in 1 .. Nr(b)}

\* The keys that come to a block are on its side of the parent's reference.
Apart(b) == \A i \in Items(b["left"]), j \in Items(b["right"]) : i.key < j.key

\* A descent copies the blocks that are not dirty, and changes the copies.
Copies == [s \in Side |-> Copied(block[s])]

Init == block = [s \in Side |-> Empty]

\* btree_insert, btree_replace and insert_ref: no block on the way is full.
Insert(b, s, k, v) ==
    LET f == FindKey(b[s], k)
    IN /\ f.cmp # 0 /\ Nr(b[s]) < MaxItems
       /\ block' = [b EXCEPT ![s] = InsertItem(@, f.ind, [key |-> k, val |-> v])]
       /\ Apart(block')

\* btree_replace of an item that is there.
Replace(b, s, k, v) ==
    LET f == FindKey(b[s], k)
    IN f.cmp = 0 /\ block' = [b EXCEPT ![s] = WithValue(@, f.ind, v)]

\* btree_delete
Delete(b, s, k) ==
    LET f == FindKey(b[s], k)
    IN f.cmp = 0 /\ block' = [b EXCEPT ![s] = DeleteItem(@, f.ind)]

\* A merge of children gives a reference another key, between its neighbours'.
UpdateRefKey(b, s, ind, k) ==
    /\ ind \in 1 .. Nr(b[s])
    /\ ind > 1 => IndItem(b[s], ind - 1).key < k
    /\ ind < Nr(b[s]) => k < IndItem(b[s], ind + 1).key
    /\ block' = [b EXCEPT ![s] = WithKey(@, ind, k)]
    /\ Apart(block')

\* merge_block took all of the child behind the first one: for a moment both
\* references have the same key.
AbsorbRef(b, s) ==
    /\ Nr(b[s]) > 1
    /\ block' = [b EXCEPT ![s] = DeleteItem(WithKey(@, 1, IndItem(@, 2).key), 2)]

\* split_block: the lower half moves to a new sibling.
Split(b, s) ==
    /\ Nr(b[s]) = MaxItems /\ Nr(b[Other(s)]) = 0
    /\ LET m == MoveItems(Empty, 1, b[s], 1, Nr(b[s]) \div 2)
       IN block' = [left |-> m.dst, right |-> m.src]

\* How many items merge_block takes from the sibling.
ToMove(b, sib) ==
    IF Nr(sib) + Nr(b) <= MaxItems THEN Nr(sib)
    ELSE Nr(sib) - ((Nr(sib) + Nr(b)) \div 2)

\* merge_block of s: half full or less, or one item less that the deletion
\* which comes behind takes.
Merge(b, s) ==
    LET sib == b[Other(s)]
        move == ToMove(b[s], sib)
        m == IF s = "right" THEN MoveItems(b[s], 1, sib, Nr(sib) - move + 1, move)
             ELSE MoveItems(b[s], Nr(b[s]) + 1, sib, 1, move)
    IN /\ Nr(b[s]) <= MaxItems \div 2 /\ Nr(sib) > 0 /\ Nr(b[s]) > 0
       /\ block' = [x \in Side |-> IF x = s THEN m.dst ELSE m.src]

Next ==
    \E b \in {block, Copies}, s \in Side :
        \/ \E k \in Key, v \in Value : Insert(b, s, k, v) \/ Replace(b, s, k, v)
        \/ \E k \in Key : Delete(b, s, k)
        \/ \E ind \in 1 .. MaxItems, k \in Key : UpdateRefKey(b, s, ind, k)
        \/ AbsorbRef(b, s) \/ Split(b, s) \/ Merge(b, s)

Spec == Init /\ [][Next]_block

-----------------------------------------------------------------------------
\* The items of a block are at the start of its item area, each with one
\* offset, and sorted; what is behind them is cleared, so that no deleted item
\* is written to the device; and find_key_ind finds them all, so that the
\* BUG_ON of delete_item never fires (btree.c:240).
Packed ==
    \A s \in Side :
        LET b == block[s]
        IN /\ Nr(b) <= MaxItems /\ ToSet(b.offsets) = 1 .. Nr(b)
           /\ \A i \in Slot \ 1 .. Nr(b) : b.slots[i] = Zero
           /\ \A i \in 1 .. Nr(b) : LET f == FindKey(b, IndItem(b, i).key)
                                    IN f.ind = i /\ f.cmp = 0
           /\ \A i \in 1 .. Nr(b) - 1 : IndItem(b, i).key < IndItem(b, i + 1).key

\* Every operation on the memory of the blocks does to their items what it
\* says, to the value as to the key, wherever the item lies: no item is lost,
\* doubled or overwritten as the end item moves, nor by a copy of the block.
Abs == INSTANCE BTreeBlockAbs WITH left <- Items(block["left"]), right <- Items(block["right"])
AbsSpec == Abs!Spec
=============================================================================
