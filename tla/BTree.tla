------------------------------- MODULE BTree -------------------------------
(***************************************************************************)
(* The copy-on-write btree that the log store keeps its items in           *)
(* (src/devd/btree.c).  A block is a value: the reference to a block is    *)
(* the block itself, so an old root keeps its tree by construction and     *)
(* what is checked is what a walk reads, copies, splits and merges.        *)
(***************************************************************************)
EXTENDS Integers, Sequences, FiniteSets, SequencesExt

CONSTANTS
    Key,        \* the keys, numbers
    MaxItems    \* max_items of every block

ASSUME BTreeAssumption == Key \subseteq Nat /\ MaxItems \in Nat /\ MaxItems % 4 = 0 /\ MaxItems > 0

VARIABLE tree   \* the root: height and block

\* The greatest key, that of the last reference of the last parents.
MaxKey == 1 + CHOOSE m \in Key \union {0} : \A k \in Key : k <= m

None == [level |-> -1, items |-> <<>>, dirty |-> FALSE]   \* no block
Empty == [height |-> 0, block |-> None]

\* A block is dirty when this commit allocated it and has not written it.
Block(level, items) == [level |-> level, items |-> items, dirty |-> TRUE]
Ref(b)   == [key |-> MaxKey, ref |-> b]
Nr(b)    == Len(b.items)

-----------------------------------------------------------------------------
(* One block.                                                              *)

\* Faulty: the index is left on a smaller key.
FindKeyBefore(b, key) ==
    LET below == {i \in 1 .. Nr(b) : b.items[i].key < key}
        ind   == IF below = {} THEN 1 ELSE Cardinality(below)
    IN [ind |-> ind, cmp |-> IF ind <= Nr(b) /\ b.items[ind].key = key THEN 0 ELSE 1]

\* find_key_ind, as the code searches; positions count from 1 here.
FindKey(b, key) ==
    LET search[n \in 0 .. (2 * MaxItems)] ==
            IF n = 0 THEN [start |-> 1, end |-> Nr(b), ind |-> 1, cmp |-> 1]
            ELSE LET s   == search[n - 1]
                     mid == (s.start + s.end) \div 2
                     k   == b.items[mid].key
                 IN IF s.start > s.end \/ s.cmp = 0 THEN s
                    ELSE IF key < k THEN [s EXCEPT !.end = mid - 1, !.ind = mid, !.cmp = -1]
                    ELSE IF key > k THEN [s EXCEPT !.start = mid + 1, !.ind = mid + 1, !.cmp = 1]
                    ELSE [s EXCEPT !.ind = mid, !.cmp = 0]
    IN search[2 * MaxItems]

Find(b, key) == FindKey(b, key).ind

SetRef(b, i, child) == [b EXCEPT !.items[i].ref = child]

LastKey(b) == b.items[Nr(b)].key

\* Faulty: one item too many; one too few are left to a block.
ShouldSplitLate(b) == Nr(b) > MaxItems
ShouldMergeLate(b) == Nr(b) < MaxItems \div 2

ShouldSplit(b) == Nr(b) = MaxItems
ShouldMerge(b) == Nr(b) <= MaxItems \div 2

\* get_block with BTF_DIRTY: a clean block is read, and copied.
Dirty(b) == [b EXCEPT !.dirty = TRUE]
Read(b)  == IF b.dirty THEN {} ELSE {b}

\* Faulty: the new sibling is always a leaf.
SplitChildLeafSib(parent, i) ==
    LET b    == parent.items[i].ref
        half == Nr(b) \div 2
        sib  == Block(0, SubSeq(b.items, 1, half))
        rest == [b EXCEPT !.items = SubSeq(@, half + 1, Nr(b))]
    IN [SetRef(parent, i, rest) EXCEPT
          !.items = InsertAt(@, i, [key |-> LastKey(sib), ref |-> sib])]

\* split_block of child i: the lower half moves to a new sibling before it.
SplitChild(parent, i) ==
    LET b    == parent.items[i].ref
        half == Nr(b) \div 2
        sib  == Block(b.level, SubSeq(b.items, 1, half))
        rest == [b EXCEPT !.items = SubSeq(@, half + 1, Nr(b))]
    IN [SetRef(parent, i, rest) EXCEPT
          !.items = InsertAt(@, i, [key |-> LastKey(sib), ref |-> sib])]

MergeSibling(i) == IF i = 1 THEN i + 1 ELSE i - 1

\* How many items merge_block takes from the sibling.
ToMove(b, sib) ==
    IF Nr(sib) + Nr(b) <= MaxItems THEN Nr(sib)
    ELSE Nr(sib) - ((Nr(sib) + Nr(b)) \div 2)

\* The sibling before child i gives its items from left + 1 on.
TakeBefore(parent, i, b, sib, left) ==
    LET b2 == [b EXCEPT !.items = SubSeq(sib.items, left + 1, Nr(sib)) \o @]
        s2 == [Dirty(sib) EXCEPT !.items = SubSeq(@, 1, left)]
    IN IF left = 0 THEN [SetRef(parent, i, b2) EXCEPT !.items = RemoveAt(@, i - 1)]
       ELSE [SetRef(SetRef(parent, i, b2), i - 1, s2) EXCEPT !.items[i - 1].key = LastKey(s2)]

\* Faulty: the key of the reference to the remaining block is not updated.
TakeAfterNoKey(parent, i, b, sib, move) ==
    LET b2 == [b EXCEPT !.items = @ \o SubSeq(sib.items, 1, move)]
        s2 == [Dirty(sib) EXCEPT !.items = SubSeq(@, move + 1, Nr(sib))]
    IN IF move = Nr(sib) THEN [SetRef(parent, i, b2) EXCEPT !.items = RemoveAt(@, i + 1)]
       ELSE SetRef(SetRef(parent, i, b2), i + 1, s2)

\* The sibling after it gives its first items.
TakeAfter(parent, i, b, sib, move) ==
    LET b2 == [b EXCEPT !.items = @ \o SubSeq(sib.items, 1, move)]
        s2 == [Dirty(sib) EXCEPT !.items = SubSeq(@, move + 1, Nr(sib))]
    IN IF move = Nr(sib)
       THEN [SetRef(parent, i, b2) EXCEPT !.items[i].key = parent.items[i + 1].key,
                                          !.items = RemoveAt(@, i + 1)]
       ELSE [SetRef(SetRef(parent, i, b2), i + 1, s2) EXCEPT !.items[i].key = LastKey(b2)]

\* merge_block of child i with a sibling that is read, and copied, first.
MergeWith(parent, i, b, sib) ==
    IF MergeSibling(i) < i THEN TakeBefore(parent, i, b, sib, Nr(sib) - ToMove(b, sib))
    ELSE TakeAfter(parent, i, b, sib, ToMove(b, sib))

MergeChild(parent, i) ==
    MergeWith(parent, i, parent.items[i].ref, parent.items[MergeSibling(i)].ref)

-----------------------------------------------------------------------------
(* btree_walk.  A descent ends at the first split or merge, and the walk   *)
(* starts again from the root.  Its result is the block it came through,   *)
(* the blocks allocated and read, and whether the shape changed; top is    *)
(* the new root block when a merge left a parent with one reference.       *)

Descent(b, allocs, reads, changed, top) ==
    [block |-> b, allocs |-> allocs, reads |-> reads, changed |-> changed, top |-> top]

\* A parent whose child i, copied, was descended into.
Passed(b, i, old, d) ==
    Descent(SetRef(b, i, d.block), Cardinality(Read(old)) + d.allocs, Read(old) \union d.reads,
            d.changed, d.top)

\* A parent that a merge of child i changed.
MergedIn(m, reads) ==
    Descent(m, Cardinality(reads), reads, TRUE, IF Nr(m) = 1 THEN m.items[1].ref ELSE None)

RECURSIVE DescendSplit(_, _), DescendMerge(_, _)

DescendSplit(b, key) ==
    IF b.level = 0 THEN Descent(b, 0, {}, FALSE, None)
    ELSE LET i   == Find(b, key)
             old == b.items[i].ref
         IN IF ShouldSplit(old)
            THEN Descent(SplitChild(SetRef(b, i, Dirty(old)), i), Cardinality(Read(old)) + 1,
                         Read(old), TRUE, None)
            ELSE Passed(b, i, old, DescendSplit(Dirty(old), key))

DescendMerge(b, key) ==
    IF b.level = 0 THEN Descent(b, 0, {}, FALSE, None)
    ELSE LET i   == Find(b, key)
             old == b.items[i].ref
         IN IF ShouldMerge(old)
            THEN MergedIn(MergeChild(SetRef(b, i, Dirty(old)), i),
                          Read(old) \union Read(b.items[MergeSibling(i)].ref))
            ELSE Passed(b, i, old, DescendMerge(Dirty(old), key))

\* The tree after a walk, and what the walk took.
Walked(t, allocs, reads) == [tree |-> t, allocs |-> allocs, reads |-> reads]

\* The root after a descent from it.
Descended(w, d) ==
    Walked(IF d.top = None THEN [w.tree EXCEPT !.block = d.block]
           ELSE [height |-> w.tree.height - 1, block |-> d.top],
           w.allocs + Cardinality(Read(w.tree.block)) + d.allocs,
           w.reads \union Read(w.tree.block) \union d.reads)

\* A root that must split gets a parent, and is split in it.
Grown(w, h, b) ==
    Walked([height |-> h + 1, block |-> SplitChild(Block(h, <<Ref(Dirty(b))>>), 1)],
           w.allocs + Cardinality(Read(b)) + 2, w.reads \union Read(b))

RECURSIVE WalkSplit(_, _), WalkMerge(_, _)

WalkSplit(w, key) ==
    IF w.tree.height = 0 THEN Walked([height |-> 1, block |-> Block(0, <<>>)], 1, {})
    ELSE IF ShouldSplit(w.tree.block) THEN WalkSplit(Grown(w, w.tree.height, w.tree.block), key)
    ELSE LET d == DescendSplit(Dirty(w.tree.block), key)
         IN IF d.changed THEN WalkSplit(Descended(w, d), key) ELSE Descended(w, d)

WalkMerge(w, key) ==
    LET d == DescendMerge(Dirty(w.tree.block), key)
    IN IF d.changed THEN WalkMerge(Descended(w, d), key) ELSE Descended(w, d)

\* Faulty: preparing stops above the leaf.
RECURSIVE PrepareParents(_, _)

PrepareParents(b, key) ==
    IF b.level = 0 THEN {} ELSE {b} \union PrepareParents(b.items[Find(b, key)].ref, key)

\* The blocks that the prepare walks read; for a merge, one sibling per level.
RECURSIVE PreparePath(_, _), PrepareMerge(_, _)

PreparePath(b, key) ==
    IF b.level = 0 THEN {b}
    ELSE {b} \union PreparePath(b.items[Find(b, key)].ref, key)

PrepareMerge(b, key) ==
    IF b.level = 0 THEN {b}
    ELSE LET i == Find(b, key)
             c == b.items[i].ref
         IN {b} \union PrepareMerge(c, key)
              \union IF ShouldMerge(c) THEN {b.items[MergeSibling(i)].ref} ELSE {}

-----------------------------------------------------------------------------
(* The operations.                                                         *)

\* The leaf that key belongs in, and the tree with another leaf in its place.
RECURSIVE Leaf(_, _), WithLeaf(_, _, _)

Leaf(b, key) == IF b.level = 0 THEN b ELSE Leaf(b.items[Find(b, key)].ref, key)

WithLeaf(b, key, leaf) ==
    IF b.level = 0 THEN leaf
    ELSE LET i == Find(b, key) IN SetRef(b, i, WithLeaf(b.items[i].ref, key, leaf))

Start(t) == Walked(t, 0, {})

ReplaceIn(w, key) ==
    LET leaf == Leaf(w.tree.block, key)
        f    == FindKey(leaf, key)
        put  == [leaf EXCEPT !.items = InsertAt(@, f.ind, [key |-> key])]
    IN IF f.cmp = 0 THEN w ELSE [w EXCEPT !.tree.block = WithLeaf(@, key, put)]

\* btree_replace, and btree_insert when the key is not there: the new leaf item.
Replace(t, key) == ReplaceIn(WalkSplit(Start(t), key), key)

DeleteIn(w, key) ==
    LET leaf == Leaf(w.tree.block, key)
        f    == FindKey(leaf, key)
        drop == [leaf EXCEPT !.items = RemoveAt(@, f.ind)]
    IN IF f.cmp # 0 THEN w
       ELSE IF Nr(leaf) = 1 THEN [w EXCEPT !.tree = Empty]
       ELSE [w EXCEPT !.tree.block = WithLeaf(@, key, drop)]

\* btree_delete: a leaf that is left empty takes the whole tree with it.
Delete(t, key) ==
    IF t.height = 0 THEN Start(t) ELSE DeleteIn(WalkMerge(Start(t), key), key)

\* btree_lookup
Lookup(t, key) == t.height # 0 /\ FindKey(Leaf(t.block, key), key).cmp = 0

\* Faulty: no room for a split at every level.
RsvInsertPath(t) == 1 + t.height

\* rsv_btree_insert, rsv_btree_delete
RsvInsert(t) == 1 + 2 * t.height
RsvDelete(t) == IF t.height > 1 THEN 1 + 2 * (t.height - 1) ELSE t.height

\* The commit with the operation is written, and no block is dirty any more.
RECURSIVE Written(_)
Written(b) ==
    [b EXCEPT !.dirty = FALSE,
              !.items = IF b.level = 0 THEN @
                        ELSE [i \in DOMAIN @ |-> [@[i] EXCEPT !.ref = Written(@)]]]

Commit(t) == IF t.height = 0 THEN t ELSE [t EXCEPT !.block = Written(@)]

-----------------------------------------------------------------------------
\* Each commit holds one operation, which is when it allocates the most.
Init == tree = Empty

DoReplace(k) == tree' = Commit(Replace(tree, k).tree)
DoDelete(k)  == tree' = Commit(Delete(tree, k).tree)

Next == \E k \in Key : DoReplace(k) \/ DoDelete(k)

Spec == Init /\ [][Next]_tree

-----------------------------------------------------------------------------
(* Correctness.                                                            *)

RECURSIVE Blocks(_)
Blocks(b) == {b} \union IF b.level = 0 THEN {} ELSE UNION {Blocks(b.items[i].ref) : i \in 1 .. Nr(b)}

TreeBlocks(t) == IF t.height = 0 THEN {} ELSE Blocks(t.block)

\* The items of a tree, whichever block they are in.
Items(t) == UNION {{b.items[i].key : i \in 1 .. Nr(b)} : b \in {c \in TreeBlocks(t) : c.level = 0}}

\* Every block is at its level, and every path is as long as the root says.
TypeOK ==
    tree.height # 0 =>
        /\ tree.block.level = tree.height - 1
        /\ \A b \in TreeBlocks(tree) : b.level # 0 =>
             \A i \in 1 .. Nr(b) : b.items[i].ref.level = b.level - 1

\* No block overflows, none but the root is less than half full, and a parent
\* always has the sibling that a merge looks for.
HalfFull ==
    tree.height # 0 =>
        /\ Nr(tree.block) >= (IF tree.height = 1 THEN 1 ELSE 2)
        /\ \A b \in TreeBlocks(tree) :
             /\ Nr(b) <= MaxItems
             /\ b # tree.block => Nr(b) >= MaxItems \div 2

\* The keys of a block ascend, and a reference's key is no less than any key
\* under it and less than every key under the next one: a walk finds what
\* there is.
RECURSIVE Under(_)
Under(b) == IF b.level = 0 THEN {b.items[i].key : i \in 1 .. Nr(b)}
            ELSE UNION {Under(b.items[i].ref) : i \in 1 .. Nr(b)}

SearchOrder ==
    \A b \in TreeBlocks(tree) :
        /\ \A i \in 1 .. (Nr(b) - 1) : b.items[i].key < b.items[i + 1].key
        /\ b.level # 0 => \A i \in 1 .. Nr(b) : \A k \in Under(b.items[i].ref) :
             k <= b.items[i].key /\ (i > 1 => k > b.items[i - 1].key)

\* Splits and merges on the way lose, duplicate and misplace nothing: after an
\* operation lookups find the items there were, with the one key changed.
OperationsExact ==
    \A k \in Key :
        LET r == Replace(tree, k).tree
            d == Delete(tree, k).tree
        IN /\ Items(r) = Items(tree) \union {k}
           /\ Items(d) = Items(tree) \ {k}
           /\ \A j \in Key : /\ Lookup(r, j) <=> j \in Items(r)
                             /\ Lookup(d, j) <=> j \in Items(d)

\* "reserved dirty block allocations that won't fail": an operation allocates
\* no more blocks than its reservation has, whatever splits and merges.
ReservationsSuffice ==
    \A k \in Key : /\ Replace(tree, k).allocs <= RsvInsert(tree)
                   /\ Delete(tree, k).allocs <= RsvDelete(tree)

\* "The writing tasks don't sleep while dirtying blocks": an insertion reads
\* no block that preparing it has not read into the cache.
InsertPrepared ==
    \A k \in Key : tree.height # 0 =>
        Replace(tree, k).reads \subseteq PreparePath(tree.block, k)

\* The same of a deletion and the siblings it merges.
DeletePrepared ==
    \A k \in Key : tree.height # 0 =>
        Delete(tree, k).reads \subseteq PrepareMerge(tree.block, k)
=============================================================================
