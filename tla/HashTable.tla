----------------------------- MODULE HashTable ------------------------------
(***************************************************************************)
(* The hash table with robin hood probing of src/shared/hash_table.c that  *)
(* holds the locks of the server and the blocks of the cache.  It grows    *)
(* and shrinks by moving a batch of entries from the previous table to the *)
(* new one in every call, so that between two calls an object may be in    *)
(* either of them.                                                         *)
(***************************************************************************)
EXTENDS Integers, FiniteSets, FiniteSetsExt, SequencesExt

CONSTANTS
    Key, Version,   \* an object is a pair of them
    Hashes,         \* bound: what a random seed may make of the keys
    None,           \* no object
    MIN_SIZE, MIGRATE_BATCH, LOW_UTIL, HIGH_UTIL, GROW, SHRINK,
    WordSize        \* the numbers of an unsigned long

ASSUME HashAssumption ==
    /\ Hashes \subseteq [Key -> Nat]
    /\ {MIN_SIZE, MIGRATE_BATCH, WordSize} \subseteq Nat \ {0}
    /\ {LOW_UTIL, HIGH_UTIL, SHRINK} \subseteq 1 .. 99 /\ GROW \in Nat /\ GROW > 100

VARIABLES
    hash,           \* of each key, which the random seed of the table decides
    ht, prev_ht,    \* the table and the one that is migrated to it, or NoTable
    got,            \* what a lookup has just returned
    given           \* the objects that htable_destroy gave to its callback

vars == <<hash, ht, prev_ht, got, given>>

Pct(a, b) == (a * b) \div 100

EmptyEntry == [obj |-> None, probe_len |-> 0]
NoTable == [size |-> 0]

-----------------------------------------------------------------------------
(* One table.                                                              *)

\* alloc_table
NewTable(size) ==
    [size |-> size, count |-> 0, migrate_pos |-> 0, entries |-> [i \in 0 .. size - 1 |-> EmptyEntry]]

LowUtil(t) == IF Pct(t.size, LOW_UTIL) <= MIN_SIZE THEN 0 ELSE Pct(t.size, LOW_UTIL)
HighUtil(t) == Pct(t.size, HIGH_UTIL)

\* calc_key_hash
KeyHash(k) == hash[k]

\* obj_keys_eq
SameKey(k, l) == KeyHash(k) = KeyHash(l) /\ k = l

\* for_each_entry: the position it has after pl others.
At(t, start, pl) == (start + pl) % t.size

\* The probe length at which the loop of a lookup finds k, if it does.
Hit(t, k) ==
    {pl \in 0 .. t.size - 1 :
        LET ent(i) == t.entries[At(t, KeyHash(k), i)]
        IN /\ \A i \in 0 .. pl : ent(i).obj # None /\ i <= ent(i).probe_len
           /\ SameKey(ent(pl).obj[1], k)}

\* insert_entry; ins is what is left to insert, if anything is.
InsertEntry(t, obj) ==
    LET step(a, i) ==
          LET pos == At(t, KeyHash(obj[1]), i)
              ent == t.entries[pos]
              ins == [a.ins EXCEPT !.probe_len = @ + 1]
          IN IF a.ins.obj = None THEN a
             ELSE IF ent.obj = None
             THEN [a EXCEPT !.entries[pos] = a.ins, !.ins = EmptyEntry, !.count = @ + 1]
             ELSE IF SameKey(ent.obj[1], a.ins.obj[1])
             THEN [a EXCEPT !.entries[pos] = a.ins, !.ins = EmptyEntry]
             ELSE IF a.ins.probe_len > ent.probe_len
             THEN [a EXCEPT !.entries[pos] = a.ins, !.ins = [ent EXCEPT !.probe_len = @ + 1]]
             ELSE [a EXCEPT !.ins = ins]
        a == FoldLeft(step, [entries |-> t.entries, count |-> t.count, ins |-> [obj |-> obj, probe_len |-> 0]],
                      [i \in 1 .. t.size |-> i - 1])
    IN [t EXCEPT !.entries = a.entries, !.count = a.count]

\* overwrite_entry of a key that was found.
OverwriteEntry(t, obj) ==
    [t EXCEPT !.entries[At(t, KeyHash(obj[1]), Max(Hit(t, obj[1])))].obj = obj]

\* Faulty: the ones behind it stay where they are.
DeleteEntryInPlace(t, k) ==
    [t EXCEPT !.entries[At(t, KeyHash(k), Max(Hit(t, k)))] = EmptyEntry, !.count = @ - 1]

\* delete_entry of a key that was found: the displaced ones behind it move up.
DeleteEntry(t, k) ==
    LET pos == At(t, KeyHash(k), Max(Hit(t, k)))
        moved == Min({pl \in 0 .. t.size - 1 : t.entries[At(t, pos + 1, pl)].probe_len = 0})
        gap(i) == (i - pos) % t.size
    IN [t EXCEPT
          !.entries = [i \in DOMAIN @ |->
                         IF gap(i) < moved
                         THEN [t.entries[At(t, i, 1)] EXCEPT !.probe_len = @ - 1]
                         ELSE IF gap(i) = moved THEN EmptyEntry ELSE @[i]],
          !.count = @ - 1]

-----------------------------------------------------------------------------
(* Resizing, of a pair of tables.                                          *)

\* Faulty: a batch ends within a run of displaced entries.
BatchLenExact(src, pos) == MIGRATE_BATCH

\* How many entries a batch examines from pos.
BatchLen(src, pos) ==
    Min({pl \in MIGRATE_BATCH .. MIGRATE_BATCH + src.size :
            pl >= src.size \/ src.entries[At(src, pos, pl)].probe_len = 0})

\* migrate_batch; pos wraps below zero.
MigrateBatch(dst, src) ==
    LET pos == (src.migrate_pos - src.entries[At(src, src.migrate_pos, 0)].probe_len) % WordSize
        len == BatchLen(src, pos)
        batch == [i \in 1 .. Min({len, src.size}) |-> At(src, pos, i - 1)]
        objs == SelectSeq([i \in DOMAIN batch |-> src.entries[batch[i]].obj], LAMBDA o : o # None)
    IN [ht  |-> FoldLeft(InsertEntry, dst, objs),
        prev_ht |-> [src EXCEPT
                   !.entries = [i \in DOMAIN @ |-> IF i \in Range(batch) THEN EmptyEntry ELSE @[i]],
                   !.count = @ - Len(objs),
                   !.migrate_pos = (pos + len) % WordSize]]

Migrated(h, p) ==
    IF p = NoTable THEN [ht |-> h, prev_ht |-> p]
    ELSE LET m == MigrateBatch(h, p) IN IF m.prev_ht.count = 0 THEN [m EXCEPT !.prev_ht = NoTable] ELSE m

\* The sizes for which manage_resize would take a new table.
NewSize(t) ==
    IF t.count > HighUtil(t) THEN {Pct(t.size, GROW)}
    ELSE IF t.count < LowUtil(t) THEN {Max({Pct(t.size, SHRINK), MIN_SIZE})}
    ELSE {}

\* manage_resize
ManageResize(h, p) ==
    LET m == Migrated(h, p)
    IN IF m.prev_ht # NoTable \/ NewSize(m.ht) = {}
       THEN ht' = m.ht /\ prev_ht' = m.prev_ht
       ELSE ht' = NewTable(Max(NewSize(m.ht))) /\ prev_ht' = m.ht

-----------------------------------------------------------------------------
Contents(t) == IF t = NoTable THEN {} ELSE {t.entries[i].obj : i \in DOMAIN t.entries} \ {None}

\* Does the probing of the previous table find k?
InPrev(k) == prev_ht # NoTable /\ Hit(prev_ht, k) # {}

\* htable_alloc
Init ==
    /\ hash \in Hashes
    /\ ht = NewTable(MIN_SIZE) /\ prev_ht = NoTable
    /\ got = None /\ given = {}

\* htable_insert
Insert(k, v) ==
    /\ ht # NoTable
    /\ IF InPrev(k) THEN ManageResize(ht, OverwriteEntry(prev_ht, <<k, v>>))
       ELSE ManageResize(InsertEntry(ht, <<k, v>>), prev_ht)
    /\ got' = None /\ UNCHANGED <<hash, given>>

\* htable_lookup
Lookup(k) ==
    /\ ht # NoTable
    /\ LET t == IF InPrev(k) THEN prev_ht ELSE ht
       IN got' = IF Hit(t, k) = {} THEN None ELSE t.entries[At(t, KeyHash(k), Max(Hit(t, k)))].obj
    /\ ManageResize(ht, prev_ht)
    /\ UNCHANGED <<hash, given>>

\* htable_delete
Delete(k) ==
    /\ ht # NoTable
    /\ IF InPrev(k) THEN ManageResize(ht, DeleteEntry(prev_ht, k))
       ELSE ManageResize(IF Hit(ht, k) = {} THEN ht ELSE DeleteEntry(ht, k), prev_ht)
    /\ got' = None /\ UNCHANGED <<hash, given>>

\* The objects that htable_destroy comes to before it has counted down.
Given(t) ==
    IF t = NoTable THEN {}
    ELSE {t.entries[i].obj : i \in {i \in DOMAIN t.entries :
             Cardinality({j \in 0 .. i - 1 : t.entries[j].obj # None}) < t.count}} \ {None}

\* htable_destroy.  It frees prev_ht, and then a second time with ht.
Destroy ==
    /\ ht # NoTable
    /\ given' = Given(prev_ht) \union Given(ht) /\ got' = None
    /\ ht' = NoTable /\ prev_ht' = NoTable
    /\ UNCHANGED hash

Next ==
    \/ \E k \in Key, v \in Version : Insert(k, v)
    \/ \E k \in Key : Delete(k) \/ Lookup(k)
    \/ Destroy

Spec == Init /\ [][Next]_vars

-----------------------------------------------------------------------------
\* A table is exact if its count is, if each entry is as far from its home as
\* it says and if a probing finds it.
Exact(t) ==
    LET used == {i \in DOMAIN t.entries : t.entries[i].obj # None}
    IN /\ t.count = Cardinality(used)
       /\ \A i \in used : LET e == t.entries[i]
                          IN i = At(t, hash[e.obj[1]], e.probe_len) /\ e.probe_len \in Hit(t, e.obj[1])
       /\ \A i \in DOMAIN t.entries \ used : t.entries[i].probe_len = 0

\* Every object is found by probing, in one of the tables only, wherever the
\* migration is (hash_table.c:285), and the loops of the next insertion come
\* to an end: the table has room.
TablesExact ==
    ht # NoTable =>
        /\ Exact(ht) /\ ht.count < ht.size
        /\ prev_ht # NoTable => Exact(prev_ht)
        /\ {o[1] : o \in Contents(ht)} \intersect {o[1] : o \in Contents(prev_ht)} = {}

\* The two tables are one map to their callers: a lookup gets the last object
\* inserted at its key, whatever was migrated meanwhile, and the callback of
\* htable_destroy each object that is left.
Present ==
    LET objs == Contents(ht) \union Contents(prev_ht)
    IN [k \in Key |-> IF \A o \in objs : o[1] # k THEN None ELSE CHOOSE o \in objs : o[1] = k]
Abs == INSTANCE KeyMap WITH map <- Present
AbsSpec == Abs!Spec
=============================================================================
