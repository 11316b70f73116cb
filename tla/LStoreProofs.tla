---------------------------- MODULE LStoreProofs ----------------------------
(***************************************************************************)
(* Proofs about LStore, for any number of keys, writes and blocks.         *)
(***************************************************************************)
EXTENDS LStore, SeqFacts

-----------------------------------------------------------------------------
(* Commits and their blocks.                                               *)

MapType == [Key -> [addr : Addr \union {None}, crc : Write \union {None}]]

EntryType == [type : {"DATA", "BTREE", "SEARCH"}, crc : Write \union {None}]

\* A commit that has room on the device, and a root when it has a height.
GoodCommits == {c \in CommitType : (c.height = 0 <=> c.root = None) /\ AddrAfter(c) < DevSize}

\* What the device may hold at a.
GoodBlock(b, a) ==
    /\ b.type \in {"NONE", "COMMIT", "DATA", "BTREE", "SEARCH"}
    /\ b.type = "COMMIT" => b.cmt \in GoodCommits /\ b.cmt.addr = a
    /\ b.type = "BTREE" => b.map \in MapType
    /\ b.type = "SEARCH" => b.commit \in Addr
    /\ b.type # "NONE" => a + 1 \in Addr

GoodDisk(d) == \A a \in Addr : GoodBlock(d[a], a)

\* The bounds as the provers use them.
LEMMA Bounds ==
    /\ DevSize \in Nat /\ DevSize > 1 /\ 0 \in Addr /\ 1 \in Addr
    /\ SearchOffset \in Nat /\ SearchOffset > 0
    /\ MaxEntries \in Nat /\ MaxCrashes \in Nat
    /\ None \notin Addr /\ None \notin CommitType /\ None \notin Write
    /\ Addr \subseteq Nat /\ \A a \in Int : a \in Addr <=> 0 <= a /\ a < DevSize
    /\ \A w \in Write : KeyOf[w] \in Key
BY SizeAssumption, NoneAssumption, WriteAssumption DEF Addr

\* The fields of a commit.
LEMMA CommitFields ==
    ASSUME NEW c \in CommitType
    PROVE  /\ c.seq \in Nat /\ c.addr \in Addr /\ c.addr \in Nat /\ c.root \in Addr \union {None}
           /\ c.height \in {0, 1} /\ c.total \in Nat
           /\ c.entries \in Seq(EntryType) /\ Len(c.entries) \in Nat
           /\ c.hist \in Seq(Write) /\ c.map \in MapType
           /\ AddrAfter(c) = c.addr + 1 + Len(c.entries) /\ AddrAfter(c) \in Nat
           /\ AddrAfter(c) > c.addr /\ AddrAfter(c) >= 1
           /\ \A a \in Int : a \in Extent(c) <=> c.addr <= a /\ a < AddrAfter(c)
<1>1. /\ c.seq \in Nat /\ c.addr \in Addr /\ c.root \in Addr \union {None}
      /\ c.height \in {0, 1} /\ c.total \in Nat
      /\ c.entries \in Seq(EntryType) /\ c.hist \in Seq(Write) /\ c.map \in MapType
  BY DEF CommitType, EntryType, MapType
<1>2. Len(c.entries) \in Nat
  <2> DEFINE q == c.entries
  <2>1. q \in Seq(EntryType)
    BY <1>1
  <2> HIDE DEF q
  <2>2. Len(q) \in Nat
    BY <2>1
  <2> QED BY <2>2 DEF q
<1>3. c.addr \in Nat
  BY <1>1, Bounds
<1> DEFINE l == Len(c.entries)
<1>4. AddrAfter(c) = c.addr + 1 + l /\ l \in Nat
  BY <1>2 DEF AddrAfter
<1> HIDE DEF l
<1>5. AddrAfter(c) \in Nat /\ AddrAfter(c) > c.addr /\ AddrAfter(c) >= 1
  BY <1>3, <1>4
<1>6. \A a \in Int : a \in Extent(c) <=> c.addr <= a /\ a < AddrAfter(c)
  <2> DEFINE x == c.addr
  <2>1. Extent(c) = x .. x + l /\ AddrAfter(c) = x + 1 + l /\ x \in Nat /\ l \in Nat
    BY <1>3, <1>4 DEF Extent, l
  <2> HIDE DEF x
  <2>2. \A a \in Int : a \in x .. x + l <=> x <= a /\ a < x + 1 + l
    BY <2>1
  <2> QED BY <2>1, <2>2 DEF x
<1> QED BY <1>1, <1>2, <1>3, <1>4, <1>5, <1>6 DEF l

\* A commit whose fields are given is one.
CommitWith(seq, addr, root, height, total, entries, hist, map) ==
    [seq |-> seq, addr |-> addr, root |-> root, height |-> height, total |-> total,
     entries |-> entries, hist |-> hist, map |-> map]

LEMMA CommitMade ==
    ASSUME NEW seq \in Nat, NEW addr \in Addr, NEW root \in Addr \union {None},
           NEW height \in {0, 1}, NEW total \in Nat, NEW entries \in Seq(EntryType),
           NEW hist \in Seq(Write), NEW map \in MapType
    PROVE  CommitWith(seq, addr, root, height, total, entries, hist, map) \in CommitType
BY DEF CommitWith, CommitType, EntryType, MapType

LEMMA CommitIsMade ==
    ASSUME NEW c \in CommitType
    PROVE  c = CommitWith(c.seq, c.addr, c.root, c.height, c.total, c.entries, c.hist, c.map)
BY DEF CommitWith, CommitType

\* The assignments to fields of commits.
LEMMA MapIs ==
    ASSUME NEW c \in CommitType, NEW v
    PROVE  [c EXCEPT !.map = v]
             = CommitWith(c.seq, c.addr, c.root, c.height, c.total, c.entries, c.hist, v)
BY CommitIsMade DEF CommitWith, CommitType

LEMMA EntriesIs ==
    ASSUME NEW c \in CommitType, NEW v
    PROVE  [c EXCEPT !.entries = v]
             = CommitWith(c.seq, c.addr, c.root, c.height, c.total, v, c.hist, c.map)
BY CommitIsMade DEF CommitWith, CommitType

LEMMA RootSet ==
    ASSUME NEW c \in CommitType, NEW at, NEW h
    PROVE  [c EXCEPT !.root = at, !.height = h]
             = CommitWith(c.seq, c.addr, at, h, c.total, c.entries, c.hist, c.map)
<1> DEFINE d == [c EXCEPT !.root = at]
           m == CommitWith(c.seq, c.addr, at, c.height, c.total, c.entries, c.hist, c.map)
<1>1. [c EXCEPT !.root = at, !.height = h] = [d EXCEPT !.height = h]
  OBVIOUS
<1>2. d = m
  BY CommitIsMade DEF CommitWith, CommitType
<1>3. [m EXCEPT !.height = h] = CommitWith(c.seq, c.addr, at, h, c.total, c.entries, c.hist, c.map)
  BY DEF CommitWith
<1> HIDE DEF d, m
<1> QED BY <1>1, <1>2, <1>3

LEMMA OpenSet ==
    ASSUME NEW c \in CommitType, NEW s, NEW a
    PROVE  [c EXCEPT !.seq = s, !.addr = a, !.entries = <<>>]
             = CommitWith(s, a, c.root, c.height, c.total, <<>>, c.hist, c.map)
<1> DEFINE d == [c EXCEPT !.seq = s]
           e == [d EXCEPT !.addr = a]
           m == CommitWith(s, c.addr, c.root, c.height, c.total, c.entries, c.hist, c.map)
           n == CommitWith(s, a, c.root, c.height, c.total, c.entries, c.hist, c.map)
<1>1. [c EXCEPT !.seq = s, !.addr = a, !.entries = <<>>] = [e EXCEPT !.entries = <<>>]
  OBVIOUS
<1>2. d = m
  BY CommitIsMade DEF CommitWith, CommitType
<1>3. [m EXCEPT !.addr = a] = n
  BY DEF CommitWith
<1>4. [n EXCEPT !.entries = <<>>] = CommitWith(s, a, c.root, c.height, c.total, <<>>, c.hist, c.map)
  BY DEF CommitWith
<1>5. e = [d EXCEPT !.addr = a]
  OBVIOUS
<1> HIDE DEF d, m, e, n
<1> QED BY <1>1, <1>2, <1>3, <1>4, <1>5

Assign(m, k, x) == [m EXCEPT ![k] = x]

ApplyTo(c, k, x, B, w) ==
    [c EXCEPT !.map[k] = x, !.total = IF B THEN @ + 1 ELSE @, !.hist = Append(@, w)]

LEMMA ApplySet ==
    ASSUME NEW c \in CommitType, NEW k, NEW x, NEW B \in BOOLEAN, NEW w
    PROVE  ApplyTo(c, k, x, B, w)
             = CommitWith(c.seq, c.addr, c.root, c.height, IF B THEN c.total + 1 ELSE c.total,
                          c.entries, Append(c.hist, w), Assign(c.map, k, x))
<1> DEFINE u == Assign(c.map, k, x)
           t == IF B THEN c.total + 1 ELSE c.total
           h == Append(c.hist, w)
           d == [c EXCEPT !.map = u]
           e == [d EXCEPT !.total = t]
           m == CommitWith(c.seq, c.addr, c.root, c.height, c.total, c.entries, c.hist, u)
           n == CommitWith(c.seq, c.addr, c.root, c.height, t, c.entries, c.hist, u)
<1>0. [c EXCEPT !.map[k] = x, !.total = IF B THEN @ + 1 ELSE @, !.hist = Append(@, w)]
     = [c EXCEPT !.map = u, !.total = t, !.hist = h]
  BY DEF CommitType, Assign
<1>1. [c EXCEPT !.map = u, !.total = t, !.hist = h] = [e EXCEPT !.hist = h]
  <2> HIDE DEF u, t, h
  <2> QED OBVIOUS
<1> HIDE DEF u, t, h
<1>2. d = m
  BY MapIs DEF d, m
<1>3. [m EXCEPT !.total = t] = n
  BY DEF CommitWith
<1>4. [n EXCEPT !.hist = h] = CommitWith(c.seq, c.addr, c.root, c.height, t, c.entries, h, u)
  BY DEF CommitWith
<1>5. e = [d EXCEPT !.total = t]
  OBVIOUS
<1> HIDE DEF d, m, e, n
<1>6. [c EXCEPT !.map = u, !.total = t, !.hist = h]
        = CommitWith(c.seq, c.addr, c.root, c.height, t, c.entries, h, u)
  BY <1>1, <1>2, <1>3, <1>4, <1>5
<1> QED BY <1>0, <1>6 DEF u, t, h, ApplyTo

LEMMA EmptyMapType == EmptyMap \in MapType
BY DEF EmptyMap, NoItem, MapType

LEMMA RootCommitFacts ==
    /\ RootCommit \in GoodCommits /\ AddrAfter(RootCommit) = 1 /\ Extent(RootCommit) = {0}
    /\ RootCommit.seq = 1 /\ RootCommit.addr = 0 /\ RootCommit.height = 0 /\ RootCommit.total = 0
    /\ RootCommit.entries = <<>> /\ RootCommit.hist = <<>> /\ RootCommit.map = EmptyMap
    /\ RootCommit.root = None
<1>1. RootCommit = CommitWith(1, 0, None, 0, 0, <<>>, <<>>, EmptyMap)
  BY DEF RootCommit, CommitWith
<1>2. RootCommit \in CommitType
  <2>1. <<>> \in Seq(EntryType) /\ <<>> \in Seq(Write)
    OBVIOUS
  <2>2. CommitWith(1, 0, None, 0, 0, <<>>, <<>>, EmptyMap) \in CommitType
    BY <2>1, Bounds, CommitMade, EmptyMapType
  <2> QED BY <1>1, <2>2
<1> QED BY <1>2, Bounds DEF RootCommit, GoodCommits, AddrAfter, Extent

\* Recovery keeps the map apart from the commit block.
LEMMA MapSet ==
    ASSUME NEW c \in GoodCommits, NEW m \in MapType
    PROVE  LET b == [c EXCEPT !.map = m]
           IN /\ b \in GoodCommits /\ b.map = m /\ AddrAfter(b) = AddrAfter(c)
              /\ b.seq = c.seq /\ b.addr = c.addr /\ b.root = c.root /\ b.height = c.height
              /\ b.total = c.total /\ b.entries = c.entries /\ b.hist = c.hist
<1> DEFINE b == CommitWith(c.seq, c.addr, c.root, c.height, c.total, c.entries, c.hist, m)
<1>1. c \in CommitType /\ (c.height = 0 <=> c.root = None) /\ AddrAfter(c) < DevSize
  BY DEF GoodCommits
<1>2. [c EXCEPT !.map = m] = b
  BY <1>1, MapIs
<1>2a. b \in CommitType
  <2>1. /\ c.seq \in Nat /\ c.addr \in Addr /\ c.root \in Addr \union {None}
        /\ c.height \in {0, 1} /\ c.total \in Nat
        /\ c.entries \in Seq(EntryType) /\ c.hist \in Seq(Write)
    BY <1>1, CommitFields
  <2> QED BY <2>1, CommitMade
<1>3. /\ b \in CommitType /\ b.map = m
      /\ b.seq = c.seq /\ b.addr = c.addr /\ b.root = c.root /\ b.height = c.height
      /\ b.total = c.total /\ b.entries = c.entries /\ b.hist = c.hist
  BY <1>2a DEF CommitWith
<1> HIDE DEF b
<1>4. AddrAfter(b) = AddrAfter(c)
  BY <1>3 DEF AddrAfter
<1> QED BY <1>1, <1>2, <1>3, <1>4 DEF GoodCommits

\* The blocks of a commit.
LEMMA BlockOfCases ==
    ASSUME NEW c \in CommitType
    PROVE  /\ BlockOf(c, 0) = CommitBlock(c)
           /\ \A i \in 1 .. Len(c.entries) :
                /\ c.entries[i].type \in {"DATA", "BTREE", "SEARCH"}
                /\ c.entries[i].type = "DATA" => BlockOf(c, i) = DataBlock(c.entries[i].crc)
                /\ c.entries[i].type = "BTREE" => BlockOf(c, i) = BtreeBlock(c.map)
                /\ c.entries[i].type = "SEARCH" => BlockOf(c, i) = SearchBlock(c.addr)
<1>1. BlockOf(c, 0) = CommitBlock(c)
  BY DEF BlockOf
<1>2. ASSUME NEW i \in 1 .. Len(c.entries)
      PROVE  /\ c.entries[i].type \in {"DATA", "BTREE", "SEARCH"}
             /\ c.entries[i].type = "DATA" => BlockOf(c, i) = DataBlock(c.entries[i].crc)
             /\ c.entries[i].type = "BTREE" => BlockOf(c, i) = BtreeBlock(c.map)
             /\ c.entries[i].type = "SEARCH" => BlockOf(c, i) = SearchBlock(c.addr)
  <2> DEFINE q == c.entries
  <2>1. q \in Seq(EntryType)
    BY CommitFields
  <2>2. q[i] \in EntryType
    <3> HIDE DEF q
    <3>1. i \in 1 .. Len(q)
      BY DEF q
    <3> QED BY <2>1, <3>1
  <2>3. c.entries[i].type \in {"DATA", "BTREE", "SEARCH"}
    BY <2>2 DEF EntryType
  <2>4. i # 0
    BY CommitFields
  <2> QED BY <2>3, <2>4 DEF BlockOf
<1> QED BY <1>1, <1>2

LEMMA BlockOfGood ==
    ASSUME NEW c \in GoodCommits, NEW a \in Extent(c)
    PROVE  a \in Addr /\ GoodBlock(BlockOf(c, a - c.addr), a)
<1>1. /\ c \in CommitType /\ AddrAfter(c) < DevSize
      /\ c.addr \in Nat /\ c.addr \in Addr /\ Len(c.entries) \in Nat /\ c.map \in MapType
      /\ AddrAfter(c) = c.addr + 1 + Len(c.entries)
  BY CommitFields DEF GoodCommits
<1>2. a \in Int /\ c.addr <= a /\ a < AddrAfter(c)
  BY <1>1 DEF Extent
<1>3. a \in Addr /\ a + 1 \in Addr
  BY <1>1, <1>2, Bounds
<1>4. CASE a = c.addr
  <2>1. BlockOf(c, a - c.addr) = CommitBlock(c)
    BY <1>1, <1>4, BlockOfCases
  <2>2. [c EXCEPT !.map = EmptyMap] \in GoodCommits /\ [c EXCEPT !.map = EmptyMap].addr = c.addr
    BY MapSet, EmptyMapType
  <2>3. GoodBlock(CommitBlock(c), a)
    BY <1>3, <1>4, <2>2 DEF CommitBlock, GoodBlock
  <2> QED BY <1>3, <2>1, <2>3
<1>5. CASE a # c.addr
  <2> DEFINE i == a - c.addr
  <2>1. i \in 1 .. Len(c.entries)
    BY <1>1, <1>2, <1>5
  <2> HIDE DEF i
  <2>2. \/ BlockOf(c, i) = DataBlock(c.entries[i].crc)
        \/ BlockOf(c, i) = BtreeBlock(c.map)
        \/ BlockOf(c, i) = SearchBlock(c.addr)
    BY <1>1, <2>1, BlockOfCases
  <2>3. \A e : GoodBlock(DataBlock(e), a)
    BY <1>3 DEF DataBlock, GoodBlock
  <2>4. GoodBlock(BtreeBlock(c.map), a)
    BY <1>1, <1>3 DEF BtreeBlock, GoodBlock
  <2>5. GoodBlock(SearchBlock(c.addr), a)
    BY <1>1, <1>3 DEF SearchBlock, GoodBlock
  <2>6. GoodBlock(BlockOf(c, i), a)
    BY <2>2, <2>3, <2>4, <2>5
  <2> QED BY <1>3, <2>6 DEF i
<1> QED BY <1>4, <1>5

-----------------------------------------------------------------------------
(* The changes of the dirty commit.                                        *)

\* d is c with e behind its entries, and perhaps a search block before that.
Added(c, d, e) ==
    /\ d \in CommitType
    /\ d.seq = c.seq /\ d.addr = c.addr /\ d.root = c.root /\ d.height = c.height
    /\ d.total = c.total /\ d.hist = c.hist /\ d.map = c.map
    /\ Len(d.entries) \in {Len(c.entries) + 1, Len(c.entries) + 2}
    /\ d.entries[Len(d.entries)] = e
    /\ \A i \in 1 .. Len(c.entries) : d.entries[i] = c.entries[i]
    /\ AddrAfter(c) % SearchOffset # 0 => Len(d.entries) = Len(c.entries) + 1

LEMMA EntriesSet ==
    ASSUME NEW c \in CommitType, NEW q \in Seq(EntryType)
    PROVE  /\ [c EXCEPT !.entries = q] \in CommitType
           /\ [c EXCEPT !.entries = q] = CommitWith(c.seq, c.addr, c.root, c.height, c.total,
                                                    q, c.hist, c.map)
<1>1. [c EXCEPT !.entries = q] = CommitWith(c.seq, c.addr, c.root, c.height, c.total,
                                            q, c.hist, c.map)
  BY EntriesIs
<1>2. /\ c.seq \in Nat /\ c.addr \in Addr /\ c.root \in Addr \union {None}
      /\ c.height \in {0, 1} /\ c.total \in Nat /\ c.hist \in Seq(Write) /\ c.map \in MapType
  BY CommitFields
<1>3. CommitWith(c.seq, c.addr, c.root, c.height, c.total, q, c.hist, c.map) \in CommitType
  BY <1>2, CommitMade
<1> QED BY <1>1, <1>3

LEMMA AddEntryFacts ==
    ASSUME NEW c \in CommitType, NEW e \in EntryType
    PROVE  Added(c, AddEntry(c, e), e)
<1> DEFINE p == c.entries
           s == Entry("SEARCH", None)
           at == AddrAfter(c) % SearchOffset
           q == IF at = 0 THEN p \o <<s, e>> ELSE Append(p, e)
           d == [c EXCEPT !.entries = q]
<1>1. AddEntry(c, e) = d
  BY DEF AddEntry
<1>2. p \in Seq(EntryType) /\ s \in EntryType
  BY CommitFields DEF Entry, EntryType
<1>3. /\ q \in Seq(EntryType) /\ q[Len(q)] = e /\ Len(q) \in {Len(p) + 1, Len(p) + 2}
      /\ (at # 0 => Len(q) = Len(p) + 1) /\ \A i \in 1 .. Len(p) : q[i] = p[i]
  <2> HIDE DEF p, s, at
  <2> QED BY <1>2
<1> HIDE DEF q
<1>4. d \in CommitType /\ d = CommitWith(c.seq, c.addr, c.root, c.height, c.total, q, c.hist, c.map)
  BY <1>3, EntriesSet
<1> HIDE DEF d
<1>5. /\ d.seq = c.seq /\ d.addr = c.addr /\ d.root = c.root /\ d.height = c.height
      /\ d.total = c.total /\ d.hist = c.hist /\ d.map = c.map /\ d.entries = q
  BY <1>4 DEF CommitWith
<1>6. Added(c, d, e)
  BY <1>3, <1>4, <1>5 DEF Added
<1> QED BY <1>1, <1>6

\* t is c with its leaf among its own blocks.
Rooted(c, t) ==
    /\ t \in CommitType
    /\ t.seq = c.seq /\ t.addr = c.addr /\ t.total = c.total /\ t.hist = c.hist /\ t.map = c.map
    /\ t.height # 0 /\ t.root \in Addr /\ t.root \in Extent(t)
    /\ Len(t.entries) >= Len(c.entries) /\ Len(t.entries) <= Len(c.entries) + 2
    /\ \A i \in 1 .. Len(c.entries) : t.entries[i] = c.entries[i]
    /\ \/ c.height # 0 /\ t.root = c.root /\ t.entries = c.entries
       \/ /\ t.root = c.addr + Len(t.entries) /\ t.entries[Len(t.entries)].type = "BTREE"
          /\ Len(t.entries) > Len(c.entries)
    /\ AddrAfter(c) % SearchOffset # 0 => Len(t.entries) <= Len(c.entries) + 1

LEMMA DirtyRootFacts ==
    ASSUME NEW c \in CommitType, c.height = 0 <=> c.root = None, AddrAfter(c) + 2 <= DevSize
    PROVE  Rooted(c, DirtyRoot(c))
<1>1. /\ c.root \in Addr \union {None} /\ c.height \in {0, 1} /\ Len(c.entries) \in Nat
      /\ AddrAfter(c) = c.addr + 1 + Len(c.entries) /\ c.addr \in Nat /\ c.addr \in Addr
  BY CommitFields
<1>2. CASE RootIsDirty(c)
  <2>1. DirtyRoot(c) = c
    BY <1>2 DEF DirtyRoot
  <2>2. c.height # 0 /\ c.root \in Addr /\ c.root \in Extent(c)
    BY <1>1, <1>2 DEF RootIsDirty
  <2>3. Rooted(c, c)
    BY <1>1, <2>2 DEF Rooted
  <2> QED BY <2>1, <2>3
<1>3. CASE ~RootIsDirty(c)
  <2> DEFINE e == Entry("BTREE", None)
             d == AddEntry(c, e)
             t == [d EXCEPT !.root = LastAddr(d), !.height = 1]
             n == Len(d.entries)
  <2>1. DirtyRoot(c) = t
    BY <1>3 DEF DirtyRoot
  <2>2. e \in EntryType /\ e.type = "BTREE"
    BY DEF Entry, EntryType
  <2> HIDE DEF e
  <2>3. Added(c, d, e)
    BY <2>2, AddEntryFacts
  <2> HIDE DEF d
  <2>4. /\ d \in CommitType /\ d.seq = c.seq /\ d.addr = c.addr
        /\ d.total = c.total /\ d.hist = c.hist /\ d.map = c.map
        /\ n \in {Len(c.entries) + 1, Len(c.entries) + 2}
        /\ d.entries[n] = e /\ \A i \in 1 .. Len(c.entries) : d.entries[i] = c.entries[i]
        /\ (AddrAfter(c) % SearchOffset # 0 => n = Len(c.entries) + 1)
    BY <2>3 DEF Added
  <2>5. LastAddr(d) = c.addr + n /\ LastAddr(d) \in Addr
    <3>1. LastAddr(d) = c.addr + n
      BY <2>4 DEF LastAddr
    <3> HIDE DEF n
    <3>2. c.addr + n \in Int /\ 0 <= c.addr + n /\ c.addr + n < DevSize
      <4> DEFINE a == c.addr
                 k == Len(c.entries)
      <4>1. n \in Int /\ n >= 0 /\ n <= k + 2
        BY <1>1, <2>4
      <4>2. a \in Nat /\ k \in Nat /\ a + 1 + k + 2 <= DevSize /\ DevSize \in Nat
        BY <1>1, Bounds
      <4> HIDE DEF a, k
      <4>3. a + n \in Int /\ 0 <= a + n /\ a + n < DevSize
        BY ONLY <4>1, <4>2
      <4> QED BY <4>3 DEF a
    <3> QED BY <3>1, <3>2, Bounds
  <2>6. t = CommitWith(d.seq, d.addr, LastAddr(d), 1, d.total, d.entries, d.hist, d.map)
    BY <2>4, RootSet
  <2>7. t \in CommitType
    <3>1. /\ d.seq \in Nat /\ d.addr \in Addr /\ LastAddr(d) \in Addr \union {None}
          /\ 1 \in {0, 1} /\ d.total \in Nat /\ d.entries \in Seq(EntryType)
          /\ d.hist \in Seq(Write) /\ d.map \in MapType
      BY <2>4, <2>5, CommitFields
    <3>2. CommitWith(d.seq, d.addr, LastAddr(d), 1, d.total, d.entries, d.hist, d.map) \in CommitType
      BY <3>1, CommitMade
    <3> QED BY <2>6, <3>2
  <2> HIDE DEF t
  <2>8. /\ t.seq = c.seq /\ t.addr = c.addr /\ t.total = c.total /\ t.hist = c.hist
        /\ t.map = c.map /\ t.entries = d.entries /\ t.height = 1 /\ t.root = LastAddr(d)
    BY <2>4, <2>6 DEF CommitWith
  <2>9. t.root \in Extent(t)
    BY <1>1, <2>4, <2>5, <2>8 DEF Extent
  <2>10. Rooted(c, t)
    BY <1>1, <2>2, <2>4, <2>5, <2>7, <2>8, <2>9 DEF Rooted
  <2> QED BY <2>1, <2>10
<1> QED BY <1>2, <1>3

\* start_dirty_commit: the next commit, or the one that is open.
Opened(c, d, seq, addr) ==
    /\ d \in CommitType
    /\ d.seq = seq /\ d.addr = addr /\ d.entries = <<>>
    /\ d.root = c.root /\ d.height = c.height /\ d.total = c.total
    /\ d.hist = c.hist /\ d.map = c.map
    /\ AddrAfter(d) = addr + 1

LEMMA OpenFacts ==
    ASSUME NEW c \in CommitType, NEW seq \in Nat, NEW addr \in Addr
    PROVE  Opened(c, [c EXCEPT !.seq = seq, !.addr = addr, !.entries = <<>>], seq, addr)
<1> DEFINE d == CommitWith(seq, addr, c.root, c.height, c.total, <<>>, c.hist, c.map)
<1>1. [c EXCEPT !.seq = seq, !.addr = addr, !.entries = <<>>] = d
  BY OpenSet
<1>2. d \in CommitType
  <2>1. /\ c.root \in Addr \union {None} /\ c.height \in {0, 1} /\ c.total \in Nat
        /\ <<>> \in Seq(EntryType) /\ c.hist \in Seq(Write) /\ c.map \in MapType
    BY CommitFields
  <2> QED BY <2>1, CommitMade
<1>3. /\ d.seq = seq /\ d.addr = addr /\ d.entries = <<>>
      /\ d.root = c.root /\ d.height = c.height /\ d.total = c.total
      /\ d.hist = c.hist /\ d.map = c.map
  BY DEF CommitWith
<1> HIDE DEF d
<1>4. AddrAfter(d) = addr + 1
  <2>1. Len(<<>>) = 0 /\ addr \in Nat
    BY Bounds
  <2> QED BY <1>3, <2>1 DEF AddrAfter
<1> QED BY <1>1, <1>2, <1>3, <1>4 DEF Opened

\* t is c with the blocks of write w.
Applied(c, w, t) ==
    /\ t \in GoodCommits
    /\ t.seq = c.seq /\ t.addr = c.addr /\ t.hist = Append(c.hist, w)
    /\ t.height # 0 /\ t.root \in Addr /\ t.root \in Extent(t)
    /\ Len(t.entries) > Len(c.entries)
    /\ \A i \in 1 .. Len(c.entries) : t.entries[i] = c.entries[i]
    /\ \/ c.height # 0 /\ t.root = c.root
       \/ \E i \in 1 .. Len(t.entries) : t.root = c.addr + i /\ t.entries[i].type = "BTREE"
    /\ \E i \in 1 .. Len(t.entries) :
         /\ t.entries[i] = Entry("DATA", w)
         /\ t.map = [c.map EXCEPT ![KeyOf[w]] = [addr |-> c.addr + i, crc |-> w]]
    /\ t.total = IF c.map[KeyOf[w]] = NoItem THEN c.total + 1 ELSE c.total
    /\ AddrAfter(t) <= AddrAfter(c) + 4

LEMMA ApplyFacts ==
    ASSUME NEW c \in CommitType, c.height = 0 <=> c.root = None, NEW w \in Write,
           AddrAfter(c) + 4 < DevSize
    PROVE  Applied(c, w, Apply(c, w))
<1> DEFINE e == Entry("DATA", w)
           d == AddEntry(c, e)
           t == DirtyRoot(d)
           k == KeyOf[w]
           x == [addr |-> LastAddr(d), crc |-> w]
           B == c.map[k] = NoItem
           r == [t EXCEPT !.map[k] = x, !.total = IF B THEN @ + 1 ELSE @, !.hist = Append(@, w)]
           n == Len(c.entries)
           l == Len(d.entries)
           m == Len(t.entries)
<1>1. Apply(c, w) = r
  BY DEF Apply
<1>2. e \in EntryType
  BY DEF Entry, EntryType
<1>3. B \in BOOLEAN
  OBVIOUS
<1>4. /\ n \in Nat /\ c.addr \in Nat /\ c.addr \in Addr /\ c.map \in MapType /\ c.total \in Nat
      /\ c.hist \in Seq(Write) /\ AddrAfter(c) = c.addr + 1 + n
  BY CommitFields
<1>5. k \in Key /\ DevSize \in Nat
  BY Bounds
<1> HIDE DEF e, B, k
<1>6. Added(c, d, e)
  BY <1>2, AddEntryFacts
<1> HIDE DEF d
<1>7. /\ d \in CommitType /\ d.seq = c.seq /\ d.addr = c.addr /\ d.root = c.root
      /\ d.height = c.height /\ d.total = c.total /\ d.hist = c.hist /\ d.map = c.map
      /\ l \in {n + 1, n + 2} /\ d.entries[l] = e
      /\ \A i \in 1 .. n : d.entries[i] = c.entries[i]
  BY <1>6 DEF Added
<1>8. AddrAfter(d) = c.addr + 1 + l /\ LastAddr(d) = c.addr + l
  BY <1>7 DEF AddrAfter, LastAddr
<1> HIDE DEF n, l
<1>9. AddrAfter(d) + 2 <= DevSize /\ l \in Nat /\ l >= 1 /\ l > n
  BY <1>4, <1>5, <1>7, <1>8
<1>10. Rooted(d, t)
  <2>1. d.height = 0 <=> d.root = None
    BY <1>7
  <2> QED BY <1>7, <1>9, <2>1, DirtyRootFacts
<1> HIDE DEF t
<1>11. /\ t \in CommitType /\ t.seq = c.seq /\ t.addr = c.addr /\ t.total = c.total
       /\ t.hist = c.hist /\ t.map = c.map /\ t.height # 0 /\ t.root \in Addr
       /\ t.root \in Extent(t) /\ m >= l /\ m <= l + 2
       /\ \A i \in 1 .. l : t.entries[i] = d.entries[i]
       /\ \/ c.height # 0 /\ t.root = c.root
          \/ t.root = c.addr + m /\ t.entries[m].type = "BTREE" /\ m > l
  BY <1>7, <1>10 DEF Rooted, l
<1>12. m \in Nat /\ t.height \in {0, 1} /\ t.entries \in Seq(EntryType)
  <2>1. t \in CommitType
    BY <1>11
  <2>2. t.height \in {0, 1} /\ t.entries \in Seq(EntryType) /\ Len(t.entries) \in Nat
    BY <2>1, CommitFields, ZenonT(30)
  <2> QED BY <2>2
<1> HIDE DEF m
<1>13. LastAddr(d) \in Addr
  <2> DEFINE a == c.addr
             z == AddrAfter(d)
  <2>1. a \in Nat /\ l \in Nat /\ DevSize \in Nat /\ z = a + 1 + l /\ z + 2 <= DevSize
    BY <1>4, <1>5, <1>8, <1>9
  <2>2. LastAddr(d) = a + l
    BY <1>8
  <2> HIDE DEF a, z
  <2>3. a + l \in Int /\ 0 <= a + l /\ a + l < DevSize
    BY ONLY <2>1
  <2> QED BY <2>2, <2>3, Bounds
<1> DEFINE mp == Assign(c.map, k, x)
           tot == IF B THEN c.total + 1 ELSE c.total
           h == Append(c.hist, w)
           q == CommitWith(c.seq, c.addr, t.root, t.height, tot, t.entries, h, mp)
<1>14. r = q
  <2>1. r = ApplyTo(t, k, x, B, w)
    BY DEF ApplyTo
  <2> HIDE DEF r, x
  <2>2. ApplyTo(t, k, x, B, w)
          = CommitWith(t.seq, t.addr, t.root, t.height, IF B THEN t.total + 1 ELSE t.total,
                       t.entries, Append(t.hist, w), Assign(t.map, k, x))
    BY <1>3, <1>11, ApplySet
  <2> QED BY <1>11, <2>1, <2>2
<1> HIDE DEF r
<1>15. mp \in MapType /\ tot \in Nat /\ h \in Seq(Write) /\ c.seq \in Nat
  <2>1. x \in [addr : Addr \union {None}, crc : Write \union {None}]
    BY <1>13
  <2>2. mp \in MapType
    <3> HIDE DEF x
    <3> QED BY <1>4, <1>5, <2>1 DEF MapType, Assign
  <2>3. tot \in Nat
    BY <1>3, <1>4
  <2>4. h \in Seq(Write)
    BY <1>4
  <2>5. c.seq \in Nat
    BY CommitFields
  <2> QED BY <2>2, <2>3, <2>4, <2>5
<1> HIDE DEF mp, tot, h
<1>16. q \in CommitType
  <2>1. t.root \in Addr \union {None}
    BY <1>11
  <2> QED BY <1>4, <1>12, <1>15, <2>1, CommitMade
<1>17. /\ q.seq = c.seq /\ q.addr = c.addr /\ q.root = t.root /\ q.height = t.height
       /\ q.total = tot /\ q.entries = t.entries /\ q.hist = h /\ q.map = mp
  BY DEF CommitWith
<1> HIDE DEF q
<1>18. AddrAfter(q) = c.addr + 1 + m /\ Extent(q) = Extent(t)
  BY <1>11, <1>17 DEF AddrAfter, Extent, m
<1>19. AddrAfter(q) <= AddrAfter(c) + 4 /\ AddrAfter(q) < DevSize /\ m > n /\ l \in 1 .. m
  BY <1>4, <1>5, <1>7, <1>9, <1>11, <1>12, <1>18
<1>20. q \in GoodCommits
  <2>1. q.root # None /\ q.height # 0
    BY <1>11, <1>17, Bounds
  <2> QED BY <1>16, <1>19, <2>1 DEF GoodCommits
<1>21. \A i \in 1 .. n : q.entries[i] = c.entries[i]
  <2>1. \A i \in 1 .. n : i \in 1 .. l
    BY <1>9, <1>4
  <2> QED BY <1>7, <1>11, <1>17, <2>1
<1>22. \E i \in 1 .. m : q.entries[i] = e /\ q.map = [c.map EXCEPT ![k] = [addr |-> c.addr + i, crc |-> w]]
  <2>1. q.entries[l] = e
    <3>1. l \in 1 .. l
      BY <1>9
    <3> QED BY <1>7, <1>11, <1>17, <3>1
  <2>2. q.map = [c.map EXCEPT ![k] = [addr |-> c.addr + l, crc |-> w]]
    BY <1>8, <1>17 DEF mp, Assign
  <2> QED BY <1>19, <2>1, <2>2
<1>23. \/ c.height # 0 /\ q.root = c.root
       \/ \E i \in 1 .. m : q.root = c.addr + i /\ q.entries[i].type = "BTREE"
  <2>1. m \in 1 .. m
    BY <1>12, <1>19
  <2> QED BY <1>11, <1>17, <2>1
<1>24. Applied(c, w, q)
  <2>1. m = Len(q.entries) /\ n = Len(c.entries)
    BY <1>17 DEF m, n
  <2>2. q.total = IF c.map[KeyOf[w]] = NoItem THEN c.total + 1 ELSE c.total
    BY <1>17 DEF tot, B, k
  <2>3. q.hist = Append(c.hist, w)
    BY <1>17 DEF h
  <2>4. \E i \in 1 .. m : /\ q.entries[i] = Entry("DATA", w)
                          /\ q.map = [c.map EXCEPT ![KeyOf[w]] = [addr |-> c.addr + i, crc |-> w]]
    BY <1>22 DEF e, k
  <2> QED BY <1>11, <1>17, <1>18, <1>19, <1>20, <1>21, <1>23, <2>1, <2>2, <2>3, <2>4 DEF Applied
<1> QED BY <1>1, <1>14, <1>24

-----------------------------------------------------------------------------
(* Recovery.                                                               *)

\* What verifies is a commit, or is taken for one, at its address.
LEMMA VerifiedCommit ==
    ASSUME NEW d, GoodDisk(d), NEW a, Verifies(d, a)
    PROVE  /\ a \in Addr /\ AsCommit(d, a) \in GoodCommits /\ AsCommit(d, a).addr = a
           /\ AddrAfter(AsCommit(d, a)) \in Nat
           /\ a < AddrAfter(AsCommit(d, a)) /\ AddrAfter(AsCommit(d, a)) < DevSize
<1> DEFINE b == d[a]
           c == AsCommit(d, a)
<1>1. a \in Addr /\ HasHeader(b.type)
  BY Zenon DEF Verifies, HeaderOK, CrcOK
<1>2. GoodBlock(b, a)
  BY <1>1 DEF GoodDisk
<1> HIDE DEF b
<1>3. c \in GoodCommits /\ c.addr = a
  <2>1. CASE b.type = "COMMIT"
    BY <1>2, <2>1 DEF AsCommit, GoodBlock, b
  <2>2. CASE b.type # "COMMIT"
    <3> DEFINE r == [RootCommit EXCEPT !.addr = a]
               t == CommitWith(1, a, None, 0, 0, <<>>, <<>>, EmptyMap)
    <3>1. c = r
      BY <2>2 DEF AsCommit, b
    <3>2. r = t
      BY DEF RootCommit, CommitWith
    <3>3. t \in CommitType
      <4>1. <<>> \in Seq(EntryType) /\ <<>> \in Seq(Write) /\ 1 \in Nat /\ 0 \in Nat
        OBVIOUS
      <4> QED BY <1>1, <4>1, CommitMade, EmptyMapType
    <3>4. t.addr = a /\ t.height = 0 /\ t.root = None /\ t.entries = <<>>
      BY DEF CommitWith
    <3> HIDE DEF r, t
    <3>5. AddrAfter(t) = a + 1
      <4>1. Len(<<>>) = 0 /\ a \in Nat
        BY <1>1, Bounds
      <4> QED BY <3>4, <4>1 DEF AddrAfter
    <3>6. a + 1 < DevSize
      <4>1. a + 1 \in Addr
        BY <1>1, <1>2 DEF GoodBlock, HasHeader
      <4> QED BY <1>1, <4>1, Bounds
    <3> QED BY <3>1, <3>2, <3>3, <3>4, <3>5, <3>6 DEF GoodCommits
  <2> QED BY <2>1, <2>2
<1> HIDE DEF c
<1>4. c \in CommitType /\ AddrAfter(c) < DevSize
  BY <1>3 DEF GoodCommits
<1>5. AddrAfter(c) \in Nat /\ AddrAfter(c) > c.addr /\ c.addr \in Nat
  BY <1>4, CommitFields
<1> QED BY <1>1, <1>3, <1>4, <1>5 DEF c

\* A step of the walk of last_verified_commit.
WalkStep(d, start, g, n) ==
    LET a == DevSize - n
    IN IF a >= RoundUp(start + 1) \/ ~Verifies(d, a) THEN None
       ELSE LET next == AddrAfter(AsCommit(d, a))
                rest == IF next >= DevSize THEN None ELSE g[DevSize - next]
            IN IF rest = None THEN a ELSE rest

\* f is what the walk finds from each address.
WalkOf(d, start, f) ==
    /\ f \in [0 .. DevSize -> Addr \union {None}]
    /\ LastVerified(d, start) = f[DevSize - start]
    /\ \A n \in 0 .. DevSize : f[n] = WalkStep(d, start, f, n)

\* The walk ends: each commit lies behind the one before.
LEMMA WalkExists ==
    ASSUME NEW d, GoodDisk(d), NEW start \in Addr
    PROVE  \E f : WalkOf(d, start, f)
<1> DEFINE N == DevSize
           V == Addr \union {None}
           stop(n) == DevSize - n >= RoundUp(start + 1) \/ ~Verifies(d, DevSize - n)
           J == [n \in 1 .. N |-> IF stop(n) THEN 0 ELSE N - AddrAfter(AsCommit(d, DevSize - n))]
           More(n, v) == IF stop(n) THEN None ELSE IF v = None THEN N - n ELSE v
           F == [n \in 1 .. N |-> [v \in V |-> More(n, v)]]
           last == CHOOSE g : g = [n \in 0 .. N |-> WalkStep(d, start, g, n)]
<1>1. N \in Nat /\ None \in V
  BY Bounds
<1>2. LastVerified(d, start) = last[N - start]
  BY DEF LastVerified, WalkStep
<1>3. \A n \in 1 .. N : ~stop(n) => /\ N - n \in Addr
                                    /\ AddrAfter(AsCommit(d, N - n)) \in Nat
                                    /\ N - n < AddrAfter(AsCommit(d, N - n))
                                    /\ AddrAfter(AsCommit(d, N - n)) < N
  BY VerifiedCommit
<1>4. stop(0)
  <2>1. N - 0 \notin Addr
    BY <1>1, Bounds
  <2> QED BY <2>1 DEF Verifies, HeaderOK
<1>5. \A g : \A n \in 0 .. N : WalkStep(d, start, g, n) =
          IF stop(n) THEN None ELSE More(n, g[J[n]])
  <2> SUFFICES ASSUME NEW g, NEW n \in 0 .. N, ~stop(n)
               PROVE  WalkStep(d, start, g, n) = More(n, g[J[n]])
    BY DEF WalkStep
  <2>1. n \in 1 .. N
    BY <1>1, <1>4
  <2>2. ~(AddrAfter(AsCommit(d, N - n)) >= N) /\ J[n] = N - AddrAfter(AsCommit(d, N - n))
    BY <1>1, <1>3, <2>1
  <2> QED BY <2>2 DEF WalkStep
<1>6. \A n \in 1 .. N : J[n] \in 0 .. n - 1
  <2> SUFFICES ASSUME NEW n \in 1 .. N PROVE J[n] \in 0 .. n - 1
    OBVIOUS
  <2>1. CASE stop(n)
    BY <2>1
  <2>2. CASE ~stop(n)
    <3> DEFINE next == AddrAfter(AsCommit(d, N - n))
    <3>1. next \in Nat /\ N - n < next /\ next < N /\ J[n] = N - next
      BY <1>3, <2>2
    <3> HIDE DEF next, J
    <3> QED BY <1>1, <3>1
  <2> QED BY <2>1, <2>2
<1>7. \A n \in 1 .. N, v \in V : More(n, v) \in V
  BY <1>3
<1> HIDE DEF N, V, J, More, stop
<1>8. F \in [1 .. N -> [V -> V]]
  BY <1>7
<1>9. \A n \in 1 .. N, v \in V : F[n][v] = More(n, v)
  OBVIOUS
<1> HIDE DEF F
<1>9a. RefersBack(J, N)
  BY <1>6 DEF RefersBack
<1>10. \E f : RecursionValue(f, V, None, N, F, J)
  BY <1>1, <1>8, <1>9a, RecursionThrough
<1>11. PICK f \in [0 .. N -> V] : f[0] = None /\ \A n \in 1 .. N : f[n] = F[n][f[J[n]]]
  BY <1>10 DEF RecursionValue
<1>12. \A n \in 1 .. N : J[n] \in 0 .. N
  BY <1>1, <1>6
<1>13. \A n \in 1 .. N : f[n] = More(n, f[J[n]])
  BY <1>9, <1>11, <1>12
<1>14. \A n \in 1 .. N, v \in V : stop(n) => More(n, v) = None
  BY DEF More
<1>15. \A n \in 0 .. N : f[n] = WalkStep(d, start, f, n)
  <2> SUFFICES ASSUME NEW n \in 0 .. N PROVE f[n] = WalkStep(d, start, f, n)
    OBVIOUS
  <2>1. CASE n = 0
    BY <1>4, <1>5, <1>11, <2>1
  <2>2. CASE n # 0
    <3>1. n \in 1 .. N
      BY <1>1, <2>2
    <3>2. f[n] = More(n, f[J[n]]) /\ f[J[n]] \in V
      BY <1>11, <1>12, <1>13, <3>1
    <3>3. WalkStep(d, start, f, n) = IF stop(n) THEN None ELSE More(n, f[J[n]])
      BY <1>5
    <3>4. stop(n) => More(n, f[J[n]]) = None
      BY <1>14, <3>1, <3>2
    <3> QED BY <3>2, <3>3, <3>4
  <2> QED BY <2>1, <2>2
<1>16. f = [n \in 0 .. N |-> WalkStep(d, start, f, n)]
  BY <1>15
<1>17. last = [n \in 0 .. N |-> WalkStep(d, start, last, n)]
  BY <1>16
<1> HIDE DEF last
<1>18. \A n \in 0 .. N : last[n] = WalkStep(d, start, last, n)
  BY <1>17
<1>19. \A n \in 0 .. N : last[n] = f[n]
  <2> DEFINE Bad == {n \in 0 .. N : last[n] # f[n]}
  <2> SUFFICES ASSUME Bad # {} PROVE FALSE
    OBVIOUS
  <2>1. PICK n \in Bad : \A j \in Bad : n <= j
    <3>1. Bad \subseteq Nat
      BY <1>1
    <3> HIDE DEF Bad
    <3> QED BY <3>1, LeastNat
  <2>2. n \in 0 .. N /\ last[n] # f[n]
    BY <2>1
  <2>3. ~stop(n)
    BY <1>5, <1>15, <1>18, <2>2
  <2>4. n \in 1 .. N
    BY <1>1, <1>4, <2>2, <2>3
  <2>5. J[n] \in 0 .. N /\ ~(n <= J[n])
    BY <1>1, <1>6, <2>4
  <2>6. last[J[n]] = f[J[n]]
    BY <2>1, <2>5
  <2>7. last[n] = More(n, last[J[n]]) /\ f[n] = More(n, f[J[n]])
    BY <1>5, <1>15, <1>18, <2>2, <2>3
  <2> QED BY <2>2, <2>6, <2>7
<1>20. N - start \in 0 .. N
  BY <1>1, Bounds DEF N
<1>21. LastVerified(d, start) = f[N - start]
  BY <1>2, <1>19, <1>20
<1>22. f \in [0 .. N -> V]
  BY <1>11
<1> QED BY <1>15, <1>21, <1>22 DEF WalkOf, N, V

\* The walk finds a commit that verifies, or nothing.
LEMMA WalkFinds ==
    ASSUME NEW d, GoodDisk(d), NEW start \in Addr
    PROVE  LastVerified(d, start) = None \/ Verifies(d, LastVerified(d, start))
<1>1. PICK f : WalkOf(d, start, f)
  BY WalkExists
<1> DEFINE Bad == {n \in 0 .. DevSize : ~(f[n] = None \/ Verifies(d, f[n]))}
<1>2. Bad = {}
  <2> SUFFICES ASSUME Bad # {} PROVE FALSE
    OBVIOUS
  <2>0. DevSize \in Nat
    BY Bounds
  <2>1. PICK n \in Bad : \A j \in Bad : n <= j
    <3>1. Bad \subseteq Nat
      BY <2>0
    <3> HIDE DEF Bad
    <3> QED BY <3>1, LeastNat
  <2> DEFINE a == DevSize - n
             next == AddrAfter(AsCommit(d, a))
  <2>2. n \in 0 .. DevSize /\ f[n] # None /\ ~Verifies(d, f[n])
    BY <2>1
  <2>3. f[n] = WalkStep(d, start, f, n)
    BY <1>1, <2>2 DEF WalkOf
  <2>4. Verifies(d, a) /\ (f[n] = a \/ (~(next >= DevSize) /\ f[n] = f[DevSize - next]))
    BY <2>2, <2>3 DEF WalkStep
  <2>5. a < next /\ next < DevSize /\ next \in Nat
    BY <2>4, VerifiedCommit
  <2>6. f[n] = f[DevSize - next]
    BY <2>2, <2>4
  <2>7. DevSize - next \in 0 .. DevSize /\ ~(n <= DevSize - next)
    BY <2>0, <2>2, <2>5
  <2> HIDE DEF next, a
  <2>8. DevSize - next \in Bad
    BY <2>2, <2>6, <2>7
  <2> QED BY <2>1, <2>7, <2>8
<1>3. DevSize - start \in 0 .. DevSize
  BY Bounds
<1> QED BY <1>1, <1>2, <1>3 DEF WalkOf

\* The state of the binary search of find_recent_commit.
SearchType == [start : Nat, last : Int, recent : Addr \union {None}]

LEMMA SearchRoundFacts ==
    ASSUME NEW d, GoodDisk(d), NEW s \in SearchType
    PROVE  SearchRound(d, s) \in SearchType
<1> DEFINE mid == (s.start + s.last) \div 4
           addr == mid * SearchOffset
           at == IF d[addr].type = "SEARCH" THEN d[addr].commit ELSE addr
           r == s.recent
           rec == IF r = None \/ at > r THEN at ELSE r
<1>1. s.start \in Nat /\ s.last \in Int /\ r \in Addr \union {None}
  BY DEF SearchType
<1>2. CASE s.start > s.last
  BY <1>2 DEF SearchRound
<1>3. CASE ~(s.start > s.last)
  <2>1. mid \in Nat
    BY <1>1, <1>3
  <2> HIDE DEF mid
  <2>2. CASE ~HeaderOK(d, addr)
    <3>1. SearchRound(d, s) = [s EXCEPT !.last = mid - 1]
      BY <1>3, <2>2 DEF SearchRound, mid
    <3>2. mid - 1 \in Int
      BY <2>1
    <3> QED BY <3>1, <3>2 DEF SearchType
  <2>3. CASE HeaderOK(d, addr)
    <3>1. SearchRound(d, s) = [s EXCEPT !.start = mid + 1, !.recent = rec]
      BY <1>3, <2>3 DEF SearchRound, mid
    <3> DEFINE b == d[addr]
    <3>2. addr \in Addr /\ GoodBlock(b, addr)
      BY <2>3 DEF HeaderOK, GoodDisk
    <3> HIDE DEF addr
    <3>3. at \in Addr
      BY <3>2 DEF GoodBlock
    <3> HIDE DEF at, r
    <3>4. rec \in Addr \union {None} /\ mid + 1 \in Nat
      BY <1>1, <2>1, <3>3
    <3> HIDE DEF rec
    <3> QED BY <3>1, <3>4 DEF SearchType
  <2> QED BY <2>2, <2>3
<1> QED BY <1>2, <1>3

\* f is the state after each round.
RoundsOf(d, f) ==
    /\ f \in [0 .. (2 * DevSize) -> SearchType]
    /\ f[0] = [start |-> 0, last |-> (DevSize - 1) \div SearchOffset, recent |-> None]
    /\ \A n \in 1 .. (2 * DevSize) : f[n] = SearchRound(d, f[n - 1])
    /\ FindRecent(d) = f[2 * DevSize]

LEMMA RoundsExist ==
    ASSUME NEW d, GoodDisk(d)
    PROVE  \E f : RoundsOf(d, f)
<1> DEFINE N == 2 * DevSize
           V == SearchType
           s0 == [start |-> 0, last |-> (DevSize - 1) \div SearchOffset, recent |-> None]
           Step(g, n) == IF n = 0 THEN s0
                         ELSE CHOOSE t \in {SearchRound(d, s) : s \in {g[n - 1]}} : TRUE
           Round(s) == SearchRound(d, s)
           F == [n \in 1 .. N |-> [s \in V |-> Round(s)]]
           round == CHOOSE g : g = [n \in 0 .. N |-> Step(g, n)]
<1>1. N \in Nat
  BY Bounds
<1>2. s0 \in V
  <2>1. (DevSize - 1) \div SearchOffset \in Int
    BY Bounds
  <2> QED BY <2>1 DEF SearchType
<1>3. FindRecent(d) = round[N]
  BY DEF FindRecent
<1>4. \A g : \A n \in 0 .. N : Step(g, n) = IF n = 0 THEN s0 ELSE Round(g[n - 1])
  <2>1. \A x : (CHOOSE t \in {SearchRound(d, s) : s \in {x}} : TRUE) = SearchRound(d, x)
    <3> SUFFICES ASSUME NEW x
                 PROVE  (CHOOSE t \in {SearchRound(d, s) : s \in {x}} : TRUE) = SearchRound(d, x)
      OBVIOUS
    <3> DEFINE y == SearchRound(d, x)
    <3>1. {SearchRound(d, s) : s \in {x}} = {y}
      OBVIOUS
    <3> HIDE DEF y
    <3>2. (CHOOSE t \in {y} : TRUE) = y
      OBVIOUS
    <3> QED BY <3>1, <3>2 DEF y
  <2> QED BY <2>1, Zenon
<1>5. \A s \in V : Round(s) \in V
  BY SearchRoundFacts
<1> HIDE DEF N, V, s0, Step, Round
<1>6. F \in [1 .. N -> [V -> V]]
  BY <1>5
<1>7. \A n \in 1 .. N, s \in V : F[n][s] = Round(s)
  OBVIOUS
<1> HIDE DEF F
<1>8. \E f \in [0 .. N -> V] : f[0] = s0 /\ \A n \in 1 .. N : f[n] = F[n][f[n - 1]]
  BY <1>1, <1>2, <1>6, RecursionExists
<1>9. PICK f \in [0 .. N -> V] : f[0] = s0 /\ \A n \in 1 .. N : f[n] = F[n][f[n - 1]]
  BY <1>8
<1>10. \A n \in 1 .. N : n - 1 \in 0 .. N
  BY <1>1
<1>11. \A n \in 1 .. N : f[n] = Round(f[n - 1])
  BY <1>7, <1>9, <1>10
<1>12. \A n \in 0 .. N : f[n] = Step(f, n)
  BY <1>1, <1>4, <1>9, <1>11
<1>13. f = [n \in 0 .. N |-> Step(f, n)]
  BY <1>12
<1>14. round = [n \in 0 .. N |-> Step(round, n)]
  BY <1>13
<1> HIDE DEF round
<1>15. \A n \in 0 .. N : round[n] = Step(round, n)
  BY <1>14
<1>16. round[0] = s0 /\ \A n \in 1 .. N : round[n] = Round(round[n - 1])
  BY <1>1, <1>4, <1>15
<1>17. \A n \in 0 .. N : round[n] = f[n]
  <2> DEFINE Bad == {n \in 0 .. N : round[n] # f[n]}
  <2> SUFFICES ASSUME Bad # {} PROVE FALSE
    OBVIOUS
  <2>1. PICK n \in Bad : \A j \in Bad : n <= j
    <3>1. Bad \subseteq Nat
      BY <1>1
    <3> HIDE DEF Bad
    <3> QED BY <3>1, LeastNat
  <2>2. n \in 1 .. N /\ n - 1 \in 0 .. N /\ ~(n <= n - 1)
    BY <1>1, <1>9, <1>16, <2>1
  <2>3. round[n - 1] = f[n - 1]
    BY <2>1, <2>2
  <2> QED BY <1>11, <1>16, <2>1, <2>2, <2>3
<1>18. FindRecent(d) = f[N]
  BY <1>1, <1>3, <1>17
<1> QED BY <1>9, <1>11, <1>18 DEF RoundsOf, N, V, s0, Round

\* What recovery loads is a commit of the device.
LEMMA RecoveryLoads ==
    ASSUME NEW d, GoodDisk(d), CommitToLoad(d) # None
    PROVE  /\ CommitToLoad(d) \in Addr /\ Verifies(d, CommitToLoad(d))
           /\ LoadedCommit(d, CommitToLoad(d)) \in GoodCommits
<1> DEFINE recent == FindRecent(d).recent
           a == CommitToLoad(d)
           c == AsCommit(d, a)
           b == d[c.root]
           m == IF c.height = 0 THEN EmptyMap
                ELSE IF b.type = "BTREE" THEN b.map ELSE EmptyMap
<1>1. recent \in Addr \union {None}
  <2>1. PICK f : RoundsOf(d, f)
    BY RoundsExist
  <2>2. 2 * DevSize \in 0 .. (2 * DevSize)
    BY Bounds
  <2>3. FindRecent(d) \in SearchType
    BY <2>1, <2>2 DEF RoundsOf
  <2> QED BY <2>3 DEF SearchType
<1>2. recent \in Addr
  BY <1>1 DEF CommitToLoad
<1> HIDE DEF recent
<1>3. recent >= SearchOffset => recent - SearchOffset \in Addr
  BY <1>2, Bounds
<1>4. a = LastVerified(d, recent) \/ (recent - SearchOffset \in Addr /\ a = LastVerified(d, recent - SearchOffset))
  BY <1>2, <1>3, Bounds DEF CommitToLoad, recent
<1>5. Verifies(d, a)
  BY <1>2, <1>4, WalkFinds
<1>6. a \in Addr /\ c \in GoodCommits
  BY <1>5, VerifiedCommit
<1>7. LoadedCommit(d, a) = [c EXCEPT !.map = m]
  BY DEF LoadedCommit
<1> HIDE DEF a, c
<1>8. m \in MapType
  <2>1. CASE c.height = 0
    BY <2>1, EmptyMapType
  <2>2. CASE c.height # 0
    <3>1. c.root \in Addr
      BY <1>6, <2>2, CommitFields DEF GoodCommits
    <3>2. GoodBlock(b, c.root)
      BY <3>1 DEF GoodDisk
    <3> HIDE DEF b
    <3> QED BY <2>2, <3>2, EmptyMapType DEF GoodBlock
  <2> QED BY <2>1, <2>2
<1> HIDE DEF m
<1>9. [c EXCEPT !.map = m] \in GoodCommits
  BY <1>6, <1>8, MapSet
<1> QED BY <1>5, <1>6, <1>7, <1>9 DEF a

-----------------------------------------------------------------------------
(* The inductive invariant, for any number of crashes.                     *)

TaskState == [pc : {"idle", "prepare", "reserve", "commit", "done", "failed", "lost"},
              seq : Nat, height : {0, 1}, awake : BOOLEAN]
ReaderState == [pc : {"idle", "reading", "done"}, seq : Nat, key : Key \union {None},
                saw : Write \union {None}]

\* Every commit has room, and the device holds only blocks of such commits.
TypeInv ==
    /\ up \in BOOLEAN /\ writeTask \in BOOLEAN
    /\ stable \in GoodCommits /\ current \in GoodCommits /\ dirty \in GoodCommits \union {None}
    /\ writing \subseteq GoodCommits /\ written \subseteq GoodCommits
    /\ nextSeq \in Nat /\ nextAddr \in Addr /\ dirtySeq \in Nat
    /\ task \in [Write -> TaskState] /\ reader \in ReaderState
    /\ visible \subseteq Write /\ crashes \in 0 .. MaxCrashes
    /\ GoodDisk(disk)

Later == writing \union written \union ({dirty} \ {None})

\* c is the commit opened after p.
Precedes(p, c) == p.seq = c.seq - 1 /\ AddrAfter(p) = c.addr /\ IsPrefix(p.hist, c.hist)

\* A commit is dirty, being written or written.
Distinct == writing \intersect written = {} /\ dirty \notin writing \union written

\* The numbers of the commits after the stable one are taken once each.
Sequenced ==
    /\ IsFiniteSet(Later) /\ nextSeq = stable.seq + Cardinality(Later) + 1
    /\ \A c \in Later : stable.seq < c.seq /\ c.seq < nextSeq
    /\ \A b, c \in Later : b.seq = c.seq => b = c

Chained == \A c \in Later : \E p \in Later \union {stable} : Precedes(p, c)

\* The next commit is opened behind the current one.
Newest ==
    /\ current \in writing \union written \union {stable}
    /\ dirty = None => current.seq = nextSeq - 1 /\ AddrAfter(current) = nextAddr
    /\ dirty # None => /\ Precedes(current, dirty)
                       /\ dirty.seq = nextSeq - 1 /\ AddrAfter(dirty) = nextAddr

Inside == \A c \in Later \union {stable} : AddrAfter(c) <= nextAddr

LogInv ==
    /\ up => Distinct /\ Sequenced /\ Chained /\ Newest /\ Inside
    /\ ~up => dirty = None /\ writing = {} /\ written = {}

StoreInv == TypeInv /\ LogInv

\* What the steps of the writes and of the reader leave alone.
Quiet == UNCHANGED <<disk, up, stable, current, dirty, writing, written, nextSeq, nextAddr>>

LEMMA QuietKeepsLog ==
    ASSUME LogInv, Quiet
    PROVE  LogInv'
<1>1. Later' = Later
  BY DEF Later, Quiet
<1> QED BY <1>1 DEF LogInv, Quiet, Distinct, Sequenced, Chained, Newest, Inside

\* The assignments to the fields of a task.
LEMMA TaskFields ==
    ASSUME task \in [Write -> TaskState], NEW w \in Write, NEW s \in Nat, NEW b \in BOOLEAN,
           NEW p \in {"reserve", "commit", "done", "failed"}
    PROVE  /\ [task EXCEPT ![w].pc = p] \in [Write -> TaskState]
           /\ [task EXCEPT ![w].pc = p, ![w].seq = s] \in [Write -> TaskState]
           /\ [task EXCEPT ![w].pc = p, ![w].awake = b] \in [Write -> TaskState]
<1> DEFINE t == task[w]
<1>1. t \in TaskState
  OBVIOUS
<1> HIDE DEF t
<1>2. /\ [t EXCEPT !.pc = p] \in TaskState
      /\ [t EXCEPT !.pc = p, !.seq = s] \in TaskState
      /\ [t EXCEPT !.pc = p, !.awake = b] \in TaskState
  BY <1>1 DEF TaskState
<1>3. /\ [task EXCEPT ![w].pc = p] = [task EXCEPT ![w] = [t EXCEPT !.pc = p]]
      /\ [task EXCEPT ![w].pc = p, ![w].seq = s] = [task EXCEPT ![w] = [t EXCEPT !.pc = p, !.seq = s]]
      /\ [task EXCEPT ![w].pc = p, ![w].awake = b] = [task EXCEPT ![w] = [t EXCEPT !.pc = p, !.awake = b]]
  BY DEF t
<1>4. \A u \in TaskState : [task EXCEPT ![w] = u] \in [Write -> TaskState]
  OBVIOUS
<1> QED BY <1>2, <1>3, <1>4

\* The commit a write finds or opens, behind the current one.
LEMMA OpenCommitFacts ==
    ASSUME StoreInv, up, nextAddr + 1 < DevSize
    PROVE  /\ OpenCommit \in GoodCommits /\ Precedes(current, OpenCommit)
           /\ OpenCommit.seq = (IF dirty = None THEN nextSeq ELSE nextSeq - 1)
           /\ AddrAfter(OpenCommit) = (IF dirty = None THEN nextAddr + 1 ELSE nextAddr)
           /\ dirty = None => Opened(current, OpenCommit, nextSeq, nextAddr)
           /\ dirty # None => OpenCommit = dirty
<1>1. TypeInv /\ Newest
  BY DEF StoreInv, LogInv
<1>2. nextSeq \in Nat /\ nextAddr \in Addr /\ nextAddr \in Nat /\ current \in CommitType
      /\ (current.height = 0 <=> current.root = None) /\ current.seq \in Nat
      /\ current.hist \in Seq(Write) /\ DevSize \in Nat
  BY <1>1, CommitFields, Bounds DEF TypeInv, GoodCommits
<1>3. CASE dirty # None
  BY <1>1, <1>3 DEF TypeInv, Newest, OpenCommit
<1>4. CASE dirty = None
  <2> DEFINE c == OpenCommit
  <2>1. c = [current EXCEPT !.seq = nextSeq, !.addr = nextAddr, !.entries = <<>>]
    BY <1>4 DEF OpenCommit
  <2>2. Opened(current, c, nextSeq, nextAddr)
    BY <1>2, <2>1, OpenFacts
  <2> HIDE DEF c
  <2>3. c \in GoodCommits
    BY <1>2, <2>2 DEF Opened, GoodCommits
  <2>4. Precedes(current, c)
    <3>1. current.seq = nextSeq - 1 /\ AddrAfter(current) = nextAddr
      BY <1>1, <1>4 DEF Newest
    <3>2. IsPrefix(current.hist, current.hist)
      BY <1>2, PrefixFacts
    <3> QED BY <1>2, <2>2, <3>1, <3>2 DEF Opened, Precedes
  <2> QED BY <1>4, <2>2, <2>3, <2>4 DEF c, Opened
<1> QED BY <1>3, <1>4

\* A dirty commit is opened, or the open one changes.
DirtyStep(c) ==
    /\ up /\ up' = up
    /\ c \in GoodCommits /\ Precedes(current, c)
    /\ c.seq = IF dirty = None THEN nextSeq ELSE nextSeq - 1
    /\ dirty' = c /\ nextAddr' = AddrAfter(c) /\ nextAddr <= AddrAfter(c)
    /\ nextSeq' = IF dirty = None THEN nextSeq + 1 ELSE nextSeq
    /\ UNCHANGED <<stable, current, writing, written>>

LEMMA DirtyStepKeepsLog ==
    ASSUME StoreInv, NEW c, DirtyStep(c)
    PROVE  LogInv'
<1> DEFINE closed == writing \union written
           n == Cardinality(closed)
<1>1. /\ TypeInv /\ Distinct /\ Sequenced /\ Chained /\ Newest /\ Inside
  BY DEF StoreInv, LogInv, DirtyStep
<1>2. /\ c \in GoodCommits /\ Precedes(current, c) /\ c # None /\ None \notin closed
      /\ c.seq \in Nat /\ AddrAfter(c) \in Nat /\ nextSeq \in Nat /\ nextAddr \in Nat
      /\ stable.seq \in Nat /\ stable \in GoodCommits
      /\ \A b \in closed : b.seq \in Nat /\ AddrAfter(b) \in Nat
  BY <1>1, CommitFields, Bounds DEF TypeInv, GoodCommits, DirtyStep
<1>3. Later = (IF dirty = None THEN closed ELSE closed \union {dirty}) /\ Later' = closed \union {c}
  BY <1>2 DEF Later, DirtyStep
<1>4. IsFiniteSet(closed) /\ n \in Nat
  <2>1. closed \subseteq Later /\ IsFiniteSet(Later)
    BY <1>1 DEF Later, Sequenced
  <2> HIDE DEF closed
  <2> QED BY <2>1, FS_Subset, FS_CardinalityType
<1>5. /\ closed \subseteq Later
      /\ \A b \in closed : stable.seq < b.seq /\ b.seq < nextSeq /\ AddrAfter(b) <= nextAddr
      /\ AddrAfter(stable) <= nextAddr
      /\ \A b, d \in closed : b.seq = d.seq => b = d
      /\ dirty # None => /\ dirty \notin closed /\ dirty \in Later
                         /\ dirty.seq = nextSeq - 1 /\ \A b \in closed : b.seq # dirty.seq
  BY <1>1 DEF Later, Sequenced, Distinct, Inside, Newest
<1>6. nextSeq' = stable.seq + n + 2
  <2>1. CASE dirty = None
    <3>1. Later = closed
      BY <1>3, <2>1
    <3> QED BY <1>1, <1>2, <1>4, <2>1, <3>1 DEF Sequenced, DirtyStep
  <2>2. CASE dirty # None
    <3>1. Later = closed \union {dirty}
      BY <1>3, <2>2
    <3> HIDE DEF closed
    <3>2. Cardinality(Later) = n + 1
      BY <1>4, <1>5, <2>2, <3>1, FS_AddElement
    <3> QED BY <1>1, <1>2, <1>4, <2>2, <3>2 DEF Sequenced, DirtyStep
  <2> QED BY <2>1, <2>2
<1>7. /\ c.seq = nextSeq' - 1 /\ nextSeq' \in Nat
      /\ \A b \in closed : b.seq < c.seq
  <2>1. CASE dirty = None
    BY <1>2, <1>5, <2>1 DEF DirtyStep
  <2>2. CASE dirty # None
    <3>1. \A b \in closed : b.seq < nextSeq - 1
      BY <1>2, <1>5, <2>2
    <3> QED BY <1>2, <2>2, <3>1 DEF DirtyStep
  <2> QED BY <2>1, <2>2
<1>8. c \notin closed
  BY <1>2, <1>7
<1> HIDE DEF closed
<1>9. Sequenced'
  <2>1. IsFiniteSet(Later') /\ Cardinality(Later') = n + 1
    BY <1>3, <1>4, <1>8, FS_AddElement
  <2>2. stable' = stable
    BY DEF DirtyStep
  <2>3. nextSeq' = stable'.seq + Cardinality(Later') + 1
    BY <1>2, <1>4, <1>6, <2>1, <2>2
  <2>4. \A b \in Later' : stable.seq < b.seq /\ b.seq < nextSeq'
    BY <1>2, <1>3, <1>4, <1>5, <1>6, <1>7
  <2>5. \A b, d \in Later' : b.seq = d.seq => b = d
    BY <1>2, <1>3, <1>5, <1>7
  <2> QED BY <2>1, <2>2, <2>3, <2>4, <2>5 DEF Sequenced
<1>10. Distinct'
  BY <1>1, <1>8 DEF Distinct, DirtyStep, closed
<1>11. Chained'
  <2> SUFFICES ASSUME NEW b \in Later' PROVE \E p \in Later' \union {stable} : Precedes(p, b)
    BY DEF Chained, DirtyStep
  <2>1. CASE b = c
    <3>1. current \in closed \union {stable}
      BY <1>1 DEF Newest, closed
    <3> QED BY <1>2, <1>3, <2>1, <3>1
  <2>2. CASE b \in closed
    <3>1. PICK p \in Later \union {stable} : Precedes(p, b)
      BY <1>1, <1>5, <2>2 DEF Chained
    <3>2. p.seq = b.seq - 1
      BY <3>1 DEF Precedes
    <3>3. dirty # None => p # dirty
      BY <1>2, <1>5, <2>2, <3>2
    <3>4. p \in closed \union {stable}
      BY <1>3, <3>1, <3>3
    <3> QED BY <1>3, <3>1, <3>4
  <2> QED BY <1>3, <2>1, <2>2
<1>12. Newest'
  <2>1. /\ dirty' = c /\ current' = current /\ nextAddr' = AddrAfter(c)
        /\ writing' = writing /\ written' = written /\ stable' = stable
    BY DEF DirtyStep
  <2> QED BY <1>1, <1>2, <1>7, <2>1 DEF Newest, Precedes
<1>13. Inside'
  <2>1. nextAddr' = AddrAfter(c) /\ nextAddr <= AddrAfter(c) /\ stable' = stable
    BY DEF DirtyStep
  <2>2. AddrAfter(stable) \in Nat
    BY <1>2, CommitFields DEF GoodCommits
  <2> QED BY <1>2, <1>3, <1>5, <2>1, <2>2 DEF Inside
<1> QED BY <1>9, <1>10, <1>11, <1>12, <1>13 DEF LogInv, DirtyStep

-----------------------------------------------------------------------------
(* Each action preserves it.                                               *)

LEMMA InitKeeps == Init => StoreInv
<1> SUFFICES ASSUME Init PROVE StoreInv
  OBVIOUS
<1> USE DEF Init
<1>1. RootCommit \in GoodCommits /\ RootCommit.seq = 1 /\ AddrAfter(RootCommit) = 1
  BY RootCommitFacts
<1>2. GoodDisk(disk)
  <2> SUFFICES ASSUME NEW a \in Addr PROVE GoodBlock(disk[a], a)
    BY DEF GoodDisk
  <2>1. CASE a = 0
    <3>1. 0 \in Extent(RootCommit) /\ RootCommit.addr = 0 /\ RootCommit \in CommitType
      BY RootCommitFacts DEF GoodCommits
    <3>2. GoodBlock(BlockOf(RootCommit, 0 - 0), 0)
      BY <1>1, <3>1, BlockOfGood
    <3>3. BlockOf(RootCommit, 0) = CommitBlock(RootCommit)
      BY <3>1, BlockOfCases
    <3> QED BY <2>1, <3>2, <3>3
  <2>2. CASE a # 0
    BY <2>2 DEF NoBlock, GoodBlock
  <2> QED BY <2>1, <2>2
<1>3. TypeInv
  <2>1. Idle \in TaskState /\ NoReader \in ReaderState
    BY DEF Idle, NoReader, TaskState, ReaderState
  <2>2. task \in [Write -> TaskState] /\ reader \in ReaderState
    BY <2>1
  <2>3. 1 \in Addr /\ MaxCrashes \in Nat
    BY Bounds
  <2>4. /\ up = TRUE /\ stable = RootCommit /\ current = RootCommit /\ dirty = None
        /\ writing = {} /\ written = {} /\ nextSeq = 2 /\ nextAddr = 1 /\ dirtySeq = 0
        /\ writeTask = FALSE /\ visible = {} /\ crashes = 0
    OBVIOUS
  <2> HIDE DEF Init
  <2>5. up \in BOOLEAN /\ writeTask \in BOOLEAN
    BY <2>4
  <2>6. /\ stable \in GoodCommits /\ current \in GoodCommits /\ dirty \in GoodCommits \union {None}
        /\ writing \subseteq GoodCommits /\ written \subseteq GoodCommits
    BY <1>1, <2>4
  <2>7. /\ nextSeq \in Nat /\ nextAddr \in Addr /\ dirtySeq \in Nat
        /\ visible \subseteq Write /\ crashes \in 0 .. MaxCrashes
    BY <2>3, <2>4
  <2> QED BY <1>2, <2>2, <2>5, <2>6, <2>7 DEF TypeInv
<1>4. LogInv
  <2>1. Later = {}
    BY DEF Later
  <2>2. IsFiniteSet(Later) /\ Cardinality(Later) = 0
    BY <2>1, FS_EmptySet
  <2>3. None \notin {}
    OBVIOUS
  <2>4. Sequenced
    BY <1>1, <2>1, <2>2 DEF Sequenced
  <2>5. Distinct /\ Chained
    BY <2>1 DEF Distinct, Chained
  <2>6. Newest /\ Inside
    BY <1>1, <2>1 DEF Newest, Inside
  <2> QED BY <2>4, <2>5, <2>6 DEF LogInv
<1> QED BY <1>3, <1>4 DEF StoreInv

LEMMA PrepareKeeps ==
    ASSUME StoreInv, NEW w \in Write, Prepare(w)
    PROVE  StoreInv'
<1> USE DEF Prepare, mem
<1>1. LogInv'
  BY QuietKeepsLog DEF StoreInv, Quiet
<1>2. CurrentCommit.height \in {0, 1}
  <2>1. CurrentCommit \in CommitType
    BY Bounds DEF StoreInv, TypeInv, GoodCommits, CurrentCommit
  <2> QED BY <2>1, CommitFields
<1>3. task' \in [Write -> TaskState]
  <2> DEFINE s == [pc |-> "prepare", seq |-> dirtySeq, height |-> CurrentCommit.height, awake |-> TRUE]
  <2>1. s \in TaskState
    BY <1>2 DEF StoreInv, TypeInv, TaskState
  <2>2. task' = [task EXCEPT ![w] = s]
    OBVIOUS
  <2> HIDE DEF s
  <2> QED BY <2>1, <2>2 DEF StoreInv, TypeInv
<1> QED BY <1>1, <1>3 DEF StoreInv, TypeInv

LEMMA WaitToReserveKeeps ==
    ASSUME StoreInv, NEW w \in Write, WaitToReserve(w)
    PROVE  StoreInv'
<1>1. /\ Quiet /\ UNCHANGED <<dirtySeq, reader, visible, crashes>> /\ writeTask' = TRUE
      /\ task' = [task EXCEPT ![w].pc = "reserve", ![w].awake = FALSE]
  BY DEF WaitToReserve, Quiet
<1>2. LogInv'
  BY <1>1, QuietKeepsLog DEF StoreInv
<1>3. task' \in [Write -> TaskState]
  BY <1>1, TaskFields DEF StoreInv, TypeInv
<1> QED BY <1>1, <1>2, <1>3 DEF StoreInv, TypeInv, Quiet

LEMMA ReplyKeeps ==
    ASSUME StoreInv, NEW w \in Write, Reply(w)
    PROVE  StoreInv'
<1>1. /\ Quiet /\ UNCHANGED <<dirtySeq, reader, crashes, writeTask>>
      /\ task' = [task EXCEPT ![w].pc = "done"] /\ visible' = visible \union {w}
  BY DEF Reply, Quiet, mem
<1>2. LogInv'
  BY <1>1, QuietKeepsLog DEF StoreInv
<1>3. task' \in [Write -> TaskState]
  BY <1>1, TaskFields DEF StoreInv, TypeInv
<1> QED BY <1>1, <1>2, <1>3 DEF StoreInv, TypeInv, Quiet

\* The commit a write leaves dirty.
LEMMA ModifyDirties ==
    ASSUME StoreInv, NEW w \in Write, Modify(w)
    PROVE  /\ DirtyStep(Apply(OpenCommit, w)) /\ Applied(OpenCommit, w, Apply(OpenCommit, w))
           /\ nextAddr + 5 < DevSize
<1> DEFINE o == OpenCommit
           c == Apply(o, w)
<1>1. /\ up /\ up' = up /\ nextAddr + 5 < DevSize
      /\ dirty' = c /\ nextAddr' = AddrAfter(c)
      /\ nextSeq' = (IF dirty = None THEN nextSeq + 1 ELSE nextSeq)
      /\ UNCHANGED <<stable, current, writing, written>>
  BY DEF Modify, AtReservation
<1>2. nextAddr \in Nat /\ DevSize \in Nat
  BY Bounds DEF StoreInv, TypeInv
<1>3. /\ o \in GoodCommits /\ Precedes(current, o)
      /\ o.seq = (IF dirty = None THEN nextSeq ELSE nextSeq - 1)
      /\ AddrAfter(o) = (IF dirty = None THEN nextAddr + 1 ELSE nextAddr)
  BY <1>1, <1>2, OpenCommitFacts
<1> HIDE DEF o
<1>4. /\ o \in CommitType /\ (o.height = 0 <=> o.root = None) /\ AddrAfter(o) + 4 < DevSize
      /\ AddrAfter(o) >= nextAddr
  BY <1>1, <1>2, <1>3 DEF GoodCommits
<1>5. Applied(o, w, c)
  BY <1>4, ApplyFacts
<1> HIDE DEF c
<1>6. /\ c \in GoodCommits /\ c.seq = o.seq /\ c.addr = o.addr /\ c.hist = Append(o.hist, w)
      /\ Len(c.entries) > Len(o.entries) /\ c \in CommitType
  BY <1>5 DEF Applied, GoodCommits
<1>7. AddrAfter(c) > AddrAfter(o) /\ AddrAfter(c) \in Nat /\ AddrAfter(o) \in Nat
  <2> DEFINE n == Len(o.entries)
             l == Len(c.entries)
  <2>1. o.addr \in Nat /\ n \in Nat /\ AddrAfter(o) = o.addr + 1 + n
    BY <1>4, CommitFields
  <2>2. l \in Nat /\ AddrAfter(c) = c.addr + 1 + l
    BY <1>6, CommitFields
  <2>3. c.addr = o.addr /\ l > n
    BY <1>6
  <2> HIDE DEF n, l
  <2> QED BY <2>1, <2>2, <2>3
<1>8. Precedes(current, c)
  <2>1. current.hist \in Seq(Write) /\ o.hist \in Seq(Write) /\ c.hist \in Seq(Write)
    BY <1>4, <1>6, CommitFields DEF StoreInv, TypeInv, GoodCommits
  <2>2. IsPrefix(current.hist, o.hist)
    BY <1>3 DEF Precedes
  <2>3. IsPrefix(o.hist, c.hist)
    BY <1>6, <2>1, PrefixFacts
  <2>4. IsPrefix(current.hist, c.hist)
    BY <2>1, <2>2, <2>3, PrefixFacts
  <2> QED BY <1>3, <1>6, <2>4 DEF Precedes
<1>9. DirtyStep(c)
  BY <1>1, <1>2, <1>3, <1>4, <1>6, <1>7, <1>8 DEF DirtyStep
<1> QED BY <1>1, <1>5, <1>9 DEF o, c

LEMMA ModifyKeeps ==
    ASSUME StoreInv, NEW w \in Write, Modify(w)
    PROVE  StoreInv'
<1> DEFINE c == Apply(OpenCommit, w)
<1>1. DirtyStep(c)
  BY ModifyDirties
<1>2. /\ task' = [task EXCEPT ![w].pc = "commit", ![w].seq = c.seq]
      /\ dirtySeq' = dirtySeq + 1 /\ writeTask' = TRUE
      /\ UNCHANGED <<disk, reader, visible, crashes>>
  BY DEF Modify
<1> HIDE DEF c
<1>3. LogInv'
  BY <1>1, DirtyStepKeepsLog
<1>4. /\ c \in CommitType /\ c.seq \in Nat /\ AddrAfter(c) \in Nat /\ AddrAfter(c) < DevSize
  BY <1>1, CommitFields DEF DirtyStep, GoodCommits
<1>5. task' \in [Write -> TaskState]
  BY <1>2, <1>4, TaskFields DEF StoreInv, TypeInv
<1>6. nextAddr' \in Addr /\ nextSeq' \in Nat
  BY <1>1, <1>4, Bounds DEF DirtyStep, StoreInv, TypeInv
<1> QED BY <1>1, <1>2, <1>3, <1>5, <1>6 DEF StoreInv, TypeInv, DirtyStep

LEMMA RefuseDirties ==
    ASSUME StoreInv, NEW w \in Write, RefuseBadCrc(w)
    PROVE  DirtyStep(OpenCommit) /\ nextAddr + 5 < DevSize
<1> DEFINE o == OpenCommit
<1>1. /\ up /\ up' = up /\ nextAddr + 5 < DevSize
      /\ dirty' = o /\ nextAddr' = (IF dirty = None THEN nextAddr + 1 ELSE nextAddr)
      /\ nextSeq' = (IF dirty = None THEN nextSeq + 1 ELSE nextSeq)
      /\ UNCHANGED <<stable, current, writing, written>>
  BY DEF RefuseBadCrc, AtReservation
<1>2. nextAddr \in Nat /\ DevSize \in Nat
  BY Bounds DEF StoreInv, TypeInv
<1>3. /\ o \in GoodCommits /\ Precedes(current, o)
      /\ o.seq = (IF dirty = None THEN nextSeq ELSE nextSeq - 1)
      /\ AddrAfter(o) = (IF dirty = None THEN nextAddr + 1 ELSE nextAddr)
  BY <1>1, <1>2, OpenCommitFacts
<1> HIDE DEF o
<1>4. DirtyStep(o)
  BY <1>1, <1>2, <1>3 DEF DirtyStep
<1> QED BY <1>1, <1>4 DEF o

LEMMA RefuseBadCrcKeeps ==
    ASSUME StoreInv, NEW w \in Write, RefuseBadCrc(w)
    PROVE  StoreInv'
<1> DEFINE c == OpenCommit
<1>1. DirtyStep(c)
  BY RefuseDirties
<1>2. /\ task' = [task EXCEPT ![w].pc = "failed"]
      /\ UNCHANGED <<disk, dirtySeq, writeTask, reader, visible, crashes>>
  BY DEF RefuseBadCrc
<1> HIDE DEF c
<1>3. LogInv'
  BY <1>1, DirtyStepKeepsLog
<1>4. /\ c \in CommitType /\ c.seq \in Nat /\ AddrAfter(c) \in Nat /\ AddrAfter(c) < DevSize
  BY <1>1, CommitFields DEF DirtyStep, GoodCommits
<1>5. task' \in [Write -> TaskState]
  BY <1>2, TaskFields DEF StoreInv, TypeInv
<1>6. nextAddr' \in Addr /\ nextSeq' \in Nat
  BY <1>1, <1>4, Bounds DEF DirtyStep, StoreInv, TypeInv
<1> QED BY <1>1, <1>2, <1>3, <1>5, <1>6 DEF StoreInv, TypeInv, DirtyStep

LEMMA SubmitCommitKeeps ==
    ASSUME StoreInv, SubmitCommit
    PROVE  StoreInv'
<1>1. /\ up /\ up' = up /\ dirty # None /\ current' = dirty /\ dirty' = None
      /\ writing' = writing \union {dirty} /\ writeTask' = FALSE
      /\ UNCHANGED <<disk, stable, written, nextSeq, nextAddr, dirtySeq, task, reader, visible, crashes>>
  BY DEF SubmitCommit
<1>2. TypeInv /\ Distinct /\ Sequenced /\ Chained /\ Newest /\ Inside
  BY <1>1 DEF StoreInv, LogInv
<1>3. dirty \in GoodCommits /\ None \notin GoodCommits
  BY <1>1, <1>2, Bounds DEF TypeInv, GoodCommits
<1>4. TypeInv'
  BY <1>1, <1>2, <1>3 DEF TypeInv
<1>5. Later' = Later
  BY <1>1 DEF Later
<1>6. Distinct'
  BY <1>1, <1>2, <1>3 DEF Distinct, TypeInv
<1>7. Sequenced' /\ Chained' /\ Inside'
  BY <1>1, <1>2, <1>5 DEF Sequenced, Chained, Inside
<1>8. Newest'
  BY <1>1, <1>2 DEF Newest
<1> QED BY <1>1, <1>4, <1>6, <1>7, <1>8 DEF StoreInv, LogInv

LEMMA CompleteWriteKeeps ==
    ASSUME StoreInv, CompleteWrite
    PROVE  StoreInv'
<1>1. PICK c \in writing :
        /\ up /\ up' = up /\ disk' = Stored(c)
        /\ writing' = writing \ {c} /\ written' = written \union {c}
        /\ UNCHANGED <<stable, current, dirty, nextSeq, nextAddr, dirtySeq, writeTask, task,
                       reader, visible, crashes>>
  BY DEF CompleteWrite
<1>2. TypeInv /\ Distinct /\ Sequenced /\ Chained /\ Newest /\ Inside
  BY <1>1 DEF StoreInv, LogInv
<1>3. c \in GoodCommits
  BY <1>2 DEF TypeInv
<1>4. GoodDisk(disk')
  <2> SUFFICES ASSUME NEW a \in Addr PROVE GoodBlock(disk'[a], a)
    BY DEF GoodDisk
  <2>1. disk'[a] = IF a \in Extent(c) THEN BlockOf(c, a - c.addr) ELSE disk[a]
    BY <1>1 DEF Stored
  <2>2. GoodBlock(disk[a], a)
    BY <1>2 DEF TypeInv, GoodDisk
  <2> QED BY <1>3, <2>1, <2>2, BlockOfGood
<1>5. TypeInv'
  BY <1>1, <1>2, <1>3, <1>4 DEF TypeInv
<1>6. writing' \union written' = writing \union written /\ Later' = Later
  BY <1>1 DEF Later
<1>7. Distinct'
  BY <1>1, <1>2 DEF Distinct
<1>8. Sequenced' /\ Chained' /\ Inside'
  BY <1>1, <1>2, <1>6 DEF Sequenced, Chained, Inside
<1>9. Newest'
  BY <1>1, <1>2, <1>6 DEF Newest
<1> QED BY <1>1, <1>5, <1>7, <1>8, <1>9 DEF StoreInv, LogInv

LEMMA FinishCommitKeeps ==
    ASSUME StoreInv, FinishCommit
    PROVE  StoreInv'
<1>1. PICK c \in written :
        /\ up /\ up' = up /\ stable.seq = c.seq - 1 /\ stable' = c
        /\ written' = written \ {c}
        /\ task' = [w \in Write |-> [task[w] EXCEPT !.awake = TRUE]]
        /\ UNCHANGED <<disk, current, dirty, writing, nextSeq, nextAddr, dirtySeq, writeTask,
                       reader, visible, crashes>>
  BY DEF FinishCommit
<1>2. TypeInv /\ Distinct /\ Sequenced /\ Chained /\ Newest /\ Inside
  BY <1>1 DEF StoreInv, LogInv
<1>3. /\ c \in GoodCommits /\ c \in Later /\ c \notin writing /\ c # dirty /\ None \notin GoodCommits
      /\ nextSeq \in Nat /\ stable.seq \in Nat /\ \A b \in Later : b.seq \in Nat
  BY <1>2, CommitFields, Bounds DEF TypeInv, Distinct, Later, GoodCommits
<1>4. task' \in [Write -> TaskState]
  <2>1. \A s \in TaskState : [s EXCEPT !.awake = TRUE] \in TaskState
    BY DEF TaskState
  <2>2. \A w \in Write : task[w] \in TaskState
    BY <1>2 DEF TypeInv
  <2> QED BY <1>1, <2>1, <2>2
<1>5. TypeInv'
  BY <1>1, <1>2, <1>3, <1>4 DEF TypeInv
<1>6. Later' = Later \ {c}
  BY <1>1, <1>3 DEF Later
<1>7. Distinct'
  BY <1>1, <1>2 DEF Distinct
<1>8. Sequenced'
  <2>1. IsFiniteSet(Later) /\ Cardinality(Later) \in Nat
    BY <1>2, FS_CardinalityType DEF Sequenced
  <2>2. IsFiniteSet(Later') /\ Cardinality(Later') = Cardinality(Later) - 1
    BY <1>3, <1>6, <2>1, FS_RemoveElement
  <2>3. nextSeq' = stable'.seq + Cardinality(Later') + 1
    BY <1>1, <1>2, <1>3, <2>1, <2>2 DEF Sequenced
  <2>4. \A b \in Later' : stable'.seq < b.seq /\ b.seq < nextSeq'
    <3> SUFFICES ASSUME NEW b \in Later, b # c PROVE c.seq < b.seq /\ b.seq < nextSeq
      BY <1>1, <1>6
    <3>1. b.seq # c.seq /\ stable.seq < b.seq /\ b.seq < nextSeq
      BY <1>2, <1>3 DEF Sequenced
    <3> QED BY <1>1, <1>3, <3>1
  <2>5. \A b, d \in Later' : b.seq = d.seq => b = d
    BY <1>2, <1>6 DEF Sequenced
  <2> QED BY <2>2, <2>3, <2>4, <2>5 DEF Sequenced
<1>9. Chained'
  <2> SUFFICES ASSUME NEW b \in Later, b # c
               PROVE  \E p \in (Later \ {c}) \union {c} : Precedes(p, b)
    BY <1>1, <1>6 DEF Chained
  <2>1. PICK p \in Later \union {stable} : Precedes(p, b)
    BY <1>2 DEF Chained
  <2>2. p # stable
    <3>1. b.seq # c.seq
      BY <1>2, <1>3 DEF Sequenced
    <3> QED BY <1>1, <1>3, <2>1, <3>1 DEF Precedes
  <2> QED BY <2>1, <2>2
<1>10. Newest'
  <2>1. CASE current # stable
    BY <1>1, <1>2, <2>1 DEF Newest
  <2>2. CASE current = stable
    <3>1. c.seq < nextSeq
      BY <1>2, <1>3 DEF Sequenced
    <3>2. dirty # None
      BY <1>1, <1>2, <1>3, <2>2, <3>1 DEF Newest
    <3>3. dirty \in Later /\ dirty.seq = nextSeq - 1 /\ stable.seq = dirty.seq - 1
      BY <1>2, <1>3, <2>2, <3>2 DEF Newest, Precedes, Later
    <3>4. dirty = c
      BY <1>1, <1>2, <1>3, <3>3 DEF Sequenced
    <3> QED BY <1>3, <3>4
  <2> QED BY <2>1, <2>2
<1>11. Inside'
  BY <1>1, <1>2, <1>3, <1>6 DEF Inside
<1> QED BY <1>1, <1>5, <1>7, <1>8, <1>9, <1>10, <1>11 DEF StoreInv, LogInv

LEMMA PrepareReadKeeps ==
    ASSUME StoreInv, PrepareRead
    PROVE  StoreInv'
<1>1. PICK k \in Key :
        /\ reader' = [pc |-> "reading", seq |-> dirtySeq, key |-> k, saw |-> stable.map[k].crc]
        /\ Quiet /\ UNCHANGED <<dirtySeq, writeTask, task, visible, crashes>>
  BY DEF PrepareRead, Quiet, mem
<1>2. LogInv'
  BY <1>1, QuietKeepsLog DEF StoreInv
<1>3. reader' \in ReaderState
  <2> DEFINE m == stable.map
             s == m[k].crc
  <2>1. m \in MapType
    BY CommitFields DEF StoreInv, TypeInv, GoodCommits
  <2> HIDE DEF m
  <2>2. s \in Write \union {None}
    BY <2>1 DEF MapType
  <2> HIDE DEF s
  <2>3. dirtySeq \in Nat
    BY DEF StoreInv, TypeInv
  <2>4. reader' = [pc |-> "reading", seq |-> dirtySeq, key |-> k, saw |-> s]
    BY <1>1 DEF s, m
  <2> QED BY <2>2, <2>3, <2>4 DEF ReaderState
<1> QED BY <1>1, <1>2, <1>3 DEF StoreInv, TypeInv, Quiet

LEMMA FinishReadKeeps ==
    ASSUME StoreInv, FinishRead
    PROVE  StoreInv'
<1>1. /\ reader' = [reader EXCEPT !.pc = "done"]
      /\ visible' = visible \union ({reader.saw} \ {None})
      /\ Quiet /\ UNCHANGED <<dirtySeq, writeTask, task, crashes>>
  BY DEF FinishRead, Quiet, mem
<1>2. LogInv'
  BY <1>1, QuietKeepsLog DEF StoreInv
<1>3. reader' \in ReaderState /\ reader.saw \in Write \union {None}
  BY <1>1 DEF StoreInv, TypeInv, ReaderState
<1> QED BY <1>1, <1>2, <1>3 DEF StoreInv, TypeInv, Quiet

\* The block of a commit that is not stored yet is read from the cache.
LEMMA CachedBlock ==
    ASSUME NEW a, a \in InFlight
    PROVE  \E x \in writing \union ({dirty} \ {None}) :
             a \in Extent(x) /\ BlockAt(a) = BlockOf(x, a - x.addr)
<1> DEFINE cached == {c \in writing \union ({dirty} \ {None}) : a \in Extent(c)}
           x == CHOOSE y \in cached : TRUE
<1>1. cached # {}
  BY DEF InFlight
<1>2. x \in cached
  <2> HIDE DEF cached
  <2> QED BY <1>1
<1>3. BlockAt(a) = BlockOf(x, a - x.addr)
  BY <1>1, Zenon DEF BlockAt
<1> HIDE DEF x
<1> QED BY <1>2, <1>3

LEMMA CrashKeeps ==
    ASSUME StoreInv, Crash
    PROVE  StoreInv'
<1>1. /\ up /\ crashes < MaxCrashes /\ crashes' = crashes + 1 /\ up' = FALSE
      /\ dirty' = None /\ writing' = {} /\ written' = {} /\ writeTask' = FALSE
      /\ task' = [w \in Write |-> IF task[w].pc \in {"prepare", "reserve", "commit"}
                                  THEN [Idle EXCEPT !.pc = "lost"] ELSE task[w]]
      /\ reader' = NoReader
      /\ UNCHANGED <<stable, current, nextSeq, nextAddr, dirtySeq, visible>>
  BY DEF Crash
<1>2. TypeInv
  BY DEF StoreInv
<1>3. GoodDisk(disk')
  <2>1. PICK kept \in SUBSET InFlight :
          disk' = [a \in Addr |-> IF a \in kept THEN BlockAt(a) ELSE disk[a]]
    BY DEF Crash
  <2> SUFFICES ASSUME NEW a \in Addr PROVE GoodBlock(disk'[a], a)
    BY DEF GoodDisk
  <2>2. disk'[a] = IF a \in kept THEN BlockAt(a) ELSE disk[a]
    BY <2>1
  <2>3. CASE a \in kept
    <3>1. PICK x \in writing \union ({dirty} \ {None}) :
            a \in Extent(x) /\ BlockAt(a) = BlockOf(x, a - x.addr)
      BY <2>1, <2>3, CachedBlock
    <3>2. x \in GoodCommits
      BY <1>2 DEF TypeInv
    <3> QED BY <2>2, <2>3, <3>1, <3>2, BlockOfGood
  <2>4. CASE a \notin kept
    BY <1>2, <2>2, <2>4 DEF TypeInv, GoodDisk
  <2> QED BY <2>3, <2>4
<1>4. task' \in [Write -> TaskState] /\ reader' \in ReaderState
  <2>1. [Idle EXCEPT !.pc = "lost"] \in TaskState /\ NoReader \in ReaderState
    BY DEF Idle, NoReader, TaskState, ReaderState
  <2> DEFINE s == [Idle EXCEPT !.pc = "lost"]
  <2> HIDE DEF s
  <2>2. \A w \in Write : task[w] \in TaskState
    BY <1>2 DEF TypeInv
  <2>3. task' = [w \in Write |-> IF task[w].pc \in {"prepare", "reserve", "commit"} THEN s ELSE task[w]]
    BY <1>1 DEF s
  <2>4. s \in TaskState
    BY <2>1 DEF s
  <2> QED BY <1>1, <2>1, <2>2, <2>3, <2>4
<1>5. crashes' \in 0 .. MaxCrashes
  BY <1>1, <1>2, Bounds DEF TypeInv
<1> QED BY <1>1, <1>2, <1>3, <1>4, <1>5 DEF StoreInv, TypeInv, LogInv

LEMMA RecoverKeeps ==
    ASSUME StoreInv, Recover
    PROVE  StoreInv'
<1> DEFINE c == LoadedCommit(disk, CommitToLoad(disk))
<1>1. /\ ~up /\ up' = TRUE /\ dirtySeq' = 0
      /\ stable' = c /\ current' = c /\ nextSeq' = c.seq + 1 /\ nextAddr' = AddrAfter(c)
      /\ UNCHANGED <<disk, dirty, writing, written, writeTask, task, reader, visible, crashes>>
      /\ CommitToLoad(disk) # None
  BY DEF Recover
<1>2. TypeInv /\ dirty = None /\ writing = {} /\ written = {}
  BY <1>1 DEF StoreInv, LogInv
<1>3. c \in GoodCommits
  BY <1>1, <1>2, RecoveryLoads DEF TypeInv
<1> HIDE DEF c
<1>4. c \in CommitType /\ c.seq \in Nat /\ AddrAfter(c) \in Nat /\ AddrAfter(c) < DevSize
  BY <1>3, CommitFields DEF GoodCommits
<1>5. TypeInv'
  <2>1. nextSeq' \in Nat /\ nextAddr' \in Addr
    BY <1>1, <1>4, Bounds
  <2> QED BY <1>1, <1>2, <1>3, <2>1 DEF TypeInv
<1>6. Later' = {}
  BY <1>1, <1>2 DEF Later
<1>7. IsFiniteSet(Later') /\ Cardinality(Later') = 0
  BY <1>6, FS_EmptySet
<1>8. Distinct'
  BY <1>1, <1>2 DEF Distinct
<1>9. Sequenced'
  BY <1>1, <1>4, <1>6, <1>7 DEF Sequenced
<1>10. Chained' /\ Inside'
  BY <1>1, <1>4, <1>6 DEF Chained, Inside
<1>11. Newest'
  BY <1>1, <1>2, <1>4 DEF Newest
<1> QED BY <1>1, <1>5, <1>8, <1>9, <1>10, <1>11 DEF StoreInv, LogInv

\* Every step preserves the invariant.
LEMMA StepKeeps ==
    ASSUME StoreInv, [Next]_vars
    PROVE  StoreInv'
<1>1. CASE UNCHANGED vars
  <2>1. Quiet /\ UNCHANGED <<dirtySeq, writeTask, task, reader, visible, crashes>>
    BY <1>1 DEF vars, mem, Quiet
  <2>2. LogInv'
    BY <2>1, QuietKeepsLog DEF StoreInv
  <2> QED BY <2>1, <2>2 DEF StoreInv, TypeInv, Quiet
<1>2. CASE \E w \in Write : WriteStep(w)
  BY <1>2, PrepareKeeps, WaitToReserveKeeps, ModifyKeeps, RefuseBadCrcKeeps, ReplyKeeps DEF WriteStep
<1>3. CASE DeviceStep
  BY <1>3, SubmitCommitKeeps, CompleteWriteKeeps, FinishCommitKeeps DEF DeviceStep
<1>4. CASE PrepareRead \/ FinishRead
  BY <1>4, PrepareReadKeeps, FinishReadKeeps
<1>5. CASE Crash \/ Recover
  BY <1>5, CrashKeeps, RecoverKeeps
<1> QED BY <1>1, <1>2, <1>3, <1>4, <1>5 DEF Next

LEMMA StoreInvariant == Spec => []StoreInv
<1>1. Init => StoreInv
  BY InitKeeps
<1>2. StoreInv /\ [Next]_vars => StoreInv'
  BY StepKeeps
<1> QED BY <1>1, <1>2, PTL DEF Spec

\* Every variable of the log store stays in its domain, and a tree has a root
\* when it has a height: whatever a crash leaves of the blocks of lstore_blk_write
\* on the device, and whichever commit load_stable_commit takes from it.
THEOREM StoreTypeCorrect == Spec => []TypeOK
<1>1. StoreInv => TypeOK
  <2> SUFFICES ASSUME TypeInv PROVE TypeOK
    BY DEF StoreInv
  <2>1. stable \in CommitType /\ current \in CommitType /\ dirty \in CommitType \union {None}
        /\ writing \subseteq CommitType /\ written \subseteq CommitType
        /\ \A c \in {stable, current} : c.height = 0 <=> c.root = None
    BY DEF TypeInv, GoodCommits
  <2> QED BY <2>1 DEF TypeInv, TypeOK, TaskState, ReaderState
<1> QED BY <1>1, StoreInvariant, PTL

\* The commits opened after the stable one follow each other without a gap, in
\* their numbers, on the device and in what they contain: however many writes
\* are dirty, being written and written out of order, and after any number of
\* crashes.
THEOREM LogStaysContiguous == Spec => []LogContiguous
<1>1. StoreInv => LogContiguous
  <2> SUFFICES ASSUME StoreInv, up PROVE LogContiguous
    BY DEF LogContiguous
  <2>1. Sequenced /\ Chained /\ Inside
    BY DEF StoreInv, LogInv
  <2> QED BY <2>1 DEF LogContiguous, Sequenced, Chained, Inside, Precedes, Later
<1> QED BY <1>1, StoreInvariant, PTL

-----------------------------------------------------------------------------
(* One crash, in a log of one segment.                                     *)

\* With a second crash a block torn by the first one can be taken for another
\* commit's, and with a second segment the search can pass over a torn commit:
\* then what is loaded need not be whole.
OneCrash == MaxCrashes <= 1 /\ DevSize <= SearchOffset

\* One of the first i commits of L has block b at a.
Holds(L, i, a, b) == \E j \in 1 .. i : a \in Extent(L[j]) /\ BlockOf(L[j], a - L[j].addr) = b

Items(m) == {k \in Key : m[k] # NoItem}

\* The tree of commit i, in the blocks of the commits up to it, is what its
\* writes make it.
Readable(L, i) ==
    LET c == L[i]
    IN /\ c.height = 0 => c.map = EmptyMap
       /\ c.height # 0 => Holds(L, i, c.root, BtreeBlock(c.map))
       /\ \A k \in Key : c.map[k].crc = LastWrite(c.hist, k)
       /\ \A k \in Items(c.map) : Holds(L, i, c.map[k].addr, DataBlock(c.map[k].crc))
       /\ IsFiniteSet(Items(c.map)) /\ c.total = Cardinality(Items(c.map))
       /\ IsInjective(c.hist)

\* The commits from the first one on.
LogOf(L) ==
    /\ L \in Seq(GoodCommits) /\ Len(L) >= 1 /\ L[1] = RootCommit
    /\ \A i \in 1 .. Len(L) : L[i].seq = i /\ Readable(L, i)
    /\ \A i \in 2 .. Len(L) : Precedes(L[i - 1], L[i])

OnDisk(c) == \A a \in Extent(c) : disk[a] = BlockOf(c, a - c.addr)

\* The commits of the running store, but for the dirty one, which follows them.
RunsOn(L) ==
    /\ current.seq = Len(L) /\ current = L[Len(L)]
    /\ \A c \in writing \union written : c.seq \in 1 .. Len(L) /\ c = L[c.seq]
    /\ \A c \in written : OnDisk(c)
    /\ dirty # None => LogOf(Append(L, dirty))

\* No address holds anything but the block the log has there.
OnlyLog(L) ==
    \A a \in Addr : disk[a] = NoBlock \/ \E i \in 1 .. Len(L) :
        a \in Extent(L[i]) /\ disk[a] = BlockOf(L[i], a - L[i].addr)

\* Up to the stable commit the log is on the device; and the device holds
\* nothing else before what a crash has torn is written over.
HasLog(L) ==
    /\ LogOf(L)
    /\ stable.seq \in 1 .. Len(L) /\ stable = L[stable.seq]
    /\ \A i \in 1 .. stable.seq : OnDisk(L[i])
    /\ crashes = 0 \/ ~up => OnlyLog(L)
    /\ up \/ crashes > 0
    /\ up => RunsOn(L)

\* A write that was not made is in no commit.
Unmade(w) == task[w].pc \in {"idle", "prepare", "reserve", "failed"}

NotMade(L) == \A w \in Write : Unmade(w) =>
    /\ \A i \in 1 .. Len(L) : w \notin ToSet(L[i].hist)
    /\ dirty # None => w \notin ToSet(dirty.hist)

\* A write that waits for its commit is in that one and the later ones.
Pending == \A w \in Write : task[w].pc = "commit" =>
    /\ up /\ task[w].seq < nextSeq
    /\ \A c \in Later \union {stable} : task[w].seq <= c.seq => w \in ToSet(c.hist)

\* What was seen is stable.
Seen ==
    /\ visible \subseteq ToSet(stable.hist)
    /\ reader.pc = "reading" => up /\ reader.saw \in ToSet(stable.hist) \union {None}

\* L is the log of a store where nothing that was seen can be lost.
Logged(L) == HasLog(L) /\ NotMade(L) /\ Pending /\ Seen

CrashInv == \E L : Logged(L)

-----------------------------------------------------------------------------
(* Logs.                                                                   *)

LEMMA LogCommits ==
    ASSUME NEW L \in Seq(GoodCommits)
    PROVE  /\ Len(L) \in Nat
           /\ \A i \in 1 .. Len(L) :
                /\ L[i] \in GoodCommits /\ L[i] \in CommitType
                /\ L[i].addr \in Nat /\ AddrAfter(L[i]) \in Nat /\ L[i].addr < AddrAfter(L[i])
                /\ L[i].hist \in Seq(Write)
                /\ \A a \in Int : a \in Extent(L[i]) <=> L[i].addr <= a /\ a < AddrAfter(L[i])
<1>1. Len(L) \in Nat /\ \A i \in 1 .. Len(L) : L[i] \in GoodCommits
  OBVIOUS
<1>2. \A c \in GoodCommits : c \in CommitType
  BY DEF GoodCommits
<1> QED BY <1>1, <1>2, CommitFields

LEMMA HoldsSame ==
    ASSUME NEW L, NEW M, NEW i \in Nat, \A j \in 1 .. i : L[j] = M[j], NEW a, NEW b
    PROVE  Holds(L, i, a, b) => Holds(M, i, a, b)
BY DEF Holds

LEMMA HoldsLater ==
    ASSUME NEW L, NEW i \in Nat, NEW j \in Nat, i <= j, NEW a, NEW b
    PROVE  Holds(L, i, a, b) => Holds(L, j, a, b)
<1>1. 1 .. i \subseteq 1 .. j
  OBVIOUS
<1> QED BY <1>1 DEF Holds

LEMMA ReadableSame ==
    ASSUME NEW L, NEW M, NEW i \in Nat \ {0}, \A j \in 1 .. i : L[j] = M[j], Readable(L, i)
    PROVE  Readable(M, i)
<1>1. L[i] = M[i]
  OBVIOUS
<1>2. \A a, b : Holds(L, i, a, b) => Holds(M, i, a, b)
  BY HoldsSame
<1> QED BY <1>1, <1>2 DEF Readable

\* The commits of a log lie behind each other.
LEMMA LogOrder ==
    ASSUME NEW L, LogOf(L)
    PROVE  \A j \in 1 .. Len(L) : \A i \in 1 .. j :
             /\ i < j => AddrAfter(L[i]) <= L[j].addr
             /\ IsPrefix(L[i].hist, L[j].hist)
<1>1. L \in Seq(GoodCommits) /\ Len(L) \in Nat /\ \A i \in 2 .. Len(L) : Precedes(L[i - 1], L[i])
  BY LogCommits DEF LogOf
<1>2. \A i \in 1 .. Len(L) : /\ L[i].addr \in Nat /\ AddrAfter(L[i]) \in Nat
                             /\ L[i].addr < AddrAfter(L[i]) /\ L[i].hist \in Seq(Write)
  BY <1>1, LogCommits
<1> DEFINE Good(j) == \A i \in 1 .. j : /\ i < j => AddrAfter(L[i]) <= L[j].addr
                                        /\ IsPrefix(L[i].hist, L[j].hist)
           Bad == {j \in 1 .. Len(L) : ~Good(j)}
<1>3. Bad = {}
  <2> SUFFICES ASSUME Bad # {} PROVE FALSE
    OBVIOUS
  <2>1. PICK j \in Bad : \A i \in Bad : j <= i
    <3>1. Bad \subseteq Nat
      BY <1>1
    <3> HIDE DEF Bad
    <3> QED BY <3>1, LeastNat
  <2>2. j \in 1 .. Len(L) /\ ~Good(j)
    BY <2>1
  <2>3. CASE j = 1
    <3>1. IsPrefix(L[1].hist, L[1].hist)
      BY <1>2, <2>2, <2>3, PrefixFacts
    <3> QED BY <2>2, <2>3, <3>1
  <2>4. CASE j # 1
    <3>1. j \in 2 .. Len(L) /\ j - 1 \in 1 .. Len(L) /\ ~(j <= j - 1)
      BY <1>1, <2>2, <2>4
    <3>2. Good(j - 1)
      BY <2>1, <3>1
    <3>3. AddrAfter(L[j - 1]) = L[j].addr /\ IsPrefix(L[j - 1].hist, L[j].hist)
      <4>1. Precedes(L[j - 1], L[j])
        BY <1>1, <3>1
      <4> QED BY <4>1 DEF Precedes
    <3>4. ASSUME NEW i \in 1 .. j
          PROVE  (i < j => AddrAfter(L[i]) <= L[j].addr) /\ IsPrefix(L[i].hist, L[j].hist)
      <4>0. i \in 1 .. Len(L)
        BY <1>1, <2>2
      <4>1. CASE i = j
        BY <1>2, <4>0, <4>1, PrefixFacts
      <4>2. CASE i = j - 1
        <5>1. AddrAfter(L[i]) = L[j].addr /\ IsPrefix(L[i].hist, L[j].hist)
          BY <3>3, <4>2
        <5>2. AddrAfter(L[i]) \in Nat
          BY <1>2, <4>0
        <5> HIDE DEF Good, Bad
        <5> QED BY <5>1, <5>2
      <4>3. CASE i # j /\ i # j - 1
        <5>1. i \in 1 .. j - 1 /\ i < j - 1
          BY <2>2, <4>3
        <5>2. AddrAfter(L[i]) <= L[j - 1].addr /\ IsPrefix(L[i].hist, L[j - 1].hist)
          BY <3>2, <5>1
        <5>3. IsPrefix(L[i].hist, L[j].hist)
          BY <1>2, <2>2, <3>1, <3>3, <4>0, <5>2, PrefixFacts
        <5>4. AddrAfter(L[i]) \in Nat /\ L[j - 1].addr \in Nat /\ L[j].addr \in Nat
          BY <1>2, <2>2, <3>1, <4>0
        <5>5. L[j - 1].addr < L[j].addr
          BY <1>2, <3>1, <3>3
        <5>6. AddrAfter(L[i]) <= L[j].addr
          BY <5>2, <5>4, <5>5
        <5> QED BY <5>3, <5>6
      <4> QED BY <4>1, <4>2, <4>3
    <3> QED BY <2>2, <3>4
  <2> QED BY <2>3, <2>4
<1> QED BY <1>3

LEMMA LogDisjoint ==
    ASSUME NEW L, LogOf(L), NEW i \in 1 .. Len(L), NEW j \in 1 .. Len(L), NEW a,
           a \in Extent(L[i]), a \in Extent(L[j])
    PROVE  i = j
<1>1. L \in Seq(GoodCommits) /\ Len(L) \in Nat
  BY LogCommits DEF LogOf
<1>2. \A n \in 1 .. Len(L) : /\ L[n].addr \in Nat /\ AddrAfter(L[n]) \in Nat
                             /\ \A b \in Int : b \in Extent(L[n]) <=> L[n].addr <= b /\ b < AddrAfter(L[n])
  BY <1>1, LogCommits
<1>3. a \in Int
  BY <1>1, LogCommits, CommitFields DEF Extent
<1>4. ASSUME NEW m \in 1 .. Len(L), NEW n \in 1 .. Len(L), m < n, a \in Extent(L[m]), a \in Extent(L[n])
      PROVE  FALSE
  <2>1. m \in 1 .. n
    BY <1>4
  <2>2. AddrAfter(L[m]) <= L[n].addr
    BY <1>4, <2>1, LogOrder
  <2>3. a < AddrAfter(L[m]) /\ L[n].addr <= a
    BY <1>2, <1>3, <1>4
  <2> QED BY <1>2, <1>3, <2>2, <2>3
<1> QED BY <1>1, <1>4

\* A log goes on with a commit that follows its last one.
LEMMA LogAppend ==
    ASSUME NEW L, LogOf(L), NEW c \in GoodCommits, c.seq = Len(L) + 1,
           Precedes(L[Len(L)], c), Readable(Append(L, c), Len(L) + 1)
    PROVE  LogOf(Append(L, c))
<1> DEFINE M == Append(L, c)
           N == Len(L)
<1>1. L \in Seq(GoodCommits) /\ N \in Nat /\ N >= 1
  BY LogCommits DEF LogOf
<1>2. /\ M \in Seq(GoodCommits) /\ Len(M) = N + 1 /\ M[N + 1] = c
      /\ \A i \in 1 .. N : M[i] = L[i]
  BY <1>1, AppendFacts
<1>3. N \in 1 .. N /\ Readable(M, N + 1) /\ c.seq = N + 1 /\ Precedes(L[N], c)
  BY <1>1
<1> HIDE DEF M
<1>4. ASSUME NEW i \in 1 .. N + 1 PROVE M[i].seq = i /\ Readable(M, i)
  <2>1. CASE i = N + 1
    BY <1>2, <1>3, <2>1
  <2>2. CASE i # N + 1
    <3>1. i \in 1 .. N /\ i \in Nat \ {0} /\ \A j \in 1 .. i : L[j] = M[j]
      BY <1>1, <1>2, <2>2
    <3>2. L[i].seq = i /\ Readable(L, i)
      BY <3>1 DEF LogOf
    <3>3. Readable(M, i)
      BY <3>1, <3>2, ReadableSame
    <3> QED BY <1>2, <3>1, <3>2, <3>3
  <2> QED BY <2>1, <2>2
<1>5. ASSUME NEW i \in 2 .. N + 1 PROVE Precedes(M[i - 1], M[i])
  <2>1. CASE i = N + 1
    BY <1>1, <1>2, <1>3, <2>1
  <2>2. CASE i # N + 1
    <3>1. i \in 2 .. N /\ M[i] = L[i] /\ M[i - 1] = L[i - 1]
      BY <1>1, <1>2, <2>2
    <3> QED BY <3>1 DEF LogOf
  <2> QED BY <2>1, <2>2
<1>6. M[1] = RootCommit
  <2>1. 1 \in 1 .. N
    BY <1>1
  <2> QED BY <1>2, <2>1 DEF LogOf
<1>7. LogOf(M)
  BY <1>1, <1>2, <1>4, <1>5, <1>6 DEF LogOf
<1> QED BY <1>7 DEF M

\* The first commits of a log are one.
LEMMA LogStart ==
    ASSUME NEW L, LogOf(L), NEW n \in 1 .. Len(L)
    PROVE  /\ LogOf(SubSeq(L, 1, n)) /\ Len(SubSeq(L, 1, n)) = n
           /\ \A i \in 1 .. n : SubSeq(L, 1, n)[i] = L[i]
<1> DEFINE M == SubSeq(L, 1, n)
<1>1. L \in Seq(GoodCommits) /\ Len(L) \in Nat /\ Len(L) >= 1
  BY LogCommits DEF LogOf
<1>2. M \in Seq(GoodCommits) /\ Len(M) = n /\ \A i \in 1 .. n : M[i] = L[i]
  BY <1>1
<1> HIDE DEF M
<1>3. ASSUME NEW i \in 1 .. n PROVE M[i].seq = i /\ Readable(M, i)
  <2>1. i \in 1 .. Len(L) /\ i \in Nat \ {0} /\ \A j \in 1 .. i : L[j] = M[j]
    BY <1>1, <1>2
  <2>2. L[i].seq = i /\ Readable(L, i)
    BY <2>1 DEF LogOf
  <2>3. Readable(M, i)
    BY <2>1, <2>2, ReadableSame
  <2> QED BY <1>2, <2>2, <2>3
<1>4. ASSUME NEW i \in 2 .. n PROVE Precedes(M[i - 1], M[i])
  <2>1. i \in 2 .. Len(L) /\ M[i] = L[i] /\ M[i - 1] = L[i - 1]
    BY <1>1, <1>2
  <2> QED BY <2>1 DEF LogOf
<1>5. M[1] = RootCommit
  <2>1. 1 \in 1 .. n
    OBVIOUS
  <2> QED BY <1>2, <2>1 DEF LogOf
<1>6. LogOf(M)
  BY <1>2, <1>3, <1>4, <1>5 DEF LogOf
<1> QED BY <1>2, <1>6 DEF M

\* Where the writes of a key are, and the last of them.
WritesOf(h, k) == {i \in DOMAIN h : KeyOf[h[i]] = k}

LEMMA LastWriteFacts ==
    ASSUME NEW h \in Seq(Write), NEW k
    PROVE  /\ WritesOf(h, k) = {} => LastWrite(h, k) = None
           /\ WritesOf(h, k) # {} => \E m \in WritesOf(h, k) :
                (\A j \in WritesOf(h, k) : j <= m) /\ LastWrite(h, k) = h[m]
<1> DEFINE is == WritesOf(h, k)
           N == Len(h)
           Latest(i) == \A j \in is : j <= i
           m == CHOOSE i \in is : Latest(i)
<1>1. is \subseteq 1 .. N /\ N \in Nat
  BY DEF WritesOf
<1>2. LastWrite(h, k) = IF is = {} THEN None ELSE h[m]
  BY DEF LastWrite, WritesOf
<1>3. ASSUME is # {} PROVE \E i \in is : Latest(i)
  <2> DEFINE T == {n \in 0 .. N : N - n \in is}
  <2> HIDE DEF is
  <2>1. PICK i \in is : TRUE
    BY <1>3
  <2>2. N - i \in T
    BY <1>1, <2>1
  <2>3. T \subseteq Nat /\ T # {}
    BY <2>2
  <2> HIDE DEF T
  <2>4. PICK n \in T : \A x \in T : n <= x
    BY <2>3, LeastNat
  <2>5. n \in 0 .. N /\ N - n \in is
    BY <2>4 DEF T
  <2>6. ASSUME NEW j \in is PROVE j <= N - n
    <3>1. N - j \in T
      <4>1. j \in 1 .. N /\ N - (N - j) = j /\ N - j \in 0 .. N
        BY <1>1
      <4> QED BY <4>1 DEF T
    <3>2. n <= N - j
      BY <2>4, <3>1
    <3> QED BY <1>1, <2>5, <3>2
  <2> QED BY <2>5, <2>6
<1>4. is # {} => m \in is /\ Latest(m)
  <2> HIDE DEF is, Latest
  <2> QED BY <1>3
<1> HIDE DEF is, m, Latest
<1>5. is # {} => \E i \in is : Latest(i) /\ LastWrite(h, k) = h[i]
  BY <1>2, <1>4
<1> QED BY <1>2, <1>5 DEF is, Latest

LEMMA LastWriteIn ==
    ASSUME NEW h \in Seq(Write), NEW k
    PROVE  LastWrite(h, k) \in ToSet(h) \union {None}
<1>1. \A m \in WritesOf(h, k) : h[m] \in ToSet(h)
  BY DEF WritesOf, ToSet
<1> QED BY <1>1, LastWriteFacts

LEMMA LastWriteAppend ==
    ASSUME NEW h \in Seq(Write), NEW w \in Write, NEW k
    PROVE  LastWrite(Append(h, w), k) = IF KeyOf[w] = k THEN w ELSE LastWrite(h, k)
<1> DEFINE g == Append(h, w)
           N == Len(h)
<1>1. /\ g \in Seq(Write) /\ DOMAIN g = 1 .. N + 1 /\ DOMAIN h = 1 .. N /\ N \in Nat
      /\ (\A i \in 1 .. N : g[i] = h[i]) /\ g[N + 1] = w
  BY AppendFacts
<1> HIDE DEF g, N
<1>2. WritesOf(h, k) \subseteq 1 .. N /\ WritesOf(g, k) \subseteq 1 .. N + 1
  BY <1>1 DEF WritesOf
<1>3. \A i \in 1 .. N : i \in WritesOf(g, k) <=> i \in WritesOf(h, k)
  <2>1. 1 .. N \subseteq 1 .. N + 1
    BY <1>1
  <2> QED BY <1>1, <2>1 DEF WritesOf
<1>4. N + 1 \in WritesOf(g, k) <=> KeyOf[w] = k
  <2>1. N + 1 \in 1 .. N + 1
    BY <1>1
  <2> QED BY <1>1, <2>1 DEF WritesOf
<1>5. CASE KeyOf[w] = k
  <2>1. PICK m \in WritesOf(g, k) : (\A j \in WritesOf(g, k) : j <= m) /\ LastWrite(g, k) = g[m]
    BY <1>1, <1>4, <1>5, LastWriteFacts
  <2>2. m = N + 1
    BY <1>1, <1>2, <1>4, <1>5, <2>1
  <2> QED BY <1>1, <1>5, <2>1, <2>2 DEF g
<1>6. CASE KeyOf[w] # k
  <2>1. WritesOf(g, k) = WritesOf(h, k)
    <3>1. \A i \in 1 .. N + 1 : i \in 1 .. N \/ i = N + 1
      BY <1>1
    <3>2. 1 .. N \subseteq 1 .. N + 1
      BY <1>1
    <3> QED BY <1>2, <1>3, <1>4, <1>6, <3>1, <3>2
  <2>2. CASE WritesOf(h, k) = {}
    <3>1. LastWrite(h, k) = None /\ LastWrite(g, k) = None
      BY <1>1, <2>1, <2>2, LastWriteFacts
    <3> QED BY <1>6, <3>1 DEF g
  <2>3. CASE WritesOf(h, k) # {}
    <3>1. PICK m \in WritesOf(h, k) : (\A j \in WritesOf(h, k) : j <= m) /\ LastWrite(h, k) = h[m]
      BY <2>3, LastWriteFacts
    <3>2. PICK n \in WritesOf(g, k) : (\A j \in WritesOf(g, k) : j <= n) /\ LastWrite(g, k) = g[n]
      BY <1>1, <2>1, <2>3, LastWriteFacts
    <3>3. m \in 1 .. N /\ n \in 1 .. N /\ m <= n /\ n <= m
      BY <1>2, <2>1, <3>1, <3>2
    <3>4. m = n
      BY <1>1, <3>3
    <3> QED BY <1>1, <1>6, <3>1, <3>2, <3>3, <3>4 DEF g
  <2> QED BY <2>2, <2>3
<1> QED BY <1>5, <1>6

\* What a block says it is.
LEMMA BlockTypes ==
    /\ \A c : CommitBlock(c).type = "COMMIT"
    /\ \A w : DataBlock(w).type = "DATA" /\ DataBlock(w).crc = w
    /\ \A m : BtreeBlock(m).type = "BTREE" /\ BtreeBlock(m).map = m
    /\ \A a : SearchBlock(a).type = "SEARCH"
    /\ NoBlock.type = "NONE"
BY DEF CommitBlock, DataBlock, BtreeBlock, SearchBlock, NoBlock

\* Which entry a data block or a btree block of a commit is.
LEMMA EntryOfBlock ==
    ASSUME NEW c \in CommitType, NEW a \in Extent(c)
    PROVE  LET i == a - c.addr
           IN /\ i \in 0 .. Len(c.entries)
              /\ \A w : BlockOf(c, i) = DataBlock(w) =>
                   i \in 1 .. Len(c.entries) /\ c.entries[i].type = "DATA" /\ c.entries[i].crc = w
              /\ \A m : BlockOf(c, i) = BtreeBlock(m) =>
                   i \in 1 .. Len(c.entries) /\ c.entries[i].type = "BTREE" /\ c.map = m
<1> DEFINE i == a - c.addr
<1>1. i \in 0 .. Len(c.entries) /\ Len(c.entries) \in Nat
  BY CommitFields DEF Extent
<1> HIDE DEF i
<1>2. CASE i = 0
  <2>1. BlockOf(c, i).type = "COMMIT"
    BY <1>2, BlockOfCases, BlockTypes
  <2>2. \A w : BlockOf(c, i) # DataBlock(w)
    BY <2>1, BlockTypes
  <2>3. \A m : BlockOf(c, i) # BtreeBlock(m)
    BY <2>1, BlockTypes
  <2> QED BY <1>1, <2>2, <2>3 DEF i
<1>3. CASE i # 0
  <2>1. i \in 1 .. Len(c.entries)
    BY <1>1, <1>3
  <2>2. /\ c.entries[i].type \in {"DATA", "BTREE", "SEARCH"}
        /\ c.entries[i].type = "DATA" => BlockOf(c, i) = DataBlock(c.entries[i].crc)
        /\ c.entries[i].type = "BTREE" => BlockOf(c, i) = BtreeBlock(c.map)
        /\ c.entries[i].type = "SEARCH" => BlockOf(c, i) = SearchBlock(c.addr)
    BY <2>1, BlockOfCases
  <2>3. ASSUME NEW w, BlockOf(c, i) = DataBlock(w)
        PROVE  c.entries[i].type = "DATA" /\ c.entries[i].crc = w
    <3>1. BlockOf(c, i).type = "DATA" /\ BlockOf(c, i).crc = w
      BY <2>3, BlockTypes
    <3> QED BY <2>2, <3>1, BlockTypes
  <2>4. ASSUME NEW m, BlockOf(c, i) = BtreeBlock(m)
        PROVE  c.entries[i].type = "BTREE" /\ c.map = m
    <3>1. BlockOf(c, i).type = "BTREE" /\ BlockOf(c, i).map = m
      BY <2>4, BlockTypes
    <3> QED BY <2>2, <3>1, BlockTypes
  <2> QED BY <1>1, <2>1, <2>3, <2>4 DEF i
<1> QED BY <1>2, <1>3

\* An opened commit has the tree of the one before it.
LEMMA OpenExtends ==
    ASSUME NEW L, LogOf(L), NEW c \in GoodCommits, NEW addr,
           Opened(L[Len(L)], c, Len(L) + 1, addr), Precedes(L[Len(L)], c)
    PROVE  LogOf(Append(L, c))
<1> DEFINE M == Append(L, c)
           N == Len(L)
           p == L[N]
<1>1. L \in Seq(GoodCommits) /\ N \in Nat /\ N >= 1 /\ N \in 1 .. N
  BY LogCommits DEF LogOf
<1>2. M[N + 1] = c /\ \A i \in 1 .. N : M[i] = L[i]
  BY <1>1, AppendFacts
<1> HIDE DEF M
<1>3. Readable(L, N)
  BY <1>1 DEF LogOf
<1>4. /\ c.height = p.height /\ c.root = p.root /\ c.map = p.map /\ c.hist = p.hist
      /\ c.total = p.total /\ c.seq = N + 1
  BY DEF Opened
<1>5. \A a, b : Holds(L, N, a, b) => Holds(M, N + 1, a, b)
  <2> SUFFICES ASSUME NEW a, NEW b, Holds(L, N, a, b) PROVE Holds(M, N + 1, a, b)
    OBVIOUS
  <2>1. Holds(M, N, a, b)
    BY <1>1, <1>2, HoldsSame
  <2> QED BY <1>1, <2>1, HoldsLater
<1>6. Readable(M, N + 1)
  <2> HIDE DEF N, p
  <2>1. /\ p.height = 0 => p.map = EmptyMap
        /\ p.height # 0 => Holds(L, N, p.root, BtreeBlock(p.map))
        /\ \A k \in Key : p.map[k].crc = LastWrite(p.hist, k)
        /\ \A k \in Items(p.map) : Holds(L, N, p.map[k].addr, DataBlock(p.map[k].crc))
        /\ IsFiniteSet(Items(p.map)) /\ p.total = Cardinality(Items(p.map))
        /\ IsInjective(p.hist)
    BY <1>3 DEF Readable, p
  <2> QED BY <1>2, <1>4, <1>5, <2>1 DEF Readable
<1> QED BY <1>4, <1>6, LogAppend DEF M

\* What Apply leaves of the blocks of the commit it changes, and what it adds.
LEMMA ApplyBlocks ==
    ASSUME NEW o \in CommitType, NEW w \in Write, NEW c, Applied(o, w, c)
    PROVE  /\ \A a \in Extent(o) : \A v : BlockOf(o, a - o.addr) = DataBlock(v) =>
                a \in Extent(c) /\ BlockOf(c, a - c.addr) = DataBlock(v)
           /\ \A a \in Extent(o) : \A m : BlockOf(o, a - o.addr) = BtreeBlock(m) =>
                a \in Extent(c) /\ BlockOf(c, a - c.addr) = BtreeBlock(c.map)
           /\ \/ o.height # 0 /\ c.root = o.root
              \/ c.root \in Extent(c) /\ BlockOf(c, c.root - c.addr) = BtreeBlock(c.map)
           /\ \E a \in Extent(c) : /\ BlockOf(c, a - c.addr) = DataBlock(w)
                                   /\ c.map = [o.map EXCEPT ![KeyOf[w]] = [addr |-> a, crc |-> w]]
<1> DEFINE n == Len(o.entries)
           m == Len(c.entries)
<1>1. /\ c \in CommitType /\ c.addr = o.addr /\ m > n /\ \A i \in 1 .. n : c.entries[i] = o.entries[i]
  BY DEF Applied, GoodCommits
<1>2. o.addr \in Nat /\ n \in Nat /\ m \in Nat
  BY <1>1, CommitFields
<1>3. \A i \in 1 .. m : o.addr + i \in Extent(c) /\ (o.addr + i) - c.addr = i
  BY <1>1, <1>2 DEF Extent
<1>4. ASSUME NEW a \in Extent(o), a - o.addr \in 1 .. n
      PROVE  /\ a \in Extent(c) /\ a - c.addr = a - o.addr /\ a - c.addr \in 1 .. m
             /\ c.entries[a - c.addr] = o.entries[a - o.addr]
  BY <1>1, <1>2, <1>4 DEF Extent
<1>5. ASSUME NEW a \in Extent(o), NEW v, BlockOf(o, a - o.addr) = DataBlock(v)
      PROVE  a \in Extent(c) /\ BlockOf(c, a - c.addr) = DataBlock(v)
  <2>1. a - o.addr \in 1 .. n /\ o.entries[a - o.addr].type = "DATA" /\ o.entries[a - o.addr].crc = v
    BY <1>5, EntryOfBlock
  <2>2. a \in Extent(c) /\ a - c.addr \in 1 .. m /\ c.entries[a - c.addr] = o.entries[a - o.addr]
    BY <1>4, <2>1
  <2> QED BY <1>1, <2>1, <2>2, BlockOfCases
<1>6. ASSUME NEW a \in Extent(o), NEW v, BlockOf(o, a - o.addr) = BtreeBlock(v)
      PROVE  a \in Extent(c) /\ BlockOf(c, a - c.addr) = BtreeBlock(c.map)
  <2>1. a - o.addr \in 1 .. n /\ o.entries[a - o.addr].type = "BTREE"
    BY <1>6, EntryOfBlock
  <2>2. a \in Extent(c) /\ a - c.addr \in 1 .. m /\ c.entries[a - c.addr] = o.entries[a - o.addr]
    BY <1>4, <2>1
  <2> QED BY <1>1, <2>1, <2>2, BlockOfCases
<1>7. \/ o.height # 0 /\ c.root = o.root
      \/ c.root \in Extent(c) /\ BlockOf(c, c.root - c.addr) = BtreeBlock(c.map)
  <2>1. CASE o.height # 0 /\ c.root = o.root
    BY <2>1
  <2>2. CASE ~(o.height # 0 /\ c.root = o.root)
    <3>1. PICK i \in 1 .. m : c.root = o.addr + i /\ c.entries[i].type = "BTREE"
      BY <1>1, <2>2 DEF Applied
    <3>2. c.root \in Extent(c) /\ c.root - c.addr = i
      BY <1>3, <3>1
    <3>3. BlockOf(c, i) = BtreeBlock(c.map)
      BY <1>1, <3>1, BlockOfCases
    <3> QED BY <3>2, <3>3
  <2> QED BY <2>1, <2>2
<1>8. \E a \in Extent(c) : /\ BlockOf(c, a - c.addr) = DataBlock(w)
                           /\ c.map = [o.map EXCEPT ![KeyOf[w]] = [addr |-> a, crc |-> w]]
  <2>1. PICK i \in 1 .. m : /\ c.entries[i] = Entry("DATA", w)
                            /\ c.map = [o.map EXCEPT ![KeyOf[w]] = [addr |-> o.addr + i, crc |-> w]]
    BY <1>1 DEF Applied
  <2> DEFINE a == o.addr + i
  <2>2. a \in Extent(c) /\ a - c.addr = i
    BY <1>3
  <2>3. BlockOf(c, i) = DataBlock(w)
    <3>1. c.entries[i].type = "DATA" /\ c.entries[i].crc = w
      BY <2>1 DEF Entry
    <3> QED BY <1>1, <3>1, BlockOfCases
  <2>4. c.map = [o.map EXCEPT ![KeyOf[w]] = [addr |-> a, crc |-> w]]
    BY <2>1
  <2> HIDE DEF a
  <2> QED BY <2>2, <2>3, <2>4
<1> QED BY <1>5, <1>6, <1>7, <1>8

\* A commit of a log stays one when a write is added to it.
LEMMA ApplyExtends ==
    ASSUME NEW L, L \in Seq(GoodCommits), NEW o \in GoodCommits, LogOf(Append(L, o)), Len(L) >= 1,
           NEW w \in Write, w \notin ToSet(o.hist), NEW c, Applied(o, w, c), LogOf(L)
    PROVE  LogOf(Append(L, c))
<1> DEFINE N == Len(L)
           M == Append(L, o)
           K == Append(L, c)
           key == KeyOf[w]
<1>1. N \in Nat /\ N >= 1 /\ o \in CommitType /\ c \in GoodCommits /\ c \in CommitType /\ key \in Key
  BY LogCommits, Bounds DEF GoodCommits, Applied
<1>2. /\ M[N + 1] = o /\ Len(M) = N + 1 /\ K[N + 1] = c
      /\ \A i \in 1 .. N : M[i] = L[i] /\ K[i] = L[i]
  BY <1>1, AppendFacts
<1> HIDE DEF M, K
<1>3. o.seq = N + 1 /\ Readable(M, N + 1) /\ Precedes(L[N], o)
  <2>1. N + 1 \in 1 .. Len(M) /\ N + 1 \in 2 .. Len(M) /\ N \in 1 .. N /\ (N + 1) - 1 = N
    BY <1>1, <1>2
  <2>2. Precedes(M[(N + 1) - 1], M[N + 1])
    BY <2>1 DEF LogOf, M
  <2> QED BY <1>2, <2>1, <2>2 DEF LogOf, M
<1>4. /\ o.height # 0 => Holds(M, N + 1, o.root, BtreeBlock(o.map))
      /\ \A k \in Key : o.map[k].crc = LastWrite(o.hist, k)
      /\ \A k \in Items(o.map) : Holds(M, N + 1, o.map[k].addr, DataBlock(o.map[k].crc))
      /\ IsFiniteSet(Items(o.map)) /\ o.total = Cardinality(Items(o.map))
      /\ IsInjective(o.hist)
  BY <1>2, <1>3 DEF Readable
<1>5. /\ c.seq = o.seq /\ c.addr = o.addr /\ c.hist = Append(o.hist, w)
      /\ c.height # 0 /\ c.root \in Extent(c)
      /\ c.total = IF o.map[key] = NoItem THEN o.total + 1 ELSE o.total
  BY DEF Applied
<1>6. /\ \A a \in Extent(o) : \A v : BlockOf(o, a - o.addr) = DataBlock(v) =>
           a \in Extent(c) /\ BlockOf(c, a - c.addr) = DataBlock(v)
      /\ \A a \in Extent(o) : \A m : BlockOf(o, a - o.addr) = BtreeBlock(m) =>
           a \in Extent(c) /\ BlockOf(c, a - c.addr) = BtreeBlock(c.map)
      /\ \/ o.height # 0 /\ c.root = o.root
         \/ c.root \in Extent(c) /\ BlockOf(c, c.root - c.addr) = BtreeBlock(c.map)
  BY <1>1, ApplyBlocks
<1>7. PICK x \in Extent(c) : /\ BlockOf(c, x - c.addr) = DataBlock(w)
                             /\ c.map = [o.map EXCEPT ![key] = [addr |-> x, crc |-> w]]
  BY <1>1, ApplyBlocks
<1>8. \A i \in 1 .. N + 1 : i \in 1 .. N \/ i = N + 1
  BY <1>1
<1>9. N + 1 \in 1 .. N + 1
  BY <1>1
<1>10. \A a, v : Holds(M, N + 1, a, DataBlock(v)) => Holds(K, N + 1, a, DataBlock(v))
  <2> SUFFICES ASSUME NEW a, NEW v, Holds(M, N + 1, a, DataBlock(v))
               PROVE  Holds(K, N + 1, a, DataBlock(v))
    OBVIOUS
  <2>1. PICK j \in 1 .. N + 1 : a \in Extent(M[j]) /\ BlockOf(M[j], a - M[j].addr) = DataBlock(v)
    BY DEF Holds
  <2>2. CASE j \in 1 .. N
    <3>1. M[j] = K[j]
      BY <1>2, <2>2
    <3> QED BY <2>1, <3>1 DEF Holds
  <2>3. CASE j = N + 1
    <3>1. a \in Extent(c) /\ BlockOf(c, a - c.addr) = DataBlock(v)
      BY <1>2, <1>6, <2>1, <2>3
    <3> QED BY <1>2, <1>9, <3>1 DEF Holds
  <2> QED BY <1>8, <2>2, <2>3
<1>11. \A a, b : a \in Extent(c) /\ BlockOf(c, a - c.addr) = b => Holds(K, N + 1, a, b)
  BY <1>2, <1>9 DEF Holds
<1>12. Holds(K, N + 1, c.root, BtreeBlock(c.map))
  <2>1. CASE o.height # 0 /\ c.root = o.root
    <3>1. PICK j \in 1 .. N + 1 : /\ o.root \in Extent(M[j])
                                  /\ BlockOf(M[j], o.root - M[j].addr) = BtreeBlock(o.map)
      BY <1>4, <2>1 DEF Holds
    <3>2. j = N + 1
      <4> SUFFICES ASSUME j # N + 1 PROVE FALSE
        OBVIOUS
      <4>1. j \in 1 .. N + 1 /\ N + 1 \in 1 .. Len(M) /\ j < N + 1 /\ j \in 1 .. N
        BY <1>1, <1>2, <1>8
      <4>2. AddrAfter(M[j]) <= M[N + 1].addr
        BY <4>1, LogOrder DEF M
      <4>3. M[j] \in CommitType
        <5>1. M[j] \in GoodCommits
          BY <1>1, <1>2, <4>1
        <5> QED BY <5>1 DEF GoodCommits
      <4>4. /\ AddrAfter(M[j]) \in Nat /\ c.addr \in Nat /\ M[j].addr \in Nat
            /\ \A a \in Int : a \in Extent(M[j]) <=> M[j].addr <= a /\ a < AddrAfter(M[j])
            /\ \A a \in Int : a \in Extent(c) <=> c.addr <= a /\ a < AddrAfter(c)
        BY <1>1, <4>3, CommitFields
      <4>5. c.root \in Int
        BY <1>1, <1>5, CommitFields DEF Extent
      <4>6. c.addr <= c.root /\ c.root < AddrAfter(M[j])
        BY <1>5, <2>1, <3>1, <4>4, <4>5
      <4> QED BY <1>2, <1>5, <4>2, <4>4, <4>5, <4>6
    <3>3. c.root \in Extent(c) /\ BlockOf(c, c.root - c.addr) = BtreeBlock(c.map)
      BY <1>2, <1>6, <2>1, <3>1, <3>2
    <3> QED BY <1>11, <3>3
  <2>2. CASE c.root \in Extent(c) /\ BlockOf(c, c.root - c.addr) = BtreeBlock(c.map)
    BY <1>11, <2>2
  <2> QED BY <1>6, <2>1, <2>2
<1>13. o.map \in MapType /\ o.hist \in Seq(Write) /\ w # None
  BY <1>1, CommitFields, Bounds
<1>14. /\ c.map[key].addr = x /\ c.map[key].crc = w /\ c.map[key] # NoItem
       /\ \A k \in Key : k # key => c.map[k] = o.map[k]
  BY <1>1, <1>7, <1>13 DEF MapType, NoItem
<1>15. \A k \in Key : c.map[k].crc = LastWrite(c.hist, k)
  <2> SUFFICES ASSUME NEW k \in Key PROVE c.map[k].crc = LastWrite(c.hist, k)
    OBVIOUS
  <2>1. LastWrite(c.hist, k) = IF key = k THEN w ELSE LastWrite(o.hist, k)
    BY <1>5, <1>13, LastWriteAppend
  <2> QED BY <1>4, <1>14, <2>1
<1>16. Items(c.map) = Items(o.map) \union {key}
  BY <1>1, <1>14 DEF Items
<1>17. IsFiniteSet(Items(c.map)) /\ c.total = Cardinality(Items(c.map))
  <2>1. key \in Items(o.map) <=> o.map[key] # NoItem
    BY <1>1 DEF Items
  <2> DEFINE S == Items(o.map)
             T == Items(c.map)
             B == o.map[key] = NoItem
  <2>2. /\ IsFiniteSet(S) /\ o.total = Cardinality(S) /\ T = S \union {key} /\ (key \in S <=> ~B)
        /\ c.total = IF B THEN o.total + 1 ELSE o.total
    BY <1>4, <1>5, <1>16, <2>1
  <2> HIDE DEF S, T, B
  <2>3. /\ IsFiniteSet(S \union {key})
        /\ Cardinality(S \union {key}) = IF key \in S THEN Cardinality(S) ELSE Cardinality(S) + 1
    BY <2>2, FS_AddElement
  <2>4. IsFiniteSet(T) /\ c.total = Cardinality(T)
    <3>1. CASE B
      BY <2>2, <2>3, <3>1
    <3>2. CASE ~B
      BY <2>2, <2>3, <3>2
    <3> QED BY <3>1, <3>2
  <2> QED BY <2>4 DEF T
<1>18. ASSUME NEW k \in Items(c.map) PROVE Holds(K, N + 1, c.map[k].addr, DataBlock(c.map[k].crc))
  <2>1. CASE k = key
    BY <1>7, <1>11, <1>14, <2>1
  <2>2. CASE k # key
    <3>1. k \in Items(o.map) /\ k \in Key
      BY <1>16, <2>2 DEF Items
    <3> QED BY <1>4, <1>10, <1>14, <2>2, <3>1
  <2> QED BY <2>1, <2>2
<1>19. IsInjective(c.hist)
  BY <1>4, <1>5, <1>13, AppendElements
<1>20. Readable(K, N + 1)
  BY <1>2, <1>5, <1>12, <1>15, <1>17, <1>18, <1>19 DEF Readable
<1>21. Precedes(L[N], c)
  <2>1. IsPrefix(o.hist, c.hist) /\ c.hist \in Seq(Write)
    BY <1>5, <1>13, PrefixFacts
  <2>2. L[N].hist \in Seq(Write)
    <3>1. N \in 1 .. N
      BY <1>1
    <3> QED BY <3>1, LogCommits
  <2>3. IsPrefix(L[N].hist, o.hist)
    BY <1>3 DEF Precedes
  <2>4. IsPrefix(L[N].hist, c.hist)
    BY <1>13, <2>1, <2>2, <2>3, PrefixFacts
  <2> QED BY <1>3, <1>5, <2>4 DEF Precedes
<1>22. c.seq = N + 1
  BY <1>3, <1>5
<1> QED BY <1>1, <1>20, <1>21, <1>22, LogAppend DEF K

\* The commits that a running store knows are those of its log.
LEMMA CommitsOfLog ==
    ASSUME StoreInv, up, NEW L, HasLog(L)
    PROVE  /\ L \in Seq(GoodCommits) /\ Len(L) \in Nat /\ Len(L) >= 1 /\ Len(L) \in 1 .. Len(L)
           /\ LogOf(L) /\ current = L[Len(L)] /\ current.seq = Len(L)
           /\ dirty = None => nextSeq = Len(L) + 1
           /\ dirty # None => nextSeq = Len(L) + 2 /\ dirty.seq = Len(L) + 1
           /\ \A c \in writing \union written \union {stable} :
                c.seq \in 1 .. Len(L) /\ c = L[c.seq] /\ c.seq <= current.seq
<1>1. LogOf(L) /\ RunsOn(L) /\ stable.seq \in 1 .. Len(L) /\ stable = L[stable.seq]
  BY DEF HasLog
<1>2. L \in Seq(GoodCommits) /\ Len(L) \in Nat /\ Len(L) >= 1
  BY <1>1, LogCommits DEF LogOf
<1>3. nextSeq \in Nat /\ Newest /\ (dirty # None => dirty.seq \in Nat)
  BY CommitFields DEF StoreInv, LogInv, TypeInv, GoodCommits
<1>4. current = L[Len(L)] /\ current.seq = Len(L)
  BY <1>1 DEF RunsOn
<1>5. /\ dirty = None => nextSeq = Len(L) + 1
      /\ dirty # None => nextSeq = Len(L) + 2 /\ dirty.seq = Len(L) + 1
  BY <1>2, <1>3, <1>4 DEF Newest, Precedes
<1>6. \A c \in writing \union written : c.seq \in 1 .. Len(L) /\ c = L[c.seq]
  BY <1>1 DEF RunsOn
<1>7. \A n \in 1 .. Len(L) : n <= Len(L)
  BY <1>2
<1> QED BY <1>1, <1>2, <1>4, <1>5, <1>6, <1>7

\* The log goes on with the commit a write finds or opens.
LEMMA OpenInLog ==
    ASSUME StoreInv, up, nextAddr + 1 < DevSize, NEW L, HasLog(L)
    PROVE  LogOf(Append(L, OpenCommit))
<1>1. /\ OpenCommit \in GoodCommits /\ Precedes(current, OpenCommit)
      /\ dirty = None => Opened(current, OpenCommit, nextSeq, nextAddr)
      /\ dirty # None => OpenCommit = dirty
  BY OpenCommitFacts
<1>2. LogOf(L) /\ current = L[Len(L)] /\ (dirty = None => nextSeq = Len(L) + 1)
  BY CommitsOfLog
<1>3. CASE dirty = None
  BY <1>1, <1>2, <1>3, OpenExtends
<1>4. CASE dirty # None
  BY <1>1, <1>4 DEF HasLog, RunsOn
<1> QED BY <1>3, <1>4

\* What steps that leave the store alone keep.
LEMMA QuietKeepsHasLog ==
    ASSUME NEW L, HasLog(L), Quiet, crashes' = crashes
    PROVE  HasLog(L)'
<1>1. \A c : OnDisk(c)' <=> OnDisk(c)
  BY DEF OnDisk, Quiet
<1>2. OnlyLog(L)' <=> OnlyLog(L)
  BY DEF OnlyLog, Quiet
<1>3. RunsOn(L)' <=> RunsOn(L)
  BY <1>1 DEF RunsOn, Quiet
<1> QED BY <1>1, <1>2, <1>3 DEF HasLog, Quiet

\* The log of a store whose dirty commit is opened or changed.
LEMMA DirtyKeepsHasLog ==
    ASSUME NEW L, HasLog(L), NEW c, DirtyStep(c), LogOf(Append(L, c)), UNCHANGED <<disk, crashes>>
    PROVE  HasLog(L)'
<1>1. \A d : OnDisk(d)' <=> OnDisk(d)
  BY DEF OnDisk
<1>2. OnlyLog(L)' <=> OnlyLog(L)
  BY DEF OnlyLog
<1>3. up /\ up' /\ dirty' = c /\ UNCHANGED <<stable, current, writing, written>>
  BY DEF DirtyStep
<1>4. RunsOn(L)'
  BY <1>1, <1>3 DEF HasLog, RunsOn
<1> QED BY <1>1, <1>2, <1>3, <1>4 DEF HasLog

\* A waiting write stays in the commits it waits for.
LEMMA DirtyKeepsPending ==
    ASSUME StoreInv, NEW L, HasLog(L), Pending, NEW c, DirtyStep(c), nextAddr + 1 < DevSize,
           IsPrefix(OpenCommit.hist, c.hist), NEW w \in Write, task[w].pc = "commit",
           task'[w] = task[w]
    PROVE  /\ up' /\ task'[w].seq < nextSeq'
           /\ \A b \in (Later \union {stable})' : task'[w].seq <= b.seq => w \in ToSet(b.hist)
<1>1. /\ up /\ up' /\ dirty' = c /\ c \in GoodCommits
      /\ c.seq = (IF dirty = None THEN nextSeq ELSE nextSeq - 1)
      /\ nextSeq' = (IF dirty = None THEN nextSeq + 1 ELSE nextSeq)
      /\ UNCHANGED <<stable, current, writing, written>>
  BY DEF DirtyStep
<1>2. /\ OpenCommit \in GoodCommits
      /\ dirty = None => Opened(current, OpenCommit, nextSeq, nextAddr)
      /\ dirty # None => OpenCommit = dirty
  BY <1>1, OpenCommitFacts
<1>3. /\ task[w].seq < nextSeq
      /\ \A b \in Later \union {stable} : task[w].seq <= b.seq => w \in ToSet(b.hist)
  BY DEF Pending
<1>4. nextSeq \in Nat /\ task[w].seq \in Nat
  BY DEF StoreInv, TypeInv, TaskState
<1>5. task'[w].seq < nextSeq'
  BY <1>1, <1>3, <1>4
<1>6. OpenCommit.hist \in Seq(Write) /\ c.hist \in Seq(Write)
  BY <1>1, <1>2, CommitFields DEF GoodCommits
<1>7. task[w].seq <= c.seq => w \in ToSet(c.hist)
  <2> SUFFICES ASSUME task[w].seq <= c.seq PROVE w \in ToSet(OpenCommit.hist)
    BY <1>6, PrefixFacts
  <2>1. CASE dirty # None
    <3>1. dirty \in Later /\ dirty.seq = nextSeq - 1
      BY <1>1, <2>1 DEF Later, StoreInv, LogInv, Newest
    <3> QED BY <1>1, <1>2, <1>3, <2>1, <3>1
  <2>2. CASE dirty = None
    <3>1. current \in Later \union {stable} /\ current.seq = nextSeq - 1
      BY <1>1, <2>2 DEF Later, StoreInv, LogInv, Newest
    <3>2. task[w].seq <= current.seq
      BY <1>3, <1>4, <3>1
    <3>3. OpenCommit.hist = current.hist
      BY <1>2, <2>2 DEF Opened
    <3> QED BY <1>3, <3>1, <3>2, <3>3
  <2> QED BY <2>1, <2>2
<1>8. \A b \in (Later \union {stable})' : b = c \/ b \in Later \union {stable}
  BY <1>1 DEF Later
<1> QED BY <1>1, <1>3, <1>5, <1>7, <1>8

-----------------------------------------------------------------------------
(* The steps of the writes and of the reader.                              *)

\* One task moves and does not come to wait for a commit.
LEMMA TaskKeepsLogged ==
    ASSUME StoreInv, NEW L, Logged(L), Quiet, crashes' = crashes,
           NEW w \in Write, \A v \in Write \ {w} : task'[v] = task[v],
           task'[w].pc # "commit", Unmade(w)' => Unmade(w)
    PROVE  HasLog(L)' /\ NotMade(L)' /\ Pending'
<1>1. HasLog(L)'
  BY QuietKeepsHasLog DEF Logged
<1>2. \A v \in Write : Unmade(v)' => Unmade(v)
  BY DEF Unmade
<1>3. NotMade(L)'
  BY <1>2 DEF Logged, NotMade, Quiet
<1>4. Later' = Later
  BY DEF Later, Quiet
<1>5. Pending'
  BY <1>4 DEF Logged, Pending, Quiet
<1> QED BY <1>1, <1>3, <1>5

LEMMA PrepareLogged ==
    ASSUME StoreInv, NEW L, Logged(L), NEW w \in Write, Prepare(w)
    PROVE  Logged(L)'
<1>1. /\ Quiet /\ UNCHANGED <<crashes, reader, visible>>
      /\ task[w].pc \in {"idle", "prepare"}
      /\ task' = [task EXCEPT ![w] = [pc |-> "prepare", seq |-> dirtySeq,
                                      height |-> CurrentCommit.height, awake |-> TRUE]]
  BY DEF Prepare, Quiet, mem
<1>2. task \in [Write -> TaskState]
  BY DEF StoreInv, TypeInv
<1>3. task'[w].pc = "prepare" /\ \A v \in Write \ {w} : task'[v] = task[v]
  BY <1>1, <1>2
<1>4. Unmade(w)
  BY <1>1 DEF Unmade
<1>5. HasLog(L)' /\ NotMade(L)' /\ Pending'
  BY <1>1, <1>3, <1>4, TaskKeepsLogged
<1>6. Seen'
  BY <1>1 DEF Logged, Seen, Quiet
<1> QED BY <1>5, <1>6 DEF Logged

LEMMA WaitToReserveLogged ==
    ASSUME StoreInv, NEW L, Logged(L), NEW w \in Write, WaitToReserve(w)
    PROVE  Logged(L)'
<1>1. /\ Quiet /\ UNCHANGED <<crashes, reader, visible>>
      /\ task[w].pc \in {"prepare", "reserve"}
      /\ task' = [task EXCEPT ![w].pc = "reserve", ![w].awake = FALSE]
  BY DEF WaitToReserve, AtReservation, Quiet
<1>2. task \in [Write -> TaskState] /\ task[w] \in TaskState
  BY DEF StoreInv, TypeInv
<1>3. task'[w].pc = "reserve" /\ \A v \in Write \ {w} : task'[v] = task[v]
  BY <1>1, <1>2 DEF TaskState
<1>4. Unmade(w)
  BY <1>1 DEF Unmade
<1>5. HasLog(L)' /\ NotMade(L)' /\ Pending'
  BY <1>1, <1>3, <1>4, TaskKeepsLogged
<1>6. Seen'
  BY <1>1 DEF Logged, Seen, Quiet
<1> QED BY <1>5, <1>6 DEF Logged

LEMMA ReplyLogged ==
    ASSUME StoreInv, NEW L, Logged(L), NEW w \in Write, Reply(w)
    PROVE  Logged(L)' /\ w \in ToSet(stable.hist)
<1>1. /\ Quiet /\ UNCHANGED <<crashes, reader>> /\ visible' = visible \union {w}
      /\ task[w].pc = "commit" /\ stable.seq >= task[w].seq
      /\ task' = [task EXCEPT ![w].pc = "done"]
  BY DEF Reply, Finished, Quiet, mem
<1>2. task \in [Write -> TaskState] /\ task[w] \in TaskState /\ task[w].seq \in Nat
  BY DEF StoreInv, TypeInv, TaskState
<1>3. task'[w].pc = "done" /\ \A v \in Write \ {w} : task'[v] = task[v]
  BY <1>1, <1>2 DEF TaskState
<1>4. ~Unmade(w)'
  BY <1>3 DEF Unmade
<1>5. HasLog(L)' /\ NotMade(L)' /\ Pending'
  BY <1>1, <1>3, <1>4, TaskKeepsLogged
<1>6. w \in ToSet(stable.hist)
  <2>1. stable.seq \in Nat
    BY CommitFields DEF StoreInv, TypeInv, GoodCommits
  <2>2. task[w].seq <= stable.seq
    BY <1>1, <1>2, <2>1
  <2> QED BY <1>1, <2>2 DEF Logged, Pending
<1>7. Seen'
  BY <1>1, <1>6 DEF Logged, Seen, Quiet
<1> QED BY <1>5, <1>6, <1>7 DEF Logged

LEMMA ModifyLogged ==
    ASSUME StoreInv, StoreInv', NEW L, Logged(L), NEW w \in Write, Modify(w)
    PROVE  Logged(L)'
<1> DEFINE o == OpenCommit
           c == Apply(o, w)
           N == Len(L)
<1>1. /\ up /\ UNCHANGED <<disk, crashes, reader, visible>>
      /\ task[w].pc \in {"prepare", "reserve"} /\ dirty' = c
      /\ task' = [task EXCEPT ![w].pc = "commit", ![w].seq = c.seq]
  BY DEF Modify, AtReservation
<1>2. DirtyStep(c) /\ Applied(o, w, c) /\ nextAddr + 5 < DevSize
  BY ModifyDirties
<1>3. nextAddr + 1 < DevSize
  BY <1>2, Bounds DEF StoreInv, TypeInv
<1>4. /\ o \in GoodCommits
      /\ dirty = None => Opened(current, o, nextSeq, nextAddr)
      /\ dirty # None => o = dirty
  BY <1>1, <1>3, OpenCommitFacts
<1>5. LogOf(L) /\ LogOf(Append(L, o)) /\ HasLog(L) /\ L \in Seq(GoodCommits) /\ N >= 1 /\ N \in 1 .. N
      /\ current = L[N]
  BY <1>1, <1>3, OpenInLog, CommitsOfLog DEF Logged
<1>6. \A v \in Write : Unmade(v) => v \notin ToSet(o.hist)
  <2> SUFFICES ASSUME NEW v \in Write, Unmade(v) PROVE v \notin ToSet(o.hist)
    OBVIOUS
  <2>1. CASE dirty = None
    <3>1. o.hist = current.hist
      BY <1>4, <2>1 DEF Opened
    <3> QED BY <1>5, <3>1 DEF Logged, NotMade
  <2>2. CASE dirty # None
    BY <1>4, <2>2 DEF Logged, NotMade
  <2> QED BY <2>1, <2>2
<1>7. Unmade(w)
  BY <1>1 DEF Unmade
<1> HIDE DEF o, c
<1>8. LogOf(Append(L, c))
  BY <1>2, <1>4, <1>5, <1>6, <1>7, ApplyExtends
<1>9. HasLog(L)'
  BY <1>1, <1>2, <1>5, <1>8, DirtyKeepsHasLog
<1>10. task \in [Write -> TaskState] /\ task[w] \in TaskState
  BY DEF StoreInv, TypeInv
<1>11. /\ task'[w].pc = "commit" /\ task'[w].seq = c.seq
       /\ \A v \in Write \ {w} : task'[v] = task[v]
  BY <1>1, <1>10 DEF TaskState
<1>12. c.hist = Append(o.hist, w) /\ o.hist \in Seq(Write) /\ c \in CommitType
  BY <1>2, <1>4, CommitFields DEF Applied, GoodCommits
<1>13. ToSet(c.hist) = ToSet(o.hist) \union {w} /\ IsPrefix(o.hist, c.hist)
  BY <1>12, AppendElements, PrefixFacts
<1>14. NotMade(L)'
  <2> SUFFICES ASSUME NEW v \in Write, Unmade(v)'
               PROVE  (\A i \in 1 .. N : v \notin ToSet(L[i].hist)) /\ v \notin ToSet(c.hist)
    BY <1>1 DEF NotMade
  <2>1. v # w
    BY <1>11 DEF Unmade
  <2>2. Unmade(v)
    BY <1>11, <2>1 DEF Unmade
  <2> QED BY <1>6, <1>13, <2>1, <2>2 DEF Logged, NotMade
<1>15. up' /\ c.seq < nextSeq' /\ c.seq = nextSeq' - 1 /\ dirty' = c /\ c \in Later' /\ dirty' # None
  <2>1. nextSeq \in Nat
    BY DEF StoreInv, TypeInv
  <2>2. dirty' = c /\ up' /\ c # None
    BY <1>1, <1>2, <1>12, Bounds DEF DirtyStep
  <2> QED BY <1>2, <2>1, <2>2 DEF DirtyStep, Later
<1>16. \A b \in (Later \union {stable})' : c.seq <= b.seq => b = c
  <2>1. /\ Sequenced' /\ nextSeq' \in Nat /\ \A b \in (Later \union {stable})' : b.seq \in Nat
    <3>1. (Later \union {stable})' \subseteq CommitType
      BY DEF StoreInv, TypeInv, GoodCommits, Later
    <3> QED BY <1>15, <3>1, CommitFields DEF StoreInv, LogInv, TypeInv
  <2>2. c.seq \in Nat
    BY <1>12, CommitFields
  <2> SUFFICES ASSUME NEW b \in (Later \union {stable})', c.seq <= b.seq PROVE b = c
    OBVIOUS
  <2>3. CASE b \in Later'
    <3>1. b.seq < nextSeq'
      BY <2>1, <2>3 DEF Sequenced
    <3>2. b.seq = c.seq
      BY <1>15, <2>1, <2>2, <3>1
    <3> QED BY <1>15, <2>1, <2>3, <3>2 DEF Sequenced
  <2>4. CASE b = stable'
    <3>1. b.seq < c.seq
      BY <1>15, <2>1, <2>4 DEF Sequenced
    <3> QED BY <2>1, <2>2, <3>1
  <2> QED BY <2>3, <2>4
<1>17. Pending'
  <2> SUFFICES ASSUME NEW v \in Write, task'[v].pc = "commit"
               PROVE  /\ up' /\ task'[v].seq < nextSeq'
                      /\ \A b \in (Later \union {stable})' : task'[v].seq <= b.seq => v \in ToSet(b.hist)
    BY DEF Pending
  <2>1. CASE v = w
    BY <1>11, <1>13, <1>15, <1>16, <2>1
  <2>2. CASE v # w
    <3>1. task'[v] = task[v] /\ task[v].pc = "commit"
      BY <1>11, <2>2
    <3>2. IsPrefix(OpenCommit.hist, c.hist)
      BY <1>13 DEF o
    <3> QED BY <1>2, <1>3, <1>5, <3>1, <3>2, DirtyKeepsPending DEF Logged
  <2> QED BY <2>1, <2>2
<1>18. Seen'
  BY <1>1, <1>2 DEF Logged, Seen, DirtyStep
<1> QED BY <1>9, <1>14, <1>17, <1>18 DEF Logged

LEMMA RefuseBadCrcLogged ==
    ASSUME StoreInv, NEW L, Logged(L), NEW w \in Write, RefuseBadCrc(w)
    PROVE  Logged(L)'
<1> DEFINE c == OpenCommit
           N == Len(L)
<1>1. /\ up /\ UNCHANGED <<disk, crashes, reader, visible>>
      /\ task[w].pc \in {"prepare", "reserve"} /\ dirty' = c
      /\ task' = [task EXCEPT ![w].pc = "failed"] /\ nextAddr + 5 < DevSize
  BY DEF RefuseBadCrc, AtReservation
<1>2. DirtyStep(c)
  BY RefuseDirties
<1>3. nextAddr + 1 < DevSize
  BY <1>1, Bounds DEF StoreInv, TypeInv
<1>4. /\ c \in GoodCommits
      /\ dirty = None => Opened(current, c, nextSeq, nextAddr)
      /\ dirty # None => c = dirty
  BY <1>1, <1>3, OpenCommitFacts
<1>5. LogOf(Append(L, c)) /\ HasLog(L) /\ N \in 1 .. N /\ current = L[N]
  BY <1>1, <1>3, OpenInLog, CommitsOfLog DEF Logged
<1>6. \A v \in Write : Unmade(v) => v \notin ToSet(c.hist)
  <2> SUFFICES ASSUME NEW v \in Write, Unmade(v) PROVE v \notin ToSet(c.hist)
    OBVIOUS
  <2>1. CASE dirty = None
    <3>1. c.hist = current.hist
      BY <1>4, <2>1 DEF Opened
    <3> QED BY <1>5, <3>1 DEF Logged, NotMade
  <2>2. CASE dirty # None
    BY <1>4, <2>2 DEF Logged, NotMade
  <2> QED BY <2>1, <2>2
<1>7. IsPrefix(OpenCommit.hist, c.hist)
  BY <1>4, CommitFields, PrefixFacts DEF GoodCommits
<1>8. Unmade(w)
  BY <1>1 DEF Unmade
<1> HIDE DEF c
<1>9. HasLog(L)'
  BY <1>1, <1>2, <1>5, DirtyKeepsHasLog
<1>10. task \in [Write -> TaskState] /\ task[w] \in TaskState
  BY DEF StoreInv, TypeInv
<1>11. task'[w].pc = "failed" /\ \A v \in Write \ {w} : task'[v] = task[v]
  BY <1>1, <1>10 DEF TaskState
<1>12. \A v \in Write : Unmade(v)' => Unmade(v)
  BY <1>8, <1>11 DEF Unmade
<1>13. NotMade(L)'
  BY <1>1, <1>6, <1>12 DEF Logged, NotMade
<1>14. Pending'
  <2> SUFFICES ASSUME NEW v \in Write, task'[v].pc = "commit"
               PROVE  /\ up' /\ task'[v].seq < nextSeq'
                      /\ \A b \in (Later \union {stable})' : task'[v].seq <= b.seq => v \in ToSet(b.hist)
    BY DEF Pending
  <2>1. task'[v] = task[v] /\ task[v].pc = "commit"
    BY <1>11
  <2> QED BY <1>2, <1>3, <1>5, <1>7, <2>1, DirtyKeepsPending DEF Logged
<1>15. Seen'
  BY <1>1, <1>2 DEF Logged, Seen, DirtyStep
<1> QED BY <1>9, <1>13, <1>14, <1>15 DEF Logged

LEMMA PrepareReadLogged ==
    ASSUME StoreInv, NEW L, Logged(L), PrepareRead
    PROVE  Logged(L)'
<1>1. PICK k \in Key :
        /\ up /\ Quiet /\ UNCHANGED <<task, visible, crashes>>
        /\ reader' = [pc |-> "reading", seq |-> dirtySeq, key |-> k, saw |-> stable.map[k].crc]
  BY DEF PrepareRead, Quiet, mem
<1>2. HasLog(L)'
  BY <1>1, QuietKeepsHasLog DEF Logged
<1>3. NotMade(L)' /\ Pending'
  <2>1. \A v \in Write : Unmade(v)' <=> Unmade(v)
    BY <1>1 DEF Unmade
  <2>2. Later' = Later
    BY <1>1 DEF Later, Quiet
  <2> QED BY <1>1, <2>1, <2>2 DEF Logged, NotMade, Pending, Quiet
<1>4. stable.map[k].crc \in ToSet(stable.hist) \union {None}
  <2>1. LogOf(L) /\ stable.seq \in 1 .. Len(L) /\ stable = L[stable.seq]
    BY DEF Logged, HasLog
  <2>2. Readable(L, stable.seq)
    BY <2>1 DEF LogOf
  <2>3. stable.map[k].crc = LastWrite(stable.hist, k)
    BY <2>1, <2>2 DEF Readable
  <2>4. stable.hist \in Seq(Write)
    BY CommitFields DEF StoreInv, TypeInv, GoodCommits
  <2> QED BY <2>3, <2>4, LastWriteIn
<1>5. reader'.saw = stable.map[k].crc
  BY <1>1
<1>6. Seen'
  BY <1>1, <1>4, <1>5 DEF Logged, Seen, Quiet
<1> QED BY <1>2, <1>3, <1>6 DEF Logged

LEMMA FinishReadLogged ==
    ASSUME StoreInv, NEW L, Logged(L), FinishRead
    PROVE  Logged(L)' /\ (visible' = visible \/ (reader.saw \in ToSet(stable.hist)
                                                 /\ visible' = visible \union {reader.saw}))
<1>1. /\ Quiet /\ UNCHANGED <<task, crashes>> /\ reader.pc = "reading"
      /\ reader' = [reader EXCEPT !.pc = "done"]
      /\ visible' = visible \union ({reader.saw} \ {None})
  BY DEF FinishRead, Quiet, mem
<1>2. HasLog(L)'
  BY <1>1, QuietKeepsHasLog DEF Logged
<1>3. NotMade(L)' /\ Pending'
  <2>1. \A v \in Write : Unmade(v)' <=> Unmade(v)
    BY <1>1 DEF Unmade
  <2>2. Later' = Later
    BY <1>1 DEF Later, Quiet
  <2> QED BY <1>1, <2>1, <2>2 DEF Logged, NotMade, Pending, Quiet
<1>4. reader.saw \in ToSet(stable.hist) \union {None} /\ visible \subseteq ToSet(stable.hist)
  BY <1>1 DEF Logged, Seen
<1>5. reader'.pc = "done"
  BY <1>1 DEF StoreInv, TypeInv, ReaderState
<1>6. Seen'
  BY <1>1, <1>4, <1>5 DEF Seen, Quiet
<1>7. visible' = visible \/ (reader.saw \in ToSet(stable.hist) /\ visible' = visible \union {reader.saw})
  <2>1. CASE reader.saw = None
    BY <1>1, <2>1
  <2>2. CASE reader.saw # None
    BY <1>1, <1>4, <2>2
  <2> QED BY <2>1, <2>2
<1> QED BY <1>2, <1>3, <1>6, <1>7 DEF Logged

-----------------------------------------------------------------------------
(* The steps of the device.                                                *)

\* The commit that is submitted is the next of the log.
LEMMA SubmitCommitLogged ==
    ASSUME StoreInv, NEW L, Logged(L), SubmitCommit, NEW d, d = dirty
    PROVE  Logged(Append(L, d))'
<1> DEFINE M == Append(L, d)
           N == Len(L)
<1>1. /\ up /\ d = dirty /\ d # None /\ current' = d /\ dirty' = None
      /\ writing' = writing \union {d}
      /\ UNCHANGED <<disk, up, stable, written, nextSeq, task, reader, visible, crashes>>
  BY DEF SubmitCommit
<1>2. /\ L \in Seq(GoodCommits) /\ N \in Nat /\ N >= 1 /\ LogOf(L)
      /\ d.seq = N + 1
      /\ \A c \in writing \union written \union {stable} : c.seq \in 1 .. N /\ c = L[c.seq]
  BY <1>1, CommitsOfLog DEF Logged
<1>3. d \in GoodCommits
  BY <1>1 DEF StoreInv, TypeInv
<1>4. Len(M) = N + 1 /\ M[N + 1] = d /\ \A i \in 1 .. N : M[i] = L[i]
  BY <1>2, <1>3, AppendFacts
<1>5. LogOf(M) /\ HasLog(L) /\ RunsOn(L)
  BY <1>1 DEF Logged, HasLog, RunsOn
<1> HIDE DEF M
<1>6. 1 .. N \subseteq 1 .. N + 1 /\ N + 1 \in 1 .. N + 1
  BY <1>2
<1>7. \A c : OnDisk(c)' <=> OnDisk(c)
  BY <1>1 DEF OnDisk
<1>8. \A i \in 1 .. stable.seq : OnDisk(M[i])
  <2>1. stable.seq \in 1 .. N
    BY <1>2
  <2>2. 1 .. stable.seq \subseteq 1 .. N
    BY <1>2, <2>1
  <2> QED BY <1>4, <1>5, <2>2 DEF HasLog
<1>9. (crashes = 0 \/ ~up) => OnlyLog(M)
  <2> SUFFICES ASSUME OnlyLog(L) PROVE OnlyLog(M)
    BY <1>5 DEF HasLog
  <2> SUFFICES ASSUME NEW a \in Addr, disk[a] # NoBlock
               PROVE  \E i \in 1 .. Len(M) : a \in Extent(M[i]) /\ disk[a] = BlockOf(M[i], a - M[i].addr)
    BY DEF OnlyLog
  <2>1. PICK i \in 1 .. N : a \in Extent(L[i]) /\ disk[a] = BlockOf(L[i], a - L[i].addr)
    BY DEF OnlyLog
  <2>2. i \in 1 .. Len(M) /\ M[i] = L[i]
    BY <1>4, <1>6
  <2> QED BY <2>1, <2>2
<1>10. OnlyLog(M)' <=> OnlyLog(M)
  BY <1>1 DEF OnlyLog
<1>11. RunsOn(M)'
  <2>1. current' = M[Len(M)] /\ current'.seq = Len(M)
    BY <1>1, <1>2, <1>4
  <2>2. \A c \in (writing \union written)' : c.seq \in 1 .. Len(M) /\ c = M[c.seq]
    <3> SUFFICES ASSUME NEW c \in (writing \union written)' PROVE c.seq \in 1 .. Len(M) /\ c = M[c.seq]
      OBVIOUS
    <3>1. CASE c = d
      BY <1>2, <1>4, <1>6, <3>1
    <3>2. CASE c # d
      <4>1. c \in writing \union written
        BY <1>1, <3>2
      <4>2. c.seq \in 1 .. N /\ c = L[c.seq]
        BY <1>2, <4>1
      <4> QED BY <1>4, <1>6, <4>2
    <3> QED BY <3>1, <3>2
  <2>3. \A c \in written' : OnDisk(c)'
    BY <1>1, <1>5, <1>7 DEF RunsOn
  <2> QED BY <1>1, <2>1, <2>2, <2>3 DEF RunsOn
<1>12. stable.seq \in 1 .. Len(M) /\ stable = M[stable.seq]
  <2>1. stable.seq \in 1 .. N /\ stable = L[stable.seq]
    BY <1>2
  <2> QED BY <1>4, <1>6, <2>1
<1>13. HasLog(M)'
  BY <1>1, <1>5, <1>7, <1>8, <1>9, <1>10, <1>11, <1>12 DEF HasLog
<1>14. \A v \in Write : Unmade(v)' <=> Unmade(v)
  BY <1>1 DEF Unmade
<1>15. NotMade(M)'
  <2> SUFFICES ASSUME NEW v \in Write, Unmade(v), NEW i \in 1 .. Len(M) PROVE v \notin ToSet(M[i].hist)
    BY <1>1, <1>14 DEF NotMade
  <2>1. CASE i = N + 1
    BY <1>1, <1>4, <2>1 DEF Logged, NotMade
  <2>2. CASE i # N + 1
    <3>1. i \in 1 .. N
      BY <1>2, <1>4, <2>2
    <3> QED BY <1>4, <3>1 DEF Logged, NotMade
  <2> QED BY <2>1, <2>2
<1>16. Later' = Later
  BY <1>1 DEF Later
<1>17. Pending'
  BY <1>1, <1>16 DEF Logged, Pending
<1>18. Seen'
  BY <1>1 DEF Logged, Seen
<1> QED BY <1>13, <1>15, <1>17, <1>18 DEF Logged, M

\* A block that is stored belongs to one commit of the log.
LEMMA StoredBlock ==
    ASSUME StoreInv, NEW L, LogOf(L), NEW n \in 1 .. Len(L), disk' = Stored(L[n]), NEW a \in Addr
    PROVE  disk'[a] = IF a \in Extent(L[n]) THEN BlockOf(L[n], a - L[n].addr) ELSE disk[a]
BY DEF Stored

LEMMA CompleteWriteLogged ==
    ASSUME StoreInv, NEW L, Logged(L), CompleteWrite
    PROVE  Logged(L)'
<1> DEFINE N == Len(L)
<1>1. PICK c \in writing :
        /\ up /\ disk' = Stored(c) /\ writing' = writing \ {c} /\ written' = written \union {c}
        /\ UNCHANGED <<up, stable, current, dirty, nextSeq, nextAddr, task, reader, visible, crashes>>
  BY DEF CompleteWrite
<1>2. /\ L \in Seq(GoodCommits) /\ N \in Nat /\ LogOf(L)
      /\ \A b \in writing \union written \union {stable} : b.seq \in 1 .. N /\ b = L[b.seq]
  BY <1>1, CommitsOfLog DEF Logged
<1> DEFINE n == c.seq
<1>3. n \in 1 .. N /\ c = L[n]
  BY <1>1, <1>2
<1> HIDE DEF n
<1>4. \A a \in Addr : disk'[a] = IF a \in Extent(L[n]) THEN BlockOf(L[n], a - L[n].addr) ELSE disk[a]
  BY <1>1, <1>2, <1>3, StoredBlock
<1>5. \A i \in 1 .. N : \A a \in Extent(L[i]) : a \in Addr
  BY <1>2, BlockOfGood
<1>6. ASSUME NEW i \in 1 .. N, OnDisk(L[i]) PROVE OnDisk(L[i])'
  <2> SUFFICES ASSUME NEW a \in Extent(L[i]) PROVE disk'[a] = BlockOf(L[i], a - L[i].addr)
    BY DEF OnDisk
  <2>1. CASE a \in Extent(L[n])
    <3>1. i = n
      BY <1>2, <1>3, <2>1, LogDisjoint
    <3> QED BY <1>4, <1>5, <3>1
  <2>2. CASE a \notin Extent(L[n])
    BY <1>4, <1>5, <1>6, <2>2 DEF OnDisk
  <2> QED BY <2>1, <2>2
<1>7. OnDisk(c)'
  BY <1>3, <1>4, <1>5 DEF OnDisk
<1>8. HasLog(L)
  BY DEF Logged
<1>9. RunsOn(L)'
  <2>1. RunsOn(L)
    BY <1>1, <1>8 DEF HasLog
  <2>2. (writing \union written)' = writing \union written
    BY <1>1
  <2>3. \A b \in written' : OnDisk(b)'
    <3> SUFFICES ASSUME NEW b \in written' PROVE OnDisk(b)'
      OBVIOUS
    <3>1. CASE b = c
      BY <1>7, <3>1
    <3>2. CASE b # c
      <4>1. b \in written /\ OnDisk(b) /\ b.seq \in 1 .. N /\ b = L[b.seq]
        BY <1>1, <1>2, <2>1, <3>2 DEF RunsOn
      <4>2. OnDisk(L[b.seq])'
        BY <1>6, <4>1
      <4> QED BY <4>1, <4>2
    <3> QED BY <3>1, <3>2
  <2> QED BY <1>1, <2>1, <2>2, <2>3 DEF RunsOn
<1>10. \A i \in 1 .. stable.seq : OnDisk(L[i])'
  <2>1. 1 .. stable.seq \subseteq 1 .. N
    BY <1>2
  <2> QED BY <1>6, <1>8, <2>1 DEF HasLog
<1>11. OnlyLog(L) => OnlyLog(L)'
  <2> SUFFICES ASSUME OnlyLog(L), NEW a \in Addr
               PROVE  disk'[a] = NoBlock \/ \E i \in 1 .. N :
                        a \in Extent(L[i]) /\ disk'[a] = BlockOf(L[i], a - L[i].addr)
    BY DEF OnlyLog
  <2>1. CASE a \in Extent(L[n])
    BY <1>3, <1>4, <2>1
  <2>2. CASE a \notin Extent(L[n])
    <3>1. disk'[a] = disk[a]
      BY <1>4, <2>2
    <3> QED BY <3>1 DEF OnlyLog
  <2> QED BY <2>1, <2>2
<1>12. HasLog(L)'
  BY <1>1, <1>8, <1>9, <1>10, <1>11 DEF HasLog
<1>13. NotMade(L)' /\ Pending'
  <2>1. \A v \in Write : Unmade(v)' <=> Unmade(v)
    BY <1>1 DEF Unmade
  <2>2. Later' = Later
    BY <1>1 DEF Later
  <2> QED BY <1>1, <2>1, <2>2 DEF Logged, NotMade, Pending
<1>14. Seen'
  BY <1>1 DEF Logged, Seen
<1> QED BY <1>12, <1>13, <1>14 DEF Logged

LEMMA FinishCommitLogged ==
    ASSUME StoreInv, NEW L, Logged(L), FinishCommit
    PROVE  /\ Logged(L)' /\ visible' = visible
           /\ \E i, j \in 1 .. Len(L) : i <= j /\ stable = L[i] /\ stable' = L[j]
<1> DEFINE N == Len(L)
<1>1. PICK c \in written :
        /\ up /\ stable.seq = c.seq - 1 /\ stable' = c /\ written' = written \ {c}
        /\ task' = [w \in Write |-> [task[w] EXCEPT !.awake = TRUE]]
        /\ UNCHANGED <<disk, up, current, dirty, writing, nextSeq, nextAddr, reader, visible, crashes>>
  BY DEF FinishCommit
<1>2. /\ L \in Seq(GoodCommits) /\ N \in Nat /\ LogOf(L)
      /\ \A b \in writing \union written \union {stable} : b.seq \in 1 .. N /\ b = L[b.seq]
  BY <1>1, CommitsOfLog DEF Logged
<1>3. HasLog(L) /\ RunsOn(L)
  BY <1>1 DEF Logged, HasLog
<1>4. \A d : OnDisk(d)' <=> OnDisk(d)
  BY <1>1 DEF OnDisk
<1>5. /\ c.seq \in 1 .. N /\ c = L[c.seq] /\ OnDisk(c)
      /\ stable.seq \in 1 .. N /\ stable = L[stable.seq] /\ stable.seq <= c.seq
  BY <1>1, <1>2, <1>3 DEF RunsOn
<1>6. \A i \in 1 .. c.seq : OnDisk(L[i])
  <2>1. \A i \in 1 .. c.seq : i = c.seq \/ i \in 1 .. stable.seq
    BY <1>1, <1>5
  <2> QED BY <1>3, <1>5, <2>1 DEF HasLog
<1>7. RunsOn(L)'
  BY <1>1, <1>3, <1>4 DEF RunsOn
<1>8. OnlyLog(L)' <=> OnlyLog(L)
  BY <1>1 DEF OnlyLog
<1>9. HasLog(L)'
  BY <1>1, <1>3, <1>4, <1>5, <1>6, <1>7, <1>8 DEF HasLog
<1>10. \A v \in Write : task'[v].pc = task[v].pc /\ task'[v].seq = task[v].seq
  <2>1. \A v \in Write : task[v] \in TaskState
    BY DEF StoreInv, TypeInv
  <2> QED BY <1>1, <2>1 DEF TaskState
<1>11. NotMade(L)'
  <2>1. \A v \in Write : Unmade(v)' <=> Unmade(v)
    BY <1>10 DEF Unmade
  <2> QED BY <1>1, <2>1 DEF Logged, NotMade
<1>12. Pending'
  <2>1. (Later \union {stable})' \subseteq Later \union {stable}
    BY <1>1 DEF Later
  <2> QED BY <1>1, <1>10, <2>1 DEF Logged, Pending
<1>13. ToSet(stable.hist) \subseteq ToSet(c.hist)
  <2>1. stable.seq \in 1 .. c.seq
    BY <1>5
  <2>2. IsPrefix(stable.hist, c.hist)
    BY <1>2, <1>5, <2>1, LogOrder
  <2>3. stable.hist \in Seq(Write) /\ c.hist \in Seq(Write)
    BY <1>2, <1>5, LogCommits
  <2> QED BY <2>2, <2>3, PrefixFacts
<1>14. Seen'
  BY <1>1, <1>13 DEF Logged, Seen
<1> QED BY <1>1, <1>5, <1>9, <1>11, <1>12, <1>14 DEF Logged

-----------------------------------------------------------------------------
(* The crash, and what is loaded after it.                                 *)

\* A block that is in flight is one of a commit of the log.
LEMMA InFlightBlock ==
    ASSUME StoreInv, up, NEW L, HasLog(L), NEW a, a \in InFlight
    PROVE  \E n \in 1 .. Len(L) : a \in Extent(L[n]) /\ BlockAt(a) = BlockOf(L[n], a - L[n].addr)
<1> DEFINE N == Len(L)
<1>1. /\ L \in Seq(GoodCommits) /\ N \in Nat /\ LogOf(L)
      /\ \A c \in writing \union written \union {stable} : c.seq \in 1 .. N /\ c = L[c.seq]
  BY CommitsOfLog
<1>2. PICK c \in writing : a \in Extent(c)
  BY DEF InFlight
<1>3. c.seq \in 1 .. N /\ c = L[c.seq]
  BY <1>1
<1>4. PICK x \in writing \union ({dirty} \ {None}) : a \in Extent(x) /\ BlockAt(a) = BlockOf(x, a - x.addr)
  BY CachedBlock
<1>5. CASE x \in writing
  <2>1. x.seq \in 1 .. N /\ x = L[x.seq]
    BY <1>1, <1>5
  <2> QED BY <1>4, <2>1
<1>6. CASE x \notin writing
  <2>1. x = dirty /\ dirty # None
    BY <1>4, <1>6
  <2> DEFINE M == Append(L, x)
  <2>2. LogOf(M) /\ x \in GoodCommits
    BY <2>1 DEF HasLog, RunsOn, StoreInv, TypeInv
  <2>3. Len(M) = N + 1 /\ M[N + 1] = x /\ \A i \in 1 .. N : M[i] = L[i]
    BY <1>1, <2>2, AppendFacts
  <2> HIDE DEF M
  <2>4. c.seq \in 1 .. Len(M) /\ N + 1 \in 1 .. Len(M) /\ c.seq # N + 1
    BY <1>1, <1>3, <2>3
  <2>5. a \in Extent(M[c.seq]) /\ a \in Extent(M[N + 1])
    BY <1>2, <1>3, <1>4, <2>3
  <2>6. FALSE
    BY <2>2, <2>4, <2>5, LogDisjoint
  <2> QED BY <2>6
<1> QED BY <1>5, <1>6

LEMMA CrashLogged ==
    ASSUME OneCrash, StoreInv, NEW L, Logged(L), Crash
    PROVE  Logged(L)'
<1> DEFINE N == Len(L)
<1>1. /\ up /\ crashes < MaxCrashes /\ crashes' = crashes + 1 /\ up' = FALSE
      /\ dirty' = None /\ writing' = {} /\ written' = {}
      /\ task' = [w \in Write |-> IF task[w].pc \in {"prepare", "reserve", "commit"}
                                  THEN [Idle EXCEPT !.pc = "lost"] ELSE task[w]]
      /\ reader' = NoReader
      /\ UNCHANGED <<stable, current, nextSeq, visible>>
  BY DEF Crash
<1>2. PICK kept \in SUBSET InFlight :
        disk' = [a \in Addr |-> IF a \in kept THEN BlockAt(a) ELSE disk[a]]
  BY DEF Crash
<1>3. crashes = 0 /\ crashes' > 0
  BY <1>1, Bounds DEF StoreInv, TypeInv, OneCrash
<1>4. HasLog(L) /\ OnlyLog(L)
  BY <1>3 DEF Logged, HasLog
<1>5. /\ L \in Seq(GoodCommits) /\ N \in Nat /\ LogOf(L)
      /\ \A c \in writing \union written \union {stable} : c.seq \in 1 .. N /\ c = L[c.seq]
  BY <1>1, <1>4, CommitsOfLog
<1>6. \A i \in 1 .. N : \A a \in Extent(L[i]) : a \in Addr
  BY <1>5, BlockOfGood
<1>7. ASSUME NEW a \in Addr
      PROVE  disk'[a] = disk[a] \/ \E n \in 1 .. N : /\ a \in Extent(L[n])
                                                     /\ disk'[a] = BlockOf(L[n], a - L[n].addr)
  <2>1. CASE a \in kept
    <3>1. disk'[a] = BlockAt(a) /\ a \in InFlight
      BY <1>2, <2>1
    <3> QED BY <1>1, <1>4, <3>1, InFlightBlock
  <2>2. CASE a \notin kept
    BY <1>2, <2>2
  <2> QED BY <2>1, <2>2
<1>8. OnlyLog(L)'
  <2> SUFFICES ASSUME NEW a \in Addr
               PROVE  disk'[a] = NoBlock \/ \E i \in 1 .. N :
                        a \in Extent(L[i]) /\ disk'[a] = BlockOf(L[i], a - L[i].addr)
    BY DEF OnlyLog
  <2> QED BY <1>4, <1>7 DEF OnlyLog
<1>9. ASSUME NEW i \in 1 .. stable.seq PROVE OnDisk(L[i])'
  <2>1. i \in 1 .. N /\ OnDisk(L[i])
    BY <1>4, <1>5 DEF HasLog
  <2> SUFFICES ASSUME NEW a \in Extent(L[i]) PROVE disk'[a] = BlockOf(L[i], a - L[i].addr)
    BY DEF OnDisk
  <2>2. a \in Addr
    BY <1>6, <2>1
  <2>3. CASE disk'[a] = disk[a]
    BY <2>1, <2>3 DEF OnDisk
  <2>4. CASE disk'[a] # disk[a]
    <3>1. PICK n \in 1 .. N : a \in Extent(L[n]) /\ disk'[a] = BlockOf(L[n], a - L[n].addr)
      BY <1>7, <2>2, <2>4
    <3>2. n = i
      BY <1>5, <2>1, <3>1, LogDisjoint
    <3> QED BY <3>1, <3>2
  <2> QED BY <2>3, <2>4
<1>10. HasLog(L)'
  BY <1>1, <1>3, <1>4, <1>5, <1>8, <1>9 DEF HasLog
<1>11. \A v \in Write : task'[v].pc # "commit" /\ (Unmade(v)' => Unmade(v))
  <2> DEFINE s == [Idle EXCEPT !.pc = "lost"]
  <2>1. s.pc = "lost"
    BY DEF Idle
  <2> HIDE DEF s
  <2>2. \A v \in Write : task'[v] = IF task[v].pc \in {"prepare", "reserve", "commit"} THEN s ELSE task[v]
    BY <1>1 DEF s
  <2> QED BY <2>1, <2>2 DEF Unmade
<1>12. NotMade(L)' /\ Pending'
  BY <1>1, <1>11 DEF Logged, NotMade, Pending
<1>13. Seen'
  <2>1. reader'.pc = "idle"
    BY <1>1 DEF NoReader
  <2> QED BY <1>1, <2>1 DEF Logged, Seen
<1> QED BY <1>10, <1>12, <1>13 DEF Logged

\* On a device of one segment the search finds the first commit.
LEMMA SearchFindsFirst ==
    ASSUME DevSize <= SearchOffset, NEW d, GoodDisk(d), d[0].type = "COMMIT"
    PROVE  FindRecent(d).recent = 0
<1> DEFINE s0 == [start |-> 0, last |-> (DevSize - 1) \div SearchOffset, recent |-> None]
           s1 == [start |-> 1, last |-> 0, recent |-> 0]
           N == 2 * DevSize
<1>1. PICK f : RoundsOf(d, f)
  BY RoundsExist
<1>2. N \in Nat /\ N >= 1
  BY Bounds
<1>3. f[0] = s0 /\ (\A n \in 1 .. N : f[n] = SearchRound(d, f[n - 1])) /\ FindRecent(d) = f[N]
  BY <1>1 DEF RoundsOf
<1>4. (DevSize - 1) \div SearchOffset = 0
  BY Bounds
<1>5. HeaderOK(d, 0)
  BY Bounds DEF HeaderOK, CrcOK, HasHeader
<1>6. SearchRound(d, s0) = s1
  <2> DEFINE s == [start |-> 0, last |-> 0, recent |-> None]
  <2>1. s0 = s
    BY <1>4
  <2>2. s.start = 0 /\ s.last = 0 /\ s.recent = None /\ 0 * SearchOffset = 0 /\ (0 + 0) \div 4 = 0
    BY Bounds
  <2> DEFINE mid == (s.start + s.last) \div 4
             addr == mid * SearchOffset
             at == IF d[addr].type = "SEARCH" THEN d[addr].commit ELSE addr
             rec == IF s.recent = None \/ at > s.recent THEN at ELSE s.recent
  <2>3. mid = 0 /\ addr = 0
    BY <2>2
  <2>4. at = 0
    BY <2>3
  <2>5. rec = 0
    <3> HIDE DEF at
    <3> QED BY <2>2, <2>4
  <2>6. SearchRound(d, s) = [s EXCEPT !.start = mid + 1, !.recent = rec]
    <3>1. ~(s.start > s.last) /\ HeaderOK(d, addr)
      BY <1>5, <2>2, <2>3
    <3> QED BY <3>1 DEF SearchRound
  <2> HIDE DEF mid, rec
  <2>7. [s EXCEPT !.start = mid + 1, !.recent = rec] = [s EXCEPT !.start = 1, !.recent = 0]
    BY <2>3, <2>5
  <2>8. [s EXCEPT !.start = 1, !.recent = 0] = s1
    <3> DEFINE u == [s EXCEPT !.start = 1]
               t == [start |-> 1, last |-> 0, recent |-> None]
    <3>1. u = t
      OBVIOUS
    <3>2. [t EXCEPT !.recent = 0] = s1
      OBVIOUS
    <3>3. [s EXCEPT !.start = 1, !.recent = 0] = [u EXCEPT !.recent = 0]
      OBVIOUS
    <3> HIDE DEF u, t
    <3> QED BY <3>1, <3>2, <3>3
  <2> HIDE DEF s, s0, s1
  <2> QED BY <2>1, <2>6, <2>7, <2>8
<1>7. SearchRound(d, s1) = s1
  <2>1. s1.start = 1 /\ s1.last = 0
    OBVIOUS
  <2> HIDE DEF s1
  <2>2. s1.start > s1.last
    BY <2>1
  <2> QED BY <2>2 DEF SearchRound
<1> HIDE DEF s0, N
<1>8. \A n \in 1 .. N : f[n] = s1
  <2> HIDE DEF s1
  <2> DEFINE Bad == {n \in 1 .. N : f[n] # s1}
  <2> SUFFICES ASSUME Bad # {} PROVE FALSE
    OBVIOUS
  <2>1. PICK n \in Bad : \A j \in Bad : n <= j
    <3>1. Bad \subseteq Nat
      BY <1>2
    <3> HIDE DEF Bad
    <3> QED BY <3>1, LeastNat
  <2>2. n \in 1 .. N /\ f[n] # s1 /\ f[n] = SearchRound(d, f[n - 1])
    BY <1>3, <2>1
  <2>3. CASE n = 1
    BY <1>3, <1>6, <2>2, <2>3
  <2>4. CASE n # 1
    <3>1. n - 1 \in 1 .. N /\ ~(n <= n - 1)
      BY <1>2, <2>2, <2>4
    <3>2. f[n - 1] = s1
      BY <2>1, <3>1
    <3> QED BY <1>7, <2>2, <3>2
  <2> QED BY <2>3, <2>4
<1>9. N \in 1 .. N
  BY <1>2
<1> QED BY <1>3, <1>8, <1>9

\* What recovery takes for the commit at the place of one of the log: that one,
\* if all its blocks are there.
LEMMA TakenCommit ==
    ASSUME StoreInv, NEW L, HasLog(L), OnlyLog(L), NEW i \in 1 .. Len(L)
    PROVE  /\ disk[L[i].addr] # NoBlock => AsCommit(disk, L[i].addr) = [L[i] EXCEPT !.map = EmptyMap]
           /\ Verifies(disk, L[i].addr) <=> OnDisk(L[i])
<1> DEFINE c == L[i]
           b == c.addr
           t == [c EXCEPT !.map = EmptyMap]
           n == Len(c.entries)
<1>1. LogOf(L) /\ c \in GoodCommits /\ c \in CommitType
  BY LogCommits DEF HasLog, LogOf
<1>2. b \in Nat /\ b \in Addr /\ n \in Nat /\ AddrAfter(c) = b + 1 + n
  BY <1>1, CommitFields
<1> HIDE DEF n
<1>3. \A j \in 0 .. n : b + j \in Extent(c) /\ (b + j) - b = j /\ b + j \in Addr
  <2>1. \A j \in 0 .. n : b + j \in Extent(c) /\ (b + j) - b = j
    BY <1>2 DEF Extent, n
  <2> QED BY <1>1, <2>1, BlockOfGood
<1>4. ASSUME NEW j \in 0 .. n, disk[b + j] # NoBlock PROVE disk[b + j] = BlockOf(c, j)
  <2>1. PICK k \in 1 .. Len(L) : b + j \in Extent(L[k]) /\ disk[b + j] = BlockOf(L[k], (b + j) - L[k].addr)
    BY <1>3, <1>4 DEF OnlyLog
  <2>2. k = i
    BY <1>1, <1>3, <2>1, LogDisjoint
  <2> QED BY <1>3, <2>1, <2>2
<1>5. t.entries = c.entries /\ BlockOf(c, 0) = CommitBlock(c)
      /\ CommitBlock(c).type = "COMMIT" /\ CommitBlock(c).cmt = t
  <2>1. t.entries = c.entries
    BY <1>1, EmptyMapType, MapSet
  <2> QED BY <1>1, <2>1, BlockOfCases DEF CommitBlock
<1>6. b + 0 = b /\ 0 \in 0 .. n
  BY <1>2
<1>7. disk[b] # NoBlock => disk[b] = CommitBlock(c) /\ AsCommit(disk, b) = t
  BY <1>4, <1>5, <1>6 DEF AsCommit
<1>8. \A j \in 1 .. n : /\ c.entries[j].type \in {"DATA", "BTREE", "SEARCH"}
                        /\ c.entries[j].type = "DATA" => BlockOf(c, j) = DataBlock(c.entries[j].crc)
                        /\ c.entries[j].type = "BTREE" => BlockOf(c, j) = BtreeBlock(c.map)
                        /\ c.entries[j].type = "SEARCH" => BlockOf(c, j) = SearchBlock(c.addr)
  BY <1>1, BlockOfCases DEF n
<1>9. DOMAIN c.entries = 1 .. n
  <2>1. c.entries \in Seq(EntryType)
    BY <1>1, CommitFields
  <2> DEFINE q == c.entries
  <2>2. q \in Seq(EntryType) /\ n = Len(q)
    BY <2>1 DEF n
  <2> HIDE DEF q
  <2>3. DOMAIN q = 1 .. n
    BY <2>2
  <2> QED BY <2>3 DEF q
<1>10. ~HasHeader(NoBlock.type) /\ \A v : DataBlock(v) # NoBlock
  <2>1. NoBlock.type = "NONE" /\ \A v : DataBlock(v).type = "DATA"
    BY BlockTypes
  <2> QED BY <2>1 DEF HasHeader
<1>11. ASSUME Verifies(disk, b) PROVE OnDisk(c)
  <2>1. /\ disk[b] # NoBlock
        /\ \A j \in DOMAIN AsCommit(disk, b).entries : ReadOK(disk, b + j, AsCommit(disk, b).entries[j])
    BY <1>10, <1>11, Zenon DEF Verifies, HeaderOK, CrcOK
  <2>2. \A j \in 1 .. n : ReadOK(disk, b + j, c.entries[j])
    BY <1>5, <1>7, <1>9, <2>1
  <2>3. ASSUME NEW j \in 1 .. n PROVE disk[b + j] # NoBlock
    <3>1. HeaderOK(disk, b + j) \/ disk[b + j] = DataBlock(c.entries[j].crc)
      BY <2>2 DEF ReadOK
    <3> QED BY <1>10, <3>1 DEF HeaderOK, CrcOK
  <2>4. ASSUME NEW j \in 0 .. n PROVE disk[b + j] = BlockOf(c, j)
    <3>1. j = 0 \/ j \in 1 .. n
      BY <1>2
    <3>2. disk[b + j] # NoBlock
      BY <1>6, <2>1, <2>3, <3>1
    <3> QED BY <1>4, <3>2
  <2> SUFFICES ASSUME NEW a \in Extent(c) PROVE disk[a] = BlockOf(c, a - c.addr)
    BY DEF OnDisk
  <2>5. a - b \in 0 .. n /\ b + (a - b) = a
    BY <1>2 DEF Extent, n
  <2> QED BY <2>4, <2>5
<1>12. ASSUME OnDisk(c) PROVE Verifies(disk, b)
  <2>1. \A j \in 0 .. n : disk[b + j] = BlockOf(c, j)
    BY <1>3, <1>12 DEF OnDisk
  <2>2. disk[b] = CommitBlock(c) /\ HeaderOK(disk, b)
    BY <1>2, <1>5, <1>6, <2>1 DEF HeaderOK, CrcOK, HasHeader
  <2>3. disk[b] # NoBlock
    BY <1>5, <2>2, BlockTypes
  <2>4. ASSUME NEW j \in 1 .. n PROVE ReadOK(disk, b + j, c.entries[j])
    <3>1. j \in 0 .. n
      BY <1>2
    <3>2. disk[b + j] = BlockOf(c, j) /\ b + j \in Addr
      BY <1>3, <2>1, <3>1
    <3>3. CASE c.entries[j].type = "DATA"
      BY <1>8, <3>2, <3>3 DEF ReadOK, HasHeader
    <3>4. CASE c.entries[j].type = "BTREE"
      <4>1. disk[b + j].type = "BTREE"
        BY <1>8, <3>2, <3>4, BlockTypes
      <4> QED BY <3>2, <3>4, <4>1 DEF ReadOK, HasHeader, HeaderOK, CrcOK
    <3>5. CASE c.entries[j].type = "SEARCH"
      <4>1. disk[b + j].type = "SEARCH"
        BY <1>8, <3>2, <3>5, BlockTypes
      <4> QED BY <3>2, <3>5, <4>1 DEF ReadOK, HasHeader, HeaderOK, CrcOK
    <3> QED BY <1>8, <3>3, <3>4, <3>5
  <2>5. AsCommit(disk, b).entries = c.entries
    BY <1>5, <1>7, <2>3
  <2>6. \A j \in DOMAIN AsCommit(disk, b).entries : ReadOK(disk, b + j, AsCommit(disk, b).entries[j])
    BY <1>9, <2>4, <2>5
  <2> QED BY <2>2, <2>6, Zenon DEF Verifies
<1> QED BY <1>7, <1>11, <1>12

\* The commits that are on the device from the first one on.
Whole(L, k) ==
    /\ k \in 1 .. Len(L) /\ \A i \in 1 .. k : OnDisk(L[i])
    /\ k < Len(L) => ~OnDisk(L[k + 1])

LEMMA WholeExists ==
    ASSUME StoreInv, NEW L, HasLog(L)
    PROVE  \E k \in 1 .. Len(L) : Whole(L, k) /\ stable.seq <= k
<1> DEFINE N == Len(L)
           T == {n \in 0 .. N : N - n \in 1 .. N /\ \A i \in 1 .. N - n : OnDisk(L[i])}
<1>1. N \in Nat /\ stable.seq \in 1 .. N /\ \A i \in 1 .. stable.seq : OnDisk(L[i])
  BY LogCommits DEF HasLog, LogOf
<1>2. N - stable.seq \in T
  <2>1. N - stable.seq \in 0 .. N /\ N - (N - stable.seq) = stable.seq
    BY <1>1
  <2> QED BY <1>1, <2>1
<1>3. PICK n \in T : \A x \in T : n <= x
  <2>1. T \subseteq Nat /\ T # {}
    BY <1>2
  <2> HIDE DEF T
  <2> QED BY <2>1, LeastNat
<1> DEFINE k == N - n
<1>4. n \in 0 .. N /\ k \in 1 .. N /\ \A i \in 1 .. k : OnDisk(L[i])
  BY <1>3
<1>5. stable.seq <= k
  <2>1. n <= N - stable.seq
    BY <1>2, <1>3
  <2> QED BY <1>1, <1>4, <2>1
<1>6. ASSUME k < N PROVE ~OnDisk(L[k + 1])
  <2> SUFFICES ASSUME OnDisk(L[k + 1]) PROVE FALSE
    OBVIOUS
  <2>1. n - 1 \in 0 .. N /\ N - (n - 1) = k + 1 /\ k + 1 \in 1 .. N /\ ~(n <= n - 1)
    BY <1>1, <1>4, <1>6
  <2>2. \A i \in 1 .. k + 1 : i = k + 1 \/ i \in 1 .. k
    <3>1. k \in Nat
      BY <1>1, <1>4
    <3> HIDE DEF k
    <3> QED BY <3>1
  <2>3. \A i \in 1 .. k + 1 : OnDisk(L[i])
    BY <1>4, <2>2
  <2> HIDE DEF k
  <2>4. n - 1 \in T
    BY <2>1, <2>3
  <2> QED BY <1>3, <2>1, <2>4
<1> HIDE DEF k
<1> QED BY <1>4, <1>5, <1>6 DEF Whole

\* What is read from the device holds as long as the commits are there.
LEMMA HeldOnDisk ==
    ASSUME NEW L, NEW k \in Nat, \A i \in 1 .. k : OnDisk(L[i]), NEW a, NEW b, Holds(L, k, a, b)
    PROVE  disk[a] = b
BY DEF Holds, OnDisk

\* last_verified_commit walks to the last whole commit.
LEMMA WalkEnds ==
    ASSUME DevSize <= SearchOffset, StoreInv, NEW L, HasLog(L), OnlyLog(L),
           NEW k \in 1 .. Len(L), Whole(L, k)
    PROVE  LastVerified(disk, 0) = L[k].addr
<1> DEFINE N == Len(L)
<1>1. /\ LogOf(L) /\ L \in Seq(GoodCommits) /\ N \in Nat
      /\ \A i \in 1 .. N : /\ L[i] \in GoodCommits /\ L[i] \in CommitType
                           /\ L[i].addr \in Nat /\ AddrAfter(L[i]) \in Nat
                           /\ L[i].addr < AddrAfter(L[i]) /\ AddrAfter(L[i]) < DevSize
  <2>1. LogOf(L) /\ L \in Seq(GoodCommits)
    BY DEF HasLog, LogOf
  <2>2. \A c \in GoodCommits : AddrAfter(c) < DevSize
    BY DEF GoodCommits
  <2> QED BY <2>1, <2>2, LogCommits
<1>2. PICK f : WalkOf(disk, 0, f)
  BY WalkExists, Bounds DEF StoreInv, TypeInv
<1>3. /\ LastVerified(disk, 0) = f[DevSize - 0]
      /\ \A n \in 0 .. DevSize : f[n] = WalkStep(disk, 0, f, n)
  BY <1>2 DEF WalkOf
<1>4. DevSize \in Nat /\ RoundUp(0 + 1) = SearchOffset /\ SearchOffset \in Nat /\ SearchOffset > 0
  <2>1. SearchOffset \in Nat /\ SearchOffset > 0 /\ DevSize \in Nat
    BY Bounds
  <2>2. ((0 + 1) + SearchOffset - 1) \div SearchOffset = 1
    BY <2>1
  <2>3. RoundUp(0 + 1) = 1 * SearchOffset
    BY <2>2 DEF RoundUp
  <2> QED BY <2>1, <2>3
<1>5. \A i \in 1 .. k : OnDisk(L[i]) /\ i \in 1 .. N
  BY <1>1 DEF Whole
<1>6. \A i \in 1 .. N : OnDisk(L[i]) <=> Verifies(disk, L[i].addr)
  BY TakenCommit
\* Behind the last whole commit nothing verifies.
<1>7. ~Verifies(disk, AddrAfter(L[k]))
  <2>1. CASE k = N
    <3> DEFINE a == AddrAfter(L[k])
    <3>1. ASSUME Verifies(disk, a) PROVE FALSE
      <4>1. a \in Addr /\ disk[a] # NoBlock
        <5>1. HasHeader(disk[a].type) /\ a \in Addr
          BY <3>1, Zenon DEF Verifies, HeaderOK, CrcOK
        <5> QED BY <5>1, BlockTypes DEF HasHeader
      <4>2. PICK i \in 1 .. N : a \in Extent(L[i])
        BY <4>1 DEF OnlyLog
      <4>3. a \in Int /\ a < AddrAfter(L[i])
        BY <1>1, <4>2, CommitFields
      <4>4. i # k => AddrAfter(L[i]) <= L[k].addr
        <5>1. i # k => i \in 1 .. k /\ i < k
          BY <1>1, <2>1
        <5> QED BY <1>1, <5>1, LogOrder
      <4> QED BY <1>1, <4>3, <4>4
    <3> QED BY <3>1
  <2>2. CASE k # N
    <3>1. k < N /\ k + 1 \in 1 .. N /\ k + 1 \in 2 .. N /\ (k + 1) - 1 = k
      BY <1>1, <2>2
    <3>2. AddrAfter(L[(k + 1) - 1]) = L[k + 1].addr
      BY <1>1, <3>1 DEF LogOf, Precedes
    <3>3. ~OnDisk(L[k + 1])
      BY <3>1 DEF Whole
    <3> QED BY <1>6, <3>1, <3>2, <3>3
  <2> QED BY <2>1, <2>2
<1> DEFINE from(i) == f[DevSize - L[i].addr]
           next(i) == AddrAfter(L[i])
           rest(i) == f[DevSize - next(i)]
\* A step from a whole commit.
<1>8. ASSUME NEW i \in 1 .. k PROVE from(i) = IF rest(i) = None THEN L[i].addr ELSE rest(i)
  <2> DEFINE n == DevSize - L[i].addr
             a == DevSize - n
  <2>1. i \in 1 .. N /\ Verifies(disk, L[i].addr)
    BY <1>5, <1>6
  <2>2. n \in 0 .. DevSize /\ a = L[i].addr /\ a < SearchOffset /\ ~(next(i) >= DevSize)
    BY <1>1, <1>4, <2>1
  <2>3. AddrAfter(AsCommit(disk, a)) = next(i)
    <3>1. disk[L[i].addr] # NoBlock
      <4>1. HasHeader(disk[L[i].addr].type)
        BY <2>1, Zenon DEF Verifies, HeaderOK, CrcOK
      <4> QED BY <4>1, BlockTypes DEF HasHeader
    <3>2. AsCommit(disk, L[i].addr) = [L[i] EXCEPT !.map = EmptyMap]
      BY <2>1, <3>1, TakenCommit
    <3>3. AddrAfter([L[i] EXCEPT !.map = EmptyMap]) = next(i)
      BY <1>1, <2>1, EmptyMapType, MapSet
    <3> HIDE DEF a
    <3> QED BY <2>2, <3>2, <3>3
  <2>4. f[n] = WalkStep(disk, 0, f, n)
    BY <1>3, <2>2
  <2> HIDE DEF next
  <2>5. ~(a >= RoundUp(0 + 1) \/ ~Verifies(disk, a))
    BY <1>1, <1>4, <2>1, <2>2
  <2>6. WalkStep(disk, 0, f, n) = IF f[DevSize - next(i)] = None THEN a ELSE f[DevSize - next(i)]
    BY <2>2, <2>3, <2>5, Zenon DEF WalkStep
  <2> QED BY <2>2, <2>4, <2>6
<1>9. rest(k) = None
  <2> DEFINE n == DevSize - next(k)
  <2>1. n \in 0 .. DevSize /\ DevSize - n = next(k)
    BY <1>1, <1>4
  <2>2. ~Verifies(disk, DevSize - n)
    BY <1>7, <2>1
  <2>3. f[n] = WalkStep(disk, 0, f, n)
    BY <1>3, <2>1
  <2> HIDE DEF n
  <2>4. WalkStep(disk, 0, f, n) = None
    BY <2>2, Zenon DEF WalkStep
  <2> QED BY <2>3, <2>4 DEF n
<1>10. \A i \in 1 .. k : i < k => rest(i) = from(i + 1)
  <2> SUFFICES ASSUME NEW i \in 1 .. k, i < k PROVE rest(i) = from(i + 1)
    OBVIOUS
  <2>1. i + 1 \in 2 .. N /\ (i + 1) - 1 = i
    BY <1>1
  <2>2. AddrAfter(L[(i + 1) - 1]) = L[i + 1].addr
    BY <1>1, <2>1 DEF LogOf, Precedes
  <2> QED BY <2>1, <2>2
<1>11. L[k].addr # None
  BY <1>1, CommitFields, Bounds
<1> DEFINE Bad == {n \in 0 .. k - 1 : from(k - n) # L[k].addr}
<1>12. Bad = {}
  <2> HIDE DEF from, rest, next
  <2> SUFFICES ASSUME Bad # {} PROVE FALSE
    OBVIOUS
  <2>1. PICK n \in Bad : \A j \in Bad : n <= j
    <3>1. Bad \subseteq Nat
      BY <1>1
    <3> HIDE DEF Bad
    <3> QED BY <3>1, LeastNat
  <2>2. n \in 0 .. k - 1 /\ from(k - n) # L[k].addr /\ k - n \in 1 .. k
    BY <1>1, <2>1
  <2>3. CASE n = 0
    <3>1. k - n = k
      BY <1>1, <2>3
    <3> QED BY <1>8, <1>9, <2>2, <3>1
  <2>4. CASE n # 0
    <3>1. n - 1 \in 0 .. k - 1 /\ ~(n <= n - 1) /\ k - (n - 1) = (k - n) + 1 /\ k - n < k
      BY <1>1, <2>2, <2>4
    <3>2. from(k - (n - 1)) = L[k].addr
      BY <2>1, <3>1
    <3>3. rest(k - n) = L[k].addr
      BY <1>10, <2>2, <3>1, <3>2
    <3> QED BY <1>8, <1>11, <2>2, <3>3
  <2> QED BY <2>3, <2>4
<1>13. from(1) = L[k].addr
  <2>1. k - 1 \in 0 .. k - 1 /\ k - (k - 1) = 1
    BY <1>1
  <2> HIDE DEF from
  <2>2. from(k - (k - 1)) = L[k].addr
    BY <1>12, <2>1
  <2> QED BY <2>1, <2>2
<1>14. L[1].addr = 0
  BY <1>1 DEF LogOf, RootCommit
<1> QED BY <1>3, <1>13, <1>14

\* load_stable_commit loads the last whole commit, and its tree.
LEMMA RecoveryLoadsLast ==
    ASSUME DevSize <= SearchOffset, StoreInv, ~up, NEW L, HasLog(L)
    PROVE  \E k \in 1 .. Len(L) : /\ Whole(L, k) /\ stable.seq <= k
                                  /\ LoadedCommit(disk, CommitToLoad(disk)) = L[k]
<1> DEFINE N == Len(L)
<1>1. /\ LogOf(L) /\ L \in Seq(GoodCommits) /\ N \in Nat /\ N >= 1 /\ OnlyLog(L)
      /\ stable.seq \in 1 .. N
      /\ \A i \in 1 .. N : L[i] \in GoodCommits /\ L[i] \in CommitType
  BY LogCommits DEF HasLog, LogOf
<1>2. PICK k \in 1 .. N : Whole(L, k) /\ stable.seq <= k
  BY WholeExists
<1> DEFINE c == L[k]
           b == c.addr
           t == [c EXCEPT !.map = EmptyMap]
<1>3. \A i \in 1 .. k : OnDisk(L[i]) /\ i \in 1 .. N
  BY <1>1, <1>2 DEF Whole
<1>4. CommitToLoad(disk) = b
  <2>1. disk[0].type = "COMMIT"
    <3>1. 1 \in 1 .. k /\ L[1] = RootCommit
      BY <1>1, <1>2 DEF LogOf
    <3>2. RootCommit \in CommitType /\ RootCommit.addr = 0 /\ 0 \in Extent(RootCommit)
      <4>1. RootCommit \in CommitType /\ RootCommit.addr = 0
        <5>1. 1 \in 1 .. N
          BY <1>1
        <5> QED BY <1>1, <3>1, <5>1 DEF RootCommit
      <4> QED BY <4>1, CommitFields
    <3>3. disk[0] = BlockOf(RootCommit, 0 - RootCommit.addr)
      BY <1>3, <3>1, <3>2 DEF OnDisk
    <3>4. disk[0] = CommitBlock(RootCommit)
      BY <3>2, <3>3, BlockOfCases
    <3> QED BY <3>4, BlockTypes
  <2>2. FindRecent(disk).recent = 0
    BY <2>1, SearchFindsFirst DEF StoreInv, TypeInv
  <2>3. LastVerified(disk, 0) = b
    BY <1>1, <1>2, WalkEnds
  <2>4. 0 # None /\ ~(0 >= SearchOffset)
    BY Bounds
  <2> DEFINE r == FindRecent(disk).recent
             found == LastVerified(disk, r)
  <2>5. CommitToLoad(disk) = IF r = None THEN None
                             ELSE IF found = None /\ r >= SearchOffset
                             THEN LastVerified(disk, r - SearchOffset) ELSE found
    BY DEF CommitToLoad
  <2>6. r = 0
    BY <2>2
  <2> HIDE DEF r
  <2> QED BY <2>3, <2>4, <2>5, <2>6
<1>5. AsCommit(disk, b) = t
  <2>1. Verifies(disk, b)
    <3>1. k \in 1 .. k
      BY <1>1, <1>2
    <3>2. OnDisk(L[k])
      BY <1>3, <3>1
    <3> QED BY <1>1, <3>2, TakenCommit
  <2>2. disk[b] # NoBlock
    <3>1. HasHeader(disk[b].type)
      BY <2>1, Zenon DEF Verifies, HeaderOK, CrcOK
    <3> QED BY <3>1, BlockTypes DEF HasHeader
  <2> QED BY <1>1, <2>2, TakenCommit
<1>6. Readable(L, k) /\ k \in Nat
  BY <1>1 DEF LogOf
<1>7. c \in GoodCommits /\ c \in CommitType
  BY <1>1
<1>8. t \in CommitType /\ t.height = c.height /\ t.root = c.root /\ \A m : [t EXCEPT !.map = m] = [c EXCEPT !.map = m]
  <2>1. t.height = c.height /\ t.root = c.root /\ t \in CommitType
    BY <1>7, EmptyMapType, MapSet DEF GoodCommits
  <2> QED BY <2>1
<1> DEFINE m == IF t.height = 0 THEN EmptyMap
                ELSE IF disk[t.root].type = "BTREE" THEN disk[t.root].map
                ELSE EmptyMap
<1>9. m = c.map
  <2>1. CASE c.height = 0
    BY <1>6, <1>8, <2>1 DEF Readable
  <2>2. CASE c.height # 0
    <3>1. Holds(L, k, c.root, BtreeBlock(c.map))
      BY <1>6, <2>2 DEF Readable
    <3>2. disk[c.root] = BtreeBlock(c.map)
      BY <1>3, <1>6, <3>1, HeldOnDisk
    <3>3. disk[c.root].type = "BTREE" /\ disk[c.root].map = c.map
      BY <3>2, BlockTypes
    <3> QED BY <1>8, <2>2, <3>3
  <2> QED BY <2>1, <2>2
<1>10. LoadedCommit(disk, b) = [t EXCEPT !.map = m]
  BY <1>5 DEF LoadedCommit
<1>11. [c EXCEPT !.map = c.map] = c
  BY <1>7, MapIs, CommitIsMade
<1> HIDE DEF t, m, c
<1>12. LoadedCommit(disk, b) = c
  BY <1>8, <1>9, <1>10, <1>11
<1> QED BY <1>2, <1>4, <1>12 DEF c

LEMMA RecoverLogged ==
    ASSUME DevSize <= SearchOffset, OneCrash, StoreInv, NEW L, Logged(L), Recover
    PROVE  /\ \E M : Logged(M)'
           /\ \E i, j \in 1 .. Len(L) : i <= j /\ stable = L[i] /\ stable' = L[j]
           /\ visible' = visible
<1> DEFINE N == Len(L)
<1>1. /\ ~up /\ up' = TRUE
      /\ stable' = LoadedCommit(disk, CommitToLoad(disk)) /\ current' = stable'
      /\ UNCHANGED <<disk, dirty, writing, written, task, reader, visible, crashes>>
  BY DEF Recover
<1>2. dirty = None /\ writing = {} /\ written = {}
  BY <1>1 DEF StoreInv, LogInv
<1>3. HasLog(L) /\ LogOf(L) /\ L \in Seq(GoodCommits) /\ N \in Nat /\ OnlyLog(L) /\ crashes > 0
      /\ stable.seq \in 1 .. N /\ stable = L[stable.seq]
  BY <1>1, LogCommits DEF Logged, HasLog, LogOf
<1>4. PICK k \in 1 .. N : Whole(L, k) /\ stable.seq <= k /\ stable' = L[k]
  BY <1>1, <1>3, RecoveryLoadsLast
<1> DEFINE M == SubSeq(L, 1, k)
<1>5. LogOf(M) /\ Len(M) = k /\ \A i \in 1 .. k : M[i] = L[i]
  BY <1>3, LogStart
<1> HIDE DEF M
<1>6. k \in 1 .. k /\ L[k].seq = k /\ 1 .. k \subseteq 1 .. N
  <2>1. L[k].seq = k
    BY <1>3 DEF LogOf
  <2> QED BY <1>3, <1>4, <2>1
<1>7. \A c : OnDisk(c)' <=> OnDisk(c)
  BY <1>1 DEF OnDisk
<1>8. HasLog(M)'
  <2>1. ~(crashes' = 0 \/ ~up')
    BY <1>1, <1>3 DEF StoreInv, TypeInv
  <2>2. RunsOn(M)'
    BY <1>1, <1>2, <1>4, <1>5, <1>6 DEF RunsOn
  <2>3. \A i \in 1 .. k : OnDisk(M[i])'
    BY <1>4, <1>5, <1>7 DEF Whole
  <2>4. stable' = M[k] /\ stable'.seq = k
    BY <1>4, <1>5, <1>6
  <2> QED BY <1>1, <1>5, <1>6, <2>1, <2>2, <2>3, <2>4 DEF HasLog
<1>9. \A v \in Write : Unmade(v)' <=> Unmade(v)
  BY <1>1 DEF Unmade
<1>10. NotMade(M)'
  <2> SUFFICES ASSUME NEW v \in Write, Unmade(v), NEW i \in 1 .. k PROVE v \notin ToSet(M[i].hist)
    BY <1>1, <1>2, <1>5, <1>9 DEF NotMade
  <2> QED BY <1>5, <1>6 DEF Logged, NotMade
<1>11. Pending'
  BY <1>1 DEF Logged, Pending
<1>12. Seen'
  <2>1. stable.seq \in 1 .. k
    BY <1>3, <1>4
  <2>2. IsPrefix(stable.hist, L[k].hist)
    BY <1>3, <1>4, <2>1, LogOrder
  <2>3. stable.hist \in Seq(Write) /\ L[k].hist \in Seq(Write)
    BY <1>3, LogCommits
  <2>4. ToSet(stable.hist) \subseteq ToSet(stable'.hist)
    BY <1>4, <2>2, <2>3, PrefixFacts
  <2> QED BY <1>1, <2>4 DEF Logged, Seen
<1>13. Logged(M)'
  BY <1>8, <1>10, <1>11, <1>12 DEF Logged
<1> QED BY <1>1, <1>3, <1>4, <1>13

-----------------------------------------------------------------------------
(* What holds with one crash, in a log of one segment.                     *)

LEMMA FirstLog == LogOf(<<RootCommit>>)
<1> DEFINE M == <<RootCommit>>
           c == RootCommit
<1>1. /\ c \in GoodCommits /\ c.seq = 1 /\ c.height = 0 /\ c.map = EmptyMap
      /\ c.hist = <<>> /\ c.total = 0
  BY RootCommitFacts DEF RootCommit
<1>2. M \in Seq(GoodCommits) /\ Len(M) = 1 /\ M[1] = c
  BY <1>1
<1>3. \A k \in Key : EmptyMap[k] = NoItem /\ NoItem.crc = None
  BY DEF EmptyMap, NoItem
<1>4. \A k \in Key : LastWrite(<<>>, k) = None
  <2> SUFFICES ASSUME NEW k \in Key PROVE LastWrite(<<>>, k) = None
    OBVIOUS
  <2>1. <<>> \in Seq(Write) /\ WritesOf(<<>>, k) = {}
    BY DEF WritesOf
  <2> QED BY <2>1, LastWriteFacts
<1>5. Items(EmptyMap) = {}
  BY <1>3 DEF Items
<1>6. IsFiniteSet(Items(EmptyMap)) /\ Cardinality(Items(EmptyMap)) = 0
  BY <1>5, FS_EmptySet
<1>7. IsInjective(<<>>)
  BY DEF IsInjective
<1> HIDE DEF M, c
<1>8. Readable(M, 1)
  BY <1>1, <1>2, <1>3, <1>4, <1>5, <1>6, <1>7 DEF Readable
<1>9. \A i \in 1 .. Len(M) : i = 1
  BY <1>2
<1>10. LogOf(M)
  BY <1>1, <1>2, <1>8, <1>9 DEF LogOf, c
<1> QED BY <1>10 DEF M, c

LEMMA InitLogged == Init => CrashInv
<1> SUFFICES ASSUME Init PROVE Logged(<<RootCommit>>)
  BY DEF CrashInv
<1> DEFINE M == <<RootCommit>>
           c == RootCommit
<1>1. /\ disk = [a \in Addr |-> IF a = 0 THEN CommitBlock(c) ELSE NoBlock]
      /\ up = TRUE /\ stable = c /\ current = c /\ dirty = None /\ writing = {} /\ written = {}
      /\ nextSeq = 2 /\ task = [w \in Write |-> Idle] /\ reader = NoReader /\ visible = {}
      /\ crashes = 0
  BY DEF Init
<1>2. LogOf(M) /\ Len(M) = 1 /\ M[1] = c
  BY FirstLog
<1>3. c \in CommitType /\ c.seq = 1 /\ c.addr = 0 /\ c.hist = <<>> /\ c.entries = <<>>
  BY RootCommitFacts DEF RootCommit, GoodCommits
<1> HIDE DEF c, M
<1>4. \A a : a \in Extent(c) <=> a = 0
  BY <1>3 DEF Extent
<1>5. disk[0] = CommitBlock(c) /\ BlockOf(c, 0 - c.addr) = CommitBlock(c)
  BY <1>1, <1>3, Bounds, BlockOfCases
<1>6. OnDisk(c)
  BY <1>4, <1>5 DEF OnDisk
<1>7. \A i \in 1 .. 1 : i = 1
  OBVIOUS
<1>8. OnlyLog(M)
  <2> SUFFICES ASSUME NEW a \in Addr, disk[a] # NoBlock
               PROVE  \E i \in 1 .. Len(M) : a \in Extent(M[i]) /\ disk[a] = BlockOf(M[i], a - M[i].addr)
    BY DEF OnlyLog
  <2>1. a = 0
    BY <1>1
  <2>2. 1 \in 1 .. Len(M)
    BY <1>2
  <2> QED BY <1>2, <1>4, <1>5, <2>1, <2>2
<1>9. RunsOn(M)
  BY <1>1, <1>2, <1>3 DEF RunsOn
<1>10. HasLog(M)
  BY <1>1, <1>2, <1>3, <1>6, <1>7, <1>8, <1>9 DEF HasLog
<1>11. \A w : w \notin ToSet(c.hist)
  BY <1>3 DEF ToSet
<1>12. NotMade(M)
  BY <1>1, <1>2, <1>7, <1>11 DEF NotMade
<1>13. Pending
  BY <1>1 DEF Pending, Idle
<1>14. Seen
  BY <1>1 DEF Seen, NoReader
<1>15. Logged(M)
  BY <1>10, <1>12, <1>13, <1>14 DEF Logged
<1> QED BY <1>15 DEF M, c

LEMMA CrashStep ==
    ASSUME OneCrash, StoreInv, StoreInv', CrashInv, [Next]_vars
    PROVE  CrashInv'
<1>1. PICK L : Logged(L)
  BY DEF CrashInv
<1>2. CASE UNCHANGED vars
  <2>1. Quiet /\ UNCHANGED <<task, reader, visible, crashes>>
    BY <1>2 DEF vars, mem, Quiet
  <2>2. HasLog(L)'
    BY <1>1, <2>1, QuietKeepsHasLog DEF Logged
  <2>3. (\A v \in Write : Unmade(v)' <=> Unmade(v)) /\ Later' = Later
    BY <2>1 DEF Unmade, Later, Quiet
  <2>4. NotMade(L)' /\ Pending' /\ Seen'
    BY <1>1, <2>1, <2>3 DEF Logged, NotMade, Pending, Seen, Quiet
  <2> QED BY <2>2, <2>4 DEF CrashInv, Logged
<1>3. ASSUME NEW w \in Write, WriteStep(w) PROVE Logged(L)'
  BY <1>1, <1>3, PrepareLogged, WaitToReserveLogged, ModifyLogged, RefuseBadCrcLogged, ReplyLogged
  DEF WriteStep
<1>4. CASE SubmitCommit
  <2>1. PICK d : d = dirty
    OBVIOUS
  <2>2. Logged(Append(L, d))'
    BY <1>1, <1>4, <2>1, SubmitCommitLogged
  <2> QED BY <2>2 DEF CrashInv
<1>5. CASE CompleteWrite \/ FinishCommit
  BY <1>1, <1>5, CompleteWriteLogged, FinishCommitLogged DEF CrashInv
<1>6. CASE PrepareRead \/ FinishRead
  BY <1>1, <1>6, PrepareReadLogged, FinishReadLogged DEF CrashInv
<1>7. CASE Crash
  BY <1>1, <1>7, CrashLogged DEF CrashInv
<1>8. CASE Recover
  <2>1. \E M : Logged(M)'
    BY <1>1, <1>8, RecoverLogged DEF OneCrash
  <2> QED BY <2>1 DEF CrashInv
<1> QED BY <1>2, <1>3, <1>4, <1>5, <1>6, <1>7, <1>8 DEF Next, DeviceStep, CrashInv

LEMMA CrashInvariant ==
    ASSUME OneCrash
    PROVE  Spec => [](StoreInv /\ CrashInv)
<1>1. Init => StoreInv /\ CrashInv
  BY InitKeeps, InitLogged
<1>2. StoreInv /\ CrashInv /\ [Next]_vars => (StoreInv /\ CrashInv)'
  BY StepKeeps, CrashStep
<1> QED BY <1>1, <1>2, PTL DEF Spec

\* What a client was told, by an answer to its write or to a read, is in the
\* stable commit from then on, whatever a crash tears and recovery loads.
THEOREM SeenSurvivesCrash ==
    ASSUME OneCrash
    PROVE  Spec => []VisibleSurvives
<1>1. CrashInv => VisibleSurvives
  <2> SUFFICES ASSUME NEW L, Logged(L) PROVE VisibleSurvives
    BY DEF CrashInv
  <2>1. Range(stable.hist) = ToSet(stable.hist)
    BY Zenon DEF Range, ToSet
  <2> QED BY <2>1 DEF Logged, Seen, VisibleSurvives
<1> QED BY <1>1, CrashInvariant, PTL

\* No commit that is not stable yet has a block where the stable tree has one.
LEMMA StableBlock ==
    ASSUME StoreInv, up, NEW L, HasLog(L), NEW j \in 1 .. stable.seq, NEW a, a \in Extent(L[j])
    PROVE  BlockAt(a) = BlockOf(L[j], a - L[j].addr)
<1> DEFINE N == Len(L)
           cached == {c \in writing \union ({dirty} \ {None}) : a \in Extent(c)}
<1>1. /\ L \in Seq(GoodCommits) /\ N \in Nat /\ LogOf(L)
      /\ \A c \in writing \union written \union {stable} : c.seq \in 1 .. N /\ c = L[c.seq]
  BY CommitsOfLog
<1>2. j \in 1 .. N /\ j <= stable.seq
  BY <1>1
<1>3. ASSUME NEW c \in writing PROVE a \notin Extent(c)
  <2>1. c.seq \in 1 .. N /\ c = L[c.seq] /\ stable.seq < c.seq
    BY <1>1 DEF StoreInv, LogInv, Sequenced, Later
  <2>2. j # c.seq
    BY <1>1, <1>2, <2>1
  <2> QED BY <1>1, <1>2, <2>1, <2>2, LogDisjoint
<1>4. ASSUME dirty # None PROVE a \notin Extent(dirty)
  <2> SUFFICES ASSUME a \in Extent(dirty) PROVE FALSE
    OBVIOUS
  <2> DEFINE M == Append(L, dirty)
  <2>1. LogOf(M) /\ dirty \in GoodCommits
    BY <1>4 DEF HasLog, RunsOn, StoreInv, TypeInv
  <2>2. Len(M) = N + 1 /\ M[N + 1] = dirty /\ \A i \in 1 .. N : M[i] = L[i]
    BY <1>1, <2>1, AppendFacts
  <2> HIDE DEF M
  <2>3. j \in 1 .. Len(M) /\ N + 1 \in 1 .. Len(M) /\ j # N + 1 /\ M[j] = L[j]
    BY <1>1, <1>2, <2>2
  <2> QED BY <2>1, <2>2, <2>3, LogDisjoint
<1>5. cached = {}
  BY <1>3, <1>4
<1>6. BlockAt(a) = disk[a]
  BY <1>5, Zenon DEF BlockAt
<1>7. disk[a] = BlockOf(L[j], a - L[j].addr)
  BY DEF HasLog, OnDisk
<1> QED BY <1>6, <1>7

\* The stable tree leads to the last write of every key, through blocks that no
\* later commit, crash or recovery has touched, and its total counts its items.
THEOREM StableTreeReadable ==
    ASSUME OneCrash
    PROVE  Spec => []StableIsReadable
<1>1. StoreInv /\ CrashInv => StableIsReadable
  <2> SUFFICES ASSUME StoreInv, NEW L, Logged(L), up
               PROVE  /\ stable.height # 0 => BlockAt(stable.root) = BtreeBlock(stable.map)
                      /\ \A k \in Key :
                           /\ stable.map[k].crc = LastWrite(stable.hist, k)
                           /\ stable.map[k] # NoItem =>
                                BlockAt(stable.map[k].addr) = DataBlock(stable.map[k].crc)
                      /\ stable.total = Cardinality({k \in Key : stable.map[k] # NoItem})
    BY DEF CrashInv, StableIsReadable
  <2> DEFINE n == stable.seq
  <2>1. HasLog(L) /\ LogOf(L) /\ n \in 1 .. Len(L) /\ stable = L[n]
    BY DEF Logged, HasLog
  <2>2. Readable(L, n)
    BY <2>1 DEF LogOf
  <2>3. /\ stable.height # 0 => Holds(L, n, stable.root, BtreeBlock(stable.map))
        /\ \A k \in Key : stable.map[k].crc = LastWrite(stable.hist, k)
        /\ \A k \in Items(stable.map) : Holds(L, n, stable.map[k].addr, DataBlock(stable.map[k].crc))
        /\ stable.total = Cardinality(Items(stable.map))
    BY <2>1, <2>2 DEF Readable
  <2>4. \A a, b : Holds(L, n, a, b) => BlockAt(a) = b
    <3> SUFFICES ASSUME NEW a, NEW b, Holds(L, n, a, b) PROVE BlockAt(a) = b
      OBVIOUS
    <3>1. PICK j \in 1 .. n : a \in Extent(L[j]) /\ BlockOf(L[j], a - L[j].addr) = b
      BY DEF Holds
    <3> QED BY <2>1, <3>1, StableBlock
  <2> QED BY <2>3, <2>4 DEF Items
<1> QED BY <1>1, CrashInvariant, PTL

\* The operators of the abstract store.
LEMMA AbsOperators ==
    /\ \A s, t : IsPrefix(s, t) /\ s # t => Abs!IsStrictPrefix(s, t)
    /\ \A s : IsInjective(s) => Abs!IsInjective(s)
    /\ \A s : Abs!Range(s) = ToSet(s)
<1>1. \A s, t : IsPrefix(s, t) /\ s # t => Abs!IsStrictPrefix(s, t)
  BY Zenon DEF IsPrefix, Abs!IsStrictPrefix, Abs!IsPrefix
<1>2. \A s : IsInjective(s) => Abs!IsInjective(s)
  BY Zenon DEF IsInjective, Abs!IsInjective
<1>3. \A s : Abs!Range(s) = ToSet(s)
  BY Zenon DEF Abs!Range, ToSet
<1> QED BY <1>1, <1>2, <1>3

\* What a step between two stable commits of a log is to the abstract store.
LEMMA StableMoves ==
    ASSUME NEW L, LogOf(L), NEW i \in 1 .. Len(L), NEW j \in 1 .. Len(L), i <= j,
           stable = L[i], stable' = L[j], visible' = visible
    PROVE  Abs!Commit \/ UNCHANGED <<stable.hist, visible>>
<1>1. L \in Seq(GoodCommits) /\ stable.hist \in Seq(Write) /\ stable'.hist \in Seq(Write)
  <2>1. L \in Seq(GoodCommits)
    BY DEF LogOf
  <2> QED BY <2>1, LogCommits
<1>2. i \in 1 .. j
  BY <1>1, LogCommits
<1>3. IsPrefix(stable.hist, stable'.hist)
  BY <1>2, LogOrder
<1>4. IsInjective(stable'.hist)
  BY DEF LogOf, Readable
<1>5. ToSet(stable'.hist) \subseteq Write
  BY <1>1 DEF ToSet
<1> QED BY <1>3, <1>4, <1>5, AbsOperators DEF Abs!Commit

\* The log store does what it promises: its writes take effect in order and
\* none of them twice, what has taken effect stays, and the network sees no
\* other write.
THEOREM LogImplementsStore ==
    ASSUME OneCrash
    PROVE  Spec => AbsSpec
<1>1. Init => Abs!AbsInit
  BY DEF Init, Abs!AbsInit, RootCommit
<1>2. ASSUME StoreInv, CrashInv, [Next]_vars
      PROVE  [Abs!AbsNext]_<<stable.hist, visible>>
  <2>1. PICK L : Logged(L)
    BY <1>2 DEF CrashInv
  <2>2. LogOf(L) /\ Len(L) \in Nat
    BY <2>1, LogCommits DEF Logged, HasLog, LogOf
  <2>3. \A w \in ToSet(stable.hist) : w \in Abs!Range(stable.hist) /\ w \in Write
    <3>1. stable.hist \in Seq(Write)
      BY <1>2, CommitFields DEF StoreInv, TypeInv, GoodCommits
    <3>2. ToSet(stable.hist) \subseteq Write
      BY <3>1 DEF ToSet
    <3> QED BY <3>2, AbsOperators
  <2>4. ASSUME NEW w \in ToSet(stable.hist), stable' = stable, visible' = visible \union {w}
        PROVE  Abs!AbsNext
    BY <2>3, <2>4 DEF Abs!AbsNext, Abs!Show
  <2>5. CASE UNCHANGED <<stable, visible>>
    BY <2>5
  <2>6. CASE \E w \in Write : Reply(w)
    <3>1. PICK w \in Write : Reply(w)
      BY <2>6
    <3>2. w \in ToSet(stable.hist)
      BY <1>2, <2>1, <3>1, ReplyLogged
    <3> QED BY <2>4, <3>1, <3>2 DEF Reply, mem
  <2>7. CASE FinishRead
    <3>1. visible' = visible \/ (reader.saw \in ToSet(stable.hist) /\ visible' = visible \union {reader.saw})
      BY <1>2, <2>1, <2>7, FinishReadLogged
    <3>2. stable' = stable
      BY <2>7 DEF FinishRead, mem
    <3> QED BY <2>4, <3>1, <3>2
  <2>8. CASE FinishCommit
    <3>1. PICK i, j \in 1 .. Len(L) : i <= j /\ stable = L[i] /\ stable' = L[j]
      BY <1>2, <2>1, <2>8, FinishCommitLogged
    <3>2. visible' = visible
      BY <2>8 DEF FinishCommit
    <3> QED BY <2>2, <3>1, <3>2, StableMoves DEF Abs!AbsNext
  <2>9. CASE Recover
    <3>1. PICK i, j \in 1 .. Len(L) : i <= j /\ stable = L[i] /\ stable' = L[j]
      BY <1>2, <2>1, <2>9, RecoverLogged DEF OneCrash
    <3>2. visible' = visible
      BY <2>9 DEF Recover
    <3> QED BY <2>2, <3>1, <3>2, StableMoves DEF Abs!AbsNext
  <2>10. CASE UNCHANGED vars
    BY <2>5, <2>10 DEF vars, mem
  <2>11. ASSUME NEW w \in Write, Prepare(w) \/ WaitToReserve(w) \/ Modify(w) \/ RefuseBadCrc(w)
         PROVE  UNCHANGED <<stable, visible>>
    BY <2>11 DEF Prepare, WaitToReserve, Modify, RefuseBadCrc, mem
  <2>12. SubmitCommit \/ CompleteWrite \/ PrepareRead \/ Crash => UNCHANGED <<stable, visible>>
    BY DEF SubmitCommit, CompleteWrite, PrepareRead, Crash, mem
  <2> QED BY <1>2, <2>5, <2>6, <2>7, <2>8, <2>9, <2>10, <2>11, <2>12 DEF Next, WriteStep, DeviceStep
<1> QED BY <1>1, <1>2, CrashInvariant, PTL DEF Spec, AbsSpec, Abs!Spec

=============================================================================
