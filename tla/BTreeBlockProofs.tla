-------------------------- MODULE BTreeBlockProofs --------------------------
(***************************************************************************)
(* Theorems about BTreeBlock for blocks of any size, all keys and values.  *)
(***************************************************************************)
EXTENDS BTreeBlock, SeqFacts

ItemType == [key : Key, val : Value]
BlockType == [offsets : Seq(Slot), slots : [Slot -> ItemType \union {Zero}]]

\* The items fill the start of the item area, each has one offset, and the
\* rest is clear.
Placed(b) ==
    /\ b \in BlockType
    /\ Nr(b) <= MaxItems
    /\ \A i \in 1 .. Nr(b) : b.offsets[i] \in 1 .. Nr(b)
    /\ \A s \in 1 .. Nr(b) : \E i \in 1 .. Nr(b) : b.offsets[i] = s
    /\ \A i, j \in 1 .. Nr(b) : b.offsets[i] = b.offsets[j] => i = j
    /\ \A s \in 1 .. Nr(b) : b.slots[s] \in ItemType
    /\ \A s \in Slot : s > Nr(b) => b.slots[s] = Zero

Ordered(b) == \A i, j \in 1 .. Nr(b) : i < j => IndItem(b, i).key < IndItem(b, j).key

Good(b) == Placed(b) /\ Ordered(b)

LEMMA Sizes ==
    /\ MaxItems \in Nat /\ MaxItems >= 1
    /\ \A i \in 1 .. MaxItems : i \in Slot
    /\ Key \subseteq Int
    /\ MaxItems \div 2 \in Nat /\ 2 * (MaxItems \div 2) = MaxItems /\ MaxItems \div 2 >= 1
BY BlockAssumption DEF Slot

LEMMA PlacedItems ==
    ASSUME NEW b, Placed(b)
    PROVE  /\ b.offsets \in Seq(Slot) /\ b.slots \in [Slot -> ItemType \union {Zero}]
           /\ Nr(b) \in Nat /\ Nr(b) = Len(b.offsets) /\ Nr(b) <= MaxItems
           /\ \A i \in 1 .. Nr(b) :
                /\ i \in Slot /\ b.offsets[i] \in Slot
                /\ IndItem(b, i) \in ItemType
                /\ IndItem(b, i) = b.slots[b.offsets[i]]
                /\ IndItem(b, i).key \in Key /\ IndItem(b, i).key \in Int
                /\ IndItem(b, i).val \in Value
<1>1. b.offsets \in Seq(Slot) /\ b.slots \in [Slot -> ItemType \union {Zero}]
  BY DEF Placed, BlockType
<1>2. Nr(b) \in Nat /\ Nr(b) = Len(b.offsets) /\ Nr(b) <= MaxItems
  BY <1>1 DEF Nr, Placed
<1>3. ASSUME NEW i \in 1 .. Nr(b)
      PROVE  /\ i \in Slot /\ b.offsets[i] \in Slot
             /\ IndItem(b, i) \in ItemType
             /\ IndItem(b, i) = b.slots[b.offsets[i]]
  <2>1. b.offsets[i] \in 1 .. Nr(b)
    BY DEF Placed
  <2> DEFINE n == Nr(b)
             o == b.offsets[i]
  <2>2. n \in Nat /\ n <= MaxItems /\ MaxItems \in Nat /\ i \in 1 .. n /\ o \in 1 .. n
    BY <1>2, <2>1, BlockAssumption
  <2> HIDE DEF n, o
  <2>3. i \in 1 .. MaxItems /\ o \in 1 .. MaxItems
    BY <2>2
  <2>4. b.slots[b.offsets[i]] \in ItemType
    BY <2>1 DEF Placed
  <2>5. IndItem(b, i) = b.slots[b.offsets[i]]
    BY DEF IndItem
  <2> QED BY <2>3, <2>4, <2>5 DEF Slot, o
<1>4. \A t \in ItemType : t.key \in Key /\ t.val \in Value /\ t.key \in Int
  BY Sizes DEF ItemType
<1> QED BY <1>1, <1>2, <1>3, <1>4

-----------------------------------------------------------------------------
(* The binary search.                                                      *)

SearchState == [start : Int, end : Int, ind : Int, cmp : Int]

\* What the search needs of a block.
Searchable(b) ==
    /\ Nr(b) \in Nat /\ Nr(b) <= MaxItems
    /\ \A i \in 1 .. Nr(b) : IndItem(b, i).key \in Int
    /\ Ordered(b)

\* The loop of find_key_ind.
SearchStep(b, key, s) ==
    LET mid == (s.start + s.end) \div 2
        k   == IndItem(b, mid).key
    IN IF s.start > s.end \/ s.cmp = 0 THEN s
       ELSE IF key < k THEN [s EXCEPT !.end = mid - 1, !.ind = mid, !.cmp = -1]
       ELSE IF key > k THEN [s EXCEPT !.start = mid + 1, !.ind = mid + 1, !.cmp = 1]
       ELSE [s EXCEPT !.ind = mid, !.cmp = 0]

SearchFrom(b) == [start |-> 1, end |-> Nr(b), ind |-> 1, cmp |-> 1]

\* f is the states of the search.
Searches(b, key, f) ==
    /\ f \in [0 .. MaxItems + 1 -> SearchState]
    /\ f[0] = SearchFrom(b)
    /\ \A n \in 1 .. MaxItems + 1 : f[n] = SearchStep(b, key, f[n - 1])

LEMMA SearchStepType ==
    ASSUME NEW b, NEW key, NEW s \in SearchState
    PROVE  SearchStep(b, key, s) \in SearchState
<1> DEFINE mid == (s.start + s.end) \div 2
           k == IndItem(b, mid).key
<1>1. mid \in Int
  BY DEF SearchState
<1> HIDE DEF mid
<1>2. /\ [s EXCEPT !.end = mid - 1, !.ind = mid, !.cmp = -1] \in SearchState
      /\ [s EXCEPT !.start = mid + 1, !.ind = mid + 1, !.cmp = 1] \in SearchState
      /\ [s EXCEPT !.ind = mid, !.cmp = 0] \in SearchState
  <2>1. /\ \A t \in SearchState, x \in Int : [t EXCEPT !.end = x] \in SearchState
        /\ \A t \in SearchState, x \in Int : [t EXCEPT !.start = x] \in SearchState
        /\ \A t \in SearchState, x \in Int : [t EXCEPT !.ind = x] \in SearchState
        /\ \A t \in SearchState, x \in Int : [t EXCEPT !.cmp = x] \in SearchState
    BY DEF SearchState
  <2>2. mid - 1 \in Int /\ mid + 1 \in Int /\ -1 \in Int /\ 0 \in Int /\ 1 \in Int
    BY <1>1
  <2>3. /\ [s EXCEPT !.end = mid - 1, !.ind = mid, !.cmp = -1]
             = [[[s EXCEPT !.end = mid - 1] EXCEPT !.ind = mid] EXCEPT !.cmp = -1]
        /\ [s EXCEPT !.start = mid + 1, !.ind = mid + 1, !.cmp = 1]
             = [[[s EXCEPT !.start = mid + 1] EXCEPT !.ind = mid + 1] EXCEPT !.cmp = 1]
        /\ [s EXCEPT !.ind = mid, !.cmp = 0] = [[s EXCEPT !.ind = mid] EXCEPT !.cmp = 0]
    OBVIOUS
  <2> QED BY <1>1, <2>1, <2>2, <2>3
<1>3. SearchStep(b, key, s) \in
        {s, [s EXCEPT !.end = mid - 1, !.ind = mid, !.cmp = -1],
            [s EXCEPT !.start = mid + 1, !.ind = mid + 1, !.cmp = 1],
            [s EXCEPT !.ind = mid, !.cmp = 0]}
  BY Zenon DEF SearchStep, mid
<1> QED BY <1>2, <1>3

\* The recursion of FindKey has a value at each step.
LEMMA FindKeySearches ==
    ASSUME NEW b, Searchable(b), NEW key
    PROVE  \E f : Searches(b, key, f) /\ FindKey(b, key) = f[MaxItems + 1]
<1> DEFINE N == MaxItems + 1
           V == SearchState
           s0 == SearchFrom(b)
           Turn(s) == SearchStep(b, key, s)
           Step(g, n) ==
               IF n = 0 THEN [start |-> 1, end |-> Nr(b), ind |-> 1, cmp |-> 1]
               ELSE LET s   == g[n - 1]
                        mid == (s.start + s.end) \div 2
                        k   == IndItem(b, mid).key
                    IN IF s.start > s.end \/ s.cmp = 0 THEN s
                       ELSE IF key < k THEN [s EXCEPT !.end = mid - 1, !.ind = mid, !.cmp = -1]
                       ELSE IF key > k THEN [s EXCEPT !.start = mid + 1, !.ind = mid + 1, !.cmp = 1]
                       ELSE [s EXCEPT !.ind = mid, !.cmp = 0]
           F == [n \in 1 .. N |-> [s \in V |-> Turn(s)]]
           found == CHOOSE g : g = [n \in 0 .. N |-> Step(g, n)]
<1>1. N \in Nat
  BY Sizes
<1>2. s0 \in V
  BY DEF Searchable, SearchFrom, SearchState
<1>3. FindKey(b, key) = found[N]
  BY Zenon DEF FindKey
<1>4. \A g : \A n \in 0 .. N : Step(g, n) = IF n = 0 THEN s0 ELSE Turn(g[n - 1])
  BY Zenon DEF SearchStep, SearchFrom
<1>5. \A s \in V : Turn(s) \in V
  BY SearchStepType
<1> HIDE DEF N, V, s0, Step, Turn
<1>6. F \in [1 .. N -> [V -> V]]
  BY <1>5
<1>7. \A n \in 1 .. N, s \in V : F[n][s] = Turn(s)
  OBVIOUS
<1> HIDE DEF F
<1>8. \E f \in [0 .. N -> V] : f[0] = s0 /\ \A n \in 1 .. N : f[n] = F[n][f[n - 1]]
  <2> HIDE DEF found
  <2> QED BY <1>1, <1>2, <1>6, RecursionExists
<1>9. PICK f \in [0 .. N -> V] : f[0] = s0 /\ \A n \in 1 .. N : f[n] = F[n][f[n - 1]]
  BY <1>8
<1>10. \A n \in 1 .. N : n - 1 \in 0 .. N
  BY <1>1
<1>11. \A n \in 1 .. N : f[n] = Turn(f[n - 1])
  BY <1>7, <1>9, <1>10
<1>12. \A n \in 0 .. N : f[n] = Step(f, n)
  BY <1>1, <1>4, <1>9, <1>11
<1>13. f = [n \in 0 .. N |-> Step(f, n)]
  BY <1>12
<1>14. found = [n \in 0 .. N |-> Step(found, n)]
  BY <1>13
<1> HIDE DEF found
<1>15. \A n \in 0 .. N : found[n] = Step(found, n)
  BY <1>14
<1>16. found[0] = s0 /\ \A n \in 1 .. N : found[n] = Turn(found[n - 1])
  BY <1>1, <1>4, <1>15
<1>17. \A n \in 0 .. N : found[n] = f[n]
  <2> DEFINE Bad == {n \in 0 .. N : found[n] # f[n]}
  <2> SUFFICES ASSUME Bad # {} PROVE FALSE
    OBVIOUS
  <2>1. PICK n \in Bad : \A j \in Bad : n <= j
    <3>1. Bad \subseteq Nat
      BY <1>1
    <3> HIDE DEF Bad
    <3> QED BY <3>1, LeastNat
  <2>2. n \in 1 .. N /\ n - 1 \in 0 .. N /\ ~(n <= n - 1)
    BY <1>1, <1>9, <1>16, <2>1
  <2>3. found[n - 1] = f[n - 1]
    BY <2>1, <2>2
  <2> QED BY <1>11, <1>16, <2>1, <2>2, <2>3
<1>18. FindKey(b, key) = f[N]
  BY <1>1, <1>3, <1>17
<1> QED BY <1>9, <1>11, <1>18 DEF Searches, N, V, s0, Turn

\* What holds after n iterations: the key is found, or is between start and
\* end, where fewer are left with each iteration.
Narrowed(b, key, n, s) ==
    /\ s.cmp = 0 => s.ind \in 1 .. Nr(b) /\ IndItem(b, s.ind).key = key
    /\ s.cmp # 0 =>
         /\ 1 <= s.start /\ s.start <= s.end + 1 /\ s.end <= Nr(b)
         /\ \A i \in 1 .. Nr(b) : i < s.start => IndItem(b, i).key < key
         /\ \A i \in 1 .. Nr(b) : i > s.end => key < IndItem(b, i).key
         /\ s.ind \in {s.start, s.end + 1}
         /\ s.start <= s.end => s.end - s.start + n < MaxItems

LEMMA SearchNarrows ==
    ASSUME NEW b, Searchable(b), NEW key \in Int, NEW n \in Nat, NEW s \in SearchState, Narrowed(b, key, n, s)
    PROVE  Narrowed(b, key, n + 1, SearchStep(b, key, s))
<1> USE DEF Searchable
<1> DEFINE mid == (s.start + s.end) \div 2
           k == IndItem(b, mid).key
           t == SearchStep(b, key, s)
<1>1. s.start \in Int /\ s.end \in Int /\ s.ind \in Int /\ s.cmp \in Int
  BY DEF SearchState
<1>2. CASE s.cmp = 0
  BY <1>2 DEF SearchStep, Narrowed
<1>3. CASE s.cmp # 0 /\ s.start > s.end
  <2>1. t = s
    BY <1>3, Zenon DEF SearchStep
  <2> QED BY <1>1, <1>3, <2>1 DEF Narrowed
<1>4. CASE s.cmp # 0 /\ ~(s.start > s.end)
  <2>1. /\ 1 <= s.start /\ s.start <= s.end /\ s.end <= Nr(b)
        /\ \A i \in 1 .. Nr(b) : i < s.start => IndItem(b, i).key < key
        /\ \A i \in 1 .. Nr(b) : i > s.end => key < IndItem(b, i).key
        /\ s.end - s.start + n < MaxItems
    BY <1>1, <1>4 DEF Narrowed
  <2>2. mid \in Int /\ s.start <= mid /\ mid <= s.end
    BY <1>1, <2>1
  <2>3. mid \in 1 .. Nr(b) /\ k \in Int
    BY <1>1, <2>1, <2>2
  <2>4. t = IF key < k THEN [s EXCEPT !.end = mid - 1, !.ind = mid, !.cmp = -1]
            ELSE IF key > k THEN [s EXCEPT !.start = mid + 1, !.ind = mid + 1, !.cmp = 1]
            ELSE [s EXCEPT !.ind = mid, !.cmp = 0]
    BY <1>4, Zenon DEF SearchStep
  <2>5. \A i \in 1 .. Nr(b) : i < mid => IndItem(b, i).key < k
    BY <2>3 DEF Ordered
  <2>6. \A i \in 1 .. Nr(b) : mid < i => k < IndItem(b, i).key
    BY <2>3 DEF Ordered
  <2>7. k = IndItem(b, mid).key
    OBVIOUS
  <2> HIDE DEF mid, k, t
  <2>8. CASE key < k
    <3>1. t = [s EXCEPT !.end = mid - 1, !.ind = mid, !.cmp = -1]
      BY <2>4, <2>8
    <3>2. t.start = s.start /\ t.end = mid - 1 /\ t.ind = mid /\ t.cmp = -1
      BY <3>1 DEF SearchState
    <3>3. \A i \in 1 .. Nr(b) : i > mid - 1 => key < IndItem(b, i).key
      BY <2>2, <2>3, <2>6, <2>7, <2>8
    <3>4. \A i \in 1 .. Nr(b) : i < t.start => IndItem(b, i).key < key
      BY <2>1, <3>2
    <3>5. /\ 1 <= t.start /\ t.start <= t.end + 1 /\ t.end <= Nr(b)
          /\ t.ind \in {t.start, t.end + 1}
          /\ t.start <= t.end => t.end - t.start + (n + 1) < MaxItems
      BY <1>1, <2>1, <2>2, <3>2, Sizes
    <3>6. \A i \in 1 .. Nr(b) : i > t.end => key < IndItem(b, i).key
      BY <3>2, <3>3
    <3>7. t.cmp # 0
      BY <3>2
    <3> QED BY <3>4, <3>5, <3>6, <3>7 DEF Narrowed, t
  <2>9. CASE key > k
    <3>1. t = [s EXCEPT !.start = mid + 1, !.ind = mid + 1, !.cmp = 1]
      BY <2>3, <2>4, <2>9
    <3>2. t.start = mid + 1 /\ t.end = s.end /\ t.ind = mid + 1 /\ t.cmp = 1
      BY <3>1 DEF SearchState
    <3>3. \A i \in 1 .. Nr(b) : i < mid + 1 => IndItem(b, i).key < key
      BY <2>2, <2>3, <2>5, <2>7, <2>9
    <3>4. \A i \in 1 .. Nr(b) : i > t.end => key < IndItem(b, i).key
      BY <2>1, <3>2
    <3>5. /\ 1 <= t.start /\ t.start <= t.end + 1 /\ t.end <= Nr(b)
          /\ t.ind \in {t.start, t.end + 1}
          /\ t.start <= t.end => t.end - t.start + (n + 1) < MaxItems
      BY <1>1, <2>1, <2>2, <3>2, Sizes
    <3>6. \A i \in 1 .. Nr(b) : i < t.start => IndItem(b, i).key < key
      BY <3>2, <3>3
    <3>7. t.cmp # 0
      BY <3>2
    <3> QED BY <3>4, <3>5, <3>6, <3>7 DEF Narrowed, t
  <2>10. CASE key = k
    <3>1. t = [s EXCEPT !.ind = mid, !.cmp = 0]
      BY <2>3, <2>4, <2>10
    <3>2. t.ind = mid /\ t.cmp = 0
      BY <3>1 DEF SearchState
    <3> QED BY <2>3, <2>7, <2>10, <3>2 DEF Narrowed, t
  <2> QED BY <2>3, <2>8, <2>9, <2>10
<1> QED BY <1>2, <1>3, <1>4

\* find_key_ind finds the key, or the place to insert it.
LEMMA FindKeyFacts ==
    ASSUME NEW b, Searchable(b), NEW key \in Int
    PROVE  LET f == FindKey(b, key) IN
           /\ f.ind \in Int
           /\ f.cmp = 0 => f.ind \in 1 .. Nr(b) /\ IndItem(b, f.ind).key = key
           /\ f.cmp # 0 => /\ f.ind \in 1 .. Nr(b) + 1
                           /\ \A i \in 1 .. Nr(b) : i < f.ind => IndItem(b, i).key < key
                           /\ \A i \in 1 .. Nr(b) : i >= f.ind => key < IndItem(b, i).key
           /\ \A i \in 1 .. Nr(b) : IndItem(b, i).key = key => f.cmp = 0 /\ f.ind = i
<1> DEFINE N == MaxItems + 1
<1>1. PICK f : Searches(b, key, f) /\ FindKey(b, key) = f[N]
  BY FindKeySearches
<1>2. N \in Nat /\ N = MaxItems + 1 /\ MaxItems \in Nat
  BY Sizes
<1> HIDE DEF N
<1>3. /\ f \in [0 .. N -> SearchState] /\ f[0] = SearchFrom(b)
      /\ \A n \in 1 .. N : f[n] = SearchStep(b, key, f[n - 1])
  BY <1>1, <1>2 DEF Searches
<1> DEFINE P(n) == Narrowed(b, key, n, f[n])
           Bad == {n \in 0 .. N : ~P(n)}
<1>4. P(0)
  <2>1. Narrowed(b, key, 0, SearchFrom(b))
    BY <1>2 DEF Searchable, Narrowed, SearchFrom
  <2> QED BY <1>3, <2>1
<1>5. ASSUME NEW n \in 1 .. N, P(n - 1) PROVE P(n)
  <2>1. n - 1 \in Nat /\ n - 1 \in 0 .. N /\ (n - 1) + 1 = n /\ f[n - 1] \in SearchState
    BY <1>2, <1>3
  <2>2. Narrowed(b, key, (n - 1) + 1, SearchStep(b, key, f[n - 1]))
    BY <1>5, <2>1, SearchNarrows
  <2> QED BY <1>3, <2>1, <2>2
<1> HIDE DEF P
<1>6. Bad = {}
  <2> SUFFICES ASSUME Bad # {} PROVE FALSE
    OBVIOUS
  <2>1. Bad \subseteq Nat
    BY <1>2
  <2>2. PICK n \in Bad : \A j \in Bad : n <= j
    <3> HIDE DEF Bad
    <3> QED BY <2>1, LeastNat
  <2>3. n \in 1 .. N /\ ~P(n)
    BY <1>2, <1>4, <2>2
  <2>4. P(n - 1)
    BY <1>2, <2>2, <2>3
  <2> QED BY <1>5, <2>3, <2>4
<1> DEFINE s == f[N]
<1>7. Narrowed(b, key, N, s) /\ s \in SearchState
  BY <1>2, <1>3, <1>6 DEF P
<1> HIDE DEF s
<1>8. s.start \in Int /\ s.end \in Int /\ s.ind \in Int /\ s.cmp \in Int
  BY <1>7 DEF SearchState
<1>9. s.cmp = 0 => s.ind \in 1 .. Nr(b) /\ IndItem(b, s.ind).key = key
  BY <1>7 DEF Narrowed
<1>10. ASSUME s.cmp # 0
       PROVE  /\ s.ind \in 1 .. Nr(b) + 1
              /\ \A i \in 1 .. Nr(b) : i < s.ind => IndItem(b, i).key < key
              /\ \A i \in 1 .. Nr(b) : i >= s.ind => key < IndItem(b, i).key
  <2>1. /\ 1 <= s.start /\ s.start <= s.end + 1 /\ s.end <= Nr(b)
        /\ \A i \in 1 .. Nr(b) : i < s.start => IndItem(b, i).key < key
        /\ \A i \in 1 .. Nr(b) : i > s.end => key < IndItem(b, i).key
        /\ s.ind \in {s.start, s.end + 1}
        /\ s.start <= s.end => s.end - s.start + N < MaxItems
    BY <1>7, <1>10 DEF Narrowed
  <2>2. s.start = s.end + 1 /\ s.ind = s.start
    BY <1>2, <1>8, <2>1
  <2> QED BY <1>8, <2>1, <2>2 DEF Searchable
<1>11. ASSUME NEW i \in 1 .. Nr(b), IndItem(b, i).key = key PROVE s.cmp = 0 /\ s.ind = i
  <2>1. s.cmp = 0
    <3> SUFFICES ASSUME s.cmp # 0 PROVE FALSE
      OBVIOUS
    <3>1. key < key
      BY <1>8, <1>10, <1>11
    <3> QED BY <3>1
  <2>2. s.ind \in 1 .. Nr(b) /\ IndItem(b, s.ind).key = key
    BY <1>9, <2>1
  <2>3. ~(s.ind < i) /\ ~(i < s.ind)
    BY <1>11, <2>2 DEF Ordered, Searchable
  <2> QED BY <2>1, <2>2, <2>3
<1>12. FindKey(b, key) = s
  BY <1>1 DEF s
<1> QED BY <1>8, <1>9, <1>10, <1>11, <1>12

\* The keys of a block in order can be searched.
LEMMA GoodSearchable ==
    ASSUME NEW b, Good(b)
    PROVE  Searchable(b)
BY PlacedItems DEF Good, Searchable

-----------------------------------------------------------------------------
(* Insertion and deletion of an item.                                      *)

\* insert_item puts the item at ind and moves those behind it up, whatever
\* its key.
LEMMA InsertItemFacts ==
    ASSUME NEW b, Placed(b), Nr(b) < MaxItems, NEW ind \in 1 .. Nr(b) + 1, NEW item \in ItemType
    PROVE  LET c == InsertItem(b, ind, item) IN
           /\ Placed(c)
           /\ Nr(c) = Nr(b) + 1
           /\ \A j \in 1 .. Nr(b) + 1 :
                IndItem(c, j) = IF j < ind THEN IndItem(b, j)
                                ELSE IF j = ind THEN item ELSE IndItem(b, j - 1)
<1> DEFINE n == Nr(b)
           o == b.offsets
           p == InsertAt(o, ind, n + 1)
           q == [b.slots EXCEPT ![n + 1] = item]
           c == InsertItem(b, ind, item)
<1>1. n \in Nat /\ n = Len(o) /\ n < MaxItems /\ o \in Seq(Slot) /\ b.slots \in [Slot -> ItemType \union {Zero}]
  BY PlacedItems
<1>2. n + 1 \in Slot /\ \A i \in 1 .. n + 1 : i \in Slot
  BY <1>1, Sizes
<1>3. /\ p \in Seq(Slot) /\ Len(p) = n + 1
      /\ \A j \in 1 .. n + 1 : p[j] = IF j < ind THEN o[j] ELSE IF j = ind THEN n + 1 ELSE o[j - 1]
  <2>1. ind \in 1 .. Len(o) + 1
    BY <1>1
  <2>2. n + 1 \in Slot
    BY <1>2
  <2>3. o \in Seq(Slot) /\ p = InsertAt(o, ind, n + 1) /\ n = Len(o)
    BY <1>1
  <2> HIDE DEF n, o, p
  <2> DEFINE x == n + 1
  <2> HIDE DEF x
  <2>4. /\ InsertAt(o, ind, x) \in Seq(Slot)
        /\ Len(InsertAt(o, ind, x)) = Len(o) + 1
        /\ \A j \in 1 .. (Len(o) + 1) :
             InsertAt(o, ind, x)[j] = IF j < ind THEN o[j] ELSE IF j = ind THEN x ELSE o[j - 1]
    <3>1. x \in Slot
      BY <2>2 DEF x
    <3>2. o \in Seq(Slot) /\ ind \in 1 .. (Len(o) + 1)
      BY <2>1, <2>3
    <3> QED BY ONLY <3>1, <3>2, InsertAtFacts
  <2>5. p = InsertAt(o, ind, x) /\ x = n + 1
    BY <2>3 DEF x
  <2> QED BY <2>3, <2>4, <2>5
<1>4. /\ q \in [Slot -> ItemType \union {Zero}] /\ q[n + 1] = item
      /\ \A s \in Slot : s # n + 1 => q[s] = b.slots[s]
  BY <1>1, <1>2
<1>5. c.offsets = p /\ c.slots = q /\ c \in BlockType
  BY <1>3, <1>4, Zenon DEF InsertItem, BlockType
<1>6. Nr(c) = n + 1
  BY <1>3, <1>5 DEF Nr
<1>7. /\ \A i \in 1 .. n : o[i] \in 1 .. n
      /\ \A s \in 1 .. n : \E i \in 1 .. n : o[i] = s
      /\ \A i, j \in 1 .. n : o[i] = o[j] => i = j
      /\ \A s \in 1 .. n : b.slots[s] \in ItemType
      /\ \A s \in Slot : s > n => b.slots[s] = Zero
  BY DEF Placed
<1>8. \A i \in 1 .. n : IndItem(b, i) = b.slots[o[i]]
  BY DEF IndItem
<1>9. \A i : IndItem(c, i) = q[p[i]]
  BY <1>5 DEF IndItem
<1> HIDE DEF n, o, p, q, c
<1>10. ind \in 1 .. n + 1 /\ ind \in Nat
  BY <1>1 DEF n
<1>11. ASSUME NEW i \in 1 .. n + 1 PROVE p[i] \in 1 .. n + 1
  <2>1. CASE i = ind
    BY <1>1, <1>3, <2>1
  <2>2. CASE i < ind
    <3>1. i \in 1 .. n /\ p[i] = o[i]
      BY <1>1, <1>3, <1>10, <2>2
    <3> QED BY <1>1, <1>7, <3>1
  <2>3. CASE i > ind
    <3>1. i - 1 \in 1 .. n /\ p[i] = o[i - 1]
      BY <1>1, <1>3, <1>10, <2>3
    <3> QED BY <1>1, <1>7, <3>1
  <2> QED BY <1>10, <2>1, <2>2, <2>3
<1>12. ASSUME NEW s \in 1 .. n + 1 PROVE \E i \in 1 .. n + 1 : p[i] = s
  <2>1. CASE s = n + 1
    BY <1>3, <1>10, <2>1
  <2>2. CASE s \in 1 .. n
    <3>1. PICK i \in 1 .. n : o[i] = s
      BY <1>7, <2>2
    <3>2. CASE i < ind
      BY <1>1, <1>3, <3>1, <3>2
    <3>3. CASE ~(i < ind)
      <4>1. i + 1 \in 1 .. n + 1 /\ ~(i + 1 < ind) /\ i + 1 # ind /\ (i + 1) - 1 = i
        BY <1>1, <1>10, <3>3
      <4> QED BY <1>3, <3>1, <4>1
    <3> QED BY <3>2, <3>3
  <2> QED BY <1>1, <2>1, <2>2
<1>13. ASSUME NEW i \in 1 .. n + 1, NEW j \in 1 .. n + 1, p[i] = p[j] PROVE i = j
  <2>1. ASSUME NEW k \in 1 .. n + 1, k # ind PROVE p[k] # n + 1
    <3>1. CASE k < ind
      <4>1. k \in 1 .. n /\ p[k] = o[k]
        BY <1>1, <1>3, <1>10, <3>1
      <4> QED BY <1>1, <1>7, <4>1
    <3>2. CASE k > ind
      <4>1. k - 1 \in 1 .. n /\ p[k] = o[k - 1]
        BY <1>1, <1>3, <1>10, <3>2
      <4> QED BY <1>1, <1>7, <4>1
    <3> QED BY <1>10, <2>1, <3>1, <3>2
  <2>2. CASE i = ind \/ j = ind
    BY <1>3, <1>10, <1>13, <2>1, <2>2
  <2>3. CASE i # ind /\ j # ind
    <3> DEFINE a(k) == IF k < ind THEN k ELSE k - 1
    <3>1. a(i) \in 1 .. n /\ a(j) \in 1 .. n /\ p[i] = o[a(i)] /\ p[j] = o[a(j)]
      BY <1>1, <1>3, <1>10, <2>3
    <3>2. a(i) = a(j)
      <4> HIDE DEF a
      <4> QED BY <1>7, <1>13, <3>1
    <3> QED BY <1>1, <1>10, <2>3, <3>2
  <2> QED BY <2>2, <2>3
<1>14. \A s \in 1 .. n + 1 : q[s] \in ItemType
  <2>1. \A s \in 1 .. n + 1 : s = n + 1 \/ (s \in 1 .. n /\ s # n + 1)
    BY <1>1
  <2> QED BY <1>2, <1>4, <1>7, <2>1
<1>15. \A s \in Slot : s > n + 1 => q[s] = Zero
  <2>1. \A s \in Slot : s > n + 1 => s > n /\ s # n + 1
    BY <1>1 DEF Slot
  <2> QED BY <1>4, <1>7, <2>1
<1>16. n + 1 <= MaxItems
  BY <1>1, Sizes
<1>17. Placed(c)
  BY <1>5, <1>6, <1>11, <1>12, <1>13, <1>14, <1>15, <1>16 DEF Placed
<1>18. ASSUME NEW j \in 1 .. n + 1
       PROVE IndItem(c, j) = IF j < ind THEN IndItem(b, j) ELSE IF j = ind THEN item ELSE IndItem(b, j - 1)
  <2>1. CASE j = ind
    BY <1>3, <1>4, <1>9, <1>10, <2>1
  <2>2. CASE j < ind
    <3>1. p[j] = o[j] /\ j \in 1 .. n /\ o[j] \in 1 .. n
      BY <1>1, <1>3, <1>7, <1>10, <2>2
    <3>2. q[o[j]] = b.slots[o[j]]
      BY <1>1, <1>2, <1>4, <3>1
    <3> QED BY <1>8, <1>9, <2>2, <3>1, <3>2
  <2>3. CASE j > ind
    <3>1. p[j] = o[j - 1] /\ j - 1 \in 1 .. n /\ o[j - 1] \in 1 .. n
      BY <1>1, <1>3, <1>7, <1>10, <2>3
    <3>2. q[o[j - 1]] = b.slots[o[j - 1]]
      BY <1>1, <1>2, <1>4, <3>1
    <3> QED BY <1>8, <1>9, <1>10, <2>3, <3>1, <3>2
  <2> QED BY <1>10, <2>1, <2>2, <2>3
<1> QED BY <1>6, <1>17, <1>18 DEF n, c

\* At its place in the order of the keys it keeps that order.
LEMMA InsertKeepsGood ==
    ASSUME NEW b, Good(b), Nr(b) < MaxItems, NEW ind \in 1 .. Nr(b) + 1, NEW item \in ItemType,
           \A i \in 1 .. Nr(b) : i < ind => IndItem(b, i).key < item.key,
           \A i \in 1 .. Nr(b) : i >= ind => item.key < IndItem(b, i).key
    PROVE  Good(InsertItem(b, ind, item))
<1> DEFINE n == Nr(b)
           c == InsertItem(b, ind, item)
<1>1. Placed(b) /\ n \in Nat
  BY PlacedItems DEF Good
<1>2. /\ Placed(c) /\ Nr(c) = n + 1
      /\ \A j \in 1 .. n + 1 : IndItem(c, j) = IF j < ind THEN IndItem(b, j)
                                               ELSE IF j = ind THEN item ELSE IndItem(b, j - 1)
  BY <1>1, InsertItemFacts
<1> HIDE DEF c
<1>3. \A i \in 1 .. n : IndItem(b, i).key \in Int
  BY <1>1, PlacedItems
<1>4. \A i, j \in 1 .. n : i < j => IndItem(b, i).key < IndItem(b, j).key
  BY DEF Good, Ordered
<1>5. ASSUME NEW i \in 1 .. n + 1, NEW j \in 1 .. n + 1, i < j
      PROVE  IndItem(c, i).key < IndItem(c, j).key
  <2>1. ind \in 1 .. n + 1 /\ i \in Nat /\ j \in Nat /\ ind \in Nat
    BY <1>1
  <2>2. CASE j < ind
    <3>1. IndItem(c, i) = IndItem(b, i) /\ IndItem(c, j) = IndItem(b, j) /\ i \in 1 .. n /\ j \in 1 .. n
      BY <1>1, <1>2, <1>5, <2>1, <2>2
    <3> QED BY <1>4, <1>5, <3>1
  <2>3. CASE j = ind
    <3>1. IndItem(c, i) = IndItem(b, i) /\ IndItem(c, j) = item /\ i \in 1 .. n /\ i < ind
      BY <1>1, <1>2, <1>5, <2>1, <2>3
    <3> QED BY <3>1
  <2>4. CASE j > ind /\ i = ind
    <3>1. IndItem(c, i) = item /\ IndItem(c, j) = IndItem(b, j - 1) /\ j - 1 \in 1 .. n /\ j - 1 >= ind
      BY <1>1, <1>2, <1>5, <2>1, <2>4
    <3> QED BY <3>1
  <2>5. CASE j > ind /\ i < ind
    <3>1. /\ IndItem(c, i) = IndItem(b, i) /\ IndItem(c, j) = IndItem(b, j - 1)
          /\ i \in 1 .. n /\ j - 1 \in 1 .. n /\ i < j - 1
      BY <1>1, <1>2, <1>5, <2>1, <2>5
    <3> QED BY <1>4, <3>1
  <2>6. CASE i > ind
    <3>1. /\ IndItem(c, i) = IndItem(b, i - 1) /\ IndItem(c, j) = IndItem(b, j - 1)
          /\ i - 1 \in 1 .. n /\ j - 1 \in 1 .. n /\ i - 1 < j - 1
      BY <1>1, <1>2, <1>5, <2>1, <2>6
    <3> QED BY <1>4, <3>1
  <2> QED BY <1>5, <2>1, <2>2, <2>3, <2>4, <2>5, <2>6
<1> QED BY <1>2, <1>5 DEF Good, Ordered, c

\* delete_item closes the gap in the order and the one in memory.  It needs
\* the order of the other keys only, to find the offset of the end item.
LEMMA DeleteItemFacts ==
    ASSUME NEW b, Placed(b), NEW ind \in 1 .. Nr(b),
           \A i, j \in 1 .. Nr(b) : i < j /\ i # ind /\ j # ind => IndItem(b, i).key < IndItem(b, j).key
    PROVE  LET c == DeleteItem(b, ind) IN
           /\ Good(c)
           /\ Nr(c) = Nr(b) - 1
           /\ \A j \in 1 .. Nr(b) - 1 : IndItem(c, j) = IF j < ind THEN IndItem(b, j) ELSE IndItem(b, j + 1)
<1> DEFINE n == Nr(b)
           o == b.offsets
           off == o[ind]
           r == RemoveAt(o, ind)
           less == [b EXCEPT !.offsets = r]
           at(j) == IF j < ind THEN j ELSE j + 1
           find == FindKey(less, b.slots[n].key).ind
           c == DeleteItem(b, ind)
<1>1. /\ n \in Nat /\ n = Len(o) /\ n <= MaxItems /\ o \in Seq(Slot) /\ ind \in 1 .. n
      /\ b.slots \in [Slot -> ItemType \union {Zero}] /\ b \in BlockType
  BY PlacedItems DEF Placed
<1>2. \A i \in 1 .. n : i \in Slot
  BY <1>1, Sizes
<1>3. /\ r \in Seq(Slot) /\ Len(r) = n - 1
      /\ \A j \in 1 .. n - 1 : r[j] = IF j < ind THEN o[j] ELSE o[j + 1]
  <2>1. ind \in 1 .. Len(o)
    BY <1>1
  <2> HIDE DEF n, o
  <2> QED BY <1>1, <2>1, RemoveAtFacts
<1>4. less.offsets = r /\ less.slots = b.slots /\ Nr(less) = n - 1
  <2>1. less.offsets = r /\ less.slots = b.slots
    BY <1>1, Zenon DEF BlockType
  <2> QED BY <1>3, <2>1 DEF Nr
<1>5. /\ \A i \in 1 .. n : o[i] \in 1 .. n
      /\ \A s \in 1 .. n : \E i \in 1 .. n : o[i] = s
      /\ \A i, j \in 1 .. n : o[i] = o[j] => i = j
      /\ \A s \in 1 .. n : b.slots[s] \in ItemType
      /\ \A s \in Slot : s > n => b.slots[s] = Zero
  BY DEF Placed
<1>6. \A i : IndItem(b, i) = b.slots[o[i]] /\ IndItem(less, i) = b.slots[r[i]]
  BY <1>4 DEF IndItem
<1>7. \A i \in 1 .. n : IndItem(b, i).key \in Int
  BY PlacedItems
<1>8. \A i, j \in 1 .. n : i < j /\ i # ind /\ j # ind => IndItem(b, i).key < IndItem(b, j).key
  OBVIOUS
<1>9. c = IF off = n THEN [less EXCEPT !.slots[n] = Zero]
          ELSE [offsets |-> [less.offsets EXCEPT ![find] = off],
                slots   |-> [less.slots EXCEPT ![off] = b.slots[n], ![n] = Zero]]
  BY Zenon DEF DeleteItem
<1>10. less \in BlockType
  BY <1>1, <1>3 DEF BlockType
<1>11. off = o[ind] /\ off \in 1 .. n
  BY <1>1, <1>5
<1> HIDE DEF n, o, off, r, less, find, c
<1>12. \A j \in 1 .. n - 1 : at(j) \in 1 .. n /\ at(j) # ind /\ r[j] = o[at(j)]
  BY <1>1, <1>3
<1>13. \A i, j \in 1 .. n - 1 : i < j => at(i) < at(j)
  BY <1>1
<1>14. \A i \in 1 .. n : i # ind => \E j \in 1 .. n - 1 : at(j) = i
  <2> SUFFICES ASSUME NEW i \in 1 .. n, i # ind PROVE \E j \in 1 .. n - 1 : at(j) = i
    OBVIOUS
  <2>1. CASE i < ind
    <3>1. i \in 1 .. n - 1 /\ at(i) = i
      BY <1>1, <2>1
    <3> QED BY <3>1
  <2>2. CASE i > ind
    <3>1. i - 1 \in 1 .. n - 1 /\ at(i - 1) = i
      BY <1>1, <2>2
    <3> QED BY <3>1
  <2> QED BY <1>1, <2>1, <2>2
<1>15. \A i, j \in 1 .. n - 1 : r[i] = r[j] => i = j
  <2> SUFFICES ASSUME NEW i \in 1 .. n - 1, NEW j \in 1 .. n - 1, r[i] = r[j] PROVE i = j
    OBVIOUS
  <2>1. at(i) = at(j)
    <3> HIDE DEF at
    <3> QED BY <1>5, <1>12
  <2> QED BY <1>1, <2>1
<1>16. \A j \in 1 .. n - 1 : IndItem(less, j) = IndItem(b, at(j))
  BY <1>6, <1>12, Zenon
<1> HIDE DEF at
<1>17. \A j \in 1 .. n - 1 : r[j] \in 1 .. n /\ r[j] # off
  <2>1. \A i \in 1 .. n : i # ind => o[i] \in 1 .. n /\ o[i] # off
    BY <1>1, <1>5, <1>11
  <2> QED BY <1>12, <2>1
<1>18. Searchable(less)
  <2>1. \A j \in 1 .. n - 1 : IndItem(less, j).key \in Int
    BY <1>7, <1>12, <1>16
  <2>2. \A i, j \in 1 .. n - 1 : i < j => IndItem(less, i).key < IndItem(less, j).key
    BY <1>8, <1>12, <1>13, <1>16
  <2>3. n - 1 \in Nat /\ n - 1 <= MaxItems
    BY <1>1, Sizes
  <2> QED BY <1>4, <2>1, <2>2, <2>3 DEF Searchable, Ordered
<1>19. ASSUME off # n PROVE find \in 1 .. n - 1 /\ r[find] = n
  <2>1. n \in 1 .. n
    BY <1>1
  <2>2. PICK i \in 1 .. n : o[i] = n
    BY <1>5, <2>1
  <2>3. i # ind
    BY <1>11, <1>19, <2>2
  <2>4. PICK j \in 1 .. n - 1 : at(j) = i
    BY <1>14, <2>3
  <2>5. r[j] = n
    BY <1>12, <2>2, <2>4
  <2>6. IndItem(less, j) = b.slots[n]
    BY <1>6, <2>5
  <2>7. IndItem(less, j).key \in Int /\ j \in 1 .. Nr(less) /\ b.slots[n].key \in Int
    BY <1>4, <1>7, <1>12, <1>16, <2>6
  <2>8. FindKey(less, b.slots[n].key).ind = j
    BY <1>18, <2>6, <2>7, FindKeyFacts
  <2> QED BY <2>5, <2>8 DEF find
<1>20. /\ c \in BlockType /\ Len(c.offsets) = n - 1
       /\ \A j \in 1 .. n - 1 : c.offsets[j] = IF r[j] = n THEN off ELSE r[j]
       /\ \A s \in Slot : c.slots[s] = IF s = n THEN Zero ELSE IF s = off THEN b.slots[n] ELSE b.slots[s]
  <2>1. n \in Slot /\ off \in Slot /\ n \in 1 .. n
    BY <1>1, <1>2, <1>11
  <2>2. CASE off = n
    <3>1. c = [less EXCEPT !.slots[n] = Zero]
      BY <1>9, <2>2
    <3>2. c.offsets = r /\ c.slots = [b.slots EXCEPT ![n] = Zero] /\ c = [offsets |-> c.offsets, slots |-> c.slots]
      BY <1>4, <1>10, <3>1, Zenon DEF BlockType
    <3> DEFINE q == [b.slots EXCEPT ![n] = Zero]
    <3>3. q \in [Slot -> ItemType \union {Zero}] /\ \A s \in Slot : q[s] = IF s = n THEN Zero ELSE b.slots[s]
      BY <1>1, <2>1
    <3> HIDE DEF q
    <3>4. c \in BlockType
      BY <1>3, <3>2, <3>3 DEF BlockType, q
    <3>5. \A j \in 1 .. n - 1 : r[j] # n
      BY <1>17, <2>2
    <3> QED BY <1>3, <2>2, <3>2, <3>3, <3>4, <3>5 DEF q
  <2>3. CASE off # n
    <3> DEFINE p == [r EXCEPT ![find] = off]
               q == [[b.slots EXCEPT ![off] = b.slots[n]] EXCEPT ![n] = Zero]
    <3>1. c = [offsets |-> p, slots |-> q]
      BY <1>4, <1>9, <2>3
    <3>2. find \in 1 .. n - 1 /\ r[find] = n
      BY <1>19, <2>3
    <3>3. p \in Seq(Slot) /\ Len(p) = n - 1 /\ \A j \in 1 .. n - 1 : p[j] = IF j = find THEN off ELSE r[j]
      BY <1>3, <2>1, <3>2
    <3>4. \A j \in 1 .. n - 1 : r[j] = n <=> j = find
      BY <1>15, <3>2
    <3>5. b.slots[n] \in ItemType \union {Zero}
      BY <1>1, <2>1
    <3>6. q \in [Slot -> ItemType \union {Zero}]
          /\ \A s \in Slot : q[s] = IF s = n THEN Zero ELSE IF s = off THEN b.slots[n] ELSE b.slots[s]
      BY <1>1, <2>1, <3>5
    <3>7. c.offsets = p /\ c.slots = q
      BY <3>1
    <3> HIDE DEF p, q
    <3>8. c \in BlockType
      BY <3>1, <3>3, <3>6 DEF BlockType
    <3> QED BY <3>3, <3>4, <3>6, <3>7, <3>8
  <2> QED BY <2>2, <2>3
<1>21. Nr(c) = n - 1 /\ \A j : IndItem(c, j) = c.slots[c.offsets[j]]
  BY <1>20 DEF Nr, IndItem
<1> DEFINE p == c.offsets
           q == c.slots
<1>22. /\ \A j \in 1 .. n - 1 : p[j] = IF r[j] = n THEN off ELSE r[j]
       /\ \A s \in Slot : q[s] = IF s = n THEN Zero ELSE IF s = off THEN b.slots[n] ELSE b.slots[s]
       /\ \A j : IndItem(c, j) = q[p[j]]
  BY <1>20, <1>21
<1> HIDE DEF p, q
<1>23. \A j \in 1 .. n - 1 : p[j] \in 1 .. n - 1
  <2> SUFFICES ASSUME NEW j \in 1 .. n - 1 PROVE p[j] \in 1 .. n - 1
    OBVIOUS
  <2>1. r[j] \in 1 .. n /\ r[j] # off
    BY <1>17
  <2> QED BY <1>1, <1>11, <1>22, <2>1
<1>24. ASSUME NEW s \in 1 .. n - 1 PROVE \E j \in 1 .. n - 1 : p[j] = s
  <2>1. s \in 1 .. n /\ s # n /\ n \in 1 .. n
    BY <1>1
  <2>2. \A t \in 1 .. n : t # off => \E j \in 1 .. n - 1 : r[j] = t
    BY <1>5, <1>11, <1>12, <1>14
  <2>3. CASE s # off
    BY <1>22, <2>1, <2>2, <2>3
  <2>4. CASE s = off
    <3>1. PICK j \in 1 .. n - 1 : r[j] = n
      BY <2>1, <2>2, <2>4
    <3> QED BY <1>22, <2>4, <3>1
  <2> QED BY <2>3, <2>4
<1>25. ASSUME NEW i \in 1 .. n - 1, NEW j \in 1 .. n - 1, p[i] = p[j] PROVE i = j
  <2>1. r[i] # off /\ r[j] # off
    BY <1>17
  <2>2. r[i] = r[j]
    BY <1>22, <1>25, <2>1
  <2> QED BY <1>15, <2>2
<1>26. \A s \in 1 .. n - 1 : q[s] \in ItemType
  <2>1. \A s \in 1 .. n - 1 : s \in 1 .. n /\ s # n /\ s \in Slot
    BY <1>1, <1>2
  <2>2. b.slots[n] \in ItemType
    BY <1>1, <1>5
  <2> QED BY <1>5, <1>22, <2>1, <2>2
<1>27. \A s \in Slot : s > n - 1 => q[s] = Zero
  <2>1. \A s \in Slot : s > n - 1 => (s = n \/ (s > n /\ s # off /\ s # n))
    BY <1>1, <1>11 DEF Slot
  <2> QED BY <1>5, <1>22, <2>1
<1>28. n - 1 <= MaxItems
  BY <1>1, Sizes
<1>29. Placed(c)
  BY <1>20, <1>21, <1>23, <1>24, <1>25, <1>26, <1>27, <1>28 DEF Placed, p, q
<1>30. \A j \in 1 .. n - 1 : IndItem(c, j) = IndItem(b, at(j))
  <2> SUFFICES ASSUME NEW j \in 1 .. n - 1 PROVE q[p[j]] = b.slots[r[j]]
    BY <1>6, <1>12, <1>22
  <2>1. r[j] \in 1 .. n /\ r[j] # off /\ r[j] \in Slot /\ off \in Slot
    BY <1>2, <1>11, <1>17
  <2>2. CASE r[j] = n
    <3>1. p[j] = off /\ off # n
      BY <1>22, <2>1, <2>2
    <3> QED BY <1>22, <2>1, <2>2, <3>1
  <2>3. CASE r[j] # n
    BY <1>22, <2>1, <2>3
  <2> QED BY <2>2, <2>3
<1>31. Ordered(c)
  BY <1>8, <1>12, <1>13, <1>21, <1>30 DEF Ordered
<1>32. \A j \in 1 .. n - 1 : IndItem(c, j) = IF j < ind THEN IndItem(b, j) ELSE IndItem(b, j + 1)
  BY <1>30 DEF at
<1> QED BY <1>21, <1>29, <1>31, <1>32 DEF Good, n, c

-----------------------------------------------------------------------------
(* Changes in place, and copies.                                           *)

\* b with the item at ind replaced.
SetItem(b, ind, t) == [b EXCEPT !.slots[b.offsets[ind]] = t]

LEMMA SetItemFacts ==
    ASSUME NEW b, Placed(b), NEW ind \in 1 .. Nr(b), NEW t \in ItemType
    PROVE  LET c == SetItem(b, ind, t) IN
           /\ Placed(c) /\ Nr(c) = Nr(b)
           /\ \A j \in 1 .. Nr(b) : IndItem(c, j) = IF j = ind THEN t ELSE IndItem(b, j)
<1> DEFINE n == Nr(b)
           o == b.offsets
           q == [b.slots EXCEPT ![o[ind]] = t]
           c == SetItem(b, ind, t)
<1>1. /\ n \in Nat /\ n = Len(o) /\ n <= MaxItems /\ o \in Seq(Slot) /\ ind \in 1 .. n
      /\ b.slots \in [Slot -> ItemType \union {Zero}] /\ b \in BlockType
      /\ \A i \in 1 .. n : o[i] \in Slot
  BY PlacedItems DEF Placed
<1>2. c = [b EXCEPT !.slots = q]
  BY Zenon DEF SetItem
<1>3. c.offsets = o /\ c.slots = q
  BY <1>1, <1>2 DEF BlockType
<1>4. q \in [Slot -> ItemType \union {Zero}] /\ \A s \in Slot : q[s] = IF s = o[ind] THEN t ELSE b.slots[s]
  BY <1>1
<1>5. /\ \A i \in 1 .. n : o[i] \in 1 .. n
      /\ \A s \in 1 .. n : \E i \in 1 .. n : o[i] = s
      /\ \A i, j \in 1 .. n : o[i] = o[j] => i = j
      /\ \A s \in 1 .. n : b.slots[s] \in ItemType
      /\ \A s \in Slot : s > n => b.slots[s] = Zero
  BY DEF Placed
<1>6. \A i : IndItem(b, i) = b.slots[o[i]] /\ IndItem(c, i) = q[o[i]]
  BY <1>3 DEF IndItem
<1>7. Nr(c) = n
  BY <1>1, <1>3 DEF Nr
<1> HIDE DEF q
<1>8. c \in BlockType
  BY <1>1, <1>2, <1>4 DEF BlockType
<1> HIDE DEF n, o, c
<1>9. \A s \in 1 .. n : q[s] \in ItemType
  <2>1. \A s \in 1 .. n : s \in Slot
    BY <1>1, Sizes
  <2> QED BY <1>4, <1>5, <2>1
<1>10. \A s \in Slot : s > n => q[s] = Zero
  <2>1. \A s \in Slot : s > n => s # o[ind]
    BY <1>1, <1>5 DEF Slot
  <2> QED BY <1>4, <1>5, <2>1
<1>11. Placed(c)
  BY <1>1, <1>3, <1>5, <1>7, <1>8, <1>9, <1>10 DEF Placed
<1>12. \A j \in 1 .. n : IndItem(c, j) = IF j = ind THEN t ELSE IndItem(b, j)
  <2>1. \A j \in 1 .. n : o[j] \in Slot /\ (o[j] = o[ind] <=> j = ind)
    BY <1>1, <1>5
  <2> QED BY <1>4, <1>6, <2>1
<1> QED BY <1>7, <1>11, <1>12 DEF n, c

LEMMA WithKeyFacts ==
    ASSUME NEW b, Placed(b), NEW ind \in 1 .. Nr(b), NEW k \in Key
    PROVE  /\ WithKey(b, ind, k) = SetItem(b, ind, [IndItem(b, ind) EXCEPT !.key = k])
           /\ [IndItem(b, ind) EXCEPT !.key = k] \in ItemType
           /\ [IndItem(b, ind) EXCEPT !.key = k].key = k
<1> DEFINE t == IndItem(b, ind)
<1>1. t \in ItemType /\ t = b.slots[b.offsets[ind]] /\ b.offsets[ind] \in Slot
  BY PlacedItems
<1>2. [t EXCEPT !.key = k] \in ItemType /\ [t EXCEPT !.key = k].key = k
  <2> HIDE DEF t
  <2> QED BY <1>1 DEF ItemType
<1>3. WithKey(b, ind, k) = SetItem(b, ind, [t EXCEPT !.key = k])
  BY <1>1, Zenon DEF WithKey, SetItem
<1> QED BY <1>2, <1>3

LEMMA WithValueFacts ==
    ASSUME NEW b, Placed(b), NEW ind \in 1 .. Nr(b), NEW v \in Value
    PROVE  /\ WithValue(b, ind, v) = SetItem(b, ind, [IndItem(b, ind) EXCEPT !.val = v])
           /\ [IndItem(b, ind) EXCEPT !.val = v] \in ItemType
           /\ [IndItem(b, ind) EXCEPT !.val = v].key = IndItem(b, ind).key
<1> DEFINE t == IndItem(b, ind)
<1>1. t \in ItemType /\ t = b.slots[b.offsets[ind]] /\ b.offsets[ind] \in Slot
  BY PlacedItems
<1>2. [t EXCEPT !.val = v] \in ItemType /\ [t EXCEPT !.val = v].key = t.key
  <2> HIDE DEF t
  <2> QED BY <1>1 DEF ItemType
<1>3. WithValue(b, ind, v) = SetItem(b, ind, [t EXCEPT !.val = v])
  BY <1>1, Zenon DEF WithValue, SetItem
<1> QED BY <1>2, <1>3

\* alloc_block copies nothing but what is in use, and nothing else is there.
LEMMA CopiedIsSame ==
    ASSUME NEW b, Placed(b)
    PROVE  Copied(b) = b
<1> DEFINE q == [s \in Slot |-> IF s <= Nr(b) THEN b.slots[s] ELSE Zero]
<1>1. Copied(b) = [b EXCEPT !.slots = q]
  BY Zenon DEF Copied
<1>2. b \in BlockType /\ b.slots \in [Slot -> ItemType \union {Zero}] /\ Nr(b) \in Nat
  BY PlacedItems DEF Placed
<1>3. \A s \in Slot : q[s] = b.slots[s]
  <2>1. \A s \in Slot : s <= Nr(b) \/ s > Nr(b)
    BY <1>2 DEF Slot
  <2> QED BY <2>1 DEF Placed
<1>4. q = b.slots
  <2>1. q \in [Slot -> ItemType \union {Zero}]
    BY <1>2, <1>3
  <2> HIDE DEF q
  <2> QED BY <1>2, <1>3, <2>1
<1> HIDE DEF q
<1> QED BY <1>1, <1>2, <1>4 DEF BlockType

-----------------------------------------------------------------------------
(* move_items.                                                             *)

\* One iteration of its loop.
MoveStep(di, si, n, m) ==
    [dst |-> InsertItem(m.dst, di + n - 1, IndItem(m.src, si)), src |-> DeleteItem(m.src, si)]

\* f is the two blocks after each iteration.
MovesBy(dst, di, src, si, nr, f) ==
    /\ f[0] = [dst |-> dst, src |-> src]
    /\ \A n \in 1 .. nr : f[n] = MoveStep(di, si, n, f[n - 1])

LEMMA MoveItemsMoves ==
    ASSUME NEW dst, NEW di, NEW src, NEW si, NEW nr \in Nat
    PROVE  \E f : MovesBy(dst, di, src, si, nr, f) /\ MoveItems(dst, di, src, si, nr) = f[nr]
<1> DEFINE m0 == [dst |-> dst, src |-> src]
           Step(g, n) ==
               IF n = 0 THEN [dst |-> dst, src |-> src]
               ELSE [dst |-> InsertItem(g[n - 1].dst, di + n - 1, IndItem(g[n - 1].src, si)),
                     src |-> DeleteItem(g[n - 1].src, si)]
           Upto(k, g) == g = [n \in 0 .. k |-> Step(g, n)]
           Bad == {k \in Nat : ~ \E g : Upto(k, g)}
           moved == CHOOSE g : Upto(nr, g)
<1>1. MoveItems(dst, di, src, si, nr) = moved[nr]
  BY Zenon DEF MoveItems
<1>2. \A g, n : Step(g, n) = IF n = 0 THEN m0 ELSE MoveStep(di, si, n, g[n - 1])
  BY Zenon DEF MoveStep
<1> HIDE DEF Step, m0
<1>3. Bad = {}
  <2> SUFFICES ASSUME Bad # {} PROVE FALSE
    OBVIOUS
  <2>1. PICK k \in Nat : k \in Bad /\ \A j \in 0 .. (k - 1) : \E g : Upto(j, g)
    <3> HIDE DEF Upto
    <3>1. Bad \subseteq Nat
      OBVIOUS
    <3>2. PICK k \in Bad : \A j \in Bad : k <= j
      <4> HIDE DEF Bad
      <4> QED BY <3>1, LeastNat
    <3>3. \A j \in 0 .. (k - 1) : j \notin Bad /\ j \in Nat
      BY <3>1, <3>2
    <3> QED BY <3>2, <3>3
  <2>2. CASE k = 0
    <3> DEFINE g == [n \in 0 .. 0 |-> m0]
    <3>1. g[0] = m0
      OBVIOUS
    <3>2. \A n \in 0 .. 0 : Step(g, n) = m0
      BY <1>2
    <3>3. Upto(0, g)
      BY <3>2
    <3> QED BY <2>1, <2>2, <3>3
  <2>3. CASE k # 0
    <3>1. k - 1 \in Nat /\ k - 1 \in 0 .. (k - 1)
      BY <2>3
    <3>2. PICK g : Upto(k - 1, g)
      <4> HIDE DEF Upto
      <4> QED BY <2>1, <3>1
    <3> DEFINE h == [n \in 0 .. k |-> IF n < k THEN g[n] ELSE MoveStep(di, si, k, g[k - 1])]
    <3>3. \A n \in 0 .. (k - 1) : g[n] = Step(g, n)
      BY <3>2
    <3>4. (\A n \in 0 .. (k - 1) : h[n] = g[n]) /\ h[k] = MoveStep(di, si, k, g[k - 1])
      BY <2>3
    <3> HIDE DEF h
    <3>5. \A n \in 0 .. k : h[n] = Step(h, n)
      <4> SUFFICES ASSUME NEW n \in 0 .. k PROVE h[n] = Step(h, n)
        OBVIOUS
      <4>1. CASE n = 0
        BY <1>2, <2>3, <3>3, <3>4, <4>1
      <4>2. CASE n # 0 /\ n < k
        <5>1. n \in 0 .. (k - 1) /\ n - 1 \in 0 .. (k - 1)
          BY <2>3, <4>2
        <5> QED BY <1>2, <3>3, <3>4, <4>2, <5>1
      <4>3. CASE n = k
        BY <1>2, <2>3, <3>1, <3>4, <4>3
      <4> QED BY <4>1, <4>2, <4>3
    <3>6. h = [n \in 0 .. k |-> Step(h, n)]
      BY <3>5 DEF h
    <3> QED BY <2>1, <3>6
  <2> QED BY <2>2, <2>3
<1>4. \E g : Upto(nr, g)
  <2> HIDE DEF Upto
  <2> QED BY <1>3
<1>5. Upto(nr, moved)
  <2> HIDE DEF Upto
  <2> QED BY <1>4
<1> HIDE DEF moved
<1>6. \A n \in 0 .. nr : moved[n] = Step(moved, n)
  BY <1>5
<1>7. moved[0] = m0 /\ \A n \in 1 .. nr : moved[n] = MoveStep(di, si, n, moved[n - 1])
  BY <1>2, <1>6
<1> QED BY <1>1, <1>7 DEF MovesBy, m0

\* The blocks after n iterations.
Moved(dst, di, src, si, n, m) ==
    /\ Good(m.dst) /\ Good(m.src)
    /\ Nr(m.dst) = Nr(dst) + n /\ Nr(m.src) = Nr(src) - n
    /\ \A j \in 1 .. Nr(dst) + n :
         IndItem(m.dst, j) = IF j < di THEN IndItem(dst, j)
                             ELSE IF j < di + n THEN IndItem(src, si + j - di)
                             ELSE IndItem(dst, j - n)
    /\ \A j \in 1 .. Nr(src) - n :
         IndItem(m.src, j) = IF j < si THEN IndItem(src, j) ELSE IndItem(src, j + n)

\* nr items from si on may be moved to di: there is room, and their keys are
\* between those that are there.
MayMove(dst, di, src, si, nr) ==
    /\ Good(dst) /\ Good(src)
    /\ Nr(dst) + nr <= MaxItems
    /\ di \in 1 .. Nr(dst) + 1
    /\ si \in Nat /\ si >= 1 /\ si + nr - 1 <= Nr(src)
    /\ \A i \in 1 .. Nr(dst), j \in si .. si + nr - 1 :
         /\ i < di => IndItem(dst, i).key < IndItem(src, j).key
         /\ i >= di => IndItem(src, j).key < IndItem(dst, i).key

LEMMA MoveStepFacts ==
    ASSUME NEW dst, NEW di, NEW src, NEW si, NEW nr \in Nat, MayMove(dst, di, src, si, nr),
           NEW n \in 1 .. nr, NEW m, Moved(dst, di, src, si, n - 1, m)
    PROVE  Moved(dst, di, src, si, n, MoveStep(di, si, n, m))
<1> DEFINE D == Nr(dst)
           S == Nr(src)
           t == IndItem(m.src, si)
           d == InsertItem(m.dst, di + n - 1, t)
           s == DeleteItem(m.src, si)
<1>1. /\ D \in Nat /\ S \in Nat /\ D + nr <= MaxItems /\ di \in 1 .. D + 1 /\ si \in Nat /\ si >= 1
      /\ si + nr - 1 <= S /\ n \in 1 .. nr /\ nr \in Nat /\ di \in Nat /\ MaxItems \in Nat
  BY PlacedItems, Sizes DEF MayMove, Good
<1>2. /\ Good(m.dst) /\ Good(m.src) /\ Nr(m.dst) = D + (n - 1) /\ Nr(m.src) = S - (n - 1)
      /\ \A j \in 1 .. D + (n - 1) :
           IndItem(m.dst, j) = IF j < di THEN IndItem(dst, j)
                               ELSE IF j < di + (n - 1) THEN IndItem(src, si + j - di)
                               ELSE IndItem(dst, j - (n - 1))
      /\ \A j \in 1 .. S - (n - 1) :
           IndItem(m.src, j) = IF j < si THEN IndItem(src, j) ELSE IndItem(src, j + (n - 1))
  BY DEF Moved
<1>3. /\ \A i \in 1 .. D, j \in si .. si + nr - 1 :
           /\ i < di => IndItem(dst, i).key < IndItem(src, j).key
           /\ i >= di => IndItem(src, j).key < IndItem(dst, i).key
      /\ \A i, j \in 1 .. S : i < j => IndItem(src, i).key < IndItem(src, j).key
  BY DEF MayMove, Good, Ordered
<1>4. MoveStep(di, si, n, m).dst = d /\ MoveStep(di, si, n, m).src = s
  BY DEF MoveStep
<1> HIDE DEF D, S
<1>5. si \in 1 .. S - (n - 1) /\ di + n - 1 \in 1 .. (D + (n - 1)) + 1 /\ D + (n - 1) < MaxItems
  BY <1>1
<1>6. t = IndItem(src, si + (n - 1)) /\ si + (n - 1) \in si .. si + nr - 1 /\ si + (n - 1) \in 1 .. S
  BY <1>1, <1>2, <1>5
<1>7. Placed(m.dst) /\ Placed(m.src) /\ t \in ItemType
  BY <1>2, <1>5, PlacedItems DEF Good
<1> HIDE DEF t
<1>8. ASSUME NEW i \in 1 .. D + (n - 1), i < di + n - 1 PROVE IndItem(m.dst, i).key < t.key
  <2>1. CASE i < di
    <3>1. IndItem(m.dst, i) = IndItem(dst, i) /\ i \in 1 .. D
      BY <1>1, <1>2, <2>1
    <3> QED BY <1>3, <1>6, <2>1, <3>1
  <2>2. CASE i >= di
    <3>1. IndItem(m.dst, i) = IndItem(src, si + i - di)
      BY <1>1, <1>2, <1>8, <2>2
    <3>2. si + i - di \in 1 .. S /\ si + i - di < si + (n - 1)
      BY <1>1, <1>8, <2>2
    <3> QED BY <1>3, <1>6, <3>1, <3>2
  <2> QED BY <1>1, <2>1, <2>2
<1>9. ASSUME NEW i \in 1 .. D + (n - 1), i >= di + n - 1 PROVE t.key < IndItem(m.dst, i).key
  <2>1. IndItem(m.dst, i) = IndItem(dst, i - (n - 1))
    BY <1>1, <1>2, <1>9
  <2>2. i - (n - 1) \in 1 .. D /\ i - (n - 1) >= di
    BY <1>1, <1>9
  <2> QED BY <1>3, <1>6, <2>1, <2>2
<1>10. Good(d)
  BY <1>2, <1>5, <1>7, <1>8, <1>9, InsertKeepsGood
<1>11. /\ Nr(d) = (D + (n - 1)) + 1
       /\ \A j \in 1 .. (D + (n - 1)) + 1 :
            IndItem(d, j) = IF j < di + n - 1 THEN IndItem(m.dst, j)
                            ELSE IF j = di + n - 1 THEN t ELSE IndItem(m.dst, j - 1)
  BY <1>2, <1>5, <1>7, InsertItemFacts
<1>12. /\ Good(s) /\ Nr(s) = (S - (n - 1)) - 1
       /\ \A j \in 1 .. (S - (n - 1)) - 1 :
            IndItem(s, j) = IF j < si THEN IndItem(m.src, j) ELSE IndItem(m.src, j + 1)
  <2>1. \A i, j \in 1 .. Nr(m.src) : i < j /\ i # si /\ j # si => IndItem(m.src, i).key < IndItem(m.src, j).key
    BY <1>2 DEF Good, Ordered
  <2>2. si \in 1 .. Nr(m.src)
    BY <1>2, <1>5
  <2> QED BY <1>2, <1>7, <2>1, <2>2, DeleteItemFacts
<1> HIDE DEF d, s
<1>13. Nr(d) = D + n /\ Nr(s) = S - n
  BY <1>1, <1>11, <1>12
<1>14. ASSUME NEW j \in 1 .. D + n
       PROVE  IndItem(d, j) = IF j < di THEN IndItem(dst, j)
                              ELSE IF j < di + n THEN IndItem(src, si + j - di)
                              ELSE IndItem(dst, j - n)
  <2>1. /\ j \in 1 .. (D + (n - 1)) + 1
        /\ IndItem(d, j) = IF j < di + n - 1 THEN IndItem(m.dst, j)
                           ELSE IF j = di + n - 1 THEN t ELSE IndItem(m.dst, j - 1)
    BY <1>1, <1>11
  <2>2. CASE j < di
    <3>1. IndItem(d, j) = IndItem(m.dst, j) /\ j \in 1 .. D + (n - 1)
      BY <1>1, <2>1, <2>2
    <3> QED BY <1>2, <2>2, <3>1
  <2>3. CASE ~(j < di) /\ j < di + n - 1
    <3>1. IndItem(d, j) = IndItem(m.dst, j) /\ j \in 1 .. D + (n - 1) /\ j < di + (n - 1) /\ j < di + n
      BY <1>1, <2>1, <2>3
    <3> QED BY <1>2, <2>3, <3>1
  <2>4. CASE j = di + n - 1
    <3>1. IndItem(d, j) = t /\ si + j - di = si + (n - 1) /\ ~(j < di) /\ j < di + n
      BY <1>1, <2>1, <2>4
    <3> QED BY <1>6, <3>1
  <2>5. CASE j > di + n - 1
    <3>1. IndItem(d, j) = IndItem(m.dst, j - 1)
      BY <1>1, <2>1, <2>5
    <3>2. /\ j - 1 \in 1 .. D + (n - 1) /\ ~(j - 1 < di) /\ ~(j - 1 < di + (n - 1))
          /\ (j - 1) - (n - 1) = j - n /\ ~(j < di) /\ ~(j < di + n)
      BY <1>1, <2>5
    <3>3. IndItem(m.dst, j - 1) = IndItem(dst, (j - 1) - (n - 1))
      BY <1>2, <3>2
    <3> QED BY <3>1, <3>2, <3>3
  <2> QED BY <1>1, <2>2, <2>3, <2>4, <2>5
<1>15. ASSUME NEW j \in 1 .. S - n
       PROVE  IndItem(s, j) = IF j < si THEN IndItem(src, j) ELSE IndItem(src, j + n)
  <2>1. /\ j \in 1 .. (S - (n - 1)) - 1 /\ j \in 1 .. S - (n - 1) /\ j + 1 \in 1 .. S - (n - 1)
        /\ (j + 1) + (n - 1) = j + n
    BY <1>1
  <2>2. IndItem(s, j) = IF j < si THEN IndItem(m.src, j) ELSE IndItem(m.src, j + 1)
    BY <1>12, <2>1
  <2>3. CASE j < si
    BY <1>2, <2>1, <2>2, <2>3
  <2>4. CASE ~(j < si)
    <3>1. ~(j + 1 < si)
      BY <1>1, <2>4
    <3>2. IndItem(m.src, j + 1) = IndItem(src, (j + 1) + (n - 1))
      BY <1>2, <2>1, <3>1
    <3> QED BY <2>1, <2>2, <2>4, <3>2
  <2> QED BY <2>3, <2>4
<1> QED BY <1>4, <1>10, <1>12, <1>13, <1>14, <1>15 DEF Moved, D, S

\* move_items moves the items one by one, and both blocks stay packed.
LEMMA MoveItemsFacts ==
    ASSUME NEW dst, NEW di, NEW src, NEW si, NEW nr \in Nat, MayMove(dst, di, src, si, nr)
    PROVE  Moved(dst, di, src, si, nr, MoveItems(dst, di, src, si, nr))
<1>1. PICK f : MovesBy(dst, di, src, si, nr, f) /\ MoveItems(dst, di, src, si, nr) = f[nr]
  BY MoveItemsMoves
<1>2. f[0] = [dst |-> dst, src |-> src] /\ \A n \in 1 .. nr : f[n] = MoveStep(di, si, n, f[n - 1])
  BY <1>1 DEF MovesBy
<1> DEFINE P(n) == Moved(dst, di, src, si, n, f[n])
           Bad == {n \in 0 .. nr : ~P(n)}
<1>3. P(0)
  <2>1. Good(dst) /\ Good(src) /\ Nr(dst) \in Nat /\ Nr(src) \in Nat /\ di \in Nat
    BY PlacedItems DEF MayMove, Good
  <2>2. f[0].dst = dst /\ f[0].src = src
    BY <1>2
  <2> QED BY <2>1, <2>2 DEF Moved
<1>4. ASSUME NEW n \in 1 .. nr, P(n - 1) PROVE P(n)
  BY <1>2, <1>4, MoveStepFacts
<1> HIDE DEF P
<1>5. Bad = {}
  <2> SUFFICES ASSUME Bad # {} PROVE FALSE
    OBVIOUS
  <2>1. PICK n \in Bad : \A j \in Bad : n <= j
    <3>1. Bad \subseteq Nat
      OBVIOUS
    <3> HIDE DEF Bad
    <3> QED BY <3>1, LeastNat
  <2>2. n \in 1 .. nr /\ n - 1 \in 0 .. nr /\ ~P(n) /\ ~(n <= n - 1)
    BY <1>3, <2>1
  <2> QED BY <1>4, <2>1, <2>2
<1>6. P(nr)
  BY <1>5
<1> QED BY <1>1, <1>6 DEF P

-----------------------------------------------------------------------------
(* The items of a block, as a set.                                         *)

LEMMA ItemsFacts ==
    ASSUME NEW b, Good(b)
    PROVE  /\ Items(b) = {IndItem(b, i) : i \in 1 .. Nr(b)}
           /\ \A i, j \in 1 .. Nr(b) : IndItem(b, i).key = IndItem(b, j).key => i = j
           /\ \A x \in Items(b) : x \in ItemType /\ x.key \in Int
           /\ \A x, y \in Items(b) : x.key = y.key => x = y
           /\ IsFiniteSet(Items(b)) /\ Cardinality(Items(b)) = Nr(b)
<1> DEFINE n == Nr(b)
           f == [i \in 1 .. n |-> IndItem(b, i)]
<1>1. n \in Nat /\ \A i \in 1 .. n : IndItem(b, i) \in ItemType /\ IndItem(b, i).key \in Int
  BY PlacedItems DEF Good
<1>2. Items(b) = {IndItem(b, i) : i \in 1 .. n}
  BY DEF Items
<1>3. \A i, j \in 1 .. n : i < j => IndItem(b, i).key < IndItem(b, j).key
  BY DEF Good, Ordered
<1> HIDE DEF n
<1>4. ASSUME NEW i \in 1 .. n, NEW j \in 1 .. n, IndItem(b, i).key = IndItem(b, j).key PROVE i = j
  <2>1. IndItem(b, i).key \in Int /\ IndItem(b, j).key \in Int /\ i \in Nat /\ j \in Nat
    BY <1>1
  <2>2. ~(i < j) /\ ~(j < i)
    BY <1>3, <1>4, <2>1
  <2> QED BY <2>1, <2>2
<1>5. f \in Bijection(1 .. n, Items(b))
  <2>1. f \in [1 .. n -> Items(b)]
    BY <1>2
  <2>2. \A i, j \in 1 .. n : f[i] = f[j] => i = j
    BY <1>4
  <2>3. \A x \in Items(b) : \E i \in 1 .. n : f[i] = x
    BY <1>2
  <2> HIDE DEF f
  <2> QED BY <2>1, <2>2, <2>3 DEF Bijection, Injection, Surjection, IsInjective
<1>6. IsFiniteSet(1 .. n) /\ Cardinality(1 .. n) = n
  BY <1>1, FS_Interval
<1>7. IsFiniteSet(Items(b)) /\ Cardinality(Items(b)) = n
  <2>1. ExistsBijection(1 .. n, Items(b))
    BY <1>5 DEF ExistsBijection
  <2> QED BY <1>6, <2>1, FS_Bijection
<1>8. \A x \in Items(b) : x \in ItemType /\ x.key \in Int
  BY <1>1, <1>2
<1>9. \A x, y \in Items(b) : x.key = y.key => x = y
  BY <1>2, <1>4
<1> QED BY <1>2, <1>4, <1>7, <1>8, <1>9 DEF n

LEMMA InsertedItems ==
    ASSUME NEW b, Good(b), NEW k \in Key, NEW v \in Value, FindKey(b, k).cmp # 0, Nr(b) < MaxItems
    PROVE  LET c == InsertItem(b, FindKey(b, k).ind, [key |-> k, val |-> v]) IN
           /\ Good(c)
           /\ Items(c) = Items(b) \union {[key |-> k, val |-> v]}
           /\ \A x \in Items(b) : x.key # k
<1> DEFINE n == Nr(b)
           ind == FindKey(b, k).ind
           t == [key |-> k, val |-> v]
           c == InsertItem(b, ind, t)
<1>1. n \in Nat /\ k \in Int /\ t \in ItemType /\ t.key = k /\ Placed(b)
  BY PlacedItems, Sizes DEF Good, ItemType
<1>2. /\ ind \in 1 .. n + 1
      /\ \A i \in 1 .. n : i < ind => IndItem(b, i).key < k
      /\ \A i \in 1 .. n : i >= ind => k < IndItem(b, i).key
  BY <1>1, GoodSearchable, FindKeyFacts
<1>3. \A i \in 1 .. n : IndItem(b, i).key \in Int
  BY <1>1, PlacedItems
<1> HIDE DEF ind, t
<1>4. Good(c)
  BY <1>1, <1>2, InsertKeepsGood
<1>5. /\ Nr(c) = n + 1
      /\ \A j \in 1 .. n + 1 : IndItem(c, j) = IF j < ind THEN IndItem(b, j)
                                               ELSE IF j = ind THEN t ELSE IndItem(b, j - 1)
  BY <1>1, <1>2, InsertItemFacts
<1> HIDE DEF c
<1>6. Items(b) = {IndItem(b, i) : i \in 1 .. n} /\ Items(c) = {IndItem(c, i) : i \in 1 .. n + 1}
  BY <1>4, <1>5, ItemsFacts
<1> HIDE DEF n
<1>7. \A x \in Items(c) : x \in Items(b) \union {t}
  <2> SUFFICES ASSUME NEW j \in 1 .. n + 1 PROVE IndItem(c, j) \in Items(b) \union {t}
    BY <1>6
  <2>1. CASE j < ind
    <3>1. j \in 1 .. n
      BY <1>1, <1>2, <2>1
    <3> QED BY <1>5, <1>6, <2>1, <3>1
  <2>2. CASE j = ind
    BY <1>1, <1>2, <1>5, <2>2
  <2>3. CASE j > ind
    <3>1. j - 1 \in 1 .. n /\ ~(j < ind) /\ j # ind
      BY <1>1, <1>2, <2>3
    <3> QED BY <1>5, <1>6, <3>1
  <2> QED BY <1>2, <2>1, <2>2, <2>3
<1>8. t \in Items(c)
  BY <1>1, <1>2, <1>5, <1>6
<1>9. \A x \in Items(b) : x \in Items(c)
  <2> SUFFICES ASSUME NEW i \in 1 .. n PROVE IndItem(b, i) \in Items(c)
    BY <1>6
  <2>1. CASE i < ind
    <3>1. i \in 1 .. n + 1
      BY <1>1
    <3> QED BY <1>5, <1>6, <2>1, <3>1
  <2>2. CASE i >= ind
    <3>1. i + 1 \in 1 .. n + 1 /\ ~(i + 1 < ind) /\ i + 1 # ind /\ (i + 1) - 1 = i
      BY <1>1, <1>2, <2>2
    <3> QED BY <1>5, <1>6, <3>1
  <2> QED BY <1>2, <2>1, <2>2
<1>10. \A x \in Items(b) : x.key # k
  <2> SUFFICES ASSUME NEW i \in 1 .. n PROVE IndItem(b, i).key # k
    BY <1>6
  <2>1. i < ind \/ i >= ind
    BY <1>2
  <2> QED BY <1>1, <1>2, <1>3, <2>1
<1>11. Items(c) = Items(b) \union {t}
  BY <1>7, <1>8, <1>9
<1> QED BY <1>4, <1>10, <1>11 DEF c, t, ind

LEMMA DeletedItems ==
    ASSUME NEW b, Good(b), NEW ind \in 1 .. Nr(b)
    PROVE  /\ Good(DeleteItem(b, ind))
           /\ Nr(DeleteItem(b, ind)) = Nr(b) - 1
           /\ Items(DeleteItem(b, ind)) = Items(b) \ {IndItem(b, ind)}
           /\ IndItem(b, ind) \in Items(b)
<1> DEFINE n == Nr(b)
           c == DeleteItem(b, ind)
<1>1. n \in Nat /\ Placed(b) /\ ind \in 1 .. n
  BY PlacedItems DEF Good
<1>2. \A i, j \in 1 .. n : i < j /\ i # ind /\ j # ind => IndItem(b, i).key < IndItem(b, j).key
  BY DEF Good, Ordered
<1>3. /\ Good(c) /\ Nr(c) = n - 1
      /\ \A j \in 1 .. n - 1 : IndItem(c, j) = IF j < ind THEN IndItem(b, j) ELSE IndItem(b, j + 1)
  BY <1>1, <1>2, DeleteItemFacts
<1> HIDE DEF c
<1>4. /\ Items(b) = {IndItem(b, i) : i \in 1 .. n} /\ Items(c) = {IndItem(c, i) : i \in 1 .. n - 1}
      /\ \A i, j \in 1 .. n : IndItem(b, i).key = IndItem(b, j).key => i = j
  BY <1>3, ItemsFacts
<1> HIDE DEF n
<1>5. \A x \in Items(c) : x \in Items(b) \ {IndItem(b, ind)}
  <2> SUFFICES ASSUME NEW j \in 1 .. n - 1 PROVE IndItem(c, j) \in Items(b) \ {IndItem(b, ind)}
    BY <1>4
  <2>1. \E i \in 1 .. n : i # ind /\ IndItem(c, j) = IndItem(b, i)
    <3>1. j \in 1 .. n /\ j + 1 \in 1 .. n
      BY <1>1
    <3>2. CASE j < ind
      BY <1>1, <1>3, <3>1, <3>2
    <3>3. CASE ~(j < ind)
      <4>1. j + 1 # ind
        BY <1>1, <3>3
      <4> QED BY <1>3, <3>1, <3>3, <4>1
    <3> QED BY <3>2, <3>3
  <2> QED BY <1>1, <1>4, <2>1
<1>6. \A x \in Items(b) \ {IndItem(b, ind)} : x \in Items(c)
  <2> SUFFICES ASSUME NEW i \in 1 .. n, i # ind PROVE IndItem(b, i) \in Items(c)
    BY <1>4
  <2>1. CASE i < ind
    <3>1. i \in 1 .. n - 1
      BY <1>1, <2>1
    <3> QED BY <1>3, <1>4, <2>1, <3>1
  <2>2. CASE i > ind
    <3>1. i - 1 \in 1 .. n - 1 /\ ~(i - 1 < ind) /\ (i - 1) + 1 = i
      BY <1>1, <2>2
    <3> QED BY <1>3, <1>4, <3>1
  <2> QED BY <1>1, <2>1, <2>2
<1>7. IndItem(b, ind) \in Items(b)
  BY <1>1, <1>4
<1> QED BY <1>3, <1>5, <1>6, <1>7 DEF n, c

\* An item that gets another value, or a key between those of its neighbours.
LEMMA ReplacedItems ==
    ASSUME NEW b, Good(b), NEW ind \in 1 .. Nr(b), NEW t \in ItemType,
           ind > 1 => IndItem(b, ind - 1).key < t.key,
           ind < Nr(b) => t.key < IndItem(b, ind + 1).key
    PROVE  /\ Good(SetItem(b, ind, t))
           /\ Nr(SetItem(b, ind, t)) = Nr(b)
           /\ Items(SetItem(b, ind, t)) = (Items(b) \ {IndItem(b, ind)}) \union {t}
           /\ IndItem(b, ind) \in Items(b)
           /\ \A x \in Items(b) \ {IndItem(b, ind)} :
                x.key # t.key /\ (x.key < IndItem(b, ind).key <=> x.key < t.key)
<1> DEFINE n == Nr(b)
           c == SetItem(b, ind, t)
<1>1. n \in Nat /\ Placed(b) /\ ind \in 1 .. n /\ t.key \in Int
  BY PlacedItems, Sizes DEF Good, ItemType
<1>2. Placed(c) /\ Nr(c) = n /\ \A j \in 1 .. n : IndItem(c, j) = IF j = ind THEN t ELSE IndItem(b, j)
  BY <1>1, SetItemFacts
<1> HIDE DEF c
<1>3. /\ Items(b) = {IndItem(b, i) : i \in 1 .. n}
      /\ \A i, j \in 1 .. n : IndItem(b, i).key = IndItem(b, j).key => i = j
  BY ItemsFacts
<1>4. /\ \A i, j \in 1 .. n : i < j => IndItem(b, i).key < IndItem(b, j).key
      /\ ind > 1 => IndItem(b, ind - 1).key < t.key
      /\ ind < n => t.key < IndItem(b, ind + 1).key
  BY DEF Good, Ordered
<1>5. \A i \in 1 .. n : IndItem(b, i).key \in Int
  BY <1>1, PlacedItems
<1>6. Items(c) = {IndItem(c, i) : i \in 1 .. n}
  BY <1>2 DEF Items
<1> HIDE DEF n
<1>7. ASSUME NEW i \in 1 .. n, i < ind PROVE IndItem(b, i).key < t.key
  <2>1. ind - 1 \in 1 .. n /\ IndItem(b, ind - 1).key < t.key
    BY <1>1, <1>4, <1>7
  <2>2. i = ind - 1 \/ i < ind - 1
    BY <1>1, <1>7
  <2> QED BY <1>1, <1>4, <1>5, <2>1, <2>2
<1>8. ASSUME NEW i \in 1 .. n, ind < i PROVE t.key < IndItem(b, i).key
  <2>1. ind + 1 \in 1 .. n /\ t.key < IndItem(b, ind + 1).key
    BY <1>1, <1>4, <1>8
  <2>2. i = ind + 1 \/ ind + 1 < i
    BY <1>1, <1>8
  <2> QED BY <1>1, <1>4, <1>5, <2>1, <2>2
<1>9. Ordered(c)
  <2> SUFFICES ASSUME NEW i \in 1 .. n, NEW j \in 1 .. n, i < j PROVE IndItem(c, i).key < IndItem(c, j).key
    BY <1>2 DEF Ordered
  <2>1. CASE i = ind
    BY <1>2, <1>8, <2>1
  <2>2. CASE j = ind
    BY <1>2, <1>7, <2>2
  <2>3. CASE i # ind /\ j # ind
    BY <1>2, <1>4, <2>3
  <2> QED BY <2>1, <2>2, <2>3
<1>10. \A x \in Items(c) : x \in (Items(b) \ {IndItem(b, ind)}) \union {t}
  <2> SUFFICES ASSUME NEW i \in 1 .. n PROVE IndItem(c, i) \in (Items(b) \ {IndItem(b, ind)}) \union {t}
    BY <1>6
  <2>1. CASE i = ind
    BY <1>2, <2>1
  <2>2. CASE i # ind
    BY <1>1, <1>2, <1>3, <2>2
  <2> QED BY <2>1, <2>2
<1>11. \A x \in (Items(b) \ {IndItem(b, ind)}) \union {t} : x \in Items(c)
  <2>1. t \in Items(c)
    BY <1>1, <1>2, <1>6
  <2>2. ASSUME NEW i \in 1 .. n, i # ind PROVE IndItem(b, i) \in Items(c)
    BY <1>2, <1>6, <2>2
  <2> QED BY <1>3, <2>1, <2>2
<1>12. ASSUME NEW x \in Items(b), x # IndItem(b, ind)
       PROVE  x.key # t.key /\ (x.key < IndItem(b, ind).key <=> x.key < t.key)
  <2>1. PICK i \in 1 .. n : x = IndItem(b, i)
    BY <1>3
  <2>2. i # ind /\ x.key \in Int /\ IndItem(b, ind).key \in Int
    BY <1>1, <1>5, <1>12, <2>1
  <2>3. CASE i < ind
    <3>1. x.key < t.key /\ x.key < IndItem(b, ind).key
      BY <1>1, <1>4, <1>7, <2>1, <2>3
    <3> QED BY <1>1, <2>2, <3>1
  <2>4. CASE ind < i
    <3>1. t.key < x.key /\ IndItem(b, ind).key < x.key
      BY <1>1, <1>4, <1>8, <2>1, <2>4
    <3> QED BY <1>1, <2>2, <3>1
  <2> QED BY <1>1, <2>2, <2>3, <2>4
<1>13. IndItem(b, ind) \in Items(b)
  BY <1>1, <1>3
<1> QED BY <1>2, <1>9, <1>10, <1>11, <1>12, <1>13 DEF Good, n, c

\* The first of two references takes the key of the second, which goes.
LEMMA AbsorbedItems ==
    ASSUME NEW b, Good(b), Nr(b) > 1
    PROVE  LET c == DeleteItem(WithKey(b, 1, IndItem(b, 2).key), 2)
               i == IndItem(b, 1)
               j == IndItem(b, 2)
           IN /\ Good(c)
              /\ Items(c) = (Items(b) \ {i, j}) \union {[i EXCEPT !.key = j.key]}
              /\ i \in Items(b) /\ j \in Items(b) /\ i.key < j.key
              /\ \A x \in Items(b) : i.key <= x.key /\ (x.key < j.key <=> x = i)
<1> DEFINE n == Nr(b)
           i == IndItem(b, 1)
           j == IndItem(b, 2)
           t == [i EXCEPT !.key = j.key]
           w == WithKey(b, 1, j.key)
           c == DeleteItem(w, 2)
<1>1. n \in Nat /\ Placed(b) /\ 1 \in 1 .. n /\ 2 \in 1 .. n /\ n > 1
  BY PlacedItems DEF Good
<1>2. j.key \in Key /\ j.val \in Value /\ i.key \in Int /\ j.key \in Int
  BY <1>1, PlacedItems
<1>3. w = SetItem(b, 1, t) /\ t \in ItemType /\ t.key = j.key
  <2>1. Placed(b) /\ 1 \in 1 .. Nr(b) /\ j.key \in Key
    BY <1>1, <1>2
  <2> HIDE DEF j, n
  <2> QED BY <2>1, WithKeyFacts
<1>4. Placed(w) /\ Nr(w) = n /\ \A m \in 1 .. n : IndItem(w, m) = IF m = 1 THEN t ELSE IndItem(b, m)
  BY <1>1, <1>3, SetItemFacts
<1>5. /\ Items(b) = {IndItem(b, m) : m \in 1 .. n}
      /\ \A m, l \in 1 .. n : IndItem(b, m).key = IndItem(b, l).key => m = l
  BY ItemsFacts
<1>6. \A m, l \in 1 .. n : m < l => IndItem(b, m).key < IndItem(b, l).key
  BY DEF Good, Ordered
<1>7. \A m \in 1 .. n : IndItem(b, m).key \in Int
  BY <1>1, PlacedItems
<1>8. i = IndItem(b, 1) /\ j = IndItem(b, 2)
  OBVIOUS
<1> HIDE DEF w, t, i, j
<1>9. \A m, l \in 1 .. n : m < l /\ m # 2 /\ l # 2 => IndItem(w, m).key < IndItem(w, l).key
  <2> SUFFICES ASSUME NEW m \in 1 .. n, NEW l \in 1 .. n, m < l, m # 2, l # 2
               PROVE  IndItem(w, m).key < IndItem(w, l).key
    OBVIOUS
  <2>1. l > 2 /\ l # 1
    BY <1>1
  <2>2. IndItem(w, l) = IndItem(b, l)
    BY <1>4, <2>1
  <2>3. CASE m = 1
    BY <1>1, <1>3, <1>4, <1>6, <1>8, <2>1, <2>2, <2>3
  <2>4. CASE m # 1
    BY <1>4, <1>6, <2>2, <2>4
  <2> QED BY <2>3, <2>4
<1>10. /\ Good(c) /\ Nr(c) = n - 1
       /\ \A m \in 1 .. n - 1 : IndItem(c, m) = IF m < 2 THEN IndItem(w, m) ELSE IndItem(w, m + 1)
  <2>1. 2 \in 1 .. Nr(w)
    BY <1>1, <1>4
  <2> QED BY <1>4, <1>9, <2>1, DeleteItemFacts
<1> HIDE DEF c
<1>11. Items(c) = {IndItem(c, m) : m \in 1 .. n - 1}
  BY <1>10 DEF Items
<1> HIDE DEF n
<1>12. \A x \in Items(c) : x \in (Items(b) \ {i, j}) \union {t}
  <2> SUFFICES ASSUME NEW m \in 1 .. n - 1 PROVE IndItem(c, m) \in (Items(b) \ {i, j}) \union {t}
    BY <1>11
  <2>1. CASE m = 1
    BY <1>1, <1>4, <1>10, <2>1
  <2>2. CASE m # 1
    <3>1. m + 1 \in 1 .. n /\ m + 1 # 1 /\ m + 1 # 2 /\ ~(m < 2)
      BY <1>1, <2>2
    <3>2. IndItem(c, m) = IndItem(b, m + 1)
      BY <1>4, <1>10, <3>1
    <3>3. IndItem(b, m + 1) # i /\ IndItem(b, m + 1) # j
      BY <1>1, <1>5, <1>8, <3>1
    <3> QED BY <1>5, <3>1, <3>2, <3>3
  <2> QED BY <2>1, <2>2
<1>13. \A x \in (Items(b) \ {i, j}) \union {t} : x \in Items(c)
  <2>1. t \in Items(c)
    <3>1. 1 \in 1 .. n - 1
      BY <1>1
    <3> QED BY <1>1, <1>4, <1>10, <1>11, <3>1
  <2>2. ASSUME NEW m \in 1 .. n, m # 1, m # 2 PROVE IndItem(b, m) \in Items(c)
    <3>1. m - 1 \in 1 .. n - 1 /\ ~(m - 1 < 2) /\ (m - 1) + 1 = m
      BY <1>1, <2>2
    <3>2. IndItem(c, m - 1) = IndItem(b, m)
      BY <1>4, <1>10, <2>2, <3>1
    <3> QED BY <1>11, <3>1, <3>2
  <2> QED BY <1>5, <1>8, <2>1, <2>2
<1>14. ASSUME NEW x \in Items(b) PROVE i.key <= x.key /\ (x.key < j.key <=> x = i)
  <2>1. PICK m \in 1 .. n : x = IndItem(b, m)
    BY <1>5
  <2>2. CASE m = 1
    BY <1>1, <1>2, <1>6, <1>8, <2>1, <2>2
  <2>3. CASE m = 2
    BY <1>1, <1>2, <1>6, <1>8, <2>1, <2>3
  <2>4. CASE m > 2
    <3>1. i.key < x.key /\ j.key < x.key /\ x.key \in Int
      BY <1>1, <1>6, <1>7, <1>8, <2>1, <2>4
    <3> QED BY <1>2, <3>1
  <2> QED BY <1>1, <2>2, <2>3, <2>4
<1>15. i \in Items(b) /\ j \in Items(b) /\ i.key < j.key
  BY <1>1, <1>5, <1>6, <1>8
<1> QED BY <1>10, <1>12, <1>13, <1>14, <1>15 DEF n, c, w, t, i, j

\* Moved items leave one set for the other.
LEMMA MovedItems ==
    ASSUME NEW dst, NEW di, NEW src, NEW si, NEW nr \in Nat, MayMove(dst, di, src, si, nr),
           NEW m, Moved(dst, di, src, si, nr, m)
    PROVE  /\ Items(m.dst) = Items(dst) \union {IndItem(src, j) : j \in si .. si + nr - 1}
           /\ Items(m.src) = {IndItem(src, j) : j \in (1 .. Nr(src)) \ (si .. si + nr - 1)}
<1> DEFINE D == Nr(dst)
           S == Nr(src)
<1>1. /\ D \in Nat /\ S \in Nat /\ di \in 1 .. D + 1 /\ si \in Nat /\ si >= 1
      /\ si + nr - 1 <= S /\ di \in Nat
  BY PlacedItems DEF MayMove, Good
<1>2. /\ \A j \in 1 .. D + nr :
           IndItem(m.dst, j) = IF j < di THEN IndItem(dst, j)
                               ELSE IF j < di + nr THEN IndItem(src, si + j - di)
                               ELSE IndItem(dst, j - nr)
      /\ \A j \in 1 .. S - nr :
           IndItem(m.src, j) = IF j < si THEN IndItem(src, j) ELSE IndItem(src, j + nr)
  BY DEF Moved
<1>3. /\ Items(m.dst) = {IndItem(m.dst, j) : j \in 1 .. D + nr}
      /\ Items(m.src) = {IndItem(m.src, j) : j \in 1 .. S - nr}
      /\ Items(dst) = {IndItem(dst, j) : j \in 1 .. D}
  BY DEF Items, Moved
<1> DEFINE T == {IndItem(src, j) : j \in si .. si + nr - 1}
           U == {IndItem(src, j) : j \in (1 .. S) \ (si .. si + nr - 1)}
<1> HIDE DEF D, S
<1>4. ASSUME NEW j \in 1 .. D + nr PROVE IndItem(m.dst, j) \in Items(dst) \union T
  <2>1. CASE j < di
    <3>1. j \in 1 .. D
      BY <1>1, <2>1
    <3> QED BY <1>2, <1>3, <2>1, <3>1
  <2>2. CASE ~(j < di) /\ j < di + nr
    <3>1. si + j - di \in si .. si + nr - 1
      BY <1>1, <2>2
    <3>2. IndItem(m.dst, j) = IndItem(src, si + j - di)
      BY <1>2, <2>2
    <3> QED BY <3>1, <3>2
  <2>3. CASE ~(j < di) /\ ~(j < di + nr)
    <3>1. j - nr \in 1 .. D
      BY <1>1, <2>3
    <3> QED BY <1>2, <1>3, <2>3, <3>1
  <2> QED BY <2>1, <2>2, <2>3
<1>5. ASSUME NEW i \in 1 .. D PROVE IndItem(dst, i) \in Items(m.dst)
  <2>1. CASE i < di
    <3>1. i \in 1 .. D + nr
      BY <1>1
    <3> QED BY <1>2, <1>3, <2>1, <3>1
  <2>2. CASE ~(i < di)
    <3>1. i + nr \in 1 .. D + nr /\ ~(i + nr < di) /\ ~(i + nr < di + nr) /\ (i + nr) - nr = i
      BY <1>1, <2>2
    <3>2. IndItem(m.dst, i + nr) = IndItem(dst, (i + nr) - nr)
      BY <1>2, <3>1
    <3> QED BY <1>3, <3>1, <3>2
  <2> QED BY <2>1, <2>2
<1>6. ASSUME NEW j \in si .. si + nr - 1 PROVE IndItem(src, j) \in Items(m.dst)
  <2> DEFINE k == j - si + di
  <2>1. k \in 1 .. D + nr /\ ~(k < di) /\ k < di + nr /\ si + k - di = j
    BY <1>1
  <2> HIDE DEF k
  <2>2. IndItem(m.dst, k) = IndItem(src, si + k - di)
    BY <1>2, <2>1
  <2> QED BY <1>3, <2>1, <2>2
<1>7. Items(m.dst) = Items(dst) \union T
  BY <1>3, <1>4, <1>5, <1>6
<1>8. ASSUME NEW j \in 1 .. S - nr PROVE IndItem(m.src, j) \in U
  <2>1. CASE j < si
    <3>1. j \in (1 .. S) \ (si .. si + nr - 1)
      BY <1>1, <2>1
    <3> QED BY <1>2, <2>1, <3>1
  <2>2. CASE ~(j < si)
    <3>1. j + nr \in (1 .. S) \ (si .. si + nr - 1)
      BY <1>1, <2>2
    <3> QED BY <1>2, <2>2, <3>1
  <2> QED BY <2>1, <2>2
<1>9. ASSUME NEW j \in (1 .. S) \ (si .. si + nr - 1) PROVE IndItem(src, j) \in Items(m.src)
  <2>1. CASE j < si
    <3>1. j \in 1 .. S - nr
      BY <1>1, <2>1
    <3> QED BY <1>2, <1>3, <2>1, <3>1
  <2>2. CASE j >= si + nr
    <3>1. j - nr \in 1 .. S - nr /\ ~(j - nr < si) /\ (j - nr) + nr = j
      BY <1>1, <2>2
    <3>2. IndItem(m.src, j - nr) = IndItem(src, (j - nr) + nr)
      BY <1>2, <3>1
    <3> QED BY <1>3, <3>1, <3>2
  <2>3. j < si \/ j >= si + nr
    BY <1>1, <1>9
  <2> QED BY <2>1, <2>2, <2>3
<1>10. Items(m.src) = U
  BY <1>3, <1>8, <1>9
<1> QED BY <1>7, <1>10 DEF S

-----------------------------------------------------------------------------
(* The two siblings.                                                       *)

Inv == block \in [Side -> BlockType] /\ (\A s \in Side : Good(block[s])) /\ Apart(block)

\* Copying the blocks of a path changes nothing.
LEMMA CopiesAreSame ==
    ASSUME Inv
    PROVE  Copies = block
<1>1. \A s \in Side : Copied(block[s]) = block[s]
  BY CopiedIsSame DEF Inv, Good
<1> QED BY <1>1 DEF Copies, Inv

LEMMA Sides == \A s \in Side : Other(s) \in Side /\ Other(s) # s /\ Side = {s, Other(s)}
BY DEF Side, Other

\* What a step does to the blocks: one changes as the promise says, or items
\* move.
OneChanges ==
    \E s \in Side : /\ Good(block'[s])
                    /\ Items(block'[s]) \in Abs!Changed(Items(block[s]))
                    /\ block'[Other(s)] = block[Other(s)]

HalfFull(b) == Nr(b["left"]) = 0 \/ Nr(b["right"]) = 0 \/ \A s \in Side : Nr(b[s]) >= MaxItems \div 2

ItemsMove ==
    /\ \A s \in Side : Good(block'[s])
    /\ Items(block'["left"]) \union Items(block'["right"]) = Items(block["left"]) \union Items(block["right"])
    /\ HalfFull(block')

Steps == block' \in [Side -> BlockType] /\ Apart(block') /\ (OneChanges \/ ItemsMove)

LEMMA AbsCardinality == \A S : Abs!Cardinality(S) = Cardinality(S)
BY Zenon DEF Abs!Cardinality, Cardinality

\* A set of items may become any of these.
LEMMA AbsChanges ==
    ASSUME NEW S
    PROVE  /\ \A k \in Key, v \in Value :
                (\A x \in S : x.key # k) /\ Cardinality(S) < MaxItems
                  => S \union {[key |-> k, val |-> v]} \in Abs!Changed(S)
           /\ \A x \in S, v \in Value : (S \ {x}) \union {[x EXCEPT !.val = v]} \in Abs!Changed(S)
           /\ \A x \in S : S \ {x} \in Abs!Changed(S)
           /\ \A x \in S, k \in Key :
                (\A y \in S \ {x} : y.key # k /\ (y.key < x.key <=> y.key < k))
                  => (S \ {x}) \union {[x EXCEPT !.key = k]} \in Abs!Changed(S)
           /\ \A x, y \in S :
                (\A z \in S : x.key <= z.key) /\ Cardinality({z \in S : z.key < y.key}) = 1
                  => (S \ {x, y}) \union {[x EXCEPT !.key = y.key]} \in Abs!Changed(S)
<1> DEFINE I == IF Cardinality(S) < MaxItems THEN Abs!Inserted(S) ELSE {}
           First == {i \in S : \A n \in S : i.key <= n.key}
           Second == {j \in S : Abs!Cardinality({n \in S : n.key < j.key}) = 1}
<1>1. Abs!Changed(S) = I \union Abs!Replaced(S) \union Abs!Deleted(S) \union Abs!Rekeyed(S) \union Abs!Absorbed(S)
  BY AbsCardinality DEF Abs!Changed
<1>2. Abs!Absorbed(S) = {(S \ {i, j}) \union {[i EXCEPT !.key = j.key]} : i \in First, j \in Second}
  BY DEF Abs!Absorbed
<1>3. ASSUME NEW k \in Key, NEW v \in Value, \A x \in S : x.key # k, Cardinality(S) < MaxItems
      PROVE  S \union {[key |-> k, val |-> v]} \in Abs!Changed(S)
  <2>1. k \in Key \ {i.key : i \in S}
    BY <1>3
  <2>2. S \union {[key |-> k, val |-> v]} \in Abs!Inserted(S)
    BY <2>1, SMT DEF Abs!Inserted
  <2>3. S \union {[key |-> k, val |-> v]} \in I
    BY <1>3, <2>2
  <2> HIDE DEF I
  <2> QED BY <1>1, <2>3, Zenon
<1> HIDE DEF I
<1>4. ASSUME NEW x \in S, NEW v \in Value PROVE (S \ {x}) \union {[x EXCEPT !.val = v]} \in Abs!Changed(S)
  <2>1. (S \ {x}) \union {[x EXCEPT !.val = v]} \in Abs!Replaced(S)
    BY SMT DEF Abs!Replaced
  <2> QED BY <1>1, <2>1, Zenon
<1>5. ASSUME NEW x \in S PROVE S \ {x} \in Abs!Changed(S)
  <2>1. S \ {x} \in Abs!Deleted(S)
    BY SMT DEF Abs!Deleted
  <2> QED BY <1>1, <2>1, Zenon
<1>6. ASSUME NEW x \in S, NEW k \in Key, \A y \in S \ {x} : y.key # k /\ (y.key < x.key <=> y.key < k)
      PROVE  (S \ {x}) \union {[x EXCEPT !.key = k]} \in Abs!Changed(S)
  <2>1. k \in {l \in Key : \A j \in S \ {x} : j.key # l /\ (j.key < x.key <=> j.key < l)}
    BY <1>6, Zenon
  <2>2. (S \ {x}) \union {[x EXCEPT !.key = k]} \in Abs!Rekeyed(S)
    BY <2>1, SMT DEF Abs!Rekeyed
  <2> QED BY <1>1, <2>2, Zenon
<1>7. ASSUME NEW x \in S, NEW y \in S, \A z \in S : x.key <= z.key, Cardinality({z \in S : z.key < y.key}) = 1
      PROVE  (S \ {x, y}) \union {[x EXCEPT !.key = y.key]} \in Abs!Changed(S)
  <2>1. x \in First
    BY <1>7, Zenon
  <2>2. y \in Second
    BY <1>7, AbsCardinality, Zenon
  <2> HIDE DEF First, Second
  <2>3. (S \ {x, y}) \union {[x EXCEPT !.key = y.key]} \in Abs!Absorbed(S)
    BY <1>2, <2>1, <2>2
  <2> QED BY <1>1, <2>3, Zenon
<1> HIDE DEF First, Second
<1> QED BY <1>3, <1>4, <1>5, <1>6, <1>7

\* A block is set, and the other is as it was.
LEMMA SetBlock ==
    ASSUME Inv, NEW s \in Side, NEW c, Good(c), block' = [block EXCEPT ![s] = c],
           Items(c) \in Abs!Changed(Items(block[s])), Apart(block')
    PROVE  Steps
<1>1. c \in BlockType
  BY DEF Good, Placed
<1>2. block' \in [Side -> BlockType] /\ block'[s] = c /\ block'[Other(s)] = block[Other(s)]
  BY <1>1, Sides DEF Inv
<1> QED BY <1>2 DEF Steps, OneChanges

\* No key came that was not there.
LEMMA ApartStays ==
    ASSUME Inv, NEW s \in Side, NEW c, block' = [block EXCEPT ![s] = c],
           \A x \in Items(c) : \E y \in Items(block[s]) : x.key = y.key
    PROVE  Apart(block')
<1>1. "left" \in Side /\ "right" \in Side /\ s \in {"left", "right"}
  BY DEF Side
<1>2. \A x \in Items(block["left"]), y \in Items(block["right"]) : x.key < y.key
  BY DEF Inv, Apart
<1>3. CASE s = "left"
  <2>1. block'["left"] = c /\ block'["right"] = block["right"]
    BY <1>1, <1>3 DEF Inv
  <2> QED BY <1>2, <1>3, <2>1 DEF Apart
<1>4. CASE s = "right"
  <2>1. block'["left"] = block["left"] /\ block'["right"] = c
    BY <1>1, <1>4 DEF Inv
  <2> QED BY <1>2, <1>4, <2>1 DEF Apart
<1> QED BY <1>1, <1>3, <1>4

LEMMA InsertSteps ==
    ASSUME Inv, NEW s \in Side, NEW k \in Key, NEW v \in Value, Insert(block, s, k, v)
    PROVE  Steps
<1> DEFINE b == block[s]
           f == FindKey(b, k)
           t == [key |-> k, val |-> v]
           c == InsertItem(b, f.ind, t)
<1>1. Good(b)
  BY DEF Inv
<1>2. f.cmp # 0 /\ Nr(b) < MaxItems /\ block' = [block EXCEPT ![s] = c] /\ Apart(block')
  BY Zenon DEF Insert
<1>3. Good(c) /\ Items(c) = Items(b) \union {t} /\ \A x \in Items(b) : x.key # k
  BY <1>1, <1>2, InsertedItems
<1>4. Cardinality(Items(b)) = Nr(b)
  BY <1>1, ItemsFacts
<1>5. Items(c) \in Abs!Changed(Items(b))
  <2> HIDE DEF b, c
  <2> QED BY <1>2, <1>3, <1>4, AbsChanges
<1> HIDE DEF c
<1> QED BY <1>2, <1>3, <1>5, SetBlock

LEMMA ReplaceSteps ==
    ASSUME Inv, NEW s \in Side, NEW k \in Key, NEW v \in Value, Replace(block, s, k, v)
    PROVE  Steps
<1> DEFINE b == block[s]
           f == FindKey(b, k)
           x == IndItem(b, f.ind)
           t == [x EXCEPT !.val = v]
           c == SetItem(b, f.ind, t)
<1>1. Good(b) /\ Placed(b) /\ k \in Int
  BY Sizes DEF Inv, Good
<1>2. f.cmp = 0 /\ block' = [block EXCEPT ![s] = WithValue(b, f.ind, v)]
  BY Zenon DEF Replace
<1>3. f.ind \in 1 .. Nr(b)
  <2> HIDE DEF b
  <2> QED BY <1>1, <1>2, GoodSearchable, FindKeyFacts
<1>4. WithValue(b, f.ind, v) = c /\ t \in ItemType /\ t.key = x.key
  <2> HIDE DEF b, f
  <2> QED BY <1>1, <1>3, WithValueFacts
<1>5. /\ f.ind > 1 => IndItem(b, f.ind - 1).key < t.key
      /\ f.ind < Nr(b) => t.key < IndItem(b, f.ind + 1).key
  <2>1. Nr(b) \in Nat /\ \A i, j \in 1 .. Nr(b) : i < j => IndItem(b, i).key < IndItem(b, j).key
    BY <1>1, PlacedItems DEF Good, Ordered
  <2> HIDE DEF b, f, t
  <2> QED BY <1>3, <1>4, <2>1
<1>6. Good(c) /\ Items(c) = (Items(b) \ {x}) \union {t} /\ x \in Items(b)
  <2> HIDE DEF b, f, t
  <2> QED BY <1>1, <1>3, <1>4, <1>5, ReplacedItems
<1>7. Items(c) \in Abs!Changed(Items(b))
  <2> HIDE DEF b, c, x
  <2> QED BY <1>6, AbsChanges
<1>8. block' = [block EXCEPT ![s] = c]
  BY <1>2, <1>4
<1> HIDE DEF c, t, x, f
<1>9. Apart(block')
  <2>1. \A y \in Items(c) : \E z \in Items(block[s]) : y.key = z.key
    BY <1>4, <1>6
  <2> QED BY <1>8, <2>1, ApartStays
<1> QED BY <1>6, <1>7, <1>8, <1>9, SetBlock

LEMMA DeleteSteps ==
    ASSUME Inv, NEW s \in Side, NEW k \in Key, Delete(block, s, k)
    PROVE  Steps
<1> DEFINE b == block[s]
           f == FindKey(b, k)
           c == DeleteItem(b, f.ind)
<1>1. Good(b) /\ k \in Int
  BY Sizes DEF Inv
<1>2. f.cmp = 0 /\ block' = [block EXCEPT ![s] = c]
  BY Zenon DEF Delete
<1>3. f.ind \in 1 .. Nr(b)
  <2> HIDE DEF b
  <2> QED BY <1>1, <1>2, GoodSearchable, FindKeyFacts
<1>4. Good(c) /\ Items(c) = Items(b) \ {IndItem(b, f.ind)} /\ IndItem(b, f.ind) \in Items(b)
  <2> HIDE DEF b, f
  <2> QED BY <1>1, <1>3, DeletedItems
<1>5. Items(c) \in Abs!Changed(Items(b))
  <2> HIDE DEF b, c, f
  <2> QED BY <1>4, AbsChanges
<1> HIDE DEF c
<1>6. Apart(block')
  BY <1>2, <1>4, ApartStays
<1> QED BY <1>2, <1>4, <1>5, <1>6, SetBlock

LEMMA UpdateRefKeySteps ==
    ASSUME Inv, NEW s \in Side, NEW ind \in 1 .. MaxItems, NEW k \in Key, UpdateRefKey(block, s, ind, k)
    PROVE  Steps
<1> DEFINE b == block[s]
           x == IndItem(b, ind)
           t == [x EXCEPT !.key = k]
           c == SetItem(b, ind, t)
<1>1. Good(b) /\ Placed(b)
  BY DEF Inv, Good
<1>2. /\ ind \in 1 .. Nr(b)
      /\ ind > 1 => IndItem(b, ind - 1).key < k
      /\ ind < Nr(b) => k < IndItem(b, ind + 1).key
      /\ block' = [block EXCEPT ![s] = WithKey(b, ind, k)]
      /\ Apart(block')
  BY Zenon DEF UpdateRefKey
<1>3. x.val \in Value
  BY <1>1, <1>2, PlacedItems
<1>4. WithKey(b, ind, k) = c /\ t \in ItemType /\ t.key = k
  <2> HIDE DEF b
  <2> QED BY <1>1, <1>2, <1>3, WithKeyFacts
<1> HIDE DEF t
<1>5. /\ Good(c) /\ Items(c) = (Items(b) \ {x}) \union {t} /\ x \in Items(b)
      /\ \A y \in Items(b) \ {x} : y.key # t.key /\ (y.key < x.key <=> y.key < t.key)
  <2> HIDE DEF b
  <2> QED BY <1>1, <1>2, <1>4, ReplacedItems
<1>6. Items(c) \in Abs!Changed(Items(b))
  <2>1. Items(c) = (Items(b) \ {x}) \union {[x EXCEPT !.key = k]}
    BY <1>5 DEF t
  <2> HIDE DEF b, c, x
  <2> QED BY <1>4, <1>5, <2>1, AbsChanges
<1>7. block' = [block EXCEPT ![s] = c]
  BY <1>2, <1>4
<1> HIDE DEF c
<1> QED BY <1>2, <1>5, <1>6, <1>7, SetBlock

LEMMA AbsorbRefSteps ==
    ASSUME Inv, NEW s \in Side, AbsorbRef(block, s)
    PROVE  Steps
<1> DEFINE b == block[s]
           i == IndItem(b, 1)
           j == IndItem(b, 2)
           c == DeleteItem(WithKey(b, 1, j.key), 2)
           t == [i EXCEPT !.key = j.key]
<1>1. Good(b)
  BY DEF Inv
<1>2. Nr(b) > 1 /\ block' = [block EXCEPT ![s] = c]
  BY Zenon DEF AbsorbRef
<1>3. /\ Good(c)
      /\ Items(c) = (Items(b) \ {i, j}) \union {t}
      /\ i \in Items(b) /\ j \in Items(b) /\ i.key < j.key
      /\ \A x \in Items(b) : i.key <= x.key /\ (x.key < j.key <=> x = i)
  <2> HIDE DEF b
  <2> QED BY <1>1, <1>2, AbsorbedItems
<1>4. t.key = j.key
  <2>1. i \in ItemType
    BY <1>1, <1>3, ItemsFacts
  <2> HIDE DEF i, j
  <2> QED BY <2>1 DEF ItemType
<1>5. Cardinality({z \in Items(b) : z.key < j.key}) = 1
  <2>1. {z \in Items(b) : z.key < j.key} = {i}
    <3> HIDE DEF b, i, j
    <3> QED BY <1>3
  <2> QED BY <2>1, FS_Singleton
<1>6. Items(c) \in Abs!Changed(Items(b))
  <2> HIDE DEF b, c, i, j
  <2> QED BY <1>3, <1>5, AbsChanges
<1> HIDE DEF c, t, i, j
<1>7. Apart(block')
  <2>1. \A y \in Items(c) : \E z \in Items(block[s]) : y.key = z.key
    BY <1>3, <1>4
  <2> QED BY <1>2, <2>1, ApartStays
<1> QED BY <1>2, <1>3, <1>6, <1>7, SetBlock

\* How much merge_block moves.
LEMMA ToMoveFits ==
    ASSUME NEW b, NEW sib, Nr(b) \in 1 .. MaxItems \div 2, Nr(sib) \in 1 .. MaxItems
    PROVE  /\ ToMove(b, sib) \in 0 .. Nr(sib) /\ Nr(b) + ToMove(b, sib) <= MaxItems
           /\ \/ ToMove(b, sib) = Nr(sib)
              \/ /\ Nr(b) + ToMove(b, sib) >= MaxItems \div 2
                 /\ Nr(sib) - ToMove(b, sib) >= MaxItems \div 2
<1> DEFINE n == Nr(b)
           o == Nr(sib)
           h == (o + n) \div 2
<1>1. MaxItems \in Nat /\ MaxItems = 2 * (MaxItems \div 2) /\ MaxItems \div 2 \in Nat
  BY BlockAssumption
<1>2. n \in Nat /\ o \in Nat /\ n >= 1 /\ o >= 1 /\ n <= MaxItems \div 2 /\ o <= MaxItems
  BY <1>1
<1>3. ToMove(b, sib) = IF o + n <= MaxItems THEN o ELSE o - h
  BY Zenon DEF ToMove
<1>4. h \in Nat /\ (o + n = 2 * h \/ o + n = 2 * h + 1)
  BY <1>2
<1> HIDE DEF n, o, h
<1>5. CASE o + n <= MaxItems
  BY <1>1, <1>2, <1>3, <1>5 DEF n, o
<1>6. CASE o + n > MaxItems
  <2> DEFINE q == MaxItems \div 2
  <2>1. q \in Nat /\ MaxItems = 2 * q
    BY <1>1
  <2> HIDE DEF q
  <2>2. ToMove(b, sib) = o - h /\ h >= q /\ h <= o
    BY <1>2, <1>3, <1>4, <1>6, <2>1 DEF q
  <2>3. n + (o - h) <= MaxItems /\ n + (o - h) >= q /\ o - (o - h) >= q /\ o - h \in 0 .. o
    BY <1>2, <1>4, <1>6, <2>1, <2>2 DEF q
  <2> QED BY <2>2, <2>3 DEF q, n, o
<1> QED BY <1>1, <1>2, <1>5, <1>6

\* A move takes nothing from the two blocks together.
KeepsAll(dst, src, si, nr, m) ==
    /\ Good(m.dst) /\ Good(m.src)
    /\ Nr(m.dst) = Nr(dst) + nr /\ Nr(m.src) = Nr(src) - nr
    /\ Items(m.dst) \union Items(m.src) = Items(dst) \union Items(src)
    /\ Items(m.dst) = Items(dst) \union {IndItem(src, j) : j \in si .. si + nr - 1}
    /\ Items(m.src) = {IndItem(src, j) : j \in (1 .. Nr(src)) \ (si .. si + nr - 1)}

LEMMA MoveKeepsAll ==
    ASSUME NEW dst, NEW di, NEW src, NEW si, NEW nr \in Nat, MayMove(dst, di, src, si, nr)
    PROVE  KeepsAll(dst, src, si, nr, MoveItems(dst, di, src, si, nr))
<1> DEFINE m == MoveItems(dst, di, src, si, nr)
           T == {IndItem(src, j) : j \in si .. si + nr - 1}
           U == {IndItem(src, j) : j \in (1 .. Nr(src)) \ (si .. si + nr - 1)}
<1>1. Moved(dst, di, src, si, nr, m)
  BY MoveItemsFacts
<1> HIDE DEF m
<1>2. Items(m.dst) = Items(dst) \union T /\ Items(m.src) = U
  BY <1>1, MovedItems
<1>3. Good(m.dst) /\ Good(m.src) /\ Nr(m.dst) = Nr(dst) + nr /\ Nr(m.src) = Nr(src) - nr
  BY <1>1 DEF Moved
<1>4. Items(src) = T \union U
  <2>1. Good(src) /\ si \in Nat /\ si >= 1 /\ si + nr - 1 <= Nr(src) /\ Nr(src) \in Nat
    BY PlacedItems DEF MayMove, Good
  <2>2. Items(src) = {IndItem(src, j) : j \in 1 .. Nr(src)}
    BY <2>1, ItemsFacts
  <2>3. 1 .. Nr(src) = (si .. si + nr - 1) \union ((1 .. Nr(src)) \ (si .. si + nr - 1))
    BY <2>1
  <2> QED BY <2>2, <2>3
<1> HIDE DEF T, U
<1>5. Items(m.dst) \union Items(m.src) = Items(dst) \union Items(src)
  BY <1>2, <1>4
<1> QED BY <1>2, <1>3, <1>5 DEF KeepsAll, m, T, U

\* The blocks are set to these two.
LEMMA SetBoth ==
    ASSUME NEW l, NEW r, Good(l), Good(r), block' = [x \in Side |-> IF x = "left" THEN l ELSE r],
           Items(l) \union Items(r) = Items(block["left"]) \union Items(block["right"]),
           \A x \in Items(l), y \in Items(r) : x.key < y.key,
           Nr(l) = 0 \/ Nr(r) = 0 \/ (Nr(l) >= MaxItems \div 2 /\ Nr(r) >= MaxItems \div 2)
    PROVE  Steps
<1>1. l \in BlockType /\ r \in BlockType
  BY DEF Good, Placed
<1>2. block' \in [Side -> BlockType] /\ block'["left"] = l /\ block'["right"] = r
  BY <1>1 DEF Side
<1>3. \A s \in Side : Good(block'[s])
  BY <1>2 DEF Side
<1>4. HalfFull(block')
  BY <1>2 DEF HalfFull, Side
<1>5. Apart(block')
  BY <1>2 DEF Apart
<1> QED BY <1>2, <1>3, <1>4, <1>5 DEF Steps, ItemsMove

LEMMA EmptyBlock == Good(Empty) /\ Nr(Empty) = 0 /\ Items(Empty) = {}
<1>1. Empty.offsets = <<>> /\ Empty.slots = [s \in Slot |-> Zero] /\ Nr(Empty) = 0
  BY DEF Empty, Nr
<1>2. Empty \in BlockType
  <2>1. <<>> \in Seq(Slot) /\ [s \in Slot |-> Zero] \in [Slot -> ItemType \union {Zero}]
    OBVIOUS
  <2> QED BY <2>1 DEF Empty, BlockType
<1>3. 1 .. 0 = {}
  OBVIOUS
<1>4. Placed(Empty)
  BY <1>1, <1>2, <1>3, Sizes DEF Placed
<1> QED BY <1>1, <1>3, <1>4 DEF Good, Ordered, Items

\* A block without items.
LEMMA NoItems ==
    ASSUME NEW b, Nr(b) = 0
    PROVE  Items(b) = {}
<1>1. 1 .. 0 = {}
  OBVIOUS
<1> QED BY <1>1 DEF Items

\* Items that moved from a block come before or behind those that stayed.
LEMMA SplitSteps ==
    ASSUME Inv, NEW s \in Side, Split(block, s)
    PROVE  Steps
<1> DEFINE b == block[s]
           h == Nr(b) \div 2
           m == MoveItems(Empty, 1, b, 1, h)
<1>1. Nr(b) = MaxItems /\ Nr(block[Other(s)]) = 0 /\ block' = [left |-> m.dst, right |-> m.src]
  BY Zenon DEF Split
<1>2. Good(b) /\ Ordered(b)
  BY DEF Inv, Good
<1>3. h \in Nat /\ 2 * h = MaxItems /\ h = MaxItems \div 2 /\ MaxItems \in Nat /\ h >= 1
  BY <1>1, Sizes
<1> HIDE DEF b, h
<1>4. MayMove(Empty, 1, b, 1, h)
  <2>1. 1 .. Nr(Empty) = {} /\ 1 \in 1 .. Nr(Empty) + 1 /\ Nr(Empty) + h <= MaxItems
    BY <1>3, EmptyBlock
  <2>2. 1 \in Nat /\ 1 >= 1 /\ 1 + h - 1 <= Nr(b)
    BY <1>1, <1>3
  <2> QED BY <1>2, <2>1, <2>2, EmptyBlock DEF MayMove
<1>5. /\ Good(m.dst) /\ Good(m.src)
      /\ Nr(m.dst) = Nr(Empty) + h /\ Nr(m.src) = Nr(b) - h
      /\ Items(m.dst) \union Items(m.src) = Items(Empty) \union Items(b)
      /\ Items(m.dst) = Items(Empty) \union {IndItem(b, j) : j \in 1 .. 1 + h - 1}
      /\ Items(m.src) = {IndItem(b, j) : j \in (1 .. Nr(b)) \ (1 .. 1 + h - 1)}
  <2>1. KeepsAll(Empty, b, 1, h, m)
    BY <1>3, <1>4, MoveKeepsAll
  <2> HIDE DEF m
  <2> QED BY <2>1 DEF KeepsAll
<1> HIDE DEF m
<1>6. 1 + h - 1 = h
  BY <1>3
<1>7. \A x \in Items(m.dst), y \in Items(m.src) : x.key < y.key
  <2>1. /\ Items(m.dst) = {IndItem(b, j) : j \in 1 .. h}
        /\ Items(m.src) = {IndItem(b, j) : j \in (1 .. Nr(b)) \ (1 .. h)}
    BY <1>5, <1>6, EmptyBlock
  <2>2. \A i \in 1 .. h, j \in (1 .. Nr(b)) \ (1 .. h) : IndItem(b, i).key < IndItem(b, j).key
    <3>1. \A i \in 1 .. h, j \in (1 .. Nr(b)) \ (1 .. h) : i \in 1 .. Nr(b) /\ j \in 1 .. Nr(b) /\ i < j
      BY <1>1, <1>3
    <3> QED BY <1>2, <3>1 DEF Ordered
  <2> QED BY <2>1, <2>2
<1>8. Items(block["left"]) \union Items(block["right"]) = Items(b)
  <2>1. Items(block[Other(s)]) = {}
    BY <1>1, NoItems
  <2>2. CASE s = "left"
    BY <2>1, <2>2 DEF Other, b
  <2>3. CASE s = "right"
    BY <2>1, <2>3 DEF Other, b
  <2> QED BY <2>2, <2>3 DEF Side
<1>9. block' = [x \in Side |-> IF x = "left" THEN m.dst ELSE m.src]
  BY <1>1 DEF Side
<1>10. Nr(m.dst) >= MaxItems \div 2 /\ Nr(m.src) >= MaxItems \div 2
  <2>1. Nr(m.dst) = 0 + h /\ Nr(m.src) = MaxItems - h
    BY <1>1, <1>5, EmptyBlock
  <2>2. 0 + h >= h /\ MaxItems - h >= h
    BY <1>3
  <2> QED BY <1>3, <2>1, <2>2
<1>11. Items(m.dst) \union Items(m.src) = Items(block["left"]) \union Items(block["right"])
  BY <1>5, <1>8, EmptyBlock
<1> QED BY <1>5, <1>7, <1>9, <1>10, <1>11, SetBoth

LEMMA MergeSteps ==
    ASSUME Inv, NEW s \in Side, Merge(block, s)
    PROVE  Steps
<1> DEFINE b == block[s]
           sib == block[Other(s)]
           move == ToMove(b, sib)
           di == IF s = "right" THEN 1 ELSE Nr(b) + 1
           si == IF s = "right" THEN Nr(sib) - move + 1 ELSE 1
           m == MoveItems(b, di, sib, si, move)
<1>1. /\ Nr(b) <= MaxItems \div 2 /\ Nr(sib) > 0 /\ Nr(b) > 0
      /\ block' = [x \in Side |-> IF x = s THEN m.dst ELSE m.src]
  <2>1. CASE s = "right"
    BY <2>1, Zenon DEF Merge
  <2>2. CASE s # "right"
    BY <2>2, Zenon DEF Merge
  <2> QED BY <2>1, <2>2
<1>2. Good(b) /\ Good(sib) /\ Ordered(b) /\ Ordered(sib)
  BY Sides DEF Inv, Good
<1>3. Nr(b) \in 1 .. MaxItems \div 2 /\ Nr(sib) \in 1 .. MaxItems /\ Nr(b) \in Nat /\ Nr(sib) \in Nat
  <2> HIDE DEF b, sib
  <2> QED BY <1>1, <1>2, PlacedItems, Sizes DEF Good
<1>4. /\ move \in 0 .. Nr(sib) /\ Nr(b) + move <= MaxItems
      /\ \/ move = Nr(sib)
         \/ Nr(b) + move >= MaxItems \div 2 /\ Nr(sib) - move >= MaxItems \div 2
  <2> HIDE DEF b, sib
  <2> QED BY <1>3, ToMoveFits
<1>5. /\ \A i, j \in 1 .. Nr(b) : i < j => IndItem(b, i).key < IndItem(b, j).key
      /\ \A i, j \in 1 .. Nr(sib) : i < j => IndItem(sib, i).key < IndItem(sib, j).key
      /\ Items(b) = {IndItem(b, i) : i \in 1 .. Nr(b)}
      /\ Items(sib) = {IndItem(sib, i) : i \in 1 .. Nr(sib)}
  BY <1>2 DEF Ordered, Items
<1>6. \A x \in Items(b), y \in Items(sib) : IF s = "right" THEN y.key < x.key ELSE x.key < y.key
  <2>1. \A x \in Items(block["left"]), y \in Items(block["right"]) : x.key < y.key
    BY DEF Inv, Apart
  <2>2. CASE s = "right"
    BY <2>1, <2>2 DEF Other
  <2>3. CASE s = "left"
    BY <2>1, <2>3 DEF Other
  <2> QED BY <2>2, <2>3 DEF Side
<1>7. Items(block["left"]) \union Items(block["right"]) = Items(b) \union Items(sib)
  <2>1. CASE s = "right"
    BY <2>1 DEF Other
  <2>2. CASE s = "left"
    BY <2>2 DEF Other
  <2> QED BY <2>1, <2>2 DEF Side
<1> HIDE DEF b, sib, move
<1>8. /\ di \in 1 .. Nr(b) + 1 /\ si \in Nat /\ si >= 1 /\ si + move - 1 <= Nr(sib) /\ move \in Nat
  BY <1>3, <1>4
<1>9. MayMove(b, di, sib, si, move)
  <2>1. ASSUME NEW i \in 1 .. Nr(b), NEW j \in si .. si + move - 1
        PROVE  /\ i < di => IndItem(b, i).key < IndItem(sib, j).key
               /\ i >= di => IndItem(sib, j).key < IndItem(b, i).key
    <3>1. j \in 1 .. Nr(sib)
      BY <1>3, <1>8
    <3>2. IndItem(b, i) \in Items(b) /\ IndItem(sib, j) \in Items(sib)
      BY <1>5, <3>1
    <3>3. CASE s = "right"
      <4>1. di = 1 /\ ~(i < di)
        BY <3>3
      <4> QED BY <1>6, <3>2, <3>3, <4>1
    <3>4. CASE s # "right"
      <4>1. di = Nr(b) + 1 /\ ~(i >= di)
        BY <1>3, <3>4
      <4> QED BY <1>6, <3>2, <3>4, <4>1
    <3> QED BY <3>3, <3>4
  <2> HIDE DEF di, si
  <2> QED BY <1>2, <1>4, <1>8, <2>1 DEF MayMove
<1>10. /\ Good(m.dst) /\ Good(m.src)
       /\ Nr(m.dst) = Nr(b) + move /\ Nr(m.src) = Nr(sib) - move
       /\ Items(m.dst) \union Items(m.src) = Items(b) \union Items(sib)
       /\ Items(m.dst) = Items(b) \union {IndItem(sib, j) : j \in si .. si + move - 1}
       /\ Items(m.src) = {IndItem(sib, j) : j \in (1 .. Nr(sib)) \ (si .. si + move - 1)}
  <2> HIDE DEF di, si
  <2>1. KeepsAll(b, sib, si, move, m)
    BY <1>8, <1>9, MoveKeepsAll
  <2> HIDE DEF m
  <2> QED BY <2>1 DEF KeepsAll
<1>11. Nr(m.src) = 0 \/ (Nr(m.dst) >= MaxItems \div 2 /\ Nr(m.src) >= MaxItems \div 2)
  <2> HIDE DEF m
  <2> QED BY <1>3, <1>4, <1>10
<1> HIDE DEF m
<1>12. CASE s = "right"
  <2>1. \A i \in (1 .. Nr(sib)) \ (si .. si + move - 1), j \in si .. si + move - 1 :
            i \in 1 .. Nr(sib) /\ j \in 1 .. Nr(sib) /\ i < j
    BY <1>3, <1>4, <1>12
  <2> HIDE DEF si, di
  <2>2. \A x \in Items(m.src), y \in Items(m.dst) : x.key < y.key
    <3>1. ASSUME NEW i \in (1 .. Nr(sib)) \ (si .. si + move - 1), NEW y \in Items(m.dst)
          PROVE  IndItem(sib, i).key < y.key
      <4>1. CASE y \in Items(b)
        BY <1>5, <1>6, <1>12, <4>1
      <4>2. CASE y \in {IndItem(sib, j) : j \in si .. si + move - 1}
        BY <1>5, <2>1, <4>2
      <4> QED BY <1>10, <4>1, <4>2
    <3> QED BY <1>10, <3>1
  <2>3. block' = [x \in Side |-> IF x = "left" THEN m.src ELSE m.dst]
    BY <1>1, <1>12 DEF Side
  <2> QED BY <1>7, <1>10, <1>11, <2>2, <2>3, SetBoth
<1>13. CASE s = "left"
  <2>1. \A i \in (1 .. Nr(sib)) \ (si .. si + move - 1), j \in si .. si + move - 1 :
            i \in 1 .. Nr(sib) /\ j \in 1 .. Nr(sib) /\ j < i
    BY <1>3, <1>4, <1>13
  <2> HIDE DEF si, di
  <2>2. \A x \in Items(m.dst), y \in Items(m.src) : x.key < y.key
    <3>1. ASSUME NEW x \in Items(m.dst), NEW i \in (1 .. Nr(sib)) \ (si .. si + move - 1)
          PROVE  x.key < IndItem(sib, i).key
      <4>1. CASE x \in Items(b)
        BY <1>5, <1>6, <1>13, <4>1
      <4>2. CASE x \in {IndItem(sib, j) : j \in si .. si + move - 1}
        BY <1>5, <2>1, <4>2
      <4> QED BY <1>10, <4>1, <4>2
    <3> QED BY <1>10, <3>1
  <2>3. block' = [x \in Side |-> IF x = "left" THEN m.dst ELSE m.src]
    BY <1>1, <1>13 DEF Side
  <2> QED BY <1>7, <1>10, <1>11, <2>2, <2>3, SetBoth
<1> QED BY <1>12, <1>13 DEF Side

-----------------------------------------------------------------------------
(* Every step of the specification.                                        *)

LEMMA InitInv == Init => Inv
<1> SUFFICES ASSUME Init PROVE Inv
  OBVIOUS
<1>1. \A s \in Side : block[s] = Empty
  BY DEF Init
<1>2. Empty \in BlockType
  BY EmptyBlock DEF Good, Placed
<1>3. block \in [Side -> BlockType]
  BY <1>2 DEF Init
<1>4. Apart(block)
  BY <1>1, EmptyBlock DEF Apart, Side
<1> QED BY <1>1, <1>3, <1>4, EmptyBlock DEF Inv

LEMMA NextSteps ==
    ASSUME Inv, Next
    PROVE  Steps
<1>1. PICK b \in {block, Copies}, s \in Side :
          \/ \E k \in Key, v \in Value : Insert(b, s, k, v) \/ Replace(b, s, k, v)
          \/ \E k \in Key : Delete(b, s, k)
          \/ \E ind \in 1 .. MaxItems, k \in Key : UpdateRefKey(b, s, ind, k)
          \/ AbsorbRef(b, s) \/ Split(b, s) \/ Merge(b, s)
  BY Zenon DEF Next
<1>2. b = block
  BY <1>1, CopiesAreSame
<1>3. ASSUME NEW k \in Key, NEW v \in Value, Insert(b, s, k, v) PROVE Steps
  BY <1>2, <1>3, InsertSteps
<1>4. ASSUME NEW k \in Key, NEW v \in Value, Replace(b, s, k, v) PROVE Steps
  BY <1>2, <1>4, ReplaceSteps
<1>5. ASSUME NEW k \in Key, Delete(b, s, k) PROVE Steps
  BY <1>2, <1>5, DeleteSteps
<1>6. ASSUME NEW ind \in 1 .. MaxItems, NEW k \in Key, UpdateRefKey(b, s, ind, k) PROVE Steps
  BY <1>2, <1>6, UpdateRefKeySteps
<1>7. CASE AbsorbRef(b, s)
  BY <1>2, <1>7, AbsorbRefSteps
<1>8. CASE Split(b, s)
  BY <1>2, <1>8, SplitSteps
<1>9. CASE Merge(b, s)
  BY <1>2, <1>9, MergeSteps
<1> QED BY <1>1, <1>3, <1>4, <1>5, <1>6, <1>7, <1>8, <1>9, Zenon

LEMMA StepsKeepInv ==
    ASSUME Inv, Steps
    PROVE  Inv'
<1>1. block' \in [Side -> BlockType] /\ Apart(block')
  BY DEF Steps
<1>2. \A s \in Side : Good(block[s])
  BY DEF Inv
<1>3. \A s \in Side : Good(block'[s])
  <2>1. CASE OneChanges
    <3>1. PICK s \in Side : Good(block'[s]) /\ block'[Other(s)] = block[Other(s)]
      BY <2>1 DEF OneChanges
    <3> QED BY <1>2, <3>1, Sides
  <2>2. CASE ItemsMove
    BY <2>2 DEF ItemsMove
  <2> QED BY <2>1, <2>2 DEF Steps
<1> QED BY <1>1, <1>3 DEF Inv

LEMMA InvKept == Inv /\ [Next]_block => Inv'
<1>1. ASSUME Inv, Next PROVE Inv'
  BY <1>1, NextSteps, StepsKeepInv
<1>2. ASSUME Inv, UNCHANGED block PROVE Inv'
  BY <1>2 DEF Inv
<1> QED BY <1>1, <1>2

LEMMA AlwaysInv == Spec => []Inv
<1>1. Init => Inv
  BY InitInv
<1>2. Inv /\ [Next]_block => Inv'
  BY InvKept
<1> QED BY <1>1, <1>2, PTL DEF Spec

LEMMA GoodIsPacked ==
    ASSUME NEW b, Good(b)
    PROVE  /\ Nr(b) <= MaxItems /\ ToSet(b.offsets) = 1 .. Nr(b)
           /\ \A i \in Slot \ 1 .. Nr(b) : b.slots[i] = Zero
           /\ \A i \in 1 .. Nr(b) : FindKey(b, IndItem(b, i).key).ind = i /\ FindKey(b, IndItem(b, i).key).cmp = 0
           /\ \A i \in 1 .. Nr(b) - 1 : IndItem(b, i).key < IndItem(b, i + 1).key
<1>1. Placed(b) /\ Ordered(b) /\ Nr(b) \in Nat /\ Nr(b) = Len(b.offsets) /\ b.offsets \in Seq(Slot)
  BY PlacedItems DEF Good
<1>2. ToSet(b.offsets) = 1 .. Nr(b)
  <2>1. DOMAIN b.offsets = 1 .. Nr(b)
    BY <1>1
  <2>2. ToSet(b.offsets) = {b.offsets[i] : i \in 1 .. Nr(b)}
    BY <2>1, Zenon DEF ToSet
  <2> QED BY <1>1, <2>2 DEF Placed
<1>3. \A i \in Slot \ 1 .. Nr(b) : b.slots[i] = Zero
  <2>1. \A i \in Slot \ 1 .. Nr(b) : i > Nr(b)
    BY <1>1 DEF Slot
  <2> QED BY <1>1, <2>1 DEF Placed
<1>4. ASSUME NEW i \in 1 .. Nr(b)
      PROVE  FindKey(b, IndItem(b, i).key).ind = i /\ FindKey(b, IndItem(b, i).key).cmp = 0
  <2>1. IndItem(b, i).key \in Int /\ Searchable(b)
    BY <1>1, PlacedItems, GoodSearchable
  <2> QED BY <2>1, FindKeyFacts
<1>5. \A i \in 1 .. Nr(b) - 1 : IndItem(b, i).key < IndItem(b, i + 1).key
  <2>1. \A i \in 1 .. Nr(b) - 1 : i \in 1 .. Nr(b) /\ i + 1 \in 1 .. Nr(b) /\ i < i + 1
    BY <1>1
  <2> QED BY <1>1, <2>1 DEF Ordered
<1>6. Nr(b) <= MaxItems
  BY <1>1 DEF Placed
<1> QED BY <1>2, <1>3, <1>4, <1>5, <1>6

\* Whatever is inserted, deleted, moved or copied, the items of a block lie at
\* the start of its item area, each with one offset, sorted and found by the
\* search, and nothing is left behind them.
THEOREM BlocksStayPacked == Spec => []Packed
<1>1. Inv => Packed
  BY GoodIsPacked, Zenon DEF Inv, Packed
<1> QED BY <1>1, AlwaysInv, PTL

LEMMA StepsImplement ==
    ASSUME Inv, Inv', Steps
    PROVE  Abs!Next
<1>1. /\ Items(block["left"])' = Items(block'["left"])
      /\ Items(block["right"])' = Items(block'["right"])
  BY DEF Items, IndItem, Nr
<1>2. Abs!Before(Items(block'["left"]), Items(block'["right"]))
  BY DEF Steps, Apart, Abs!Before
<1>3. CASE OneChanges
  <2>1. PICK s \in Side : /\ Items(block'[s]) \in Abs!Changed(Items(block[s]))
                          /\ block'[Other(s)] = block[Other(s)]
    BY <1>3 DEF OneChanges
  <2>2. CASE s = "left"
    <3>1. /\ Items(block'["left"]) \in Abs!Changed(Items(block["left"]))
          /\ Items(block'["right"]) = Items(block["right"])
      BY <2>1, <2>2 DEF Other
    <3>2. Abs!Change
      BY <1>1, <1>2, <3>1, Zenon DEF Abs!Change
    <3> QED BY <3>2, Zenon DEF Abs!Next
  <2>3. CASE s = "right"
    <3>1. /\ Items(block'["right"]) \in Abs!Changed(Items(block["right"]))
          /\ Items(block'["left"]) = Items(block["left"])
      BY <2>1, <2>3 DEF Other
    <3>2. Abs!Change
      BY <1>1, <1>2, <3>1, Zenon DEF Abs!Change
    <3> QED BY <3>2, Zenon DEF Abs!Next
  <2> QED BY <2>2, <2>3 DEF Side
<1>4. CASE ItemsMove
  <2> DEFINE l == Items(block'["left"])
             r == Items(block'["right"])
  <2>1. /\ Good(block'["left"]) /\ Good(block'["right"])
        /\ l \union r = Items(block["left"]) \union Items(block["right"])
        /\ HalfFull(block')
    BY <1>4 DEF ItemsMove, Side
  <2>2. /\ Cardinality(l) = Nr(block'["left"]) /\ Nr(block'["left"]) <= MaxItems
        /\ Cardinality(r) = Nr(block'["right"]) /\ Nr(block'["right"]) <= MaxItems
    BY <2>1, ItemsFacts DEF Good, Placed
  <2>3. \A x \in {l, r} : Abs!Cardinality(x) <= MaxItems
    BY <2>2, AbsCardinality
  <2>4. {} \in {l, r} \/ \A x \in {l, r} : Abs!Cardinality(x) >= MaxItems \div 2
    <3>1. CASE Nr(block'["left"]) = 0 \/ Nr(block'["right"]) = 0
      BY <3>1, NoItems
    <3>2. CASE \A s \in Side : Nr(block'[s]) >= MaxItems \div 2
      <4>1. Cardinality(l) >= MaxItems \div 2 /\ Cardinality(r) >= MaxItems \div 2
        BY <2>2, <3>2 DEF Side
      <4> QED BY <4>1, AbsCardinality
    <3> QED BY <2>1, <3>1, <3>2 DEF HalfFull
  <2>5. Abs!Move
    BY <1>1, <1>2, <2>1, <2>3, <2>4, Zenon DEF Abs!Move
  <2> QED BY <2>5, Zenon DEF Abs!Next
<1> QED BY <1>3, <1>4 DEF Steps

\* The memory of the blocks implements two sets of items apart from each
\* other: every operation changes one of them as it says, or moves items from
\* one to the other, and keeps the values with their keys.
THEOREM BlocksAreSets == Spec => AbsSpec
<1>1. Init => Abs!Init
  <2> SUFFICES ASSUME Init PROVE Abs!Init
    OBVIOUS
  <2>1. block["left"] = Empty /\ block["right"] = Empty
    BY DEF Init, Side
  <2> QED BY <2>1, EmptyBlock DEF Abs!Init
<1>2. Inv /\ Inv' /\ [Next]_block => [Abs!Next]_<<Items(block["left"]), Items(block["right"])>>
  <2>1. ASSUME Inv, Inv', Next PROVE Abs!Next
    BY <2>1, NextSteps, StepsImplement
  <2>2. ASSUME UNCHANGED block PROVE UNCHANGED <<Items(block["left"]), Items(block["right"])>>
    BY <2>2 DEF Items, IndItem, Nr
  <2> QED BY <2>1, <2>2
<1> QED BY <1>1, <1>2, AlwaysInv, PTL DEF Spec, AbsSpec, Abs!Spec
=============================================================================
