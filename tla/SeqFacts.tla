------------------------------ MODULE SeqFacts ------------------------------
(***************************************************************************)
(* Facts about natural numbers and sequences that the proofs rest on.      *)
(***************************************************************************)
EXTENDS Lists, SequencesExt, FiniteSetTheorems, WellFoundedInduction, TLAPS

\* Every nonempty set of natural numbers has a least element: the induction
\* the lemmas about the loops and walks of rlock.c rest on.
LEMMA LeastNat ==
    ASSUME NEW T, T \subseteq Nat, T # {}
    PROVE  \E x \in T : \A y \in T : x <= y
<1> DEFINE R == {s \in Nat \X Nat : s[1] < s[2]}
<1>1. IsWellFoundedOn(R, Nat)
  BY NatLessThanWellFounded DEF OpToRel
<1>2. \E x \in T : \A y \in T : ~(<<y, x>> \in R)
  <2> HIDE DEF R
  <2> QED BY <1>1, WFMin
<1>3. \A x, y \in Nat : y < x => <<y, x>> \in R
  OBVIOUS
<1>4. PICK x \in T : \A y \in T : ~(<<y, x>> \in R)
  BY <1>2
<1>5. \A y \in T : ~(y < x)
  <2> HIDE DEF R
  <2> QED BY <1>3, <1>4
<1> QED BY <1>5

\* A recursion over 0 .. n has a value at each step.
LEMMA RecursionExists ==
    ASSUME NEW V, NEW v \in V, NEW N \in Nat, NEW F \in [1 .. N -> [V -> V]]
    PROVE  \E f \in [0 .. N -> V] : f[0] = v /\ \A n \in 1 .. N : f[n] = F[n][f[n - 1]]
<1> DEFINE Upto(k) == \E f \in [0 .. k -> V] : f[0] = v /\ \A n \in 1 .. k : f[n] = F[n][f[n - 1]]
           Bad == {k \in 0 .. N : ~Upto(k)}
<1>1. Upto(0)
  <2> DEFINE f == [n \in 0 .. 0 |-> v]
  <2>1. f \in [0 .. 0 -> V] /\ f[0] = v
    OBVIOUS
  <2> HIDE DEF f
  <2> QED BY <2>1
<1>2. ASSUME NEW k \in 1 .. N, Upto(k - 1) PROVE Upto(k)
  <2>1. PICK g \in [0 .. k - 1 -> V] : g[0] = v /\ \A n \in 1 .. k - 1 : g[n] = F[n][g[n - 1]]
    BY <1>2
  <2> DEFINE h == [n \in 0 .. k |-> IF n = k THEN F[k][g[k - 1]] ELSE g[n]]
  <2>2. h \in [0 .. k -> V]
    OBVIOUS
  <2>3. h[0] = v
    BY <2>1
  <2>4. \A n \in 0 .. k - 1 : h[n] = g[n]
    OBVIOUS
  <2>5. h[k] = F[k][g[k - 1]]
    OBVIOUS
  <2> HIDE DEF h
  <2>6. \A n \in 1 .. k : h[n] = F[n][h[n - 1]]
    BY <2>1, <2>4, <2>5
  <2> QED BY <2>2, <2>3, <2>6
<1> HIDE DEF Upto
<1>3. Bad = {}
  <2> SUFFICES ASSUME Bad # {} PROVE FALSE
    OBVIOUS
  <2>1. PICK k \in Bad : \A j \in Bad : k <= j
    <3>1. Bad \subseteq Nat
      OBVIOUS
    <3> HIDE DEF Bad
    <3> QED BY <3>1, LeastNat
  <2>2. k \in 1 .. N /\ k - 1 \in 0 .. N /\ ~(k <= k - 1)
    BY <1>1, <2>1
  <2> QED BY <1>2, <2>1, <2>2
<1>4. Upto(N)
  BY <1>3
<1> QED BY <1>4 DEF Upto

\* J refers each step to an earlier one.
RefersBack(J, N) == \A n \in 1 .. N : J[n] \in 0 .. n - 1

\* f is the recursion that starts with v and makes step n by F[n], from step J[n].
RecursionValue(f, V, v, N, F, J) ==
    f \in [0 .. N -> V] /\ f[0] = v /\ \A n \in 1 .. N : f[n] = F[n][f[J[n]]]

\* A recursion over 0 .. n whose step refers to any earlier one has a value.
LEMMA RecursionThrough ==
    ASSUME NEW V, NEW v \in V, NEW N \in Nat, NEW F \in [1 .. N -> [V -> V]],
           NEW J, RefersBack(J, N)
    PROVE  \E f : RecursionValue(f, V, v, N, F, J)
<1> DEFINE Upto(k) == \E f \in [0 .. k -> V] : f[0] = v /\ \A n \in 1 .. k : f[n] = F[n][f[J[n]]]
           Bad == {k \in 0 .. N : ~Upto(k)}
<1>1. Upto(0)
  <2> DEFINE f == [n \in 0 .. 0 |-> v]
  <2>1. f \in [0 .. 0 -> V] /\ f[0] = v
    OBVIOUS
  <2> HIDE DEF f
  <2> QED BY <2>1
<1>2. ASSUME NEW k \in 1 .. N, Upto(k - 1) PROVE Upto(k)
  <2>1. PICK g \in [0 .. k - 1 -> V] : g[0] = v /\ \A n \in 1 .. k - 1 : g[n] = F[n][g[J[n]]]
    BY <1>2
  <2> DEFINE h == [n \in 0 .. k |-> IF n = k THEN F[k][g[J[k]]] ELSE g[n]]
  <2>2. h \in [0 .. k -> V]
    BY DEF RefersBack
  <2>3. h[0] = v
    BY <2>1
  <2>4. \A n \in 0 .. k - 1 : h[n] = g[n]
    OBVIOUS
  <2>5. h[k] = F[k][g[J[k]]]
    OBVIOUS
  <2> HIDE DEF h
  <2>6. \A n \in 1 .. k : J[n] \in 0 .. n - 1 /\ J[n] \in 0 .. k - 1
    BY DEF RefersBack
  <2>7. ASSUME NEW n \in 1 .. k PROVE h[n] = F[n][h[J[n]]]
    <3>1. h[J[n]] = g[J[n]]
      BY <2>4, <2>6
    <3>2. CASE n = k
      BY <2>5, <3>1, <3>2
    <3>3. CASE n # k
      <4>1. n \in 1 .. k - 1 /\ n \in 0 .. k - 1
        BY <3>3
      <4> QED BY <2>1, <2>4, <3>1, <4>1
    <3> QED BY <3>2, <3>3
  <2> QED BY <2>2, <2>3, <2>7
<1> HIDE DEF Upto
<1>3. Bad = {}
  <2> SUFFICES ASSUME Bad # {} PROVE FALSE
    OBVIOUS
  <2>1. PICK k \in Bad : \A j \in Bad : k <= j
    <3>1. Bad \subseteq Nat
      OBVIOUS
    <3> HIDE DEF Bad
    <3> QED BY <3>1, LeastNat
  <2>2. k \in 1 .. N /\ k - 1 \in 0 .. N /\ ~(k <= k - 1)
    BY <1>1, <2>1
  <2> QED BY <1>2, <2>1, <2>2
<1>4. Upto(N)
  BY <1>3
<1> QED BY <1>4 DEF Upto, RecursionValue

\* RemoveAt (list_del) takes out one entry.
LEMMA RemoveAtFacts ==
    ASSUME NEW S, NEW q \in Seq(S), NEW i \in 1 .. Len(q)
    PROVE  /\ RemoveAt(q, i) \in Seq(S)
           /\ Len(RemoveAt(q, i)) = Len(q) - 1
           /\ \A j \in 1 .. (Len(q) - 1) :
                RemoveAt(q, i)[j] = IF j < i THEN q[j] ELSE q[j + 1]
<1> DEFINE a == SubSeq(q, 1, i - 1)
           b == SubSeq(q, i + 1, Len(q))
<1>1. a \in Seq(S) /\ Len(a) = i - 1 /\ \A j \in 1 .. (i - 1) : a[j] = q[j]
  OBVIOUS
<1>2. b \in Seq(S) /\ Len(b) = Len(q) - i /\ \A j \in 1 .. (Len(q) - i) : b[j] = q[i + j]
  OBVIOUS
<1>3. RemoveAt(q, i) = a \o b
  BY DEF RemoveAt
<1> HIDE DEF a, b
<1>4. RemoveAt(q, i) \in Seq(S) /\ Len(RemoveAt(q, i)) = Len(q) - 1
  BY <1>1, <1>2, <1>3
<1>5. ASSUME NEW j \in 1 .. (Len(q) - 1)
      PROVE  RemoveAt(q, i)[j] = IF j < i THEN q[j] ELSE q[j + 1]
  <2>1. CASE j < i
    BY <1>1, <1>2, <1>3, <2>1
  <2>2. CASE ~(j < i)
    <3>1. j - (i - 1) \in 1 .. (Len(q) - i) /\ i + (j - (i - 1)) = j + 1
      BY <2>2
    <3>2. (a \o b)[j] = b[j - (i - 1)]
      BY <1>1, <1>2, <2>2
    <3> QED BY <1>2, <1>3, <2>2, <3>1, <3>2
  <2> QED BY <2>1, <2>2
<1> QED BY <1>4, <1>5

\* InsertAt (list_add, list_add_tail) puts in one entry.
LEMMA InsertAtFacts ==
    ASSUME NEW S, NEW q \in Seq(S), NEW e \in S, NEW i \in 1 .. (Len(q) + 1)
    PROVE  /\ InsertAt(q, i, e) \in Seq(S)
           /\ Len(InsertAt(q, i, e)) = Len(q) + 1
           /\ \A j \in 1 .. (Len(q) + 1) :
                InsertAt(q, i, e)[j] = IF j < i THEN q[j] ELSE IF j = i THEN e ELSE q[j - 1]
<1> DEFINE a == SubSeq(q, 1, i - 1)
           b == SubSeq(q, i, Len(q))
<1>1. a \in Seq(S) /\ Len(a) = i - 1 /\ \A j \in 1 .. (i - 1) : a[j] = q[j]
  OBVIOUS
<1>2. b \in Seq(S) /\ Len(b) = Len(q) + 1 - i /\ \A j \in 1 .. (Len(q) + 1 - i) : b[j] = q[i + j - 1]
  OBVIOUS
<1>3. InsertAt(q, i, e) = (a \o <<e>>) \o b
  BY DEF InsertAt
<1>4. a \o <<e>> \in Seq(S) /\ Len(a \o <<e>>) = i
      /\ \A j \in 1 .. i : (a \o <<e>>)[j] = IF j < i THEN q[j] ELSE e
  <2> HIDE DEF a, b
  <2> QED BY <1>1
<1> DEFINE d == a \o <<e>>
<1>5. InsertAt(q, i, e) = d \o b
  BY <1>3
<1>6. d \in Seq(S) /\ Len(d) = i /\ \A j \in 1 .. i : d[j] = IF j < i THEN q[j] ELSE e
  BY <1>4
<1> HIDE DEF a, b, d
<1>7. InsertAt(q, i, e) \in Seq(S) /\ Len(InsertAt(q, i, e)) = Len(q) + 1
  BY <1>2, <1>5, <1>6
<1>8. ASSUME NEW j \in 1 .. (Len(q) + 1)
      PROVE  InsertAt(q, i, e)[j] = IF j < i THEN q[j] ELSE IF j = i THEN e ELSE q[j - 1]
  <2>1. CASE j <= i
    BY <1>2, <1>5, <1>6, <2>1
  <2>2. CASE ~(j <= i)
    <3>1. j - i \in 1 .. (Len(q) + 1 - i) /\ i + (j - i) - 1 = j - 1
      BY <2>2
    <3>2. (d \o b)[j] = b[j - i]
      BY <1>2, <1>6, <2>2
    <3> QED BY <1>2, <1>5, <2>2, <3>1, <3>2
  <2> QED BY <2>1, <2>2
<1> QED BY <1>7, <1>8

\* Append adds one element behind the others.
LEMMA AppendFacts ==
    ASSUME NEW S, NEW q \in Seq(S), NEW e \in S
    PROVE  /\ Append(q, e) \in Seq(S)
           /\ Len(Append(q, e)) = Len(q) + 1
           /\ DOMAIN Append(q, e) = 1 .. (Len(q) + 1)
           /\ DOMAIN q = 1 .. Len(q)
           /\ \A j \in 1 .. Len(q) : Append(q, e)[j] = q[j]
           /\ Append(q, e)[Len(q) + 1] = e
OBVIOUS

\* Tail drops the first element and moves the others down by one.
LEMMA TailFacts ==
    ASSUME NEW S, NEW q \in Seq(S), q # <<>>
    PROVE  /\ Tail(q) \in Seq(S)
           /\ Len(Tail(q)) = Len(q) - 1
           /\ DOMAIN Tail(q) = 1 .. (Len(q) - 1)
           /\ DOMAIN q = 1 .. Len(q)
           /\ Len(q) >= 1
           /\ Head(q) = q[1]
           /\ \A j \in 1 .. (Len(q) - 1) : Tail(q)[j] = q[j + 1]
OBVIOUS

\* A prefix holds the first elements.
LEMMA PrefixByElements ==
    ASSUME NEW S, NEW p \in Seq(S), NEW q \in Seq(S)
    PROVE  IsPrefix(p, q) <=> Len(p) <= Len(q) /\ \A i \in 1 .. Len(p) : p[i] = q[i]
<1>1. p = SubSeq(p, 1, Len(p)) /\ Len(p) \in Nat
  OBVIOUS
<1>2. Len(p) <= Len(q) => /\ SubSeq(q, 1, Len(p)) \in Seq(S)
                          /\ Len(SubSeq(q, 1, Len(p))) = Len(p)
                          /\ \A i \in 1 .. Len(p) : SubSeq(q, 1, Len(p))[i] = q[i]
  OBVIOUS
<1> DEFINE r == SubSeq(q, 1, Len(p))
<1>3. IsPrefix(p, q) <=> Len(p) <= Len(q) /\ p = r
  BY <1>1 DEF IsPrefix
<1>4. Len(p) <= Len(q) => r \in Seq(S) /\ Len(r) = Len(p) /\ \A i \in 1 .. Len(p) : r[i] = q[i]
  BY <1>2
<1> HIDE DEF r
<1>5. ASSUME Len(p) <= Len(q), \A i \in 1 .. Len(p) : p[i] = q[i] PROVE p = r
  BY <1>4, <1>5
<1> QED BY <1>3, <1>4, <1>5

\* Prefixes are ordered, and Append makes longer ones.
LEMMA PrefixFacts ==
    ASSUME NEW S
    PROVE  /\ \A p \in Seq(S) : IsPrefix(p, p)
           /\ \A p, q, r \in Seq(S) : IsPrefix(p, q) /\ IsPrefix(q, r) => IsPrefix(p, r)
           /\ \A p \in Seq(S), e \in S : IsPrefix(p, Append(p, e))
           /\ \A p, q \in Seq(S) : IsPrefix(p, q) => ToSet(p) \subseteq ToSet(q)
<1>1. \A p \in Seq(S) : IsPrefix(p, p)
  BY PrefixByElements
<1>2. ASSUME NEW p \in Seq(S), NEW q \in Seq(S), NEW r \in Seq(S), IsPrefix(p, q), IsPrefix(q, r)
      PROVE  IsPrefix(p, r)
  <2>1. /\ Len(p) <= Len(q) /\ \A i \in 1 .. Len(p) : p[i] = q[i]
        /\ Len(q) <= Len(r) /\ \A i \in 1 .. Len(q) : q[i] = r[i]
        /\ Len(p) \in Nat /\ Len(q) \in Nat /\ Len(r) \in Nat
    BY <1>2, PrefixByElements
  <2>2. Len(p) <= Len(r) /\ \A i \in 1 .. Len(p) : p[i] = r[i]
    BY <2>1
  <2> QED BY <2>2, PrefixByElements
<1>3. ASSUME NEW p \in Seq(S), NEW e \in S PROVE IsPrefix(p, Append(p, e))
  <2> DEFINE q == Append(p, e)
  <2>1. q \in Seq(S) /\ Len(p) <= Len(q) /\ \A i \in 1 .. Len(p) : p[i] = q[i]
    BY AppendFacts
  <2> HIDE DEF q
  <2>2. IsPrefix(p, q)
    BY <2>1, PrefixByElements
  <2> QED BY <2>2 DEF q
<1>4. ASSUME NEW p \in Seq(S), NEW q \in Seq(S), IsPrefix(p, q) PROVE ToSet(p) \subseteq ToSet(q)
  <2>1. /\ Len(p) <= Len(q) /\ \A i \in 1 .. Len(p) : p[i] = q[i]
        /\ DOMAIN p = 1 .. Len(p) /\ DOMAIN q = 1 .. Len(q) /\ Len(p) \in Nat /\ Len(q) \in Nat
    BY <1>4, PrefixByElements
  <2>2. 1 .. Len(p) \subseteq 1 .. Len(q)
    BY <2>1
  <2> QED BY <2>1, <2>2 DEF ToSet
<1> QED BY <1>1, <1>2, <1>3, <1>4

\* Two positions of a sequence that holds no element twice.
LEMMA InjectiveByOrder ==
    ASSUME NEW S, NEW q \in Seq(S)
    PROVE  IsInjective(q) <=> \A i, j \in 1 .. Len(q) : i < j => q[i] # q[j]
<1>1. DOMAIN q = 1 .. Len(q)
  OBVIOUS
<1>2. ASSUME IsInjective(q) PROVE \A i, j \in 1 .. Len(q) : i < j => q[i] # q[j]
  BY <1>1, <1>2 DEF IsInjective
<1>3. ASSUME \A i, j \in 1 .. Len(q) : i < j => q[i] # q[j] PROVE IsInjective(q)
  <2> SUFFICES ASSUME NEW i \in 1 .. Len(q), NEW j \in 1 .. Len(q), q[i] = q[j] PROVE i = j
    BY <1>1 DEF IsInjective
  <2> QED BY <1>3
<1> QED BY <1>2, <1>3

\* What Append does to the elements.
LEMMA AppendElements ==
    ASSUME NEW S, NEW q \in Seq(S), NEW e \in S
    PROVE  /\ ToSet(Append(q, e)) = ToSet(q) \union {e}
           /\ IsInjective(q) /\ e \notin ToSet(q) => IsInjective(Append(q, e))
<1> DEFINE p == Append(q, e)
           N == Len(q)
<1>1. /\ p \in Seq(S) /\ DOMAIN p = 1 .. N + 1 /\ Len(p) = N + 1 /\ DOMAIN q = 1 .. N
      /\ (\A j \in 1 .. N : p[j] = q[j]) /\ p[N + 1] = e /\ N \in Nat
  BY AppendFacts
<1> HIDE DEF p, N
<1>2. ToSet(p) = ToSet(q) \union {e}
  BY <1>1 DEF ToSet
<1>3. ASSUME IsInjective(q), e \notin ToSet(q) PROVE IsInjective(p)
  <2>1. \A i \in 1 .. N : q[i] # e
    BY <1>1, <1>3 DEF ToSet
  <2>2. \A i, j \in 1 .. N : q[i] = q[j] => i = j
    BY <1>1, <1>3 DEF IsInjective
  <2> SUFFICES ASSUME NEW i \in 1 .. N + 1, NEW j \in 1 .. N + 1, p[i] = p[j] PROVE i = j
    BY <1>1 DEF IsInjective
  <2> QED BY <1>1, <2>1, <2>2
<1> QED BY <1>2, <1>3 DEF p

\* What Tail does to the elements.
LEMMA TailElements ==
    ASSUME NEW S, NEW q \in Seq(S), q # <<>>
    PROVE  /\ Head(q) \in ToSet(q)
           /\ ToSet(Tail(q)) \subseteq ToSet(q)
           /\ ToSet(q) \subseteq ToSet(Tail(q)) \union {Head(q)}
           /\ IsInjective(q) => IsInjective(Tail(q)) /\ Head(q) \notin ToSet(Tail(q))
<1> DEFINE p == Tail(q)
           N == Len(q)
           h == Head(q)
<1>1. /\ p \in Seq(S) /\ DOMAIN p = 1 .. N - 1 /\ DOMAIN q = 1 .. N /\ N \in Nat /\ N >= 1
      /\ h = q[1] /\ \A j \in 1 .. N - 1 : p[j] = q[j + 1]
  BY TailFacts
<1> HIDE DEF p, N, h
<1>2. h \in ToSet(q) /\ ToSet(p) \subseteq ToSet(q)
  <2>1. 1 \in 1 .. N /\ \A j \in 1 .. N - 1 : j + 1 \in 1 .. N
    BY <1>1
  <2>2. ToSet(q) = {q[i] : i \in 1 .. N} /\ ToSet(p) = {p[i] : i \in 1 .. N - 1}
    BY <1>1, Zenon DEF ToSet
  <2> QED BY <1>1, <2>1, <2>2
<1>3. ASSUME NEW i \in 1 .. N PROVE q[i] = h \/ \E j \in 1 .. N - 1 : q[i] = p[j]
  <2>1. CASE i = 1
    BY <1>1, <2>1
  <2>2. CASE i # 1
    <3>1. i - 1 \in 1 .. N - 1 /\ q[i] = p[i - 1]
      BY <1>1, <2>2
    <3> QED BY <3>1
  <2> QED BY <2>1, <2>2
<1>4. ToSet(q) \subseteq ToSet(p) \union {h}
  <2>1. ToSet(q) = {q[i] : i \in 1 .. N} /\ ToSet(p) = {p[i] : i \in 1 .. N - 1}
    BY <1>1, Zenon DEF ToSet
  <2> QED BY <1>3, <2>1
<1>5. ASSUME IsInjective(q) PROVE IsInjective(p) /\ h \notin ToSet(p)
  <2>1. \A i, j \in 1 .. N : q[i] = q[j] => i = j
    BY <1>1, <1>5 DEF IsInjective
  <2>2. \A i \in 1 .. N - 1 : i + 1 \in 1 .. N /\ i + 1 # 1 /\ p[i] = q[i + 1]
    BY <1>1
  <2>3. IsInjective(p)
    <3> SUFFICES ASSUME NEW i \in 1 .. N - 1, NEW j \in 1 .. N - 1, p[i] = p[j] PROVE i = j
      BY <1>1 DEF IsInjective
    <3>1. i + 1 = j + 1
      BY <2>1, <2>2
    <3> QED BY <3>1
  <2>4. h \notin ToSet(p)
    BY <1>1, <2>1, <2>2 DEF ToSet
  <2> QED BY <2>3, <2>4
<1> QED BY <1>2, <1>4, <1>5 DEF p, h

\* One sequence behind another.
LEMMA ConcatElements ==
    ASSUME NEW S, NEW p \in Seq(S), NEW q \in Seq(S)
    PROVE  /\ p \o q \in Seq(S)
           /\ ToSet(p \o q) = ToSet(p) \union ToSet(q)
           /\ IsInjective(p) /\ IsInjective(q) /\ ToSet(p) \intersect ToSet(q) = {} => IsInjective(p \o q)
<1> DEFINE r == p \o q
           M == Len(p)
           N == Len(q)
<1>1. /\ r \in Seq(S) /\ DOMAIN r = 1 .. M + N /\ DOMAIN p = 1 .. M /\ DOMAIN q = 1 .. N
      /\ M \in Nat /\ N \in Nat
      /\ \A i \in 1 .. M + N : r[i] = IF i <= M THEN p[i] ELSE q[i - M]
  OBVIOUS
<1> HIDE DEF r, M, N
<1>2. \A i \in 1 .. M : i \in 1 .. M + N /\ r[i] = p[i]
  BY <1>1
<1>3. \A i \in 1 .. N : i + M \in 1 .. M + N /\ r[i + M] = q[i]
  BY <1>1
<1>4. \A i \in 1 .. M + N : (i \in 1 .. M /\ r[i] = p[i]) \/ (i - M \in 1 .. N /\ r[i] = q[i - M])
  BY <1>1
<1>5. ToSet(r) = ToSet(p) \union ToSet(q)
  <2>1. ToSet(r) \subseteq ToSet(p) \union ToSet(q)
    BY <1>1, <1>4 DEF ToSet
  <2>2. ToSet(p) \subseteq ToSet(r)
    BY <1>1, <1>2 DEF ToSet
  <2>3. ToSet(q) \subseteq ToSet(r)
    BY <1>1, <1>3 DEF ToSet
  <2> QED BY <2>1, <2>2, <2>3
<1>6. ASSUME IsInjective(p), IsInjective(q), ToSet(p) \intersect ToSet(q) = {} PROVE IsInjective(r)
  <2>1. \A i, j \in 1 .. M : p[i] = p[j] => i = j
    BY <1>1, <1>6 DEF IsInjective
  <2>2. \A i, j \in 1 .. N : q[i] = q[j] => i = j
    BY <1>1, <1>6 DEF IsInjective
  <2>3. \A i \in 1 .. M, j \in 1 .. N : p[i] # q[j]
    BY <1>1, <1>6 DEF ToSet
  <2> SUFFICES ASSUME NEW i \in 1 .. M + N, NEW j \in 1 .. M + N, r[i] = r[j] PROVE i = j
    BY <1>1 DEF IsInjective
  <2> QED BY <1>1, <1>4, <2>1, <2>2, <2>3
<1> QED BY <1>1, <1>5, <1>6 DEF r

\* SetToSeq lists each element of a finite set once.
LEMMA SetToSeqFacts ==
    ASSUME NEW S, IsFiniteSet(S)
    PROVE  SetToSeq(S) \in Seq(S) /\ IsInjective(SetToSeq(S)) /\ ToSet(SetToSeq(S)) = S
<1> DEFINE N == Cardinality(S)
           q == SetToSeq(S)
<1>1. N \in Nat /\ ExistsBijection(1 .. N, S)
  BY FS_CardinalityType
<1>2. \E f \in [1 .. N -> S] : IsInjective(f)
  BY <1>1, Zenon DEF ExistsBijection, Bijection, Injection
<1>3. q \in [1 .. N -> S] /\ IsInjective(q)
  BY <1>2, Zenon DEF SetToSeq
<1>4. q \in Seq(S)
  <2> HIDE DEF q, N
  <2> QED BY <1>1, <1>3
<1>5. q \in Injection(1 .. N, S)
  BY <1>3, Zenon DEF Injection
<1>6. Cardinality(1 .. N) = N
  BY <1>1, FS_Interval
<1>7. q \in Surjection(1 .. N, S)
  BY <1>5, <1>6, FS_Injection
<1>8. ToSet(q) = S
  <2> HIDE DEF q, N
  <2> QED BY <1>3, <1>7 DEF Surjection, ToSet
<1> QED BY <1>3, <1>4, <1>8

\* The values of the recursion in Without, over T.
WithoutRec(T, q, S) ==
    \E f \in [0 .. Len(q) -> Seq(T)] :
        /\ f[0] = <<>> /\ Without(q, S) = f[Len(q)]
        /\ \A n \in 1 .. Len(q) : f[n] = IF q[n] \in S THEN f[n - 1] ELSE Append(f[n - 1], q[n])

\* The recursion has a value at each step.
LEMMA WithoutSteps ==
    ASSUME NEW T, NEW q \in Seq(T), NEW S
    PROVE  WithoutRec(T, q, S)
<1> DEFINE N == Len(q)
           none == <<>>
           V == Seq(T)
           More(n, s) == IF q[n] \in S THEN s ELSE Append(s, q[n])
           Step(g, n) == IF n = 0 THEN <<>>
                         ELSE IF q[n] \in S THEN g[n - 1] ELSE Append(g[n - 1], q[n])
           F == [n \in 1 .. N |-> [s \in V |-> More(n, s)]]
           kept == CHOOSE g : g = [n \in 0 .. N |-> Step(g, n)]
<1>1. N \in Nat /\ none \in V
  OBVIOUS
<1>2. \A n \in 1 .. N, s \in V : More(n, s) \in V
  OBVIOUS
<1>3. Without(q, S) = kept[N]
  BY DEF Without
<1>4. \A g : \A n \in 0 .. N : Step(g, n) = IF n = 0 THEN none ELSE More(n, g[n - 1])
  OBVIOUS
<1> HIDE DEF N, none, V, More, Step
<1>5. F \in [1 .. N -> [V -> V]]
  BY <1>2
<1>5a. \A n \in 1 .. N, s \in V : F[n][s] = More(n, s)
  OBVIOUS
<1> HIDE DEF F
<1>6. \E f \in [0 .. N -> V] : f[0] = none /\ \A n \in 1 .. N : f[n] = F[n][f[n - 1]]
  BY <1>1, <1>5, RecursionExists
<1>7. PICK f \in [0 .. N -> V] : f[0] = none /\ \A n \in 1 .. N : f[n] = F[n][f[n - 1]]
  BY <1>6
<1>8. \A n \in 1 .. N : n - 1 \in 0 .. N
  BY <1>1
<1>9. \A n \in 1 .. N : f[n] = More(n, f[n - 1])
  BY <1>5a, <1>7, <1>8
<1>10. \A n \in 0 .. N : f[n] = Step(f, n)
  BY <1>1, <1>4, <1>7, <1>9
<1>11. f = [n \in 0 .. N |-> Step(f, n)]
  BY <1>10
<1>12. kept = [n \in 0 .. N |-> Step(kept, n)]
  BY <1>11
<1> HIDE DEF kept
<1>13. \A n \in 0 .. N : kept[n] = Step(kept, n)
  BY <1>12
<1>14. kept[0] = none /\ \A n \in 1 .. N : kept[n] = More(n, kept[n - 1])
  BY <1>1, <1>4, <1>13
<1>15. \A n \in 0 .. N : kept[n] = f[n]
  <2> DEFINE Bad == {n \in 0 .. N : kept[n] # f[n]}
  <2> SUFFICES ASSUME Bad # {} PROVE FALSE
    OBVIOUS
  <2>1. PICK n \in Bad : \A j \in Bad : n <= j
    <3>1. Bad \subseteq Nat
      OBVIOUS
    <3> HIDE DEF Bad
    <3> QED BY <3>1, LeastNat
  <2>2. n \in 1 .. N /\ n - 1 \in 0 .. N /\ ~(n <= n - 1)
    BY <1>1, <1>7, <1>14, <2>1
  <2>3. kept[n - 1] = f[n - 1]
    BY <2>1, <2>2
  <2> QED BY <1>9, <1>14, <2>1, <2>2, <2>3
<1>16. Without(q, S) = f[N]
  BY <1>1, <1>3, <1>15
<1> QED BY <1>7, <1>9, <1>16 DEF WithoutRec, N, V, none, More

\* h is what is left of the first n elements of q when S is taken out.
Keeps(q, S, h, n) ==
    /\ \A i \in 1 .. Len(h) : \E a \in 1 .. n : h[i] = q[a] /\ q[a] \notin S
    /\ \A a \in 1 .. n : q[a] \notin S => \E i \in 1 .. Len(h) : h[i] = q[a]
    /\ \A i, j \in 1 .. Len(h) : i < j => \E a, b \in 1 .. n : a < b /\ h[i] = q[a] /\ h[j] = q[b]

\* One step of Without.
LEMMA KeepsNext ==
    ASSUME NEW T, NEW q \in Seq(T), NEW S, NEW n \in 1 .. Len(q), NEW g \in Seq(T), Keeps(q, S, g, n - 1)
    PROVE  Keeps(q, S, IF q[n] \in S THEN g ELSE Append(g, q[n]), n)
<1>1. CASE q[n] \in S
  <2>1. \A a \in 1 .. n : q[a] \notin S => a \in 1 .. n - 1
    BY <1>1
  <2>2. \A a \in 1 .. n - 1 : a \in 1 .. n
    OBVIOUS
  <2>3. (IF q[n] \in S THEN g ELSE Append(g, q[n])) = g
    BY <1>1
  <2> QED BY <2>1, <2>2, <2>3 DEF Keeps
<1>2. CASE q[n] \notin S
  <2> DEFINE h == Append(g, q[n])
             e == q[n]
             M == Len(g)
  <2>1. M \in Nat /\ Len(h) = M + 1 /\ h[M + 1] = e /\ \A i \in 1 .. M : h[i] = g[i]
    BY AppendFacts
  <2>2. (IF q[n] \in S THEN g ELSE Append(g, q[n])) = h
    BY <1>2
  <2>3. /\ \A i \in 1 .. M : \E a \in 1 .. n - 1 : g[i] = q[a] /\ q[a] \notin S
        /\ \A a \in 1 .. n - 1 : q[a] \notin S => \E i \in 1 .. M : g[i] = q[a]
        /\ \A i, j \in 1 .. M : i < j => \E a, b \in 1 .. n - 1 : a < b /\ g[i] = q[a] /\ g[j] = q[b]
    BY DEF Keeps
  <2>4. n \in 1 .. n /\ n \in Nat /\ (\A a \in 1 .. n - 1 : a \in 1 .. n /\ a < n) /\ e = q[n] /\ e \notin S
    BY <1>2
  <2>5. \A a \in 1 .. n : a = n \/ a \in 1 .. n - 1
    OBVIOUS
  <2> HIDE DEF h, M, e
  <2>6. \A i \in 1 .. M + 1 : i = M + 1 \/ i \in 1 .. M
    BY <2>1
  <2>7. \A i \in 1 .. M : i \in 1 .. M + 1
    BY <2>1
  <2>8. ASSUME NEW i \in 1 .. M + 1 PROVE \E a \in 1 .. n : h[i] = q[a] /\ q[a] \notin S
    <3>1. CASE i = M + 1
      BY <2>1, <2>4, <3>1
    <3>2. CASE i \in 1 .. M
      <4>1. PICK a \in 1 .. n - 1 : g[i] = q[a] /\ q[a] \notin S
        BY <2>3, <3>2
      <4> QED BY <2>1, <2>4, <3>2, <4>1
    <3> QED BY <2>6, <3>1, <3>2
  <2>9. ASSUME NEW a \in 1 .. n, q[a] \notin S PROVE \E i \in 1 .. M + 1 : h[i] = q[a]
    <3>1. CASE a = n
      <4>1. M + 1 \in 1 .. M + 1
        BY <2>1
      <4> QED BY <2>1, <2>4, <3>1, <4>1
    <3>2. CASE a \in 1 .. n - 1
      <4>1. PICK i \in 1 .. M : g[i] = q[a]
        BY <2>3, <2>9, <3>2
      <4> QED BY <2>1, <2>7, <4>1
    <3> QED BY <2>5, <3>1, <3>2
  <2>10. ASSUME NEW i \in 1 .. M + 1, NEW j \in 1 .. M + 1, i < j
         PROVE  \E a, b \in 1 .. n : a < b /\ h[i] = q[a] /\ h[j] = q[b]
    <3>1. i \in 1 .. M
      BY <2>1, <2>10
    <3>2. CASE j = M + 1
      <4>1. PICK a \in 1 .. n - 1 : g[i] = q[a]
        BY <2>3, <3>1
      <4>2. h[i] = q[a] /\ h[j] = q[n] /\ a < n /\ a \in 1 .. n /\ n \in 1 .. n
        BY <2>1, <2>4, <3>1, <3>2, <4>1
      <4> QED BY <4>2
    <3>3. CASE j \in 1 .. M
      <4>1. PICK a \in 1 .. n - 1, b \in 1 .. n - 1 : a < b /\ g[i] = q[a] /\ g[j] = q[b]
        BY <2>3, <2>10, <3>1, <3>3
      <4>2. h[i] = q[a] /\ h[j] = q[b] /\ a \in 1 .. n /\ b \in 1 .. n
        BY <2>1, <2>4, <3>1, <3>3, <4>1
      <4> QED BY <4>1, <4>2
    <3> QED BY <2>6, <3>2, <3>3
  <2>11. Keeps(q, S, h, n)
    BY <2>1, <2>8, <2>9, <2>10 DEF Keeps
  <2> QED BY <2>2, <2>11
<1> QED BY <1>1, <1>2

\* The elements of g are in q in the same order.
InOrder(g, q) ==
    \A i, j \in DOMAIN g : i < j => \E a, b \in DOMAIN q : a < b /\ g[i] = q[a] /\ g[j] = q[b]

\* Without takes out what is in S and keeps the order of the rest.
LEMMA WithoutFacts ==
    ASSUME NEW T, NEW q \in Seq(T), NEW S
    PROVE  /\ Without(q, S) \in Seq(T)
           /\ ToSet(Without(q, S)) = ToSet(q) \ S
           /\ InOrder(Without(q, S), q)
<1>0. WithoutRec(T, q, S)
  BY WithoutSteps
<1>1. PICK f \in [0 .. Len(q) -> Seq(T)] :
        /\ f[0] = <<>> /\ Without(q, S) = f[Len(q)]
        /\ \A n \in 1 .. Len(q) : f[n] = IF q[n] \in S THEN f[n - 1] ELSE Append(f[n - 1], q[n])
  BY <1>0 DEF WithoutRec
<1> DEFINE N == Len(q)
           Bad == {n \in 0 .. N : ~Keeps(q, S, f[n], n)}
<1>2. N \in Nat /\ DOMAIN q = 1 .. N
  OBVIOUS
<1>3. Keeps(q, S, f[0], 0)
  BY <1>1 DEF Keeps
<1>4. ASSUME NEW n \in 1 .. N, Keeps(q, S, f[n - 1], n - 1) PROVE Keeps(q, S, f[n], n)
  <2>1. f[n - 1] \in Seq(T)
    BY <1>1
  <2>2. f[n] = IF q[n] \in S THEN f[n - 1] ELSE Append(f[n - 1], q[n])
    BY <1>1
  <2> QED BY <1>4, <2>1, <2>2, KeepsNext
<1>5. Bad = {}
  <2> SUFFICES ASSUME Bad # {} PROVE FALSE
    OBVIOUS
  <2>1. PICK n \in Bad : \A j \in Bad : n <= j
    <3>1. Bad \subseteq Nat
      OBVIOUS
    <3> HIDE DEF Bad
    <3> QED BY <3>1, LeastNat
  <2>2. n \in 1 .. N /\ n - 1 \in 0 .. N /\ ~(n <= n - 1)
    BY <1>2, <1>3, <2>1
  <2> QED BY <1>4, <2>1, <2>2
<1> DEFINE g == Without(q, S)
<1>6. Keeps(q, S, g, N) /\ g \in Seq(T)
  BY <1>1, <1>2, <1>5
<1> HIDE DEF Bad, g, N
<1>7. DOMAIN g = 1 .. Len(g)
  BY <1>6
<1>8. ToSet(g) = ToSet(q) \ S
  <2>1. ASSUME NEW x \in ToSet(g) PROVE x \in ToSet(q) \ S
    <3>1. PICK i \in 1 .. Len(g) : x = g[i]
      BY <1>7 DEF ToSet
    <3>2. PICK a \in 1 .. N : g[i] = q[a] /\ q[a] \notin S
      BY <1>6 DEF Keeps
    <3> QED BY <1>2, <3>1, <3>2 DEF ToSet
  <2>2. ASSUME NEW x \in ToSet(q) \ S PROVE x \in ToSet(g)
    <3>1. PICK a \in 1 .. N : x = q[a]
      BY <1>2 DEF ToSet
    <3>2. PICK i \in 1 .. Len(g) : g[i] = q[a]
      BY <1>6, <3>1 DEF Keeps
    <3> QED BY <1>7, <3>1, <3>2 DEF ToSet
  <2> QED BY <2>1, <2>2
<1>9. \A i, j \in DOMAIN g : i < j => \E a, b \in DOMAIN q : a < b /\ g[i] = q[a] /\ g[j] = q[b]
  <2>1. \A i, j \in 1 .. Len(g) : i < j => \E a, b \in 1 .. N : a < b /\ g[i] = q[a] /\ g[j] = q[b]
    BY <1>6, Zenon DEF Keeps
  <2> DEFINE D == DOMAIN q
             E == DOMAIN g
  <2>2. D = 1 .. N /\ E = 1 .. Len(g)
    BY <1>2, <1>7
  <2> HIDE DEF D, E
  <2>3. \A i, j \in E : i < j => \E a, b \in D : a < b /\ g[i] = q[a] /\ g[j] = q[b]
    BY <2>1, <2>2
  <2> QED BY <2>3, Zenon DEF D, E
<1>10. InOrder(g, q)
  BY <1>9, Zenon DEF InOrder
<1> QED BY <1>6, <1>8, <1>10 DEF g

\* What Without does to the elements.
LEMMA WithoutElements ==
    ASSUME NEW T, NEW q \in Seq(T), NEW S
    PROVE  /\ Without(q, S) \in Seq(T)
           /\ ToSet(Without(q, S)) = ToSet(q) \ S
           /\ IsInjective(q) => IsInjective(Without(q, S))
<1> DEFINE g == Without(q, S)
<1>1. g \in Seq(T) /\ ToSet(g) = ToSet(q) \ S /\ InOrder(g, q)
  BY WithoutFacts
<1> HIDE DEF g
<1>2. DOMAIN q = 1 .. Len(q) /\ DOMAIN g = 1 .. Len(g)
  BY <1>1
<1>3. ASSUME IsInjective(q) PROVE IsInjective(g)
  <2>1. \A a, b \in 1 .. Len(q) : a < b => q[a] # q[b]
    BY <1>3, InjectiveByOrder
  <2>2. ASSUME NEW i \in 1 .. Len(g), NEW j \in 1 .. Len(g), i < j PROVE g[i] # g[j]
    <3>1. PICK a \in DOMAIN q, b \in DOMAIN q : a < b /\ g[i] = q[a] /\ g[j] = q[b]
      BY <1>1, <1>2, <2>2 DEF InOrder
    <3> QED BY <1>2, <2>1, <3>1
  <2> QED BY <1>1, <2>2, InjectiveByOrder
<1> QED BY <1>1, <1>3 DEF g
=============================================================================
