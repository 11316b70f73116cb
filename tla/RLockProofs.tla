----------------------------- MODULE RLockProofs -----------------------------
(***************************************************************************)
(* Theorems about RLock for every set of clients and every bound.          *)
(***************************************************************************)
EXTENDS RLockInv, SeqFacts

-----------------------------------------------------------------------------
(* The granted list.                                                       *)

\* A client on the list has a position there.
LEMMA PositionFacts ==
    ASSUME NEW list \in Seq(Client), NEW c, c \in Range(list)
    PROVE  Position(list, c) \in DOMAIN list /\ list[Position(list, c)] = c
BY DEF Range, Position

\* maintain_granted_order repairs a list in which only c is out of order, and
\* keeps the same clients on it.
LEMMA MaintainOrderFacts ==
    ASSUME NEW list \in Seq(Client), IsInjective(list),
           NEW granted \in [Client -> Mode], OneWriter(granted),
           NEW c, c \in Range(list),
           \A i, j \in DOMAIN list : i < j /\ list[i] # c /\ list[j] # c
               => Rank(granted[list[i]]) >= Rank(granted[list[j]])
    PROVE  /\ MaintainOrder(list, granted, c) \in Seq(Client)
           /\ IsInjective(MaintainOrder(list, granted, c))
           /\ Range(MaintainOrder(list, granted, c)) = Range(list)
           /\ SortedList(MaintainOrder(list, granted, c), granted)
<1> DEFINE k == Position(list, c)
           rest == RemoveAt(list, k)
           m == granted[c]
           at == SortedPosition(rest, granted, m)
           new == InsertAt(rest, at, c)
<1>1. k \in 1 .. Len(list) /\ list[k] = c
  BY PositionFacts
<1>2. c \in Client /\ m \in Mode
  BY <1>1
<1>3. \A i \in 1 .. Len(list) : list[i] \in Client /\ granted[list[i]] \in 0 .. 3
  BY DEF Mode, NULL, EX_WR
<1>4. \A i \in 1 .. Len(list) : list[i] = c => i = k
  BY <1>1 DEF IsInjective
<1>5. /\ rest \in Seq(Client)
      /\ Len(rest) = Len(list) - 1
      /\ \A j \in 1 .. (Len(list) - 1) : rest[j] = IF j < k THEN list[j] ELSE list[j + 1]
  <2> HIDE DEF k
  <2> QED BY <1>1, RemoveAtFacts
<1>6. CASE ~OutOfOrder(list, granted, k)
  <2>1. MaintainOrder(list, granted, c) = list
    BY <1>6 DEF MaintainOrder
  <2>2. SortedList(list, granted)
    <3> SUFFICES ASSUME NEW i \in 1 .. Len(list), NEW j \in 1 .. Len(list), i < j
                 PROVE  Rank(granted[list[i]]) >= Rank(granted[list[j]])
      BY DEF SortedList
    <3>1. CASE list[i] # c /\ list[j] # c
      BY <3>1
    <3>2. CASE list[i] = c
      <4>1. i = k /\ list[j] # c
        BY <1>4, <3>2
      <4>2. granted[list[k]] >= granted[list[k + 1]] /\ k + 1 \in 1 .. Len(list)
        BY <1>1, <1>3, <1>6, <4>1 DEF OutOfOrder
      <4>3. Rank(granted[list[k + 1]]) >= Rank(granted[list[j]])
        <5>1. CASE k + 1 = j
          BY <1>3, <4>2, <5>1 DEF Rank, NONE
        <5>2. CASE k + 1 # j
          BY <1>4, <4>1, <4>2, <5>2
        <5> QED BY <5>1, <5>2
      <4> HIDE DEF k
      <4> QED BY <1>1, <1>3, <4>1, <4>2, <4>3 DEF Rank, NONE
    <3>3. CASE list[j] = c
      <4>1. j = k /\ list[i] # c
        BY <1>4, <3>3
      <4>2. granted[list[k]] <= granted[list[k - 1]] /\ k - 1 \in 1 .. Len(list)
        BY <1>1, <1>3, <1>6, <4>1 DEF OutOfOrder
      <4>3. Rank(granted[list[i]]) >= Rank(granted[list[k - 1]])
        <5>1. CASE k - 1 = i
          BY <1>3, <4>2, <5>1 DEF Rank, NONE
        <5>2. CASE k - 1 # i
          BY <1>4, <4>1, <4>2, <5>2
        <5> QED BY <5>1, <5>2
      <4> HIDE DEF k
      <4> QED BY <1>1, <1>3, <4>1, <4>2, <4>3 DEF Rank, NONE
    <3> QED BY <3>1, <3>2, <3>3
  <2> QED BY <2>1, <2>2
<1>7. CASE OutOfOrder(list, granted, k)
  <2>1. MaintainOrder(list, granted, c) = new
    BY <1>7 DEF MaintainOrder
  <2> HIDE DEF k
  <2>2. /\ \A j \in 1 .. Len(rest) : rest[j] \in Client /\ rest[j] # c
        /\ \A i, j \in 1 .. Len(rest) : rest[i] = rest[j] => i = j
        /\ \A i, j \in 1 .. Len(rest) : i < j => Rank(granted[rest[i]]) >= Rank(granted[rest[j]])
    <3>1. \A j \in 1 .. Len(rest) : rest[j] \in Client /\ rest[j] # c
      BY <1>1, <1>3, <1>4, <1>5
    <3>2. ASSUME NEW i \in 1 .. Len(rest), NEW j \in 1 .. Len(rest), i < j
          PROVE  rest[i] # rest[j] /\ Rank(granted[rest[i]]) >= Rank(granted[rest[j]])
      <4> DEFINE fi == IF i < k THEN i ELSE i + 1
                 fj == IF j < k THEN j ELSE j + 1
      <4>1. fi \in 1 .. Len(list) /\ fj \in 1 .. Len(list) /\ fi < fj
        BY <1>1, <1>5, <3>2
      <4>2. rest[i] = list[fi] /\ rest[j] = list[fj]
        BY <1>5
      <4> HIDE DEF fi, fj
      <4>3. list[fi] # list[fj]
        BY <4>1 DEF IsInjective
      <4> QED BY <3>1, <4>1, <4>2, <4>3
    <3>3. \A i, j \in 1 .. Len(rest) : rest[i] = rest[j] => i = j
      <4> HIDE DEF rest
      <4> QED BY <1>5, <3>2
    <3> QED BY <3>1, <3>2, <3>3
  <2>3. at \in 1 .. (Len(rest) + 1)
    BY <1>2, <1>5 DEF SortedPosition
  <2>4. /\ new \in Seq(Client)
        /\ Len(new) = Len(rest) + 1
        /\ \A j \in 1 .. (Len(rest) + 1) :
             new[j] = IF j < at THEN rest[j] ELSE IF j = at THEN c ELSE rest[j - 1]
    <3> HIDE DEF rest, at
    <3> QED BY <1>2, <1>5, <2>3, InsertAtFacts
  <2>5. IsInjective(new)
    <3> SUFFICES ASSUME NEW i \in 1 .. Len(new), NEW j \in 1 .. Len(new), i < j
                 PROVE  new[i] # new[j]
      BY <2>4 DEF IsInjective
    <3> DEFINE fi == IF i < at THEN i ELSE i - 1
               fj == IF j < at THEN j ELSE j - 1
    <3>1. /\ i # at => fi \in 1 .. Len(rest) /\ new[i] = rest[fi]
          /\ j # at => fj \in 1 .. Len(rest) /\ new[j] = rest[fj]
          /\ i # at /\ j # at => fi # fj
          /\ i = at => new[i] = c
          /\ j = at => new[j] = c
      <4> HIDE DEF rest, at, new
      <4> QED BY <1>5, <2>3, <2>4
    <3> HIDE DEF rest, at, new, fi, fj
    <3> QED BY <2>2, <3>1
  <2>6. Range(new) = Range(list)
    <3> HIDE DEF rest, at, new
    <3>1. ASSUME NEW i \in 1 .. Len(new) PROVE new[i] \in Range(list)
      <4>1. ASSUME NEW r \in 1 .. Len(rest) PROVE rest[r] \in Range(list)
        <5>1. (rest[r] = list[r] /\ r \in 1 .. Len(list)) \/ (rest[r] = list[r + 1] /\ r + 1 \in 1 .. Len(list))
          BY <1>1, <1>5
        <5> QED BY <5>1 DEF Range
      <4>2. CASE i = at
        BY <1>1, <2>3, <2>4, <4>2 DEF Range
      <4>3. CASE i < at
        <5>1. i \in 1 .. Len(rest) /\ new[i] = rest[i]
          BY <1>5, <2>3, <2>4, <4>3
        <5> QED BY <4>1, <5>1
      <4>4. CASE i > at
        <5>1. i - 1 \in 1 .. Len(rest) /\ new[i] = rest[i - 1]
          BY <1>5, <2>3, <2>4, <4>4
        <5> QED BY <4>1, <5>1
      <4> QED BY <1>5, <2>3, <2>4, <4>2, <4>3, <4>4
    <3>2. ASSUME NEW i \in 1 .. Len(list) PROVE list[i] \in Range(new)
      <4>1. CASE i = k
        BY <1>1, <2>3, <2>4, <4>1 DEF Range
      <4>2. ASSUME NEW r \in 1 .. Len(rest), list[i] = rest[r] PROVE list[i] \in Range(new)
        <5>1. r \in 1 .. Len(new) /\ r + 1 \in 1 .. Len(new)
          BY <1>5, <2>4
        <5>2. new[r] = rest[r] \/ new[r + 1] = rest[r]
          <6>1. CASE r < at
            BY <1>5, <2>3, <2>4, <6>1
          <6>2. CASE ~(r < at)
            <7>1. r + 1 \in 1 .. (Len(rest) + 1) /\ ~(r + 1 < at) /\ r + 1 # at /\ (r + 1) - 1 = r
              BY <1>5, <2>3, <6>2
            <7> QED BY <2>4, <7>1
          <6> QED BY <6>1, <6>2
        <5> QED BY <4>2, <5>1, <5>2 DEF Range
      <4>3. CASE i < k
        BY <1>1, <1>5, <4>2, <4>3
      <4>4. CASE i > k
        <5>1. i - 1 \in 1 .. Len(rest) /\ rest[i - 1] = list[i]
          BY <1>1, <1>5, <4>4
        <5> QED BY <4>2, <5>1
      <4> QED BY <1>1, <4>1, <4>3, <4>4
    <3>3. \A x : x \in Range(new) <=> \E i \in 1 .. Len(new) : x = new[i]
      BY <1>5, <2>4 DEF Range
    <3>4. \A x : x \in Range(list) <=> \E i \in 1 .. Len(list) : x = list[i]
      BY DEF Range
    <3> QED BY <3>1, <3>2, <3>3, <3>4
  <2>7. \A j \in 1 .. Len(rest) : granted[rest[j]] \in 0 .. 3 /\ (m = EX_WR => granted[rest[j]] < EX_WR)
    BY <1>2, <2>2 DEF OneWriter, Mode, NULL, EX_WR
  <2>8. /\ \A j \in 1 .. Len(rest) : j < at => Rank(granted[rest[j]]) >= Rank(m)
        /\ \A j \in 1 .. Len(rest) : j >= at => Rank(m) >= Rank(granted[rest[j]])
    <3>1. CASE m <= NONE
      BY <1>2, <2>3, <2>7, <3>1 DEF SortedPosition, Rank, Mode, NULL, NONE, EX_WR
    <3>2. CASE m = SH_RD
      <4>1. CASE rest # <<>> /\ granted[rest[1]] = EX_WR
        <5>1. at = 2 /\ 1 \in 1 .. Len(rest)
          BY <1>5, <3>2, <4>1 DEF SortedPosition, SH_RD, NONE
        <5>2. \A j \in 1 .. Len(rest) : j >= 2 => granted[rest[j]] <= SH_RD
          BY <2>2, <2>7, <4>1, <5>1 DEF OneWriter, EX_WR, SH_RD
        <5> HIDE DEF rest, m, at
        <5> QED BY <2>7, <3>2, <4>1, <5>1, <5>2 DEF Rank, NONE, SH_RD, EX_WR
      <4>2. CASE ~(rest # <<>> /\ granted[rest[1]] = EX_WR)
        <5>1. at = 1
          BY <3>2, <4>2 DEF SortedPosition, SH_RD, NONE
        <5>2. \A j \in 1 .. Len(rest) : 1 \in 1 .. Len(rest) /\ rest # <<>>
          BY <1>5
        <5>3. \A j \in 1 .. Len(rest) : Rank(granted[rest[1]]) >= Rank(granted[rest[j]])
          BY <2>2, <2>7, <5>2 DEF Rank, NONE
        <5> HIDE DEF rest, m, at
        <5> QED BY <2>7, <3>2, <4>2, <5>1, <5>2, <5>3 DEF Rank, NONE, SH_RD, EX_WR
      <4> QED BY <4>1, <4>2
    <3>3. CASE m = EX_WR
      BY <2>7, <3>3 DEF SortedPosition, Rank, NONE, SH_RD, EX_WR
    <3> QED BY <1>2, <3>1, <3>2, <3>3 DEF Mode, NULL, NONE, SH_RD, EX_WR
  <2>9. SortedList(new, granted)
    <3> SUFFICES ASSUME NEW i \in 1 .. Len(new), NEW j \in 1 .. Len(new), i < j
                 PROVE  Rank(granted[new[i]]) >= Rank(granted[new[j]])
      BY <2>4 DEF SortedList
    <3>1. granted[c] = m
      OBVIOUS
    <3> HIDE DEF rest, at, new, m
    <3>2. CASE i = at
      BY <1>5, <2>3, <2>4, <2>8, <3>1, <3>2
    <3>3. CASE j = at
      BY <1>5, <2>3, <2>4, <2>8, <3>1, <3>3
    <3>4. CASE i # at /\ j # at
      <4> DEFINE fi == IF i < at THEN i ELSE i - 1
                 fj == IF j < at THEN j ELSE j - 1
      <4>1. fi \in 1 .. Len(rest) /\ fj \in 1 .. Len(rest) /\ fi < fj
        BY <1>5, <2>3, <2>4, <3>4
      <4>2. new[i] = rest[fi] /\ new[j] = rest[fj]
        BY <1>5, <2>3, <2>4, <3>4
      <4> HIDE DEF fi, fj
      <4> QED BY <2>2, <4>1, <4>2
    <3> QED BY <3>2, <3>3, <3>4
  <2> QED BY <2>1, <2>4, <2>5, <2>6, <2>9
<1> QED BY <1>6, <1>7

-----------------------------------------------------------------------------
(* The walk of process_requests.                                           *)

\* A client ranked no higher than a compatible one is compatible too.
LEMMA CompatibleBelow ==
    ASSUME NEW a \in Mode, NEW b \in Mode, NEW m \in Mode,
           Rank(a) >= Rank(b), Compatible(a, m)
    PROVE  Compatible(b, m)
BY DEF Mode, Rank, Compatible, NULL, NONE, EX_WR

\* Stopping at the first compatible client misses no conflict.
LEMMA NoConflictLeft ==
    ASSUME NEW s, ServerInv(s), NEW r \in RLockRequest, ~SawIncompat(s, r),
           NEW d \in Client, d # r.client
    PROVE  Compatible(s.granted[d], r.mode)
<1>1. /\ s.list \in Seq(Client) /\ s.granted \in [Client -> Mode]
      /\ SortedList(s.list, s.granted) /\ Absent(s) /\ r.mode \in Mode
  BY DEF ServerInv, SrvType, RLockRequest
<1>2. CASE d \notin Range(s.list)
  BY <1>1, <1>2 DEF Absent, Compatible, NULL, NONE
<1>3. CASE d \in Range(s.list)
  <2>1. PICK k \in 1 .. Len(s.list) : s.list[k] = d
    BY <1>1, <1>3 DEF Range
  <2> DEFINE T == {i \in 1 .. Len(s.list) : s.list[i] # r.client}
  <2>2. PICK i \in T : \A j \in T : i <= j
    <3>1. T \subseteq Nat /\ T # {}
      BY <1>1, <2>1
    <3> HIDE DEF T
    <3> QED BY <3>1, LeastNat
  <2>3. \A j \in 1 .. (i - 1) : s.list[j] = r.client
    BY <1>1, <2>2
  <2>4. Compatible(s.granted[s.list[i]], r.mode)
    BY <1>1, <2>2, <2>3 DEF SawIncompat, Conflicts
  <2>5. i \in 1 .. Len(s.list) /\ i <= k /\ s.list[i] \in Client
    BY <1>1, <2>1, <2>2
  <2>6. Rank(s.granted[s.list[i]]) >= Rank(s.granted[d])
    <3>1. CASE i = k
      BY <1>1, <2>1, <3>1 DEF Rank, Mode, NULL, NONE, EX_WR
    <3>2. CASE i # k
      BY <1>1, <2>1, <2>5, <3>2 DEF SortedList
    <3> QED BY <3>1, <3>2
  <2> QED BY <1>1, <2>4, <2>5, <2>6, CompatibleBelow
<1> QED BY <1>2, <1>3

\* Only clients in the way of the request are revoked, once.
LEMMA RevokeesFacts ==
    ASSUME NEW s, ServerInv(s), NEW r \in RLockRequest, NEW d \in Revokees(s, r)
    PROVE  /\ d \in Client /\ d # r.client
           /\ ~Compatible(s.granted[d], r.mode)
           /\ s.revoked[d] # MostCompatible(r.mode)
<1>1. s.list \in Seq(Client)
  BY DEF ServerInv, SrvType
<1>2. PICK i \in 1 .. Len(s.list) :
        s.list[i] = d /\ d # r.client /\ \A j \in 1 .. i : ~StopsAt(s, r, j)
  BY <1>1 DEF Revokees
<1>3. ~StopsAt(s, r, i) /\ s.list[i] \in Client
  BY <1>1, <1>2
<1> QED BY <1>2, <1>3 DEF StopsAt

LEMMA SendRevokesFacts ==
    ASSUME NEW s \in SrvType, NEW r \in RLockRequest
    PROVE  LET t == SendRevokes(s, r) IN
           /\ t \in SrvType
           /\ t.lists = s.lists /\ t.list = s.list /\ t.reqs = s.reqs
           /\ t.granted = s.granted /\ t.aborted = s.aborted
           /\ \A c \in Client : c \in Revokees(s, r) =>
                /\ t.revoked[c] = MostCompatible(r.mode)
                /\ t.toClient[c] = Append(s.toClient[c], Revoke(MostCompatible(r.mode)))
           /\ \A c \in Client : c \notin Revokees(s, r) =>
                t.revoked[c] = s.revoked[c] /\ t.toClient[c] = s.toClient[c]
<1> DEFINE m == MostCompatible(r.mode)
           rv == Revokees(s, r)
           revoked == [c \in Client |-> IF c \in rv THEN m ELSE s.revoked[c]]
           toClient == [c \in Client |->
                          IF c \in rv THEN Append(s.toClient[c], Revoke(m)) ELSE s.toClient[c]]
           t == SendRevokes(s, r)
<1>1. m \in Mode /\ Revoke(m) \in ToClientMsg
  BY DEF MostCompatible, Mode, NULL, NONE, SH_RD, EX_WR, Revoke, ToClientMsg
<1>2. revoked \in [Client -> Mode] /\ toClient \in [Client -> Seq(ToClientMsg)]
  <2> HIDE DEF m, rv
  <2> QED BY <1>1 DEF SrvType
<1>3. t = [s EXCEPT !.revoked = revoked, !.toClient = toClient]
  BY DEF SendRevokes
<1> HIDE DEF revoked, toClient, t
<1>4. /\ t \in SrvType /\ t.revoked = revoked /\ t.toClient = toClient
      /\ t.lists = s.lists /\ t.list = s.list /\ t.reqs = s.reqs
      /\ t.granted = s.granted /\ t.aborted = s.aborted
  BY <1>2, <1>3 DEF SrvType
<1> QED BY <1>4 DEF t, revoked, toClient

\* A request that cannot be served waits for a confirm.
LEMMA SendRevokesBlocks ==
    ASSUME NEW s, ServerInv(s), s.reqs # <<>>, SawIncompat(s, Head(s.reqs))
    PROVE  Blocked(SendRevokes(s, Head(s.reqs)))
<1> DEFINE r == Head(s.reqs)
           t == SendRevokes(s, r)
<1>1. s \in SrvType /\ r \in RLockRequest /\ s.list \in Seq(Client)
  BY DEF ServerInv, SrvType
<1>2. PICK i \in 1 .. Len(s.list) :
        Conflicts(s, r, i) /\ \A j \in 1 .. (i - 1) : s.list[j] = r.client
  BY <1>1 DEF SawIncompat
<1> DEFINE d == s.list[i]
<1>3. d \in Client \ {r.client} /\ ~Compatible(s.granted[d], r.mode)
  BY <1>1, <1>2 DEF Conflicts
<1>4. t.reqs = s.reqs /\ t.granted = s.granted
  BY <1>1, SendRevokesFacts
<1>5. t.revoked[d] = MostCompatible(r.mode)
  <2>1. CASE d \in Revokees(s, r)
    BY <1>1, <1>3, <2>1, SendRevokesFacts
  <2>2. CASE d \notin Revokees(s, r)
    <3>1. \A j \in 1 .. (i - 1) : ~StopsAt(s, r, j)
      BY <1>2 DEF StopsAt
    <3>2. StopsAt(s, r, i)
      BY <1>1, <1>2, <1>3, <2>2, <3>1 DEF Revokees
    <3>3. s.revoked[d] = MostCompatible(r.mode)
      BY <1>3, <3>2 DEF StopsAt
    <3> QED BY <1>1, <1>3, <2>2, <3>3, SendRevokesFacts
  <2> QED BY <2>1, <2>2
<1>6. Blocked(t)
  <2> HIDE DEF t
  <2> QED BY <1>3, <1>4, <1>5 DEF Blocked
<1> QED BY <1>6

\* What serving the head request leaves: the client is on the list with the
\* mode it asked for, everything else is as it was.
Served(s) ==
    LET r == Head(s.reqs)
    IN [SendGrant(GetClient(s, r.client), r) EXCEPT !.reqs = Tail(@)]

LEMMA GetClientFacts ==
    ASSUME NEW s, ServerInv(s), NEW c \in Client
    PROVE  LET t == GetClient(s, c) IN
           /\ t \in SrvType
           /\ t.granted = s.granted /\ t.revoked = s.revoked /\ t.toClient = s.toClient
           /\ t.reqs = s.reqs /\ t.lists = s.lists /\ t.aborted = s.aborted
           /\ IsInjective(t.list)
           /\ c \in Range(t.list) /\ Range(s.list) \subseteq Range(t.list)
           /\ SortedList(t.list, t.granted)
<1> DEFINE t == GetClient(s, c)
<1>1. /\ s \in SrvType /\ s.list \in Seq(Client) /\ s.granted \in [Client -> Mode]
      /\ s.revoked \in [Client -> Mode] /\ IsInjective(s.list) /\ Absent(s)
      /\ SortedList(s.list, s.granted)
  BY DEF ServerInv, SrvType
<1>2. CASE c \in Range(s.list)
  BY <1>1, <1>2 DEF GetClient
<1>3. CASE c \notin Range(s.list)
  <2> DEFINE new == Append(s.list, c)
  <2>1. s.granted[c] = NULL /\ s.revoked[c] = NULL
    BY <1>1, <1>3 DEF Absent
  <2>2. t = [s EXCEPT !.list = new, !.granted[c] = NULL, !.revoked[c] = NULL]
    BY <1>3 DEF GetClient
  <2>3. t = [s EXCEPT !.list = new]
    <3>1. [s.granted EXCEPT ![c] = NULL] = s.granted /\ [s.revoked EXCEPT ![c] = NULL] = s.revoked
      BY <1>1, <2>1
    <3>2. t = [s EXCEPT !.list = new, !.granted = [s.granted EXCEPT ![c] = NULL],
                        !.revoked = [s.revoked EXCEPT ![c] = NULL]]
      BY <2>2
    <3> HIDE DEF t, new
    <3> QED BY <1>1, <3>1, <3>2 DEF SrvType
  <2>4. /\ new \in Seq(Client) /\ Len(new) = Len(s.list) + 1
        /\ new[Len(s.list) + 1] = c
        /\ \A i \in 1 .. Len(s.list) : new[i] = s.list[i]
    BY <1>1
  <2>5. /\ t \in SrvType /\ t.list = new
        /\ t.granted = s.granted /\ t.revoked = s.revoked /\ t.toClient = s.toClient
        /\ t.reqs = s.reqs /\ t.lists = s.lists /\ t.aborted = s.aborted
    <3> HIDE DEF new, t
    <3> QED BY <1>1, <2>3, <2>4 DEF SrvType
  <2> HIDE DEF new, t
  <2>6. \A i \in 1 .. Len(s.list) : s.list[i] # c /\ s.list[i] \in Client
    BY <1>1, <1>3 DEF Range
  <2>7. IsInjective(new)
    <3>1. IsInjective(s.list) /\ s.list \in Seq(Client) /\ Len(s.list) \in Nat
      BY <1>1
    <3>2. \A i, j \in 1 .. Len(s.list) : i < j => s.list[i] # s.list[j]
      BY <3>1, InjectiveByOrder
    <3>3. ASSUME NEW i \in 1 .. Len(new), NEW j \in 1 .. Len(new), i < j
          PROVE  new[i] # new[j]
      <4>1. i \in 1 .. Len(s.list) /\ new[i] = s.list[i]
        BY <2>4, <3>1, <3>3
      <4>2. CASE j = Len(s.list) + 1
        BY <2>4, <2>6, <4>1, <4>2
      <4>3. CASE j # Len(s.list) + 1
        <5>1. j \in 1 .. Len(s.list) /\ new[j] = s.list[j]
          BY <2>4, <3>1, <4>3
        <5> QED BY <3>2, <3>3, <4>1, <5>1
      <4> QED BY <4>2, <4>3
    <3> QED BY <2>4, <3>3, InjectiveByOrder
  <2>8. c \in Range(new) /\ Range(s.list) \subseteq Range(new)
    <3>1. \A i \in 1 .. Len(s.list) : s.list[i] \in Range(new)
      BY <1>1, <2>4 DEF Range
    <3>2. c \in Range(new)
      BY <1>1, <2>4 DEF Range
    <3> QED BY <1>1, <3>1, <3>2 DEF Range
  <2>9. SortedList(new, s.granted)
    <3> SUFFICES ASSUME NEW i \in 1 .. Len(new), NEW j \in 1 .. Len(new), i < j
                 PROVE  Rank(s.granted[new[i]]) >= Rank(s.granted[new[j]])
      BY <2>4 DEF SortedList
    <3>1. CASE j = Len(s.list) + 1
      <4>1. i \in 1 .. Len(s.list) /\ new[i] = s.list[i] /\ new[j] = c
        <5>1. Len(s.list) \in Nat
          BY <1>1
        <5> QED BY <2>4, <3>1, <5>1
      <4>2. s.granted[new[i]] \in Mode
        BY <1>1, <2>6, <4>1
      <4>3. s.granted[new[j]] = NULL
        BY <2>1, <4>1
      <4> QED BY <4>2, <4>3 DEF Rank, Mode, NULL, NONE, EX_WR
    <3>2. CASE j # Len(s.list) + 1
      <4>1. i \in 1 .. Len(s.list) /\ j \in 1 .. Len(s.list)
        BY <1>1, <2>4, <3>2
      <4>2. new[i] = s.list[i] /\ new[j] = s.list[j]
        BY <2>4, <4>1
      <4>3. Rank(s.granted[s.list[i]]) >= Rank(s.granted[s.list[j]])
        <5>1. i \in DOMAIN s.list /\ j \in DOMAIN s.list /\ i < j
          BY <1>1, <4>1
        <5> QED BY <1>1, <5>1 DEF SortedList
      <4> QED BY <4>2, <4>3
    <3> QED BY <3>1, <3>2
  <2> QED BY <2>5, <2>7, <2>8, <2>9 DEF t
<1> QED BY <1>2, <1>3

\* The messages to a client once its grant is sent.
GrantSent(s, r) == Append(s.toClient[r.client], Grant(r.mode))

LEMMA ServedFacts ==
    ASSUME NEW s, ServerInv(s), s.reqs # <<>>, ~SawIncompat(s, Head(s.reqs)),
           NEW r, r = Head(s.reqs), NEW t, t = Served(s)
    PROVE  /\ t \in SrvType
           /\ t.reqs = Tail(s.reqs) /\ t.lists = s.lists /\ t.aborted = s.aborted
           /\ t.revoked = s.revoked
           /\ t.granted[r.client] = r.mode
           /\ s.granted[r.client] # r.mode => t.toClient[r.client] = GrantSent(s, r)
           /\ \A d \in Client : d # r.client =>
                t.granted[d] = s.granted[d] /\ t.toClient[d] = s.toClient[d]
           /\ IsInjective(t.list)
           /\ r.client \in Range(t.list) /\ Range(s.list) \subseteq Range(t.list)
           /\ SortedList(t.list, t.granted)
           /\ OneWriter(t.granted)
<1> DEFINE c == r.client
           g == GetClient(s, c)
           granted == [s.granted EXCEPT ![c] = r.mode]
           u == SendGrant(g, r)
<1>1. /\ s \in SrvType /\ s.reqs \in Seq(RLockRequest) /\ s.granted \in [Client -> Mode]
      /\ s.toClient \in [Client -> Seq(ToClientMsg)] /\ r \in RLockRequest
      /\ c \in Client /\ r.mode \in Mode /\ r.mode >= SH_RD /\ OneWriter(s.granted)
  <2>1. r = s.reqs[1] /\ 1 \in DOMAIN s.reqs
    BY DEF ServerInv, SrvType
  <2>2. s \in SrvType /\ OneWriter(s.granted) /\ \A i \in DOMAIN s.reqs : s.reqs[i].mode >= SH_RD
    BY DEF ServerInv
  <2>3. s.reqs \in Seq(RLockRequest) /\ s.granted \in [Client -> Mode]
        /\ s.toClient \in [Client -> Seq(ToClientMsg)]
    BY <2>2 DEF SrvType
  <2>4. r \in RLockRequest /\ r.mode >= SH_RD
    BY <2>1, <2>2, <2>3
  <2> QED BY <2>2, <2>3, <2>4 DEF RLockRequest
<1>2. /\ g \in SrvType
      /\ g.granted = s.granted /\ g.revoked = s.revoked /\ g.toClient = s.toClient
      /\ g.reqs = s.reqs /\ g.lists = s.lists /\ g.aborted = s.aborted
      /\ IsInjective(g.list)
      /\ c \in Range(g.list) /\ Range(s.list) \subseteq Range(g.list)
      /\ SortedList(g.list, s.granted)
  BY <1>1, GetClientFacts
<1>3. t = [u EXCEPT !.reqs = Tail(@)]
  BY DEF Served
<1>4. Tail(s.reqs) \in Seq(RLockRequest)
  BY <1>1
<1>5. ASSUME u \in SrvType, u.reqs = s.reqs
      PROVE  /\ t \in SrvType /\ t.reqs = Tail(s.reqs) /\ t.lists = u.lists /\ t.list = u.list
             /\ t.aborted = u.aborted /\ t.revoked = u.revoked /\ t.granted = u.granted
             /\ t.toClient = u.toClient
  <2>1. t = [u EXCEPT !.reqs = Tail(s.reqs)]
    BY <1>3, <1>5
  <2> HIDE DEF u
  <2> QED BY <1>4, <1>5, <2>1 DEF SrvType
<1>6. \A d \in Client : d # c => Compatible(s.granted[d], r.mode)
  BY <1>1, NoConflictLeft
<1>7. granted \in [Client -> Mode] /\ OneWriter(granted)
  BY <1>1, <1>6 DEF OneWriter, Compatible, NONE, EX_WR, SH_RD, Mode, NULL
<1>8. CASE s.granted[c] = r.mode
  <2>1. u = g
    BY <1>2, <1>8 DEF SendGrant
  <2>2. granted = s.granted
    BY <1>1, <1>8
  <2> HIDE DEF g, u, granted
  <2>3. /\ t \in SrvType /\ t.reqs = Tail(s.reqs) /\ t.lists = g.lists /\ t.list = g.list
        /\ t.aborted = g.aborted /\ t.revoked = g.revoked /\ t.granted = g.granted
        /\ t.toClient = g.toClient
    BY <1>2, <1>5, <2>1
  <2> QED BY <1>1, <1>2, <1>7, <1>8, <2>2, <2>3
<1>9. CASE s.granted[c] # r.mode
  <2> DEFINE new == MaintainOrder(g.list, granted, c)
             toClient == [s.toClient EXCEPT ![c] = Append(@, Grant(r.mode))]
  <2>1. u = [g EXCEPT !.granted = granted, !.toClient = toClient, !.list = new]
    BY <1>2, <1>9 DEF SendGrant, SrvType
  <2>2. g.list \in Seq(Client)
    BY <1>2 DEF SrvType
  <2>3. \A i \in 1 .. Len(g.list) : g.list[i] \in Client
    BY <2>2
  <2>4. \A i, j \in DOMAIN g.list : i < j /\ g.list[i] # c /\ g.list[j] # c
          => Rank(granted[g.list[i]]) >= Rank(granted[g.list[j]])
    <3> HIDE DEF g
    <3> QED BY <1>1, <1>2, <2>2, <2>3 DEF SortedList
  <2>5. /\ new \in Seq(Client) /\ IsInjective(new) /\ Range(new) = Range(g.list)
        /\ SortedList(new, granted)
    <3> HIDE DEF g, granted
    <3> QED BY <1>2, <1>7, <2>2, <2>4, MaintainOrderFacts
  <2>6. toClient \in [Client -> Seq(ToClientMsg)]
    <3>1. Grant(r.mode) \in ToClientMsg
      BY <1>1 DEF Grant, ToClientMsg
    <3> QED BY <1>1, <3>1
  <2> HIDE DEF g, u, granted, new, toClient
  <2>7. /\ t \in SrvType /\ t.reqs = Tail(s.reqs) /\ t.lists = g.lists /\ t.list = new
        /\ t.aborted = g.aborted /\ t.revoked = g.revoked /\ t.granted = granted
        /\ t.toClient = toClient
    <3>1. /\ u \in SrvType /\ u.lists = g.lists /\ u.list = new /\ u.reqs = g.reqs
          /\ u.aborted = g.aborted /\ u.revoked = g.revoked /\ u.granted = granted
          /\ u.toClient = toClient
      BY <1>2, <1>7, <2>1, <2>5, <2>6 DEF SrvType
    <3> QED BY <1>2, <1>5, <3>1
  <2>8. /\ granted[c] = r.mode /\ toClient[c] = GrantSent(s, r)
        /\ \A d \in Client : d # c => granted[d] = s.granted[d] /\ toClient[d] = s.toClient[d]
    BY <1>1 DEF granted, toClient, GrantSent
  <2> QED BY <1>2, <1>7, <1>9, <2>5, <2>7, <2>8
<1> QED BY <1>8, <1>9

-----------------------------------------------------------------------------
(* process_requests on the server's own invariant.                         *)

LEMMA ProcessHeadServerInv ==
    ASSUME NEW s, ServerInv(s)
    PROVE  ServerInv(ProcessHead(s)) /\ ProcessHead(s).aborted = s.aborted
<1> DEFINE r == Head(s.reqs)
           t == ProcessHead(s)
<1>1. CASE s.reqs = <<>>
  BY <1>1 DEF ProcessHead, FreeHeadRequest
<1>2. CASE s.reqs # <<>> /\ SawIncompat(s, r)
  <2>1. t = SendRevokes(s, r) /\ s \in SrvType /\ r \in RLockRequest
    BY <1>2 DEF ProcessHead, FreeHeadRequest, ServerInv, SrvType
  <2> DEFINE u == SendRevokes(s, r)
  <2>2. /\ u \in SrvType /\ u.list = s.list /\ u.reqs = s.reqs
        /\ u.granted = s.granted /\ u.aborted = s.aborted
        /\ \A c \in Client : u.revoked[c] = MostCompatible(r.mode) \/ u.revoked[c] = s.revoked[c]
        /\ \A c \in Client : c \notin Revokees(s, r) => u.revoked[c] = s.revoked[c]
    BY <2>1, SendRevokesFacts
  <2>3. \A c \in Client \ Range(s.list) : c \notin Revokees(s, r)
    BY DEF Revokees, Range
  <2>4. MostCompatible(r.mode) < EX_WR
    BY DEF MostCompatible, EX_WR, NONE, SH_RD
  <2> HIDE DEF u, r
  <2>5. Absent(u)
    BY <2>2, <2>3 DEF Absent, ServerInv
  <2>6. \A c \in Client : u.revoked[c] < EX_WR
    BY <2>2, <2>4 DEF ServerInv
  <2>7. ServerInv(u)
    BY <2>2, <2>5, <2>6 DEF ServerInv
  <2> QED BY <2>1, <2>2, <2>7 DEF u
<1>3. CASE s.reqs # <<>> /\ ~SawIncompat(s, r)
  <2> DEFINE u == Served(s)
  <2>1. t = u
    BY <1>3 DEF ProcessHead, FreeHeadRequest, Served
  <2>2. /\ u \in SrvType
        /\ u.reqs = Tail(s.reqs) /\ u.aborted = s.aborted /\ u.revoked = s.revoked
        /\ \A d \in Client : d # r.client => u.granted[d] = s.granted[d]
        /\ IsInjective(u.list) /\ r.client \in Range(u.list) /\ Range(s.list) \subseteq Range(u.list)
        /\ SortedList(u.list, u.granted) /\ OneWriter(u.granted)
    <3>1. r = Head(s.reqs) /\ u = Served(s)
      OBVIOUS
    <3> HIDE DEF r, u
    <3> QED BY <1>3, <3>1, ServedFacts
  <2>3. s.reqs \in Seq(RLockRequest) /\ s.granted \in [Client -> Mode]
    BY DEF ServerInv, SrvType
  <2>4. \A i \in DOMAIN u.reqs : u.reqs[i].mode >= SH_RD
    <3>1. \A i \in 1 .. (Len(s.reqs) - 1) : Tail(s.reqs)[i] = s.reqs[i + 1] /\ i + 1 \in 1 .. Len(s.reqs)
      BY <2>3
    <3>2. \A i \in 1 .. Len(s.reqs) : s.reqs[i].mode >= SH_RD
      BY <2>3 DEF ServerInv
    <3> QED BY <1>3, <2>2, <2>3, <3>1, <3>2
  <2> HIDE DEF u, r
  <2>5. Absent(u)
    BY <2>2, <2>3 DEF Absent, ServerInv
  <2>6. ServerInv(u)
    BY <2>2, <2>4, <2>5 DEF ServerInv
  <2> QED BY <2>1, <2>2, <2>6
<1> QED BY <1>1, <1>2, <1>3

\* An iteration serves the head request or leaves it waiting.
LEMMA ProcessHeadProgress ==
    ASSUME NEW s, ServerInv(s), s.reqs # <<>>
    PROVE  Blocked(ProcessHead(s)) \/ ProcessHead(s).reqs = Tail(s.reqs)
<1>1. CASE SawIncompat(s, Head(s.reqs))
  BY <1>1, SendRevokesBlocks DEF ProcessHead, FreeHeadRequest
<1>2. CASE ~SawIncompat(s, Head(s.reqs))
  <2>1. ProcessHead(s) = Served(s)
    BY <1>2 DEF ProcessHead, FreeHeadRequest, Served
  <2> QED BY <1>2, <2>1, ServedFacts
<1> QED BY <1>1, <1>2

LEMMA ProcessHeadLists ==
    ASSUME NEW s, ServerInv(s), ListsUsed(s)
    PROVE  ListsUsed(ProcessHead(s))
<1> DEFINE r == Head(s.reqs)
<1>1. CASE s.reqs = <<>>
  BY <1>1 DEF ProcessHead, FreeHeadRequest
<1>2. CASE s.reqs # <<>> /\ SawIncompat(s, r)
  <2>1. ProcessHead(s) = SendRevokes(s, r) /\ s \in SrvType /\ r \in RLockRequest
    BY <1>2 DEF ProcessHead, FreeHeadRequest, ServerInv, SrvType
  <2> DEFINE u == SendRevokes(s, r)
  <2>2. u.lists = s.lists /\ u.list = s.list /\ u.reqs = s.reqs
    BY <2>1, SendRevokesFacts
  <2> QED BY <2>1, <2>2 DEF ListsUsed
<1>3. CASE s.reqs # <<>> /\ ~SawIncompat(s, r)
  <2> DEFINE t == Served(s)
  <2>1. ProcessHead(s) = t
    BY <1>3 DEF ProcessHead, FreeHeadRequest, Served
  <2>2. t.lists = s.lists /\ r.client \in Range(t.list)
    BY <1>3, ServedFacts
  <2> HIDE DEF t
  <2>3. t.list # <<>>
    BY <2>2 DEF Range
  <2> QED BY <1>3, <2>1, <2>2, <2>3 DEF ListsUsed
<1> QED BY <1>1, <1>2, <1>3

\* A blocked request stays blocked if process_requests looks at it again.
LEMMA BlockedStays ==
    ASSUME NEW s, ServerInv(s), Blocked(s)
    PROVE  Blocked(ProcessHead(s))
<1> DEFINE r == Head(s.reqs)
<1>1. s.reqs # <<>> /\ r \in RLockRequest
  BY DEF Blocked, ServerInv, SrvType
<1>2. PICK d \in Client \ {r.client} : ~Compatible(s.granted[d], r.mode)
  BY DEF Blocked
<1>3. SawIncompat(s, r)
  BY <1>1, <1>2, NoConflictLeft
<1> QED BY <1>1, <1>3, SendRevokesBlocks DEF ProcessHead, FreeHeadRequest

\* The loop of process_requests, iteration by iteration.
Iterates(s, f) ==
    /\ f = [n \in 0 .. Len(s.reqs) |-> f[n]]
    /\ f[0] = s
    /\ \A n \in 1 .. Len(s.reqs) : f[n] = ProcessHead(f[n - 1])

LEMMA ProcessRequestsIterates ==
    ASSUME NEW s, s.reqs \in Seq(RLockRequest)
    PROVE  \E f : Iterates(s, f) /\ ProcessRequests(s) = f[Len(s.reqs)]
<1> DEFINE N == Len(s.reqs)
           Step(g, n) == IF n = 0 THEN s ELSE CHOOSE t \in {ProcessHead(p) : p \in {g[n - 1]}} : TRUE
           Upto(k, g) == g = [n \in 0 .. k |-> Step(g, n)]
           Bad == {k \in Nat : ~ \E g : Upto(k, g)}
<1>1. Bad = {}
  <2> SUFFICES ASSUME Bad # {} PROVE FALSE
    OBVIOUS
  <2>1. PICK k \in Nat : k \in Bad /\ \A j \in 0 .. (k - 1) : \E g : Upto(j, g)
    <3> HIDE DEF Upto
    <3>1. Bad \subseteq Nat
      OBVIOUS
    <3>2. PICK k \in Bad : \A j \in Bad : k <= j
      <4> HIDE DEF Bad
      <4> QED BY <3>1, LeastNat
    <3>3. \A j \in 0 .. (k - 1) : j \notin Bad /\ j \in Nat
      BY <3>1, <3>2
    <3> QED BY <3>2, <3>3
  <2>2. CASE k = 0
    <3> DEFINE g == [n \in 0 .. 0 |-> s]
    <3>1. Upto(0, g)
      OBVIOUS
    <3> QED BY <2>1, <2>2, <3>1
  <2>3. CASE k # 0
    <3>1. k - 1 \in Nat /\ k - 1 \in 0 .. (k - 1)
      BY <2>3
    <3>2. PICK g : Upto(k - 1, g)
      <4> HIDE DEF Upto
      <4> QED BY <2>1, <3>1
    <3> DEFINE h == [n \in 0 .. k |-> IF n < k THEN g[n] ELSE Step(g, k)]
    <3>3. \A n \in 0 .. (k - 1) : g[n] = Step(g, n) /\ h[n] = g[n]
      <4>1. \A n \in 0 .. (k - 1) : g[n] = Step(g, n)
        <5> HIDE DEF Step
        <5> QED BY <3>2
      <4> HIDE DEF Step
      <4>2. \A n \in 0 .. (k - 1) : n \in 0 .. k /\ n < k
        BY <2>3
      <4> QED BY <4>1, <4>2
    <3>4. \A n \in 0 .. k : h[n] = Step(h, n)
      <4> SUFFICES ASSUME NEW n \in 0 .. k PROVE h[n] = Step(h, n)
        OBVIOUS
      <4>1. CASE n = 0
        <5>1. 0 \in 0 .. (k - 1) /\ Step(g, 0) = s /\ Step(h, 0) = s
          BY <2>3
        <5> HIDE DEF Step, h
        <5> QED BY <3>3, <4>1, <5>1
      <4>2. CASE n # 0
        <5>1. n - 1 \in 0 .. (k - 1) /\ h[n - 1] = g[n - 1]
          BY <2>1, <3>3, <4>2
        <5>2. Step(h, n) = Step(g, n)
          BY <4>2, <5>1
        <5>3. h[n] = Step(g, n)
          <6>1. CASE n < k
            <7>1. n \in 0 .. (k - 1)
              BY <6>1
            <7> HIDE DEF Step, h
            <7> QED BY <3>3, <7>1
          <6>2. CASE n = k
            BY <2>1, <6>2
          <6> QED BY <2>1, <6>1, <6>2
        <5> QED BY <5>2, <5>3
      <4> QED BY <4>1, <4>2
    <3>5. h = [n \in 0 .. k |-> h[n]]
      OBVIOUS
    <3>6. Upto(k, h)
      <4> HIDE DEF h, Step
      <4> QED BY <3>4, <3>5
    <3> QED BY <2>1, <3>6
  <2> QED BY <2>2, <2>3
<1> DEFINE after == CHOOSE g : Upto(N, g)
<1>2. N \in Nat
  OBVIOUS
<1>3. Upto(N, after)
  BY <1>1, <1>2
<1>4. ProcessRequests(s) = after[N]
  BY DEF ProcessRequests
<1> HIDE DEF after
<1>5. \A n \in 0 .. N : after[n] = Step(after, n)
  BY <1>3
<1>6. \A n \in 1 .. N : after[n] = ProcessHead(after[n - 1])
  BY <1>2, <1>5
<1>7. after[0] = s
  BY <1>2, <1>5
<1>8. after = [n \in 0 .. N |-> after[n]]
  BY <1>3
<1> QED BY <1>4, <1>6, <1>7, <1>8 DEF Iterates

Waits(s) == s.reqs = <<>> \/ Blocked(s)

\* The loop ends with no request left, or with a blocked one.
LEMMA ProcessRequestsServer ==
    ASSUME NEW s, ServerInv(s)
    PROVE  /\ ServerInv(ProcessRequests(s))
           /\ ProcessRequests(s).aborted = s.aborted
           /\ Waits(ProcessRequests(s))
           /\ ListsUsed(s) => ListsUsed(ProcessRequests(s))
<1> DEFINE N == Len(s.reqs)
<1>1. s.reqs \in Seq(RLockRequest) /\ N \in Nat
  BY DEF ServerInv, SrvType
<1>2. PICK f : Iterates(s, f) /\ ProcessRequests(s) = f[N]
  BY <1>1, ProcessRequestsIterates
<1>3. f[0] = s /\ \A n \in 1 .. N : f[n] = ProcessHead(f[n - 1])
  BY <1>2 DEF Iterates
<1> DEFINE P(n) == /\ ServerInv(f[n])
                   /\ f[n].aborted = s.aborted
                   /\ Blocked(f[n]) \/ Len(f[n].reqs) = N - n
                   /\ ListsUsed(s) => ListsUsed(f[n])
           Bad == {n \in 0 .. N : ~P(n)}
<1>4. P(0)
  BY <1>1, <1>3
<1>5. ASSUME NEW n \in 1 .. N, P(n - 1) PROVE P(n)
  <2> DEFINE u == f[n - 1]
  <2>1. f[n] = ProcessHead(u) /\ ServerInv(u)
    BY <1>3, <1>5
  <2>2. ServerInv(f[n]) /\ f[n].aborted = s.aborted
    BY <1>5, <2>1, ProcessHeadServerInv
  <2>3. ListsUsed(s) => ListsUsed(f[n])
    BY <1>5, <2>1, ProcessHeadLists
  <2>4. CASE Blocked(u)
    BY <2>1, <2>2, <2>3, <2>4, BlockedStays
  <2>5. CASE ~Blocked(u)
    <3>1. Len(u.reqs) = N - (n - 1) /\ u.reqs \in Seq(RLockRequest)
      BY <1>5, <2>1, <2>5 DEF ServerInv, SrvType
    <3> HIDE DEF u, N
    <3>2. u.reqs # <<>> /\ Len(Tail(u.reqs)) = N - n
      BY <1>1, <3>1
    <3>3. Blocked(f[n]) \/ f[n].reqs = Tail(u.reqs)
      BY <2>1, <3>2, ProcessHeadProgress
    <3> QED BY <2>2, <2>3, <3>2, <3>3
  <2> QED BY <2>4, <2>5
<1> HIDE DEF P
<1>6. Bad = {}
  <2> SUFFICES ASSUME Bad # {} PROVE FALSE
    OBVIOUS
  <2>1. Bad \subseteq Nat
    BY <1>1
  <2>2. PICK n \in Bad : \A j \in Bad : n <= j
    <3> HIDE DEF Bad
    <3> QED BY <2>1, LeastNat
  <2>3. n \in 1 .. N /\ ~P(n)
    BY <1>1, <1>4, <2>2
  <2>4. P(n - 1)
    BY <1>1, <2>2, <2>3
  <2> QED BY <1>5, <2>3, <2>4
<1>7. P(N)
  BY <1>1, <1>6
<1>8. Blocked(f[N]) \/ f[N].reqs = <<>>
  BY <1>1, <1>7 DEF P, ServerInv, SrvType
<1> QED BY <1>2, <1>7, <1>8 DEF P, Waits

-----------------------------------------------------------------------------
(* The handlers.                                                           *)

\* What a handler hands to try_free_or_process: only c may be out of order.
NearlySorted(s, c) ==
    /\ s \in SrvType
    /\ IsInjective(s.list)
    /\ Absent(s)
    /\ c \in Range(s.list)
    /\ \A i, j \in DOMAIN s.list : i < j /\ s.list[i] # c /\ s.list[j] # c
         => Rank(s.granted[s.list[i]]) >= Rank(s.granted[s.list[j]])
    /\ OneWriter(s.granted)
    /\ \A d \in Client : s.revoked[d] < EX_WR
    /\ \A i \in DOMAIN s.reqs : s.reqs[i].mode >= SH_RD

\* A freed client is off the list, and nothing else has changed.
LEMMA FreeClientFacts ==
    ASSUME NEW s, NEW c \in Client, NearlySorted(s, c)
    PROVE  LET t == FreeClient(s, c) IN
           /\ ServerInv(t)
           /\ t.reqs = s.reqs /\ t.lists = s.lists /\ t.aborted = s.aborted
           /\ t.toClient = s.toClient
           /\ t.granted[c] = NULL /\ t.revoked[c] = NULL
           /\ \A d \in Client : d # c =>
                t.granted[d] = s.granted[d] /\ t.revoked[d] = s.revoked[d]
<1> DEFINE k == Position(s.list, c)
           rest == RemoveAt(s.list, k)
           granted == [s.granted EXCEPT ![c] = NULL]
           revoked == [s.revoked EXCEPT ![c] = NULL]
           t == FreeClient(s, c)
<1>1. /\ s \in SrvType /\ s.list \in Seq(Client) /\ s.granted \in [Client -> Mode]
      /\ s.revoked \in [Client -> Mode] /\ IsInjective(s.list)
  BY DEF NearlySorted, SrvType
<1>2. k \in 1 .. Len(s.list) /\ s.list[k] = c
  BY <1>1, PositionFacts DEF NearlySorted
<1>3. /\ rest \in Seq(Client) /\ Len(rest) = Len(s.list) - 1
      /\ \A j \in 1 .. (Len(s.list) - 1) : rest[j] = IF j < k THEN s.list[j] ELSE s.list[j + 1]
  <2> HIDE DEF k
  <2> QED BY <1>1, <1>2, RemoveAtFacts
<1>4. granted \in [Client -> Mode] /\ revoked \in [Client -> Mode]
  BY <1>1 DEF Mode, NULL, EX_WR
<1>5. t = [s EXCEPT !.list = rest, !.granted = granted, !.revoked = revoked]
  BY DEF FreeClient
<1>6. /\ granted[c] = NULL /\ revoked[c] = NULL
      /\ \A d \in Client : d # c => granted[d] = s.granted[d] /\ revoked[d] = s.revoked[d]
  BY <1>1
<1> HIDE DEF k, rest, granted, revoked, t
<1>7. /\ t \in SrvType /\ t.list = rest /\ t.granted = granted /\ t.revoked = revoked
      /\ t.reqs = s.reqs /\ t.lists = s.lists /\ t.aborted = s.aborted
      /\ t.toClient = s.toClient
  BY <1>1, <1>3, <1>4, <1>5 DEF SrvType
<1>8. ASSUME NEW i \in 1 .. Len(rest), NEW j \in 1 .. Len(rest), i < j
      PROVE  /\ rest[i] # rest[j] /\ rest[i] # c /\ rest[j] # c
             /\ Rank(granted[rest[i]]) >= Rank(granted[rest[j]])
  <2> DEFINE fi == IF i < k THEN i ELSE i + 1
             fj == IF j < k THEN j ELSE j + 1
  <2>1. /\ fi \in 1 .. Len(s.list) /\ fj \in 1 .. Len(s.list) /\ fi < fj
        /\ fi # k /\ fj # k
    BY <1>2, <1>3, <1>8
  <2>2. rest[i] = s.list[fi] /\ rest[j] = s.list[fj]
    BY <1>3
  <2> HIDE DEF fi, fj
  <2>3. s.list[fi] # s.list[fj] /\ s.list[fi] # c /\ s.list[fj] # c
    BY <1>1, <1>2, <2>1 DEF IsInjective
  <2>4. s.list[fi] \in Client /\ s.list[fj] \in Client
    BY <1>1, <2>1
  <2>5. Rank(s.granted[s.list[fi]]) >= Rank(s.granted[s.list[fj]])
    BY <1>1, <2>1, <2>3 DEF NearlySorted
  <2> QED BY <1>6, <2>2, <2>3, <2>4, <2>5
<1>9. IsInjective(rest) /\ SortedList(rest, granted)
  <2>1. \A i, j \in 1 .. Len(rest) : i < j => rest[i] # rest[j]
    BY <1>8
  <2>2. IsInjective(rest)
    BY <1>3, <2>1 DEF IsInjective
  <2>3. SortedList(rest, granted)
    BY <1>3, <1>8 DEF SortedList
  <2> QED BY <2>2, <2>3
<1>10. Absent(t)
  <2> SUFFICES ASSUME NEW d \in Client \ Range(rest), d # c
               PROVE  granted[d] = NULL /\ revoked[d] = NULL
    BY <1>6, <1>7 DEF Absent
  <2>1. d \notin Range(s.list)
    <3> SUFFICES ASSUME NEW i \in 1 .. Len(s.list), s.list[i] = d PROVE FALSE
      BY <1>1 DEF Range
    <3>1. CASE i < k
      <4>1. i \in 1 .. Len(rest) /\ rest[i] = d
        BY <1>2, <1>3, <3>1
      <4> QED BY <1>3, <4>1 DEF Range
    <3>2. CASE i > k
      <4>1. i - 1 \in 1 .. Len(rest) /\ rest[i - 1] = d
        BY <1>2, <1>3, <3>2
      <4> QED BY <1>3, <4>1 DEF Range
    <3> QED BY <1>2, <3>1, <3>2
  <2> QED BY <1>6, <2>1 DEF NearlySorted, Absent
<1>11. OneWriter(granted)
  BY <1>6 DEF NearlySorted, OneWriter, NULL, EX_WR
<1>12. \A d \in Client : revoked[d] < EX_WR
  BY <1>6 DEF NearlySorted, NULL, EX_WR
<1>13. ServerInv(t)
  BY <1>7, <1>9, <1>10, <1>11, <1>12 DEF ServerInv, NearlySorted
<1> QED BY <1>6, <1>7, <1>13 DEF t

\* A client put back in order, when it is kept.
Reordered(s, c) == [s EXCEPT !.list = MaintainOrder(@, s.granted, c)]

LEMMA ReorderedFacts ==
    ASSUME NEW s, NEW c \in Client, NearlySorted(s, c)
    PROVE  LET t == Reordered(s, c) IN
           /\ ServerInv(t)
           /\ t.reqs = s.reqs /\ t.lists = s.lists /\ t.aborted = s.aborted
           /\ t.toClient = s.toClient /\ t.granted = s.granted /\ t.revoked = s.revoked
           /\ Range(t.list) = Range(s.list)
<1> DEFINE new == MaintainOrder(s.list, s.granted, c)
           t == Reordered(s, c)
<1>1. s \in SrvType /\ s.list \in Seq(Client) /\ s.granted \in [Client -> Mode]
  BY DEF NearlySorted, SrvType
<1>2. /\ new \in Seq(Client) /\ IsInjective(new) /\ Range(new) = Range(s.list)
      /\ SortedList(new, s.granted)
  BY <1>1, MaintainOrderFacts DEF NearlySorted
<1>3. t = [s EXCEPT !.list = new]
  BY DEF Reordered
<1> HIDE DEF new, t
<1>4. /\ t \in SrvType /\ t.list = new
      /\ t.reqs = s.reqs /\ t.lists = s.lists /\ t.aborted = s.aborted
      /\ t.toClient = s.toClient /\ t.granted = s.granted /\ t.revoked = s.revoked
  BY <1>1, <1>2, <1>3 DEF SrvType
<1>5. ServerInv(t)
  BY <1>2, <1>4 DEF ServerInv, NearlySorted, Absent
<1> QED BY <1>2, <1>4, <1>5 DEF t

\* What the theorems ask of the server after a handler.
AtRest(s) == ServerInv(s) /\ ListsUsed(s) /\ (~s.aborted => Waits(s))

LEMMA TryFreeServer ==
    ASSUME NEW s, NEW c \in Client, NearlySorted(s, c), s.lists
    PROVE  AtRest(TryFreeOrProcess(s, c)) /\ TryFreeOrProcess(s, c).aborted = s.aborted
<1> DEFINE f == FreeClient(s, c)
           t == TryFreeOrProcess(s, c)
<1>1. CASE s.granted[c] <= NONE /\ s.revoked[c] <= NONE
  <2>1. ServerInv(f) /\ f.reqs = s.reqs /\ f.lists = s.lists /\ f.aborted = s.aborted
    BY FreeClientFacts
  <2>2. t = IF f.list = <<>> /\ f.reqs = <<>> THEN [f EXCEPT !.lists = FALSE]
            ELSE ProcessRequests(f)
    BY <1>1 DEF TryFreeOrProcess, Unused, FreeLists
  <2> HIDE DEF f, t
  <2>3. CASE f.list = <<>> /\ f.reqs = <<>>
    <3>1. t = [f EXCEPT !.lists = FALSE]
      BY <2>2, <2>3
    <3>2. f \in SrvType
      BY <2>1 DEF ServerInv
    <3>3. t \in SrvType
      BY <3>1, <3>2 DEF SrvType
    <3>4. /\ t.list = f.list /\ t.reqs = f.reqs /\ t.granted = f.granted
          /\ t.revoked = f.revoked /\ t.aborted = f.aborted
      BY <3>1, <3>2 DEF SrvType
    <3>5. t.lists = FALSE
      BY <3>1, <3>2 DEF SrvType
    <3>6. ServerInv(t)
      BY <2>1, <3>3, <3>4 DEF ServerInv, Absent
    <3>7. ListsUsed(t)
      BY <2>3, <3>4, <3>5 DEF ListsUsed
    <3>8. Waits(t)
      BY <2>3, <3>4 DEF Waits
    <3> QED BY <2>1, <3>4, <3>6, <3>7, <3>8 DEF AtRest, t
  <2>4. CASE ~(f.list = <<>> /\ f.reqs = <<>>)
    <3>1. t = ProcessRequests(f)
      BY <2>2, <2>4
    <3>2. ListsUsed(f)
      BY <2>1, <2>4 DEF ListsUsed
    <3> QED BY <2>1, <3>1, <3>2, ProcessRequestsServer DEF AtRest, t
  <2> QED BY <2>3, <2>4
<1>2. CASE ~(s.granted[c] <= NONE /\ s.revoked[c] <= NONE)
  <2> DEFINE u == Reordered(s, c)
  <2>1. /\ ServerInv(u) /\ u.lists = s.lists /\ u.aborted = s.aborted
        /\ Range(u.list) = Range(s.list)
    BY ReorderedFacts
  <2>2. t = ProcessRequests(u)
    BY <1>2 DEF TryFreeOrProcess, Unused, FreeLists, Reordered
  <2> HIDE DEF u
  <2>3. u.list # <<>>
    BY <2>1 DEF NearlySorted, Range
  <2>4. ListsUsed(u)
    BY <2>1, <2>3 DEF ListsUsed
  <2> QED BY <2>1, <2>2, <2>4, ProcessRequestsServer DEF AtRest
<1> QED BY <1>1, <1>2

LEMMA AbortServer ==
    ASSUME NEW s, ServerInv(s), ListsUsed(s)
    PROVE  AtRest(Abort(s))
<1> DEFINE t == Abort(s)
<1>1. s \in SrvType
  BY DEF ServerInv
<1>2. t \in SrvType /\ t.aborted = TRUE
  BY <1>1 DEF SrvType, Abort
<1>3. /\ t.list = s.list /\ t.reqs = s.reqs /\ t.granted = s.granted
      /\ t.revoked = s.revoked /\ t.lists = s.lists
  BY <1>1 DEF SrvType, Abort
<1> HIDE DEF t
<1>4. AtRest(t)
  BY <1>2, <1>3 DEF ServerInv, Absent, ListsUsed, AtRest
<1> QED BY <1>4 DEF t

\* The request is queued before process_requests runs.
Queued(s, c, m) ==
    [s EXCEPT !.lists = TRUE, !.reqs = AppendRequest(@, [client |-> c, mode |-> m])]

LEMMA QueuedFacts ==
    ASSUME NEW s, ServerInv(s), NEW c \in Client, NEW m \in Mode, m >= SH_RD
    PROVE  LET t == Queued(s, c, m) IN
           /\ ServerInv(t) /\ ListsUsed(t)
           /\ t.reqs = Append(s.reqs, [client |-> c, mode |-> m])
           /\ t.list = s.list /\ t.granted = s.granted /\ t.revoked = s.revoked
           /\ t.toClient = s.toClient /\ t.aborted = s.aborted
<1> DEFINE t == Queued(s, c, m)
           r == [client |-> c, mode |-> m]
           reqs == Append(s.reqs, r)
<1>1. s \in SrvType /\ s.reqs \in Seq(RLockRequest) /\ r \in RLockRequest
  BY DEF ServerInv, SrvType, RLockRequest
<1>2. /\ reqs \in Seq(RLockRequest) /\ Len(reqs) = Len(s.reqs) + 1
      /\ reqs[Len(s.reqs) + 1] = r
      /\ \A i \in 1 .. Len(s.reqs) : reqs[i] = s.reqs[i]
  BY <1>1
<1>3. t = [s EXCEPT !.lists = TRUE, !.reqs = reqs]
  BY DEF Queued, AppendRequest
<1>4. \A i \in 1 .. Len(reqs) : reqs[i].mode >= SH_RD
  <2>1. \A i \in 1 .. Len(s.reqs) : s.reqs[i].mode >= SH_RD
    BY <1>1 DEF ServerInv
  <2>2. r.mode >= SH_RD
    OBVIOUS
  <2> HIDE DEF reqs, r
  <2> QED BY <1>1, <1>2, <2>1, <2>2
<1> HIDE DEF t, r, reqs
<1>5. t \in SrvType /\ t.lists = TRUE
  BY <1>1, <1>2, <1>3 DEF SrvType
<1>6. /\ t.reqs = reqs /\ t.list = s.list /\ t.granted = s.granted /\ t.revoked = s.revoked
      /\ t.toClient = s.toClient /\ t.aborted = s.aborted
  BY <1>1, <1>2, <1>3 DEF SrvType
<1>7. ServerInv(t)
  BY <1>2, <1>4, <1>5, <1>6 DEF ServerInv, Absent
<1>8. ListsUsed(t)
  BY <1>1, <1>2, <1>5, <1>6 DEF ListsUsed
<1> QED BY <1>6, <1>7, <1>8 DEF t, reqs, r

LEMMA HandleRequestServer ==
    ASSUME NEW s, ServerInv(s), ListsUsed(s), NEW c \in Client, NEW m \in Mode
    PROVE  AtRest(HandleRequest(s, c, m))
<1>1. CASE m < SH_RD
  BY <1>1, AbortServer DEF HandleRequest, GetLists
<1>2. CASE ~(m < SH_RD)
  <2>1. HandleRequest(s, c, m) = ProcessRequests(Queued(s, c, m))
    BY <1>2 DEF HandleRequest, GetLists, Queued
  <2>2. m >= SH_RD
    BY <1>2 DEF Mode, NULL, SH_RD, EX_WR
  <2>3. ServerInv(Queued(s, c, m)) /\ ListsUsed(Queued(s, c, m))
    BY <2>2, QueuedFacts
  <2> QED BY <2>1, <2>3, ProcessRequestsServer DEF AtRest
<1> QED BY <1>1, <1>2

\* A confirm or a release puts new modes into the client_rlock.
SetModes(s, c, g, v) == [s EXCEPT !.granted[c] = g, !.revoked[c] = v]

LEMMA SetModesFacts ==
    ASSUME NEW s, ServerInv(s), NEW c \in Range(s.list), NEW g \in Mode, g < EX_WR,
           NEW v \in Mode, v < EX_WR
    PROVE  LET t == SetModes(s, c, g, v) IN
           /\ NearlySorted(t, c)
           /\ t.list = s.list /\ t.reqs = s.reqs /\ t.lists = s.lists
           /\ t.toClient = s.toClient /\ t.aborted = s.aborted
           /\ t.granted[c] = g /\ t.revoked[c] = v
           /\ \A d \in Client : d # c =>
                t.granted[d] = s.granted[d] /\ t.revoked[d] = s.revoked[d]
<1> DEFINE granted == [s.granted EXCEPT ![c] = g]
           revoked == [s.revoked EXCEPT ![c] = v]
           t == SetModes(s, c, g, v)
<1>1. /\ s \in SrvType /\ s.list \in Seq(Client) /\ s.granted \in [Client -> Mode]
      /\ s.revoked \in [Client -> Mode] /\ c \in Client
  BY DEF ServerInv, SrvType, Range
<1>2. granted \in [Client -> Mode] /\ revoked \in [Client -> Mode]
  BY <1>1
<1>3. /\ granted[c] = g /\ revoked[c] = v
      /\ \A d \in Client : d # c => granted[d] = s.granted[d] /\ revoked[d] = s.revoked[d]
  BY <1>1
<1>4. t = [s EXCEPT !.granted = granted, !.revoked = revoked]
  BY DEF SetModes
<1> HIDE DEF granted, revoked, t
<1>5. /\ t \in SrvType /\ t.list = s.list /\ t.reqs = s.reqs /\ t.lists = s.lists
      /\ t.toClient = s.toClient /\ t.aborted = s.aborted
      /\ t.granted = granted /\ t.revoked = revoked
  BY <1>1, <1>2, <1>4 DEF SrvType
<1>6. Absent(t)
  BY <1>3, <1>5 DEF ServerInv, Absent
<1>7. \A i, j \in DOMAIN t.list : i < j /\ t.list[i] # c /\ t.list[j] # c
        => Rank(t.granted[t.list[i]]) >= Rank(t.granted[t.list[j]])
  <2>1. \A i \in 1 .. Len(s.list) : s.list[i] \in Client
    BY <1>1
  <2> QED BY <1>1, <1>3, <1>5, <2>1 DEF ServerInv, SortedList
<1>8. OneWriter(t.granted)
  BY <1>1, <1>3, <1>5 DEF ServerInv, OneWriter, EX_WR
<1>9. \A d \in Client : t.revoked[d] < EX_WR
  BY <1>3, <1>5 DEF ServerInv
<1>10. NearlySorted(t, c)
  BY <1>5, <1>6, <1>7, <1>8, <1>9 DEF ServerInv, NearlySorted
<1> QED BY <1>3, <1>5, <1>10 DEF t

LEMMA HandleConfirmServer ==
    ASSUME NEW s, ServerInv(s), ListsUsed(s), NEW c \in Client, NEW m \in Mode
    PROVE  AtRest(HandleConfirm(s, c, m))
<1> DEFINE Refused == m >= EX_WR \/ c \notin Range(s.list) \/ ~s.lists \/ m > s.revoked[c]
<1>1. CASE Refused
  BY <1>1, AbortServer DEF HandleConfirm
<1>2. CASE ~Refused
  <2> DEFINE t == SetModes(s, c, s.revoked[c], NULL)
  <2>1. HandleConfirm(s, c, m) = TryFreeOrProcess(t, c)
    BY <1>2 DEF HandleConfirm, SetModes
  <2>2. s.revoked[c] \in Mode /\ s.revoked[c] < EX_WR /\ NULL \in Mode /\ NULL < EX_WR
    BY DEF ServerInv, SrvType, Mode, NULL, EX_WR
  <2>3. NearlySorted(t, c) /\ t.lists
    BY <1>2, <2>2, SetModesFacts
  <2> HIDE DEF t
  <2> QED BY <2>1, <2>3, TryFreeServer
<1> QED BY <1>1, <1>2

LEMMA HandleReleaseServer ==
    ASSUME NEW s, ServerInv(s), ListsUsed(s), NEW c \in Client, NEW m \in Mode
    PROVE  AtRest(HandleRelease(s, c, m))
<1> DEFINE Refused == m >= EX_WR \/ c \notin Range(s.list) \/ ~s.lists \/ m >= s.granted[c]
<1>1. CASE Refused
  BY <1>1, AbortServer DEF HandleRelease
<1>2. CASE ~Refused
  <2> DEFINE t == SetModes(s, c, m, s.revoked[c])
             u == [s EXCEPT !.granted[c] = m]
  <2>1. HandleRelease(s, c, m) = TryFreeOrProcess(u, c)
    BY <1>2 DEF HandleRelease
  <2>2. s \in SrvType /\ s.revoked \in [Client -> Mode]
    BY DEF ServerInv, SrvType
  <2>3. t = u
    <3>1. [s.revoked EXCEPT ![c] = s.revoked[c]] = s.revoked
      BY <2>2
    <3> DEFINE granted == [s.granted EXCEPT ![c] = m]
    <3>2. t = [s EXCEPT !.granted = granted, !.revoked = s.revoked]
      BY <3>1 DEF SetModes
    <3>3. u = [s EXCEPT !.granted = granted]
      OBVIOUS
    <3> HIDE DEF granted, t, u
    <3> QED BY <2>2, <3>2, <3>3 DEF SrvType
  <2>4. s.revoked[c] \in Mode /\ s.revoked[c] < EX_WR /\ m < EX_WR
    BY <1>2, <2>2 DEF ServerInv, Mode, NULL, EX_WR
  <2>5. NearlySorted(t, c) /\ t.lists
    BY <1>2, <2>4, SetModesFacts
  <2> HIDE DEF t, u
  <2>6. AtRest(TryFreeOrProcess(t, c))
    BY <2>5, TryFreeServer
  <2> QED BY <2>1, <2>3, <2>6
<1> QED BY <1>1, <1>2

-----------------------------------------------------------------------------
(* The theorems that hold whatever modes clients request and release.      *)

LEMMA WaitsForConfirmIsWaits == WaitsForConfirm <=> (~srv.aborted => Waits(srv))
BY DEF WaitsForConfirm, Waits, Blocked

LEMMA SrvInvInit == Init => SrvInv
<1> SUFFICES ASSUME Init PROVE SrvInv
  OBVIOUS
<1>1. /\ srv \in SrvType /\ srv.list = <<>> /\ srv.reqs = <<>> /\ srv.lists = FALSE
      /\ srv.granted = [c \in Client |-> NULL] /\ srv.revoked = [c \in Client |-> NULL]
  BY DEF Init, SrvInit, SrvType, Mode, NULL, EX_WR
<1>2. TypeOK
  BY <1>1 DEF Init, TypeOK, Mode, NULL, EX_WR
<1>3. ServerInv(srv)
  BY <1>1 DEF ServerInv, IsInjective, Absent, SortedList, OneWriter, NULL, EX_WR
<1>4. ListsUsed(srv)
  BY <1>1 DEF ListsUsed
<1>5. WaitsForConfirm
  BY <1>1 DEF WaitsForConfirm
<1> QED BY <1>2, <1>3, <1>4, <1>5 DEF SrvInv

LEMMA PopFacts ==
    ASSUME NEW s \in SrvType, NEW c \in Client, s.toClient[c] # <<>>
    PROVE  LET t == [s EXCEPT !.toClient[c] = Tail(@)] IN
           /\ t \in SrvType
           /\ t.list = s.list /\ t.reqs = s.reqs /\ t.lists = s.lists
           /\ t.granted = s.granted /\ t.revoked = s.revoked /\ t.aborted = s.aborted
           /\ t.toClient[c] = Tail(s.toClient[c])
           /\ \A d \in Client : d # c => t.toClient[d] = s.toClient[d]
           /\ Head(s.toClient[c]) \in ToClientMsg
<1> DEFINE t == [s EXCEPT !.toClient[c] = Tail(@)]
           toClient == [s.toClient EXCEPT ![c] = Tail(@)]
<1>1. s.toClient \in [Client -> Seq(ToClientMsg)]
  BY DEF SrvType
<1>2. Tail(s.toClient[c]) \in Seq(ToClientMsg) /\ Head(s.toClient[c]) \in ToClientMsg
  BY <1>1
<1>3. toClient \in [Client -> Seq(ToClientMsg)]
  BY <1>1, <1>2
<1>4. /\ toClient[c] = Tail(s.toClient[c])
      /\ \A d \in Client : d # c => toClient[d] = s.toClient[d]
  BY <1>1
<1>5. t = [s EXCEPT !.toClient = toClient]
  OBVIOUS
<1> HIDE DEF t, toClient
<1>6. /\ t \in SrvType /\ t.toClient = toClient
      /\ t.list = s.list /\ t.reqs = s.reqs /\ t.lists = s.lists
      /\ t.granted = s.granted /\ t.revoked = s.revoked /\ t.aborted = s.aborted
  BY <1>3, <1>5 DEF SrvType
<1> QED BY <1>2, <1>4, <1>6 DEF t

\* Receiving a message leaves the rest of the connection as it was.
LEMMA ReceiveFacts ==
    ASSUME TypeOK, NEW c \in Client, NEW type, NEW s, Receive(c, type, s)
    PROVE  /\ Head(toServer[c]) \in ToServerMsg /\ Head(toServer[c]).mode \in Mode
           /\ toServer[c] # <<>> /\ Head(toServer[c]).type = type
           /\ toServer' \in [Client -> Seq(ToServerMsg)]
           /\ toServer'[c] = Tail(toServer[c])
           /\ \A d \in Client : d # c => toServer'[d] = toServer[d]
           /\ srv' = s /\ held' = held /\ pend' = pend /\ ~srv.aborted
<1>1. toServer[c] \in Seq(ToServerMsg) /\ toServer \in [Client -> Seq(ToServerMsg)]
  BY DEF TypeOK
<1>2. toServer[c] # <<>> /\ toServer' = [toServer EXCEPT ![c] = Tail(@)]
  BY DEF Receive
<1>3. Head(toServer[c]) \in ToServerMsg /\ Tail(toServer[c]) \in Seq(ToServerMsg)
  BY <1>1, <1>2
<1> QED BY <1>1, <1>2, <1>3 DEF Receive, ToServerMsg

LEMMA SrvInvNext == SrvInv /\ [Next]_vars => SrvInv'
<1> SUFFICES ASSUME SrvInv, [Next]_vars PROVE SrvInv'
  OBVIOUS
<1>1. TypeOK /\ ServerInv(srv) /\ ListsUsed(srv) /\ (~srv.aborted => Waits(srv))
  BY WaitsForConfirmIsWaits DEF SrvInv
<1>2. ASSUME srv' \in SrvType, AtRest(srv'), toServer' \in [Client -> Seq(ToServerMsg)],
             held' \in [Client -> Mode], pend' \in [Client -> SUBSET Mode]
      PROVE  SrvInv'
  <2>1. TypeOK'
    BY <1>2 DEF TypeOK
  <2>2. WaitsForConfirm'
    BY <1>2 DEF AtRest, WaitsForConfirm, Waits, Blocked
  <2> QED BY <1>2, <2>1, <2>2 DEF SrvInv, AtRest
<1>3. ASSUME NEW c \in Client, NEW type, NEW s, Receive(c, type, s), AtRest(s) PROVE SrvInv'
  <2>1. srv' = s /\ held' = held /\ pend' = pend /\ toServer' \in [Client -> Seq(ToServerMsg)]
    BY <1>1, <1>3, ReceiveFacts
  <2> QED BY <1>1, <1>2, <1>3, <2>1 DEF TypeOK, AtRest, ServerInv
<1>4. ASSUME NEW c \in Client, srv.toClient[c] # <<>>, PopToClient(c),
             toServer' \in [Client -> Seq(ToServerMsg)],
             held' \in [Client -> Mode], pend' \in [Client -> SUBSET Mode]
      PROVE  SrvInv'
  <2>1. srv \in SrvType
    BY <1>1 DEF TypeOK
  <2>2. /\ srv' \in SrvType
        /\ srv'.list = srv.list /\ srv'.reqs = srv.reqs /\ srv'.lists = srv.lists
        /\ srv'.granted = srv.granted /\ srv'.revoked = srv.revoked /\ srv'.aborted = srv.aborted
    BY <1>4, <2>1, PopFacts DEF PopToClient
  <2>3. AtRest(srv')
    BY <1>1, <2>2 DEF AtRest, ServerInv, Absent, ListsUsed, Waits, Blocked
  <2> QED BY <1>2, <1>4, <2>2, <2>3
<1>5. ASSUME NEW c \in Client, RecvRequest(c) PROVE SrvInv'
  <2> DEFINE s == HandleRequest(srv, c, Head(toServer[c]).mode)
  <2>1. Receive(c, "REQUEST", s)
    BY <1>5 DEF RecvRequest
  <2>2. Head(toServer[c]).mode \in Mode
    BY <1>1, <2>1, ReceiveFacts
  <2>3. AtRest(s)
    BY <1>1, <2>2, HandleRequestServer
  <2> HIDE DEF s
  <2> QED BY <1>3, <2>1, <2>3
<1>6. ASSUME NEW c \in Client, RecvConfirm(c) PROVE SrvInv'
  <2> DEFINE s == HandleConfirm(srv, c, Head(toServer[c]).mode)
  <2>1. Receive(c, "CONFIRM", s)
    BY <1>6 DEF RecvConfirm
  <2>2. Head(toServer[c]).mode \in Mode
    BY <1>1, <2>1, ReceiveFacts
  <2>3. AtRest(s)
    BY <1>1, <2>2, HandleConfirmServer
  <2> HIDE DEF s
  <2> QED BY <1>3, <2>1, <2>3
<1>7. ASSUME NEW c \in Client, RecvRelease(c) PROVE SrvInv'
  <2> DEFINE s == HandleRelease(srv, c, Head(toServer[c]).mode)
  <2>1. Receive(c, "RELEASE", s)
    BY <1>7 DEF RecvRelease
  <2>2. Head(toServer[c]).mode \in Mode
    BY <1>1, <2>1, ReceiveFacts
  <2>3. AtRest(s)
    BY <1>1, <2>2, HandleReleaseServer
  <2> HIDE DEF s
  <2> QED BY <1>3, <2>1, <2>3
<1>8. ASSUME NEW c \in Client, RecvGrant(c) PROVE SrvInv'
  <2> DEFINE m == Head(srv.toClient[c]).mode
  <2>1. m \in Mode
    BY <1>1, <1>8, PopFacts DEF RecvGrant, NextMessage, TypeOK, ToClientMsg
  <2>2. held' \in [Client -> Mode] /\ pend' \in [Client -> SUBSET Mode]
    BY <1>1, <1>8, <2>1 DEF RecvGrant, TypeOK
  <2> QED BY <1>1, <1>4, <1>8, <2>2 DEF RecvGrant, NextMessage, TypeOK
<1>9. ASSUME NEW c \in Client, RecvRevoke(c) PROVE SrvInv'
  <2> DEFINE m == Head(srv.toClient[c]).mode
             left == IF held[c] < m THEN held[c] ELSE m
  <2>1. m \in Mode
    BY <1>1, <1>9, PopFacts DEF RecvRevoke, NextMessage, TypeOK, ToClientMsg
  <2>2. left \in Mode /\ Confirm(left) \in ToServerMsg
    BY <1>1, <2>1 DEF TypeOK, Confirm, ToServerMsg
  <2>3. held' = [held EXCEPT ![c] = left]
        /\ toServer' = [toServer EXCEPT ![c] = Append(@, Confirm(left))] /\ pend' = pend
    BY <1>9 DEF RecvRevoke
  <2> HIDE DEF left
  <2>4. held' \in [Client -> Mode] /\ toServer' \in [Client -> Seq(ToServerMsg)]
    BY <1>1, <2>2, <2>3 DEF TypeOK
  <2> QED BY <1>1, <1>4, <1>9, <2>3, <2>4 DEF RecvRevoke, NextMessage, TypeOK
<1>10. ASSUME NEW c \in Client, SendRequest(c) PROVE SrvInv'
  <2>1. PICK m \in RequestModes :
          /\ toServer' = [toServer EXCEPT ![c] = Append(@, Request(m))]
          /\ pend' = [pend EXCEPT ![c] = @ \union {m}]
          /\ srv' = srv /\ held' = held
    BY <1>10 DEF SendRequest
  <2>2. m \in Mode /\ Request(m) \in ToServerMsg
    BY ModesAssumption DEF Mode, NULL, NONE, SH_RD, EX_WR, Request, ToServerMsg
  <2>3. toServer' \in [Client -> Seq(ToServerMsg)] /\ pend' \in [Client -> SUBSET Mode]
    BY <1>1, <2>1, <2>2 DEF TypeOK
  <2> QED BY <1>1, <1>2, <2>1, <2>3 DEF AtRest, TypeOK
<1>11. ASSUME NEW c \in Client, SendRelease(c) PROVE SrvInv'
  <2>1. PICK m \in ReleaseModes :
          /\ toServer' = [toServer EXCEPT ![c] = Append(@, Release(m))]
          /\ held' = [held EXCEPT ![c] = m]
          /\ srv' = srv /\ pend' = pend
    BY <1>11 DEF SendRelease
  <2>2. m \in Mode /\ Release(m) \in ToServerMsg
    BY ModesAssumption DEF Mode, NULL, NONE, SH_RD, EX_WR, Release, ToServerMsg
  <2>3. toServer' \in [Client -> Seq(ToServerMsg)] /\ held' \in [Client -> Mode]
    BY <1>1, <2>1, <2>2 DEF TypeOK
  <2> QED BY <1>1, <1>2, <2>1, <2>3 DEF AtRest, TypeOK
<1>12. CASE UNCHANGED vars
  BY <1>1, <1>2, <1>12 DEF vars, AtRest, TypeOK
<1> QED
  BY <1>5, <1>6, <1>7, <1>8, <1>9, <1>10, <1>11, <1>12 DEF Next, ServerStep, ClientRecv

LEMMA SrvInvariant == Spec => []SrvInv
BY SrvInvInit, SrvInvNext, PTL DEF Spec

\* Every variable stays in its domain.
THEOREM TypeCorrect == Spec => []TypeOK
<1>1. SrvInv => TypeOK
  BY DEF SrvInv
<1> QED BY <1>1, SrvInvariant, PTL

\* The granted list stays sorted, with at most one writer, through every
\* sequence of grants, confirms and releases, stale confirms included: the
\* walk of process_requests may stop at the first compatible client.
THEOREM GrantedStaysSorted == Spec => []GrantedSorted
<1>1. SrvInv => GrantedSorted
  BY DEF SrvInv, ServerInv, SortedList, OneWriter, GrantedSorted
<1> QED BY <1>1, SrvInvariant, PTL

\* lists exist exactly while a client or a request is on them.
THEOREM ListsExistWithClients == Spec => []ListsMatchClients
<1>1. SrvInv => ListsMatchClients
  BY DEF SrvInv, ServerInv, ListsUsed, Absent, ListsMatchClients
<1> QED BY <1>1, SrvInvariant, PTL

\* A request only ever waits for a confirm the server has asked for.
THEOREM RequestsWaitForConfirms == Spec => []WaitsForConfirm
<1>1. SrvInv => WaitsForConfirm
  BY DEF SrvInv
<1> QED BY <1>1, SrvInvariant, PTL
=============================================================================
