----------------------------- MODULE RLockSafety -----------------------------
(***************************************************************************)
(* Safety of the whole protocol, for every set of clients, when no client  *)
(* gives up a mode on its own: the messages under way, the server's lists  *)
(* and what the clients use agree (ProtocolInv).                           *)
(***************************************************************************)
EXTENDS RLockProofs

\* The types of what is not the server's.
ClientTypes(ts, h, p) ==
    /\ ts \in [Client -> Seq(ToServerMsg)]
    /\ h \in [Client -> Mode]
    /\ p \in [Client -> SUBSET Mode]

-----------------------------------------------------------------------------
(* Modes.                                                                  *)

\* A lower mode conflicts with no more than a higher one.
LEMMA CompatibleMonotone ==
    ASSUME NEW a \in Mode, NEW b \in Mode, NEW m \in Mode, Compatible(a, m),
           b <= a \/ b <= NONE
    PROVE  Compatible(b, m) /\ Compatible(m, b)
BY DEF Mode, Compatible, NULL, NONE, EX_WR

\* most_compatible is the greatest mode the request tolerates.
LEMMA MostCompatibleFacts ==
    ASSUME NEW m \in Mode, m >= SH_RD
    PROVE  /\ MostCompatible(m) \in Mode /\ MostCompatible(m) # NULL
           /\ \A k \in Mode : Compatible(k, m) <=> k <= MostCompatible(m)
BY DEF Mode, MostCompatible, Compatible, NULL, NONE, SH_RD, EX_WR

\* What is in a queue of messages or requests has a mode.
LEMMA QueuedModes ==
    /\ \A q \in Seq(ToClientMsg) : \A i \in DOMAIN q : q[i] \in ToClientMsg /\ q[i].mode \in Mode
    /\ \A q \in Seq(ToServerMsg) : \A i \in DOMAIN q : q[i] \in ToServerMsg /\ q[i].mode \in Mode
    /\ \A q \in Seq(RLockRequest) : \A i \in DOMAIN q :
         q[i] \in RLockRequest /\ q[i].client \in Client /\ q[i].mode \in Mode
<1>1. ASSUME NEW S, NEW q \in Seq(S), NEW i \in DOMAIN q PROVE q[i] \in S
  OBVIOUS
<1>2. \A m \in ToClientMsg : m.mode \in Mode
  BY DEF ToClientMsg
<1>3. \A m \in ToServerMsg : m.mode \in Mode
  BY DEF ToServerMsg
<1>4. \A m \in RLockRequest : m.client \in Client /\ m.mode \in Mode
  BY DEF RLockRequest
<1> QED BY <1>1, <1>2, <1>3, <1>4

-----------------------------------------------------------------------------
(* An iteration of process_requests.                                       *)

\* A step that changes nothing of client c's keeps its part of the invariant.
LEMMA SameClient ==
    ASSUME NEW s, NEW t, NEW ts, NEW us, NEW h, NEW g, NEW p, NEW q, NEW c,
           ClientInv(s, ts, h, p, c),
           t.granted[c] = s.granted[c], t.revoked[c] = s.revoked[c],
           t.toClient[c] = s.toClient[c], t.reqs = s.reqs,
           us[c] = ts[c], g[c] = h[c], q[c] = p[c]
    PROVE  ClientInv(t, us, g, q, c)
<1>1. RevokeInv(s, ts, c) => RevokeInv(t, us, c)
  BY DEF RevokeInv, ConfirmSent, IsConfirm
<1>2. ConfirmInv(s, ts, h, c) => ConfirmInv(t, us, g, c)
  BY DEF ConfirmInv, IsConfirm
<1>3. GrantInv(s, h, p, c) => GrantInv(t, g, q, c)
  BY DEF GrantInv
<1>4. HeldInv(s, ts, h, c) => HeldInv(t, us, g, c)
  <2>1. ConfirmSent(us, c) = ConfirmSent(ts, c)
    BY DEF ConfirmSent, IsConfirm
  <2> QED BY <2>1 DEF HeldInv
<1>5. RequestInv(s, ts, h, p, c) => RequestInv(t, us, g, q, c)
  BY DEF RequestInv, IsRequest, IsConfirm
<1> QED BY <1>1, <1>2, <1>3, <1>4, <1>5 DEF ClientInv

\* A revoke goes to a client that has none outstanding.
LEMMA RevokedClient ==
    ASSUME NEW s, NEW t, NEW ts, NEW h, NEW p, ClientTypes(ts, h, p),
           NEW c \in Client, NEW m \in Mode, m # NULL,
           s \in SrvType, ClientInv(s, ts, h, p, c), s.revoked[c] = NULL,
           t.granted[c] = s.granted[c], t.reqs = s.reqs, t.revoked[c] = m,
           t.toClient[c] = Append(s.toClient[c], Revoke(m))
    PROVE  ClientInv(t, ts, h, p, c)
<1> DEFINE q == s.toClient[c]
           n == Len(q)
           w == t.toClient[c]
<1>1. /\ q \in Seq(ToClientMsg) /\ Revoke(m) \in ToClientMsg
      /\ Revoke(m).type = "REVOKE" /\ Revoke(m).mode = m
  BY DEF SrvType, Revoke, ToClientMsg
<1>2. /\ DOMAIN q = 1 .. n /\ DOMAIN w = 1 .. (n + 1) /\ n \in Nat /\ Len(w) = n + 1
      /\ \A j \in 1 .. n : w[j] = q[j]
      /\ w[n + 1].type = "REVOKE" /\ w[n + 1].mode = m
  <2> HIDE DEF q
  <2> QED BY <1>1, AppendFacts DEF q
<1>3. /\ \A i \in 1 .. n : q[i].type # "REVOKE"
      /\ ~ConfirmSent(ts, c)
  BY <1>2 DEF ClientInv, RevokeInv, ConfirmInv, ConfirmSent
<1>4. RevokeInv(t, ts, c)
  <2> HIDE DEF q, w
  <2> QED BY <1>2, <1>3 DEF RevokeInv, w
<1>5. ConfirmInv(t, ts, h, c)
  BY <1>3 DEF ConfirmInv, ConfirmSent
<1>6. GrantInv(t, h, p, c)
  <2>1. GrantInv(s, h, p, c)
    BY DEF ClientInv
  <2>2. \A i \in DOMAIN w : w[i].type = "GRANT" => i \in 1 .. n /\ w[i] = q[i]
    <3> HIDE DEF q, w
    <3> QED BY <1>2
  <2> QED BY <1>2, <2>1, <2>2 DEF GrantInv
<1>7. HeldInv(t, ts, h, c)
  <2>1. HeldInv(s, ts, h, c)
    BY DEF ClientInv
  <2>2. \A i \in DOMAIN q : i \in DOMAIN w /\ w[i] = q[i]
    <3> HIDE DEF q, w
    <3> QED BY <1>2
  <2> QED BY <2>1, <2>2 DEF HeldInv
<1>8. RequestInv(t, ts, h, p, c)
  BY DEF ClientInv, RequestInv
<1> QED BY <1>4, <1>5, <1>6, <1>7, <1>8 DEF ClientInv

\* The requests of a client stay in order when the head of the queue is served.
LEMMA RequestsPopped ==
    ASSUME NEW s, NEW t, NEW ts, NEW h, NEW p, NEW c, RequestInv(s, ts, h, p, c),
           NEW n \in Nat, DOMAIN s.reqs = 1 .. (n + 1), DOMAIN t.reqs = 1 .. n,
           \A j \in 1 .. n : t.reqs[j] = s.reqs[j + 1],
           \A j \in DOMAIN ts[c] : IsRequest(ts, c, j) =>
               ts[c][j].mode > t.granted[c] \/ \E i \in 1 .. (j - 1) : IsConfirm(ts, c, i),
           \A i \in 1 .. n : s.reqs[i + 1].client = c => s.reqs[i + 1].mode > t.granted[c]
    PROVE  RequestInv(t, ts, h, p, c)
<1>1. \A i \in 1 .. n : i + 1 \in DOMAIN s.reqs
  OBVIOUS
<1>2. \A i, j \in 1 .. n : i < j => i + 1 < j + 1
  OBVIOUS
<1>3. ASSUME NEW i \in 1 .. n, t.reqs[i].client = c
      PROVE  t.reqs[i].mode \in p[c] /\ t.reqs[i].mode > t.granted[c]
  <2>1. i + 1 \in DOMAIN s.reqs /\ t.reqs[i] = s.reqs[i + 1] /\ s.reqs[i + 1].client = c
    BY <1>1, <1>3
  <2> QED BY <2>1 DEF RequestInv
<1>4. ASSUME NEW i \in 1 .. n, NEW j \in 1 .. n, i < j, t.reqs[i].client = c, t.reqs[j].client = c
      PROVE  t.reqs[i].mode < t.reqs[j].mode
  <2>1. /\ i + 1 \in DOMAIN s.reqs /\ j + 1 \in DOMAIN s.reqs /\ i + 1 < j + 1
        /\ t.reqs[i] = s.reqs[i + 1] /\ t.reqs[j] = s.reqs[j + 1]
    BY <1>1, <1>2, <1>4
  <2> QED BY <1>4, <2>1 DEF RequestInv
<1>5. ASSUME NEW i \in 1 .. n, NEW j \in DOMAIN ts[c], t.reqs[i].client = c, IsRequest(ts, c, j)
      PROVE  t.reqs[i].mode < ts[c][j].mode
  <2>1. i + 1 \in DOMAIN s.reqs /\ t.reqs[i] = s.reqs[i + 1]
    BY <1>1, <1>5
  <2> QED BY <1>5, <2>1 DEF RequestInv
<1>6. \A i \in DOMAIN ts[c] : IsRequest(ts, c, i) =>
        ts[c][i].mode \in p[c] /\ ts[c][i].mode >= SH_RD /\ ts[c][i].mode > h[c]
  BY DEF RequestInv
<1>7. \A i, j \in DOMAIN ts[c] :
        i < j /\ IsRequest(ts, c, i) /\ IsRequest(ts, c, j) => ts[c][i].mode < ts[c][j].mode
  BY DEF RequestInv
<1> QED BY <1>3, <1>4, <1>5, <1>6, <1>7 DEF RequestInv

\* A client's part of the invariant when the head request is not its own and
\* is served.
LEMMA ServedOther ==
    ASSUME NEW s, s \in SrvType, s.reqs # <<>>, NEW t, NEW ts, NEW h, NEW p,
           NEW c \in Client, ClientInv(s, ts, h, p, c),
           t.granted[c] = s.granted[c], t.revoked[c] = s.revoked[c],
           t.toClient[c] = s.toClient[c], t.reqs = Tail(s.reqs)
    PROVE  ClientInv(t, ts, h, p, c)
<1> DEFINE n == Len(s.reqs) - 1
<1>1. /\ DOMAIN s.reqs = 1 .. (n + 1) /\ DOMAIN t.reqs = 1 .. n /\ n \in Nat
      /\ \A j \in 1 .. n : t.reqs[j] = s.reqs[j + 1]
      /\ \A j \in 1 .. n : j + 1 \in DOMAIN s.reqs
  <2>1. s.reqs \in Seq(RLockRequest)
    BY DEF SrvType
  <2> QED BY <2>1, TailFacts
<1> HIDE DEF n
<1>2. RequestInv(s, ts, h, p, c)
  BY DEF ClientInv
<1>3. \A j \in DOMAIN ts[c] : IsRequest(ts, c, j) =>
        ts[c][j].mode > t.granted[c] \/ \E i \in 1 .. (j - 1) : IsConfirm(ts, c, i)
  BY <1>2 DEF RequestInv
<1>4. \A i \in 1 .. n : s.reqs[i + 1].client = c => s.reqs[i + 1].mode > t.granted[c]
  BY <1>1, <1>2 DEF RequestInv
<1>5. RequestInv(t, ts, h, p, c)
  BY <1>1, <1>2, <1>3, <1>4, RequestsPopped
<1> QED BY <1>5 DEF ClientInv, RevokeInv, ConfirmInv, GrantInv, HeldInv

\* A grant goes behind the l messages to client c, above all it was granted.
LEMMA GrantAppended ==
    ASSUME NEW s, NEW t, NEW ts, NEW h, NEW p, NEW c \in Client,
           ClientInv(s, ts, h, p, c), s.revoked[c] = NULL,
           s.granted[c] \in Mode, h[c] \in Mode, t.granted[c] \in Mode,
           t.granted[c] > s.granted[c], t.granted[c] > h[c], t.granted[c] \in p[c],
           NEW l \in Nat, DOMAIN s.toClient[c] = 1 .. l, DOMAIN t.toClient[c] = 1 .. (l + 1),
           \A j \in 1 .. l : /\ t.toClient[c][j] = s.toClient[c][j]
                            /\ s.toClient[c][j].mode \in Mode,
           t.toClient[c][l + 1] = Grant(t.granted[c])
    PROVE  /\ RevokeInv(t, ts, c) /\ ConfirmInv(t, ts, h, c)
           /\ GrantInv(t, h, p, c) /\ HeldInv(t, ts, h, c)
<1> DEFINE m == t.granted[c]
           q == s.toClient[c]
           w == t.toClient[c]
<1>1. Grant(m).type = "GRANT" /\ Grant(m).mode = m
  BY DEF Grant
<1>2. /\ \A i \in 1 .. l : q[i].type # "REVOKE"
      /\ \A i \in DOMAIN ts[c] : ~IsConfirm(ts, c, i)
  BY DEF ClientInv, RevokeInv, ConfirmInv
<1>3. ASSUME NEW i \in 1 .. (l + 1) PROVE w[i].type # "REVOKE"
  <2>1. CASE i = l + 1
    BY <1>1, <2>1
  <2>2. CASE i # l + 1
    BY <1>2, <2>2
  <2> QED BY <2>1, <2>2
<1>4. RevokeInv(t, ts, c)
  BY <1>3 DEF RevokeInv
<1>5. ConfirmInv(t, ts, h, c)
  BY <1>2 DEF ConfirmInv
<1>6. GrantInv(t, h, p, c)
  <2>1. \A i \in 1 .. l : q[i].type = "GRANT" =>
            q[i].mode <= s.granted[c] /\ q[i].mode > h[c] /\ q[i].mode \in p[c]
    BY DEF ClientInv, GrantInv
  <2>2. \A i, j \in 1 .. l : i < j /\ q[i].type = "GRANT" /\ q[j].type = "GRANT"
            => q[i].mode < q[j].mode
    BY DEF ClientInv, GrantInv
  <2>3. ASSUME NEW i \in 1 .. l, q[i].type = "GRANT" PROVE q[i].mode < m
    <3> DEFINE x == q[i].mode
    <3>1. x \in Mode /\ x <= s.granted[c]
      BY <2>1, <2>3
    <3> HIDE DEF x
    <3>2. x < m
      BY <3>1 DEF Mode, NULL, EX_WR
    <3> QED BY <3>2 DEF x
  <2>4. ASSUME NEW i \in 1 .. (l + 1), w[i].type = "GRANT"
        PROVE  w[i].mode <= m /\ w[i].mode > h[c] /\ w[i].mode \in p[c]
    <3>1. CASE i = l + 1
      BY <1>1, <3>1 DEF Mode, NULL, EX_WR
    <3>2. CASE i # l + 1
      <4>1. i \in 1 .. l /\ w[i] = q[i] /\ q[i].mode \in Mode
        BY <3>2
      <4>2. q[i].mode <= m
        BY <2>3, <2>4, <4>1 DEF Mode, NULL, EX_WR
      <4> QED BY <2>1, <2>4, <4>1, <4>2
    <3> QED BY <3>1, <3>2
  <2>5. ASSUME NEW i \in 1 .. (l + 1), NEW j \in 1 .. (l + 1), i < j,
               w[i].type = "GRANT", w[j].type = "GRANT"
        PROVE  w[i].mode < w[j].mode
    <3>1. i \in 1 .. l /\ w[i] = q[i]
      BY <2>5
    <3>2. CASE j = l + 1
      BY <1>1, <2>3, <2>5, <3>1, <3>2
    <3>3. CASE j # l + 1
      <4>1. j \in 1 .. l /\ w[j] = q[j]
        BY <3>3
      <4> QED BY <2>2, <2>5, <3>1, <4>1
    <3> QED BY <3>2, <3>3
  <2> QED BY <2>4, <2>5 DEF GrantInv
<1>7. HeldInv(t, ts, h, c)
  <2>1. h[c] <= t.granted[c]
    BY DEF Mode, NULL, EX_WR
  <2>2. l + 1 \in DOMAIN t.toClient[c] /\ t.toClient[c][l + 1] = Grant(t.granted[c])
    OBVIOUS
  <2> QED BY <2>1, <2>2 DEF HeldInv
<1> QED BY <1>4, <1>5, <1>6, <1>7

\* The client whose request is served.
LEMMA ServedClient ==
    ASSUME NEW s, NEW t, NEW ts, NEW h, NEW p, NEW r, NEW c
    PROVE  /\ ServerInv(s) /\ s.reqs # <<>> /\ ClientTypes(ts, h, p)
           /\ r = Head(s.reqs) /\ c = r.client
           /\ ClientInv(s, ts, h, p, c) /\ s.revoked[c] = NULL
           /\ t.granted[c] = r.mode /\ t.reqs = Tail(s.reqs)
           /\ (s.granted[c] # r.mode => t.toClient[c] = Append(s.toClient[c], Grant(r.mode)))
           => ClientInv(t, ts, h, p, c)
<1>0. SUFFICES ASSUME ServerInv(s), s.reqs # <<>>, ClientTypes(ts, h, p),
                      r = Head(s.reqs), c = r.client,
                      ClientInv(s, ts, h, p, c), s.revoked[c] = NULL,
                      t.granted[c] = r.mode, t.reqs = Tail(s.reqs),
                      s.granted[c] # r.mode => t.toClient[c] = Append(s.toClient[c], Grant(r.mode))
               PROVE  ClientInv(t, ts, h, p, c)
  OBVIOUS
<1> DEFINE n == Len(s.reqs) - 1
           m == r.mode
           q == s.toClient[c]
           l == Len(q)
           w == t.toClient[c]
<1>1. /\ s \in SrvType /\ s.reqs \in Seq(RLockRequest) /\ s.reqs # <<>>
      /\ c \in Client /\ m \in Mode /\ m >= SH_RD
      /\ q \in Seq(ToClientMsg) /\ s.granted[c] \in Mode /\ h[c] \in Mode
      /\ ts[c] \in Seq(ToServerMsg)
  <2>1. s \in SrvType /\ s.reqs \in Seq(RLockRequest) /\ s.reqs # <<>>
    BY <1>0 DEF ServerInv, SrvType
  <2>2. 1 \in DOMAIN s.reqs /\ s.reqs[1] = r
    <3>1. 1 \in DOMAIN s.reqs /\ Head(s.reqs) = s.reqs[1]
      BY <2>1, TailFacts
    <3> QED BY <1>0, <3>1
  <2>3. r.client \in Client /\ r.mode \in Mode
    BY <2>1, <2>2, QueuedModes
  <2>4. c \in Client
    BY <1>0, <2>3, Zenon
  <2>5. r.mode >= SH_RD
    BY <1>0, <2>2 DEF ServerInv
  <2>6. q \in Seq(ToClientMsg) /\ s.granted[c] \in Mode
    BY <2>1, <2>4 DEF SrvType
  <2>7. h[c] \in Mode /\ ts[c] \in Seq(ToServerMsg)
    BY <1>0, <2>4 DEF ClientTypes
  <2> QED BY <2>1, <2>3, <2>4, <2>5, <2>6, <2>7
<1>2. /\ DOMAIN s.reqs = 1 .. (n + 1) /\ DOMAIN t.reqs = 1 .. n /\ n \in Nat
      /\ \A j \in 1 .. n : t.reqs[j] = s.reqs[j + 1]
      /\ 1 \in DOMAIN s.reqs /\ s.reqs[1].client = c /\ s.reqs[1].mode = m
      /\ \A j \in 1 .. n : j + 1 \in DOMAIN s.reqs /\ 1 < j + 1
  <2> DEFINE rq == s.reqs
             L == Len(rq)
  <2>1. rq \in Seq(RLockRequest) /\ rq # <<>>
    BY <1>1
  <2>2. t.reqs = Tail(rq) /\ s.reqs = rq /\ r = Head(rq) /\ r.client = c /\ r.mode = m
    BY <1>0
  <2>3. n = L - 1
    OBVIOUS
  <2> HIDE DEF rq, n, m
  <2>4. L \in Nat
    BY <2>1
  <2>5. /\ DOMAIN Tail(rq) = 1 .. (L - 1) /\ DOMAIN rq = 1 .. L /\ L >= 1 /\ Head(rq) = rq[1]
        /\ \A j \in 1 .. (L - 1) : Tail(rq)[j] = rq[j + 1]
    BY <2>1, TailFacts
  <2> HIDE DEF L
  <2>6. n \in Nat /\ n + 1 = L
    BY <2>3, <2>4, <2>5
  <2>7. /\ DOMAIN s.reqs = 1 .. (n + 1) /\ DOMAIN t.reqs = 1 .. n
        /\ \A j \in 1 .. n : t.reqs[j] = s.reqs[j + 1]
    BY <2>2, <2>3, <2>5, <2>6
  <2>8. s.reqs[1].client = c /\ s.reqs[1].mode = m
    BY <2>2, <2>5, Zenon
  <2>9. 1 \in 1 .. (n + 1) /\ \A j \in 1 .. n : j + 1 \in 1 .. (n + 1) /\ 1 < j + 1
    BY <2>6
  <2> QED BY <2>6, <2>7, <2>8, <2>9
<1> HIDE DEF n
<1>3. RequestInv(s, ts, h, p, c) /\ (h[c] <= s.granted[c] \/ h[c] <= NONE)
  BY <1>0 DEF ClientInv, HeldInv
<1>4. m \in p[c] /\ m > s.granted[c] /\ m > h[c]
  <2>1. m \in p[c] /\ m > s.granted[c]
    BY <1>2, <1>3 DEF RequestInv
  <2>2. s.granted[c] \in Int /\ h[c] \in Int /\ m \in Int /\ m > NONE /\ NONE \in Int
    <3> DEFINE g == s.granted[c]
               k == h[c]
    <3>1. g \in Mode /\ k \in Mode /\ m \in Mode /\ m >= SH_RD
      BY <1>1
    <3> HIDE DEF g, k, m
    <3>2. g \in Int /\ k \in Int /\ m \in Int /\ m > NONE /\ NONE \in Int
      BY <3>1 DEF Mode, NULL, NONE, SH_RD, EX_WR
    <3> QED BY <3>2 DEF g, k
  <2> HIDE DEF m
  <2>3. m > h[c]
    BY <1>3, <2>1, <2>2
  <2> QED BY <2>1, <2>3
<1>5. /\ DOMAIN q = 1 .. l /\ DOMAIN w = 1 .. (l + 1) /\ l \in Nat
      /\ \A j \in 1 .. l : w[j] = q[j] /\ q[j].mode \in Mode
      /\ w[l + 1] = Grant(m)
  <2>1. w = Append(q, Grant(m))
    <3>1. s.granted[c] \in Int /\ m \in Int
      BY <1>1 DEF Mode, NULL, EX_WR
    <3>2. s.granted[c] # m
      BY <1>4, <3>1
    <3> QED BY <1>0, <3>2
  <2>2. Grant(m) \in ToClientMsg
    BY <1>1 DEF Grant, ToClientMsg
  <2>3. q \in Seq(ToClientMsg)
    BY <1>1
  <2> HIDE DEF q, w, m
  <2>4. l \in Nat
    BY <2>3
  <2>5. /\ DOMAIN Append(q, Grant(m)) = 1 .. (l + 1) /\ DOMAIN q = 1 .. l
        /\ \A j \in 1 .. l : Append(q, Grant(m))[j] = q[j]
        /\ Append(q, Grant(m))[l + 1] = Grant(m)
    BY <2>2, <2>3, AppendFacts
  <2> HIDE DEF l
  <2>6. \A j \in 1 .. l : q[j].mode \in Mode
    BY <2>3, <2>5, QueuedModes
  <2> QED BY <2>1, <2>4, <2>5, <2>6
<1> HIDE DEF l
<1>6. t.granted[c] = m
  BY <1>0
<1>7. /\ RevokeInv(t, ts, c) /\ ConfirmInv(t, ts, h, c)
      /\ GrantInv(t, h, p, c) /\ HeldInv(t, ts, h, c)
  <2>1. /\ c \in Client /\ ClientInv(s, ts, h, p, c) /\ s.revoked[c] = NULL
        /\ s.granted[c] \in Mode /\ h[c] \in Mode /\ t.granted[c] \in Mode
        /\ t.granted[c] > s.granted[c] /\ t.granted[c] > h[c] /\ t.granted[c] \in p[c]
    BY <1>0, <1>1, <1>4, <1>6
  <2>2. /\ l \in Nat /\ DOMAIN s.toClient[c] = 1 .. l
        /\ DOMAIN t.toClient[c] = 1 .. (l + 1)
        /\ \A j \in 1 .. l : /\ t.toClient[c][j] = s.toClient[c][j]
                            /\ s.toClient[c][j].mode \in Mode
        /\ t.toClient[c][l + 1] = Grant(t.granted[c])
    BY <1>5, <1>6
  <2> HIDE DEF q, w, m
  <2> QED BY <2>1, <2>2, GrantAppended, ZenonT(60)
<1>8. \A j \in DOMAIN ts[c] : IsRequest(ts, c, j) => ts[c][j].mode > t.granted[c]
  BY <1>2, <1>3, <1>6 DEF RequestInv
<1>9. ASSUME NEW i \in 1 .. n, s.reqs[i + 1].client = c
      PROVE  s.reqs[i + 1].mode > t.granted[c]
  BY <1>2, <1>3, <1>6, <1>9 DEF RequestInv
<1>10. RequestInv(t, ts, h, p, c)
  BY <1>2, <1>3, <1>8, <1>9, RequestsPopped
<1>11. \A i \in DOMAIN ts[c] : ts[c][i].type # "RELEASE"
  BY <1>0 DEF ClientInv
<1> QED BY <1>7, <1>10, <1>11 DEF ClientInv

\* Revokes for the head request keep the protocol's invariant.
LEMMA SendRevokesProtocol ==
    ASSUME NEW s, ServerInv(s), NEW ts, NEW h, NEW p, ClientTypes(ts, h, p),
           ProtocolInv(s, ts, h, p), s.reqs # <<>>
    PROVE  ProtocolInv(SendRevokes(s, Head(s.reqs)), ts, h, p)
<1> DEFINE r == Head(s.reqs)
           mc == MostCompatible(r.mode)
           rv == Revokees(s, r)
           t == SendRevokes(s, r)
<1>1. s \in SrvType /\ r \in RLockRequest /\ r.mode \in Mode /\ r.mode >= SH_RD
  <2>1. s \in SrvType /\ s.reqs \in Seq(RLockRequest)
    BY DEF ServerInv, SrvType
  <2>2. 1 \in DOMAIN s.reqs /\ s.reqs[1] = r
    BY <2>1, TailFacts
  <2> QED BY <2>1, <2>2, QueuedModes DEF ServerInv
<1>2. mc # NULL /\ mc \in Mode
  BY <1>1, MostCompatibleFacts
<1>3. /\ t.granted = s.granted /\ t.reqs = s.reqs
      /\ \A c \in Client : c \in rv =>
           t.revoked[c] = mc /\ t.toClient[c] = Append(s.toClient[c], Revoke(mc))
      /\ \A c \in Client : c \notin rv =>
           t.revoked[c] = s.revoked[c] /\ t.toClient[c] = s.toClient[c]
  BY <1>1, SendRevokesFacts
<1>4. \A c \in rv : c \in Client /\ c # r.client /\ ~Compatible(s.granted[c], r.mode)
                      /\ s.revoked[c] # mc
  BY <1>1, RevokeesFacts
<1>5. GrantedCompatible(s) /\ RevokedForHead(s) /\ \A c \in Client : ClientInv(s, ts, h, p, c)
  BY DEF ProtocolInv
<1>6. \A c \in rv : s.revoked[c] = NULL
  BY <1>4, <1>5 DEF RevokedForHead
<1> HIDE DEF mc, rv, t
<1>7. GrantedCompatible(t)
  BY <1>3, <1>5 DEF GrantedCompatible
<1>8. RevokedForHead(t)
  BY <1>3, <1>4, <1>5 DEF RevokedForHead, mc
<1>9. ASSUME NEW c \in Client PROVE ClientInv(t, ts, h, p, c)
  <2>1. CASE c \in rv
    BY <1>1, <1>2, <1>3, <1>5, <1>6, <2>1, RevokedClient
  <2>2. CASE c \notin rv
    <3>1. /\ t.granted[c] = s.granted[c] /\ t.revoked[c] = s.revoked[c]
          /\ t.toClient[c] = s.toClient[c] /\ t.reqs = s.reqs
      BY <1>3, <2>2
    <3> QED BY <1>5, <3>1, SameClient
  <2> QED BY <2>1, <2>2
<1> QED BY <1>7, <1>8, <1>9 DEF ProtocolInv, t

\* Serving the head request keeps it: nothing is revoked any more, and every
\* other client's mode is compatible with the request.
LEMMA ServedProtocol ==
    ASSUME NEW s, ServerInv(s), NEW ts, NEW h, NEW p, ClientTypes(ts, h, p),
           ProtocolInv(s, ts, h, p), s.reqs # <<>>, ~SawIncompat(s, Head(s.reqs)),
           NEW r, r = Head(s.reqs), NEW t, t = Served(s)
    PROVE  ProtocolInv(t, ts, h, p)
<1>1. s \in SrvType /\ r \in RLockRequest /\ r.client \in Client /\ r.mode \in Mode
  <2>1. s \in SrvType /\ s.reqs \in Seq(RLockRequest)
    BY DEF ServerInv, SrvType
  <2>2. 1 \in DOMAIN s.reqs /\ s.reqs[1] = r
    BY <2>1, TailFacts
  <2> QED BY <2>1, <2>2, QueuedModes
<1>2. /\ t.reqs = Tail(s.reqs) /\ t.revoked = s.revoked
      /\ t.granted[r.client] = r.mode
      /\ s.granted[r.client] # r.mode =>
           t.toClient[r.client] = Append(s.toClient[r.client], Grant(r.mode))
      /\ \A d \in Client : d # r.client =>
           t.granted[d] = s.granted[d] /\ t.toClient[d] = s.toClient[d]
  <2>2. t.reqs = Tail(s.reqs) /\ t.revoked = s.revoked /\ t.granted[r.client] = r.mode
    BY ServedFacts
  <2>3. s.granted[r.client] # r.mode => t.toClient[r.client] = GrantSent(s, r)
    BY ServedFacts
  <2>4. ASSUME NEW d \in Client, d # r.client
        PROVE  t.granted[d] = s.granted[d] /\ t.toClient[d] = s.toClient[d]
    BY <2>4, ServedFacts
  <2> QED BY <2>2, <2>3, <2>4 DEF GrantSent
<1>3. \A d \in Client : d # r.client => Compatible(s.granted[d], r.mode)
  BY <1>1, NoConflictLeft
<1>4. GrantedCompatible(s) /\ RevokedForHead(s) /\ \A c \in Client : ClientInv(s, ts, h, p, c)
  BY DEF ProtocolInv
<1>5. \A d \in Client : s.revoked[d] = NULL
  BY <1>3, <1>4 DEF RevokedForHead
<1>6. /\ \A d \in Client : s.granted[d] \in Mode
      /\ \A a, b \in Mode : Compatible(a, b) => Compatible(b, a)
  BY <1>1 DEF SrvType, Compatible
<1>7. GrantedCompatible(t)
  <2> SUFFICES ASSUME NEW c \in Client, NEW d \in Client, c # d
               PROVE  Compatible(t.granted[c], t.granted[d])
    BY DEF GrantedCompatible
  <2>1. CASE c # r.client /\ d # r.client
    BY <1>2, <1>4, <2>1 DEF GrantedCompatible
  <2>2. CASE c = r.client
    BY <1>1, <1>2, <1>3, <1>6, <2>2
  <2>3. CASE d = r.client
    BY <1>1, <1>2, <1>3, <1>6, <2>3
  <2> QED BY <2>1, <2>2, <2>3
<1>8. RevokedForHead(t)
  BY <1>2, <1>5 DEF RevokedForHead
<1>9. ASSUME NEW c \in Client PROVE ClientInv(t, ts, h, p, c)
  <2>1. CASE c = r.client
    <3>1. t.revoked[c] = NULL /\ s.revoked[c] = NULL
      BY <1>2, <1>5
    <3> QED BY <1>2, <1>4, <2>1, <3>1, ServedClient
  <2>2. CASE c # r.client
    <3>1. /\ t.granted[c] = s.granted[c] /\ t.revoked[c] = s.revoked[c]
          /\ t.toClient[c] = s.toClient[c] /\ t.reqs = Tail(s.reqs)
      BY <1>2, <2>2
    <3> QED BY <1>1, <1>4, <3>1, ServedOther
  <2> QED BY <2>1, <2>2
<1> QED BY <1>7, <1>8, <1>9 DEF ProtocolInv

LEMMA ProcessHeadProtocol ==
    ASSUME NEW s, ServerInv(s), NEW ts, NEW h, NEW p, ClientTypes(ts, h, p),
           ProtocolInv(s, ts, h, p)
    PROVE  ProtocolInv(ProcessHead(s), ts, h, p)
<1>1. CASE s.reqs = <<>>
  BY <1>1 DEF ProcessHead, FreeHeadRequest
<1>2. CASE s.reqs # <<>> /\ SawIncompat(s, Head(s.reqs))
  <2>1. ProcessHead(s) = SendRevokes(s, Head(s.reqs))
    BY <1>2 DEF ProcessHead, FreeHeadRequest
  <2> QED BY <1>2, <2>1, SendRevokesProtocol
<1>3. CASE s.reqs # <<>> /\ ~SawIncompat(s, Head(s.reqs))
  <2>1. ProcessHead(s) = Served(s)
    BY <1>3 DEF ProcessHead, FreeHeadRequest, Served
  <2> QED BY <1>3, <2>1, ServedProtocol
<1> QED BY <1>1, <1>2, <1>3

\* The whole loop keeps it.
LEMMA ProcessRequestsProtocol ==
    ASSUME NEW s, ServerInv(s), NEW ts, NEW h, NEW p, ClientTypes(ts, h, p),
           ProtocolInv(s, ts, h, p)
    PROVE  ProtocolInv(ProcessRequests(s), ts, h, p)
<1> DEFINE N == Len(s.reqs)
<1>1. s.reqs \in Seq(RLockRequest) /\ N \in Nat
  BY DEF ServerInv, SrvType
<1>2. PICK f : Iterates(s, f) /\ ProcessRequests(s) = f[N]
  BY <1>1, ProcessRequestsIterates
<1>3. f[0] = s /\ \A n \in 1 .. N : f[n] = ProcessHead(f[n - 1])
  BY <1>2 DEF Iterates
<1> DEFINE P(n) == ServerInv(f[n]) /\ ProtocolInv(f[n], ts, h, p)
           Bad == {n \in 0 .. N : ~P(n)}
<1>4. P(0)
  BY <1>3
<1>5. ASSUME NEW n \in 1 .. N, P(n - 1) PROVE P(n)
  <2>1. f[n] = ProcessHead(f[n - 1])
    BY <1>3
  <2> QED BY <1>5, <2>1, ProcessHeadServerInv, ProcessHeadProtocol
<1> HIDE DEF P
<1>6. Bad = {}
  <2> SUFFICES ASSUME Bad # {} PROVE FALSE
    OBVIOUS
  <2>1. Bad \subseteq Nat
    BY <1>1
  <2>2. PICK n \in Bad : \A j \in Bad : n <= j
    <3> HIDE DEF Bad
    <3> QED BY <2>1, LeastNat
  <2>3. n \in 1 .. N /\ ~P(n)
    BY <1>1, <1>4, <2>2
  <2>4. P(n - 1)
    BY <1>1, <2>2, <2>3
  <2> QED BY <1>5, <2>3, <2>4
<1> QED BY <1>1, <1>2, <1>6 DEF P

-----------------------------------------------------------------------------
(* The handlers.                                                           *)

\* The rest of a client's queue is one place nearer.
LEMMA RestOfQueue ==
    ASSUME NEW ts, NEW us, NEW c, ts[c] \in Seq(ToServerMsg), ts[c] # <<>>,
           us[c] = Tail(ts[c])
    PROVE  \E n \in Nat :
             /\ DOMAIN ts[c] = 1 .. (n + 1) /\ DOMAIN us[c] = 1 .. n
             /\ Head(ts[c]) = ts[c][1]
             /\ \A j \in 1 .. n : /\ us[c][j] = ts[c][j + 1]
                                  /\ IsConfirm(us, c, j) <=> IsConfirm(ts, c, j + 1)
                                  /\ IsRequest(us, c, j) <=> IsRequest(ts, c, j + 1)
<1> DEFINE n == Len(ts[c]) - 1
<1>1. /\ DOMAIN ts[c] = 1 .. (n + 1) /\ DOMAIN us[c] = 1 .. n /\ n \in Nat
      /\ Head(ts[c]) = ts[c][1]
      /\ \A j \in 1 .. n : us[c][j] = ts[c][j + 1]
  BY TailFacts
<1> HIDE DEF n
<1> QED BY <1>1 DEF IsConfirm, IsRequest

\* A request moves from the client's queue to the server's.
LEMMA QueuedClient ==
    ASSUME NEW s, s \in SrvType, NEW t, NEW ts, NEW us, NEW h, NEW p,
           ClientTypes(ts, h, p), NEW c \in Client, ClientInv(s, ts, h, p, c),
           ts[c] # <<>>, Head(ts[c]).type = "REQUEST", us[c] = Tail(ts[c]),
           NEW m, m = Head(ts[c]).mode,
           t.reqs = Append(s.reqs, [client |-> c, mode |-> m]),
           t.granted[c] = s.granted[c], t.revoked[c] = s.revoked[c],
           t.toClient[c] = s.toClient[c]
    PROVE  m \in Mode /\ m >= SH_RD /\ ClientInv(t, us, h, p, c)
<1>1. PICK n \in Nat :
        /\ DOMAIN ts[c] = 1 .. (n + 1) /\ DOMAIN us[c] = 1 .. n
        /\ Head(ts[c]) = ts[c][1]
        /\ \A j \in 1 .. n : /\ us[c][j] = ts[c][j + 1]
                             /\ IsConfirm(us, c, j) <=> IsConfirm(ts, c, j + 1)
                             /\ IsRequest(us, c, j) <=> IsRequest(ts, c, j + 1)
  BY RestOfQueue DEF ClientTypes
<1>2. /\ 1 \in DOMAIN ts[c] /\ IsRequest(ts, c, 1) /\ ~IsConfirm(ts, c, 1) /\ ts[c][1].mode = m
      /\ \A j \in 1 .. n : j + 1 \in DOMAIN ts[c] /\ 1 < j + 1
      /\ \A i, j \in 1 .. n : i < j => i + 1 < j + 1
  BY <1>1 DEF IsRequest, IsConfirm
<1>3. /\ \A i \in DOMAIN ts[c] : ts[c][i].type # "RELEASE"
      /\ RevokeInv(s, ts, c) /\ ConfirmInv(s, ts, h, c) /\ GrantInv(s, h, p, c)
      /\ HeldInv(s, ts, h, c) /\ RequestInv(s, ts, h, p, c)
  BY DEF ClientInv
<1>4. m \in p[c] /\ m >= SH_RD /\ m > h[c] /\ m > s.granted[c] /\ m \in Mode
  <2>1. m \in p[c] /\ m >= SH_RD /\ m > h[c]
    BY <1>2, <1>3 DEF RequestInv
  <2>2. m > s.granted[c] \/ \E j \in 1 .. (1 - 1) : IsConfirm(ts, c, j)
    BY <1>2, <1>3 DEF RequestInv
  <2> QED BY <2>1, <2>2 DEF ClientTypes
<1>5. PICK k \in Nat :
        /\ DOMAIN s.reqs = 1 .. k /\ DOMAIN t.reqs = 1 .. (k + 1)
        /\ \A j \in 1 .. k : t.reqs[j] = s.reqs[j]
        /\ t.reqs[k + 1].client = c /\ t.reqs[k + 1].mode = m
  <2>1. s.reqs \in Seq(RLockRequest)
    BY DEF SrvType
  <2>2. [client |-> c, mode |-> m] \in RLockRequest
    BY <1>4 DEF RLockRequest
  <2> QED BY <2>1, <2>2, AppendFacts
<1>6. ConfirmSent(us, c) <=> ConfirmSent(ts, c)
  <2>1. ASSUME ConfirmSent(us, c) PROVE ConfirmSent(ts, c)
    BY <1>1, <1>2, <2>1 DEF ConfirmSent
  <2>2. ASSUME ConfirmSent(ts, c) PROVE ConfirmSent(us, c)
    <3>1. PICK i \in 1 .. (n + 1) : IsConfirm(ts, c, i)
      BY <1>1, <2>2 DEF ConfirmSent
    <3>2. i - 1 \in 1 .. n /\ (i - 1) + 1 = i
      BY <1>2, <3>1
    <3> QED BY <1>1, <3>1, <3>2 DEF ConfirmSent
  <2> QED BY <2>1, <2>2
<1>7. RevokeInv(t, us, c)
  BY <1>3, <1>6 DEF RevokeInv
<1>8. ConfirmInv(t, us, h, c)
  <2>1. \A i \in 1 .. n : IsConfirm(us, c, i) =>
          /\ s.toClient[c] = <<>> /\ s.revoked[c] # NULL
          /\ us[c][i].mode = s.revoked[c] /\ h[c] = s.revoked[c]
    BY <1>1, <1>2, <1>3 DEF ConfirmInv
  <2>2. \A i, j \in 1 .. n : IsConfirm(us, c, i) /\ IsConfirm(us, c, j) => i + 1 = j + 1
    BY <1>1, <1>2, <1>3 DEF ConfirmInv
  <2>3. \A i, j \in 1 .. n : i + 1 = j + 1 => i = j
    OBVIOUS
  <2> QED BY <1>1, <2>1, <2>2, <2>3 DEF ConfirmInv
<1>9. GrantInv(t, h, p, c) /\ HeldInv(t, us, h, c)
  BY <1>3, <1>6 DEF GrantInv, HeldInv
<1>10. RequestInv(t, us, h, p, c)
  <2>1. ASSUME NEW i \in 1 .. n, IsRequest(us, c, i)
        PROVE  /\ us[c][i].mode \in p[c] /\ us[c][i].mode >= SH_RD /\ us[c][i].mode > h[c]
               /\ us[c][i].mode > s.granted[c] \/ \E j \in 1 .. (i - 1) : IsConfirm(us, c, j)
               /\ m < us[c][i].mode
    <3>1. /\ i + 1 \in DOMAIN ts[c] /\ IsRequest(ts, c, i + 1) /\ us[c][i] = ts[c][i + 1]
      BY <1>1, <1>2, <2>1
    <3>2. /\ us[c][i].mode \in p[c] /\ us[c][i].mode >= SH_RD /\ us[c][i].mode > h[c]
          /\ us[c][i].mode > s.granted[c] \/ \E j \in 1 .. ((i + 1) - 1) : IsConfirm(ts, c, j)
      BY <1>3, <3>1 DEF RequestInv
    <3>3. m < us[c][i].mode
      BY <1>2, <1>3, <3>1 DEF RequestInv
    <3>4. ASSUME NEW j \in 1 .. ((i + 1) - 1), IsConfirm(ts, c, j)
          PROVE  \E l \in 1 .. (i - 1) : IsConfirm(us, c, l)
      <4>1. j - 1 \in 1 .. (i - 1) /\ j - 1 \in 1 .. n /\ (j - 1) + 1 = j
        BY <1>2, <3>4
      <4>2. IsConfirm(us, c, j - 1)
        BY <1>1, <3>4, <4>1
      <4> QED BY <4>1, <4>2
    <3> QED BY <3>2, <3>3, <3>4
  <2>2. \A i, j \in 1 .. n : i < j /\ IsRequest(us, c, i) /\ IsRequest(us, c, j)
          => us[c][i].mode < us[c][j].mode
    BY <1>1, <1>2, <1>3 DEF RequestInv
  <2>3. ASSUME NEW i \in 1 .. (k + 1), t.reqs[i].client = c
        PROVE  /\ t.reqs[i].mode \in p[c] /\ t.reqs[i].mode > s.granted[c]
               /\ \A j \in 1 .. n : IsRequest(us, c, j) => t.reqs[i].mode < us[c][j].mode
    <3>1. CASE i = k + 1
      BY <1>4, <1>5, <2>1, <3>1
    <3>2. CASE i # k + 1
      <4>1. i \in DOMAIN s.reqs /\ t.reqs[i] = s.reqs[i]
        BY <1>5, <3>2
      <4> QED BY <1>1, <1>2, <1>3, <2>3, <4>1 DEF RequestInv
    <3> QED BY <3>1, <3>2
  <2>4. ASSUME NEW i \in 1 .. (k + 1), NEW j \in 1 .. (k + 1), i < j,
               t.reqs[i].client = c, t.reqs[j].client = c
        PROVE  t.reqs[i].mode < t.reqs[j].mode
    <3>1. i \in DOMAIN s.reqs /\ t.reqs[i] = s.reqs[i]
      BY <1>5, <2>4
    <3>2. CASE j = k + 1
      BY <1>2, <1>3, <1>5, <2>4, <3>1, <3>2 DEF RequestInv
    <3>3. CASE j # k + 1
      <4>1. j \in DOMAIN s.reqs /\ t.reqs[j] = s.reqs[j]
        BY <1>5, <3>3
      <4> QED BY <1>3, <2>4, <3>1, <4>1 DEF RequestInv
    <3> QED BY <3>2, <3>3
  <2> QED BY <1>1, <1>5, <2>1, <2>2, <2>3, <2>4 DEF RequestInv
<1>11. \A i \in 1 .. n : us[c][i].type # "RELEASE"
  BY <1>1, <1>2, <1>3
<1> QED BY <1>1, <1>4, <1>7, <1>8, <1>9, <1>10, <1>11 DEF ClientInv

LEMMA QueuedProtocol ==
    ASSUME NEW s, ServerInv(s), NEW ts, NEW us, NEW h, NEW p, ClientTypes(ts, h, p),
           ProtocolInv(s, ts, h, p), NEW c \in Client,
           ts[c] # <<>>, Head(ts[c]).type = "REQUEST", us[c] = Tail(ts[c]),
           \A d \in Client : d # c => us[d] = ts[d],
           NEW m, m = Head(ts[c]).mode, NEW t,
           t.reqs = Append(s.reqs, [client |-> c, mode |-> m]),
           t.granted = s.granted, t.revoked = s.revoked, t.toClient = s.toClient
    PROVE  ProtocolInv(t, us, h, p)
<1>1. GrantedCompatible(s) /\ RevokedForHead(s) /\ \A d \in Client : ClientInv(s, ts, h, p, d)
  BY DEF ProtocolInv
<1>2. s \in SrvType /\ s.reqs \in Seq(RLockRequest)
  BY DEF ServerInv, SrvType
<1>3. m \in Mode /\ ClientInv(t, us, h, p, c)
  BY <1>1, <1>2, QueuedClient
<1>4. [client |-> c, mode |-> m] \in RLockRequest
  BY <1>3 DEF RLockRequest
<1>5. PICK k \in Nat :
        /\ DOMAIN s.reqs = 1 .. k /\ DOMAIN t.reqs = 1 .. (k + 1)
        /\ \A j \in 1 .. k : t.reqs[j] = s.reqs[j]
        /\ t.reqs[k + 1].client = c
  BY <1>2, <1>4, AppendFacts
<1>6. GrantedCompatible(t)
  BY <1>1 DEF GrantedCompatible
<1>7. s.reqs # <<>> => t.reqs # <<>> /\ Head(t.reqs) = Head(s.reqs)
  BY <1>2, <1>4
<1>8. RevokedForHead(t)
  BY <1>1, <1>7 DEF RevokedForHead
<1>9. ASSUME NEW d \in Client, d # c PROVE ClientInv(t, us, h, p, d)
  <2>1. RequestInv(s, ts, h, p, d) /\ us[d] = ts[d]
    BY <1>1, <1>9 DEF ClientInv
  <2>2. \A i \in 1 .. (k + 1) : t.reqs[i].client = d => i \in 1 .. k /\ t.reqs[i] = s.reqs[i]
    BY <1>5, <1>9
  <2>3. RequestInv(t, us, h, p, d)
    <3>1. \A i \in DOMAIN t.reqs : t.reqs[i].client = d =>
            t.reqs[i].mode \in p[d] /\ t.reqs[i].mode > t.granted[d]
      BY <1>5, <2>1, <2>2 DEF RequestInv
    <3>2. \A i, j \in DOMAIN t.reqs : i < j /\ t.reqs[i].client = d /\ t.reqs[j].client = d
            => t.reqs[i].mode < t.reqs[j].mode
      BY <1>5, <2>1, <2>2 DEF RequestInv
    <3>3. \A i \in DOMAIN t.reqs : \A j \in DOMAIN ts[d] :
            t.reqs[i].client = d /\ IsRequest(ts, d, j) => t.reqs[i].mode < ts[d][j].mode
      BY <1>5, <2>1, <2>2 DEF RequestInv
    <3>4. RequestInv(s, us, h, p, d)
      BY <2>1 DEF RequestInv, IsRequest, IsConfirm
    <3>5. \A i \in DOMAIN t.reqs : \A j \in DOMAIN us[d] :
            t.reqs[i].client = d /\ IsRequest(us, d, j) => t.reqs[i].mode < us[d][j].mode
      BY <2>1, <3>3 DEF IsRequest
    <3>6. t.granted = s.granted
      OBVIOUS
    <3> QED BY <3>1, <3>2, <3>4, <3>5, <3>6 DEF RequestInv
  <2>4. ClientInv(s, ts, h, p, d)
    BY <1>1
  <2>5. RevokeInv(t, us, d)
    BY <2>1, <2>4 DEF ClientInv, RevokeInv, ConfirmSent, IsConfirm
  <2>6. ConfirmInv(t, us, h, d)
    BY <2>1, <2>4 DEF ClientInv, ConfirmInv, IsConfirm
  <2>7. GrantInv(t, h, p, d)
    BY <2>4 DEF ClientInv, GrantInv
  <2>8. HeldInv(t, us, h, d)
    <3>1. HeldInv(s, ts, h, d)
      BY <2>4 DEF ClientInv
    <3>2. ConfirmSent(us, d) = ConfirmSent(ts, d)
      BY <2>1 DEF ConfirmSent, IsConfirm
    <3> QED BY <3>1, <3>2 DEF HeldInv
  <2>9. \A i \in DOMAIN us[d] : us[d][i].type # "RELEASE"
    BY <2>1, <2>4 DEF ClientInv
  <2> QED BY <2>3, <2>5, <2>6, <2>7, <2>8, <2>9 DEF ClientInv
<1> QED BY <1>3, <1>6, <1>8, <1>9 DEF ProtocolInv

\* A confirm answers the only revoke outstanding, and the client has complied.
LEMMA ConfirmedClient ==
    ASSUME NEW s, ServerInv(s), NEW ts, NEW h, NEW p, ClientTypes(ts, h, p),
           NEW c \in Client, ClientInv(s, ts, h, p, c),
           ts[c] # <<>>, Head(ts[c]).type = "CONFIRM"
    PROVE  /\ s.toClient[c] = <<>> /\ s.revoked[c] # NULL
           /\ Head(ts[c]).mode = s.revoked[c] /\ h[c] = s.revoked[c]
           /\ \A i \in DOMAIN ts[c] : IsConfirm(ts, c, i) => i = 1
<1>1. 1 \in DOMAIN ts[c] /\ Head(ts[c]) = ts[c][1]
  <2>1. ts[c] \in Seq(ToServerMsg)
    BY DEF ClientTypes
  <2> QED BY <2>1, TailFacts
<1>2. IsConfirm(ts, c, 1)
  BY <1>1 DEF IsConfirm
<1> QED BY <1>1, <1>2 DEF ClientInv, ConfirmInv

\* The server takes the mode the client fell back to.
LEMMA ConfirmedProtocol ==
    ASSUME NEW s, ServerInv(s), NEW ts, NEW us, NEW h, NEW p, ClientTypes(ts, h, p),
           ProtocolInv(s, ts, h, p), NEW c \in Client,
           ts[c] # <<>>, Head(ts[c]).type = "CONFIRM", us[c] = Tail(ts[c]),
           \A d \in Client : d # c => us[d] = ts[d], NEW t,
           t.reqs = s.reqs, t.toClient = s.toClient,
           t.granted[c] = s.revoked[c], t.revoked[c] = NULL,
           \A d \in Client : d # c => t.granted[d] = s.granted[d] /\ t.revoked[d] = s.revoked[d]
    PROVE  ProtocolInv(t, us, h, p)
<1>1. GrantedCompatible(s) /\ RevokedForHead(s) /\ \A d \in Client : ClientInv(s, ts, h, p, d)
  BY DEF ProtocolInv
<1>2. /\ s \in SrvType /\ s.reqs \in Seq(RLockRequest)
      /\ \A d \in Client : s.granted[d] \in Mode /\ s.revoked[d] \in Mode
  BY DEF ServerInv, SrvType
<1>3. /\ s.toClient[c] = <<>> /\ s.revoked[c] # NULL
      /\ Head(ts[c]).mode = s.revoked[c] /\ h[c] = s.revoked[c]
      /\ \A i \in DOMAIN ts[c] : IsConfirm(ts, c, i) => i = 1
  BY <1>1, ConfirmedClient
<1>4. s.revoked[c] < s.granted[c]
  <2> DEFINE hm == Head(s.reqs).mode
  <2>1. s.reqs # <<>> /\ ~Compatible(s.granted[c], hm) /\ s.revoked[c] = MostCompatible(hm)
    BY <1>1, <1>3 DEF RevokedForHead
  <2>2. hm \in Mode /\ hm >= SH_RD
    <3>1. 1 \in DOMAIN s.reqs /\ s.reqs[1] = Head(s.reqs)
      BY <1>2, <2>1, TailFacts
    <3> QED BY <1>2, <3>1, QueuedModes DEF ServerInv
  <2> HIDE DEF hm
  <2>3. ~(s.granted[c] <= s.revoked[c])
    BY <1>2, <2>1, <2>2, MostCompatibleFacts
  <2> QED BY <1>2, <2>3 DEF Mode, NULL, EX_WR
<1>5. GrantedCompatible(t)
  <2> SUFFICES ASSUME NEW a \in Client, NEW b \in Client, a # b
               PROVE  Compatible(t.granted[a], t.granted[b])
    BY DEF GrantedCompatible
  <2>1. Compatible(s.granted[a], s.granted[b]) /\ Compatible(s.granted[b], s.granted[a])
    BY <1>1 DEF GrantedCompatible
  <2>2. s.revoked[c] <= s.granted[c]
    BY <1>2, <1>4 DEF Mode, NULL, EX_WR
  <2>3. CASE a = c
    BY <1>2, <2>1, <2>2, <2>3, CompatibleMonotone
  <2>4. CASE b = c
    BY <1>2, <2>1, <2>2, <2>4, CompatibleMonotone
  <2>5. CASE a # c /\ b # c
    BY <2>1, <2>5
  <2> QED BY <2>3, <2>4, <2>5
<1>6. RevokedForHead(t)
  <2> SUFFICES ASSUME NEW d \in Client, t.revoked[d] # NULL
               PROVE  /\ t.reqs # <<>> /\ Head(t.reqs).client # d
                      /\ ~Compatible(t.granted[d], Head(t.reqs).mode)
                      /\ t.revoked[d] = MostCompatible(Head(t.reqs).mode)
    BY DEF RevokedForHead
  <2>1. d # c /\ t.granted[d] = s.granted[d] /\ t.revoked[d] = s.revoked[d]
    OBVIOUS
  <2> QED BY <1>1, <2>1 DEF RevokedForHead
<1>7. ClientInv(t, us, h, p, c)
  <2>1. PICK n \in Nat :
          /\ DOMAIN ts[c] = 1 .. (n + 1) /\ DOMAIN us[c] = 1 .. n
          /\ Head(ts[c]) = ts[c][1]
          /\ \A j \in 1 .. n : /\ us[c][j] = ts[c][j + 1]
                               /\ IsConfirm(us, c, j) <=> IsConfirm(ts, c, j + 1)
                               /\ IsRequest(us, c, j) <=> IsRequest(ts, c, j + 1)
    BY RestOfQueue DEF ClientTypes
  <2>2. \A j \in 1 .. n : j + 1 \in DOMAIN ts[c] /\ j + 1 # 1
    BY <2>1
  <2>3. \A j \in 1 .. n : ~IsConfirm(us, c, j)
    BY <1>3, <2>1, <2>2
  <2>4. t.toClient[c] = <<>>
    BY <1>3
  <2>5. RevokeInv(t, us, c) /\ GrantInv(t, h, p, c)
    BY <2>4 DEF RevokeInv, GrantInv
  <2>6. ConfirmInv(t, us, h, c)
    BY <2>1, <2>3 DEF ConfirmInv
  <2>7. HeldInv(t, us, h, c)
    BY <1>2, <1>3 DEF HeldInv, Mode, NULL, EX_WR
  <2>8. RequestInv(t, us, h, p, c)
    <3>1. RequestInv(s, ts, h, p, c)
      BY <1>1 DEF ClientInv
    <3>2. \A j \in 1 .. n : IsRequest(us, c, j) =>
            /\ us[c][j].mode \in p[c] /\ us[c][j].mode >= SH_RD
            /\ us[c][j].mode > h[c] /\ us[c][j].mode > t.granted[c]
      BY <1>3, <2>1, <2>2, <3>1 DEF RequestInv
    <3>3. \A i, j \in 1 .. n : i < j => i + 1 < j + 1
      OBVIOUS
    <3>4. \A i, j \in 1 .. n : i < j /\ IsRequest(us, c, i) /\ IsRequest(us, c, j)
            => us[c][i].mode < us[c][j].mode
      BY <2>1, <2>2, <3>1, <3>3 DEF RequestInv
    <3>5. ASSUME NEW i \in DOMAIN t.reqs, t.reqs[i].client = c
          PROVE  t.reqs[i].mode \in p[c] /\ t.reqs[i].mode > t.granted[c]
      <4>1. i \in DOMAIN s.reqs /\ s.reqs[i].client = c /\ t.reqs[i].mode = s.reqs[i].mode
        BY <3>5
      <4>2. s.reqs[i].mode \in p[c] /\ s.reqs[i].mode > s.granted[c] /\ s.reqs[i].mode \in Mode
        BY <1>2, <3>1, <4>1, QueuedModes DEF RequestInv
      <4> QED BY <1>2, <1>4, <4>1, <4>2 DEF Mode, NULL, EX_WR
    <3>6. ASSUME NEW i \in DOMAIN t.reqs, NEW j \in 1 .. n,
                 t.reqs[i].client = c, IsRequest(us, c, j)
          PROVE  t.reqs[i].mode < us[c][j].mode
      <4>1. /\ i \in DOMAIN s.reqs /\ s.reqs[i].client = c /\ t.reqs[i].mode = s.reqs[i].mode
            /\ j + 1 \in DOMAIN ts[c] /\ IsRequest(ts, c, j + 1) /\ us[c][j] = ts[c][j + 1]
        BY <2>1, <2>2, <3>6
      <4> QED BY <3>1, <4>1 DEF RequestInv
    <3>7. \A i, j \in DOMAIN t.reqs : i < j /\ t.reqs[i].client = c /\ t.reqs[j].client = c
            => t.reqs[i].mode < t.reqs[j].mode
      BY <3>1 DEF RequestInv
    <3> QED BY <2>1, <3>2, <3>4, <3>5, <3>6, <3>7 DEF RequestInv
  <2>9. \A i \in 1 .. n : us[c][i].type # "RELEASE"
    BY <1>1, <2>1, <2>2 DEF ClientInv
  <2> QED BY <2>1, <2>5, <2>6, <2>7, <2>8, <2>9 DEF ClientInv
<1>8. ASSUME NEW d \in Client, d # c PROVE ClientInv(t, us, h, p, d)
  <2>1. /\ t.granted[d] = s.granted[d] /\ t.revoked[d] = s.revoked[d]
        /\ t.toClient[d] = s.toClient[d] /\ us[d] = ts[d]
    BY <1>8
  <2> QED BY <1>1, <2>1, SameClient
<1> QED BY <1>5, <1>6, <1>7, <1>8 DEF ProtocolInv

\* A client that holds nothing is freed.
LEMMA FreedProtocol ==
    ASSUME NEW s, s \in SrvType, NEW ts, NEW h, NEW p, ClientTypes(ts, h, p),
           ProtocolInv(s, ts, h, p), NEW c \in Client,
           s.granted[c] <= NONE, s.revoked[c] = NULL, s.toClient[c] = <<>>,
           NEW t, t.reqs = s.reqs, t.toClient = s.toClient,
           t.granted[c] = NULL, t.revoked[c] = NULL,
           \A d \in Client : d # c => t.granted[d] = s.granted[d] /\ t.revoked[d] = s.revoked[d]
    PROVE  ProtocolInv(t, ts, h, p)
<1>1. GrantedCompatible(s) /\ RevokedForHead(s) /\ \A d \in Client : ClientInv(s, ts, h, p, d)
  BY DEF ProtocolInv
<1>2. /\ s.reqs \in Seq(RLockRequest) /\ ts[c] \in Seq(ToServerMsg)
      /\ \A d \in Client : s.granted[d] \in Mode
      /\ h[c] \in Mode
  BY DEF SrvType, ClientTypes
<1>3. GrantedCompatible(t)
  <2> SUFFICES ASSUME NEW a \in Client, NEW b \in Client, a # b
               PROVE  Compatible(t.granted[a], t.granted[b])
    BY DEF GrantedCompatible
  <2>1. CASE a = c \/ b = c
    BY <2>1 DEF Compatible, NULL, NONE
  <2>2. CASE a # c /\ b # c
    BY <1>1, <2>2 DEF GrantedCompatible
  <2> QED BY <2>1, <2>2
<1>4. RevokedForHead(t)
  <2> SUFFICES ASSUME NEW d \in Client, t.revoked[d] # NULL
               PROVE  /\ t.reqs # <<>> /\ Head(t.reqs).client # d
                      /\ ~Compatible(t.granted[d], Head(t.reqs).mode)
                      /\ t.revoked[d] = MostCompatible(Head(t.reqs).mode)
    BY DEF RevokedForHead
  <2>1. d # c /\ t.granted[d] = s.granted[d] /\ t.revoked[d] = s.revoked[d]
    OBVIOUS
  <2> QED BY <1>1, <2>1 DEF RevokedForHead
<1>5. ClientInv(t, ts, h, p, c)
  <2>1. RevokeInv(t, ts, c) /\ GrantInv(t, h, p, c)
    BY DEF RevokeInv, GrantInv
  <2>2. ConfirmInv(t, ts, h, c)
    BY <1>1 DEF ClientInv, ConfirmInv
  <2>3. HeldInv(t, ts, h, c)
    <3>1. h[c] <= s.granted[c] \/ h[c] <= NONE
      BY <1>1 DEF ClientInv, HeldInv
    <3>2. h[c] <= NONE
      BY <1>2, <3>1 DEF Mode, NULL, NONE, EX_WR
    <3> QED BY <3>2 DEF HeldInv, NULL, NONE
  <2>4. RequestInv(t, ts, h, p, c)
    <3>1. RequestInv(s, ts, h, p, c)
      BY <1>1 DEF ClientInv
    <3>2. /\ \A i \in DOMAIN ts[c] : ts[c][i].mode \in Mode
          /\ \A i \in DOMAIN s.reqs : s.reqs[i].mode \in Mode
      BY <1>2, QueuedModes
    <3>3. \A m \in Mode : m > s.granted[c] => m > t.granted[c]
      BY <1>2 DEF Mode, NULL, EX_WR
    <3> QED BY <3>1, <3>2, <3>3 DEF RequestInv
  <2> QED BY <1>1, <2>1, <2>2, <2>3, <2>4 DEF ClientInv
<1>6. ASSUME NEW d \in Client, d # c PROVE ClientInv(t, ts, h, p, d)
  <2>1. /\ t.granted[d] = s.granted[d] /\ t.revoked[d] = s.revoked[d]
        /\ t.toClient[d] = s.toClient[d]
    BY <1>6
  <2> QED BY <1>1, <2>1, SameClient
<1> QED BY <1>3, <1>4, <1>5, <1>6 DEF ProtocolInv

\* try_free_or_process after a confirm.
LEMMA TryFreeProtocol ==
    ASSUME NEW s, NEW c \in Client, NearlySorted(s, c), NEW ts, NEW h, NEW p,
           ClientTypes(ts, h, p), ProtocolInv(s, ts, h, p),
           s.revoked[c] = NULL, s.toClient[c] = <<>>
    PROVE  ProtocolInv(TryFreeOrProcess(s, c), ts, h, p)
<1> DEFINE f == FreeClient(s, c)
           u == Reordered(s, c)
           t == TryFreeOrProcess(s, c)
<1>1. CASE s.granted[c] <= NONE
  <2>1. s \in SrvType /\ s.revoked[c] <= NONE
    BY DEF NearlySorted, NULL, NONE
  <2>2. /\ ServerInv(f) /\ f.reqs = s.reqs /\ f.toClient = s.toClient
        /\ f.granted[c] = NULL /\ f.revoked[c] = NULL
        /\ \A d \in Client : d # c => f.granted[d] = s.granted[d] /\ f.revoked[d] = s.revoked[d]
    BY FreeClientFacts
  <2>3. t = IF f.list = <<>> /\ f.reqs = <<>> THEN [f EXCEPT !.lists = FALSE]
            ELSE ProcessRequests(f)
    BY <1>1, <2>1 DEF TryFreeOrProcess, Unused, FreeLists
  <2> HIDE DEF f, t
  <2>4. ProtocolInv(f, ts, h, p)
    BY <1>1, <2>1, <2>2, FreedProtocol
  <2>5. CASE f.list = <<>> /\ f.reqs = <<>>
    <3>1. f \in SrvType
      BY <2>2 DEF ServerInv
    <3>2. t.granted = f.granted /\ t.revoked = f.revoked /\ t.reqs = f.reqs /\ t.toClient = f.toClient
      BY <2>3, <2>5, <3>1 DEF SrvType
    <3>3. \A d \in Client : ClientInv(t, ts, h, p, d)
      BY <2>4, <3>2, SameClient DEF ProtocolInv
    <3> QED BY <2>4, <3>2, <3>3 DEF ProtocolInv, GrantedCompatible, RevokedForHead, t
  <2>6. CASE ~(f.list = <<>> /\ f.reqs = <<>>)
    BY <2>2, <2>3, <2>4, <2>6, ProcessRequestsProtocol DEF t
  <2> QED BY <2>5, <2>6
<1>2. CASE ~(s.granted[c] <= NONE)
  <2>1. /\ ServerInv(u) /\ u.reqs = s.reqs /\ u.toClient = s.toClient
        /\ u.granted = s.granted /\ u.revoked = s.revoked
    BY ReorderedFacts
  <2>2. t = ProcessRequests(u)
    BY <1>2 DEF TryFreeOrProcess, Unused, FreeLists, Reordered
  <2> HIDE DEF u
  <2>3. \A d \in Client : ClientInv(u, ts, h, p, d)
    BY <2>1, SameClient DEF ProtocolInv
  <2>4. ProtocolInv(u, ts, h, p)
    BY <2>1, <2>3 DEF ProtocolInv, GrantedCompatible, RevokedForHead
  <2> QED BY <2>1, <2>2, <2>4, ProcessRequestsProtocol
<1> QED BY <1>1, <1>2

\* rlock_request, given a request of the protocol: it does not abort.
LEMMA HandleRequestProtocol ==
    ASSUME NEW s, NEW ts, NEW h, NEW p, ProtocolInv(s, ts, h, p),
           ServerInv(s), ClientTypes(ts, h, p),
           NEW us, ClientTypes(us, h, p), NEW c \in Client,
           ts[c] # <<>>, Head(ts[c]).type = "REQUEST", us[c] = Tail(ts[c]),
           \A d \in Client : d # c => us[d] = ts[d]
    PROVE  LET t == HandleRequest(s, c, Head(ts[c]).mode) IN
           ProtocolInv(t, us, h, p) /\ t.aborted = s.aborted
<1> DEFINE m == Head(ts[c]).mode
           q == Queued(s, c, m)
<1>1. s \in SrvType /\ ClientInv(s, ts, h, p, c)
  BY DEF ServerInv, ProtocolInv
<1>2. m \in Mode /\ m >= SH_RD
  <2>1. 1 \in DOMAIN ts[c] /\ ts[c][1] = Head(ts[c]) /\ ts[c] \in Seq(ToServerMsg)
    <3>1. ts[c] \in Seq(ToServerMsg)
      BY DEF ClientTypes
    <3> QED BY <3>1, TailFacts
  <2>2. IsRequest(ts, c, 1)
    BY <2>1 DEF IsRequest
  <2> QED BY <1>1, <2>1, <2>2, QueuedModes DEF ClientInv, RequestInv
<1>3. HandleRequest(s, c, m) = ProcessRequests(q)
  <2>1. ~(m < SH_RD)
    BY <1>2 DEF Mode, NULL, SH_RD, EX_WR
  <2> QED BY <2>1 DEF HandleRequest, GetLists, Queued
<1> HIDE DEF m
<1>4. /\ ServerInv(q) /\ q.reqs = Append(s.reqs, [client |-> c, mode |-> m])
      /\ q.granted = s.granted /\ q.revoked = s.revoked
      /\ q.toClient = s.toClient /\ q.aborted = s.aborted
  BY <1>2, QueuedFacts
<1> HIDE DEF q
<1>5. ProtocolInv(q, us, h, p)
  BY <1>4, QueuedProtocol DEF m
<1>6. ProtocolInv(ProcessRequests(q), us, h, p) /\ ProcessRequests(q).aborted = s.aborted
  BY <1>4, <1>5, ProcessRequestsProtocol, ProcessRequestsServer
<1> QED BY <1>3, <1>6 DEF m

\* What rlock_confirm starts from once it has taken the confirmed mode.
LEMMA ConfirmTaken ==
    ASSUME NEW s, ServerInv(s), ListsUsed(s), NEW ts, NEW us, NEW h, NEW p,
           ClientTypes(ts, h, p), ProtocolInv(s, ts, h, p), NEW c \in Client,
           ts[c] # <<>>, Head(ts[c]).type = "CONFIRM", us[c] = Tail(ts[c]),
           \A d \in Client : d # c => us[d] = ts[d],
           NEW q, q = SetModes(s, c, s.revoked[c], NULL)
    PROVE  /\ HandleConfirm(s, c, Head(ts[c]).mode) = TryFreeOrProcess(q, c)
           /\ NearlySorted(q, c) /\ q.reqs = s.reqs /\ q.toClient = s.toClient
           /\ q.toClient[c] = <<>> /\ q.revoked[c] = NULL
           /\ \A d \in Client : d # c => q.revoked[d] = s.revoked[d]
           /\ ProtocolInv(q, us, h, p) /\ q.lists /\ q.aborted = s.aborted
<1> DEFINE m == Head(ts[c]).mode
<1>1. /\ s \in SrvType /\ ClientInv(s, ts, h, p, c) /\ s.list \in Seq(Client)
      /\ s.revoked[c] \in Mode /\ s.revoked[c] < EX_WR /\ NULL \in Mode /\ NULL < EX_WR
  BY DEF ServerInv, ProtocolInv, SrvType, Mode, NULL, EX_WR
<1>2. s.toClient[c] = <<>> /\ s.revoked[c] # NULL /\ m = s.revoked[c]
  BY <1>1, ConfirmedClient
<1>3. c \in Range(s.list)
  BY <1>2 DEF ServerInv, Absent
<1>4. s.lists
  <2>1. s.list # <<>>
    BY <1>3 DEF Range
  <2> QED BY <2>1 DEF ListsUsed
<1>5. HandleConfirm(s, c, m) = TryFreeOrProcess(q, c)
  <2>1. ~(m >= EX_WR) /\ ~(m > s.revoked[c])
    BY <1>1, <1>2 DEF Mode, NULL, EX_WR
  <2> HIDE DEF m
  <2> QED BY <1>3, <1>4, <2>1 DEF HandleConfirm, SetModes
<1>6. /\ NearlySorted(q, c) /\ q.reqs = s.reqs /\ q.lists /\ q.toClient = s.toClient
      /\ q.aborted = s.aborted /\ q.granted[c] = s.revoked[c] /\ q.revoked[c] = NULL
      /\ \A d \in Client : d # c => q.granted[d] = s.granted[d] /\ q.revoked[d] = s.revoked[d]
  <2> HIDE DEF m
  <2>1. s.revoked[c] \in Mode /\ s.revoked[c] < EX_WR /\ NULL \in Mode /\ NULL < EX_WR
    BY <1>1
  <2>2. NearlySorted(q, c)
    BY <1>3, <2>1, SetModesFacts
  <2>3. q.reqs = s.reqs /\ q.lists = s.lists /\ q.toClient = s.toClient /\ q.aborted = s.aborted
    BY DEF SetModes
  <2>4. s.granted \in [Client -> Mode] /\ s.revoked \in [Client -> Mode]
    BY <1>1 DEF SrvType
  <2>5. /\ q.granted = [s.granted EXCEPT ![c] = s.revoked[c]]
        /\ q.revoked = [s.revoked EXCEPT ![c] = NULL]
    BY <1>1 DEF SetModes, SrvType
  <2>6. q.granted[c] = s.revoked[c] /\ q.revoked[c] = NULL
    BY <2>4, <2>5
  <2>7. \A d \in Client : d # c => q.granted[d] = s.granted[d] /\ q.revoked[d] = s.revoked[d]
    BY <2>4, <2>5
  <2> QED BY <1>4, <2>2, <2>3, <2>6, <2>7
<1> HIDE DEF m
<1>7. ProtocolInv(q, us, h, p)
  BY <1>6, ConfirmedProtocol
<1> QED BY <1>2, <1>5, <1>6, <1>7 DEF m

\* rlock_confirm, likewise.
LEMMA HandleConfirmProtocol ==
    ASSUME NEW s, NEW ts, NEW h, NEW p, ProtocolInv(s, ts, h, p),
           ServerInv(s), ListsUsed(s), ClientTypes(ts, h, p),
           NEW us, ClientTypes(us, h, p), NEW c \in Client,
           ts[c] # <<>>, Head(ts[c]).type = "CONFIRM", us[c] = Tail(ts[c]),
           \A d \in Client : d # c => us[d] = ts[d]
    PROVE  LET t == HandleConfirm(s, c, Head(ts[c]).mode) IN
           ProtocolInv(t, us, h, p) /\ t.aborted = s.aborted
<1> DEFINE q == SetModes(s, c, s.revoked[c], NULL)
<1>1. /\ HandleConfirm(s, c, Head(ts[c]).mode) = TryFreeOrProcess(q, c)
      /\ NearlySorted(q, c) /\ q.toClient[c] = <<>> /\ q.revoked[c] = NULL
      /\ ProtocolInv(q, us, h, p) /\ q.lists /\ q.aborted = s.aborted
  BY ConfirmTaken
<1> HIDE DEF q
<1>2. /\ ProtocolInv(TryFreeOrProcess(q, c), us, h, p)
      /\ TryFreeOrProcess(q, c).aborted = s.aborted
  BY <1>1, TryFreeProtocol, TryFreeServer
<1> QED BY <1>1, <1>2

-----------------------------------------------------------------------------
(* The clients.                                                            *)

\* A client sends a request, above what it has and what it has asked for.
LEMMA RequestedClient ==
    ASSUME NEW s, ServerInv(s), NEW ts, NEW us, NEW h, NEW p, NEW q, ClientTypes(ts, h, p),
           NEW c \in Client, ClientInv(s, ts, h, p, c), NEW m \in Mode, m >= SH_RD,
           m > h[c], \A k \in p[c] : m > k,
           us[c] = Append(ts[c], Request(m)), q[c] = p[c] \union {m}
    PROVE  ClientInv(s, us, h, q, c)
<1>1. /\ RevokeInv(s, ts, c) /\ ConfirmInv(s, ts, h, c) /\ GrantInv(s, h, p, c)
      /\ HeldInv(s, ts, h, c) /\ RequestInv(s, ts, h, p, c)
      /\ \A i \in DOMAIN ts[c] : ts[c][i].type # "RELEASE"
  BY DEF ClientInv
<1>2. PICK n \in Nat :
        /\ DOMAIN ts[c] = 1 .. n /\ DOMAIN us[c] = 1 .. (n + 1)
        /\ \A j \in 1 .. n : us[c][j] = ts[c][j]
        /\ us[c][n + 1] = Request(m)
  <2>1. ts[c] \in Seq(ToServerMsg) /\ Request(m) \in ToServerMsg
    BY DEF ClientTypes, Request, ToServerMsg
  <2> QED BY <2>1, AppendFacts
<1>3. Request(m).type = "REQUEST" /\ Request(m).mode = m
  BY DEF Request
<1>4. /\ ~IsConfirm(us, c, n + 1)
      /\ \A i \in 1 .. n : /\ IsConfirm(us, c, i) <=> IsConfirm(ts, c, i)
                           /\ IsRequest(us, c, i) <=> IsRequest(ts, c, i)
      /\ \A i \in 1 .. (n + 1) : IsConfirm(us, c, i) => i \in 1 .. n
      /\ \A i \in 1 .. n : i \in 1 .. (n + 1)
  BY <1>2, <1>3 DEF IsConfirm, IsRequest
<1>5. ConfirmSent(us, c) <=> ConfirmSent(ts, c)
  BY <1>2, <1>4 DEF ConfirmSent
<1>6. RevokeInv(s, us, c) /\ GrantInv(s, h, q, c) /\ HeldInv(s, us, h, c)
  BY <1>1, <1>5 DEF RevokeInv, GrantInv, HeldInv
<1>7. ConfirmInv(s, us, h, c)
  BY <1>1, <1>2, <1>4 DEF ConfirmInv
<1>8. RequestInv(s, us, h, q, c)
  <2>1. m > s.granted[c] \/ \E j \in 1 .. n : IsConfirm(us, c, j)
    <3>1. CASE ConfirmSent(ts, c)
      BY <1>2, <1>4, <3>1 DEF ConfirmSent
    <3>2. CASE s.granted[c] <= NONE
      <4>1. s.granted[c] \in Mode
        BY DEF ServerInv, SrvType
      <4> QED BY <3>2, <4>1 DEF Mode, NULL, NONE, SH_RD, EX_WR
    <3>3. CASE h[c] = s.granted[c]
      BY <3>3
    <3>4. CASE \E i \in DOMAIN s.toClient[c] : s.toClient[c][i] = Grant(s.granted[c])
      <4>1. PICK i \in DOMAIN s.toClient[c] : s.toClient[c][i] = Grant(s.granted[c])
        BY <3>4
      <4>2. s.granted[c] \in p[c]
        BY <1>1, <4>1 DEF GrantInv, Grant
      <4> QED BY <4>2
    <3> QED BY <1>1, <3>1, <3>2, <3>3, <3>4 DEF HeldInv
  <2>2. ASSUME NEW i \in 1 .. (n + 1), IsRequest(us, c, i)
        PROVE  /\ us[c][i].mode \in q[c] /\ us[c][i].mode >= SH_RD /\ us[c][i].mode > h[c]
               /\ us[c][i].mode > s.granted[c] \/ \E j \in 1 .. (i - 1) : IsConfirm(us, c, j)
    <3>1. CASE i = n + 1
      BY <1>2, <1>3, <2>1, <3>1
    <3>2. CASE i # n + 1
      <4>1. i \in 1 .. n /\ IsRequest(ts, c, i) /\ us[c][i] = ts[c][i]
            /\ \A j \in 1 .. (i - 1) : j \in 1 .. n
        BY <1>2, <1>4, <2>2, <3>2
      <4> QED BY <1>1, <1>2, <1>4, <4>1 DEF RequestInv
    <3> QED BY <3>1, <3>2
  <2>3. ASSUME NEW i \in 1 .. (n + 1), NEW j \in 1 .. (n + 1), i < j,
               IsRequest(us, c, i), IsRequest(us, c, j)
        PROVE  us[c][i].mode < us[c][j].mode
    <3>1. i \in 1 .. n /\ IsRequest(ts, c, i) /\ us[c][i] = ts[c][i]
      BY <1>2, <1>4, <2>3
    <3>2. ts[c][i].mode \in p[c] /\ ts[c][i].mode \in Mode
      <4>1. ts[c] \in Seq(ToServerMsg)
        BY DEF ClientTypes
      <4> QED BY <1>1, <1>2, <3>1, <4>1, QueuedModes DEF RequestInv
    <3>3. CASE j = n + 1
      BY <1>2, <1>3, <3>1, <3>2, <3>3 DEF Mode, NULL, EX_WR
    <3>4. CASE j # n + 1
      <4>1. j \in 1 .. n /\ IsRequest(ts, c, j) /\ us[c][j] = ts[c][j]
        BY <1>2, <1>4, <2>3, <3>4
      <4> QED BY <1>1, <1>2, <2>3, <3>1, <4>1 DEF RequestInv
    <3> QED BY <3>3, <3>4
  <2>4. ASSUME NEW i \in DOMAIN s.reqs, s.reqs[i].client = c
        PROVE  s.reqs[i].mode \in p[c] /\ s.reqs[i].mode > s.granted[c] /\ s.reqs[i].mode < m
    <3>1. s.reqs[i].mode \in p[c] /\ s.reqs[i].mode > s.granted[c]
      BY <1>1, <2>4 DEF RequestInv
    <3>2. s.reqs[i].mode \in Mode
      BY QueuedModes DEF ServerInv, SrvType
    <3> QED BY <3>1, <3>2 DEF Mode, NULL, EX_WR
  <2>5. ASSUME NEW i \in DOMAIN s.reqs, s.reqs[i].client = c,
               NEW j \in 1 .. (n + 1), IsRequest(us, c, j)
        PROVE  s.reqs[i].mode < us[c][j].mode
    <3>1. CASE j = n + 1
      BY <1>2, <1>3, <2>4, <2>5, <3>1
    <3>2. CASE j # n + 1
      <4>1. j \in 1 .. n /\ IsRequest(ts, c, j) /\ us[c][j] = ts[c][j]
        BY <1>2, <1>4, <2>5, <3>2
      <4> QED BY <1>1, <1>2, <2>5, <4>1 DEF RequestInv
    <3> QED BY <3>1, <3>2
  <2>6. \A i, j \in DOMAIN s.reqs : i < j /\ s.reqs[i].client = c /\ s.reqs[j].client = c
          => s.reqs[i].mode < s.reqs[j].mode
    BY <1>1 DEF RequestInv
  <2> QED BY <1>2, <2>2, <2>3, <2>4, <2>5, <2>6 DEF RequestInv
<1>9. \A i \in DOMAIN us[c] : us[c][i].type # "RELEASE"
  <2> SUFFICES ASSUME NEW i \in 1 .. (n + 1) PROVE us[c][i].type # "RELEASE"
    BY <1>2
  <2>1. CASE i = n + 1
    BY <1>2, <1>3, <2>1
  <2>2. CASE i # n + 1
    BY <1>1, <1>2, <2>2
  <2> QED BY <2>1, <2>2
<1> QED BY <1>6, <1>7, <1>8, <1>9 DEF ClientInv

\* A client receives a grant, which raises its mode.
LEMMA GrantedClient ==
    ASSUME NEW s, ServerInv(s), NEW t, NEW ts, NEW h, NEW g, NEW p, NEW q,
           ClientTypes(ts, h, p),
           NEW c \in Client, ClientInv(s, ts, h, p, c),
           s.toClient[c] # <<>>, Head(s.toClient[c]).type = "GRANT",
           NEW m, m = Head(s.toClient[c]).mode, g[c] = m, q[c] = p[c] \ {m},
           t.granted[c] = s.granted[c], t.revoked[c] = s.revoked[c], t.reqs = s.reqs,
           t.toClient[c] = Tail(s.toClient[c])
    PROVE  h[c] < m /\ m <= s.granted[c] /\ ClientInv(t, ts, g, q, c)
<1> DEFINE a == s.toClient[c]
           b == t.toClient[c]
<1>1. /\ RevokeInv(s, ts, c) /\ ConfirmInv(s, ts, h, c) /\ GrantInv(s, h, p, c)
      /\ HeldInv(s, ts, h, c) /\ RequestInv(s, ts, h, p, c)
      /\ \A i \in DOMAIN ts[c] : ts[c][i].type # "RELEASE"
  BY DEF ClientInv
<1>2. /\ s.toClient[c] \in Seq(ToClientMsg) /\ s.granted[c] \in Mode /\ h[c] \in Mode
      /\ s.reqs \in Seq(RLockRequest) /\ ts[c] \in Seq(ToServerMsg)
  BY DEF ServerInv, SrvType, ClientTypes
<1>3. PICK n \in Nat :
        /\ DOMAIN a = 1 .. (n + 1) /\ Len(a) = n + 1
        /\ DOMAIN b = 1 .. n /\ Len(b) = n
        /\ a[1] = Head(a)
        /\ \A j \in 1 .. n : b[j] = a[j + 1]
  <2> DEFINE n == Len(a) - 1
  <2>1. n \in Nat /\ Len(a) = n + 1 /\ DOMAIN a = 1 .. (n + 1) /\ a[1] = Head(a)
        /\ DOMAIN b = 1 .. n /\ Len(b) = n /\ \A j \in 1 .. n : b[j] = a[j + 1]
    BY <1>2, TailFacts
  <2> HIDE DEF n, a, b
  <2> QED BY <2>1
<1>4. \A j \in 1 .. n : j + 1 \in DOMAIN a /\ 1 < j + 1 /\ 1 \in DOMAIN a
  BY <1>3
<1>5. 1 \in DOMAIN a /\ a[1].type = "GRANT" /\ a[1].mode = m
  BY <1>3
<1>6. m <= s.granted[c] /\ m > h[c] /\ m \in p[c] /\ m \in Mode
  BY <1>1, <1>2, <1>5, QueuedModes DEF GrantInv
<1>7. \A i \in DOMAIN ts[c] : ~IsConfirm(ts, c, i)
  BY <1>1 DEF ConfirmInv
<1>8. RevokeInv(t, ts, c)
  <2> SUFFICES ASSUME NEW i \in 1 .. n, b[i].type = "REVOKE"
               PROVE  /\ i = Len(b) /\ s.revoked[c] # NULL
                      /\ b[i].mode = s.revoked[c] /\ ~ConfirmSent(ts, c)
    BY <1>3 DEF RevokeInv
  <2>1. i + 1 \in DOMAIN a /\ a[i + 1].type = "REVOKE" /\ b[i] = a[i + 1]
    BY <1>3, <1>4
  <2>2. /\ i + 1 = Len(a) /\ s.revoked[c] # NULL
        /\ a[i + 1].mode = s.revoked[c] /\ ~ConfirmSent(ts, c)
    BY <1>1, <2>1 DEF RevokeInv
  <2> QED BY <1>3, <2>1, <2>2
<1>9. ConfirmInv(t, ts, g, c)
  BY <1>7 DEF ConfirmInv
<1>10. GrantInv(t, g, q, c)
  <2>1. ASSUME NEW i \in 1 .. n, b[i].type = "GRANT"
        PROVE  b[i].mode <= s.granted[c] /\ b[i].mode > m /\ b[i].mode \in q[c]
    <3>1. i + 1 \in DOMAIN a /\ b[i] = a[i + 1] /\ 1 < i + 1
      BY <1>3, <1>4
    <3>2. a[i + 1].mode <= s.granted[c] /\ a[i + 1].mode \in p[c] /\ m < a[i + 1].mode
      BY <1>1, <1>5, <2>1, <3>1 DEF GrantInv
    <3>3. a[i + 1].mode \in Mode
      BY <1>2, <3>1, QueuedModes
    <3> HIDE DEF a, b
    <3> QED BY <1>6, <3>1, <3>2, <3>3 DEF Mode, NULL, EX_WR
  <2>2. ASSUME NEW i \in 1 .. n, NEW j \in 1 .. n, i < j, b[i].type = "GRANT", b[j].type = "GRANT"
        PROVE  b[i].mode < b[j].mode
    <3>1. /\ i + 1 \in DOMAIN a /\ j + 1 \in DOMAIN a /\ i + 1 < j + 1
          /\ b[i] = a[i + 1] /\ b[j] = a[j + 1]
      BY <1>3, <1>4, <2>2
    <3> QED BY <1>1, <2>2, <3>1 DEF GrantInv
  <2> QED BY <1>3, <2>1, <2>2 DEF GrantInv
<1>11. HeldInv(t, ts, g, c)
  <2>1. CASE s.granted[c] <= NONE \/ h[c] = s.granted[c]
    BY <1>2, <1>6, <2>1 DEF HeldInv, Mode, NULL, EX_WR
  <2>2. CASE \E i \in DOMAIN a : a[i] = Grant(s.granted[c])
    <3>1. PICK i \in 1 .. (n + 1) : a[i] = Grant(s.granted[c])
      BY <1>3, <2>2
    <3>2. CASE i = 1
      BY <1>5, <1>6, <3>1, <3>2 DEF HeldInv, Grant
    <3>3. CASE i # 1
      <4>1. i - 1 \in DOMAIN b /\ b[i - 1] = a[i]
        <5>1. i - 1 \in 1 .. n /\ (i - 1) + 1 = i
          BY <3>3
        <5> QED BY <1>3, <5>1
      <4> QED BY <1>6, <3>1, <4>1 DEF HeldInv
    <3> QED BY <3>2, <3>3
  <2>3. ~ConfirmSent(ts, c)
    BY <1>7 DEF ConfirmSent
  <2> QED BY <1>1, <2>1, <2>2, <2>3 DEF HeldInv
<1>12. RequestInv(t, ts, g, q, c)
  <2>1. ASSUME NEW i \in DOMAIN ts[c], IsRequest(ts, c, i)
        PROVE  /\ ts[c][i].mode \in q[c] /\ ts[c][i].mode >= SH_RD /\ ts[c][i].mode > m
               /\ ts[c][i].mode > s.granted[c]
    <3>1. ts[c][i].mode \in p[c] /\ ts[c][i].mode >= SH_RD /\ ts[c][i].mode > s.granted[c]
      <4>1. DOMAIN ts[c] = 1 .. Len(ts[c]) /\ Len(ts[c]) \in Nat
        BY <1>2
      <4>2. \A j \in 1 .. (i - 1) : j \in DOMAIN ts[c]
        BY <4>1
      <4> QED BY <1>1, <1>7, <2>1, <4>2 DEF RequestInv
    <3>2. ts[c][i].mode \in Mode
      BY <1>2, QueuedModes
    <3>3. ts[c][i].mode > m
      <4> DEFINE x == ts[c][i].mode
      <4>1. x > s.granted[c] /\ x \in Mode
        BY <3>1, <3>2
      <4> HIDE DEF x
      <4>2. x > m
        BY <1>2, <1>6, <4>1 DEF Mode, NULL, EX_WR
      <4> QED BY <4>2 DEF x
    <3>4. ts[c][i].mode \in p[c] \ {m}
      BY <1>6, <3>1, <3>2, <3>3 DEF Mode, NULL, EX_WR
    <3> QED BY <3>1, <3>3, <3>4
  <2>2. ASSUME NEW i \in DOMAIN s.reqs, s.reqs[i].client = c
        PROVE  s.reqs[i].mode \in q[c] /\ s.reqs[i].mode > s.granted[c]
    <3>1. s.reqs[i].mode \in p[c] /\ s.reqs[i].mode > s.granted[c]
      BY <1>1, <2>2 DEF RequestInv
    <3>2. s.reqs[i].mode \in Mode
      BY <1>2, QueuedModes
    <3> DEFINE x == s.reqs[i].mode
    <3>3. x \in p[c] /\ x > s.granted[c] /\ x \in Mode
      BY <3>1, <3>2
    <3> HIDE DEF x
    <3>4. x # m
      BY <1>2, <1>6, <3>3 DEF Mode, NULL, EX_WR
    <3>5. x \in q[c]
      BY <1>6, <3>3, <3>4
    <3> QED BY <3>3, <3>5 DEF x
  <2> QED BY <1>1, <2>1, <2>2 DEF RequestInv
<1> QED BY <1>1, <1>6, <1>8, <1>9, <1>10, <1>11, <1>12 DEF ClientInv

\* A client receives a revoke: it is the last message to it, the client has
\* all that was granted, and it gives up just what is asked.
LEMMA RevokeReceived ==
    ASSUME NEW s, ServerInv(s), NEW ts, NEW h, NEW p, ClientTypes(ts, h, p),
           ProtocolInv(s, ts, h, p), NEW c \in Client,
           s.toClient[c] # <<>>, Head(s.toClient[c]).type = "REVOKE",
           NEW m, m = Head(s.toClient[c]).mode
    PROVE  /\ Tail(s.toClient[c]) = <<>>
           /\ m = s.revoked[c] /\ m # NULL /\ m \in Mode
           /\ ~ConfirmSent(ts, c) /\ h[c] = s.granted[c] /\ m < h[c]
           /\ s.reqs # <<>> /\ Head(s.reqs).client # c
           /\ m = MostCompatible(Head(s.reqs).mode)
           /\ Head(s.reqs).mode \in Mode /\ Head(s.reqs).mode >= SH_RD
<1> DEFINE a == s.toClient[c]
           hm == Head(s.reqs).mode
<1>1. /\ s.toClient[c] \in Seq(ToClientMsg) /\ s.granted[c] \in Mode /\ s.revoked[c] \in Mode
      /\ s.reqs \in Seq(RLockRequest)
  BY DEF ServerInv, SrvType
<1>2. ClientInv(s, ts, h, p, c) /\ RevokedForHead(s)
  BY DEF ProtocolInv
<1>3. 1 \in DOMAIN a /\ a[1].type = "REVOKE" /\ a[1].mode = m /\ DOMAIN a = 1 .. Len(a)
      /\ Len(Tail(a)) = Len(a) - 1 /\ Tail(a) \in Seq(ToClientMsg)
  BY <1>1, TailFacts
<1>4. 1 = Len(a) /\ s.revoked[c] # NULL /\ m = s.revoked[c] /\ ~ConfirmSent(ts, c)
  BY <1>2, <1>3 DEF ClientInv, RevokeInv
<1>5. /\ s.reqs # <<>> /\ Head(s.reqs).client # c
      /\ ~Compatible(s.granted[c], hm) /\ m = MostCompatible(hm)
  BY <1>2, <1>4 DEF RevokedForHead
<1>6. hm \in Mode /\ hm >= SH_RD
  <2>1. 1 \in DOMAIN s.reqs /\ s.reqs[1] = Head(s.reqs)
    BY <1>1, <1>5, TailFacts
  <2> QED BY <1>1, <2>1, QueuedModes DEF ServerInv
<1>7. ~(s.granted[c] <= m)
  <2> HIDE DEF hm
  <2> QED BY <1>1, <1>5, <1>6, MostCompatibleFacts
<1>8. h[c] = s.granted[c]
  <2>1. ~(s.granted[c] <= NONE)
    <3> HIDE DEF hm
    <3> QED BY <1>5 DEF Compatible
  <2>2. \A i \in DOMAIN a : a[i] # Grant(s.granted[c])
    BY <1>3, <1>4 DEF Grant
  <2> QED BY <1>2, <1>4, <2>1, <2>2 DEF ClientInv, HeldInv
<1>9. Tail(a) = <<>>
  <2> DEFINE b == Tail(a)
  <2>1. Len(b) = 0 /\ b \in Seq(ToClientMsg)
    BY <1>3, <1>4
  <2> HIDE DEF b
  <2>2. b = <<>>
    BY <2>1
  <2> QED BY <2>2 DEF b
<1> QED BY <1>1, <1>4, <1>5, <1>6, <1>7, <1>8, <1>9 DEF Mode, NULL, EX_WR

LEMMA RevokedReplies ==
    ASSUME NEW s, ServerInv(s), NEW t, NEW ts, NEW us, NEW h, NEW g, NEW p,
           ClientTypes(ts, h, p), ProtocolInv(s, ts, h, p), NEW c \in Client,
           s.toClient[c] # <<>>, Head(s.toClient[c]).type = "REVOKE",
           NEW m, m = Head(s.toClient[c]).mode, g[c] = m,
           us[c] = Append(ts[c], Confirm(m)),
           t.granted[c] = s.granted[c], t.revoked[c] = s.revoked[c], t.reqs = s.reqs,
           t.toClient[c] = Tail(s.toClient[c])
    PROVE  ClientInv(t, us, g, p, c)
<1>1. ClientInv(s, ts, h, p, c) /\ ts[c] \in Seq(ToServerMsg) /\ h[c] \in Mode
      /\ s.granted[c] \in Mode
  BY DEF ProtocolInv, ClientTypes, ServerInv, SrvType
<1>2. /\ t.toClient[c] = <<>> /\ m = s.revoked[c] /\ m # NULL /\ m \in Mode
      /\ ~ConfirmSent(ts, c) /\ h[c] = s.granted[c] /\ m < h[c]
  BY RevokeReceived
<1>3. PICK n \in Nat :
        /\ DOMAIN ts[c] = 1 .. n /\ DOMAIN us[c] = 1 .. (n + 1)
        /\ \A j \in 1 .. n : us[c][j] = ts[c][j]
        /\ us[c][n + 1] = Confirm(m)
  <2>1. Confirm(m) \in ToServerMsg
    BY <1>2 DEF Confirm, ToServerMsg
  <2> QED BY <1>1, <2>1, AppendFacts
<1>4. Confirm(m).type = "CONFIRM" /\ Confirm(m).mode = m
  BY DEF Confirm
<1>5. /\ IsConfirm(us, c, n + 1) /\ ~IsRequest(us, c, n + 1)
      /\ \A i \in 1 .. (n + 1) : IsConfirm(us, c, i) => i = n + 1
      /\ \A i \in 1 .. (n + 1) : IsRequest(us, c, i) =>
           i \in DOMAIN ts[c] /\ IsRequest(ts, c, i) /\ us[c][i] = ts[c][i]
  <2>1. \A i \in 1 .. (n + 1) : i = n + 1 \/ i \in 1 .. n
    OBVIOUS
  <2>2. \A i \in 1 .. n : ~IsConfirm(ts, c, i)
    BY <1>2, <1>3 DEF ConfirmSent
  <2> QED BY <1>3, <1>4, <2>1, <2>2 DEF IsConfirm, IsRequest
<1>6. RevokeInv(t, us, c) /\ GrantInv(t, g, p, c)
  <2>1. \A i \in DOMAIN t.toClient[c] : FALSE
    <3>1. DOMAIN << >> = {}
      OBVIOUS
    <3>2. DOMAIN t.toClient[c] = DOMAIN << >>
      BY <1>2
    <3> QED BY <3>1, <3>2
  <2> QED BY <2>1 DEF RevokeInv, GrantInv
<1>7. ConfirmInv(t, us, g, c)
  BY <1>2, <1>3, <1>4, <1>5 DEF ConfirmInv
<1>8. HeldInv(t, us, g, c)
  <2>1. ConfirmSent(us, c)
    BY <1>3, <1>5 DEF ConfirmSent
  <2>2. g[c] <= t.granted[c]
    BY <1>1, <1>2 DEF Mode, NULL, EX_WR
  <2> QED BY <2>1, <2>2 DEF HeldInv
<1>9. RequestInv(t, us, g, p, c)
  <2>1. RequestInv(s, ts, h, p, c)
    BY <1>1 DEF ClientInv
  <2>2. ASSUME NEW i \in 1 .. (n + 1), IsRequest(us, c, i)
        PROVE  /\ us[c][i].mode \in p[c] /\ us[c][i].mode >= SH_RD /\ us[c][i].mode > m
               /\ us[c][i].mode > s.granted[c]
    <3>1. i \in DOMAIN ts[c] /\ IsRequest(ts, c, i) /\ us[c][i] = ts[c][i]
      BY <1>5, <2>2
    <3>2. ts[c][i].mode \in p[c] /\ ts[c][i].mode >= SH_RD /\ ts[c][i].mode > h[c]
      BY <2>1, <3>1 DEF RequestInv
    <3>3. ts[c][i].mode \in Mode
      BY <1>1, <3>1, QueuedModes
    <3> QED BY <1>1, <1>2, <3>1, <3>2, <3>3 DEF Mode, NULL, EX_WR
  <2>3. \A i, j \in 1 .. (n + 1) : i < j /\ IsRequest(us, c, i) /\ IsRequest(us, c, j)
          => us[c][i].mode < us[c][j].mode
    BY <1>5, <2>1 DEF RequestInv
  <2>4. \A i \in DOMAIN s.reqs : \A j \in 1 .. (n + 1) :
          s.reqs[i].client = c /\ IsRequest(us, c, j) => s.reqs[i].mode < us[c][j].mode
    BY <1>5, <2>1 DEF RequestInv
  <2> QED BY <1>3, <2>1, <2>2, <2>3, <2>4 DEF RequestInv
<1>10. \A i \in DOMAIN us[c] : us[c][i].type # "RELEASE"
  <2> SUFFICES ASSUME NEW i \in 1 .. (n + 1) PROVE us[c][i].type # "RELEASE"
    BY <1>3
  <2>1. CASE i = n + 1
    BY <1>3, <1>4, <2>1
  <2>2. CASE i # n + 1
    <3>1. i \in 1 .. n
      BY <2>2
    <3> QED BY <1>1, <1>3, <3>1 DEF ClientInv
  <2> QED BY <2>1, <2>2
<1> QED BY <1>6, <1>7, <1>8, <1>9, <1>10 DEF ClientInv

-----------------------------------------------------------------------------
(* The invariant of the whole protocol.                                    *)

LEMMA SafeInvInit == Init => SafeInv
<1> SUFFICES ASSUME Init PROVE SafeInv
  OBVIOUS
<1>1. SrvInv
  BY SrvInvInit
<1>2. /\ srv.granted = [c \in Client |-> NULL] /\ srv.revoked = [c \in Client |-> NULL]
      /\ srv.toClient = [c \in Client |-> <<>>] /\ srv.reqs = <<>> /\ srv.aborted = FALSE
      /\ toServer = [c \in Client |-> <<>>] /\ held = [c \in Client |-> NULL]
  BY DEF Init, SrvInit
<1>3. NeverAborts
  BY <1>2 DEF NeverAborts
<1>4. GrantedCompatible(srv) /\ RevokedForHead(srv)
  BY <1>2 DEF GrantedCompatible, RevokedForHead, Compatible, NULL, NONE
<1>5. ASSUME NEW c \in Client PROVE ClientInv(srv, toServer, held, pend, c)
  <2>1. /\ \A i \in DOMAIN toServer[c] : FALSE
        /\ \A i \in DOMAIN srv.toClient[c] : FALSE
        /\ \A i \in DOMAIN srv.reqs : FALSE
    <3>1. \A i \in DOMAIN << >> : FALSE
      OBVIOUS
    <3>2. toServer[c] = <<>> /\ srv.toClient[c] = <<>> /\ srv.reqs = <<>>
      BY <1>2
    <3> QED BY <3>1, <3>2
  <2>2. srv.granted[c] = NULL /\ held[c] = NULL
    BY <1>2
  <2>3. HeldInv(srv, toServer, held, c)
    BY <2>2 DEF HeldInv, NULL, NONE
  <2>4. RevokeInv(srv, toServer, c) /\ ConfirmInv(srv, toServer, held, c)
        /\ GrantInv(srv, held, pend, c)
    BY <2>1 DEF RevokeInv, ConfirmInv, GrantInv
  <2>5. RequestInv(srv, toServer, held, pend, c)
    BY <2>1 DEF RequestInv
  <2> QED BY <2>1, <2>3, <2>4, <2>5 DEF ClientInv
<1> QED BY <1>1, <1>3, <1>4, <1>5 DEF SafeInv, ProtocolInv

\* What a step needs to know of the state it starts in.
LEMMA SafeInvFacts ==
    ASSUME SafeInv
    PROVE  /\ TypeOK /\ ServerInv(srv) /\ ListsUsed(srv) /\ ~srv.aborted
           /\ ClientTypes(toServer, held, pend)
           /\ ProtocolInv(srv, toServer, held, pend)
BY DEF SafeInv, SrvInv, NeverAborts, TypeOK, ClientTypes

\* The server handles a request, or a confirm, of a client.
LEMMA RecvRequestSafe ==
    ASSUME SafeInv, SrvInv', NEW c \in Client, RecvRequest(c)
    PROVE  SafeInv'
<1> DEFINE t == HandleRequest(srv, c, Head(toServer[c]).mode)
<1>1. Receive(c, "REQUEST", t)
  BY DEF RecvRequest
<1>2. /\ toServer[c] # <<>> /\ Head(toServer[c]).type = "REQUEST"
      /\ toServer'[c] = Tail(toServer[c])
      /\ \A d \in Client : d # c => toServer'[d] = toServer[d]
      /\ srv' = t /\ held' = held /\ pend' = pend
      /\ toServer' \in [Client -> Seq(ToServerMsg)]
  BY <1>1, SafeInvFacts, ReceiveFacts
<1>3. ClientTypes(toServer', held, pend)
  BY <1>2, SafeInvFacts DEF ClientTypes
<1>4. ProtocolInv(t, toServer', held, pend) /\ t.aborted = srv.aborted
  <2>1. /\ ServerInv(srv)
        /\ ClientTypes(toServer, held, pend) /\ ClientTypes(toServer', held, pend)
        /\ ProtocolInv(srv, toServer, held, pend)
        /\ toServer[c] # <<>> /\ Head(toServer[c]).type = "REQUEST"
        /\ toServer'[c] = Tail(toServer[c])
        /\ \A d \in Client : d # c => toServer'[d] = toServer[d]
    BY <1>2, <1>3, SafeInvFacts
  <2> HIDE DEF t
  <2>2. t = HandleRequest(srv, c, Head(toServer[c]).mode)
    BY DEF t
  <2> DEFINE us == toServer'
  <2> HIDE DEF us
  <2>3. /\ ClientTypes(us, held, pend) /\ us[c] = Tail(toServer[c])
        /\ \A d \in Client : d # c => us[d] = toServer[d]
    BY <2>1 DEF us
  <2>4. ProtocolInv(t, us, held, pend) /\ t.aborted = srv.aborted
    BY <2>1, <2>2, <2>3, HandleRequestProtocol
  <2> QED BY <2>4 DEF us
<1> HIDE DEF t
<1> QED BY <1>2, <1>4, SafeInvFacts DEF SafeInv, NeverAborts

LEMMA RecvConfirmSafe ==
    ASSUME SafeInv, SrvInv', NEW c \in Client, RecvConfirm(c)
    PROVE  SafeInv'
<1> DEFINE t == HandleConfirm(srv, c, Head(toServer[c]).mode)
<1>1. Receive(c, "CONFIRM", t)
  BY DEF RecvConfirm
<1>2. /\ toServer[c] # <<>> /\ Head(toServer[c]).type = "CONFIRM"
      /\ toServer'[c] = Tail(toServer[c])
      /\ \A d \in Client : d # c => toServer'[d] = toServer[d]
      /\ srv' = t /\ held' = held /\ pend' = pend
      /\ toServer' \in [Client -> Seq(ToServerMsg)]
  BY <1>1, SafeInvFacts, ReceiveFacts
<1>3. ClientTypes(toServer', held, pend)
  BY <1>2, SafeInvFacts DEF ClientTypes
<1>4. ProtocolInv(t, toServer', held, pend) /\ t.aborted = srv.aborted
  <2>1. /\ ServerInv(srv) /\ ListsUsed(srv)
        /\ ClientTypes(toServer, held, pend) /\ ClientTypes(toServer', held, pend)
        /\ ProtocolInv(srv, toServer, held, pend)
        /\ toServer[c] # <<>> /\ Head(toServer[c]).type = "CONFIRM"
        /\ toServer'[c] = Tail(toServer[c])
        /\ \A d \in Client : d # c => toServer'[d] = toServer[d]
    BY <1>2, <1>3, SafeInvFacts
  <2> HIDE DEF t
  <2>2. t = HandleConfirm(srv, c, Head(toServer[c]).mode)
    BY DEF t
  <2> DEFINE us == toServer'
  <2> HIDE DEF us
  <2>3. /\ ClientTypes(us, held, pend) /\ us[c] = Tail(toServer[c])
        /\ \A d \in Client : d # c => us[d] = toServer[d]
    BY <2>1 DEF us
  <2>4. ProtocolInv(t, us, held, pend) /\ t.aborted = srv.aborted
    BY <2>1, <2>2, <2>3, HandleConfirmProtocol
  <2> QED BY <2>4 DEF us
<1> HIDE DEF t
<1> QED BY <1>2, <1>4, SafeInvFacts DEF SafeInv, NeverAborts

\* No release is ever under way.
LEMMA NoReleaseReceived ==
    ASSUME SafeInv, NEW c \in Client, RecvRelease(c)
    PROVE  FALSE
<1>1. toServer[c] # <<>> /\ Head(toServer[c]).type = "RELEASE" /\ toServer[c] \in Seq(ToServerMsg)
  <2>1. Receive(c, "RELEASE", HandleRelease(srv, c, Head(toServer[c]).mode))
    BY DEF RecvRelease
  <2> QED BY <2>1, SafeInvFacts DEF Receive, TypeOK
<1>2. 1 \in DOMAIN toServer[c] /\ toServer[c][1] = Head(toServer[c])
  BY <1>1, TailFacts
<1>3. \A i \in DOMAIN toServer[c] : toServer[c][i].type # "RELEASE"
  BY SafeInvFacts DEF ProtocolInv, ClientInv
<1> QED BY <1>1, <1>2, <1>3

\* A message a client has read is gone, and nothing else of the server changes.
LEMMA PoppedSafe ==
    ASSUME SafeInv, SrvInv', NEW c \in Client, srv.toClient[c] # <<>>, PopToClient(c),
           \A d \in Client : d # c =>
               toServer'[d] = toServer[d] /\ held'[d] = held[d] /\ pend'[d] = pend[d],
           /\ srv'.granted[c] = srv.granted[c] /\ srv'.revoked[c] = srv.revoked[c]
           /\ srv'.reqs = srv.reqs /\ srv'.toClient[c] = Tail(srv.toClient[c])
           => ClientInv(srv', toServer', held', pend', c)
    PROVE  SafeInv'
<1>1. srv \in SrvType
  BY SafeInvFacts DEF ServerInv
<1>2. srv' = [srv EXCEPT !.toClient[c] = Tail(@)]
  BY DEF PopToClient
<1>3. /\ srv'.reqs = srv.reqs /\ srv'.granted = srv.granted /\ srv'.revoked = srv.revoked
      /\ srv'.aborted = srv.aborted /\ srv'.toClient[c] = Tail(srv.toClient[c])
      /\ \A d \in Client : d # c => srv'.toClient[d] = srv.toClient[d]
  BY <1>1, <1>2, PopFacts
<1>4. ProtocolInv(srv, toServer, held, pend) /\ ~srv.aborted
  BY SafeInvFacts
<1>5. GrantedCompatible(srv') /\ RevokedForHead(srv')
  BY <1>3, <1>4 DEF ProtocolInv, GrantedCompatible, RevokedForHead
<1>6. ASSUME NEW d \in Client PROVE ClientInv(srv', toServer', held', pend', d)
  <2>1. CASE d = c
    BY <1>3, <2>1
  <2>2. CASE d # c
    <3>1. ClientInv(srv, toServer, held, pend, d)
      BY <1>4 DEF ProtocolInv
    <3>2. /\ srv'.granted[d] = srv.granted[d] /\ srv'.revoked[d] = srv.revoked[d]
          /\ srv'.toClient[d] = srv.toClient[d]
          /\ toServer'[d] = toServer[d] /\ held'[d] = held[d] /\ pend'[d] = pend[d]
      BY <1>3, <2>2
    <3> QED BY <1>3, <3>1, <3>2, SameClient
  <2> QED BY <2>1, <2>2
<1> QED BY <1>3, <1>4, <1>5, <1>6 DEF SafeInv, ProtocolInv, NeverAborts

\* A client's grant raises its mode, and no other client's.
LEMMA RecvGrantSafe ==
    ASSUME SafeInv, NEW c \in Client, RecvGrant(c)
    PROVE  /\ held[c] < held'[c] /\ held'[c] <= srv.granted[c]
           /\ \A d \in Client : d # c => held'[d] = held[d]
           /\ SrvInv' => SafeInv'
<1> DEFINE m == Head(srv.toClient[c]).mode
<1>1. /\ srv.toClient[c] # <<>> /\ Head(srv.toClient[c]).type = "GRANT"
      /\ held' = [held EXCEPT ![c] = m] /\ pend' = [pend EXCEPT ![c] = @ \ {m}]
      /\ PopToClient(c) /\ toServer' = toServer
  BY DEF RecvGrant, NextMessage
<1>2. /\ ServerInv(srv) /\ ClientTypes(toServer, held, pend)
      /\ ClientInv(srv, toServer, held, pend, c)
  BY SafeInvFacts DEF ProtocolInv
<1> HIDE DEF m
<1>3. /\ held'[c] = m /\ pend'[c] = pend[c] \ {m}
      /\ \A d \in Client : d # c => held'[d] = held[d] /\ pend'[d] = pend[d]
  BY <1>1, <1>2 DEF ClientTypes
<1>4. ASSUME NEW t, t.granted[c] = srv.granted[c], t.revoked[c] = srv.revoked[c],
             t.reqs = srv.reqs, t.toClient[c] = Tail(srv.toClient[c])
      PROVE  /\ held[c] < m /\ m <= srv.granted[c]
             /\ ClientInv(t, toServer, held', pend', c)
  <2>1. /\ srv.toClient[c] # <<>> /\ Head(srv.toClient[c]).type = "GRANT"
        /\ m = Head(srv.toClient[c]).mode
        /\ held'[c] = m /\ pend'[c] = pend[c] \ {m}
    BY <1>1, <1>3 DEF m
  <2> QED BY <1>2, <1>4, <2>1, GrantedClient
<1>5. /\ srv'.granted[c] = srv.granted[c] /\ srv'.revoked[c] = srv.revoked[c]
      /\ srv'.reqs = srv.reqs /\ srv'.toClient[c] = Tail(srv.toClient[c])
  BY <1>1, <1>2, PopFacts DEF ServerInv, PopToClient
<1>6. held[c] < m /\ m <= srv.granted[c] /\ ClientInv(srv', toServer, held', pend', c)
  BY <1>4, <1>5
<1>7. ASSUME SrvInv' PROVE SafeInv'
  BY <1>1, <1>3, <1>6, <1>7, PoppedSafe
<1> QED BY <1>3, <1>6, <1>7

\* A revoke takes a client's mode down to what the head request tolerates.
LEMMA RecvRevokeSafe ==
    ASSUME SafeInv, NEW c \in Client, RecvRevoke(c)
    PROVE  /\ held'[c] < held[c] /\ held[c] = srv.granted[c]
           /\ held'[c] = srv.revoked[c] /\ srv.revoked[c] # NULL
           /\ \A d \in Client : d # c => held'[d] = held[d]
           /\ SrvInv' => SafeInv'
<1> DEFINE m == Head(srv.toClient[c]).mode
           left == IF held[c] < m THEN held[c] ELSE m
<1>1. /\ srv.toClient[c] # <<>> /\ Head(srv.toClient[c]).type = "REVOKE"
      /\ held' = [held EXCEPT ![c] = left]
      /\ toServer' = [toServer EXCEPT ![c] = Append(@, Confirm(left))]
      /\ PopToClient(c) /\ pend' = pend
  BY DEF RecvRevoke, NextMessage
<1>2. /\ ServerInv(srv) /\ ClientTypes(toServer, held, pend)
      /\ ProtocolInv(srv, toServer, held, pend)
  BY SafeInvFacts
<1>3. /\ m = srv.revoked[c] /\ m # NULL /\ m \in Mode /\ held[c] = srv.granted[c] /\ m < held[c]
  BY <1>1, <1>2, RevokeReceived
<1>4. left = m
  <2>1. held[c] \in Mode
    BY <1>2 DEF ClientTypes
  <2> HIDE DEF m
  <2> QED BY <1>3, <2>1 DEF Mode, NULL, EX_WR
<1> HIDE DEF left, m
<1>5. /\ held'[c] = m /\ toServer'[c] = Append(toServer[c], Confirm(m))
      /\ \A d \in Client : d # c => held'[d] = held[d] /\ toServer'[d] = toServer[d]
  BY <1>1, <1>2, <1>4 DEF ClientTypes
<1>6. /\ srv'.granted[c] = srv.granted[c] /\ srv'.revoked[c] = srv.revoked[c]
      /\ srv'.reqs = srv.reqs /\ srv'.toClient[c] = Tail(srv.toClient[c])
  BY <1>1, <1>2, PopFacts DEF ServerInv, PopToClient
<1>7. ClientInv(srv', toServer', held', pend, c)
  <2>1. /\ srv.toClient[c] # <<>> /\ Head(srv.toClient[c]).type = "REVOKE"
        /\ m = Head(srv.toClient[c]).mode
        /\ held'[c] = m /\ toServer'[c] = Append(toServer[c], Confirm(m))
    BY <1>1, <1>5 DEF m
  <2> QED BY <1>2, <1>6, <2>1, RevokedReplies
<1>8. ASSUME SrvInv' PROVE SafeInv'
  BY <1>1, <1>5, <1>7, <1>8, PoppedSafe
<1> QED BY <1>3, <1>5, <1>8

LEMMA SendRequestSafe ==
    ASSUME SafeInv, SrvInv', NoReleases, NEW c \in Client, SendRequest(c)
    PROVE  SafeInv'
<1>1. PICK m \in RequestModes :
        /\ m > held[c] /\ \A k \in pend[c] : m > k
        /\ toServer' = [toServer EXCEPT ![c] = Append(@, Request(m))]
        /\ pend' = [pend EXCEPT ![c] = @ \union {m}]
        /\ srv' = srv /\ held' = held
  BY DEF SendRequest
<1>2. m \in Mode /\ m >= SH_RD
  BY ModesAssumption DEF NoReleases, Mode, NULL, NONE, SH_RD, EX_WR
<1>3. /\ ServerInv(srv) /\ ClientTypes(toServer, held, pend) /\ ~srv.aborted
      /\ GrantedCompatible(srv) /\ RevokedForHead(srv)
      /\ \A d \in Client : ClientInv(srv, toServer, held, pend, d)
  BY SafeInvFacts DEF ProtocolInv
<1>4. /\ toServer'[c] = Append(toServer[c], Request(m)) /\ pend'[c] = pend[c] \union {m}
      /\ \A d \in Client : d # c => toServer'[d] = toServer[d] /\ pend'[d] = pend[d]
  BY <1>1, <1>3 DEF ClientTypes
<1>5. ASSUME NEW d \in Client PROVE ClientInv(srv, toServer', held, pend', d)
  <2>1. CASE d = c
    <3>1. ClientInv(srv, toServer', held, pend', c)
      BY <1>1, <1>2, <1>3, <1>4, RequestedClient
    <3> QED BY <2>1, <3>1
  <2>2. CASE d # c
    BY <1>3, <1>4, <2>2, SameClient
  <2> QED BY <2>1, <2>2
<1> QED BY <1>1, <1>3, <1>5 DEF SafeInv, ProtocolInv, NeverAborts

LEMMA SafeInvNext ==
    ASSUME NoReleases
    PROVE  SafeInv /\ [Next]_vars => SafeInv'
<1> SUFFICES ASSUME SafeInv, [Next]_vars PROVE SafeInv'
  OBVIOUS
<1>1. SrvInv'
  BY SrvInvNext DEF SafeInv
<1>2. ASSUME NEW c \in Client, RecvRequest(c) PROVE SafeInv'
  BY <1>1, <1>2, RecvRequestSafe
<1>3. ASSUME NEW c \in Client, RecvConfirm(c) PROVE SafeInv'
  BY <1>1, <1>3, RecvConfirmSafe
<1>4. ASSUME NEW c \in Client, RecvRelease(c) PROVE SafeInv'
  BY <1>4, NoReleaseReceived
<1>5. ASSUME NEW c \in Client, RecvGrant(c) PROVE SafeInv'
  BY <1>1, <1>5, RecvGrantSafe
<1>6. ASSUME NEW c \in Client, RecvRevoke(c) PROVE SafeInv'
  BY <1>1, <1>6, RecvRevokeSafe
<1>7. ASSUME NEW c \in Client, SendRequest(c) PROVE SafeInv'
  BY <1>1, <1>7, SendRequestSafe
<1>8. ASSUME NEW c \in Client, SendRelease(c) PROVE SafeInv'
  BY <1>8 DEF SendRelease, NoReleases
<1>9. CASE UNCHANGED vars
  BY <1>1, <1>9 DEF vars, SafeInv, NeverAborts
<1> QED
  BY <1>2, <1>3, <1>4, <1>5, <1>6, <1>7, <1>8, <1>9 DEF Next, ServerStep, ClientRecv

LEMMA SafeInvariant ==
    ASSUME NoReleases
    PROVE  Spec => []SafeInv
<1>1. SafeInv /\ [Next]_vars => SafeInv'
  BY SafeInvNext
<1> QED BY <1>1, SafeInvInit, PTL DEF Spec

-----------------------------------------------------------------------------
(* Theorems: what a set of clients that do not release can rely on.        *)

\* Modes granted to two clients are compatible, and so is what they use.
LEMMA UseIsExclusive == SafeInv => MutualExclusion
<1> SUFFICES ASSUME SafeInv, NEW c \in Client, NEW d \in Client, c # d
             PROVE  Compatible(held[c], held[d])
  BY DEF MutualExclusion
<1>1. /\ srv.granted[c] \in Mode /\ srv.granted[d] \in Mode
      /\ held[c] \in Mode /\ held[d] \in Mode
  BY SafeInvFacts DEF ServerInv, SrvType, ClientTypes
<1>2. Compatible(srv.granted[c], srv.granted[d])
  BY SafeInvFacts DEF ProtocolInv, GrantedCompatible
<1>3. /\ held[c] <= srv.granted[c] \/ held[c] <= NONE
      /\ held[d] <= srv.granted[d] \/ held[d] <= NONE
  BY SafeInvFacts DEF ProtocolInv, ClientInv, HeldInv
<1>4. Compatible(srv.granted[d], held[c])
  BY <1>1, <1>2, <1>3, CompatibleMonotone
<1> QED BY <1>1, <1>3, <1>4, CompatibleMonotone

LEMMA UseStaysExclusive == SafeInv' => MutualExclusion'
BY UseIsExclusive, PTL

\* No two clients may use conflicting modes of the key, whatever is in flight.
THEOREM MutuallyExclusive ==
    ASSUME NoReleases
    PROVE  Spec => []MutualExclusion
BY SafeInvariant, UseIsExclusive, PTL

\* No request or confirm makes a handler of the server fail.
THEOREM ServerNeverAborts ==
    ASSUME NoReleases
    PROVE  Spec => []NeverAborts
<1>1. SafeInv => NeverAborts
  BY DEF SafeInv
<1> QED BY <1>1, SafeInvariant, PTL

\* The request that a revoke was sent for is one its client waits for.
LEMMA HeadIsPending ==
    ASSUME SafeInv, srv.reqs # <<>>
    PROVE  /\ Head(srv.reqs).client \in Client
           /\ Head(srv.reqs).mode \in pend[Head(srv.reqs).client]
           /\ Head(srv.reqs).mode \in Mode
<1>1. srv.reqs \in Seq(RLockRequest)
  BY SafeInvFacts DEF ServerInv, SrvType
<1>2. 1 \in DOMAIN srv.reqs /\ srv.reqs[1] = Head(srv.reqs)
  BY <1>1, TailFacts
<1>3. Head(srv.reqs).client \in Client /\ Head(srv.reqs).mode \in Mode
  BY <1>1, <1>2, QueuedModes
<1>4. RequestInv(srv, toServer, held, pend, Head(srv.reqs).client)
  BY <1>3, SafeInvFacts DEF ProtocolInv, ClientInv
<1> QED BY <1>2, <1>3, <1>4 DEF RequestInv

\* Only a grant or a revoke changes what a client may use.
LEMMA HeldChanges ==
    ASSUME NoReleases, [Next]_vars, held' # held
    PROVE  \E c \in Client : RecvGrant(c) \/ RecvRevoke(c)
<1>1. ASSUME NEW c \in Client, ServerStep(c) PROVE held' = held
  BY <1>1 DEF ServerStep, RecvRequest, RecvConfirm, RecvRelease, Receive
<1>2. ASSUME NEW c \in Client, SendRequest(c) PROVE held' = held
  BY <1>2 DEF SendRequest
<1>3. ASSUME NEW c \in Client, SendRelease(c) PROVE FALSE
  BY <1>3 DEF SendRelease, NoReleases
<1> QED BY <1>1, <1>2, <1>3 DEF Next, ClientRecv, vars

\* A client only loses a mode to a conflicting request of another client that
\* waits for it, and keeps the most that request tolerates.
THEOREM LosesOnlyWhatIsAsked ==
    ASSUME NoReleases
    PROVE  Spec => LosesNoMoreThanAsked
<1> DEFINE Asked(c) == held'[c] < held[c] =>
        \E d \in Client \ {c} : \E m \in pend[d] :
            /\ ~Compatible(held[c], m)
            /\ \A k \in Mode : Compatible(k, m) => k <= held'[c]
<1>1. ASSUME SafeInv, NEW c \in Client, NEW d \in Client, RecvGrant(d) PROVE Asked(c)
  <2>1. held[d] < held'[d] /\ (c # d => held'[c] = held[c]) /\ held'[d] <= srv.granted[d]
    BY <1>1, RecvGrantSafe
  <2>2. /\ held[c] \in Mode /\ held[d] \in Mode /\ srv.granted[d] \in Mode
        /\ held'[d] \in Mode
    <3>1. held[c] \in Mode /\ held[d] \in Mode /\ srv.granted[d] \in Mode
      BY <1>1, SafeInvFacts DEF ClientTypes, ServerInv, SrvType
    <3>2. srv.toClient[d] \in Seq(ToClientMsg) /\ srv.toClient[d] # <<>>
      BY <1>1, SafeInvFacts DEF ServerInv, SrvType, RecvGrant, NextMessage
    <3>3. Head(srv.toClient[d]).mode \in Mode
      BY <3>2, TailFacts, QueuedModes
    <3>4. held' = [held EXCEPT ![d] = Head(srv.toClient[d]).mode]
      BY <1>1 DEF RecvGrant
    <3>5. held \in [Client -> Mode]
      BY <1>1, SafeInvFacts DEF ClientTypes
    <3> QED BY <3>1, <3>3, <3>4, <3>5
  <2>3. ~(held'[c] < held[c])
    <3>1. CASE c = d
      BY <2>1, <2>2, <3>1 DEF Mode, NULL, EX_WR
    <3>2. CASE c # d
      BY <2>1, <2>2, <3>2 DEF Mode, NULL, EX_WR
    <3> QED BY <3>1, <3>2
  <2> QED BY <2>3
<1>2. ASSUME SafeInv, NEW c \in Client, NEW d \in Client, RecvRevoke(d) PROVE Asked(c)
  <2>1. /\ held'[d] < held[d] /\ held[d] = srv.granted[d]
        /\ held'[d] = srv.revoked[d] /\ srv.revoked[d] # NULL
        /\ c # d => held'[c] = held[c]
    BY <1>2, RecvRevokeSafe
  <2>2. held[c] \in Mode
    BY <1>2, SafeInvFacts DEF ClientTypes
  <2>3. CASE c # d
    <3>1. ~(held'[c] < held[c])
      BY <2>1, <2>2, <2>3 DEF Mode, NULL, EX_WR
    <3> QED BY <3>1
  <2>4. CASE c = d
    <3> DEFINE e == Head(srv.reqs).client
               m == Head(srv.reqs).mode
    <3>1. /\ srv.reqs # <<>> /\ e # c /\ ~Compatible(srv.granted[c], m)
          /\ srv.revoked[c] = MostCompatible(m)
      BY <1>2, <2>1, <2>4, SafeInvFacts DEF ProtocolInv, RevokedForHead
    <3>2. e \in Client /\ m \in pend[e] /\ m \in Mode
      BY <1>2, <3>1, HeadIsPending
    <3>3. m >= SH_RD
      <4>1. srv.reqs \in Seq(RLockRequest)
        BY <1>2, SafeInvFacts DEF ServerInv, SrvType
      <4>2. 1 \in DOMAIN srv.reqs /\ srv.reqs[1] = Head(srv.reqs)
        BY <3>1, <4>1, TailFacts
      <4> QED BY <1>2, <4>2, SafeInvFacts DEF ServerInv
    <3> HIDE DEF e, m
    <3>4. \A k \in Mode : Compatible(k, m) => k <= MostCompatible(m)
      BY <3>2, <3>3, MostCompatibleFacts
    <3>5. /\ e \in Client \ {c} /\ m \in pend[e] /\ ~Compatible(held[c], m)
          /\ \A k \in Mode : Compatible(k, m) => k <= held'[c]
      BY <2>1, <2>4, <3>1, <3>2, <3>4
    <3> QED BY <3>5
  <2> QED BY <2>3, <2>4
<1>3. ASSUME SafeInv, [Next]_vars PROVE [\A c \in Client : Asked(c)]_vars
  <2>1. CASE held' = held
    <3>1. ASSUME NEW c \in Client PROVE Asked(c)
      <4>1. held[c] \in Mode
        BY <1>3, SafeInvFacts DEF ClientTypes
      <4>2. ~(held'[c] < held[c])
        BY <2>1, <4>1 DEF Mode, NULL, EX_WR
      <4> QED BY <4>2
    <3> QED BY <3>1
  <2>2. CASE held' # held
    <3>1. PICK d \in Client : RecvGrant(d) \/ RecvRevoke(d)
      BY <1>3, <2>2, HeldChanges
    <3> HIDE DEF Asked
    <3> QED BY <1>1, <1>2, <1>3, <3>1
  <2> QED BY <2>1, <2>2
<1>4. Spec => [][\A c \in Client : Asked(c)]_vars
  <2> HIDE DEF Asked
  <2> QED BY <1>3, SafeInvariant, PTL DEF Spec
<1> QED BY <1>4 DEF LosesNoMoreThanAsked

-----------------------------------------------------------------------------
(* What is kept of each request and each revoke.                           *)

\* The kinds of messages.
LEMMA MessageKinds ==
    ASSUME NEW m, NEW k
    PROVE  /\ Request(m) # Confirm(k) /\ Grant(m) # Revoke(k)
           /\ Request(m) = Request(k) <=> m = k
           /\ Confirm(m) = Confirm(k) <=> m = k
           /\ Grant(m) = Grant(k) <=> m = k
           /\ Revoke(m) = Revoke(k) <=> m = k
<1>1. /\ Request(m).type = "REQUEST" /\ Confirm(k).type = "CONFIRM"
      /\ Grant(m).type = "GRANT" /\ Revoke(k).type = "REVOKE"
  BY DEF Request, Confirm, Grant, Revoke
<1>2. /\ Request(m).mode = m /\ Request(k).mode = k /\ Confirm(m).mode = m /\ Confirm(k).mode = k
      /\ Grant(m).mode = m /\ Grant(k).mode = k /\ Revoke(m).mode = m /\ Revoke(k).mode = k
  BY DEF Request, Confirm, Grant, Revoke
<1> QED BY <1>1, <1>2

\* A step that takes nothing of client c's away keeps its accounts.
LEMMA SameAccounts ==
    ASSUME NEW s, NEW t, NEW ts, NEW us, NEW p, NEW q, NEW c,
           Answering(s, ts, c), \A m \in p[c] : Placed(s, ts, c, m),
           t.revoked[c] = s.revoked[c], q[c] \subseteq p[c],
           ToSet(ts[c]) \subseteq ToSet(us[c]), ToSet(s.reqs) \subseteq ToSet(t.reqs),
           ToSet(s.toClient[c]) \subseteq ToSet(t.toClient[c])
    PROVE  Answering(t, us, c) /\ \A m \in q[c] : Placed(t, us, c, m)
BY Zenon DEF Answering, Placed

-----------------------------------------------------------------------------
(* An iteration of process_requests.                                       *)

LEMMA SendRevokesAccounts ==
    ASSUME NEW s, ServerInv(s), NEW ts, NEW p, AccountInv(s, ts, p), s.reqs # <<>>
    PROVE  AccountInv(SendRevokes(s, Head(s.reqs)), ts, p)
<1> DEFINE r == Head(s.reqs)
           m == MostCompatible(r.mode)
           rv == Revokees(s, r)
           t == SendRevokes(s, r)
<1>1. s \in SrvType /\ r \in RLockRequest /\ m \in Mode
  <2>1. s \in SrvType /\ s.reqs \in Seq(RLockRequest)
    BY DEF ServerInv, SrvType
  <2> QED BY <2>1 DEF MostCompatible, Mode, NULL, NONE, SH_RD, EX_WR
<1>2. /\ t.reqs = s.reqs
      /\ \A c \in Client : c \in rv =>
           t.revoked[c] = m /\ t.toClient[c] = Append(s.toClient[c], Revoke(m))
      /\ \A c \in Client : c \notin rv =>
           t.revoked[c] = s.revoked[c] /\ t.toClient[c] = s.toClient[c]
  BY <1>1, SendRevokesFacts
<1> HIDE DEF r, m, rv, t
<1>3. ASSUME NEW c \in Client PROVE Answering(t, ts, c) /\ \A k \in p[c] : Placed(t, ts, c, k)
  <2>1. Answering(s, ts, c) /\ \A k \in p[c] : Placed(s, ts, c, k)
    BY DEF AccountInv
  <2>2. CASE c \in rv
    <3>1. s.toClient[c] \in Seq(ToClientMsg) /\ Revoke(m) \in ToClientMsg
      BY <1>1 DEF SrvType, Revoke, ToClientMsg
    <3>2. ToSet(Append(s.toClient[c], Revoke(m))) = ToSet(s.toClient[c]) \union {Revoke(m)}
      BY <3>1, AppendElements
    <3>3. ToSet(t.toClient[c]) = ToSet(s.toClient[c]) \union {Revoke(m)} /\ t.revoked[c] = m
      BY <1>2, <2>2, <3>2, Zenon
    <3> QED BY <1>2, <2>1, <3>3 DEF Answering, Placed
  <2>3. CASE c \notin rv
    BY <1>2, <2>1, <2>3, SameAccounts
  <2> QED BY <2>2, <2>3
<1> QED BY <1>3 DEF AccountInv, t, r

\* The request that is served turns into a grant.
LEMMA ServedAccounts ==
    ASSUME NEW s, ServerInv(s), NEW ts, NEW h, NEW p, ProtocolInv(s, ts, h, p),
           AccountInv(s, ts, p), s.reqs # <<>>, ~SawIncompat(s, Head(s.reqs)),
           NEW r, r = Head(s.reqs), NEW t, t = Served(s)
    PROVE  AccountInv(t, ts, p)
<1> DEFINE w == GrantSent(s, r)
<1>1. /\ s \in SrvType /\ s.reqs \in Seq(RLockRequest)
      /\ r \in RLockRequest /\ r.client \in Client /\ r.mode \in Mode
      /\ 1 \in DOMAIN s.reqs /\ s.reqs[1] = r
  <2>1. s \in SrvType /\ s.reqs \in Seq(RLockRequest)
    BY DEF ServerInv, SrvType
  <2>2. 1 \in DOMAIN s.reqs /\ s.reqs[1] = r
    BY <2>1, TailFacts
  <2> QED BY <2>1, <2>2, QueuedModes
<1>2. s.granted[r.client] # r.mode
  <2>1. RequestInv(s, ts, h, p, r.client)
    BY <1>1 DEF ProtocolInv, ClientInv
  <2>2. r.mode > s.granted[r.client]
    BY <1>1, <2>1 DEF RequestInv
  <2>3. s.granted[r.client] \in Mode
    BY <1>1 DEF SrvType
  <2> QED BY <1>1, <2>2, <2>3 DEF Mode, NULL, EX_WR
<1>3. /\ t.reqs = Tail(s.reqs) /\ t.revoked = s.revoked
      /\ t.toClient[r.client] = GrantSent(s, r)
      /\ \A d \in Client : d # r.client => t.toClient[d] = s.toClient[d]
  <2>1. t.reqs = Tail(s.reqs) /\ t.revoked = s.revoked
    BY ServedFacts
  <2>2. t.toClient[r.client] = GrantSent(s, r)
    BY <1>2, ServedFacts
  <2>3. \A d \in Client : d # r.client => t.toClient[d] = s.toClient[d]
    BY ServedFacts
  <2> QED BY <2>1, <2>2, <2>3
<1>4. ToSet(s.reqs) \subseteq ToSet(t.reqs) \union {r}
  BY <1>1, <1>3, TailElements
<1>5. ToSet(t.toClient[r.client]) = ToSet(s.toClient[r.client]) \union {Grant(r.mode)}
  <2> DEFINE q == s.toClient[r.client]
             g == Grant(r.mode)
  <2>1. q \in Seq(ToClientMsg) /\ g \in ToClientMsg
    BY <1>1 DEF SrvType, Grant, ToClientMsg
  <2>2. t.toClient[r.client] = Append(q, g)
    BY <1>3 DEF GrantSent
  <2> HIDE DEF q, g
  <2>3. ToSet(Append(q, g)) = ToSet(q) \union {g}
    BY <2>1, AppendElements
  <2>4. ToSet(t.toClient[r.client]) = ToSet(q) \union {g}
    BY <2>2, <2>3, Zenon
  <2> QED BY <2>4 DEF q, g
<1>6. ASSUME NEW c \in Client PROVE Answering(t, ts, c) /\ \A k \in p[c] : Placed(t, ts, c, k)
  <2>1. Answering(s, ts, c) /\ \A k \in p[c] : Placed(s, ts, c, k)
    BY DEF AccountInv
  <2>2. ToSet(s.toClient[c]) \subseteq ToSet(t.toClient[c])
    BY <1>3, <1>5
  <2>3. Answering(t, ts, c)
    BY <1>3, <2>1, <2>2 DEF Answering
  <2>4. ASSUME NEW k \in p[c] PROVE Placed(t, ts, c, k)
    <3>1. CASE Request(k) \in ToSet(ts[c]) \/ Grant(k) \in ToSet(s.toClient[c])
      BY <2>2, <3>1 DEF Placed
    <3>2. CASE [client |-> c, mode |-> k] \in ToSet(s.reqs)
      <4>1. CASE [client |-> c, mode |-> k] = r
        <5>1. r.client = c /\ r.mode = k
          BY <4>1
        <5> QED BY <1>5, <5>1 DEF Placed
      <4>2. CASE [client |-> c, mode |-> k] # r
        BY <1>4, <3>2, <4>2 DEF Placed
      <4> QED BY <4>1, <4>2
    <3> QED BY <2>1, <3>1, <3>2 DEF Placed
  <2> QED BY <2>3, <2>4
<1> QED BY <1>6 DEF AccountInv

LEMMA ProcessHeadAccounts ==
    ASSUME NEW s, ServerInv(s), NEW ts, NEW h, NEW p, ProtocolInv(s, ts, h, p),
           AccountInv(s, ts, p)
    PROVE  AccountInv(ProcessHead(s), ts, p)
<1>1. CASE s.reqs = <<>>
  BY <1>1 DEF ProcessHead, FreeHeadRequest
<1>2. CASE s.reqs # <<>> /\ SawIncompat(s, Head(s.reqs))
  <2>1. ProcessHead(s) = SendRevokes(s, Head(s.reqs))
    BY <1>2 DEF ProcessHead, FreeHeadRequest
  <2> QED BY <1>2, <2>1, SendRevokesAccounts
<1>3. CASE s.reqs # <<>> /\ ~SawIncompat(s, Head(s.reqs))
  <2>1. ProcessHead(s) = Served(s)
    BY <1>3 DEF ProcessHead, FreeHeadRequest, Served
  <2> QED BY <1>3, <2>1, ServedAccounts
<1> QED BY <1>1, <1>2, <1>3

\* The whole loop keeps the accounts.
LEMMA ProcessRequestsAccounts ==
    ASSUME NEW s, ServerInv(s), NEW ts, NEW h, NEW p, ClientTypes(ts, h, p),
           ProtocolInv(s, ts, h, p), AccountInv(s, ts, p)
    PROVE  AccountInv(ProcessRequests(s), ts, p)
<1> DEFINE N == Len(s.reqs)
<1>1. s.reqs \in Seq(RLockRequest) /\ N \in Nat
  BY DEF ServerInv, SrvType
<1>2. PICK f : Iterates(s, f) /\ ProcessRequests(s) = f[N]
  BY <1>1, ProcessRequestsIterates
<1>3. f[0] = s /\ \A n \in 1 .. N : f[n] = ProcessHead(f[n - 1])
  BY <1>2 DEF Iterates
<1> DEFINE P(n) == ServerInv(f[n]) /\ ProtocolInv(f[n], ts, h, p) /\ AccountInv(f[n], ts, p)
           Bad == {n \in 0 .. N : ~P(n)}
<1>4. P(0)
  BY <1>3
<1>5. ASSUME NEW n \in 1 .. N, P(n - 1) PROVE P(n)
  <2>1. f[n] = ProcessHead(f[n - 1])
    BY <1>3
  <2> QED BY <1>5, <2>1, ProcessHeadServerInv, ProcessHeadProtocol, ProcessHeadAccounts
<1> HIDE DEF P
<1>6. Bad = {}
  <2> SUFFICES ASSUME Bad # {} PROVE FALSE
    OBVIOUS
  <2>1. Bad \subseteq Nat
    BY <1>1
  <2>2. PICK n \in Bad : \A j \in Bad : n <= j
    <3> HIDE DEF Bad
    <3> QED BY <2>1, LeastNat
  <2>3. n \in 1 .. N /\ ~P(n)
    BY <1>1, <1>4, <2>2
  <2>4. P(n - 1)
    BY <1>1, <2>2, <2>3
  <2> QED BY <1>5, <2>3, <2>4
<1> QED BY <1>1, <1>2, <1>6 DEF P
-----------------------------------------------------------------------------
(* The handlers.                                                           *)

\* A request moves from the connection to the server's queue.
LEMMA HandleRequestAccounts ==
    ASSUME NEW s, ServerInv(s), NEW ts, NEW us, NEW h, NEW p,
           ClientTypes(ts, h, p), ClientTypes(us, h, p),
           ProtocolInv(s, ts, h, p), AccountInv(s, ts, p), NEW c \in Client,
           ts[c] # <<>>, Head(ts[c]).type = "REQUEST", us[c] = Tail(ts[c]),
           \A d \in Client : d # c => us[d] = ts[d]
    PROVE  AccountInv(HandleRequest(s, c, Head(ts[c]).mode), us, p)
<1> DEFINE m == Head(ts[c]).mode
           q == Queued(s, c, m)
           r == [client |-> c, mode |-> m]
<1>1. s \in SrvType /\ ClientInv(s, ts, h, p, c) /\ ts[c] \in Seq(ToServerMsg)
  BY DEF ServerInv, ProtocolInv, ClientTypes
<1>2. m \in Mode /\ m >= SH_RD /\ Head(ts[c]) = Request(m)
  <2>1. 1 \in DOMAIN ts[c] /\ ts[c][1] = Head(ts[c])
    BY <1>1, TailFacts
  <2>2. IsRequest(ts, c, 1)
    BY <2>1 DEF IsRequest
  <2>3. Head(ts[c]) \in ToServerMsg
    BY <1>1, <2>1, QueuedModes
  <2>4. Head(ts[c]) = Request(m)
    BY <2>3 DEF ToServerMsg, Request
  <2> QED BY <1>1, <2>1, <2>2, <2>4, QueuedModes DEF ClientInv, RequestInv
<1>3. HandleRequest(s, c, m) = ProcessRequests(q)
  <2>1. ~(m < SH_RD)
    BY <1>2 DEF Mode, NULL, SH_RD, EX_WR
  <2> QED BY <2>1 DEF HandleRequest, GetLists, Queued
<1> HIDE DEF m
<1>4. /\ ServerInv(q) /\ q.reqs = Append(s.reqs, r)
      /\ q.granted = s.granted /\ q.revoked = s.revoked /\ q.toClient = s.toClient
  BY <1>2, QueuedFacts
<1> HIDE DEF q
<1>5. ProtocolInv(q, us, h, p)
  BY <1>4, QueuedProtocol DEF m
<1>6. ToSet(q.reqs) = ToSet(s.reqs) \union {r}
  <2>1. s.reqs \in Seq(RLockRequest) /\ r \in RLockRequest
    BY <1>1, <1>2 DEF SrvType, RLockRequest
  <2> QED BY <1>4, <2>1, AppendElements
<1>7. ToSet(ts[c]) \subseteq ToSet(us[c]) \union {Request(m)}
  BY <1>1, <1>2, TailElements
<1>8. ASSUME NEW d \in Client PROVE Answering(q, us, d) /\ \A k \in p[d] : Placed(q, us, d, k)
  <2>1. Answering(s, ts, d) /\ \A k \in p[d] : Placed(s, ts, d, k)
    BY DEF AccountInv
  <2>2. CASE d # c
    BY <1>4, <1>6, <2>1, <2>2, SameAccounts
  <2>3. CASE d = c
    <3>1. Answering(q, us, c)
      <4>1. \A k : Confirm(k) # Request(m)
        BY MessageKinds
      <4> QED BY <1>4, <1>7, <2>1, <2>3, <4>1 DEF Answering
    <3>2. ASSUME NEW k \in p[c] PROVE Placed(q, us, c, k)
      <4>1. Request(k) = Request(m) => k = m
        BY MessageKinds
      <4> QED BY <1>4, <1>6, <1>7, <2>1, <2>3, <4>1 DEF Placed
    <3> QED BY <2>3, <3>1, <3>2
  <2> QED BY <2>2, <2>3
<1>9. AccountInv(ProcessRequests(q), us, p)
  <2>1. AccountInv(q, us, p)
    BY <1>8 DEF AccountInv
  <2> QED BY <1>4, <1>5, <2>1, ProcessRequestsAccounts
<1> QED BY <1>3, <1>9 DEF m

\* A confirm ends the revoke it answers.
LEMMA ConfirmedAccounts ==
    ASSUME NEW s, ServerInv(s), NEW ts, NEW us, NEW h, NEW p, ClientTypes(ts, h, p),
           AccountInv(s, ts, p), NEW c \in Client,
           ts[c] # <<>>, Head(ts[c]).type = "CONFIRM", us[c] = Tail(ts[c]),
           \A d \in Client : d # c => us[d] = ts[d], NEW t,
           t.reqs = s.reqs, t.toClient = s.toClient, t.revoked[c] = NULL,
           \A d \in Client : d # c => t.revoked[d] = s.revoked[d]
    PROVE  AccountInv(t, us, p)
<1> SUFFICES ASSUME NEW d \in Client
             PROVE  Answering(t, us, d) /\ \A k \in p[d] : Placed(t, us, d, k)
  BY DEF AccountInv
<1>1. Answering(s, ts, d) /\ \A k \in p[d] : Placed(s, ts, d, k)
  BY DEF AccountInv
<1>2. CASE d # c
  BY <1>1, <1>2, SameAccounts
<1>3. CASE d = c
  <2>1. ts[c] \in Seq(ToServerMsg)
    BY DEF ClientTypes
  <2>2. ToSet(ts[c]) \subseteq ToSet(us[c]) \union {Head(ts[c])}
    BY <2>1, TailElements
  <2>3. \A k : Request(k) # Head(ts[c])
    BY DEF Request
  <2>4. \A k \in p[c] : Placed(t, us, c, k)
    BY <1>1, <1>3, <2>2, <2>3 DEF Placed
  <2> QED BY <1>3, <2>4 DEF Answering
<1> QED BY <1>2, <1>3

\* try_free_or_process after a confirm.
LEMMA TryFreeAccounts ==
    ASSUME NEW s, NEW c \in Client, NearlySorted(s, c), NEW ts, NEW h, NEW p,
           ClientTypes(ts, h, p), ProtocolInv(s, ts, h, p), AccountInv(s, ts, p),
           s.revoked[c] = NULL, s.toClient[c] = <<>>
    PROVE  AccountInv(TryFreeOrProcess(s, c), ts, p)
<1> DEFINE f == FreeClient(s, c)
           u == Reordered(s, c)
           t == TryFreeOrProcess(s, c)
<1>1. CASE s.granted[c] <= NONE
  <2>1. s \in SrvType /\ s.revoked[c] <= NONE
    BY DEF NearlySorted, NULL, NONE
  <2>2. /\ ServerInv(f) /\ f.reqs = s.reqs /\ f.toClient = s.toClient
        /\ f.granted[c] = NULL /\ f.revoked[c] = NULL
        /\ \A d \in Client : d # c => f.granted[d] = s.granted[d] /\ f.revoked[d] = s.revoked[d]
    BY FreeClientFacts
  <2>3. t = IF f.list = <<>> /\ f.reqs = <<>> THEN [f EXCEPT !.lists = FALSE]
            ELSE ProcessRequests(f)
    BY <1>1, <2>1 DEF TryFreeOrProcess, Unused, FreeLists
  <2> HIDE DEF f, t
  <2>4. ProtocolInv(f, ts, h, p)
    BY <1>1, <2>1, <2>2, FreedProtocol
  <2>5. AccountInv(f, ts, p)
    <3>1. \A d \in Client : f.revoked[d] = s.revoked[d]
      BY <2>2
    <3> QED BY <2>2, <3>1 DEF AccountInv, Answering, Placed
  <2>6. CASE f.list = <<>> /\ f.reqs = <<>>
    <3>1. f \in SrvType
      BY <2>2 DEF ServerInv
    <3>2. t.revoked = f.revoked /\ t.reqs = f.reqs /\ t.toClient = f.toClient
      BY <2>3, <2>6, <3>1 DEF SrvType
    <3>3. AccountInv(t, ts, p)
      BY <2>5, <3>2 DEF AccountInv, Answering, Placed
    <3> QED BY <3>3 DEF t
  <2>7. CASE ~(f.list = <<>> /\ f.reqs = <<>>)
    BY <2>2, <2>3, <2>4, <2>5, <2>7, ProcessRequestsAccounts DEF t
  <2> QED BY <2>6, <2>7
<1>2. CASE ~(s.granted[c] <= NONE)
  <2>1. /\ ServerInv(u) /\ u.reqs = s.reqs /\ u.toClient = s.toClient
        /\ u.granted = s.granted /\ u.revoked = s.revoked
    BY ReorderedFacts
  <2>2. t = ProcessRequests(u)
    BY <1>2 DEF TryFreeOrProcess, Unused, FreeLists, Reordered
  <2> HIDE DEF u
  <2>3. \A d \in Client : ClientInv(u, ts, h, p, d)
    BY <2>1, SameClient DEF ProtocolInv
  <2>4. ProtocolInv(u, ts, h, p)
    BY <2>1, <2>3 DEF ProtocolInv, GrantedCompatible, RevokedForHead
  <2>5. AccountInv(u, ts, p)
    BY <2>1 DEF AccountInv, Answering, Placed
  <2> QED BY <2>1, <2>2, <2>4, <2>5, ProcessRequestsAccounts
<1> QED BY <1>1, <1>2

LEMMA HandleConfirmAccounts ==
    ASSUME NEW s, ServerInv(s), ListsUsed(s), NEW ts, NEW us, NEW h, NEW p,
           ClientTypes(ts, h, p), ClientTypes(us, h, p),
           ProtocolInv(s, ts, h, p), AccountInv(s, ts, p), NEW c \in Client,
           ts[c] # <<>>, Head(ts[c]).type = "CONFIRM", us[c] = Tail(ts[c]),
           \A d \in Client : d # c => us[d] = ts[d]
    PROVE  AccountInv(HandleConfirm(s, c, Head(ts[c]).mode), us, p)
<1> DEFINE q == SetModes(s, c, s.revoked[c], NULL)
<1>1. /\ HandleConfirm(s, c, Head(ts[c]).mode) = TryFreeOrProcess(q, c)
      /\ NearlySorted(q, c) /\ q.reqs = s.reqs /\ q.toClient = s.toClient
      /\ q.toClient[c] = <<>> /\ q.revoked[c] = NULL
      /\ \A d \in Client : d # c => q.revoked[d] = s.revoked[d]
      /\ ProtocolInv(q, us, h, p)
  BY ConfirmTaken
<1> HIDE DEF q
<1>2. AccountInv(q, us, p)
  BY <1>1, ConfirmedAccounts
<1> QED BY <1>1, <1>2, TryFreeAccounts

-----------------------------------------------------------------------------
(* The steps.                                                              *)

\* A message that a client has read is gone, and what it answers is there.
LEMMA RecvGrantAccounts ==
    ASSUME KeptInv, NEW c \in Client, RecvGrant(c)
    PROVE  AccountInv(srv', toServer', pend')
<1> DEFINE m == Head(srv.toClient[c]).mode
<1>1. /\ srv.toClient[c] # <<>> /\ Head(srv.toClient[c]).type = "GRANT"
      /\ pend' = [pend EXCEPT ![c] = @ \ {m}] /\ PopToClient(c) /\ toServer' = toServer
  BY DEF RecvGrant, NextMessage
<1>2. /\ srv \in SrvType /\ pend \in [Client -> SUBSET Mode]
      /\ srv.toClient[c] \in Seq(ToClientMsg)
  BY SafeInvFacts DEF KeptInv, ServerInv, ClientTypes, SrvType
<1>3. Head(srv.toClient[c]) = Grant(m)
  <2>1. Head(srv.toClient[c]) \in ToClientMsg
    BY <1>1, <1>2, TailFacts, QueuedModes
  <2> QED BY <1>1, <2>1 DEF ToClientMsg, Grant
<1> HIDE DEF m
<1>4. /\ srv'.reqs = srv.reqs /\ srv'.revoked = srv.revoked
      /\ srv'.toClient[c] = Tail(srv.toClient[c])
      /\ \A d \in Client : d # c => srv'.toClient[d] = srv.toClient[d]
  BY <1>1, <1>2, PopFacts DEF PopToClient
<1>5. ToSet(srv.toClient[c]) \subseteq ToSet(srv'.toClient[c]) \union {Grant(m)}
  BY <1>1, <1>2, <1>3, <1>4, TailElements
<1> SUFFICES ASSUME NEW d \in Client
             PROVE  /\ Answering(srv', toServer', d)
                    /\ \A k \in pend'[d] : Placed(srv', toServer', d, k)
  BY DEF AccountInv
<1>6. Answering(srv, toServer, d) /\ \A k \in pend[d] : Placed(srv, toServer, d, k)
  BY DEF KeptInv, AccountInv
<1>7. CASE d # c
  <2>1. srv'.revoked[d] = srv.revoked[d] /\ srv'.toClient[d] = srv.toClient[d]
        /\ pend'[d] = pend[d] /\ srv'.reqs = srv.reqs
    BY <1>1, <1>2, <1>4, <1>7
  <2> QED BY <1>1, <1>6, <2>1 DEF Answering, Placed
<1>8. CASE d = c
  <2>1. pend'[c] = pend[c] \ {m}
    BY <1>1, <1>2
  <2>2. Answering(srv', toServer', c)
    <3>1. \A k : Revoke(k) # Grant(m)
      BY MessageKinds
    <3> QED BY <1>1, <1>4, <1>5, <1>6, <1>8, <3>1 DEF Answering
  <2>3. ASSUME NEW k \in pend[c], k # m PROVE Placed(srv', toServer', c, k)
    <3>1. Grant(k) # Grant(m)
      BY <2>3, MessageKinds
    <3> QED BY <1>1, <1>4, <1>5, <1>6, <1>8, <3>1 DEF Placed
  <2> QED BY <1>8, <2>1, <2>2, <2>3
<1> QED BY <1>7, <1>8

LEMMA RecvRevokeAccounts ==
    ASSUME KeptInv, NEW c \in Client, RecvRevoke(c)
    PROVE  AccountInv(srv', toServer', pend')
<1> DEFINE m == Head(srv.toClient[c]).mode
           left == IF held[c] < m THEN held[c] ELSE m
<1>1. /\ srv.toClient[c] # <<>> /\ Head(srv.toClient[c]).type = "REVOKE"
      /\ toServer' = [toServer EXCEPT ![c] = Append(@, Confirm(left))]
      /\ PopToClient(c) /\ pend' = pend
  BY DEF RecvRevoke, NextMessage
<1>2. /\ srv \in SrvType /\ toServer \in [Client -> Seq(ToServerMsg)]
      /\ srv.toClient[c] \in Seq(ToClientMsg) /\ held[c] \in Mode /\ held[c] = srv.granted[c]
  <2>1. /\ ServerInv(srv) /\ ClientTypes(toServer, held, pend)
        /\ ProtocolInv(srv, toServer, held, pend)
    BY SafeInvFacts DEF KeptInv
  <2>2. held[c] = srv.granted[c]
    BY <1>1, <2>1, RevokeReceived
  <2> QED BY <2>1, <2>2 DEF ServerInv, ClientTypes, SrvType
<1>3. m = srv.revoked[c] /\ m \in Mode /\ m < held[c]
  <2>1. /\ ServerInv(srv) /\ ClientTypes(toServer, held, pend)
        /\ ProtocolInv(srv, toServer, held, pend)
    BY SafeInvFacts DEF KeptInv
  <2> QED BY <1>1, <2>1, RevokeReceived
<1> HIDE DEF m
<1>4. left = m
  BY <1>2, <1>3 DEF Mode, NULL, EX_WR
<1> HIDE DEF left
<1>5. /\ srv'.reqs = srv.reqs /\ srv'.revoked = srv.revoked
      /\ srv'.toClient[c] = Tail(srv.toClient[c])
      /\ \A d \in Client : d # c => srv'.toClient[d] = srv.toClient[d]
  BY <1>1, <1>2, PopFacts DEF PopToClient
<1>6. ToSet(srv.toClient[c]) \subseteq ToSet(srv'.toClient[c]) \union {Head(srv.toClient[c])}
  BY <1>1, <1>2, <1>5, TailElements
<1>7. /\ toServer'[c] = Append(toServer[c], Confirm(m))
      /\ \A d \in Client : d # c => toServer'[d] = toServer[d]
  BY <1>1, <1>2, <1>4
<1>8. ToSet(toServer'[c]) = ToSet(toServer[c]) \union {Confirm(m)}
  <2>1. toServer[c] \in Seq(ToServerMsg) /\ Confirm(m) \in ToServerMsg
    BY <1>2, <1>3 DEF Confirm, ToServerMsg
  <2> QED BY <1>7, <2>1, AppendElements
<1> SUFFICES ASSUME NEW d \in Client
             PROVE  /\ Answering(srv', toServer', d)
                    /\ \A k \in pend'[d] : Placed(srv', toServer', d, k)
  BY DEF AccountInv
<1>9. Answering(srv, toServer, d) /\ \A k \in pend[d] : Placed(srv, toServer, d, k)
  BY DEF KeptInv, AccountInv
<1>10. CASE d # c
  BY <1>1, <1>5, <1>7, <1>9, <1>10 DEF Answering, Placed
<1>11. CASE d = c
  <2>1. Answering(srv', toServer', c)
    BY <1>3, <1>5, <1>8 DEF Answering
  <2>2. ASSUME NEW k \in pend[c] PROVE Placed(srv', toServer', c, k)
    <3>1. Grant(k) # Head(srv.toClient[c])
      BY <1>1 DEF Grant
    <3> QED BY <1>5, <1>6, <1>8, <1>9, <1>11, <3>1 DEF Placed
  <2> QED BY <1>1, <1>11, <2>1, <2>2
<1> QED BY <1>10, <1>11

LEMMA SendRequestAccounts ==
    ASSUME KeptInv, NoReleases, NEW c \in Client, SendRequest(c)
    PROVE  AccountInv(srv', toServer', pend')
<1>1. PICK m \in RequestModes :
        /\ toServer' = [toServer EXCEPT ![c] = Append(@, Request(m))]
        /\ pend' = [pend EXCEPT ![c] = @ \union {m}] /\ srv' = srv
  BY DEF SendRequest
<1>2. Request(m) \in ToServerMsg
  BY ModesAssumption DEF Request, ToServerMsg, Mode, NULL, NONE, SH_RD, EX_WR
<1>3. toServer \in [Client -> Seq(ToServerMsg)] /\ pend \in [Client -> SUBSET Mode]
  BY SafeInvFacts DEF KeptInv, ClientTypes
<1>4. ToSet(toServer'[c]) = ToSet(toServer[c]) \union {Request(m)}
  <2>1. toServer'[c] = Append(toServer[c], Request(m)) /\ toServer[c] \in Seq(ToServerMsg)
    BY <1>1, <1>3
  <2> QED BY <1>2, <2>1, AppendElements
<1> SUFFICES ASSUME NEW d \in Client
             PROVE  /\ Answering(srv', toServer', d)
                    /\ \A k \in pend'[d] : Placed(srv', toServer', d, k)
  BY DEF AccountInv
<1>5. Answering(srv, toServer, d) /\ \A k \in pend[d] : Placed(srv, toServer, d, k)
  BY DEF KeptInv, AccountInv
<1>6. CASE d # c
  <2>1. toServer'[d] = toServer[d] /\ pend'[d] = pend[d]
    BY <1>1, <1>3, <1>6
  <2> QED BY <1>1, <1>5, <2>1 DEF Answering, Placed
<1>7. CASE d = c
  <2>1. pend'[c] = pend[c] \union {m}
    BY <1>1, <1>3
  <2> QED BY <1>1, <1>4, <1>5, <1>7, <2>1 DEF Answering, Placed
<1> QED BY <1>6, <1>7

LEMMA RecvRequestAccounts ==
    ASSUME KeptInv, NEW c \in Client, RecvRequest(c)
    PROVE  AccountInv(srv', toServer', pend')
<1> DEFINE t == HandleRequest(srv, c, Head(toServer[c]).mode)
<1>1. Receive(c, "REQUEST", t)
  BY DEF RecvRequest
<1>2. /\ toServer[c] # <<>> /\ Head(toServer[c]).type = "REQUEST"
      /\ toServer'[c] = Tail(toServer[c])
      /\ \A d \in Client : d # c => toServer'[d] = toServer[d]
      /\ srv' = t /\ pend' = pend
      /\ toServer' \in [Client -> Seq(ToServerMsg)]
  BY <1>1, SafeInvFacts, ReceiveFacts DEF KeptInv
<1>3. /\ ServerInv(srv) /\ AccountInv(srv, toServer, pend)
      /\ ClientTypes(toServer, held, pend) /\ ClientTypes(toServer', held, pend)
      /\ ProtocolInv(srv, toServer, held, pend)
  BY <1>2, SafeInvFacts DEF KeptInv, ClientTypes
<1>4. AccountInv(t, toServer', pend)
  BY <1>2, <1>3, HandleRequestAccounts, ZenonT(30)
<1> HIDE DEF t
<1> QED BY <1>2, <1>4

LEMMA RecvConfirmAccounts ==
    ASSUME KeptInv, NEW c \in Client, RecvConfirm(c)
    PROVE  AccountInv(srv', toServer', pend')
<1> DEFINE t == HandleConfirm(srv, c, Head(toServer[c]).mode)
<1>1. Receive(c, "CONFIRM", t)
  BY DEF RecvConfirm
<1>2. /\ toServer[c] # <<>> /\ Head(toServer[c]).type = "CONFIRM"
      /\ toServer'[c] = Tail(toServer[c])
      /\ \A d \in Client : d # c => toServer'[d] = toServer[d]
      /\ srv' = t /\ pend' = pend
      /\ toServer' \in [Client -> Seq(ToServerMsg)]
  BY <1>1, SafeInvFacts, ReceiveFacts DEF KeptInv
<1>3. /\ ServerInv(srv) /\ ListsUsed(srv) /\ AccountInv(srv, toServer, pend)
      /\ ClientTypes(toServer, held, pend) /\ ClientTypes(toServer', held, pend)
      /\ ProtocolInv(srv, toServer, held, pend)
  BY <1>2, SafeInvFacts DEF KeptInv, ClientTypes
<1>4. AccountInv(t, toServer', pend)
  BY <1>2, <1>3, HandleConfirmAccounts, ZenonT(30)
<1> HIDE DEF t
<1> QED BY <1>2, <1>4

LEMMA KeptInvInit == Init => KeptInv
<1> SUFFICES ASSUME Init PROVE KeptInv
  OBVIOUS
<1>1. \A c \in Client : srv.revoked[c] = NULL /\ pend[c] = {}
  BY DEF Init, SrvInit
<1> QED BY <1>1, SafeInvInit DEF KeptInv, AccountInv, Answering

LEMMA KeptInvNext ==
    ASSUME NoReleases
    PROVE  KeptInv /\ [Next]_vars => KeptInv'
<1> SUFFICES ASSUME KeptInv, [Next]_vars PROVE KeptInv'
  OBVIOUS
<1>1. SafeInv'
  BY SafeInvNext DEF KeptInv
<1>2. AccountInv(srv', toServer', pend')
  <2>1. ASSUME NEW c \in Client, ServerStep(c) PROVE AccountInv(srv', toServer', pend')
    BY <2>1, RecvRequestAccounts, RecvConfirmAccounts, NoReleaseReceived DEF ServerStep, KeptInv
  <2>2. ASSUME NEW c \in Client, ClientRecv(c) PROVE AccountInv(srv', toServer', pend')
    BY <2>2, RecvGrantAccounts, RecvRevokeAccounts DEF ClientRecv
  <2>3. ASSUME NEW c \in Client, SendRequest(c) PROVE AccountInv(srv', toServer', pend')
    BY <2>3, SendRequestAccounts
  <2>4. ASSUME NEW c \in Client, SendRelease(c) PROVE FALSE
    BY <2>4 DEF SendRelease, NoReleases
  <2>5. CASE UNCHANGED vars
    BY <2>5 DEF vars, KeptInv
  <2> QED BY <2>1, <2>2, <2>3, <2>4, <2>5 DEF Next
<1> QED BY <1>1, <1>2 DEF KeptInv

-----------------------------------------------------------------------------
(* Counting.                                                               *)

\* A set that has at most one element.
LEMMA AtMostOne ==
    ASSUME NEW S, \A i, j \in S : i = j
    PROVE  Cardinality(S) = IF S = {} THEN 0 ELSE 1
<1>1. CASE S = {}
  BY <1>1, FS_EmptySet
<1>2. CASE S # {}
  <2>1. PICK x \in S : TRUE
    BY <1>2
  <2>2. S = {x}
    BY <2>1
  <2> QED BY <1>2, <2>2, FS_Singleton
<1> QED BY <1>1, <1>2

LEMMA RevokesCounted == KeptInv => OneRevokeInFlight
<1> SUFFICES ASSUME KeptInv, NEW c \in Client
             PROVE  /\ \A i \in Revokes(c) : srv.toClient[c][i].mode = srv.revoked[c]
                    /\ \A i \in Confirms(c) : toServer[c][i].mode = srv.revoked[c]
                    /\ Cardinality(Revokes(c)) + Cardinality(Confirms(c))
                         = IF srv.revoked[c] = NULL THEN 0 ELSE 1
  BY DEF OneRevokeInFlight
<1>1. RevokeInv(srv, toServer, c) /\ ConfirmInv(srv, toServer, held, c)
  BY SafeInvFacts DEF KeptInv, ProtocolInv, ClientInv
<1>2. Answering(srv, toServer, c)
  BY DEF KeptInv, AccountInv
<1>3. /\ \A i \in Revokes(c) : /\ srv.toClient[c][i].mode = srv.revoked[c]
                               /\ i = Len(srv.toClient[c]) /\ srv.revoked[c] # NULL
                               /\ Confirms(c) = {}
      /\ \A i, j \in Revokes(c) : i = j
  BY <1>1 DEF Revokes, Confirms, RevokeInv, ConfirmSent, IsConfirm
<1>4. /\ \A i \in Confirms(c) : toServer[c][i].mode = srv.revoked[c] /\ srv.revoked[c] # NULL
      /\ \A i, j \in Confirms(c) : i = j
  BY <1>1 DEF Confirms, ConfirmInv, IsConfirm
<1>5. srv.revoked[c] # NULL => Revokes(c) # {} \/ Confirms(c) # {}
  <2>1. ASSUME NEW k, Revoke(k) \in ToSet(srv.toClient[c]) PROVE Revokes(c) # {}
    <3>1. PICK i \in DOMAIN srv.toClient[c] : srv.toClient[c][i] = Revoke(k)
      BY <2>1, Zenon DEF ToSet
    <3> QED BY <3>1 DEF Revokes, Revoke
  <2>2. ASSUME NEW k, Confirm(k) \in ToSet(toServer[c]) PROVE Confirms(c) # {}
    <3>1. PICK i \in DOMAIN toServer[c] : toServer[c][i] = Confirm(k)
      BY <2>2, Zenon DEF ToSet
    <3> QED BY <3>1 DEF Confirms, Confirm
  <2> QED BY <1>2, <2>1, <2>2 DEF Answering
<1>6. /\ Cardinality(Revokes(c)) = IF Revokes(c) = {} THEN 0 ELSE 1
      /\ Cardinality(Confirms(c)) = IF Confirms(c) = {} THEN 0 ELSE 1
  BY <1>3, <1>4, AtMostOne
<1> QED BY <1>3, <1>4, <1>5, <1>6

\* One pending mode: what RequestAccounted counts.
LEMMA RequestsCounted == KeptInv => RequestAccounted
<1> SUFFICES ASSUME KeptInv, NEW c \in Client, NEW m \in Mode
             PROVE  Cardinality({i \in DOMAIN toServer[c] : toServer[c][i] = Request(m)})
                      + Cardinality({i \in DOMAIN srv.reqs : srv.reqs[i] = [client |-> c, mode |-> m]})
                      + Cardinality({i \in DOMAIN srv.toClient[c] : srv.toClient[c][i] = Grant(m)})
                      = IF m \in pend[c] THEN 1 ELSE 0
  BY DEF RequestAccounted
<1> DEFINE A == {i \in DOMAIN toServer[c] : toServer[c][i] = Request(m)}
           B == {i \in DOMAIN srv.reqs : srv.reqs[i] = [client |-> c, mode |-> m]}
           D == {i \in DOMAIN srv.toClient[c] : srv.toClient[c][i] = Grant(m)}
<1>1. /\ GrantInv(srv, held, pend, c) /\ ConfirmInv(srv, toServer, held, c)
      /\ RequestInv(srv, toServer, held, pend, c)
  BY SafeInvFacts DEF KeptInv, ProtocolInv, ClientInv
<1>2. /\ toServer[c] \in Seq(ToServerMsg) /\ srv.reqs \in Seq(RLockRequest)
      /\ srv.toClient[c] \in Seq(ToClientMsg) /\ srv.granted[c] \in Mode
  BY SafeInvFacts DEF KeptInv, ClientTypes, ServerInv, SrvType
<1>3. /\ DOMAIN toServer[c] \subseteq Nat /\ DOMAIN srv.reqs \subseteq Nat
      /\ DOMAIN srv.toClient[c] \subseteq Nat
  BY <1>2
<1>4. \A i \in A : i \in DOMAIN toServer[c] /\ IsRequest(toServer, c, i) /\ toServer[c][i].mode = m
  BY DEF IsRequest, Request
<1>5. \A i \in B : i \in DOMAIN srv.reqs /\ srv.reqs[i].client = c /\ srv.reqs[i].mode = m
  OBVIOUS
<1>6. \A i \in D : /\ i \in DOMAIN srv.toClient[c] /\ srv.toClient[c][i].type = "GRANT"
                   /\ srv.toClient[c][i].mode = m
  BY DEF Grant
<1> HIDE DEF A, B, D
<1>7. ~(m < m) /\ ~(m > srv.granted[c] /\ m <= srv.granted[c])
  BY <1>2 DEF Mode, NULL, EX_WR
<1>8. \A i, j \in A : i = j
  <2> SUFFICES ASSUME NEW i \in A, NEW j \in A, i < j PROVE FALSE
    BY <1>3, <1>4
  <2> QED BY <1>1, <1>4, <1>7 DEF RequestInv
<1>9. \A i, j \in B : i = j
  <2> SUFFICES ASSUME NEW i \in B, NEW j \in B, i < j PROVE FALSE
    BY <1>3, <1>5
  <2> QED BY <1>1, <1>5, <1>7 DEF RequestInv
<1>10. \A i, j \in D : i = j
  <2> SUFFICES ASSUME NEW i \in D, NEW j \in D, i < j PROVE FALSE
    BY <1>3, <1>6
  <2> QED BY <1>1, <1>6, <1>7 DEF GrantInv
<1>11. A = {} \/ B = {}
  BY <1>1, <1>4, <1>5, <1>7 DEF RequestInv
<1>12. B = {} \/ D = {}
  <2> SUFFICES ASSUME NEW i \in B, NEW j \in D PROVE FALSE
    OBVIOUS
  <2>1. m > srv.granted[c] /\ m <= srv.granted[c]
    BY <1>1, <1>5, <1>6 DEF RequestInv, GrantInv
  <2> QED BY <1>7, <2>1
<1>13. A = {} \/ D = {}
  <2> SUFFICES ASSUME NEW i \in A, NEW j \in D PROVE FALSE
    OBVIOUS
  <2>1. m <= srv.granted[c]
    BY <1>1, <1>6 DEF GrantInv
  <2>2. m > srv.granted[c] \/ \E k \in 1 .. (i - 1) : IsConfirm(toServer, c, k)
    BY <1>1, <1>4 DEF RequestInv
  <2>3. PICK k \in 1 .. (i - 1) : IsConfirm(toServer, c, k)
    BY <1>7, <2>1, <2>2
  <2>4. k \in DOMAIN toServer[c]
    <3>1. DOMAIN toServer[c] = 1 .. Len(toServer[c]) /\ Len(toServer[c]) \in Nat
      BY <1>2
    <3> QED BY <1>4, <3>1
  <2>5. srv.toClient[c] = <<>>
    BY <1>1, <2>3, <2>4 DEF ConfirmInv
  <2> QED BY <1>6, <2>5
<1>14. A # {} \/ B # {} \/ D # {} => m \in pend[c]
  BY <1>1, <1>4, <1>5, <1>6 DEF RequestInv, GrantInv
<1>15. m \in pend[c] => A # {} \/ B # {} \/ D # {}
  <2> SUFFICES ASSUME m \in pend[c] PROVE A # {} \/ B # {} \/ D # {}
    OBVIOUS
  <2>1. Placed(srv, toServer, c, m)
    BY DEF KeptInv, AccountInv
  <2>2. /\ Request(m) \in ToSet(toServer[c]) => A # {}
        /\ [client |-> c, mode |-> m] \in ToSet(srv.reqs) => B # {}
        /\ Grant(m) \in ToSet(srv.toClient[c]) => D # {}
    BY Zenon DEF ToSet, A, B, D
  <2> QED BY <2>1, <2>2 DEF Placed
<1>16. /\ Cardinality(A) = IF A = {} THEN 0 ELSE 1
       /\ Cardinality(B) = IF B = {} THEN 0 ELSE 1
       /\ Cardinality(D) = IF D = {} THEN 0 ELSE 1
  BY <1>8, <1>9, <1>10, AtMostOne
<1>17. Cardinality(A) + Cardinality(B) + Cardinality(D) = IF m \in pend[c] THEN 1 ELSE 0
  BY <1>11, <1>12, <1>13, <1>14, <1>15, <1>16
<1> QED BY <1>17 DEF A, B, D

\* client_rlock.revoked is set exactly while one revoke, or the confirm of it,
\* is on its way, and that one names the mode.
THEOREM OneRevokeAtATime ==
    ASSUME NoReleases
    PROVE  Spec => []OneRevokeInFlight
<1>1. KeptInv /\ [Next]_vars => KeptInv'
  BY KeptInvNext
<1> QED BY <1>1, KeptInvInit, RevokesCounted, PTL DEF Spec

\* A request that its client waits for is in exactly one place: none is lost,
\* none is answered twice.
THEOREM EveryRequestAccounted ==
    ASSUME NoReleases
    PROVE  Spec => []RequestAccounted
<1>1. KeptInv /\ [Next]_vars => KeptInv'
  BY KeptInvNext
<1> QED BY <1>1, KeptInvInit, RequestsCounted, PTL DEF Spec

-----------------------------------------------------------------------------
(* Refinement.                                                             *)

\* A grant is a Raise of the abstract lock, a revoke received a Lower.
LEMMA StepImplements ==
    ASSUME NoReleases, SafeInv, [Next]_vars, SafeInv'
    PROVE  [Abs!AbsNext]_held
<1>1. held \in [Client -> Mode] /\ held' \in [Client -> Mode]
  BY SafeInvFacts DEF SafeInv, SrvInv, TypeOK
<1>2. Mode = Abs!Modes
  BY DEF Mode, Abs!Modes, NULL, EX_WR
<1>3. ASSUME NEW c \in Client, RecvGrant(c) PROVE Abs!AbsNext
  <2> DEFINE m == held'[c]
  <2>1. /\ held[c] < m /\ m \in Mode
        /\ held' = [held EXCEPT ![c] = m]
    <3>1. held[c] < m /\ \A d \in Client : d # c => held'[d] = held[d]
      BY <1>3, RecvGrantSafe
    <3> QED BY <1>1, <3>1
  <2>2. ASSUME NEW d \in Client \ {c} PROVE Abs!NoConflict(held[d], m)
    <3>1. Compatible(held'[d], held'[c])
      BY UseStaysExclusive DEF MutualExclusion
    <3>2. held'[d] = held[d]
      BY <1>1, <2>1
    <3> QED BY <3>1, <3>2 DEF Abs!NoConflict, Compatible, NONE, EX_WR
  <2> HIDE DEF m
  <2>3. m > held[c]
    BY <1>1, <2>1 DEF Mode, NULL, EX_WR
  <2>4. Abs!Raise(c, m)
    BY <2>1, <2>2, <2>3 DEF Abs!Raise
  <2> QED BY <1>2, <2>1, <2>4 DEF Abs!AbsNext
<1>4. ASSUME NEW c \in Client, RecvRevoke(c) PROVE Abs!AbsNext
  <2> DEFINE m == held'[c]
  <2>1. /\ m < held[c] /\ m \in Mode
        /\ held' = [held EXCEPT ![c] = m]
    <3>1. m < held[c] /\ \A d \in Client : d # c => held'[d] = held[d]
      BY <1>4, RecvRevokeSafe
    <3> QED BY <1>1, <3>1
  <2> HIDE DEF m
  <2>2. Abs!Lower(c, m)
    BY <2>1 DEF Abs!Lower
  <2> QED BY <1>2, <2>1, <2>2 DEF Abs!AbsNext
<1>5. CASE held' # held
  BY <1>3, <1>4, <1>5, HeldChanges
<1> QED BY <1>5

\* The protocol implements the lock of RLockAbs, whose modes change hands
\* instantly.
THEOREM ImplementsLock ==
    ASSUME NoReleases
    PROVE  Spec => AbsSpec
<1>1. Init => Abs!AbsInit
  BY DEF Init, Abs!AbsInit, NULL
<1>2. SafeInv /\ [Next]_vars /\ SafeInv' => [Abs!AbsNext]_held
  BY StepImplements
<1> QED BY <1>1, <1>2, SafeInvariant, PTL DEF Spec, AbsSpec, Abs!Spec
=============================================================================
