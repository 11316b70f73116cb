-------------------------- MODULE TraceRingProofs ---------------------------
(***************************************************************************)
(* Theorems about TraceRing for segments of any size, any number of them,  *)
(* of sites and of events.                                                 *)
(***************************************************************************)
EXTENDS TraceRing, SeqFacts

-----------------------------------------------------------------------------
(* Positions.                                                              *)

\* Where a segment starts.
Base(s) == s * SEGMENT

\* What the constants are, and where segments start.
LEMMA Sizes ==
    /\ SEGMENT \in Nat /\ SEGMENT >= 1 /\ NrSegments \in Nat /\ NrSegments >= 1
    /\ TraceBufSize \in Nat /\ TraceBufSize >= 1 /\ Base(NrSegments) = TraceBufSize /\ Base(0) = 0
    /\ \A s \in Nat : Base(s) \in Nat /\ Base(s + 1) = Base(s) + SEGMENT
    /\ \A s, t \in Nat : s < t => Base(s) + SEGMENT <= Base(t)
<1>1. SEGMENT \in Nat /\ SEGMENT >= 1 /\ NrSegments \in Nat /\ NrSegments >= 1
  BY TraceAssumption
<1>2. TraceBufSize \in Nat /\ TraceBufSize >= 1 /\ Base(NrSegments) = TraceBufSize /\ Base(0) = 0
  BY <1>1 DEF TraceBufSize, Base
<1>3. \A s \in Nat : Base(s) \in Nat /\ Base(s + 1) = Base(s) + SEGMENT
  BY <1>1 DEF Base
<1>4. \A s, t \in Nat : s < t => Base(s) + SEGMENT <= Base(t)
  BY <1>1 DEF Base
<1> QED BY <1>1, <1>2, <1>3, <1>4

\* An event of any site fits into a segment, with the zero behind it.
LEMMA Sites ==
    \A nr \in Site : /\ nr \in Nat /\ nr >= 1 /\ NrArgs[nr] \in Nat
                     /\ EventSize(nr) = 1 + NrArgs[nr] /\ EventSize(nr) \in Nat /\ EventSize(nr) >= 2
                     /\ EventSize(nr) + 1 <= SEGMENT
<1> SUFFICES ASSUME NEW nr \in Site
             PROVE  /\ nr \in Nat /\ nr >= 1 /\ NrArgs[nr] \in Nat
                    /\ EventSize(nr) = 1 + NrArgs[nr] /\ EventSize(nr) \in Nat /\ EventSize(nr) >= 2
                    /\ EventSize(nr) + 1 <= SEGMENT
  OBVIOUS
<1>1. NrArgs \in Seq(Nat) /\ MAX_ARGS \in Nat /\ MAX_ARGS + 2 <= SEGMENT /\ SEGMENT \in Nat
  BY TraceAssumption
<1>2. NrArgs[nr] \in 1 .. MAX_ARGS
  BY TraceAssumption DEF Site, ValidFormat
<1>3. nr \in 1 .. Len(NrArgs)
  BY <1>1 DEF Site
<1> QED BY <1>1, <1>2, <1>3 DEF EventSize

\* A multiple and a remainder are told apart by division.
LEMMA DivFacts ==
    ASSUME NEW b \in Nat, b > 0, NEW t \in Nat, NEW o \in 0 .. b - 1
    PROVE  (t * b + o) % b = o /\ (t * b + o) \div b = t
OBVIOUS

\* What the remainder and the rounding of a position within a segment are.
LEMMA InSegment ==
    ASSUME NEW s \in Nat, NEW p \in Nat, Base(s) <= p, p < Base(s) + SEGMENT
    PROVE  p % SEGMENT = p - Base(s) /\ SegmentAfter(p) = Base(s + 1)
<1>1. SEGMENT \in Nat /\ SEGMENT >= 1
  BY Sizes
<1> DEFINE o == p - Base(s)
<1>3. o \in 0 .. SEGMENT - 1 /\ p = s * SEGMENT + o
  BY <1>1 DEF Base
<1>4. p + 1 + SEGMENT - 1 = (s + 1) * SEGMENT + o
  BY <1>1, <1>3
<1> HIDE DEF o
<1>5. p % SEGMENT = o
  <2>1. SEGMENT \in Nat /\ SEGMENT > 0 /\ o \in 0 .. SEGMENT - 1
    BY <1>1, <1>3
  <2>2. (s * SEGMENT + o) % SEGMENT = o
    BY <2>1, DivFacts, Zenon
  <2> QED BY <1>3, <2>2
<1>6. ((s + 1) * SEGMENT + o) \div SEGMENT = s + 1
  <2>1. s + 1 \in Nat
    OBVIOUS
  <2> QED BY <1>1, <1>3, <2>1, DivFacts
<1>7. SegmentAfter(p) = (s + 1) * SEGMENT
  BY <1>4, <1>6, Zenon DEF SegmentAfter, RoundUp
<1> QED BY <1>5, <1>7 DEF o, Base

-----------------------------------------------------------------------------
(* Segments are begun in turn.  c is the slot of the newest one, number r;  *)
(* before the first one r is 0 and c is -1.                                *)

Newest(r, c) ==
    /\ r \in Nat /\ c \in Int /\ -1 <= c /\ c < NrSegments /\ c < r
    /\ r <= NrSegments => c = r - 1
    /\ r > NrSegments => c >= 0

\* The slot of segment u, when it has not been begun again.
SlotOf(r, c, u) == IF u - r + c >= 0 THEN u - r + c ELSE u - r + c + NrSegments

\* The oldest one, and the segments from there once around the ring.
Oldest(r) == IF r > NrSegments THEN r - NrSegments + 1 ELSE 1
Around(r) == Oldest(r) .. Oldest(r) + NrSegments - 1

NextSlot(s) == IF s + 1 = NrSegments THEN 0 ELSE s + 1

\* The segments from the oldest one once around the ring are in different
\* slots, each in the slot after the one before.
LEMMA Slots ==
    ASSUME NEW r, NEW c, Newest(r, c)
    PROVE  /\ Oldest(r) \in Nat /\ Oldest(r) \in Around(r) /\ Oldest(r) >= 1
           /\ \A u \in Around(r) : u \in Nat /\ SlotOf(r, c, u) \in 0 .. NrSegments - 1
           /\ \A u, v \in Around(r) : SlotOf(r, c, u) = SlotOf(r, c, v) => u = v
           /\ \A u \in Around(r) :
                SlotOf(r, c, IF u + 1 \in Around(r) THEN u + 1 ELSE Oldest(r)) = NextSlot(SlotOf(r, c, u))
           /\ \A u \in Around(r) : u > r => SlotOf(r, c, u) = u - 1 /\ r < NrSegments /\ Oldest(r) = 1
           /\ \A u \in Nat : u >= 1 /\ u <= r /\ u > r - NrSegments => u \in Around(r)
           /\ \A u \in Around(r) : u > r - NrSegments
           /\ r \in Nat /\ (r > 0 => r \in Around(r) /\ SlotOf(r, c, r) = c)
<1>1. NrSegments \in Nat /\ NrSegments >= 1
  BY Sizes
<1>2. r \in Nat /\ c \in Int /\ -1 <= c /\ c < NrSegments /\ c < r
  BY DEF Newest
<1>3. (r <= NrSegments => c = r - 1) /\ (r > NrSegments => c >= 0)
  BY DEF Newest
<1>4. Oldest(r) \in Nat /\ Oldest(r) \in Around(r) /\ Oldest(r) >= 1
  BY <1>1, <1>2 DEF Oldest, Around
<1>5. ASSUME NEW u \in Around(r)
      PROVE  u \in Nat /\ SlotOf(r, c, u) \in 0 .. NrSegments - 1 /\ u > r - NrSegments
  BY <1>1, <1>2, <1>3, <1>5 DEF Oldest, Around, SlotOf
<1>6. ASSUME NEW u \in Around(r), NEW v \in Around(r), SlotOf(r, c, u) = SlotOf(r, c, v)
      PROVE  u = v
  BY <1>1, <1>2, <1>3, <1>6 DEF Oldest, Around, SlotOf
<1>7. ASSUME NEW u \in Around(r)
      PROVE  SlotOf(r, c, IF u + 1 \in Around(r) THEN u + 1 ELSE Oldest(r)) = NextSlot(SlotOf(r, c, u))
  <2>1. CASE r > NrSegments
    BY <1>1, <1>2, <1>3, <2>1 DEF Oldest, Around, SlotOf, NextSlot
  <2>2. CASE r <= NrSegments
    BY <1>1, <1>2, <1>3, <2>2 DEF Oldest, Around, SlotOf, NextSlot
  <2> QED BY <1>1, <1>2, <2>1, <2>2
<1>8. ASSUME NEW u \in Around(r), u > r
      PROVE  SlotOf(r, c, u) = u - 1 /\ r < NrSegments /\ Oldest(r) = 1
  BY <1>1, <1>2, <1>3, <1>8 DEF Oldest, Around, SlotOf
<1>9. ASSUME NEW u \in Nat, u >= 1, u <= r, u > r - NrSegments PROVE u \in Around(r)
  BY <1>1, <1>2, <1>9 DEF Oldest, Around
<1>10. r > 0 => r \in Around(r) /\ SlotOf(r, c, r) = c
  BY <1>1, <1>2, <1>3 DEF Oldest, Around, SlotOf
<1> QED BY <1>2, <1>4, <1>5, <1>6, <1>7, <1>8, <1>9, <1>10

\* Another segment is begun, in the next slot: those that are kept stay where
\* they are, and none of them is there.
LEMMA SlotsMove ==
    ASSUME NEW r, NEW c, Newest(r, c)
    PROVE  /\ Newest(r + 1, NextSlot(c))
           /\ SlotOf(r + 1, NextSlot(c), r + 1) = NextSlot(c)
           /\ \A u \in Nat : u >= 1 /\ u <= r /\ u > r + 1 - NrSegments =>
                /\ SlotOf(r + 1, NextSlot(c), u) = SlotOf(r, c, u)
                /\ SlotOf(r, c, u) # NextSlot(c)
           /\ \A u \in Nat : u > r + 1 /\ u <= NrSegments => u - 1 # NextSlot(c)
<1>1. NrSegments \in Nat /\ NrSegments >= 1
  BY Sizes
<1>2. r \in Nat /\ c \in Int /\ -1 <= c /\ c < NrSegments /\ c < r
  BY DEF Newest
<1>3. (r <= NrSegments => c = r - 1) /\ (r > NrSegments => c >= 0)
  BY DEF Newest
<1>4. Newest(r + 1, NextSlot(c))
  BY <1>1, <1>2, <1>3 DEF Newest, NextSlot
<1>5. SlotOf(r + 1, NextSlot(c), r + 1) = NextSlot(c)
  BY <1>1, <1>2, <1>3 DEF SlotOf, NextSlot
<1>6. ASSUME NEW u \in Nat, u >= 1, u <= r, u > r + 1 - NrSegments
      PROVE  SlotOf(r + 1, NextSlot(c), u) = SlotOf(r, c, u) /\ SlotOf(r, c, u) # NextSlot(c)
  BY <1>1, <1>2, <1>3, <1>6 DEF SlotOf, NextSlot
<1>7. ASSUME NEW u \in Nat, u > r + 1, u <= NrSegments PROVE u - 1 # NextSlot(c)
  BY <1>1, <1>2, <1>3, <1>7 DEF NextSlot
<1> QED BY <1>4, <1>5, <1>6, <1>7

\* The positions of a segment are within the ring and in no other segment.
LEMMA SegmentsApart ==
    ASSUME NEW s \in 0 .. NrSegments - 1, NEW t \in 0 .. NrSegments - 1, NEW q \in Int,
           Base(s) <= q, q < Base(s) + SEGMENT
    PROVE  /\ q \in 0 .. TraceBufSize - 1
           /\ s # t => q < Base(t) \/ q >= Base(t) + SEGMENT
<1>1. /\ s \in Nat /\ t \in Nat /\ NrSegments \in Nat /\ SEGMENT \in Nat /\ s < NrSegments
      /\ Base(NrSegments) = TraceBufSize /\ TraceBufSize \in Nat
  BY Sizes
<1>2. /\ \A u \in Nat : Base(u) \in Nat
      /\ \A u, v \in Nat : u < v => Base(u) + SEGMENT <= Base(v)
  BY Sizes
<1>3. Base(s) \in Nat /\ Base(t) \in Nat /\ Base(s) + SEGMENT <= TraceBufSize
  BY <1>1, <1>2
<1>4. ASSUME s # t PROVE Base(s) + SEGMENT <= Base(t) \/ Base(t) + SEGMENT <= Base(s)
  <2>1. CASE s < t
    BY <1>1, <1>2, <2>1
  <2>2. CASE t < s
    BY <1>1, <1>2, <2>2
  <2> QED BY <1>1, <1>4, <2>1, <2>2
<1>5. q \in 0 .. TraceBufSize - 1
  BY <1>1, <1>3
<1>6. ASSUME s # t PROVE q < Base(t) \/ q >= Base(t) + SEGMENT
  BY <1>1, <1>3, <1>4, <1>6
<1> QED BY <1>5, <1>6

-----------------------------------------------------------------------------
(* Where the events lie.  seg is the segment of each event, P its position  *)
(* and N its site.                                                         *)

Numbered(seg) ==
    /\ seg \in Seq(Nat)
    /\ Len(seg) > 0 => seg[1] = 1
    /\ \A i \in 2 .. Len(seg) : seg[i] = seg[i - 1] \/ seg[i] = seg[i - 1] + 1
    /\ \A i, j \in 1 .. Len(seg) : i <= j => seg[i] <= seg[j]

Begun(seg) == IF Len(seg) = 0 THEN 0 ELSE seg[Len(seg)]

\* The events that no later round has overwritten.
KeptOf(seg) == {i \in 1 .. Len(seg) : seg[i] > Begun(seg) - NrSegments}

BaseOf(seg, c, u) == Base(SlotOf(Begun(seg), c, u))

\* Events follow each other from the start of their segment.
Rows(seg, c, P, N) == \A i \in KeptOf(seg) :
    /\ N[i] \in Site /\ P[i] \in Nat
    /\ BaseOf(seg, c, seg[i]) <= P[i]
    /\ P[i] + EventSize(N[i]) < BaseOf(seg, c, seg[i]) + SEGMENT
    /\ i = 1 \/ seg[i - 1] # seg[i] => P[i] = BaseOf(seg, c, seg[i])
    /\ i < Len(seg) /\ seg[i + 1] = seg[i] => P[i + 1] = P[i] + EventSize(N[i])
    /\ \A j \in i + 1 .. Len(seg) : seg[j] = seg[i] => P[i] + EventSize(N[i]) <= P[j]

\* Each is there with its arguments, and a zero is behind the last one of a
\* segment.
EventAt(rg, p, nr, i) ==
    rg[p] = [nr |-> nr, time |-> i] /\ \A q \in p + 1 .. p + EventSize(nr) - 1 : rg[q] = Arg(i)

Events(seg, rg, P, N) == \A i \in KeptOf(seg) :
    /\ EventAt(rg, P[i], N[i], i)
    /\ i = Len(seg) \/ seg[i + 1] # seg[i] => rg[P[i] + EventSize(N[i])] = Zero

\* Segments that were never begun start with a zero.
Fresh(seg, rg) == \A u \in Begun(seg) + 1 .. NrSegments : rg[Base(u - 1)] = Zero

Ends(seg, ps, P, N) ==
    IF Len(seg) = 0 THEN ps = 0 ELSE ps = P[Len(seg)] + EventSize(N[Len(seg)])

Laid(seg, rg, ps, c, P, N) ==
    /\ Numbered(seg) /\ Newest(Begun(seg), c)
    /\ DOMAIN rg = 0 .. TraceBufSize - 1
    /\ Rows(seg, c, P, N) /\ Events(seg, rg, P, N) /\ Fresh(seg, rg) /\ Ends(seg, ps, P, N)

\* Segments are numbered from 1, and the newest event is kept.
LEMMA NumberedFacts ==
    ASSUME NEW seg, Numbered(seg)
    PROVE  /\ Len(seg) \in Nat /\ Begun(seg) \in Nat
           /\ \A i \in 1 .. Len(seg) : seg[i] \in Nat /\ seg[i] >= 1 /\ seg[i] <= Begun(seg)
           /\ Len(seg) > 0 => Begun(seg) = seg[Len(seg)] /\ Begun(seg) >= 1 /\ Len(seg) \in KeptOf(seg)
           /\ Len(seg) = 0 => Begun(seg) = 0
<1>1. /\ Len(seg) \in Nat /\ \A i \in 1 .. Len(seg) : seg[i] \in Nat
      /\ Len(seg) > 0 => 1 \in 1 .. Len(seg) /\ Len(seg) \in 1 .. Len(seg)
  BY DEF Numbered
<1>2. \A i \in 1 .. Len(seg) : 1 <= i /\ i <= Len(seg) /\ Len(seg) > 0
  BY <1>1
<1>3. \A i \in 1 .. Len(seg) : seg[1] <= seg[i] /\ seg[i] <= seg[Len(seg)] /\ seg[1] = 1
  BY <1>1, <1>2 DEF Numbered
<1>4. Len(seg) > 0 => Begun(seg) = seg[Len(seg)] /\ seg[Len(seg)] >= 1
  BY <1>1, <1>3 DEF Begun
<1>5. Len(seg) = 0 => Begun(seg) = 0
  BY DEF Begun
<1>6. Begun(seg) \in Nat
  BY <1>1, <1>4, <1>5
<1>7. Len(seg) > 0 => Len(seg) \in KeptOf(seg)
  <2>1. NrSegments \in Nat /\ NrSegments >= 1
    BY Sizes
  <2> SUFFICES ASSUME Len(seg) > 0 PROVE seg[Len(seg)] > Begun(seg) - NrSegments
    BY <1>1 DEF KeptOf
  <2> QED BY <1>4, <1>6, <2>1
<1> QED BY <1>1, <1>2, <1>3, <1>4, <1>5, <1>6, <1>7

\* Another event of the newest segment or of the next one.
LEMMA NumberedAppend ==
    ASSUME NEW seg, Numbered(seg), NEW r, r = Begun(seg) \/ r = Begun(seg) + 1, r >= 1
    PROVE  /\ Numbered(Append(seg, r)) /\ Begun(Append(seg, r)) = r
           /\ Len(Append(seg, r)) = Len(seg) + 1 /\ Append(seg, r)[Len(seg) + 1] = r
           /\ \A i \in 1 .. Len(seg) : Append(seg, r)[i] = seg[i]
<1> DEFINE n == Len(seg)
           t == Append(seg, r)
<1>1. /\ n \in Nat /\ Begun(seg) \in Nat /\ seg \in Seq(Nat) /\ r \in Nat
      /\ \A i \in 1 .. n : seg[i] \in Nat /\ seg[i] >= 1 /\ seg[i] <= Begun(seg)
      /\ n > 0 => Begun(seg) = seg[n]
      /\ n = 0 => Begun(seg) = 0
  BY NumberedFacts DEF Numbered
<1>2. t \in Seq(Nat) /\ Len(t) = n + 1 /\ t[n + 1] = r /\ \A i \in 1 .. n : t[i] = seg[i]
  BY <1>1
<1> HIDE DEF t
<1>3. Begun(t) = r
  BY <1>1, <1>2 DEF Begun
<1>4. /\ n > 0 => seg[1] = 1
      /\ \A i \in 2 .. n : seg[i] = seg[i - 1] \/ seg[i] = seg[i - 1] + 1
      /\ \A i, j \in 1 .. n : i <= j => seg[i] <= seg[j]
  BY DEF Numbered
<1> HIDE DEF n
<1>5. Len(t) > 0 => t[1] = 1
  <2>1. CASE n = 0
    <3>1. t[0 + 1] = 1
      BY <1>1, <1>2, <2>1
    <3> QED BY <3>1
  <2>2. CASE n > 0
    BY <1>1, <1>2, <1>4, <2>2
  <2> QED BY <1>1, <2>1, <2>2
<1>6. ASSUME NEW i \in 2 .. n + 1 PROVE t[i] = t[i - 1] \/ t[i] = t[i - 1] + 1
  <2>1. CASE i = n + 1
    <3>1. n \in 1 .. n /\ i - 1 = n /\ n > 0
      BY <1>1, <1>6, <2>1
    <3> QED BY <1>1, <1>2, <2>1, <3>1
  <2>2. CASE i # n + 1
    <3>1. i \in 2 .. n /\ i \in 1 .. n /\ i - 1 \in 1 .. n
      BY <1>1, <1>6, <2>2
    <3> QED BY <1>2, <1>4, <3>1
  <2> QED BY <2>1, <2>2
<1>7. ASSUME NEW i \in 1 .. n + 1, NEW j \in 1 .. n + 1, i <= j PROVE t[i] <= t[j]
  <2>1. CASE j \in 1 .. n
    <3>1. i \in 1 .. n
      BY <1>1, <1>7, <2>1
    <3> QED BY <1>2, <1>4, <1>7, <2>1, <3>1
  <2>2. CASE j \notin 1 .. n
    <3>1. j = n + 1 /\ (i = n + 1 \/ i \in 1 .. n)
      BY <1>1, <2>2
    <3> QED BY <1>1, <1>2, <3>1
  <2> QED BY <2>1, <2>2
<1>8. Numbered(t)
  BY <1>2, <1>5, <1>6, <1>7 DEF Numbered
<1> QED BY <1>2, <1>3, <1>8 DEF t, n

\* An event goes behind the newest one, or into the next slot, where nothing
\* that is kept lies: it is in segment r then, in slot d.
EventGoes(seg, c, P, N, r, d, p, nr) ==
    /\ r = Begun(seg) \/ r = Begun(seg) + 1
    /\ r >= 1 /\ d \in 0 .. NrSegments - 1 /\ p \in Nat
    /\ Newest(r, d) /\ SlotOf(r, d, r) = d
    /\ \A i \in KeptOf(seg) : seg[i] > r - NrSegments =>
         /\ SlotOf(r, d, seg[i]) = SlotOf(Begun(seg), c, seg[i])
         /\ seg[i] # r => SlotOf(r, d, seg[i]) # d
    /\ \A u \in Nat : u > r /\ u <= NrSegments => u - 1 # d
    /\ Base(d) <= p /\ p + EventSize(nr) < Base(d) + SEGMENT
    /\ r = Begun(seg) + 1 => p = Base(d)
    /\ r = Begun(seg) => Len(seg) > 0 /\ p = P[Len(seg)] + EventSize(N[Len(seg)])

\* The layout with one more event: those that are kept are not touched.
LEMMA LaidOn ==
    ASSUME NEW seg, NEW rg, NEW ps, NEW c, NEW P, NEW N, Laid(seg, rg, ps, c, P, N),
           NEW r, NEW d, NEW p, NEW nr \in Site, EventGoes(seg, c, P, N, r, d, p, nr)
    PROVE  \E P2, N2 : Laid(Append(seg, r), RingWith(rg, p, nr, Len(seg) + 1), p + EventSize(nr), d, P2, N2)
<1> DEFINE n == Len(seg)
           t == Append(seg, r)
           P2 == [i \in 1 .. n + 1 |-> IF i = n + 1 THEN p ELSE P[i]]
           N2 == [i \in 1 .. n + 1 |-> IF i = n + 1 THEN nr ELSE N[i]]
           size == EventSize(nr)
           rg2 == RingWith(rg, p, nr, n + 1)
<1>0. /\ r = Begun(seg) \/ r = Begun(seg) + 1
      /\ r >= 1 /\ d \in 0 .. NrSegments - 1 /\ p \in Nat
      /\ Newest(r, d) /\ SlotOf(r, d, r) = d
      /\ \A i \in KeptOf(seg) : seg[i] > r - NrSegments =>
           /\ SlotOf(r, d, seg[i]) = SlotOf(Begun(seg), c, seg[i])
           /\ seg[i] # r => SlotOf(r, d, seg[i]) # d
      /\ \A u \in Nat : u > r /\ u <= NrSegments => u - 1 # d
      /\ Base(d) <= p /\ p + EventSize(nr) < Base(d) + SEGMENT
      /\ r = Begun(seg) + 1 => p = Base(d)
      /\ r = Begun(seg) => n > 0 /\ p = P[n] + EventSize(N[n])
  BY DEF EventGoes
<1>1. /\ n \in Nat /\ Begun(seg) \in Nat /\ r \in Nat
      /\ \A i \in 1 .. n : seg[i] \in Nat /\ seg[i] >= 1 /\ seg[i] <= Begun(seg)
      /\ n > 0 => Begun(seg) = seg[n]
      /\ n = 0 => Begun(seg) = 0
  BY <1>0, NumberedFacts DEF Laid
<1>2. /\ Numbered(t) /\ Begun(t) = r /\ Len(t) = n + 1 /\ t[n + 1] = r
      /\ \A i \in 1 .. n : t[i] = seg[i]
  BY <1>0, NumberedAppend DEF Laid
<1>3. /\ SEGMENT \in Nat /\ NrSegments \in Nat /\ NrSegments >= 1 /\ TraceBufSize \in Nat
      /\ nr \in Nat /\ size \in Nat /\ size >= 2 /\ Base(d) \in Nat /\ d \in Nat
  BY <1>0, Sizes, Sites
<1>4. DOMAIN rg = 0 .. TraceBufSize - 1 /\ DOMAIN rg2 = 0 .. TraceBufSize - 1
  BY DEF Laid, RingWith
<1>5. ASSUME NEW a \in 0 .. TraceBufSize - 1
      PROVE  /\ a = p => rg2[a] = [nr |-> nr, time |-> n + 1]
             /\ a \in p + 1 .. p + size - 1 => rg2[a] = Arg(n + 1)
             /\ a = p + size => rg2[a] = Zero
             /\ a < p \/ a > p + size => rg2[a] = rg[a]
  <2>1. rg2[a] = IF a = p THEN [nr |-> nr, time |-> n + 1]
                 ELSE IF a \in p + 1 .. p + size - 1 THEN Arg(n + 1)
                 ELSE IF a = p + size THEN Zero ELSE rg[a]
    BY <1>4 DEF RingWith
  <2>2. p \in Nat /\ size \in Nat /\ size >= 2 /\ a \in Int
    BY <1>0, <1>3
  <2> HIDE DEF rg2, size
  <2> QED BY <2>1, <2>2
<1> HIDE DEF t, P2, N2, rg2
<1>6. ASSUME NEW a \in p .. p + size PROVE a \in 0 .. TraceBufSize - 1
  <2>1. a \in Int /\ Base(d) <= a /\ a < Base(d) + SEGMENT
    BY <1>0, <1>3
  <2> QED BY <1>0, <2>1, SegmentsApart
<1>7. P2[n + 1] = p /\ N2[n + 1] = nr /\ \A i \in 1 .. n : P2[i] = P[i] /\ N2[i] = N[i]
  BY <1>1 DEF P2, N2
\* The events that are kept, and where the new one lies from them.
<1>8. ASSUME NEW i \in KeptOf(t), i # n + 1
      PROVE  i \in KeptOf(seg) /\ i \in 1 .. n /\ t[i] = seg[i] /\ BaseOf(t, d, seg[i]) = BaseOf(seg, c, seg[i])
  <2>1. i \in 1 .. n /\ seg[i] > r - NrSegments
    BY <1>1, <1>2, <1>8 DEF KeptOf
  <2>2. i \in KeptOf(seg)
    <3>0. (r = Begun(seg) \/ r = Begun(seg) + 1) /\ Begun(seg) \in Nat /\ NrSegments \in Nat
      BY <1>0, <1>1, <1>3
    <3>1. seg[i] \in Nat /\ seg[i] > Begun(seg) - NrSegments
      <4>1. seg[i] \in Nat
        BY <1>1, <2>1
      <4> QED BY <2>1, <3>0, <4>1
    <3> QED BY <2>1, <3>1 DEF KeptOf
  <2>3. BaseOf(t, d, seg[i]) = BaseOf(seg, c, seg[i])
    BY <1>0, <1>2, <2>1, <2>2 DEF BaseOf
  <2> QED BY <1>2, <2>1, <2>2, <2>3
<1>9. BaseOf(t, d, r) = Base(d)
  BY <1>0, <1>2 DEF BaseOf
<1>10. ASSUME NEW i \in KeptOf(seg)
       PROVE  /\ N[i] \in Site /\ P[i] \in Nat /\ EventSize(N[i]) \in Nat /\ EventSize(N[i]) >= 2
              /\ BaseOf(seg, c, seg[i]) <= P[i]
              /\ P[i] + EventSize(N[i]) < BaseOf(seg, c, seg[i]) + SEGMENT
              /\ i = 1 \/ seg[i - 1] # seg[i] => P[i] = BaseOf(seg, c, seg[i])
              /\ i < n /\ seg[i + 1] = seg[i] => P[i + 1] = P[i] + EventSize(N[i])
              /\ \A j \in i + 1 .. n : seg[j] = seg[i] => P[i] + EventSize(N[i]) <= P[j]
  BY Sites DEF Laid, Rows
<1>11. ASSUME NEW i \in KeptOf(t), i # n + 1, seg[i] = r PROVE P[i] + EventSize(N[i]) <= p
  <2>1. i \in KeptOf(seg) /\ i \in 1 .. n /\ n \in 1 .. n /\ seg[n] = r /\ r = Begun(seg)
    BY <1>0, <1>1, <1>8, <1>11
  <2>2. n \in KeptOf(seg)
    BY <1>1, <1>3, <2>1 DEF KeptOf
  <2>3. CASE i = n
    BY <1>0, <1>10, <2>1, <2>2, <2>3
  <2>4. CASE i # n
    <3>1. n \in i + 1 .. n /\ P[i] + EventSize(N[i]) <= P[n]
      <4>1. n \in i + 1 .. n
        BY <1>1, <2>1, <2>4
      <4> QED BY <1>10, <1>11, <2>1, <4>1
    <3>2. p = P[n] + EventSize(N[n])
      BY <1>0, <2>1
    <3>3. /\ P[n] \in Nat /\ EventSize(N[n]) \in Nat
          /\ P[i] \in Nat /\ EventSize(N[i]) \in Nat
      BY <1>10, <2>1, <2>2
    <3> QED BY <3>1, <3>2, <3>3
  <2> QED BY <2>3, <2>4
<1>12. ASSUME NEW i \in KeptOf(t), i # n + 1, seg[i] # r, NEW a \in P[i] .. P[i] + EventSize(N[i])
       PROVE  a \in 0 .. TraceBufSize - 1 /\ rg2[a] = rg[a]
  <2> DEFINE s == SlotOf(Begun(seg), c, seg[i])
  <2>1. i \in KeptOf(seg) /\ i \in 1 .. n /\ seg[i] > r - NrSegments
    BY <1>2, <1>8, <1>12 DEF KeptOf
  <2>2. s # d /\ s \in 0 .. NrSegments - 1
    <3>1. Newest(Begun(seg), c)
      BY DEF Laid
    <3>2. seg[i] \in Nat /\ seg[i] >= 1 /\ seg[i] <= Begun(seg) /\ seg[i] > Begun(seg) - NrSegments
      BY <1>0, <1>1, <1>3, <2>1 DEF KeptOf
    <3>3. seg[i] \in Around(Begun(seg))
      BY <3>1, <3>2, Slots
    <3>4. s \in 0 .. NrSegments - 1
      BY <3>1, <3>3, Slots
    <3> QED BY <1>0, <1>12, <2>1, <3>4
  <2>3. Base(s) <= P[i] /\ P[i] + EventSize(N[i]) < Base(s) + SEGMENT /\ P[i] \in Nat /\ EventSize(N[i]) \in Nat
    BY <1>10, <2>1 DEF BaseOf
  <2> HIDE DEF s
  <2>4. Base(s) \in Nat
    BY <2>2, Sizes
  <2>5. a \in Int /\ Base(s) <= a /\ a < Base(s) + SEGMENT
    BY <1>3, <2>3, <2>4
  <2>6. a \in 0 .. TraceBufSize - 1 /\ (a < Base(d) \/ a >= Base(d) + SEGMENT)
    BY <1>0, <2>2, <2>5, SegmentsApart
  <2>7. a < p \/ a > p + size
    BY <1>0, <1>3, <2>5, <2>6
  <2> QED BY <1>5, <2>6, <2>7
<1>13. ASSUME NEW i \in KeptOf(t), i # n + 1, NEW a \in P[i] .. P[i] + EventSize(N[i]) - 1
       PROVE  a \in 0 .. TraceBufSize - 1 /\ rg2[a] = rg[a]
  <2>1. P[i] \in Nat /\ EventSize(N[i]) \in Nat
    BY <1>8, <1>10, <1>13
  <2>2. CASE seg[i] # r
    <3>1. a \in P[i] .. P[i] + EventSize(N[i])
      BY <2>1
    <3> QED BY <1>12, <1>13, <2>2, <3>1
  <2>3. CASE seg[i] = r
    <3>1. a \in Nat /\ a < p /\ p \in Nat
      BY <1>0, <1>11, <1>13, <2>1, <2>3
    <3>2. p \in 0 .. TraceBufSize - 1
      BY <1>0, <1>3, <1>6
    <3>3. a \in 0 .. TraceBufSize - 1
      BY <1>3, <3>1, <3>2
    <3> QED BY <1>5, <3>1, <3>3
  <2> QED BY <2>2, <2>3
\* The parts of the layout.
<1>14. Rows(t, d, P2, N2)
  <2> SUFFICES ASSUME NEW i \in KeptOf(t)
               PROVE  /\ N2[i] \in Site /\ P2[i] \in Nat
                      /\ BaseOf(t, d, t[i]) <= P2[i]
                      /\ P2[i] + EventSize(N2[i]) < BaseOf(t, d, t[i]) + SEGMENT
                      /\ i = 1 \/ t[i - 1] # t[i] => P2[i] = BaseOf(t, d, t[i])
                      /\ i < n + 1 /\ t[i + 1] = t[i] => P2[i + 1] = P2[i] + EventSize(N2[i])
                      /\ \A j \in i + 1 .. n + 1 : t[j] = t[i] => P2[i] + EventSize(N2[i]) <= P2[j]
    BY <1>2 DEF Rows
  <2>1. CASE i = n + 1
    <3>1. N2[i] \in Site /\ P2[i] \in Nat /\ P2[i] = p /\ N2[i] = nr /\ BaseOf(t, d, t[i]) = Base(d)
      BY <1>0, <1>2, <1>7, <1>9, <2>1
    <3>2. i = 1 \/ t[i - 1] # t[i] => p = Base(d)
      <4>1. CASE i = 1
        <5>1. n = 0 /\ r = Begun(seg) + 1
          BY <1>0, <1>1, <2>1, <4>1
        <5> QED BY <1>0, <5>1
      <4>2. CASE i # 1 /\ t[i - 1] # t[i]
        <5>1. i - 1 = n /\ n \in 1 .. n /\ t[n] = seg[n] /\ t[n] # r /\ seg[n] = Begun(seg)
          BY <1>1, <1>2, <2>1, <4>2
        <5> QED BY <1>0, <5>1
      <4> QED BY <4>1, <4>2
    <3>3. ~(i < n + 1) /\ i + 1 .. n + 1 = {}
      BY <1>1, <2>1
    <3> QED BY <1>0, <3>1, <3>2, <3>3
  <2>2. CASE i # n + 1
    <3>1. i \in KeptOf(seg) /\ i \in 1 .. n /\ t[i] = seg[i] /\ BaseOf(t, d, t[i]) = BaseOf(seg, c, seg[i])
      BY <1>8, <2>2
    <3>2. P2[i] = P[i] /\ N2[i] = N[i]
      BY <1>7, <3>1
    <3>3. i = 1 \/ t[i - 1] # t[i] => P[i] = BaseOf(t, d, t[i])
      <4>1. i # 1 => t[i - 1] = seg[i - 1]
        <5>1. i # 1 => i - 1 \in 1 .. n
          BY <1>1, <3>1
        <5> QED BY <1>2, <5>1
      <4> QED BY <1>10, <3>1, <4>1
    <3>4. ASSUME t[i + 1] = t[i] PROVE P2[i + 1] = P[i] + EventSize(N[i])
      <4>1. CASE i = n
        <5>1. t[n + 1] = r /\ seg[n] = r /\ n > 0 /\ r = Begun(seg)
          BY <1>1, <1>2, <3>1, <3>4, <4>1
        <5> QED BY <1>0, <1>7, <4>1, <5>1
      <4>2. CASE i # n
        <5>1. i < n /\ i + 1 \in 1 .. n
          BY <1>1, <3>1, <4>2
        <5>2. seg[i + 1] = seg[i] /\ P2[i + 1] = P[i + 1]
          BY <1>2, <1>7, <3>1, <3>4, <5>1
        <5> QED BY <1>10, <3>1, <5>1, <5>2
      <4> QED BY <4>1, <4>2
    <3>5. ASSUME NEW j \in i + 1 .. n + 1, t[j] = t[i] PROVE P[i] + EventSize(N[i]) <= P2[j]
      <4>1. CASE j = n + 1
        <5>1. seg[i] = r
          BY <1>2, <3>1, <3>5, <4>1
        <5> QED BY <1>7, <1>11, <2>2, <4>1, <5>1
      <4>2. CASE j # n + 1
        <5>1. j \in 1 .. n /\ j \in i + 1 .. n
          BY <1>1, <3>1, <3>5, <4>2
        <5>2. seg[j] = seg[i] /\ P2[j] = P[j]
          BY <1>2, <1>7, <3>1, <3>5, <5>1
        <5> QED BY <1>10, <3>1, <5>1, <5>2
      <4> QED BY <4>1, <4>2
    <3> QED BY <1>10, <3>1, <3>2, <3>3, <3>4, <3>5
  <2> QED BY <2>1, <2>2
<1>15. Events(t, rg2, P2, N2)
  <2> SUFFICES ASSUME NEW i \in KeptOf(t)
               PROVE  /\ EventAt(rg2, P2[i], N2[i], i)
                      /\ i = n + 1 \/ t[i + 1] # t[i] => rg2[P2[i] + EventSize(N2[i])] = Zero
    BY <1>2 DEF Events
  <2>1. CASE i = n + 1
    <3>1. P2[i] = p /\ N2[i] = nr
      BY <1>7, <2>1
    <3>2. rg2[p] = [nr |-> nr, time |-> i] /\ rg2[p + size] = Zero
      <4>1. p \in p .. p + size /\ p + size \in p .. p + size
        BY <1>0, <1>3
      <4>2. p \in 0 .. TraceBufSize - 1 /\ p + size \in 0 .. TraceBufSize - 1
        BY <1>6, <4>1
      <4> QED BY <1>5, <2>1, <4>2
    <3>3. \A q \in p + 1 .. p + size - 1 : rg2[q] = Arg(i)
      <4>1. \A q \in p + 1 .. p + size - 1 : q \in p .. p + size
        BY <1>0, <1>3
      <4> QED BY <1>5, <1>6, <2>1, <4>1
    <3> QED BY <3>1, <3>2, <3>3 DEF EventAt
  <2>2. CASE i # n + 1
    <3>1. i \in KeptOf(seg) /\ i \in 1 .. n /\ t[i] = seg[i] /\ P2[i] = P[i] /\ N2[i] = N[i]
      BY <1>7, <1>8, <2>2
    <3>2. /\ P[i] \in Nat /\ EventSize(N[i]) \in Nat /\ EventSize(N[i]) >= 2
          /\ rg[P[i]] = [nr |-> N[i], time |-> i]
          /\ \A q \in P[i] + 1 .. P[i] + EventSize(N[i]) - 1 : rg[q] = Arg(i)
          /\ i = n \/ seg[i + 1] # seg[i] => rg[P[i] + EventSize(N[i])] = Zero
      BY <1>10, <3>1 DEF Laid, Events, EventAt
    <3>3. EventAt(rg2, P[i], N[i], i)
      <4>1. P[i] \in P[i] .. P[i] + EventSize(N[i]) - 1
        BY <3>2
      <4>2. \A q \in P[i] + 1 .. P[i] + EventSize(N[i]) - 1 : q \in P[i] .. P[i] + EventSize(N[i]) - 1
        BY <3>2
      <4> QED BY <1>13, <2>2, <3>2, <4>1, <4>2 DEF EventAt
    <3>4. ASSUME t[i + 1] # t[i] PROVE rg2[P[i] + EventSize(N[i])] = Zero
      <4>1. seg[i] # r /\ (i = n \/ seg[i + 1] # seg[i])
        <5>1. CASE i = n
          BY <1>2, <3>1, <3>4, <5>1
        <5>2. CASE i # n
          <6>1. i + 1 \in 1 .. n /\ n \in 1 .. n /\ i < i + 1 /\ i + 1 <= n
            BY <1>1, <3>1, <5>2
          <6>2. seg[i + 1] # seg[i] /\ seg[i] <= seg[i + 1] /\ seg[i + 1] <= seg[n]
            BY <1>2, <3>1, <3>4, <6>1 DEF Laid, Numbered
          <6>3. seg[i] \in Nat /\ seg[i + 1] \in Nat /\ seg[n] <= r
            BY <1>0, <1>1, <3>1, <6>1
          <6> QED BY <1>1, <6>1, <6>2, <6>3
        <5> QED BY <5>1, <5>2
      <4>2. P[i] + EventSize(N[i]) \in P[i] .. P[i] + EventSize(N[i])
        BY <3>2
      <4> QED BY <1>12, <2>2, <3>2, <4>1, <4>2
    <3> QED BY <2>2, <3>1, <3>3, <3>4
  <2> QED BY <2>1, <2>2
<1>16. Fresh(t, rg2)
  <2> SUFFICES ASSUME NEW u \in r + 1 .. NrSegments PROVE rg2[Base(u - 1)] = Zero
    BY <1>2 DEF Fresh
  <2>1. u \in Nat /\ u > r /\ u <= NrSegments /\ u - 1 \in 0 .. NrSegments - 1 /\ u - 1 \in Nat
    BY <1>1, <1>3
  <2>2. u - 1 # d /\ Base(u - 1) \in Nat
    BY <1>0, <2>1, Sizes
  <2>3. rg[Base(u - 1)] = Zero
    <3>1. u \in Begun(seg) + 1 .. NrSegments
      BY <1>0, <1>1, <1>3, <2>1
    <3> QED BY <3>1 DEF Laid, Fresh
  <2>4. Base(u - 1) <= Base(u - 1) /\ Base(u - 1) < Base(u - 1) + SEGMENT
    BY <1>3, <2>2, TraceAssumption
  <2>5. Base(u - 1) \in 0 .. TraceBufSize - 1 /\ (Base(u - 1) < Base(d) \/ Base(u - 1) >= Base(d) + SEGMENT)
    BY <1>0, <2>1, <2>2, <2>4, SegmentsApart
  <2>6. Base(u - 1) < p \/ Base(u - 1) > p + size
    BY <1>0, <1>3, <2>2, <2>5
  <2> QED BY <1>5, <2>3, <2>5, <2>6
<1>17. Ends(t, p + size, P2, N2)
  BY <1>1, <1>2, <1>7 DEF Ends
<1> QED
  <2>1. Laid(t, rg2, p + size, d, P2, N2)
    BY <1>0, <1>2, <1>4, <1>14, <1>15, <1>16, <1>17 DEF Laid
  <2> QED BY <2>1 DEF t, rg2

\* dtracef_get_event finds the room behind the newest event, or in the next
\* segment.
LEMMA PlaceFacts ==
    ASSUME NEW c, NEW P, NEW N, Laid(segments, ring, pos, c, P, N), NEW nr \in Site
    PROVE  LET p == Place(EventSize(nr))
               r == Begun(segments)
               d == NextSlot(c)
           IN \/ /\ Len(segments) > 0 /\ p = pos /\ p % SEGMENT # 0 /\ c \in 0 .. NrSegments - 1
                 /\ p \in Nat /\ Base(c) <= p /\ p + EventSize(nr) < Base(c) + SEGMENT
              \/ /\ p = Base(d) /\ p % SEGMENT = 0 /\ d \in 0 .. NrSegments - 1
                 /\ p \in Nat /\ Base(d) <= p /\ p + EventSize(nr) < Base(d) + SEGMENT
<1> DEFINE n == Len(segments)
           r == Begun(segments)
           size == EventSize(nr)
           p == Place(size)
           d == NextSlot(c)
           next == pos + SEGMENT - (pos % SEGMENT)
<1>1. /\ n \in Nat /\ r \in Nat /\ Newest(r, c) /\ (n = 0 => r = 0)
      /\ n > 0 => n \in KeptOf(segments) /\ r = segments[n] /\ r >= 1
  BY NumberedFacts DEF Laid
<1>2. /\ SEGMENT \in Nat /\ SEGMENT >= 1 /\ NrSegments \in Nat /\ NrSegments >= 1
      /\ TraceBufSize \in Nat /\ TraceBufSize >= 1 /\ Base(NrSegments) = TraceBufSize /\ Base(0) = 0
      /\ size \in Nat /\ size >= 2 /\ size + 1 <= SEGMENT
  BY Sizes, Sites
<1>3. Fits(size, pos) <=> size + 1 <= SEGMENT - (pos % SEGMENT)
  BY Zenon DEF Fits
<1>4. p = IF Fits(size, pos) THEN (IF pos = TraceBufSize THEN 0 ELSE pos)
          ELSE (IF next = TraceBufSize THEN 0 ELSE next)
  BY DEF Place
<1> HIDE DEF p, size, d, next
<1>5. d \in 0 .. NrSegments - 1 /\ c \in Int /\ c >= -1 /\ c < NrSegments
      /\ d = IF c + 1 = NrSegments THEN 0 ELSE c + 1
  BY <1>1, <1>2 DEF Newest, NextSlot, d
<1>6. /\ \A s \in Nat : Base(s) \in Nat /\ Base(s + 1) = Base(s) + SEGMENT
      /\ \A s, t \in Nat : s < t => Base(s) + SEGMENT <= Base(t)
  BY Sizes
<1>7. Base(d) \in Nat /\ Base(d) % SEGMENT = 0 /\ d \in Nat
  <2>1. d \in Nat
    BY <1>5
  <2>2. Base(d) \in Nat
    BY <1>6, <2>1
  <2>3. Base(d) <= Base(d) /\ Base(d) < Base(d) + SEGMENT /\ Base(d) - Base(d) = 0
    BY <1>2, <2>2
  <2> QED BY <2>1, <2>2, <2>3, InSegment
<1>8. CASE n = 0
  <2>1. pos = 0 /\ c = -1 /\ d = 0 /\ Base(d) = 0
    <3>1. pos = 0 /\ c = -1
      BY <1>1, <1>2, <1>8 DEF Laid, Ends, Newest
    <3> QED BY <1>2, <1>5, <3>1
  <2>2. p = 0
    <3>1. pos % SEGMENT = 0
      BY <1>7, <2>1
    <3> QED BY <1>2, <1>3, <1>4, <2>1, <3>1
  <2> QED BY <1>2, <1>5, <1>7, <2>1, <2>2 DEF p, d, size
<1>9. CASE n > 0
  <2>1. c \in 0 .. NrSegments - 1 /\ c \in Nat /\ Base(c) \in Nat /\ Base(c) + SEGMENT <= TraceBufSize
    <3>1. c >= 0
      BY <1>1, <1>2, <1>9 DEF Newest
    <3> QED BY <1>2, <1>5, <1>6, <3>1
  <2>2. pos \in Nat /\ Base(c) + 2 <= pos /\ pos < Base(c) + SEGMENT
    <3>1. pos = P[n] + EventSize(N[n])
      BY <1>9 DEF Laid, Ends
    <3>2. BaseOf(segments, c, segments[n]) = Base(c)
      BY <1>1, <1>9, Slots DEF BaseOf
    <3>3. /\ P[n] \in Nat /\ EventSize(N[n]) \in Nat /\ EventSize(N[n]) >= 2
          /\ Base(c) <= P[n] /\ P[n] + EventSize(N[n]) < Base(c) + SEGMENT
      BY <1>1, <1>9, <3>2, Sites DEF Laid, Rows
    <3> QED BY <2>1, <3>1, <3>3
  <2>3. pos % SEGMENT = pos - Base(c) /\ pos % SEGMENT # 0
    BY <2>1, <2>2, InSegment
  <2>4. CASE Fits(size, pos)
    <3>1. pos # TraceBufSize
      BY <1>2, <2>1, <2>2
    <3>2. p = pos
      BY <1>4, <2>4, <3>1
    <3>3. pos + size < Base(c) + SEGMENT
      BY <1>2, <1>3, <2>1, <2>2, <2>3, <2>4
    <3> QED BY <1>9, <2>1, <2>2, <2>3, <3>2, <3>3 DEF p, size
  <2>5. CASE ~Fits(size, pos)
    <3>1. next = Base(c) + SEGMENT /\ next = Base(c + 1)
      <4>1. next = pos + SEGMENT - (pos - Base(c))
        BY <2>3 DEF next
      <4>2. pos + SEGMENT - (pos - Base(c)) = Base(c) + SEGMENT
        BY <1>2, <2>1, <2>2
      <4>3. Base(c + 1) = Base(c) + SEGMENT
        BY <1>6, <2>1
      <4> QED BY <4>1, <4>2, <4>3
    <3>2. p = Base(d)
      <4>1. CASE c + 1 = NrSegments
        BY <1>2, <1>4, <1>5, <2>5, <3>1, <4>1
      <4>2. CASE c + 1 # NrSegments
        <5>1. c + 1 \in Nat /\ c + 1 < NrSegments /\ d = c + 1 /\ NrSegments \in Nat
          BY <1>2, <1>5, <2>1, <4>2
        <5>2. Base(c + 1) + SEGMENT <= TraceBufSize /\ Base(c + 1) \in Nat
          BY <1>2, <1>6, <5>1
        <5>3. Base(c + 1) # TraceBufSize
          BY <1>2, <5>2
        <5> QED BY <1>4, <2>5, <3>1, <5>1, <5>3
      <4> QED BY <4>1, <4>2
    <3> QED BY <1>2, <1>5, <1>7, <3>2 DEF p, d, size
  <2> QED BY <2>4, <2>5
<1> QED BY <1>1, <1>8, <1>9

\* dtracef_get_event and the stores of the arguments keep the layout.
LEMMA TraceKeeps ==
    ASSUME NEW c, NEW P, NEW N, Laid(segments, ring, pos, c, P, N), NEW nr \in Site, Trace(nr)
    PROVE  \E d, P2, N2 : Laid(segments', ring', pos', d, P2, N2)
<1> DEFINE n == Len(segments)
           r == Begun(segments)
           p == Place(EventSize(nr))
           rg2 == RingWith(ring, p, nr, n + 1)
<1>1. /\ n \in Nat /\ r \in Nat /\ Newest(r, c) /\ (n = 0 => r = 0) /\ segments \in Seq(Nat)
      /\ n > 0 => r = segments[n] /\ r >= 1
  BY NumberedFacts DEF Laid, Numbered
<1>2. /\ ring' = rg2 /\ pos' = p + EventSize(nr)
      /\ segments' = Append(segments, IF segments = <<>> THEN 1
                                      ELSE IF p % SEGMENT = 0 THEN Last(segments) + 1 ELSE Last(segments))
  <2>1. pos' = p + EventSize(nr)
    BY DEF Trace
  <2>2. ring' = rg2
    BY DEF Trace
  <2>3. segments' = Append(segments, IF segments = <<>> THEN 1
                                     ELSE IF p % SEGMENT = 0 THEN Last(segments) + 1 ELSE Last(segments))
    BY DEF Trace
  <2> QED BY <2>1, <2>2, <2>3
<1>3. (segments = <<>> <=> n = 0) /\ (n > 0 => Last(segments) = r)
  BY <1>1 DEF Last
<1>4. \/ /\ n > 0 /\ p = pos /\ p % SEGMENT # 0 /\ c \in 0 .. NrSegments - 1
         /\ p \in Nat /\ Base(c) <= p /\ p + EventSize(nr) < Base(c) + SEGMENT
      \/ /\ p = Base(NextSlot(c)) /\ p % SEGMENT = 0 /\ NextSlot(c) \in 0 .. NrSegments - 1
         /\ p \in Nat /\ Base(NextSlot(c)) <= p /\ p + EventSize(nr) < Base(NextSlot(c)) + SEGMENT
  BY PlaceFacts
<1>5. \A i \in KeptOf(segments) :
         segments[i] \in Nat /\ segments[i] >= 1 /\ segments[i] <= r /\ segments[i] > r - NrSegments
  BY NumberedFacts DEF KeptOf, Laid
<1> HIDE DEF p, rg2
\* In the same segment.
<1>6. CASE n > 0 /\ p % SEGMENT # 0
  <2>1. /\ p = pos /\ c \in 0 .. NrSegments - 1
        /\ p \in Nat /\ Base(c) <= p /\ p + EventSize(nr) < Base(c) + SEGMENT
    BY <1>4, <1>6
  <2>2. segments' = Append(segments, r) /\ r >= 1 /\ r # r + 1
    BY <1>1, <1>2, <1>3, <1>6
  <2>3. SlotOf(r, c, r) = c /\ \A u \in Around(r) : u # r => SlotOf(r, c, u) # c
    BY <1>1, <2>2, Slots
  <2>4. \A i \in KeptOf(segments) : segments[i] # r => SlotOf(r, c, segments[i]) # c
    BY <1>1, <1>5, <2>3, Slots
  <2>5. \A u \in Nat : u > r /\ u <= NrSegments => u - 1 # c
    BY <1>1, Sizes DEF Newest
  <2>6. p = P[n] + EventSize(N[n])
    BY <1>6, <2>1 DEF Laid, Ends
  <2>7. EventGoes(segments, c, P, N, r, c, p, nr)
    BY <1>1, <1>6, <2>1, <2>2, <2>3, <2>4, <2>5, <2>6 DEF EventGoes
  <2>8. \E P2, N2 : Laid(Append(segments, r), rg2, p + EventSize(nr), c, P2, N2)
    BY <2>7, LaidOn DEF rg2
  <2> QED BY <1>2, <2>2, <2>8
\* In the next one.
<1>7. CASE n = 0 \/ p % SEGMENT = 0
  <2> DEFINE d == NextSlot(c)
  <2>1. /\ p = Base(d) /\ d \in 0 .. NrSegments - 1
        /\ p \in Nat /\ Base(d) <= p /\ p + EventSize(nr) < Base(d) + SEGMENT
    BY <1>1, <1>4, <1>7
  <2>2. segments' = Append(segments, r + 1) /\ r + 1 >= 1 /\ r + 1 # r
    <3>1. CASE n = 0
      BY <1>1, <1>2, <1>3, <3>1
    <3>2. CASE n > 0
      BY <1>1, <1>2, <1>3, <1>7, <3>2
    <3> QED BY <1>1, <3>1, <3>2
  <2>3. /\ Newest(r + 1, d) /\ SlotOf(r + 1, d, r + 1) = d
        /\ \A u \in Nat : u > r + 1 /\ u <= NrSegments => u - 1 # d
    BY <1>1, SlotsMove
  <2>4. \A i \in KeptOf(segments) : segments[i] > r + 1 - NrSegments =>
           SlotOf(r + 1, d, segments[i]) = SlotOf(r, c, segments[i]) /\ SlotOf(r + 1, d, segments[i]) # d
    BY <1>1, <1>5, SlotsMove
  <2> HIDE DEF d
  <2>5. EventGoes(segments, c, P, N, r + 1, d, p, nr)
    <3> DEFINE r2 == r + 1
    <3>1. r + 1 \in Nat /\ r + 1 >= 1 /\ r + 1 # r
      BY <1>1
    <3>2. r2 = r + 1 /\ r2 # r /\ r2 >= 1
      BY <3>1
    <3>4. Newest(r2, d) /\ SlotOf(r2, d, r2) = d
      BY <2>3
    <3>5. \A u \in Nat : u > r2 /\ u <= NrSegments => u - 1 # d
      BY <2>3
    <3>6. \A i \in KeptOf(segments) : segments[i] > r2 - NrSegments =>
             /\ SlotOf(r2, d, segments[i]) = SlotOf(r, c, segments[i])
             /\ segments[i] # r2 => SlotOf(r2, d, segments[i]) # d
      <4> SUFFICES ASSUME NEW i \in KeptOf(segments), segments[i] > r2 - NrSegments
                   PROVE  /\ SlotOf(r2, d, segments[i]) = SlotOf(r, c, segments[i])
                          /\ SlotOf(r2, d, segments[i]) # d
        OBVIOUS
      <4>1. segments[i] > r + 1 - NrSegments
        BY <1>1, Sizes
      <4> QED BY <2>4, <4>1
    <3> HIDE DEF r2
    <3>7. EventGoes(segments, c, P, N, r2, d, p, nr)
      BY <2>1, <3>2, <3>4, <3>5, <3>6 DEF EventGoes
    <3> QED BY <3>2, <3>7
  <2>6. \E P2, N2 : Laid(Append(segments, r + 1), rg2, p + EventSize(nr), d, P2, N2)
    BY <2>5, LaidOn DEF rg2
  <2> QED BY <1>2, <2>2, <2>6
<1> QED BY <1>1, <1>4, <1>6, <1>7
-----------------------------------------------------------------------------
(* The events that are kept are the last ones.                             *)

\* Lost counts the events that are not kept, and those are the first ones.
LEMMA LostFacts ==
    ASSUME Numbered(segments)
    PROVE  /\ Lost \in Nat /\ Lost <= Len(segments)
           /\ \A i \in 1 .. Len(segments) : i \in KeptOf(segments) <=> i > Lost
<1> DEFINE n == Len(segments)
           r == Begun(segments)
           Gone == {i \in DOMAIN segments : segments[i] <= Last(segments) - NrSegments}
<1>1. /\ n \in Nat /\ r \in Nat /\ NrSegments \in Nat /\ DOMAIN segments = 1 .. n
      /\ n > 0 => r = segments[n] /\ n \in KeptOf(segments) /\ Last(segments) = r
      /\ \A i \in 1 .. n : segments[i] \in Nat
  <2>1. /\ n \in Nat /\ r \in Nat /\ segments \in Seq(Nat)
        /\ n > 0 => r = segments[n] /\ n \in KeptOf(segments)
    BY NumberedFacts DEF Numbered
  <2>2. DOMAIN segments = 1 .. n /\ (\A i \in 1 .. n : segments[i] \in Nat) /\ Last(segments) = segments[n]
    BY <2>1 DEF Last
  <2> QED BY <2>1, <2>2, Sizes
<1>2. Lost = Cardinality(Gone)
  BY DEF Lost
<1>3. CASE n = 0
  <2>1. Gone = {}
    BY <1>1, <1>3
  <2> QED BY <1>1, <1>2, <1>3, <2>1, FS_EmptySet
<1>4. CASE n > 0
  <2>1. PICK x \in KeptOf(segments) : \A y \in KeptOf(segments) : x <= y
    <3>1. KeptOf(segments) \subseteq Nat /\ KeptOf(segments) # {}
      BY <1>1, <1>4 DEF KeptOf
    <3> QED BY <3>1, LeastNat
  <2>2. x \in 1 .. n /\ segments[x] > r - NrSegments
    BY <2>1 DEF KeptOf
  <2>3. ASSUME NEW i \in 1 .. n PROVE i \in KeptOf(segments) <=> i >= x
    <3>1. ASSUME i >= x PROVE i \in KeptOf(segments)
      <4>1. segments[x] <= segments[i]
        BY <2>2, <3>1 DEF Numbered
      <4>2. segments[i] > r - NrSegments
        BY <1>1, <2>2, <4>1
      <4> QED BY <4>2 DEF KeptOf
    <3> QED BY <2>1, <3>1
  <2>4. Gone = 1 .. x - 1
    <3>1. \A i \in 1 .. n : i \in Gone <=> i \notin KeptOf(segments)
      BY <1>1, <1>4 DEF KeptOf
    <3>2. \A i \in Gone : i \in 1 .. n
      BY <1>1
    <3> HIDE DEF Gone
    <3>3. ASSUME NEW i \in 1 .. x - 1 PROVE i \in Gone
      <4>1. i \in 1 .. n /\ ~(i >= x)
        BY <1>1, <2>2
      <4> QED BY <2>3, <3>1, <4>1
    <3>4. ASSUME NEW i \in Gone PROVE i \in 1 .. x - 1
      <4>1. i \in 1 .. n /\ ~(i >= x)
        BY <2>3, <3>1, <3>2
      <4> QED BY <1>1, <2>2, <4>1
    <3> QED BY <3>3, <3>4
  <2>5. Cardinality(1 .. x - 1) = x - 1
    <3>1. 1 \in Int /\ x - 1 \in Int /\ ~(1 > x - 1 + 1)
      BY <1>1, <2>2
    <3>2. Cardinality(1 .. x - 1) = IF 1 > x - 1 THEN 0 ELSE x - 1 - 1 + 1
      BY <3>1, FS_Interval
    <3> QED BY <1>1, <2>2, <3>2
  <2> HIDE DEF Gone
  <2>6. Lost = x - 1
    BY <1>2, <2>4, <2>5
  <2> QED BY <1>1, <2>2, <2>3, <2>6
<1> QED BY <1>1, <1>3, <1>4

\* Each segment that was begun has a first event.
LEMMA FirstOf ==
    ASSUME NEW seg, Numbered(seg), NEW u \in Nat, u >= 1, u <= Begun(seg)
    PROVE  \E f \in 1 .. Len(seg) : /\ seg[f] = u
                                    /\ f = 1 \/ seg[f - 1] # u
                                    /\ \A i \in 1 .. Len(seg) : i < f => seg[i] < u
<1> DEFINE n == Len(seg)
           T == {i \in 1 .. n : seg[i] >= u}
<1>1. /\ n \in Nat /\ n > 0 /\ Begun(seg) = seg[n]
      /\ \A i \in 1 .. n : seg[i] \in Nat
      /\ seg[1] = 1
  BY NumberedFacts DEF Numbered
<1>2. T \subseteq Nat /\ n \in T
  BY <1>1
<1>3. PICK f \in T : \A y \in T : f <= y
  BY <1>2, LeastNat
<1>4. \A i \in 1 .. n : i < f => seg[i] < u
  BY <1>1, <1>3
<1>5. f \in 1 .. n /\ seg[f] >= u
  BY <1>3
<1>6. CASE f = 1
  BY <1>1, <1>4, <1>5, <1>6
<1>7. CASE f # 1
  <2>1. f \in 2 .. n /\ f - 1 \in 1 .. n /\ f - 1 < f
    BY <1>1, <1>5, <1>7
  <2>2. seg[f] = seg[f - 1] \/ seg[f] = seg[f - 1] + 1
    BY <2>1 DEF Numbered
  <2>3. seg[f - 1] < u /\ seg[f - 1] \in Nat
    BY <1>1, <1>4, <2>1
  <2>4. seg[f] = u /\ seg[f - 1] # u
    BY <1>5, <2>2, <2>3
  <2> QED BY <1>4, <1>5, <2>4
<1> QED BY <1>6, <1>7

\* What the cell at the start of a segment is: its first event, or a zero when
\* it was never begun.
LEMMA AtBase ==
    ASSUME NEW seg, NEW rg, NEW ps, NEW c, NEW P, NEW N, Laid(seg, rg, ps, c, P, N),
           NEW u \in Around(Begun(seg))
    PROVE  /\ u <= Begun(seg) =>
                \E f \in 1 .. Len(seg) :
                   /\ seg[f] = u /\ N[f] \in Site
                   /\ rg[BaseOf(seg, c, u)] = [nr |-> N[f], time |-> f]
                   /\ \A i \in 1 .. Len(seg) : i < f => seg[i] < u
           /\ u > Begun(seg) => rg[BaseOf(seg, c, u)] = Zero
<1> DEFINE r == Begun(seg)
<1>1. Numbered(seg) /\ Newest(r, c) /\ r \in Nat /\ NrSegments \in Nat /\ Len(seg) \in Nat
  BY NumberedFacts, Sizes DEF Laid
<1>2. u \in Nat /\ u >= 1 /\ u > r - NrSegments /\ u \in Around(r)
  <2>1. Oldest(r) \in Nat /\ Oldest(r) >= 1
    BY <1>1, Slots
  <2>2. u \in Nat /\ u > r - NrSegments
    BY <1>1, Slots
  <2>3. u >= 1
    BY <1>1, <2>1, <2>2 DEF Around
  <2> QED BY <2>2, <2>3
<1>3. CASE u <= r
  <2>1. PICK f \in 1 .. Len(seg) : /\ seg[f] = u
                                   /\ f = 1 \/ seg[f - 1] # u
                                   /\ \A i \in 1 .. Len(seg) : i < f => seg[i] < u
    BY <1>1, <1>2, <1>3, FirstOf
  <2>2. f \in KeptOf(seg)
    BY <1>2, <2>1 DEF KeptOf
  <2>3. N[f] \in Site /\ P[f] = BaseOf(seg, c, u)
    BY <2>1, <2>2 DEF Laid, Rows
  <2>4. rg[P[f]] = [nr |-> N[f], time |-> f]
    BY <2>2 DEF Laid, Events, EventAt
  <2> QED BY <1>1, <1>2, <1>3, <2>1, <2>3, <2>4
<1>4. CASE u > r
  <2>1. SlotOf(r, c, u) = u - 1 /\ Oldest(r) = 1
    BY <1>1, <1>2, <1>4, Slots
  <2>2. u \in r + 1 .. NrSegments
    BY <1>1, <1>2, <1>4, <2>1 DEF Around
  <2>3. rg[Base(u - 1)] = Zero
    BY <2>2 DEF Laid, Fresh
  <2> QED BY <1>1, <1>2, <1>4, <2>1, <2>3 DEF BaseOf
<1> QED BY <1>1, <1>2, <1>3, <1>4

\* The segment that a slot holds, or would hold.
SegmentIn(r, c, s) ==
    IF s > c /\ r >= NrSegments THEN s + r - c - NrSegments ELSE s + r - c

\* It is one of those once around the ring.
LEMMA SegmentInFacts ==
    ASSUME NEW r, NEW c, Newest(r, c), NEW s \in 0 .. NrSegments - 1
    PROVE  SegmentIn(r, c, s) \in Around(r) /\ SlotOf(r, c, SegmentIn(r, c, s)) = s
<1>1. NrSegments \in Nat /\ NrSegments >= 1
  BY Sizes
<1>2. r \in Nat /\ c \in Int /\ -1 <= c /\ c < NrSegments /\ c < r
  BY DEF Newest
<1>3. (r <= NrSegments => c = r - 1) /\ (r > NrSegments => c >= 0)
  BY DEF Newest
<1> QED BY <1>1, <1>2, <1>3 DEF SegmentIn, Around, Oldest, SlotOf

\* find_oldest finds the oldest segment.
LEMMA OldestFound ==
    ASSUME NEW c, NEW P, NEW N, Laid(segments, ring, pos, c, P, N)
    PROVE  FindOldest = BaseOf(segments, c, Oldest(Begun(segments)))
<1> DEFINE n == Len(segments)
           r == Begun(segments)
           first(s) == ring[Base(s)]
           older == {s \in 0 .. NrSegments - 1 :
                       /\ \A u \in 0 .. s : first(u).nr # 0
                       /\ first(s).time < first(0).time}
<1>1. /\ Numbered(segments) /\ Newest(r, c) /\ r \in Nat /\ n \in Nat
      /\ NrSegments \in Nat /\ NrSegments >= 1 /\ TraceBufSize \in Nat /\ TraceBufSize >= 1
      /\ DOMAIN ring = 0 .. TraceBufSize - 1
      /\ c \in Int /\ -1 <= c /\ c < NrSegments /\ c < r
      /\ (r <= NrSegments => c = r - 1) /\ (r > NrSegments => c >= 0)
  <2>1. Numbered(segments) /\ Newest(r, c) /\ DOMAIN ring = 0 .. TraceBufSize - 1
    BY DEF Laid
  <2>2. r \in Nat /\ n \in Nat
    BY <2>1, NumberedFacts
  <2> QED BY <2>1, <2>2, Sizes DEF Newest
<1>2. ring # <<>>
  <2>1. 0 \in DOMAIN ring
    BY <1>1
  <2> QED BY <2>1
<1>3. FindOldest = IF older = {} THEN 0 ELSE Min(older) * SEGMENT
  BY <1>2, Zenon DEF FindOldest, Base
<1> HIDE DEF older
<1>4. ASSUME NEW s \in 0 .. NrSegments - 1
      PROVE  LET u == SegmentIn(r, c, s) IN
             /\ u \in Nat
             /\ u <= r => \E f \in 1 .. n : /\ segments[f] = u /\ first(s).nr \in Site /\ first(s).time = f
                                            /\ \A i \in 1 .. n : i < f => segments[i] < u
             /\ u > r => first(s).nr = 0
  <2> DEFINE u == SegmentIn(r, c, s)
  <2>1. u \in Around(r) /\ SlotOf(r, c, u) = s
    BY <1>1, SegmentInFacts
  <2>2. u \in Nat /\ BaseOf(segments, c, u) = Base(s)
    BY <1>1, <2>1, Slots DEF BaseOf
  <2> HIDE DEF u
  <2>3. ASSUME u <= r
        PROVE  \E f \in 1 .. n : /\ segments[f] = u /\ first(s).nr \in Site /\ first(s).time = f
                                 /\ \A i \in 1 .. n : i < f => segments[i] < u
    <3>1. PICK f \in 1 .. n : /\ segments[f] = u /\ N[f] \in Site
                              /\ first(s) = [nr |-> N[f], time |-> f]
                              /\ \A i \in 1 .. n : i < f => segments[i] < u
      BY <2>1, <2>2, <2>3, AtBase
    <3>2. first(s).nr = N[f] /\ first(s).time = f
      BY <3>1
    <3> QED BY <3>1, <3>2
  <2>4. ASSUME u > r PROVE first(s).nr = 0
    BY <2>1, <2>2, <2>4, AtBase DEF Zero
  <2> QED BY <2>2, <2>3, <2>4 DEF u
<1>5. 0 \in 0 .. NrSegments - 1
  BY <1>1
\* A segment that was begun earlier than another has an earlier first event.
<1>6. ASSUME NEW s \in 0 .. NrSegments - 1, NEW t \in 0 .. NrSegments - 1,
             SegmentIn(r, c, s) < SegmentIn(r, c, t), SegmentIn(r, c, t) <= r
      PROVE  first(s).time < first(t).time /\ ~(first(t).time < first(s).time)
  <2>0. SegmentIn(r, c, s) \in Nat /\ SegmentIn(r, c, t) \in Nat /\ SegmentIn(r, c, s) <= r
    BY <1>1, <1>4, <1>6
  <2>1. PICK f \in 1 .. n : segments[f] = SegmentIn(r, c, s) /\ first(s).time = f
    BY <1>4, <2>0
  <2>2. PICK g \in 1 .. n : /\ segments[g] = SegmentIn(r, c, t) /\ first(t).time = g
                            /\ \A i \in 1 .. n : i < g => segments[i] < SegmentIn(r, c, t)
    BY <1>4, <1>6
  <2>3. f < g
    <3>1. ASSUME g <= f PROVE FALSE
      <4>1. segments[g] <= segments[f]
        BY <1>1, <3>1 DEF Numbered
      <4> QED BY <1>6, <2>0, <2>1, <2>2, <4>1
    <3> QED BY <1>1, <3>1
  <2> QED BY <1>1, <2>1, <2>2, <2>3
<1>7. CASE r <= NrSegments
  <2>1. ASSUME NEW s \in older PROVE FALSE
    <3>1. /\ s \in 0 .. NrSegments - 1 /\ first(s).nr # 0 /\ first(s).time < first(0).time
      BY <1>1 DEF older
    <3>2. SegmentIn(r, c, s) = s + 1 /\ SegmentIn(r, c, 0) = 1
      BY <1>1, <1>7, <3>1 DEF SegmentIn
    <3>3. s + 1 <= r
      BY <1>1, <1>4, <3>1, <3>2
    <3>4. PICK f \in 1 .. n : first(s).time = f
      BY <1>4, <3>1, <3>2, <3>3
    <3>5. CASE s = 0
      BY <1>1, <3>1, <3>4, <3>5
    <3>6. CASE s # 0
      <4>1. SegmentIn(r, c, 0) < SegmentIn(r, c, s) /\ SegmentIn(r, c, s) <= r
        BY <3>1, <3>2, <3>3, <3>6
      <4> QED BY <1>5, <1>6, <3>1, <4>1
    <3> QED BY <3>5, <3>6
  <2>2. FindOldest = 0
    BY <1>3, <2>1
  <2>3. SlotOf(r, c, Oldest(r)) = 0
    BY <1>1, <1>7 DEF SlotOf, Oldest
  <2> QED BY <2>2, <2>3, Sizes DEF BaseOf
<1>8. CASE r > NrSegments
  <2>1. ASSUME NEW s \in 0 .. NrSegments - 1
        PROVE  /\ SegmentIn(r, c, s) <= r /\ first(s).nr # 0 /\ s \in Nat
               /\ s <= c => SegmentIn(r, c, 0) <= SegmentIn(r, c, s)
               /\ s > c => SegmentIn(r, c, s) < SegmentIn(r, c, 0)
    <3>1. /\ SegmentIn(r, c, s) <= r /\ s \in Nat
          /\ s <= c => SegmentIn(r, c, 0) <= SegmentIn(r, c, s)
          /\ s > c => SegmentIn(r, c, s) < SegmentIn(r, c, 0)
      BY <1>1, <1>8 DEF SegmentIn
    <3>2. first(s).nr \in Site
      BY <1>4, <3>1
    <3>3. first(s).nr # 0
      BY <3>2, Sites
    <3> QED BY <3>1, <3>3
  <2>2. ASSUME NEW s \in 0 .. NrSegments - 1 PROVE s \in older <=> s > c
    <3>1. \A u \in 0 .. s : first(u).nr # 0
      <4>1. \A u \in 0 .. s : u \in 0 .. NrSegments - 1
        BY <1>1
      <4> QED BY <2>1, <4>1
    <3>2. s \in older <=> first(s).time < first(0).time
      BY <3>1 DEF older
    <3>3. CASE s > c
      BY <1>5, <1>6, <2>1, <3>2, <3>3
    <3>4. CASE s <= c
      <4>1. CASE s = 0
        <5>1. PICK f \in 1 .. n : first(s).time = f
          BY <1>4, <2>1
        <5> QED BY <1>1, <3>2, <3>4, <4>1, <5>1
      <4>2. CASE s # 0
        <5>1. SegmentIn(r, c, 0) < SegmentIn(r, c, s)
          BY <1>1, <1>8, <3>4, <4>2 DEF SegmentIn
        <5>2. ~(first(s).time < first(0).time)
          BY <1>5, <1>6, <2>1, <5>1
        <5> QED BY <1>1, <3>2, <3>4, <5>2
      <4> QED BY <4>1, <4>2
    <3> QED BY <1>1, <3>3, <3>4
  <2>3. older \subseteq 0 .. NrSegments - 1
    BY DEF older
  <2>4. CASE c = NrSegments - 1
    <3>1. older = {}
      BY <1>1, <2>2, <2>3, <2>4
    <3>2. SlotOf(r, c, Oldest(r)) = 0
      BY <1>1, <1>8, <2>4 DEF SlotOf, Oldest
    <3> QED BY <1>3, <3>1, <3>2, Sizes DEF BaseOf
  <2>5. CASE c # NrSegments - 1
    <3>1. c + 1 \in older /\ \A s \in older : c + 1 <= s /\ s \in Nat
      BY <1>1, <1>8, <2>2, <2>3, <2>5
    <3>2. Min(older) = c + 1
      <4>1. Min(older) \in older /\ \A s \in older : Min(older) <= s
        BY <3>1, Zenon DEF Min
      <4> QED BY <1>1, <3>1, <4>1
    <3>3. SlotOf(r, c, Oldest(r)) = c + 1
      BY <1>1, <1>8, <2>5 DEF SlotOf, Oldest
    <3> QED BY <1>3, <3>1, <3>2, <3>3 DEF BaseOf, Base
  <2> QED BY <2>4, <2>5
<1> QED BY <1>1, <1>7, <1>8
-----------------------------------------------------------------------------
(* The walk.  It is in a segment of those once around the ring, at the next *)
(* event to print, or at a zero or the end of the ring with all the events  *)
(* of its segment printed.                                                 *)

\* Behind event e - 1 nothing is left of segment u.
Behind(seg, e, u) ==
    /\ e <= Len(seg) => seg[e] = u + 1 /\ (e = 1 \/ seg[e - 1] # seg[e])
    /\ e > Len(seg) => u >= Begun(seg)

AtEvent(seg, P, e, u, a) == e <= Len(seg) /\ seg[e] = u /\ a = P[e]

AtZero(seg, rg, c, e, u, a) ==
    /\ a \in DOMAIN rg /\ rg[a].nr = 0 /\ BaseOf(seg, c, u) <= a /\ a < BaseOf(seg, c, u) + SEGMENT
    /\ Behind(seg, e, u)

AtEnd(seg, c, e, u, a) ==
    a = TraceBufSize /\ SlotOf(Begun(seg), c, u) = NrSegments - 1 /\ Behind(seg, e, u)

Walk(seg, rg, c, P, e, a) == \E u \in Around(Begun(seg)) :
    AtEvent(seg, P, e, u, a) \/ AtZero(seg, rg, c, e, u, a) \/ AtEnd(seg, c, e, u, a)

\* The events that are printed are the first ones of those that are kept.
PrintedTo(pr, l, k) == pr \in [1 .. k -> SUBSET Nat] /\ \A i \in 1 .. k : pr[i] = {l + i}

Walking(seg, rg, c, P, l, st, a, pr) ==
    /\ st = BaseOf(seg, c, Oldest(Begun(seg)))
    /\ \E k \in 0 .. Len(seg) - l : PrintedTo(pr, l, k) /\ Walk(seg, rg, c, P, l + k + 1, a)

\* What is printed so far is a prefix of what is kept, and is all of it at the
\* end.
LEMMA PrintedFacts ==
    ASSUME Numbered(segments), NEW k \in 0 .. Len(segments) - Lost, NEW pr, PrintedTo(pr, Lost, k)
    PROVE  /\ IsPrefix(pr, Kept)
           /\ k = Len(segments) - Lost => pr = Kept
           /\ PrintedTo(Append(pr, {Lost + k + 1}), Lost, k + 1)
<1> DEFINE m == Len(segments) - Lost
<1>1. Lost \in Nat /\ m \in Nat /\ k \in Nat /\ k <= m
  BY LostFacts, NumberedFacts
<1>2. pr \in [1 .. k -> SUBSET Nat] /\ \A i \in 1 .. k : pr[i] = {Lost + i}
  BY DEF PrintedTo
<1>3. Kept \in [1 .. m -> SUBSET Nat] /\ \A i \in 1 .. m : Kept[i] = {Lost + i}
  <2>1. Kept = [i \in 1 .. m |-> {Lost + i}]
    BY DEF Kept
  <2>2. \A i \in 1 .. m : {Lost + i} \in SUBSET Nat
    BY <1>1
  <2> QED BY <2>1, <2>2
<1> HIDE DEF m
<1>4. pr \in Seq(SUBSET Nat) /\ Kept \in Seq(SUBSET Nat) /\ Len(pr) = k /\ Len(Kept) = m
  BY <1>1, <1>2, <1>3
<1>5. IsPrefix(pr, Kept)
  <2>1. \A i \in 1 .. k : i \in 1 .. m
    BY <1>1
  <2>2. \A i \in 1 .. k : pr[i] = Kept[i]
    BY <1>2, <1>3, <2>1
  <2> QED BY <1>1, <1>4, <2>2, PrefixByElements
<1>6. ASSUME k = m PROVE pr = Kept
  <2>1. pr \in [1 .. m -> SUBSET Nat] /\ \A i \in 1 .. m : pr[i] = Kept[i]
    BY <1>2, <1>3, <1>6
  <2>2. pr = [i \in 1 .. m |-> pr[i]] /\ Kept = [i \in 1 .. m |-> Kept[i]]
    BY <1>3, <2>1
  <2>3. [i \in 1 .. m |-> pr[i]] = [i \in 1 .. m |-> Kept[i]]
    BY <2>1
  <2> QED BY <2>2, <2>3, Zenon
<1>7. PrintedTo(Append(pr, {Lost + k + 1}), Lost, k + 1)
  <2> DEFINE q == Append(pr, {Lost + k + 1})
  <2>1. {Lost + k + 1} \in SUBSET Nat
    BY <1>1
  <2>2. q \in Seq(SUBSET Nat) /\ Len(q) = k + 1 /\ \A i \in 1 .. k : q[i] = pr[i]
    BY <1>4, <2>1, AppendFacts
  <2>3. q[k + 1] = {Lost + k + 1}
    BY <1>1, <1>4, <2>1
  <2> HIDE DEF q
  <2>4. q \in [1 .. k + 1 -> SUBSET Nat]
    BY <1>1, <2>2
  <2>5. \A i \in 1 .. k + 1 : q[i] = {Lost + i}
    <3>1. \A i \in 1 .. k + 1 : i \in 1 .. k \/ i = k + 1
      BY <1>1
    <3>2. Lost + k + 1 = Lost + (k + 1)
      BY <1>1
    <3> QED BY <1>2, <2>2, <2>3, <3>1, <3>2
  <2> QED BY <2>4, <2>5 DEF PrintedTo, q
<1> QED BY <1>5, <1>6, <1>7 DEF m

\* What the walk needs of the layout.
LEMMA WalkFacts ==
    ASSUME NEW c, NEW P, NEW N, Laid(segments, ring, pos, c, P, N)
    PROVE  LET n == Len(segments)
               r == Begun(segments)
           IN /\ Numbered(segments) /\ Newest(r, c)
              /\ n \in Nat /\ r \in Nat /\ NrSegments \in Nat /\ NrSegments >= 1
              /\ SEGMENT \in Nat /\ SEGMENT >= 1 /\ TraceBufSize \in Nat /\ TraceBufSize >= 1
              /\ DOMAIN ring = 0 .. TraceBufSize - 1 /\ Cardinality(DOMAIN ring) = TraceBufSize
              /\ Lost \in Nat /\ Lost <= n
              /\ Oldest(r) \in Nat /\ Oldest(r) \in Around(r)
              /\ \A u \in Around(r) : /\ u \in Nat /\ SlotOf(r, c, u) \in 0 .. NrSegments - 1
                                      /\ SlotOf(r, c, u) \in Nat
                                      /\ BaseOf(segments, c, u) = Base(SlotOf(r, c, u))
                                      /\ BaseOf(segments, c, u) \in DOMAIN ring
                                      /\ BaseOf(segments, c, u) \in Nat
<1> DEFINE n == Len(segments)
           r == Begun(segments)
<1>1. /\ Numbered(segments) /\ Newest(r, c) /\ n \in Nat /\ r \in Nat
      /\ DOMAIN ring = 0 .. TraceBufSize - 1
  BY NumberedFacts DEF Laid
<1>2. /\ NrSegments \in Nat /\ NrSegments >= 1 /\ SEGMENT \in Nat /\ SEGMENT >= 1
      /\ TraceBufSize \in Nat /\ TraceBufSize >= 1
  BY Sizes
<1>3. Cardinality(DOMAIN ring) = TraceBufSize
  <2>1. 0 \in Int /\ TraceBufSize - 1 \in Int
    BY <1>2
  <2>2. Cardinality(0 .. TraceBufSize - 1) = IF 0 > TraceBufSize - 1 THEN 0 ELSE TraceBufSize - 1 - 0 + 1
    BY <2>1, FS_Interval
  <2> QED BY <1>1, <1>2, <2>2
<1>4. Lost \in Nat /\ Lost <= n /\ Oldest(r) \in Nat /\ Oldest(r) \in Around(r)
  BY <1>1, LostFacts, Slots
<1>5. ASSUME NEW u \in Around(r)
      PROVE  /\ u \in Nat /\ SlotOf(r, c, u) \in 0 .. NrSegments - 1
             /\ SlotOf(r, c, u) \in Nat
             /\ BaseOf(segments, c, u) = Base(SlotOf(r, c, u))
             /\ BaseOf(segments, c, u) \in DOMAIN ring
             /\ BaseOf(segments, c, u) \in Nat
  <2> DEFINE s == SlotOf(r, c, u)
  <2>1. u \in Nat /\ s \in 0 .. NrSegments - 1
    BY <1>1, Slots
  <2>2. BaseOf(segments, c, u) = Base(s)
    BY DEF BaseOf
  <2> HIDE DEF s
  <2>3. s \in Nat /\ Base(s) \in Nat
    <3>1. s \in Nat
      BY <1>2, <2>1
    <3> QED BY <3>1, Sizes
  <2>4. Base(s) \in Int /\ Base(s) <= Base(s) /\ Base(s) < Base(s) + SEGMENT
    BY <1>2, <2>3
  <2>5. Base(s) \in 0 .. TraceBufSize - 1
    BY <2>1, <2>4, SegmentsApart
  <2> QED BY <1>1, <2>1, <2>2, <2>3, <2>5 DEF s
<1> QED BY <1>1, <1>2, <1>3, <1>4, <1>5

\* The facts of the event that is to be printed next.
LEMMA KeptEvent ==
    ASSUME NEW c, NEW P, NEW N, Laid(segments, ring, pos, c, P, N),
           NEW e \in 1 .. Len(segments), e > Lost
    PROVE  /\ segments[e] \in Around(Begun(segments)) /\ segments[e] <= Begun(segments)
           /\ N[e] \in Site /\ P[e] \in Nat /\ EventSize(N[e]) \in Nat /\ EventSize(N[e]) >= 2
           /\ EventSize(N[e]) = 1 + NrArgs[N[e]] /\ NrArgs[N[e]] \in Nat
           /\ BaseOf(segments, c, segments[e]) <= P[e]
           /\ P[e] + EventSize(N[e]) < BaseOf(segments, c, segments[e]) + SEGMENT
           /\ ring[P[e]] = [nr |-> N[e], time |-> e]
<1>1. /\ Numbered(segments) /\ Newest(Begun(segments), c)
      /\ NrSegments \in Nat /\ Begun(segments) \in Nat /\ Len(segments) \in Nat
  BY WalkFacts
<1>2. e \in KeptOf(segments)
  BY <1>1, LostFacts
<1>3. /\ segments[e] \in Nat /\ segments[e] >= 1 /\ segments[e] <= Begun(segments)
      /\ segments[e] > Begun(segments) - NrSegments
  BY <1>1, <1>2, NumberedFacts DEF KeptOf
<1>4. segments[e] \in Around(Begun(segments))
  BY <1>1, <1>3, Slots
<1>5. /\ N[e] \in Site /\ P[e] \in Nat
      /\ BaseOf(segments, c, segments[e]) <= P[e]
      /\ P[e] + EventSize(N[e]) < BaseOf(segments, c, segments[e]) + SEGMENT
  BY <1>2 DEF Laid, Rows
<1>6. /\ EventSize(N[e]) \in Nat /\ EventSize(N[e]) >= 2
      /\ EventSize(N[e]) = 1 + NrArgs[N[e]] /\ NrArgs[N[e]] \in Nat
  BY <1>5, Sites
<1>7. ring[P[e]] = [nr |-> N[e], time |-> e]
  BY <1>2 DEF Laid, Events, EventAt
<1> QED BY <1>3, <1>4, <1>5, <1>6, <1>7

\* And what is behind it.
LEMMA KeptCells ==
    ASSUME NEW c, NEW P, NEW N, Laid(segments, ring, pos, c, P, N),
           NEW e \in 1 .. Len(segments), e > Lost
    PROVE  /\ \A q \in P[e] + 1 .. P[e] + EventSize(N[e]) - 1 : ring[q] = Arg(e)
           /\ e < Len(segments) /\ segments[e + 1] = segments[e] => P[e + 1] = P[e] + EventSize(N[e])
           /\ e = Len(segments) \/ segments[e + 1] # segments[e] => ring[P[e] + EventSize(N[e])] = Zero
<1>1. Numbered(segments)
  BY WalkFacts
<1>2. e \in KeptOf(segments)
  BY <1>1, LostFacts
<1>3. \A q \in P[e] + 1 .. P[e] + EventSize(N[e]) - 1 : ring[q] = Arg(e)
  BY <1>2 DEF Laid, Events, EventAt
<1>4. e < Len(segments) /\ segments[e + 1] = segments[e] => P[e + 1] = P[e] + EventSize(N[e])
  BY <1>2 DEF Laid, Rows
<1>5. e = Len(segments) \/ segments[e + 1] # segments[e] => ring[P[e] + EventSize(N[e])] = Zero
  BY <1>2 DEF Laid, Events
<1> QED BY <1>3, <1>4, <1>5

\* The first event of a segment is at its start.
LEMMA FirstPlace ==
    ASSUME NEW c, NEW P, NEW N, Laid(segments, ring, pos, c, P, N),
           NEW e \in 1 .. Len(segments), e > Lost, e = 1 \/ segments[e - 1] # segments[e]
    PROVE  P[e] = BaseOf(segments, c, segments[e])
<1>1. Numbered(segments)
  BY WalkFacts
<1>2. e \in KeptOf(segments)
  BY <1>1, LostFacts
<1> QED BY <1>2 DEF Laid, Rows

\* At the start of the next segment: it is the one the walk started from, and
\* all is printed, or the walk goes on there.
LEMMA NextSegment ==
    ASSUME NEW c, NEW P, NEW N, Laid(segments, ring, pos, c, P, N),
           NEW u \in Around(Begun(segments)), NEW e \in Lost + 1 .. Len(segments) + 1,
           Behind(segments, e, u)
    PROVE  LET a == Base(NextSlot(SlotOf(Begun(segments), c, u)))
           IN /\ a = BaseOf(segments, c, Oldest(Begun(segments))) => e = Len(segments) + 1
              /\ a # BaseOf(segments, c, Oldest(Begun(segments))) => Walk(segments, ring, c, P, e, a)
<1> DEFINE n == Len(segments)
           r == Begun(segments)
           old == Oldest(r)
           v == IF u + 1 \in Around(r) THEN u + 1 ELSE old
           a == Base(NextSlot(SlotOf(r, c, u)))
<1>1. /\ Numbered(segments) /\ Newest(r, c)
      /\ n \in Nat /\ r \in Nat /\ NrSegments \in Nat /\ NrSegments >= 1
      /\ SEGMENT \in Nat /\ SEGMENT >= 1
      /\ Lost \in Nat /\ Lost <= n /\ old \in Nat /\ old \in Around(r)
      /\ u \in Nat
  BY WalkFacts
<1>2. \A w \in Around(r) : /\ SlotOf(r, c, w) \in 0 .. NrSegments - 1 /\ SlotOf(r, c, w) \in Nat
                           /\ BaseOf(segments, c, w) = Base(SlotOf(r, c, w))
                           /\ BaseOf(segments, c, w) \in DOMAIN ring /\ BaseOf(segments, c, w) \in Nat
  BY WalkFacts
<1>3. v \in Around(r) /\ a = BaseOf(segments, c, v)
  <2>1. v \in Around(r) /\ SlotOf(r, c, v) = NextSlot(SlotOf(r, c, u))
    BY <1>1, Slots
  <2> QED BY <1>2, <2>1
<1> HIDE DEF a
<1>4. e <= n => e \in 1 .. n /\ e > Lost
  BY <1>1
<1>5. CASE u + 1 \notin Around(r)
  <2>1. u >= r /\ a = BaseOf(segments, c, old)
    <3>1. u + 1 = old + NrSegments
      BY <1>1, <1>5 DEF Around
    <3> QED BY <1>1, <1>3, <1>5, <3>1 DEF Oldest
  <2>2. ASSUME e <= n PROVE FALSE
    <3>1. segments[e] = u + 1 /\ segments[e] <= r
      BY <1>4, <2>2, KeptEvent DEF Behind
    <3> QED BY <1>1, <2>1, <3>1
  <2>3. e = n + 1
    BY <1>1, <2>2
  <2> QED BY <2>1, <2>3 DEF a
<1>6. CASE u + 1 \in Around(r)
  <2>1. v = u + 1 /\ v # old
    <3>1. u >= old
      BY <1>1 DEF Around
    <3> QED BY <1>1, <1>6, <3>1
  <2> HIDE DEF v, old
  <2>2. a # BaseOf(segments, c, old)
    <3> DEFINE s == SlotOf(r, c, v)
               t == SlotOf(r, c, old)
    <3>1. s # t
      BY <1>1, <1>3, <2>1, Slots
    <3>2. s \in Nat /\ t \in Nat /\ a = Base(s) /\ BaseOf(segments, c, old) = Base(t)
      BY <1>1, <1>2, <1>3
    <3> HIDE DEF s, t
    <3>3. s < t \/ t < s
      BY <3>1, <3>2
    <3>4. Base(s) # Base(t)
      <4>1. Base(s) \in Nat /\ Base(t) \in Nat
        BY <3>2, Sizes
      <4>2. Base(s) + SEGMENT <= Base(t) \/ Base(t) + SEGMENT <= Base(s)
        BY <3>2, <3>3, Sizes
      <4> QED BY <1>1, <4>1, <4>2
    <3> QED BY <3>2, <3>4
  <2>3. CASE e <= n
    <3>1. segments[e] = v /\ (e = 1 \/ segments[e - 1] # segments[e])
      BY <2>1, <2>3 DEF Behind
    <3>2. P[e] = a
      <4>0. e \in 1 .. Len(segments) /\ e > Lost /\ (e = 1 \/ segments[e - 1] # segments[e])
        BY <1>4, <2>3, <3>1
      <4>2. P[e] = BaseOf(segments, c, segments[e])
        BY <4>0, FirstPlace
      <4> QED BY <1>3, <3>1, <4>2
    <3>3. AtEvent(segments, P, e, v, a)
      BY <2>3, <3>1, <3>2 DEF AtEvent
    <3>4. Walk(segments, ring, c, P, e, a)
      BY <1>3, <3>3 DEF Walk
    <3> QED BY <2>2, <3>4 DEF a, old
  <2>4. CASE e > n
    <3>1. v > r
      BY <1>1, <2>1, <2>4 DEF Behind
    <3>2. ring[a] = Zero
      BY <1>3, <3>1, AtBase
    <3>3. Behind(segments, e, v)
      BY <1>1, <2>4, <3>1, <1>3, <2>1 DEF Behind
    <3>4. a \in DOMAIN ring /\ a \in Nat /\ a < a + SEGMENT
      BY <1>1, <1>2, <1>3
    <3>5. AtZero(segments, ring, c, e, v, a)
      BY <1>3, <3>2, <3>3, <3>4 DEF AtZero, Zero
    <3>6. Walk(segments, ring, c, P, e, a)
      BY <1>3, <3>5 DEF Walk
    <3> QED BY <2>2, <3>6 DEF a, old
  <2> QED BY <1>1, <2>3, <2>4
<1> QED BY <1>5, <1>6
\* What a step of the walk has to show.
WalksOn(c, P) ==
    /\ phase' \in {"print", "printed"}
    /\ phase' = "print" => Walking(segments, ring, c, P, Lost, start, at', printed')
    /\ phase' = "printed" => printed' = Kept

\* print-trace starts at the oldest event that is kept.
LEMMA WalkOpens ==
    ASSUME NEW c, NEW P, NEW N, Laid(segments, ring, pos, c, P, N), printed = <<>>
    PROVE  Walking(segments, ring, c, P, Lost, FindOldest, FindOldest, printed)
<1> DEFINE n == Len(segments)
           r == Begun(segments)
           old == Oldest(r)
           a == FindOldest
           e == Lost + 1
<1>1. /\ Numbered(segments) /\ Newest(r, c)
      /\ n \in Nat /\ r \in Nat /\ NrSegments \in Nat /\ NrSegments >= 1
      /\ SEGMENT \in Nat /\ SEGMENT >= 1
      /\ Lost \in Nat /\ Lost <= n /\ old \in Nat /\ old \in Around(r)
  BY WalkFacts
<1>2. a = BaseOf(segments, c, old)
  BY OldestFound
<1>3. BaseOf(segments, c, old) \in DOMAIN ring /\ BaseOf(segments, c, old) \in Nat
  BY <1>1, WalkFacts
<1> HIDE DEF a
<1>4. PrintedTo(printed, Lost, 0)
  <2>1. 1 .. 0 = {}
    OBVIOUS
  <2>2. <<>> \in [1 .. 0 -> SUBSET Nat]
    BY <2>1
  <2> QED BY <2>1, <2>2 DEF PrintedTo
<1>5. Walk(segments, ring, c, P, e, a)
  <2>1. CASE e <= n
    <3>1. e \in 1 .. n /\ e > Lost /\ e \in KeptOf(segments)
      BY <1>1, <2>1, LostFacts
    <3>2. segments[e] \in Nat /\ segments[e] <= r /\ segments[e] > r - NrSegments /\ segments[e] >= 1
      BY <1>1, <3>1, NumberedFacts DEF KeptOf
    <3>3. segments[e] = old /\ (e = 1 \/ segments[e - 1] # segments[e])
      <4>1. CASE e = 1
        <5>1. segments[e] = 1
          BY <1>1, <2>1, <4>1 DEF Numbered
        <5> QED BY <1>1, <3>2, <4>1, <5>1 DEF Oldest
      <4>2. CASE e # 1
        <5>1. e - 1 \in 1 .. n /\ ~(e - 1 > Lost) /\ e \in 2 .. n
          BY <1>1, <3>1, <4>2
        <5>2. e - 1 \notin KeptOf(segments)
          BY <1>1, <5>1, LostFacts
        <5>3. segments[e - 1] \in Nat /\ segments[e - 1] >= 1 /\ segments[e - 1] <= r - NrSegments
          BY <1>1, <5>1, <5>2, NumberedFacts DEF KeptOf
        <5>4. segments[e] = segments[e - 1] \/ segments[e] = segments[e - 1] + 1
          BY <1>1, <5>1 DEF Numbered
        <5> QED BY <1>1, <3>2, <5>3, <5>4 DEF Oldest
      <4> QED BY <4>1, <4>2
    <3>4. P[e] = a
      <4>1. P[e] = BaseOf(segments, c, segments[e])
        BY <3>1, <3>3, FirstPlace
      <4> QED BY <1>2, <3>3, <4>1
    <3>5. AtEvent(segments, P, e, old, a)
      BY <2>1, <3>3, <3>4 DEF AtEvent
    <3> QED BY <1>1, <3>5 DEF Walk
  <2>2. CASE e > n
    <3>1. n = 0 /\ r = 0
      <4>1. ASSUME n > 0 PROVE FALSE
        <5>1. n \in KeptOf(segments) /\ n \in 1 .. n
          BY <1>1, <4>1, NumberedFacts
        <5>2. n > Lost
          BY <1>1, <5>1, LostFacts
        <5> QED BY <1>1, <2>2, <5>2
      <4>2. n = 0
        BY <1>1, <4>1
      <4> QED BY <1>1, <4>2, NumberedFacts
    <3>2. old = 1
      BY <1>1, <3>1 DEF Oldest
    <3>3. ring[a] = Zero
      BY <1>1, <1>2, <3>1, <3>2, AtBase
    <3>4. Behind(segments, e, old)
      BY <1>1, <2>2, <3>1, <3>2 DEF Behind
    <3>5. a <= a /\ a < a + SEGMENT
      BY <1>1, <1>2, <1>3
    <3>6. AtZero(segments, ring, c, e, old, a)
      BY <1>2, <1>3, <3>3, <3>4, <3>5 DEF AtZero, Zero
    <3> QED BY <1>1, <3>6 DEF Walk
  <2> QED BY <1>1, <2>1, <2>2
<1>6. 0 \in 0 .. n - Lost /\ Lost + 0 + 1 = e
  BY <1>1
<1>7. \E k \in 0 .. n - Lost : PrintedTo(printed, Lost, k) /\ Walk(segments, ring, c, P, Lost + k + 1, a)
  BY <1>4, <1>5, <1>6
<1> QED BY <1>2, <1>7 DEF Walking, a

\* The walk goes on at the start of the next segment.
LEMMA EntersNext ==
    ASSUME NEW c, NEW P, NEW N, Laid(segments, ring, pos, c, P, N),
           start = BaseOf(segments, c, Oldest(Begun(segments))),
           NEW k \in 0 .. Len(segments) - Lost, PrintedTo(printed, Lost, k),
           NEW u \in Around(Begun(segments)), Behind(segments, Lost + k + 1, u),
           GoesTo(Base(NextSlot(SlotOf(Begun(segments), c, u)))), printed' = printed
    PROVE  WalksOn(c, P)
<1> DEFINE n == Len(segments)
           e == Lost + k + 1
           a == Base(NextSlot(SlotOf(Begun(segments), c, u)))
<1>1. Numbered(segments) /\ n \in Nat /\ Lost \in Nat /\ Lost <= n
  BY WalkFacts
<1>2. e \in Lost + 1 .. n + 1
  BY <1>1
<1>3. /\ a = start => e = n + 1
      /\ a # start => Walk(segments, ring, c, P, e, a)
  BY <1>2, NextSegment
<1> HIDE DEF a
<1>4. at' = a /\ phase' = IF a = start THEN "printed" ELSE "print"
  BY DEF GoesTo, a
<1>5. CASE a = start
  <2>1. k = n - Lost
    BY <1>1, <1>3, <1>5
  <2>2. printed' = Kept
    <3>1. /\ IsPrefix(printed, Kept)
          /\ k = Len(segments) - Lost => printed = Kept
          /\ PrintedTo(Append(printed, {Lost + k + 1}), Lost, k + 1)
      BY <1>1, PrintedFacts, Zenon
    <3> QED BY <2>1, <3>1
  <2> QED BY <1>4, <1>5, <2>2 DEF WalksOn
<1>6. CASE a # start
  <2>1. Walking(segments, ring, c, P, Lost, start, a, printed)
    BY <1>3, <1>6 DEF Walking
  <2> QED BY <1>4, <1>6, <2>1 DEF WalksOn
<1> QED BY <1>5, <1>6

\* Where an event lies in its segment.
LEMMA WithinRing ==
    ASSUME NEW c, NEW P, NEW N, Laid(segments, ring, pos, c, P, N),
           NEW u \in Around(Begun(segments)), NEW q \in Int,
           BaseOf(segments, c, u) <= q, q < BaseOf(segments, c, u) + SEGMENT
    PROVE  /\ q \in DOMAIN ring /\ q < Cardinality(DOMAIN ring)
           /\ SegmentAfter(q) = Base(SlotOf(Begun(segments), c, u) + 1)
           /\ q > BaseOf(segments, c, u) => q # BaseOf(segments, c, Oldest(Begun(segments)))
<1> DEFINE s == SlotOf(Begun(segments), c, u)
           t == SlotOf(Begun(segments), c, Oldest(Begun(segments)))
<1>1. /\ s \in 0 .. NrSegments - 1 /\ t \in 0 .. NrSegments - 1 /\ s \in Nat /\ t \in Nat
      /\ BaseOf(segments, c, u) = Base(s) /\ Base(s) \in Nat
      /\ BaseOf(segments, c, Oldest(Begun(segments))) = Base(t) /\ Base(t) \in Nat
  BY WalkFacts
<1>2. /\ DOMAIN ring = 0 .. TraceBufSize - 1 /\ Cardinality(DOMAIN ring) = TraceBufSize
      /\ TraceBufSize \in Nat /\ SEGMENT \in Nat /\ SEGMENT >= 1
  BY WalkFacts
<1> HIDE DEF s, t
<1>3. q \in 0 .. TraceBufSize - 1 /\ (s # t => q < Base(t) \/ q >= Base(t) + SEGMENT)
  BY <1>1, SegmentsApart
<1>4. SegmentAfter(q) = Base(s + 1)
  <2>1. q \in Nat
    BY <1>3
  <2> QED BY <1>1, <2>1, InSegment
<1>5. ASSUME q > Base(s) PROVE q # Base(t)
  BY <1>1, <1>2, <1>3, <1>5
<1>6. q \in DOMAIN ring /\ q < Cardinality(DOMAIN ring)
  BY <1>2, <1>3
<1> QED BY <1>1, <1>4, <1>5, <1>6 DEF s

\* From the end of the ring the walk goes on at its start.
LEMMA WrapWalks ==
    ASSUME NEW c, NEW P, NEW N, Laid(segments, ring, pos, c, P, N),
           Walking(segments, ring, c, P, Lost, start, at, printed), Wrap
    PROVE  WalksOn(c, P)
<1> DEFINE n == Len(segments)
           r == Begun(segments)
<1>1. /\ Numbered(segments) /\ n \in Nat /\ Lost \in Nat /\ Lost <= n
      /\ NrSegments \in Nat /\ NrSegments >= 1 /\ DOMAIN ring = 0 .. TraceBufSize - 1
      /\ Cardinality(DOMAIN ring) = TraceBufSize /\ TraceBufSize \in Nat
  BY WalkFacts
<1>2. /\ start = BaseOf(segments, c, Oldest(r))
      /\ \E k \in 0 .. n - Lost : PrintedTo(printed, Lost, k) /\ Walk(segments, ring, c, P, Lost + k + 1, at)
  BY DEF Walking
<1>3. PICK k \in 0 .. n - Lost : PrintedTo(printed, Lost, k) /\ Walk(segments, ring, c, P, Lost + k + 1, at)
  BY <1>2
<1> DEFINE e == Lost + k + 1
<1>4. PICK u \in Around(r) :
        AtEvent(segments, P, e, u, at) \/ AtZero(segments, ring, c, e, u, at) \/ AtEnd(segments, c, e, u, at)
  BY <1>3 DEF Walk
<1>5. at >= Cardinality(DOMAIN ring) /\ GoesTo(0) /\ printed' = printed
  BY DEF Wrap
<1>6. e \in Nat /\ e > Lost /\ e >= 1
  BY <1>1
<1> HIDE DEF e
<1>7. ~AtEvent(segments, P, e, u, at)
  <2> SUFFICES ASSUME AtEvent(segments, P, e, u, at) PROVE FALSE
    OBVIOUS
  <2>1. e \in 1 .. n /\ segments[e] = u /\ at = P[e]
    BY <1>1, <1>6 DEF AtEvent
  <2>2. /\ P[e] \in Nat /\ EventSize(N[e]) \in Nat /\ EventSize(N[e]) >= 2
        /\ BaseOf(segments, c, segments[e]) <= P[e]
        /\ P[e] + EventSize(N[e]) < BaseOf(segments, c, segments[e]) + SEGMENT
    BY <1>6, <2>1, KeptEvent
  <2>3. P[e] < BaseOf(segments, c, u) + SEGMENT /\ BaseOf(segments, c, u) <= P[e]
    <3>1. BaseOf(segments, c, u) \in Nat /\ SEGMENT \in Nat
      BY WalkFacts
    <3> QED BY <2>1, <2>2, <3>1
  <2>4. P[e] < Cardinality(DOMAIN ring)
    BY <2>2, <2>3, WithinRing
  <2> QED BY <1>1, <1>5, <2>1, <2>2, <2>4
<1>8. ~AtZero(segments, ring, c, e, u, at)
  BY <1>1, <1>5 DEF AtZero
<1>9. SlotOf(r, c, u) = NrSegments - 1 /\ Behind(segments, e, u)
  BY <1>4, <1>7, <1>8 DEF AtEnd
<1>10. Base(NextSlot(SlotOf(r, c, u))) = 0
  <2>1. NextSlot(SlotOf(r, c, u)) = 0
    BY <1>1, <1>9 DEF NextSlot
  <2> QED BY <2>1, Sizes
<1> QED BY <1>2, <1>3, <1>5, <1>9, <1>10, EntersNext DEF e

\* A zero ends the events of the segment.
LEMMA SkipWalks ==
    ASSUME NEW c, NEW P, NEW N, Laid(segments, ring, pos, c, P, N),
           Walking(segments, ring, c, P, Lost, start, at, printed), SkipSegment
    PROVE  WalksOn(c, P)
<1> DEFINE n == Len(segments)
           r == Begun(segments)
<1>1. /\ Numbered(segments) /\ n \in Nat /\ Lost \in Nat /\ Lost <= n
      /\ NrSegments \in Nat /\ NrSegments >= 1 /\ DOMAIN ring = 0 .. TraceBufSize - 1
      /\ Cardinality(DOMAIN ring) = TraceBufSize /\ TraceBufSize \in Nat
  BY WalkFacts
<1>2. /\ start = BaseOf(segments, c, Oldest(r))
      /\ \E k \in 0 .. n - Lost : PrintedTo(printed, Lost, k) /\ Walk(segments, ring, c, P, Lost + k + 1, at)
  BY DEF Walking
<1>3. PICK k \in 0 .. n - Lost : PrintedTo(printed, Lost, k) /\ Walk(segments, ring, c, P, Lost + k + 1, at)
  BY <1>2
<1> DEFINE e == Lost + k + 1
<1>4. PICK u \in Around(r) :
        AtEvent(segments, P, e, u, at) \/ AtZero(segments, ring, c, e, u, at) \/ AtEnd(segments, c, e, u, at)
  BY <1>3 DEF Walk
<1>5. /\ at < Cardinality(DOMAIN ring) /\ ring[at].nr = 0
      /\ GoesTo(SegmentAfter(at)) /\ printed' = printed
  BY DEF SkipSegment
<1>6. e \in Nat /\ e > Lost /\ e >= 1
  BY <1>1
<1> HIDE DEF e
<1>7. ~AtEvent(segments, P, e, u, at)
  <2> SUFFICES ASSUME AtEvent(segments, P, e, u, at) PROVE FALSE
    OBVIOUS
  <2>1. e \in 1 .. n /\ at = P[e]
    BY <1>1, <1>6 DEF AtEvent
  <2>2. N[e] \in Site /\ ring[P[e]] = [nr |-> N[e], time |-> e]
    BY <1>6, <2>1, KeptEvent
  <2>3. N[e] # 0
    BY <2>2, Sites
  <2> QED BY <1>5, <2>1, <2>2, <2>3
<1>8. ~AtEnd(segments, c, e, u, at)
  BY <1>1, <1>5 DEF AtEnd
<1>9. AtZero(segments, ring, c, e, u, at)
  BY <1>4, <1>7, <1>8
<1>10. /\ at \in Int /\ BaseOf(segments, c, u) <= at /\ at < BaseOf(segments, c, u) + SEGMENT
       /\ Behind(segments, e, u)
  BY <1>1, <1>9 DEF AtZero
<1>11. SegmentAfter(at) = Base(SlotOf(r, c, u) + 1)
  BY <1>10, WithinRing
<1>12. SlotOf(r, c, u) \in 0 .. NrSegments - 1
  BY WalkFacts
<1>13. CASE SlotOf(r, c, u) + 1 # NrSegments
  <2>1. SegmentAfter(at) = Base(NextSlot(SlotOf(r, c, u)))
    BY <1>11, <1>13 DEF NextSlot
  <2>2. GoesTo(Base(NextSlot(SlotOf(r, c, u))))
    BY <1>5, <2>1
  <2> QED BY <1>2, <1>3, <1>5, <1>10, <2>2, EntersNext DEF e
<1>14. CASE SlotOf(r, c, u) + 1 = NrSegments
  <2>1. at' = TraceBufSize /\ start # TraceBufSize
    <3>1. SegmentAfter(at) = TraceBufSize
      BY <1>11, <1>14, Sizes
    <3>2. start \in DOMAIN ring
      BY <1>2, WalkFacts
    <3> QED BY <1>1, <1>5, <3>1, <3>2 DEF GoesTo
  <2>2. phase' = "print"
    BY <1>5, <2>1 DEF GoesTo
  <2>3. AtEnd(segments, c, e, u, at')
    BY <1>1, <1>10, <1>12, <1>14, <2>1 DEF AtEnd
  <2>4. Walk(segments, ring, c, P, e, at')
    BY <2>3 DEF Walk
  <2>5. Walking(segments, ring, c, P, Lost, start, at', printed)
    BY <1>2, <1>3, <2>4 DEF Walking, e
  <2> QED BY <1>5, <2>2, <2>5 DEF WalksOn
<1> QED BY <1>13, <1>14
\* The next event is printed, and behind it the walk is at the one after it, or
\* at the zero.
LEMMA PrintWalks ==
    ASSUME NEW c, NEW P, NEW N, Laid(segments, ring, pos, c, P, N),
           Walking(segments, ring, c, P, Lost, start, at, printed), PrintEvent
    PROVE  WalksOn(c, P)
<1> DEFINE n == Len(segments)
           r == Begun(segments)
<1>1. /\ Numbered(segments) /\ n \in Nat /\ Lost \in Nat /\ Lost <= n
      /\ NrSegments \in Nat /\ NrSegments >= 1 /\ DOMAIN ring = 0 .. TraceBufSize - 1
      /\ Cardinality(DOMAIN ring) = TraceBufSize /\ TraceBufSize \in Nat
  BY WalkFacts
<1>2. /\ start = BaseOf(segments, c, Oldest(r))
      /\ \E k \in 0 .. n - Lost : PrintedTo(printed, Lost, k) /\ Walk(segments, ring, c, P, Lost + k + 1, at)
  BY DEF Walking
<1>3. PICK k \in 0 .. n - Lost : PrintedTo(printed, Lost, k) /\ Walk(segments, ring, c, P, Lost + k + 1, at)
  BY <1>2
<1> DEFINE e == Lost + k + 1
<1>4. PICK u \in Around(r) :
        AtEvent(segments, P, e, u, at) \/ AtZero(segments, ring, c, e, u, at) \/ AtEnd(segments, c, e, u, at)
  BY <1>3 DEF Walk
<1>5. /\ at < Cardinality(DOMAIN ring) /\ ring[at].nr \in Site
      /\ printed' = Append(printed, Printed(at)) /\ GoesTo(at + EventSize(ring[at].nr))
  BY DEF PrintEvent
<1>6. e \in Nat /\ e > Lost /\ e >= 1 /\ e = Lost + k + 1
  BY <1>1
<1> HIDE DEF e
<1>7. AtEvent(segments, P, e, u, at)
  <2>1. ~AtEnd(segments, c, e, u, at)
    BY <1>1, <1>5 DEF AtEnd
  <2>2. ring[at].nr # 0
    BY <1>5, Sites
  <2> QED BY <1>4, <2>1, <2>2 DEF AtZero
<1>8. e \in 1 .. n /\ segments[e] = u /\ at = P[e]
  BY <1>1, <1>6, <1>7 DEF AtEvent
<1> DEFINE b == BaseOf(segments, c, u)
           m == EventSize(N[e])
<1>9. /\ N[e] \in Site /\ P[e] \in Nat /\ m \in Nat /\ m >= 2
      /\ m = 1 + NrArgs[N[e]] /\ NrArgs[N[e]] \in Nat
      /\ b <= P[e] /\ P[e] + m < b + SEGMENT
      /\ e < n /\ segments[e + 1] = u => P[e + 1] = P[e] + m
      /\ ring[P[e]] = [nr |-> N[e], time |-> e]
      /\ \A q \in P[e] + 1 .. P[e] + m - 1 : ring[q] = Arg(e)
      /\ e = n \/ segments[e + 1] # u => ring[P[e] + m] = Zero
  <2>0. e \in 1 .. Len(segments) /\ e > Lost
    BY <1>6, <1>8
  <2>1. /\ N[e] \in Site /\ P[e] \in Nat /\ EventSize(N[e]) \in Nat /\ EventSize(N[e]) >= 2
        /\ EventSize(N[e]) = 1 + NrArgs[N[e]] /\ NrArgs[N[e]] \in Nat
    <3>1. N[e] \in Site /\ P[e] \in Nat
      BY <2>0, KeptEvent
    <3> QED BY <3>1, Sites
  <2>2. /\ BaseOf(segments, c, segments[e]) <= P[e]
        /\ P[e] + EventSize(N[e]) < BaseOf(segments, c, segments[e]) + SEGMENT
    BY <2>0, KeptEvent
  <2>3. ring[P[e]] = [nr |-> N[e], time |-> e]
    BY <2>0, KeptEvent
  <2>4. \A q \in P[e] + 1 .. P[e] + EventSize(N[e]) - 1 : ring[q] = Arg(e)
    BY <2>0, KeptCells
  <2>5. e < Len(segments) /\ segments[e + 1] = segments[e] => P[e + 1] = P[e] + EventSize(N[e])
    BY <2>0, KeptCells
  <2>6. e = Len(segments) \/ segments[e + 1] # segments[e] => ring[P[e] + EventSize(N[e])] = Zero
    BY <2>0, KeptCells
  <2>7. segments[e] = u
    BY <1>8
  <2> QED BY <2>1, <2>2, <2>3, <2>4, <2>5, <2>6, <2>7
<1> HIDE DEF b, m
<1>10. b \in Nat /\ SEGMENT \in Nat
  BY WalkFacts DEF b
\* The event is printed with its own arguments.
<1>11. Printed(at) = {e}
  <2>1. ring[at].nr = N[e]
    BY <1>8, <1>9
  <2>2. \A q \in P[e] .. P[e] + NrArgs[N[e]] : ring[q].time = e
    <3> SUFFICES ASSUME NEW q \in P[e] .. P[e] + NrArgs[N[e]] PROVE ring[q].time = e
      OBVIOUS
    <3>1. CASE q = P[e]
      BY <1>9, <3>1
    <3>2. CASE q # P[e]
      <4>1. q \in P[e] + 1 .. P[e] + m - 1
        BY <1>9, <3>2
      <4> QED BY <1>9, <4>1 DEF Arg
    <3> QED BY <3>1, <3>2
  <2>3. P[e] \in P[e] .. P[e] + NrArgs[N[e]]
    BY <1>9
  <2>4. Printed(at) = {ring[q].time : q \in P[e] .. P[e] + NrArgs[N[e]]}
    BY <1>8, <2>1 DEF Printed
  <2> QED BY <2>2, <2>3, <2>4
<1>12. k + 1 \in 0 .. n - Lost /\ PrintedTo(printed', Lost, k + 1) /\ Lost + (k + 1) + 1 = e + 1
  <2>1. PrintedTo(Append(printed, {Lost + k + 1}), Lost, k + 1)
    BY <1>1, <1>3, PrintedFacts
  <2>2. printed' = Append(printed, {Lost + k + 1})
    BY <1>5, <1>6, <1>11
  <2>3. k + 1 \in 0 .. n - Lost /\ Lost + (k + 1) + 1 = e + 1
    BY <1>1, <1>6, <1>8
  <2>4. PrintedTo(printed', Lost, k + 1)
    BY <2>1, <2>2, Zenon
  <2> QED BY <2>3, <2>4, Zenon
\* Behind it is not where the walk started.
<1> DEFINE a == P[e] + m
<1>13. a \in Int /\ b <= a /\ a < b + SEGMENT /\ a > b
  <2>1. P[e] \in Nat /\ m \in Nat /\ m >= 2 /\ b <= P[e] /\ P[e] + m < b + SEGMENT
    BY <1>9, Zenon
  <2> QED BY <1>10, <2>1
<1>14. at' = a /\ phase' = "print" /\ a \in DOMAIN ring
  <2>1. a \in DOMAIN ring /\ a # start
    BY <1>2, <1>13, WithinRing DEF b
  <2>2. at + EventSize(ring[at].nr) = a
    BY <1>8, <1>9 DEF m
  <2> QED BY <1>5, <2>1, <2>2 DEF GoesTo
<1> HIDE DEF a
<1>15. Walk(segments, ring, c, P, e + 1, a)
  <2>1. CASE e < n /\ segments[e + 1] = u
    <3>1. AtEvent(segments, P, e + 1, u, a)
      BY <1>1, <1>6, <1>9, <2>1 DEF AtEvent, a
    <3> QED BY <3>1 DEF Walk
  <2>2. CASE e = n \/ segments[e + 1] # u
    <3>1. ring[a].nr = 0
      BY <1>9, <2>2 DEF Zero, a
    <3>2. Behind(segments, e + 1, u)
      <4>1. CASE e = n
        <5>1. u >= r
          BY <1>1, <1>8, <4>1, NumberedFacts
        <5>2. ~(e + 1 <= n)
          BY <1>1, <4>1
        <5> QED BY <5>1, <5>2 DEF Behind
      <4>2. CASE e # n
        <5>1. e + 1 \in 2 .. n /\ (e + 1) - 1 = e /\ ~(e + 1 > n)
          BY <1>1, <1>8, <4>2
        <5>2. segments[e + 1] = segments[(e + 1) - 1] \/ segments[e + 1] = segments[(e + 1) - 1] + 1
          BY <1>1, <5>1 DEF Numbered
        <5>3. segments[e + 1] = u + 1 /\ segments[(e + 1) - 1] # segments[e + 1]
          BY <1>8, <2>2, <4>2, <5>1, <5>2
        <5> QED BY <5>1, <5>3 DEF Behind
      <4> QED BY <4>1, <4>2
    <3>3. AtZero(segments, ring, c, e + 1, u, a)
      BY <1>13, <1>14, <3>1, <3>2 DEF AtZero, b
    <3> QED BY <3>3 DEF Walk
  <2> QED BY <1>1, <1>8, <2>1, <2>2
<1>16. Walking(segments, ring, c, P, Lost, start, at', printed')
  <2>1. PrintedTo(printed', Lost, k + 1) /\ Walk(segments, ring, c, P, Lost + (k + 1) + 1, at')
    BY <1>12, <1>14, <1>15
  <2> QED BY <1>2, <1>12, <2>1 DEF Walking
<1> QED BY <1>14, <1>16 DEF WalksOn

-----------------------------------------------------------------------------
(* The invariant.                                                          *)

\* The ring was not mapped: nothing was traced, and there is nothing to print.
Unmapped ==
    /\ ring = <<>> /\ segments = <<>> /\ pos = 0
    /\ start = 0 /\ at = 0 /\ printed = <<>>
    /\ phase # "trace"

Mapped ==
    /\ sources = Len(NrArgs) /\ phase \in {"trace", "stopped", "print", "printed"}
    /\ phase \in {"trace", "stopped"} => printed = <<>>
    /\ phase = "printed" => printed = Kept
    /\ \E c, P, N : /\ Laid(segments, ring, pos, c, P, N)
                    /\ phase = "print" => Walking(segments, ring, c, P, Lost, start, at, printed)

Inv == Unmapped \/ Mapped

\* It holds at first.
LEMMA InvInit == Init => Inv
BY DEF Init, Inv, Unmapped

\* An empty ring is laid out.
LEMMA LaidFirst ==
    ASSUME NEW rg, rg = [i \in 0 .. TraceBufSize - 1 |-> Zero], NEW P, NEW N
    PROVE  Laid(<<>>, rg, 0, -1, P, N)
<1>1. NrSegments \in Nat /\ NrSegments >= 1 /\ SEGMENT \in Nat /\ SEGMENT >= 1
  BY Sizes
<1>2. Len(<<>>) = 0 /\ <<>> \in Seq(Nat) /\ 1 .. 0 = {} /\ 2 .. 0 = {} /\ Begun(<<>>) = 0
  BY DEF Begun
<1>3. Numbered(<<>>) /\ Newest(0, -1)
  BY <1>1, <1>2 DEF Numbered, Newest
<1>4. KeptOf(<<>>) = {}
  BY <1>2 DEF KeptOf
<1>5. Rows(<<>>, -1, P, N) /\ Events(<<>>, rg, P, N)
  BY <1>4 DEF Rows, Events
<1>6. Fresh(<<>>, rg)
  <2> SUFFICES ASSUME NEW u \in 1 .. NrSegments PROVE rg[Base(u - 1)] = Zero
    <3>1. Begun(<<>>) + 1 .. NrSegments = 1 .. NrSegments
      BY <1>2
    <3> QED BY <3>1, Zenon DEF Fresh
  <2>1. u - 1 \in 0 .. NrSegments - 1 /\ u - 1 \in Nat
    BY <1>1
  <2>2. Base(u - 1) \in Nat
    BY <2>1, Sizes
  <2>3. Base(u - 1) \in Int /\ Base(u - 1) <= Base(u - 1) /\ Base(u - 1) < Base(u - 1) + SEGMENT
    BY <1>1, <2>2
  <2>4. Base(u - 1) \in 0 .. TraceBufSize - 1
    BY <2>1, <2>3, SegmentsApart
  <2> QED BY <2>4
<1>7. Ends(<<>>, 0, P, N)
  BY <1>2 DEF Ends
<1> QED BY <1>2, <1>3, <1>5, <1>6, <1>7 DEF Laid

\* What is kept changes only when something is traced.
LEMMA KeptStays == ASSUME UNCHANGED segments PROVE Lost' = Lost /\ Kept' = Kept
<1>1. Lost' = Lost
  BY DEF Lost
<1> QED BY <1>1 DEF Kept

\* Every step from before the ring is mapped.
LEMMA UnmappedStep == Unmapped /\ [Next]_vars => Inv'
<1> SUFFICES ASSUME Unmapped, [Next]_vars PROVE Inv'
  OBVIOUS
<1>1. /\ ring = <<>> /\ segments = <<>> /\ pos = 0
      /\ start = 0 /\ at = 0 /\ printed = <<>> /\ phase # "trace"
  BY DEF Unmapped
<1>2. DOMAIN ring = {} /\ Cardinality(DOMAIN ring) = 0
  <2>1. DOMAIN ring = {}
    BY <1>1
  <2> QED BY <2>1, FS_EmptySet
<1>3. CASE UNCHANGED vars \/ WriteHeader \/ WriteSource \/ Stop \/ Refuse
  BY <1>1, <1>3 DEF vars, WriteHeader, WriteSource, Stop, Refuse, Inv, Unmapped
<1>4. CASE MapRing
  <2>1. /\ sources' = Len(NrArgs) /\ phase' = "trace" /\ printed' = <<>> /\ segments' = <<>> /\ pos' = 0
        /\ ring' = [i \in 0 .. TraceBufSize - 1 |-> Zero]
    BY <1>1, <1>4 DEF MapRing
  <2>2. Laid(segments', ring', pos', -1, <<>>, <<>>)
    BY <2>1, LaidFirst
  <2>3. Mapped'
    BY <2>1, <2>2 DEF Mapped
  <2> QED BY <2>3 DEF Inv
<1>5. ASSUME NEW nr \in Site, Trace(nr) PROVE FALSE
  BY <1>1, <1>5 DEF Trace
<1>6. CASE Open
  <2>1. FindOldest = 0
    BY <1>1 DEF FindOldest
  <2> QED BY <1>1, <1>6, <2>1 DEF Open, Inv, Unmapped
<1>7. CASE Wrap
  BY <1>1, <1>7 DEF Wrap, GoesTo, Inv, Unmapped
<1>8. CASE SkipSegment \/ PrintEvent
  BY <1>1, <1>2, <1>8 DEF SkipSegment, PrintEvent
<1> QED BY <1>3, <1>4, <1>5, <1>6, <1>7, <1>8 DEF Next, Reads

\* Every step of the program that is traced, and of the walk.
LEMMA MappedStep == Mapped /\ [Next]_vars => Inv'
<1> SUFFICES ASSUME Mapped, [Next]_vars PROVE Mapped'
  BY DEF Inv
<1>1. /\ sources = Len(NrArgs) /\ phase \in {"trace", "stopped", "print", "printed"}
      /\ phase \in {"trace", "stopped"} => printed = <<>>
      /\ phase = "printed" => printed = Kept
  BY DEF Mapped
<1>2. PICK c, P, N : /\ Laid(segments, ring, pos, c, P, N)
                     /\ phase = "print" => Walking(segments, ring, c, P, Lost, start, at, printed)
  BY DEF Mapped
<1>3. CASE UNCHANGED vars
  <2>1. Lost' = Lost /\ Kept' = Kept
    BY <1>3, KeptStays DEF vars
  <2> QED BY <1>1, <1>2, <1>3, <2>1 DEF vars, Mapped
<1>4. CASE WriteHeader \/ WriteSource \/ MapRing
  BY <1>1, <1>4 DEF WriteHeader, WriteSource, MapRing
<1>5. ASSUME NEW nr \in Site, Trace(nr) PROVE Mapped'
  <2>1. phase = "trace" /\ phase' = "trace" /\ sources' = sources /\ printed' = printed
    BY <1>5 DEF Trace
  <2>2. \E d, P2, N2 : Laid(segments', ring', pos', d, P2, N2)
    BY <1>2, <1>5, TraceKeeps
  <2> QED BY <1>1, <2>1, <2>2 DEF Mapped
<1>6. CASE Stop
  <2>1. /\ phase = "trace" /\ phase' = "stopped"
        /\ UNCHANGED <<sources, ring, pos, segments, printed>>
    BY <1>1, <1>6 DEF Stop
  <2> QED BY <1>1, <1>2, <2>1 DEF Mapped
<1>7. CASE Refuse
  <2>1. Len(NrArgs) \in Nat
    BY TraceAssumption
  <2> QED BY <1>1, <1>7, <2>1 DEF Refuse
<1>8. CASE Open
  <2>1. /\ phase = "stopped" /\ phase' = "print" /\ start' = FindOldest /\ at' = FindOldest
        /\ UNCHANGED <<sources, ring, pos, segments, printed>>
    BY <1>8 DEF Open
  <2>2. Lost' = Lost
    BY <2>1, KeptStays
  <2>3. Walking(segments, ring, c, P, Lost, FindOldest, FindOldest, printed)
    BY <1>1, <1>2, <2>1, WalkOpens
  <2> QED BY <1>1, <1>2, <2>1, <2>2, <2>3 DEF Mapped
<1>9. CASE Wrap \/ SkipSegment \/ PrintEvent
  <2>1. phase = "print" /\ UNCHANGED <<sources, ring, pos, segments, start>>
    BY <1>9 DEF Wrap, SkipSegment, PrintEvent
  <2>2. WalksOn(c, P)
    BY <1>2, <1>9, <2>1, WrapWalks, SkipWalks, PrintWalks
  <2>3. Lost' = Lost /\ Kept' = Kept
    BY <2>1, KeptStays
  <2> QED BY <1>1, <1>2, <2>1, <2>2, <2>3 DEF Mapped, WalksOn
<1> QED BY <1>3, <1>4, <1>5, <1>6, <1>7, <1>8, <1>9 DEF Next, Reads

\* The invariant implies what is promised.
LEMMA InvMeans == Inv => PrintsWhatIsKept
<1>1. ASSUME Unmapped PROVE PrintsWhatIsKept
  <2>1. /\ ring = <<>> /\ segments = <<>> /\ printed = <<>>
        /\ Len(segments) = 0 /\ segments \in Seq(Nat) /\ 1 .. 0 = {} /\ 2 .. 0 = {}
    BY <1>1 DEF Unmapped
  <2>2. Numbered(segments)
    BY <2>1 DEF Numbered
  <2>3. Lost = 0
    BY <2>1, <2>2, LostFacts
  <2>4. PrintedTo(printed, Lost, 0) /\ 0 \in 0 .. Len(segments) - Lost /\ 0 = Len(segments) - Lost
    <3>1. <<>> \in [1 .. 0 -> SUBSET Nat]
      BY <2>1
    <3> QED BY <2>1, <2>3, <3>1 DEF PrintedTo
  <2>5. IsPrefix(printed, Kept) /\ printed = Kept
    <3>1. PICK k \in 0 .. Len(segments) - Lost : PrintedTo(printed, Lost, k) /\ k = Len(segments) - Lost
      BY <2>4
    <3>2. PrintedTo(printed, Lost, k)
      BY <3>1
    <3>3. /\ IsPrefix(printed, Kept)
          /\ k = Len(segments) - Lost => printed = Kept
          /\ PrintedTo(Append(printed, {Lost + k + 1}), Lost, k + 1)
      BY <2>2, <3>2, PrintedFacts, Zenon
    <3> QED BY <3>1, <3>3
  <2>6. DOMAIN ring = {}
    BY <2>1
  <2> QED BY <2>1, <2>5, <2>6 DEF PrintsWhatIsKept
<1>2. ASSUME Mapped PROVE PrintsWhatIsKept
  <2>1. phase \in {"trace", "stopped", "print", "printed"} /\ (phase = "printed" => printed = Kept)
    BY <1>2 DEF Mapped
  <2>2. ASSUME phase = "print"
        PROVE  IsPrefix(printed, Kept) /\ (at \in DOMAIN ring => ring[at].nr # -1)
    <3>1. PICK c, P, N : /\ Laid(segments, ring, pos, c, P, N)
                         /\ Walking(segments, ring, c, P, Lost, start, at, printed)
      BY <1>2, <2>2 DEF Mapped
    <3>2. PICK k \in 0 .. Len(segments) - Lost :
            PrintedTo(printed, Lost, k) /\ Walk(segments, ring, c, P, Lost + k + 1, at)
      BY <3>1 DEF Walking
    <3>3. Numbered(segments) /\ Lost \in Nat /\ Len(segments) \in Nat
      BY <3>1, WalkFacts
    <3>4. IsPrefix(printed, Kept)
      BY <3>2, <3>3, PrintedFacts
    <3> DEFINE e == Lost + k + 1
    <3>5. PICK u \in Around(Begun(segments)) :
            AtEvent(segments, P, e, u, at) \/ AtZero(segments, ring, c, e, u, at) \/ AtEnd(segments, c, e, u, at)
      BY <3>2 DEF Walk
    <3>6. e \in Nat /\ e > Lost /\ e >= 1
      BY <3>3
    <3> HIDE DEF e
    <3>7. CASE AtEvent(segments, P, e, u, at)
      <4>1. e \in 1 .. Len(segments) /\ at = P[e]
        BY <3>3, <3>6, <3>7 DEF AtEvent
      <4>2. N[e] \in Site /\ ring[P[e]] = [nr |-> N[e], time |-> e]
        BY <3>1, <3>6, <4>1, KeptEvent
      <4>3. N[e] # -1
        BY <4>2, Sites
      <4> QED BY <3>4, <4>1, <4>2, <4>3
    <3>8. CASE AtZero(segments, ring, c, e, u, at)
      BY <3>4, <3>8 DEF AtZero
    <3>9. CASE AtEnd(segments, c, e, u, at)
      <4>1. at \notin DOMAIN ring
        <5>1. TraceBufSize \in Nat /\ DOMAIN ring = 0 .. TraceBufSize - 1
          BY <3>1, WalkFacts
        <5> QED BY <3>9, <5>1 DEF AtEnd
      <4> QED BY <3>4, <4>1
    <3> QED BY <3>5, <3>7, <3>8, <3>9
  <2> QED BY <2>1, <2>2 DEF PrintsWhatIsKept
<1> QED BY <1>1, <1>2 DEF Inv

\* Wherever the program stops, print-trace prints all the events that no later
\* round of dtracef_get_event has overwritten, each once, with its own
\* arguments and the oldest first, and never takes an argument for an event:
\* for segments of any size, any number of them, of sites and of events.
THEOREM TracePrinted == Spec => []PrintsWhatIsKept
<1>1. Inv /\ [Next]_vars => Inv'
  BY UnmappedStep, MappedStep DEF Inv
<1> QED BY InvInit, InvMeans, <1>1, PTL DEF Spec
=============================================================================
