----------------------------- MODULE TraceRing ------------------------------
(***************************************************************************)
(* The trace (src/shared/dtracef.c): a file with a header for each site of *)
(* the program, and a ring of segments that is mapped and filled with      *)
(* events until the program ends or crashes; and print-trace, which finds  *)
(* the oldest segment and walks around the ring.                           *)
(*                                                                         *)
(* The unit of memory is a cell: the fields of an event before its         *)
(* arguments are one, and each argument is one.                            *)
(***************************************************************************)
EXTENDS Integers, FiniteSets, FiniteSetsExt, SequencesExt

CONSTANTS
    NrArgs,         \* the number of arguments of each site, in the order of their nr
    MAX_ARGS,       \* RPDFS_DTRACEF_MAX_ARGS
    SEGMENT,        \* cells of a segment
    NrSegments,     \* segments of TRACE_BUF_SIZE
    MaxEvents       \* bound: how many events are traced

\* check_format: the specifications of a format, which are the site's arguments.
ValidFormat(nr_args) == nr_args \in 1 .. MAX_ARGS

ASSUME TraceAssumption ==
    /\ NrArgs \in Seq(Nat) /\ \A n \in DOMAIN NrArgs : ValidFormat(NrArgs[n])
    /\ MAX_ARGS \in Nat /\ MAX_ARGS + 2 <= SEGMENT
    /\ {SEGMENT, NrSegments, MaxEvents} \subseteq Nat \ {0}

VARIABLES
    phase,          \* "start", "create" the file, "trace", "stopped", "print", "printed", "refused"
    sources,        \* how many source headers the file has
    ring,           \* the cells from 0; none before the file is mapped
    pos,            \* where the next event goes
    segments,       \* of each event: how many segments were begun up to its own
    start, at,      \* of print-trace: the oldest segment, and its position
    printed         \* the events that it printed: the times of their cells

vars == <<phase, sources, ring, pos, segments, start, at, printed>>

TraceBufSize == SEGMENT * NrSegments

\* dtracef_register_site, before main: the sites are numbered from 1.
Site == DOMAIN NrArgs
EventSize(nr) == 1 + NrArgs[nr]

Zero == [nr |-> 0, time |-> 0]
\* An argument of the event of that time; what it is taken for is not known.
Arg(time) == [nr |-> -1, time |-> time]

\* The start of the next segment.
RoundUp(p) == ((p + SEGMENT - 1) \div SEGMENT) * SEGMENT

Init ==
    /\ phase = "start" /\ sources = 0
    /\ ring = <<>> /\ pos = 0 /\ segments = <<>>
    /\ start = 0 /\ at = 0 /\ printed = <<>>

-----------------------------------------------------------------------------
(* The program that is traced.                                             *)

\* dtracef_init creates the file and writes its header.
WriteHeader ==
    /\ phase = "start"
    /\ phase' = "create"
    /\ UNCHANGED <<sources, ring, pos, segments, start, at, printed>>

\* dtracef_init writes the header of the next site.
WriteSource ==
    /\ phase = "create" /\ sources < Len(NrArgs)
    /\ sources' = sources + 1
    /\ UNCHANGED <<phase, ring, pos, segments, start, at, printed>>

\* The rest of dtracef_init: the ring is allocated, all zero, and mapped.
MapRing ==
    /\ phase = "create" /\ sources = Len(NrArgs)
    /\ phase' = "trace"
    /\ ring' = [i \in 0 .. TraceBufSize - 1 |-> Zero]
    /\ UNCHANGED <<sources, pos, segments, start, at, printed>>

\* Faulty: no room is kept for the zero behind the event.
FitsWithoutZero(size, p) == size <= SEGMENT - (p % SEGMENT)

Fits(size, p) == size + 1 <= SEGMENT - (p % SEGMENT)

\* dtracef_get_event: where an event of that size goes.
Place(size) ==
    LET p == IF Fits(size, pos) THEN pos ELSE pos + SEGMENT - (pos % SEGMENT)
    IN IF p = TraceBufSize THEN 0 ELSE p

\* The cells with an event at p, its arguments, and a zero behind them.
RingWith(cells, p, nr, time) ==
    [i \in DOMAIN cells |->
       IF i = p THEN [nr |-> nr, time |-> time]
       ELSE IF i \in p + 1 .. p + EventSize(nr) - 1 THEN Arg(time)
       ELSE IF i = p + EventSize(nr) THEN Zero ELSE cells[i]]

\* dtracef_get_event and the stores of the arguments.  Time is the number of
\* the event: the clock does not go back.
Trace(nr) ==
    /\ phase = "trace" /\ Len(segments) < MaxEvents
    /\ LET p == Place(EventSize(nr))
       IN /\ ring' = RingWith(ring, p, nr, Len(segments) + 1)
          /\ pos' = p + EventSize(nr)
          /\ segments' = Append(segments,
                           IF segments = <<>> THEN 1
                           ELSE IF p % SEGMENT = 0 THEN Last(segments) + 1 ELSE Last(segments))
    /\ UNCHANGED <<phase, sources, start, at, printed>>

\* The program ends or crashes, but not within dtracef_get_event.
Stop ==
    /\ phase \in {"start", "create", "trace"}
    /\ phase' = "stopped"
    /\ UNCHANGED <<sources, ring, pos, segments, start, at, printed>>

-----------------------------------------------------------------------------
(* dtracef_print_trace_mem                                                 *)

\* find_oldest: the first segment that begins before the first one does.
FindOldest ==
    LET first(s) == ring[s * SEGMENT]
        older == {s \in 0 .. NrSegments - 1 :
                    /\ \A u \in 0 .. s : first(u).nr # 0
                    /\ first(s).time < first(0).time}
    IN IF ring = <<>> \/ older = {} THEN 0 ELSE Min(older) * SEGMENT

\* There is no file, or not all its headers are there: it is refused.
Refuse ==
    /\ phase = "stopped" /\ sources < Len(NrArgs)
    /\ phase' = "refused"
    /\ UNCHANGED <<sources, ring, pos, segments, start, at, printed>>

Open ==
    /\ phase = "stopped" /\ sources = Len(NrArgs)
    /\ start' = FindOldest /\ at' = FindOldest
    /\ phase' = "print"
    /\ UNCHANGED <<sources, ring, pos, segments, printed>>

\* The loop goes on, or ends where it started.
GoesTo(p) == at' = p /\ phase' = IF p = start THEN "printed" ELSE "print"

Wrap ==
    /\ phase = "print" /\ at >= Cardinality(DOMAIN ring)
    /\ GoesTo(0)
    /\ UNCHANGED <<sources, ring, pos, segments, start, printed>>

\* Faulty: the position itself is rounded up.
SegmentAfterOrAt(p) == RoundUp(p)

SegmentAfter(p) == RoundUp(p + 1)

\* There are no more events in this segment.
SkipSegment ==
    /\ phase = "print" /\ at < Cardinality(DOMAIN ring) /\ ring[at].nr = 0
    /\ GoesTo(SegmentAfter(at))
    /\ UNCHANGED <<sources, ring, pos, segments, start, printed>>

\* print_event of the event at p, with an argument for each specification.
Printed(p) == {ring[i].time : i \in p .. p + NrArgs[ring[p].nr]}

PrintEvent ==
    /\ phase = "print" /\ at < Cardinality(DOMAIN ring) /\ ring[at].nr \in Site
    /\ printed' = Append(printed, Printed(at))
    /\ GoesTo(at + EventSize(ring[at].nr))
    /\ UNCHANGED <<sources, ring, pos, segments, start>>

Reads == Refuse \/ Open \/ Wrap \/ SkipSegment \/ PrintEvent

Next == WriteHeader \/ WriteSource \/ MapRing \/ (\E nr \in Site : Trace(nr)) \/ Stop \/ Reads

Spec == Init /\ [][Next]_vars

\* print-trace is run, and runs until it ends.
LiveSpec == Spec /\ WF_vars(Reads)

-----------------------------------------------------------------------------
\* How many events a later round has overwritten: they were in segments that
\* have been begun again.
Lost == Cardinality({i \in DOMAIN segments : segments[i] <= Last(segments) - NrSegments})

\* The events of the last NrSegments segments that were begun, each whole.
Kept == [i \in 1 .. Len(segments) - Lost |-> {Lost + i}]

\* Wherever the program stops, print-trace prints all the events that were not
\* overwritten by a later round, each once, with its own arguments and the
\* oldest first, and never takes an argument or an event of an earlier round for one (dtracef.c:339).
PrintsWhatIsKept ==
    /\ phase = "print" => IsPrefix(printed, Kept)
    /\ phase = "printed" => printed = Kept
    /\ phase = "refused" => segments = <<>>
    /\ phase = "print" /\ at \in DOMAIN ring => ring[at].nr # -1

\* The walk comes back to the position it started from: its only exit is that
\* they are equal (dtracef.c:361).
PrintEnds == phase = "stopped" ~> phase \in {"printed", "refused"}
=============================================================================
