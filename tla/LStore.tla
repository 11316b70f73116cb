------------------------------- MODULE LStore -------------------------------
(***************************************************************************)
(* The log store of rpdfs-devd (src/devd/lstore.c): writing tasks, the     *)
(* task that writes dirty blocks, commits written concurrently, a crash    *)
(* that tears them and the recovery that looks for the last good one.      *)
(*                                                                         *)
(* Tasks are utasks: one runs until it sleeps, so an action is the code    *)
(* between two places that can sleep.  Addresses count blocks.  The tree   *)
(* of items is the contents of its only block, a leaf (BTree has the       *)
(* splits); a block's crc stands for its contents.                         *)
(***************************************************************************)
EXTENDS Integers, Sequences, FiniteSets, SequencesExt

CONSTANTS
    Key,            \* the keys of blocks
    Write,          \* the write requests
    KeyOf,          \* the key each of them writes
    BadCrc,         \* the requests whose data does not match their crc
    MaxEntries,     \* RPDFS_LOG_COMMIT_BLOCK_MAX_ENTRIES
    SearchOffset,   \* SEARCH_OFFSET, in blocks
    DevSize,        \* dev_size, in blocks
    MaxCrashes,     \* bound on the crashes
    None            \* no write, no address, no commit

ASSUME WriteAssumption ==
    /\ KeyOf \in [Write -> Key]
    /\ BadCrc \subseteq Write
    /\ None \notin Write

ASSUME SizeAssumption ==
    /\ MaxEntries \in Nat /\ MaxEntries > 4   \* no reservation exceeds RSV_MAX_BLOCKS
    /\ SearchOffset \in Nat \ {0}
    /\ DevSize \in Nat /\ DevSize > 1       \* room behind the first commit
    /\ MaxCrashes \in Nat

VARIABLES
    disk,       \* what the device holds at each address
    up,         \* rpdfs-devd has loaded the log and is running
    stable,     \* stable_cmt; finished_commit_seq is always its commit_seq
    current,    \* current_cmt
    dirty,      \* dirty_cmt, or None
    writing,    \* the commits whose blocks are being written
    written,    \* the commits written before one that they follow
    nextSeq,    \* next_commit_seq
    nextAddr,   \* next_dev_addr
    dirtySeq,   \* dirty_seq
    writeTask,  \* write_dirty_tsk is queued
    task,       \* the utask of each write request
    reader,     \* the utask of a read request
    visible,    \* the writes the network has seen: acknowledged, or read
    crashes     \* how many crashes there were

mem  == <<up, stable, current, dirty, writing, written, nextSeq, nextAddr, dirtySeq,
          writeTask>>
vars == <<disk, mem, task, reader, visible, crashes>>

-----------------------------------------------------------------------------
(* Blocks and commits.  A commit block holds seq, addr, the root of the    *)
(* tree, total and its entries; map is the tree that root leads to and     *)
(* hist, a history value, the writes the commit's tree is the result of.   *)

Addr == 0 .. (DevSize - 1)

CommitType ==
    [seq : Nat, addr : Addr, root : Addr \union {None}, height : {0, 1}, total : Nat,
     entries : Seq([type : {"DATA", "BTREE", "SEARCH"}, crc : Write \union {None}]),
     hist : Seq(Write), map : [Key -> [addr : Addr \union {None}, crc : Write \union {None}]]]

ASSUME NoneAssumption == None \notin Addr /\ None \notin CommitType

NoItem == [addr |-> None, crc |-> None]
EmptyMap == [k \in Key |-> NoItem]

CommitBlock(c) == [type |-> "COMMIT", cmt |-> [c EXCEPT !.map = EmptyMap]]
DataBlock(w)   == [type |-> "DATA", crc |-> w]
BtreeBlock(m)  == [type |-> "BTREE", map |-> m]
SearchBlock(a) == [type |-> "SEARCH", commit |-> a]
NoBlock        == [type |-> "NONE"]

Entry(type, crc) == [type |-> type, crc |-> crc]
HasHeader(type)  == type \in {"COMMIT", "BTREE", "SEARCH"}

\* Block i of commit c: the commit block itself, then one for each entry.
BlockOf(c, i) ==
    IF i = 0 THEN CommitBlock(c)
    ELSE LET e == c.entries[i]
         IN CASE e.type = "DATA"   -> DataBlock(e.crc)
              [] e.type = "BTREE"  -> BtreeBlock(c.map)
              [] e.type = "SEARCH" -> SearchBlock(c.addr)

Extent(c) == c.addr .. (c.addr + Len(c.entries))

\* The first commit, written by format-device.
RootCommit ==
    [seq |-> 1, addr |-> 0, root |-> None, height |-> 0, total |-> 0,
     entries |-> <<>>, hist |-> <<>>, map |-> EmptyMap]

\* What a task reads at an address: the cached block, or the device's.
BlockAt(a) ==
    LET cached == {c \in writing \union ({dirty} \ {None}) : a \in Extent(c)}
    IN IF cached = {} THEN disk[a]
       ELSE LET c == CHOOSE x \in cached : TRUE IN BlockOf(c, a - c.addr)

-----------------------------------------------------------------------------
(* Recovery.                                                               *)

\* calc_header_crc: blocks are written whole, so those that have a header have
\* their crc in it.
CrcOK(block) == HasHeader(block.type)

\* lstore_read_block: a block with a header is checked by the crc within it.
HeaderOK(d, a) == a \in Addr /\ CrcOK(d[a])

\* Faulty: any block will do.
ReadOKAlways(d, a, e) == TRUE

ReadOK(d, a, e) ==
    IF HasHeader(e.type) THEN HeaderOK(d, a) ELSE a \in Addr /\ d[a] = DataBlock(e.crc)

\* The block at a taken for a commit block.  (A btree block of few items has
\* zeroes where a commit block has nr_entries.)
AsCommit(d, a) == IF d[a].type = "COMMIT" THEN d[a].cmt ELSE [RootCommit EXCEPT !.addr = a]

Verifies(d, a) ==
    /\ HeaderOK(d, a)
    /\ LET es == AsCommit(d, a).entries
       IN \A i \in DOMAIN es : ReadOK(d, a + i, es[i])

AddrAfter(c) == c.addr + 1 + Len(c.entries)

RoundUp(a) == ((a + SearchOffset - 1) \div SearchOffset) * SearchOffset

\* The last commit that verifies, walking from start to the end of its segment.
LastVerified(d, start) ==
    LET last[n \in 0 .. DevSize] ==   \* n addresses are left
            LET a == DevSize - n
            IN IF a >= RoundUp(start + 1) \/ ~Verifies(d, a) THEN None
               ELSE LET next == AddrAfter(AsCommit(d, a))
                        rest == IF next >= DevSize THEN None ELSE last[DevSize - next]
                    IN IF rest = None THEN a ELSE rest
    IN last[DevSize - start]

\* The binary search for the greatest search offset with a valid block.  Each
\* round halves last at most, or leaves the state as it is: then it never ends.
SearchRound(d, s) ==
    LET mid  == (s.start + s.last) \div 4
        addr == mid * SearchOffset
    IN IF s.start > s.last THEN s
       ELSE IF ~HeaderOK(d, addr) THEN [s EXCEPT !.last = mid - 1]
       ELSE LET at == IF d[addr].type = "SEARCH" THEN d[addr].commit ELSE addr
            IN [s EXCEPT !.start = mid + 1,
                         !.recent = IF @ = None \/ at > @ THEN at ELSE @]

FindRecent(d) ==
    LET lastSegment == (DevSize - 1) \div SearchOffset
        round[n \in 0 .. (2 * DevSize)] ==
            IF n = 0 THEN [start |-> 0, last |-> lastSegment, recent |-> None]
            ELSE CHOOSE t \in {SearchRound(d, s) : s \in {round[n - 1]}} : TRUE
    IN round[2 * DevSize]

SearchEnds(d) == FindRecent(d).start > FindRecent(d).last

\* The address of the commit to load, or None when there is no good one.
CommitToLoad(d) ==
    LET recent == FindRecent(d).recent
        found  == LastVerified(d, recent)
    IN IF recent = None THEN None
       ELSE IF found = None /\ recent >= SearchOffset
       THEN LastVerified(d, recent - SearchOffset)
       ELSE found

LoadedCommit(d, a) ==
    LET c == AsCommit(d, a)
    IN [c EXCEPT !.map = IF c.height = 0 THEN EmptyMap
                         ELSE IF d[c.root].type = "BTREE" THEN d[c.root].map
                         ELSE EmptyMap]

-----------------------------------------------------------------------------
Idle == [pc |-> "idle", seq |-> 0, height |-> 0, awake |-> FALSE]
NoReader == [pc |-> "idle", seq |-> 0, key |-> None, saw |-> None]

Init ==
    /\ disk = [a \in Addr |-> IF a = 0 THEN CommitBlock(RootCommit) ELSE NoBlock]
    /\ up = TRUE
    /\ stable = RootCommit /\ current = RootCommit /\ dirty = None
    /\ writing = {} /\ written = {}
    /\ nextSeq = 2 /\ nextAddr = 1 /\ dirtySeq = 0 /\ writeTask = FALSE
    /\ task = [w \in Write |-> Idle]
    /\ reader = NoReader
    /\ visible = {} /\ crashes = 0

-----------------------------------------------------------------------------
(* A write.                                                                *)

CurrentCommit == IF dirty # None THEN dirty ELSE current

\* retry_dirty_seq
Retries(w) == dirtySeq # task[w].seq

\* prepare_dirty and the walk that reads the write's inputs into the cache.
Prepare(w) ==
    /\ up
    /\ \/ task[w].pc = "idle"
       \/ task[w].pc = "prepare" /\ Retries(w)
    /\ task' = [task EXCEPT ![w] = [pc |-> "prepare", seq |-> dirtySeq,
                                    height |-> CurrentCommit.height, awake |-> TRUE]]
    /\ UNCHANGED <<disk, mem, reader, visible, crashes>>

\* rsv_btree_insert and the data block.
Reserved(w) == 1 + 2 * task[w].height + 1

Fits(w) == dirty # None => Reserved(w) <= MaxEntries - Len(dirty.entries)

\* The task stands at utask_wait_event(waitq, reservation_fits).  A task that
\* was woken there does not look at dirty_seq again.
AtReservation(w) ==
    /\ up
    /\ \/ task[w].pc = "prepare" /\ ~Retries(w)
       \/ task[w].pc = "reserve" /\ task[w].awake
    /\ nextAddr + 5 < DevSize   \* bound: the BUG_ON of a full device is not reached

\* It does not fit: have the dirty commit written and wait for that.
WaitToReserve(w) ==
    /\ AtReservation(w) /\ ~Fits(w)
    /\ writeTask' = TRUE
    /\ task' = [task EXCEPT ![w].pc = "reserve", ![w].awake = FALSE]
    /\ UNCHANGED <<disk, up, stable, current, dirty, writing, written, nextSeq, nextAddr, dirtySeq,
                   reader, visible, crashes>>

\* Faulty: the changes of commits still being written are left out.
OpenCommitFromStable ==
    IF dirty # None THEN dirty
    ELSE [stable EXCEPT !.seq = nextSeq, !.addr = nextAddr, !.entries = <<>>]

\* start_dirty_commit
OpenCommit ==
    IF dirty # None THEN dirty
    ELSE [current EXCEPT !.seq = nextSeq, !.addr = nextAddr, !.entries = <<>>]

\* lstore_alloc_dirty, with a search block where the address asks for one.
AddEntry(c, e) ==
    IF AddrAfter(c) % SearchOffset = 0
    THEN [c EXCEPT !.entries = @ \o <<Entry("SEARCH", None), e>>]
    ELSE [c EXCEPT !.entries = Append(@, e)]

LastAddr(c) == c.addr + Len(c.entries)

RootIsDirty(c) == c.height # 0 /\ c.root \in Extent(c)

\* Faulty: root->height stays zero.
DirtyRootNoHeight(c) ==
    IF RootIsDirty(c) THEN c
    ELSE LET d == AddEntry(c, Entry("BTREE", None)) IN [d EXCEPT !.root = LastAddr(d)]

\* The first change of the tree in a commit copies the leaf, later ones find
\* the copy; the first change of all allocates it.
DirtyRoot(c) ==
    IF RootIsDirty(c) THEN c
    ELSE LET d == AddEntry(c, Entry("BTREE", None))
         IN [d EXCEPT !.root = LastAddr(d), !.height = 1]

Apply(c, w) ==
    LET d == AddEntry(c, Entry("DATA", w))
        t == DirtyRoot(d)
    IN [t EXCEPT !.map[KeyOf[w]] = [addr |-> LastAddr(d), crc |-> w],
                 !.total = IF c.map[KeyOf[w]] = NoItem THEN @ + 1 ELSE @,
                 !.hist = Append(@, w)]

\* Dirty the blocks of the write, have them written and wait for that.
Modify(w) ==
    /\ AtReservation(w) /\ Fits(w)
    /\ w \notin BadCrc
    /\ LET c == Apply(OpenCommit, w)
       IN /\ dirty' = c
          /\ nextAddr' = AddrAfter(c)
          /\ task' = [task EXCEPT ![w].pc = "commit", ![w].seq = c.seq]
    /\ nextSeq' = IF dirty = None THEN nextSeq + 1 ELSE nextSeq
    /\ dirtySeq' = dirtySeq + 1
    /\ writeTask' = TRUE
    /\ UNCHANGED <<disk, up, stable, current, writing, written, reader, visible, crashes>>

\* The data is found to be bad only after the commit was opened.
RefuseBadCrc(w) ==
    /\ AtReservation(w) /\ Fits(w)
    /\ w \in BadCrc
    /\ dirty' = OpenCommit
    /\ nextAddr' = IF dirty = None THEN nextAddr + 1 ELSE nextAddr
    /\ nextSeq' = IF dirty = None THEN nextSeq + 1 ELSE nextSeq
    /\ task' = [task EXCEPT ![w].pc = "failed"]
    /\ UNCHANGED <<disk, up, stable, current, writing, written, dirtySeq, writeTask, reader, visible, crashes>>

\* Faulty: the client is answered when its own commit is written.
ReplyWhenWritten(w) ==
    /\ up
    /\ task[w].pc = "commit"
    /\ stable.seq >= task[w].seq \/ \E c \in written : c.seq = task[w].seq
    /\ task' = [task EXCEPT ![w].pc = "done"]
    /\ visible' = visible \union {w}
    /\ UNCHANGED <<disk, mem, reader, crashes>>

\* wait_for_finished_commit
Finished(seq) == stable.seq >= seq

\* The answer to the client, once its commit and those before it are written.
Reply(w) ==
    /\ up
    /\ task[w].pc = "commit" /\ Finished(task[w].seq)
    /\ task' = [task EXCEPT ![w].pc = "done"]
    /\ visible' = visible \union {w}
    /\ UNCHANGED <<disk, mem, reader, crashes>>

-----------------------------------------------------------------------------
(* The writing of commits.                                                 *)

\* write_dirty_utask, and lstore_blk_write until it has submitted the write.
SubmitCommit ==
    /\ up /\ writeTask /\ dirty # None
    /\ current' = dirty /\ dirty' = None
    /\ writing' = writing \union {dirty}
    /\ writeTask' = FALSE
    /\ UNCHANGED <<disk, up, stable, written, nextSeq, nextAddr, dirtySeq, task, reader,
                   visible, crashes>>

\* utask_writev of the commit and its blocks.
Stored(c) == [a \in Addr |-> IF a \in Extent(c) THEN BlockOf(c, a - c.addr) ELSE disk[a]]

\* utask_writev returns; writes of several commits complete in any order.
CompleteWrite == \E c \in writing :
    /\ up
    /\ disk' = Stored(c)
    /\ writing' = writing \ {c}
    /\ written' = written \union {c}
    /\ UNCHANGED <<up, stable, current, dirty, nextSeq, nextAddr, dirtySeq, writeTask, task,
                   reader, visible, crashes>>

\* Faulty: commits finish in the order their writes complete; no wake up.
FinishAnyCommit == \E c \in written :
    /\ up
    /\ stable' = c
    /\ written' = written \ {c}
    /\ task' = [w \in Write |-> [task[w] EXCEPT !.awake = TRUE]]
    /\ UNCHANGED <<disk, up, current, dirty, writing, nextSeq, nextAddr, dirtySeq, writeTask,
                   reader, visible, crashes>>

FinishQuietly == \E c \in written :
    /\ up /\ stable.seq = c.seq - 1
    /\ stable' = c
    /\ written' = written \ {c}
    /\ UNCHANGED <<disk, up, current, dirty, writing, nextSeq, nextAddr, dirtySeq, writeTask,
                   task, reader, visible, crashes>>

\* finish_commit_write
FinishCommit == \E c \in written :
    /\ up /\ stable.seq = c.seq - 1
    /\ stable' = c
    /\ written' = written \ {c}
    /\ task' = [w \in Write |-> [task[w] EXCEPT !.awake = TRUE]]
    /\ UNCHANGED <<disk, up, current, dirty, writing, nextSeq, nextAddr, dirtySeq, writeTask,
                   reader, visible, crashes>>

-----------------------------------------------------------------------------
(* A read.                                                                 *)

\* prepare_read, and the walk of the stable tree; again when dirty_seq moved.
PrepareRead == \E k \in Key :
    /\ up
    /\ \/ reader.pc = "idle"
       \/ reader.pc = "reading" /\ dirtySeq # reader.seq /\ reader.key = k
    /\ reader' = [pc |-> "reading", seq |-> dirtySeq, key |-> k, saw |-> stable.map[k].crc]
    /\ UNCHANGED <<disk, mem, task, visible, crashes>>

FinishRead ==
    /\ up
    /\ reader.pc = "reading" /\ dirtySeq = reader.seq
    /\ reader' = [reader EXCEPT !.pc = "done"]
    /\ visible' = visible \union ({reader.saw} \ {None})
    /\ UNCHANGED <<disk, mem, task, crashes>>

-----------------------------------------------------------------------------
(* A crash, or a BUG_ON: of the blocks being written, any may have reached *)
(* the device.                                                             *)

InFlight == UNION {Extent(c) : c \in writing}

Crash ==
    /\ up /\ crashes < MaxCrashes
    /\ crashes' = crashes + 1
    /\ up' = FALSE
    /\ \E kept \in SUBSET InFlight :
         disk' = [a \in Addr |-> IF a \in kept THEN BlockAt(a) ELSE disk[a]]
    /\ dirty' = None /\ writing' = {} /\ written' = {} /\ writeTask' = FALSE
    /\ task' = [w \in Write |-> IF task[w].pc \in {"prepare", "reserve", "commit"}
                                THEN [Idle EXCEPT !.pc = "lost"] ELSE task[w]]
    /\ reader' = NoReader
    /\ UNCHANGED <<stable, current, nextSeq, nextAddr, dirtySeq, visible>>

\* load_stable_commit, when its search ends and finds a commit.
Recover ==
    /\ ~up
    /\ SearchEnds(disk) /\ CommitToLoad(disk) # None
    /\ LET c == LoadedCommit(disk, CommitToLoad(disk))
       IN /\ stable' = c /\ current' = c
          /\ nextSeq' = c.seq + 1
          /\ nextAddr' = AddrAfter(c)
    /\ up' = TRUE /\ dirtySeq' = 0
    /\ UNCHANGED <<disk, dirty, writing, written, writeTask, task, reader, visible, crashes>>

-----------------------------------------------------------------------------
WriteStep(w) ==
    Prepare(w) \/ WaitToReserve(w) \/ Modify(w) \/ RefuseBadCrc(w) \/ Reply(w)

DeviceStep == SubmitCommit \/ CompleteWrite \/ FinishCommit

Next ==
    \/ \E w \in Write : WriteStep(w)
    \/ DeviceStep
    \/ PrepareRead \/ FinishRead
    \/ Crash \/ Recover

Spec == Init /\ [][Next]_vars

\* Runnable utasks run, submitted IO completes, the daemon is restarted.
Fairness ==
    /\ \A w \in Write : WF_vars(WriteStep(w))
    /\ WF_vars(SubmitCommit) /\ WF_vars(FinishCommit) /\ WF_vars(CompleteWrite)
    /\ WF_vars(FinishRead) /\ WF_vars(Recover)

FairSpec == Spec /\ Fairness

-----------------------------------------------------------------------------
(* Correctness.                                                            *)

\* Every variable stays in its domain; a tree has a root when it has a height.
TypeOK ==
    /\ up \in BOOLEAN /\ writeTask \in BOOLEAN
    /\ stable \in CommitType /\ current \in CommitType
    /\ dirty \in CommitType \union {None}
    /\ writing \subseteq CommitType /\ written \subseteq CommitType
    /\ nextSeq \in Nat /\ nextAddr \in Addr /\ dirtySeq \in Nat
    /\ task \in [Write -> [pc : {"idle", "prepare", "reserve", "commit", "done", "failed", "lost"},
                           seq : Nat, height : {0, 1}, awake : BOOLEAN]]
    /\ reader \in [pc : {"idle", "reading", "done"}, seq : Nat, key : Key \union {None},
                   saw : Write \union {None}]
    /\ visible \subseteq Write /\ crashes \in 0 .. MaxCrashes
    /\ \A c \in {stable, current} : c.height = 0 <=> c.root = None

\* "A commit's results are only visible to the network once all previous
\* commits have succeeded": what a client was told, by an answer to its write
\* or to a read, is never lost, by a crash or by what is loaded after it.
VisibleSurvives == visible \subseteq Range(stable.hist)

LastWrite(hist, k) ==
    LET is == {i \in DOMAIN hist : KeyOf[hist[i]] = k}
    IN IF is = {} THEN None ELSE hist[CHOOSE i \in is : \A j \in is : j <= i]

\* The stable tree leads to the last committed write of every key, through
\* blocks no later commit has overwritten, and total counts its items.
StableIsReadable == up =>
    /\ stable.height # 0 => BlockAt(stable.root) = BtreeBlock(stable.map)
    /\ \A k \in Key :
         LET item == stable.map[k]
         IN /\ item.crc = LastWrite(stable.hist, k)
            /\ item # NoItem => BlockAt(item.addr) = DataBlock(item.crc)
    /\ stable.total = Cardinality({k \in Key : stable.map[k] # NoItem})

\* The commits after the stable one are contiguous, in sequence and on the
\* device: recovery can walk from each one to the next.
LogContiguous == up =>
    LET later == writing \union written \union ({dirty} \ {None})
    IN /\ \A c \in later : \E p \in later \union {stable} :
            /\ p.seq = c.seq - 1 /\ AddrAfter(p) = c.addr
            /\ IsPrefix(p.hist, c.hist)
       /\ nextSeq = stable.seq + Cardinality(later) + 1
       /\ \A c \in later \union {stable} : AddrAfter(c) <= nextAddr

\* "Readers, and preparing writers, retry when they see the sequence number
\* change while they were sleeping": a write modifies what it has prepared.
ModifiesPrepared == [][\A w \in Write :
    task[w].pc \in {"prepare", "reserve"} /\ task'[w].pc = "commit" => task[w].seq = dirtySeq]_vars

\* Every write is answered, while there is no crash.
WritesAnswered == \A w \in Write :
    task[w].pc = "prepare" ~> task[w].pc \in {"done", "failed", "lost"}

\* "Find and load the last written stable commit": the daemon starts again.
Restarts == ~up ~> up

\* The log is a store whose writes take effect at once and in order.
Abs == INSTANCE LStoreAbs WITH applied <- stable.hist
AbsSpec == Abs!Spec
=============================================================================
