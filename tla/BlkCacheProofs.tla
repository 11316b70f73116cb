--------------------------- MODULE BlkCacheProofs ---------------------------
(***************************************************************************)
(* Proofs about BlkCache, for any number of tasks, writers and blocks: the *)
(* invariants the runs check follow from the inductive invariant CacheInv. *)
(***************************************************************************)
EXTENDS BlkCache, SeqFacts, FiniteSetTheorems

-----------------------------------------------------------------------------
(* Sequences.                                                              *)

\* A block at the end of the lru.
LEMMA ToTailElements ==
    ASSUME NEW lru \in Seq(Key), NEW k \in Key
    PROVE  /\ ToTail(lru, k) \in Seq(Key)
           /\ ToSet(ToTail(lru, k)) = ToSet(lru) \union {k}
           /\ IsInjective(lru) => IsInjective(ToTail(lru, k))
<1> DEFINE q == Without(lru, {k})
<1>1. q \in Seq(Key) /\ ToSet(q) = ToSet(lru) \ {k} /\ (IsInjective(lru) => IsInjective(q))
  BY WithoutElements
<1>2. ToTail(lru, k) = Append(q, k)
  BY DEF ToTail
<1> HIDE DEF q
<1>3. Append(q, k) \in Seq(Key)
  BY <1>1
<1>4. ToSet(Append(q, k)) = ToSet(q) \union {k} /\ (IsInjective(q) => IsInjective(Append(q, k)))
  BY <1>1, AppendElements
<1> QED BY <1>1, <1>2, <1>3, <1>4

\* The lru after an access to one of its blocks.
LEMMA LruAccessedElements ==
    ASSUME NEW lru \in Seq(Key), NEW k \in ToSet(lru), NEW b, NEW n, k \in Key
    PROVE  /\ LruAccessed(lru, k, b, n) \in Seq(Key)
           /\ ToSet(LruAccessed(lru, k, b, n)) = ToSet(lru)
           /\ IsInjective(lru) => IsInjective(LruAccessed(lru, k, b, n))
<1>1. LruAccessed(lru, k, b, n) \in {lru, ToTail(lru, k)}
  BY DEF LruAccessed
<1>2. /\ ToTail(lru, k) \in Seq(Key)
      /\ ToSet(ToTail(lru, k)) = ToSet(lru) \union {k}
      /\ IsInjective(lru) => IsInjective(ToTail(lru, k))
  BY ToTailElements
<1>3. ToSet(lru) \union {k} = ToSet(lru)
  OBVIOUS
<1> QED BY <1>1, <1>2, <1>3

\* The run list once the tasks ts are woken.
LEMMA WokenElements ==
    ASSUME NEW T, NEW queue \in Seq(T), NEW ts, ts \subseteq T, IsFiniteSet(ts)
    PROVE  /\ Woken(queue, ts) \in Seq(T)
           /\ ToSet(Woken(queue, ts)) = ToSet(queue) \union ts
           /\ IsInjective(queue) => IsInjective(Woken(queue, ts))
<1> DEFINE new == {t \in ts : ~Contains(queue, t)}
           q   == SetToSeq(new)
<1>1. DOMAIN queue = 1 .. Len(queue)
  OBVIOUS
<1>2. \A t : Contains(queue, t) <=> t \in ToSet(queue)
  BY <1>1, Zenon DEF Contains, ToSet
<1>3. IsFiniteSet(new)
  BY FS_Subset
<1>4. q \in Seq(new) /\ IsInjective(q) /\ ToSet(q) = new
  BY <1>3, SetToSeqFacts
<1>5. q \in Seq(T)
  <2>1. new \subseteq T
    OBVIOUS
  <2> HIDE DEF q, new
  <2> QED BY <1>4, <2>1
<1>6. ToSet(queue) \intersect new = {} /\ ToSet(queue) \union new = ToSet(queue) \union ts
  BY <1>2
<1>7. Woken(queue, ts) = queue \o q
  BY DEF Woken
<1> HIDE DEF q, new
<1> QED BY <1>4, <1>5, <1>6, <1>7, ConcatElements

\* try_shrink only frees clean blocks of the lru that nobody reads and that
\* were accessed before the oldest ticket was opened.
LEMMA ShrunkFacts ==
    ASSUME NEW blks, NEW lru \in Seq(Key), NEW k \in Shrunk(blks, lru)
    PROVE  /\ k \in ToSet(lru) /\ k \in Key
           /\ blks[k].accessed < OldestTicket /\ ~blks[k].reading /\ ~blks[k].dirty
<1> DEFINE tried == {i \in DOMAIN lru : \A j \in 1 .. i : blks[lru[j]].accessed < OldestTicket}
           idle  == {i \in tried : Reclaimable(blks[lru[i]])}
<1>1. PICK i \in idle : k = lru[i]
  BY Zenon DEF Shrunk
<1>2. i \in DOMAIN lru /\ Reclaimable(blks[k]) /\ \A j \in 1 .. i : blks[lru[j]].accessed < OldestTicket
  BY <1>1
<1>3. i \in 1 .. Len(lru)
  BY <1>2
<1>4. i \in 1 .. i
  BY <1>3
<1> HIDE DEF idle
<1>5. blks[k].accessed < OldestTicket
  BY <1>1, <1>2, <1>4, Zenon
<1>6. k \in ToSet(lru) /\ k \in Key
  BY <1>1, <1>3 DEF ToSet
<1> QED BY <1>2, <1>5, <1>6 DEF Reclaimable

-----------------------------------------------------------------------------
(* The inductive invariant.                                                *)

Blk == [accessed : Int, dirty : BOOLEAN, reading : BOOLEAN, uptodate : BOOLEAN,
        writeback : BOOLEAN, error : BOOLEAN]

Agent == Task \union Writer

PcType ==
    /\ pc \in [Agent -> {"idle", "start", "run", "dirtying", "reading", "waiting", "dangling", "writing"}]
    /\ \A w \in Writer : pc[w] \in {"idle", "start", "writing"}
    /\ \A t \in Task : pc[t] # "writing"

TypeInv ==
    /\ cache \in [Key -> Blk]
    /\ lru_list \in Seq(Key)
    /\ tickets \in Seq(Task) /\ next_ticket \in 1 .. MaxTickets + 1
    /\ number \in [Task -> 0 .. MaxTickets]
    /\ PcType
    /\ want \in [Task -> Key \union {None}]
    /\ pinned \in [Task -> SUBSET Key]
    /\ list \in [Writer -> SUBSET Key]
    /\ dirty_list \subseteq Key /\ stored \subseteq Key /\ promised \subseteq Key
    /\ write_dirty_tsk \in Writer \union {None}
    /\ run_list \in Seq(Agent) /\ current \in Agent \union {None}
    /\ broken \in BOOLEAN

\* The run list and the current task: who runs has been on the list, and
\* who is idle is on neither.
RunInv ==
    /\ IsInjective(run_list)
    /\ current \notin ToSet(run_list)
    /\ \A t \in ToSet(run_list) : pc[t] \in {"start", "reading", "waiting", "dangling", "writing"}
    /\ \A t \in Agent : pc[t] \in {"run", "dirtying"} => t = current
    /\ \A t \in Agent : pc[t] = "idle" => t # current

\* Writers: the one that is scheduled has not started, and the blocks of one
\* that was woken are stored.  A block is on one list, or none.
WriterInv ==
    /\ \A w \in Writer : pc[w] = "start" <=> w = write_dirty_tsk
    /\ \A w \in Writer : pc[w] # "writing" => list[w] = {}
    /\ \A w \in Writer : pc[w] = "writing" /\ (w = current \/ w \in ToSet(run_list))
                           => list[w] \subseteq stored
    /\ \A v, w \in Writer : v # w => list[v] \intersect list[w] = {}
    /\ \A w \in Writer : list[w] \intersect dirty_list = {}
    /\ dirty_list \intersect stored = {}

\* Blocks in the cache have been accessed, so that they differ from NoBlk.
BlkInv == \A k \in Key : cache[k] = NoBlk \/ cache[k].accessed \in 0 .. MaxTickets

LruInv == IsInjective(lru_list) /\ ToSet(lru_list) = Cached

\* The open tickets are those of the tasks that are at work, oldest first.
TicketInv ==
    /\ \A i, j \in DOMAIN tickets : i < j => number[tickets[i]] < number[tickets[j]]
    /\ ToSet(tickets) = {t \in Task : pc[t] \notin {"idle", "start"}}
    /\ \A t \in Task : number[t] < next_ticket

\* What is on its way to the device is cached and dirty.
DirtyInv == \A k \in Key : k \in dirty_list \/ (\E w \in Writer : k \in list[w])
              => k \in Cached /\ cache[k].dirty /\ cache[k].uptodate

\* A pinned block was accessed since the ticket was opened.
PinInv == \A t \in Task :
    /\ pc[t] \in {"idle", "start"} => pinned[t] = {}
    /\ \A k \in pinned[t] : k \in InTree /\ k \in Cached /\ cache[k].accessed >= number[t]

\* Of the tasks that get the same block one reads, and the others wait.
ReadInv ==
    /\ \A t \in Task : pc[t] \in {"reading", "waiting"} => want[t] \in InTree
    /\ \A t \in Task : pc[t] = "reading" => cache[want[t]].reading
    /\ \A t, u \in Task : pc[t] = "reading" /\ pc[u] = "reading" /\ want[t] = want[u] => t = u
    /\ \A k \in Key : cache[k].reading => \E t \in Task : pc[t] = "reading" /\ want[t] = k
    /\ \A t \in Task : pc[t] = "waiting" =>
         cache[want[t]].reading \/ t = current \/ t \in ToSet(run_list)

CacheInv ==
    /\ TypeInv /\ RunInv /\ WriterInv /\ PromisedGetsWritten
    /\ ~broken => BlkInv /\ LruInv /\ TicketInv /\ DirtyInv /\ PinInv /\ ReadInv

-----------------------------------------------------------------------------
(* Blocks, tickets and the cache.                                          *)

\* The fields of the records blocks are.
LEMMA BlkFields ==
    /\ NoBlk \in Blk /\ NoBlk.accessed = -1 /\ ~NoBlk.dirty /\ ~NoBlk.reading /\ ~NoBlk.uptodate /\ ~NoBlk.error
    /\ NewBlk \in Blk /\ NewBlk.accessed = 0 /\ ~NewBlk.dirty /\ ~NewBlk.reading /\ ~NewBlk.uptodate
    /\ ~NewBlk.error
    /\ \A b \in Blk : /\ b.accessed \in Int /\ b.dirty \in BOOLEAN /\ b.reading \in BOOLEAN
                      /\ b.uptodate \in BOOLEAN /\ b.error \in BOOLEAN /\ DOMAIN b = DOMAIN NoBlk
<1>1. NoBlk \in Blk /\ NoBlk.accessed = -1 /\ ~NoBlk.dirty /\ ~NoBlk.reading /\ ~NoBlk.uptodate /\ ~NoBlk.error
  BY DEF Blk, NoBlk
<1>2. /\ NewBlk \in Blk /\ NewBlk.accessed = 0 /\ ~NewBlk.dirty /\ ~NewBlk.reading /\ ~NewBlk.uptodate
      /\ ~NewBlk.error
  BY <1>1 DEF Blk, NewBlk
<1>3. ASSUME NEW b \in Blk
      PROVE  /\ b.accessed \in Int /\ b.dirty \in BOOLEAN /\ b.reading \in BOOLEAN
             /\ b.uptodate \in BOOLEAN /\ b.error \in BOOLEAN
  BY DEF Blk
<1>4. ASSUME NEW b \in Blk PROVE DOMAIN b = DOMAIN NoBlk
  <2>1. DOMAIN b = {"accessed", "dirty", "reading", "uptodate", "writeback", "error"}
    BY DEF Blk
  <2>2. DOMAIN NoBlk = {"accessed", "dirty", "reading", "uptodate", "writeback", "error"}
    BY DEF NoBlk
  <2> QED BY <2>1, <2>2
<1> QED BY <1>1, <1>2, <1>3, <1>4

\* An access only raises the number of a block.
LEMMA AccessedBlk ==
    ASSUME NEW b \in Blk, NEW n \in Nat
    PROVE  /\ Accessed(b, n) \in Blk
           /\ Accessed(b, n).accessed = (IF b.accessed < n THEN n ELSE b.accessed)
           /\ Accessed(b, n).dirty = b.dirty /\ Accessed(b, n).reading = b.reading
           /\ Accessed(b, n).uptodate = b.uptodate
  BY DEF Accessed, Blk

\* What the other changes of a block leave alone.
LEMMA ChangedBlk ==
    ASSUME NEW b \in Blk
    PROVE  /\ MarkedDirty(b) \in Blk /\ MarkedDirty(b).dirty /\ MarkedDirty(b).uptodate
           /\ MarkedDirty(b).accessed = b.accessed /\ MarkedDirty(b).reading = b.reading
           /\ [b EXCEPT !.reading = TRUE] \in Blk /\ [b EXCEPT !.reading = TRUE].reading
           /\ [b EXCEPT !.reading = TRUE].accessed = b.accessed
           /\ [b EXCEPT !.reading = TRUE].dirty = b.dirty
           /\ [b EXCEPT !.reading = TRUE].uptodate = b.uptodate
           /\ [b EXCEPT !.writeback = TRUE] \in Blk /\ [b EXCEPT !.writeback = TRUE].reading = b.reading
           /\ [b EXCEPT !.writeback = TRUE].accessed = b.accessed
           /\ [b EXCEPT !.writeback = TRUE].dirty = b.dirty
           /\ [b EXCEPT !.writeback = TRUE].uptodate = b.uptodate
           /\ [b EXCEPT !.writeback = FALSE, !.dirty = FALSE] \in Blk
           /\ [b EXCEPT !.writeback = FALSE, !.dirty = FALSE].reading = b.reading
           /\ [b EXCEPT !.writeback = FALSE, !.dirty = FALSE].accessed = b.accessed
           /\ [b EXCEPT !.writeback = FALSE, !.dirty = FALSE].uptodate = b.uptodate
  BY DEF Blk, MarkedDirty

\* Which keys are cached can be seen from the number of the last access.
LEMMA CachedByAccess ==
    ASSUME NEW c \in [Key -> Blk], \A k \in Key : c[k] = NoBlk \/ c[k].accessed \in 0 .. MaxTickets
    PROVE  \A k \in Key : c[k] # NoBlk <=> c[k].accessed >= 0
  BY BlkFields

\* The ticket of a task that pinned a block is not older than the oldest one.
LEMMA PinnedSince ==
    ASSUME TypeInv, TicketInv, PinInv, NEW t \in Task, NEW k \in pinned[t]
    PROVE  cache[k].accessed >= OldestTicket
<1>1. pc[t] \notin {"idle", "start"} /\ cache[k].accessed >= number[t] /\ k \in Key
  BY DEF PinInv, TypeInv
<1>2. t \in ToSet(tickets)
  BY <1>1 DEF TicketInv
<1>3. PICK i \in 1 .. Len(tickets) : t = tickets[i]
  BY <1>2 DEF ToSet, TypeInv
<1>4. tickets # <<>> /\ Head(tickets) = tickets[1] /\ 1 \in DOMAIN tickets /\ i \in DOMAIN tickets
      /\ DOMAIN tickets = 1 .. Len(tickets)
  BY <1>3 DEF TypeInv
<1>5. number[tickets[1]] <= number[t]
  <2>1. number \in [Task -> Nat] /\ tickets[1] \in Task
    BY <1>4, BlkAssumption DEF TypeInv
  <2>2. CASE i = 1
    BY <1>3, <2>1, <2>2
  <2>3. CASE 1 < i
    BY <1>3, <1>4, <2>1, <2>3 DEF TicketInv
  <2> QED BY <1>3, <2>2, <2>3
<1>6. OldestTicket = number[tickets[1]]
  BY <1>4 DEF OldestTicket
<1>7. cache[k].accessed \in Int /\ number[t] \in Int /\ number[tickets[1]] \in Int
  BY <1>1, <1>4, BlkFields, BlkAssumption DEF TypeInv
<1> QED BY <1>1, <1>5, <1>6, <1>7

-----------------------------------------------------------------------------
(* The initial states, and the steps of the scheduler.                     *)

\* The invariant holds at the start, with what recovery left in the cache.
LEMMA CacheInvInit == Init => CacheInv
<1> SUFFICES ASSUME Init PROVE CacheInv
  OBVIOUS
<1> USE BlkAssumption
<1>1. PICK probed \in SUBSET (Key \ Stored) :
        /\ cache = [k \in Key |-> IF k \in probed THEN [NewBlk EXCEPT !.uptodate = TRUE] ELSE NoBlk]
        /\ lru_list = SetToSeq(probed)
  BY DEF Init
<1>2. IsFiniteSet(probed)
  BY FS_Subset
<1>3. lru_list \in Seq(probed) /\ IsInjective(lru_list) /\ ToSet(lru_list) = probed
  BY <1>1, <1>2, SetToSeqFacts
<1> DEFINE b == [NewBlk EXCEPT !.uptodate = TRUE]
<1>4. b \in Blk /\ b.accessed = 0 /\ ~b.reading
  BY BlkFields DEF Blk
<1>5. cache = [k \in Key |-> IF k \in probed THEN b ELSE NoBlk]
  BY <1>1
<1> HIDE DEF b
<1>6. cache \in [Key -> Blk] /\ (\A k \in Key : ~cache[k].reading) /\ BlkInv /\ Cached = probed
  BY <1>4, <1>5, BlkFields DEF BlkInv, Cached
<1>7. lru_list \in Seq(Key)
  <2>1. probed \subseteq Key
    OBVIOUS
  <2> QED BY <1>3, <2>1
<1>8. /\ tickets = <<>> /\ next_ticket = 1 /\ dirty_list = {} /\ write_dirty_tsk = None
      /\ number = [t \in Task |-> 0] /\ pc = [t \in Agent |-> "idle"]
      /\ want = [t \in Task |-> None] /\ pinned = [t \in Task |-> {}] /\ list = [w \in Writer |-> {}]
      /\ run_list = <<>> /\ current = None /\ polling = TRUE
      /\ stored = Stored /\ promised = {} /\ broken = FALSE
  BY DEF Init, Agent
<1>9. ToSet(run_list) = {} /\ ToSet(tickets) = {} /\ IsInjective(run_list)
      /\ DOMAIN tickets = {} /\ run_list \in Seq(Agent) /\ tickets \in Seq(Task)
  BY <1>8 DEF ToSet, IsInjective
<1>10. TypeInv
  <2>1. PcType
    BY <1>8 DEF PcType, Agent
  <2>2. number \in [Task -> 0 .. MaxTickets] /\ next_ticket \in 1 .. MaxTickets + 1
    BY <1>8
  <2>3. /\ want \in [Task -> Key \union {None}] /\ pinned \in [Task -> SUBSET Key]
        /\ list \in [Writer -> SUBSET Key]
    BY <1>8
  <2>4. /\ dirty_list \subseteq Key /\ stored \subseteq Key /\ promised \subseteq Key
        /\ write_dirty_tsk \in Writer \union {None} /\ current \in Agent \union {None} /\ broken \in BOOLEAN
    BY <1>8
  <2> QED BY <1>6, <1>7, <1>9, <2>1, <2>2, <2>3, <2>4 DEF TypeInv
<1>11. RunInv /\ WriterInv /\ PromisedGetsWritten
  BY <1>8, <1>9 DEF RunInv, WriterInv, PromisedGetsWritten, Agent
<1>12. LruInv /\ TicketInv /\ DirtyInv
  BY <1>3, <1>6, <1>8, <1>9 DEF LruInv, TicketInv, DirtyInv, Agent
<1>13. PinInv /\ ReadInv
  BY <1>6, <1>8 DEF PinInv, ReadInv, Agent
<1> QED BY <1>6, <1>10, <1>11, <1>12, <1>13 DEF CacheInv

\* The invariant does not see the steps that change nothing.
LEMMA StutterKeepsInv ==
    ASSUME CacheInv, UNCHANGED vars
    PROVE  CacheInv'
<1> USE DEF vars, cacheVars, taskVars, schedVars
<1>1. TypeInv' /\ RunInv'
  BY DEF CacheInv, TypeInv, PcType, RunInv
<1>2. WriterInv' /\ PromisedGetsWritten'
  BY DEF CacheInv, WriterInv, PromisedGetsWritten
<1>3. ASSUME ~broken' PROVE (BlkInv /\ LruInv /\ TicketInv /\ DirtyInv)'
  BY <1>3 DEF CacheInv, BlkInv, LruInv, TicketInv, DirtyInv, Cached
<1>4. ASSUME ~broken' PROVE (PinInv /\ ReadInv)'
  BY <1>4 DEF CacheInv, PinInv, ReadInv, Cached, InTree
<1> QED BY <1>1, <1>2, <1>3, <1>4 DEF CacheInv

\* The first task of the run list runs.
LEMMA SwitchKeepsInv ==
    ASSUME CacheInv, Switch
    PROVE  CacheInv'
<1> USE BlkAssumption DEF Switch, cacheVars, taskVars
<1> DEFINE h == Head(run_list)
<1>1. TypeInv /\ RunInv /\ WriterInv /\ PromisedGetsWritten
      /\ BlkInv /\ LruInv /\ TicketInv /\ DirtyInv /\ PinInv /\ ReadInv
  BY DEF CacheInv
<1>2. run_list \in Seq(Agent) /\ run_list # <<>>
  BY <1>1 DEF TypeInv
<1>3. /\ h \in ToSet(run_list) /\ ToSet(run_list') \subseteq ToSet(run_list)
      /\ ToSet(run_list) \subseteq ToSet(run_list') \union {h}
      /\ IsInjective(run_list') /\ h \notin ToSet(run_list')
  BY <1>1, <1>2, TailElements DEF RunInv
<1>4. h \in Agent /\ run_list' \in Seq(Agent)
  BY <1>2
<1> HIDE DEF h
<1>5. current = None /\ current' = h /\ h # None
  BY <1>4 DEF h, Agent
<1>6. TypeInv'
  BY <1>1, <1>4, <1>5 DEF TypeInv, PcType
<1>7. RunInv'
  BY <1>1, <1>3, <1>4, <1>5 DEF RunInv, Agent
<1>8. WriterInv' /\ PromisedGetsWritten'
  BY <1>1, <1>3, <1>5 DEF WriterInv, PromisedGetsWritten, Agent
<1>9. (BlkInv /\ LruInv /\ TicketInv /\ DirtyInv)'
  BY <1>1 DEF BlkInv, LruInv, TicketInv, DirtyInv, Cached
<1>10. (PinInv /\ ReadInv)'
  BY <1>1, <1>3, <1>5 DEF PinInv, ReadInv, Cached, InTree
<1> QED BY <1>6, <1>7, <1>8, <1>9, <1>10 DEF CacheInv

\* A task is created.
LEMMA ArriveKeepsInv ==
    ASSUME CacheInv, NEW t \in Task, Arrive(t)
    PROVE  CacheInv'
<1> USE BlkAssumption DEF Arrive, cacheVars
<1>1. TypeInv /\ RunInv /\ WriterInv /\ PromisedGetsWritten
      /\ BlkInv /\ LruInv /\ TicketInv /\ DirtyInv /\ PinInv /\ ReadInv
  BY DEF CacheInv
<1>2. t \in Agent /\ t \notin Writer /\ t # None /\ t \notin ToSet(run_list) /\ pc[t] = "idle"
  BY <1>1 DEF RunInv, Agent
<1>3. run_list' \in Seq(Agent) /\ ToSet(run_list') = ToSet(run_list) \union {t} /\ IsInjective(run_list')
  BY <1>1, <1>2, AppendElements DEF TypeInv, RunInv
<1>4. pc' = [pc EXCEPT ![t] = "start"] /\ pc \in [Agent -> {"idle", "start", "run", "dirtying", "reading", "waiting", "dangling", "writing"}]
  BY <1>1 DEF TypeInv, PcType
<1>5. pc'[t] = "start" /\ \A u \in Agent \ {t} : pc'[u] = pc[u]
  BY <1>2, <1>4
<1>6. TypeInv'
  BY <1>1, <1>2, <1>3, <1>4 DEF TypeInv, PcType, Agent
<1>7. RunInv'
  BY <1>1, <1>2, <1>3, <1>5 DEF RunInv, TypeInv, Agent, ToSet
<1>8. WriterInv' /\ PromisedGetsWritten'
  <2>1. \A w \in Writer : pc'[w] = pc[w] /\ w # t /\ (w \in ToSet(run_list') <=> w \in ToSet(run_list))
    BY <1>2, <1>3, <1>5 DEF Agent
  <2>2. WriterInv'
    BY <1>1, <2>1 DEF WriterInv
  <2>3. write_dirty_tsk # None => write_dirty_tsk \in Writer
    BY <1>1 DEF TypeInv
  <2>4. PromisedGetsWritten'
    BY <1>1, <2>1, <2>3 DEF PromisedGetsWritten
  <2> QED BY <2>2, <2>4
<1>9. (BlkInv /\ LruInv /\ DirtyInv)'
  BY <1>1 DEF BlkInv, LruInv, DirtyInv, Cached
<1>10. TicketInv'
  BY <1>1, <1>2, <1>5 DEF TicketInv, Agent
<1>11. (PinInv /\ ReadInv)'
  BY <1>1, <1>2, <1>3, <1>5 DEF PinInv, ReadInv, Cached, InTree, Agent
<1> QED BY <1>6, <1>7, <1>8, <1>9, <1>10, <1>11 DEF CacheInv

\* An io completes.
LEMMA CompleteKeepsInv ==
    ASSUME CacheInv, NEW t \in Agent, Complete(t)
    PROVE  CacheInv'
<1> USE BlkAssumption DEF Complete, cacheVars, taskVars
<1>1. TypeInv /\ RunInv /\ WriterInv /\ PromisedGetsWritten
      /\ BlkInv /\ LruInv /\ TicketInv /\ DirtyInv /\ PinInv /\ ReadInv
  BY DEF CacheInv
<1>2. t # None /\ pc[t] \in {"reading", "writing"} /\ t \notin ToSet(run_list)
  BY <1>1 DEF Agent, Contains, ToSet, TypeInv
<1>3. run_list' \in Seq(Agent) /\ ToSet(run_list') = ToSet(run_list) \union {t} /\ IsInjective(run_list')
  BY <1>1, <1>2, AppendElements DEF TypeInv, RunInv
<1>4. stored \subseteq stored' /\ \A k \in stored' : k \in stored \/ (t \in Writer /\ k \in list[t])
  OBVIOUS
<1>5. t \in Writer => list[t] \subseteq stored'
  OBVIOUS
<1>6. TypeInv'
  BY <1>1, <1>3 DEF TypeInv, PcType
<1>7. RunInv'
  BY <1>1, <1>2, <1>3 DEF RunInv
<1>8. WriterInv' /\ PromisedGetsWritten'
  BY <1>1, <1>2, <1>3, <1>4, <1>5 DEF WriterInv, PromisedGetsWritten
<1>9. (BlkInv /\ LruInv /\ DirtyInv /\ TicketInv)'
  BY <1>1 DEF BlkInv, LruInv, DirtyInv, TicketInv, Cached
<1>10. InTree \subseteq InTree'
  BY <1>4 DEF InTree
<1>11. (PinInv /\ ReadInv)'
  BY <1>1, <1>3, <1>10 DEF PinInv, ReadInv, Cached
<1> QED BY <1>6, <1>7, <1>8, <1>9, <1>11 DEF CacheInv

-----------------------------------------------------------------------------
(* The steps of a request that leave the cache alone.                      *)

\* A step of the task t that only changes its own place keeps what is said
\* about the writers.
LEMMA WritersKept ==
    ASSUME TypeInv, WriterInv, PromisedGetsWritten, NEW t \in Task, t = current, current' \in {t, None},
           \A w \in Writer : pc'[w] = pc[w] /\ (w \in ToSet(run_list') <=> w \in ToSet(run_list)),
           UNCHANGED <<list, dirty_list, write_dirty_tsk, stored, promised>>
    PROVE  WriterInv' /\ PromisedGetsWritten'
<1>1. \A w \in Writer : w # current /\ w # current'
  BY BlkAssumption
<1>2. WriterInv'
  BY <1>1 DEF WriterInv
<1>3. write_dirty_tsk # None => write_dirty_tsk \in Writer
  BY DEF TypeInv
<1>4. PromisedGetsWritten'
  BY <1>3 DEF PromisedGetsWritten
<1> QED BY <1>2, <1>4

\* The blocks that the tree references.
LEMMA InTreeKeys == TypeInv => InTree \subseteq Key
  BY DEF TypeInv, InTree

\* What is known when the task t runs.
LEMMA RunningFacts ==
    ASSUME CacheInv, NEW t \in Agent, NEW at, Running(t, at)
    PROVE  /\ TypeInv /\ RunInv /\ WriterInv /\ PromisedGetsWritten
           /\ BlkInv /\ LruInv /\ TicketInv /\ DirtyInv /\ PinInv /\ ReadInv
           /\ t = current /\ pc[t] = at /\ ~broken /\ t # None /\ t \notin ToSet(run_list)
           /\ \A u \in Agent : pc[u] \in {"run", "dirtying"} => u = t
           /\ ToSet(run_list) \subseteq Agent
  BY BlkAssumption DEF CacheInv, RunInv, Running, Agent, TypeInv, ToSet

\* The function pc when the entry of one task changes.
LEMMA PcChanges ==
    ASSUME TypeInv, NEW t \in Task,
           NEW p \in {"idle", "start", "run", "dirtying", "reading", "waiting", "dangling"},
           pc' = [pc EXCEPT ![t] = p]
    PROVE  /\ PcType' /\ pc'[t] = p /\ t \in Agent /\ t \notin Writer
           /\ \A u \in Agent \ {t} : pc'[u] = pc[u]
           /\ \A w \in Writer : w \in Agent /\ pc'[w] = pc[w]
  BY BlkAssumption DEF TypeInv, PcType, Agent

\* A ticket is opened, behind all the others.
LEMMA OpenTicketKeepsInv ==
    ASSUME CacheInv, NEW t \in Task, OpenTicket(t)
    PROVE  CacheInv'
<1> USE BlkAssumption DEF OpenTicket, schedVars
<1> DEFINE q == Without(tickets, {t})
<1>1. /\ TypeInv /\ RunInv /\ WriterInv /\ PromisedGetsWritten
      /\ BlkInv /\ LruInv /\ TicketInv /\ DirtyInv /\ PinInv /\ ReadInv
      /\ t = current /\ pc[t] \in {"start", "run"} /\ ~broken /\ t # None /\ t \notin ToSet(run_list)
      /\ \A u \in Agent : pc[u] \in {"run", "dirtying"} => u = t
      /\ ToSet(run_list) \subseteq Agent
  BY RunningFacts DEF Agent
<1>2. pc' = [pc EXCEPT ![t] = "run"] /\ number' = [number EXCEPT ![t] = next_ticket]
      /\ next_ticket' = next_ticket + 1 /\ pinned' = [pinned EXCEPT ![t] = {}] /\ next_ticket \in 1 .. MaxTickets
      /\ next_ticket \in Int
  BY <1>1 DEF TypeInv
<1>3. /\ PcType' /\ pc'[t] = "run" /\ t \in Agent /\ t \notin Writer
      /\ \A u \in Agent \ {t} : pc'[u] = pc[u]
      /\ \A w \in Writer : w \in Agent /\ pc'[w] = pc[w]
  BY <1>1, <1>2, PcChanges
<1>4. number \in [Task -> 0 .. MaxTickets] /\ number'[t] = next_ticket /\ \A u \in Task \ {t} : number'[u] = number[u]
  BY <1>1, <1>2 DEF TypeInv
<1>5. tickets' = Append(q, t) /\ tickets \in Seq(Task)
  BY <1>1 DEF TicketsOpened, TypeInv
<1>6. q \in Seq(Task) /\ ToSet(q) = ToSet(tickets) \ {t} /\ InOrder(q, tickets)
  BY <1>5, WithoutFacts
<1> HIDE DEF q
<1>7. tickets' \in Seq(Task) /\ ToSet(tickets') = ToSet(tickets) \union {t}
  <2>1. tickets' \in Seq(Task)
    BY <1>5, <1>6
  <2>2. ToSet(tickets') = ToSet(q) \union {t}
    BY <1>5, <1>6, AppendElements
  <2> QED BY <1>6, <2>1, <2>2
<1>8. TypeInv'
  <2>1. number' \in [Task -> 0 .. MaxTickets] /\ next_ticket' \in 1 .. MaxTickets + 1 /\ pinned' \in [Task -> SUBSET Key]
    BY <1>1, <1>2, <1>4 DEF TypeInv
  <2> QED BY <1>1, <1>3, <1>7, <2>1 DEF TypeInv
<1>9. RunInv'
  BY <1>1, <1>3 DEF RunInv, TypeInv
<1>10. WriterInv' /\ PromisedGetsWritten'
  BY <1>1, <1>3, WritersKept
<1>11. (BlkInv /\ LruInv /\ DirtyInv)'
  BY <1>1 DEF BlkInv, LruInv, DirtyInv, Cached
<1>12. TicketInv'
  <2>1. ASSUME NEW i \in DOMAIN tickets', NEW j \in DOMAIN tickets', i < j
        PROVE  number'[tickets'[i]] < number'[tickets'[j]]
    <3>1. /\ DOMAIN tickets' = 1 .. Len(q) + 1 /\ DOMAIN q = 1 .. Len(q) /\ Len(q) \in Nat
          /\ (\A l \in 1 .. Len(q) : tickets'[l] = q[l]) /\ tickets'[Len(q) + 1] = t
      BY <1>5, <1>6, AppendFacts
    <3>0. \A l \in 1 .. Len(q) : q[l] \in Task \ {t}
      <4>1. \A l \in DOMAIN q : q[l] \in ToSet(q)
        BY Zenon DEF ToSet
      <4> QED BY <1>6, <3>1, <4>1
    <3>2. i \in 1 .. Len(q) /\ tickets'[i] = q[i] /\ q[i] \in Task \ {t}
      BY <2>1, <3>0, <3>1
    <3>3. number'[q[i]] = number[q[i]] /\ number[q[i]] < next_ticket
      BY <1>1, <1>4, <3>2 DEF TicketInv
    <3>4. CASE j = Len(q) + 1
      BY <1>4, <3>1, <3>2, <3>3, <3>4
    <3>5. CASE j \in 1 .. Len(q)
      <4>1. tickets'[j] = q[j] /\ q[j] \in Task \ {t}
        BY <3>0, <3>1, <3>5
      <4>2. number'[q[j]] = number[q[j]]
        BY <1>4, <4>1
      <4>3. PICK a \in DOMAIN tickets, b \in DOMAIN tickets : a < b /\ q[i] = tickets[a] /\ q[j] = tickets[b]
        BY <1>6, <2>1, <3>1, <3>2, <3>5 DEF InOrder
      <4>4. number[q[i]] < number[q[j]]
        BY <1>1, <4>3 DEF TicketInv
      <4> QED BY <3>2, <3>3, <4>1, <4>2, <4>4
    <3> QED BY <3>1, <3>4, <3>5
  <2>2. ToSet(tickets') = {u \in Task : pc'[u] \notin {"idle", "start"}}
    BY <1>1, <1>3, <1>7 DEF TicketInv, Agent
  <2>3. \A u \in Task : number'[u] < next_ticket'
    BY <1>1, <1>2, <1>4 DEF TicketInv
  <2> QED BY <2>1, <2>2, <2>3 DEF TicketInv
<1>13. PinInv'
  <2>1. pinned'[t] = {} /\ \A u \in Task \ {t} : pinned'[u] = pinned[u] /\ number'[u] = number[u] /\ pc'[u] = pc[u]
    BY <1>1, <1>2, <1>3, <1>4 DEF TypeInv, Agent
  <2>2. InTree' = InTree /\ Cached' = Cached /\ cache' = cache
    BY DEF InTree, Cached
  <2> QED BY <1>1, <1>3, <2>1, <2>2 DEF PinInv
<1>14. ReadInv'
  <2>1. InTree' = InTree /\ cache' = cache /\ want' = want /\ current' = current /\ run_list' = run_list
    BY DEF InTree
  <2> QED BY <1>1, <1>3, <2>1 DEF ReadInv, Agent
<1> QED BY <1>8, <1>9, <1>10, <1>11, <1>12, <1>13, <1>14 DEF CacheInv

\* A ticket is closed, and nothing is pinned with it any more.
LEMMA TicketClosed ==
    ASSUME CacheInv, NEW t \in Task, NEW at \in {"run", "dirtying"}, Running(t, at),
           NEW p \in [Agent -> {"idle", "start", "run", "dirtying", "reading", "waiting", "dangling", "writing"}],
           p[t] = "idle", \A u \in Task \ {t} : p[u] = pc[u], pc' = p,
           tickets' = Without(tickets, {t}), pinned' = [pinned EXCEPT ![t] = {}], current' = None,
           ToSet(run_list) \subseteq ToSet(run_list'),
           UNCHANGED <<cache, lru_list, next_ticket, dirty_list, number, want, list, stored, broken>>
    PROVE  /\ tickets' \in Seq(Task) /\ pinned' \in [Task -> SUBSET Key]
           /\ (BlkInv /\ LruInv /\ TicketInv /\ DirtyInv /\ PinInv /\ ReadInv)'
<1> USE BlkAssumption
<1>1. /\ TypeInv /\ RunInv /\ BlkInv /\ LruInv /\ TicketInv /\ DirtyInv /\ PinInv /\ ReadInv
      /\ t = current /\ pc[t] = at /\ t # None
  BY RunningFacts DEF Agent
<1>2. tickets \in Seq(Task)
  BY <1>1 DEF TypeInv
<1>3. tickets' \in Seq(Task) /\ ToSet(tickets') = ToSet(tickets) \ {t} /\ InOrder(tickets', tickets)
  BY <1>2, WithoutFacts
<1>4. pinned' \in [Task -> SUBSET Key] /\ pinned'[t] = {} /\ \A u \in Task \ {t} : pinned'[u] = pinned[u]
  BY <1>1 DEF TypeInv
<1>5. (BlkInv /\ LruInv /\ DirtyInv)'
  BY <1>1 DEF BlkInv, LruInv, DirtyInv, Cached
<1>6. TicketInv'
  <2>1. \A i, j \in DOMAIN tickets' : i < j => number'[tickets'[i]] < number'[tickets'[j]]
    <3> SUFFICES ASSUME NEW i \in DOMAIN tickets', NEW j \in DOMAIN tickets', i < j
                 PROVE  number[tickets'[i]] < number[tickets'[j]]
      OBVIOUS
    <3>1. PICK a \in DOMAIN tickets, b \in DOMAIN tickets :
            a < b /\ tickets'[i] = tickets[a] /\ tickets'[j] = tickets[b]
      BY <1>3 DEF InOrder
    <3> QED BY <1>1, <3>1 DEF TicketInv
  <2>2. ToSet(tickets') = {u \in Task : pc'[u] \notin {"idle", "start"}}
    BY <1>1, <1>3 DEF TicketInv
  <2> QED BY <1>1, <2>1, <2>2 DEF TicketInv
<1>7. InTree' = InTree /\ Cached' = Cached
  BY DEF InTree, Cached
<1>8. PinInv'
  BY <1>1, <1>4, <1>7 DEF PinInv
<1>9. ReadInv'
  BY <1>1, <1>7 DEF ReadInv
<1> QED BY <1>3, <1>4, <1>5, <1>6, <1>8, <1>9

\* A reader closes its ticket.
LEMMA CloseTicketKeepsInv ==
    ASSUME CacheInv, NEW t \in Task, CloseTicket(t)
    PROVE  CacheInv'
<1> USE BlkAssumption DEF CloseTicket
<1>1. PICK at \in {"run", "dirtying"} : Running(t, at)
  OBVIOUS
<1>2. /\ TypeInv /\ RunInv /\ WriterInv /\ PromisedGetsWritten
      /\ t = current /\ pc[t] = at /\ ~broken /\ t # None /\ t \notin ToSet(run_list)
      /\ \A u \in Agent : pc[u] \in {"run", "dirtying"} => u = t
      /\ ToSet(run_list) \subseteq Agent
  BY <1>1, RunningFacts DEF Agent
<1>3. /\ PcType' /\ pc'[t] = "idle" /\ t \in Agent /\ t \notin Writer
      /\ \A u \in Agent \ {t} : pc'[u] = pc[u]
      /\ \A w \in Writer : w \in Agent /\ pc'[w] = pc[w]
  BY <1>2, PcChanges
<1>4. /\ tickets' \in Seq(Task) /\ pinned' \in [Task -> SUBSET Key]
      /\ (BlkInv /\ LruInv /\ TicketInv /\ DirtyInv /\ PinInv /\ ReadInv)'
  BY <1>1, <1>3, TicketClosed DEF PcType, Agent
<1>5. TypeInv'
  BY <1>2, <1>3, <1>4 DEF TypeInv
<1>6. RunInv'
  BY <1>2, <1>3 DEF RunInv, TypeInv, Agent
<1>7. WriterInv' /\ PromisedGetsWritten'
  BY <1>2, <1>3, WritersKept
<1> QED BY <1>4, <1>5, <1>6, <1>7 DEF CacheInv

\* A block that another task reads is waited for.
LEMMA GetWaitsKeepsInv ==
    ASSUME CacheInv, NEW t \in Task, NEW k \in Key, GetWaits(t, k)
    PROVE  CacheInv'
<1> USE BlkAssumption DEF GetWaits, CanGet, cacheVars
<1>1. /\ TypeInv /\ RunInv /\ WriterInv /\ PromisedGetsWritten
      /\ BlkInv /\ LruInv /\ TicketInv /\ DirtyInv /\ PinInv /\ ReadInv
      /\ t = current /\ pc[t] = "run" /\ ~broken /\ t # None /\ t \notin ToSet(run_list)
      /\ \A u \in Agent : pc[u] \in {"run", "dirtying"} => u = t
      /\ ToSet(run_list) \subseteq Agent
  BY RunningFacts DEF Agent
<1>2. /\ PcType' /\ pc'[t] = "waiting" /\ t \in Agent /\ t \notin Writer
      /\ \A u \in Agent \ {t} : pc'[u] = pc[u]
      /\ \A w \in Writer : w \in Agent /\ pc'[w] = pc[w]
  BY <1>1, PcChanges
<1>3. want' \in [Task -> Key \union {None}] /\ want'[t] = k /\ \A u \in Task \ {t} : want'[u] = want[u]
  BY <1>1 DEF TypeInv
<1>4. TypeInv'
  BY <1>1, <1>2, <1>3 DEF TypeInv
<1>5. RunInv'
  BY <1>1, <1>2 DEF RunInv, TypeInv, Agent
<1>6. WriterInv' /\ PromisedGetsWritten'
  BY <1>1, <1>2, WritersKept
<1>7. (BlkInv /\ LruInv /\ DirtyInv)' /\ InTree' = InTree /\ Cached' = Cached
  BY <1>1 DEF BlkInv, LruInv, DirtyInv, Cached, InTree
<1>8. (TicketInv /\ PinInv)'
  BY <1>1, <1>2, <1>7 DEF TicketInv, PinInv, Agent
<1>9. ReadInv'
  BY <1>1, <1>2, <1>3, <1>7 DEF ReadInv, Agent
<1> QED BY <1>4, <1>5, <1>6, <1>7, <1>8, <1>9 DEF CacheInv

\* A request that dirtied blocks finishes, and a writer comes for them.
LEMMA FinishDirtyKeepsInv ==
    ASSUME CacheInv, NEW t \in Task, FinishDirty(t)
    PROVE  CacheInv'
<1> USE BlkAssumption DEF FinishDirty
<1> DEFINE pcs == [pc EXCEPT ![t] = "idle"]
<1>1. /\ TypeInv /\ RunInv /\ WriterInv /\ PromisedGetsWritten
      /\ t = current /\ pc[t] = "dirtying" /\ ~broken /\ t # None /\ t \notin ToSet(run_list)
      /\ \A u \in Agent : pc[u] \in {"run", "dirtying"} => u = t
      /\ ToSet(run_list) \subseteq Agent /\ t \in Agent /\ t \notin Writer
  BY RunningFacts DEF Agent
<1>2. /\ pcs \in [Agent -> {"idle", "start", "run", "dirtying", "reading", "waiting", "dangling", "writing"}]
      /\ pcs[t] = "idle" /\ \A u \in Agent \ {t} : pcs[u] = pc[u]
  BY <1>1 DEF TypeInv, PcType
<1>3. /\ \A w \in Writer : w \in Agent /\ pcs[w] = pc[w] /\ w # t /\ w # None
      /\ \A u \in Task : u \in Agent
  BY <1>1, <1>2 DEF Agent
<1> HIDE DEF pcs
<1>4. CASE write_dirty_tsk # None
  <2>1. pc' = pcs /\ write_dirty_tsk' = write_dirty_tsk /\ run_list' = run_list
    BY <1>4 DEF ScheduleWriteDirty, pcs
  <2>2. /\ tickets' \in Seq(Task) /\ pinned' \in [Task -> SUBSET Key]
        /\ (BlkInv /\ LruInv /\ TicketInv /\ DirtyInv /\ PinInv /\ ReadInv)'
    BY <1>2, <1>3, <2>1, TicketClosed
  <2>3. TypeInv'
    BY <1>1, <1>2, <1>3, <2>1, <2>2 DEF TypeInv, PcType
  <2>4. RunInv'
    BY <1>1, <1>2, <1>3, <2>1 DEF RunInv, Agent
  <2>5. WriterInv'
    BY <1>1, <1>2, <1>3, <2>1 DEF WriterInv
  <2>6. write_dirty_tsk \in Writer /\ pc[write_dirty_tsk] = "start"
    BY <1>1, <1>4 DEF TypeInv, WriterInv
  <2>7. PromisedGetsWritten'
    BY <1>1, <1>3, <1>4, <2>1, <2>6 DEF PromisedGetsWritten
  <2> QED BY <2>2, <2>3, <2>4, <2>5, <2>7 DEF CacheInv
<1>5. CASE write_dirty_tsk = None
  <2>1. PICK w \in Writer : /\ pcs[w] = "idle" /\ write_dirty_tsk' = w
                            /\ pc' = [pcs EXCEPT ![w] = "start"] /\ run_list' = Append(run_list, w)
    BY <1>5 DEF ScheduleWriteDirty, pcs
  <2>2. /\ w \in Agent /\ w \notin Task /\ pc[w] = "idle" /\ w # t /\ w # None
        /\ pc'[w] = "start" /\ pc'[t] = "idle" /\ (\A u \in Agent \ {t, w} : pc'[u] = pc[u])
        /\ pc' \in [Agent -> {"idle", "start", "run", "dirtying", "reading", "waiting", "dangling", "writing"}]
    BY <1>1, <1>2, <1>3, <2>1
  <2>3. w \notin ToSet(run_list)
    BY <1>1, <2>2 DEF RunInv
  <2>4. run_list' \in Seq(Agent) /\ ToSet(run_list') = ToSet(run_list) \union {w} /\ IsInjective(run_list')
    BY <1>1, <2>1, <2>2, <2>3, AppendElements DEF TypeInv, RunInv
  <2>5. \A u \in Task \ {t} : pc'[u] = pc[u]
    BY <1>3, <2>2
  <2>6. /\ tickets' \in Seq(Task) /\ pinned' \in [Task -> SUBSET Key]
        /\ (BlkInv /\ LruInv /\ TicketInv /\ DirtyInv /\ PinInv /\ ReadInv)'
    <3> DEFINE p == pc'
    <3>1. /\ p \in [Agent -> {"idle", "start", "run", "dirtying", "reading", "waiting", "dangling", "writing"}]
          /\ p[t] = "idle" /\ (\A u \in Task \ {t} : p[u] = pc[u]) /\ pc' = p
      BY <2>2, <2>5
    <3> HIDE DEF p
    <3> QED BY <2>4, <3>1, TicketClosed
  <2>7. PcType'
    BY <1>1, <1>3, <2>2, <2>5 DEF PcType, TypeInv
  <2>8. TypeInv'
    BY <1>1, <2>1, <2>4, <2>6, <2>7 DEF TypeInv
  <2>9. RunInv'
    BY <1>1, <1>3, <2>2, <2>3, <2>4 DEF RunInv, Agent
  <2>10. WriterInv'
    <3>1. \A v \in Writer : v # w => pc'[v] = pc[v] /\ pc[v] # "start"
      BY <1>1, <1>3, <1>5, <2>2 DEF WriterInv
    <3>2. list' = list /\ dirty_list' = dirty_list /\ stored' = stored /\ list[w] = {}
      BY <1>1, <2>2 DEF WriterInv
    <3> QED BY <1>1, <1>3, <2>1, <2>2, <2>4, <3>1, <3>2 DEF WriterInv
  <2>11. PromisedGetsWritten'
    BY <1>1, <1>3, <1>5, <2>1, <2>2 DEF PromisedGetsWritten
  <2> QED BY <2>6, <2>8, <2>9, <2>10, <2>11 DEF CacheInv
<1> QED BY <1>4, <1>5

-----------------------------------------------------------------------------
(* The steps of the writers.                                               *)

\* A writer takes the dirty list, and its blocks stay dirty.
LEMMA WriteStartsKeepsInv ==
    ASSUME CacheInv, NEW w \in Writer, WriteStarts(w)
    PROVE  CacheInv'
<1> USE BlkAssumption DEF WriteStarts
<1>1. /\ TypeInv /\ RunInv /\ WriterInv /\ PromisedGetsWritten
      /\ BlkInv /\ LruInv /\ TicketInv /\ DirtyInv /\ PinInv /\ ReadInv
      /\ w = current /\ pc[w] = "start" /\ ~broken /\ w # None /\ w \notin ToSet(run_list)
      /\ \A u \in Agent : pc[u] \in {"run", "dirtying"} => u = w
      /\ ToSet(run_list) \subseteq Agent /\ w \in Agent /\ w \notin Task
  BY RunningFacts DEF Agent
<1>2. w = write_dirty_tsk /\ list[w] = {} /\ write_dirty_tsk' = None
  BY <1>1 DEF WriterInv, WriterAfter
<1>3. /\ pc' \in [Agent -> {"idle", "start", "run", "dirtying", "reading", "waiting", "dangling", "writing"}]
      /\ pc'[w] = "writing" /\ (\A u \in Agent \ {w} : pc'[u] = pc[u])
      /\ (\A u \in Task : pc'[u] = pc[u]) /\ \A u \in Task : u \in Agent
  BY <1>1 DEF TypeInv, PcType, Agent
<1>4. list' \in [Writer -> SUBSET Key] /\ list'[w] = dirty_list /\ \A v \in Writer \ {w} : list'[v] = list[v]
  BY <1>1 DEF TypeInv
<1>5. cache' \in [Key -> Blk] /\ \A k \in Key :
        /\ cache'[k].accessed = cache[k].accessed /\ cache'[k].reading = cache[k].reading
        /\ cache'[k].dirty = cache[k].dirty /\ cache'[k].uptodate = cache[k].uptodate
        /\ (k \notin dirty_list => cache'[k] = cache[k])
  BY <1>1, ChangedBlk DEF TypeInv
<1>6. BlkInv'
  BY <1>1, <1>5 DEF BlkInv, DirtyInv, Cached
<1>7. Cached' = Cached
  <2>1. \A k \in Key : cache[k] # NoBlk <=> cache[k].accessed >= 0
    BY <1>1, CachedByAccess DEF BlkInv, TypeInv
  <2>2. \A k \in Key : cache'[k] # NoBlk <=> cache'[k].accessed >= 0
    BY <1>5, <1>6, CachedByAccess DEF BlkInv
  <2> QED BY <1>5, <2>1, <2>2 DEF Cached
<1>8. InTree' = InTree
  <2>1. \A k : k \in InTree' <=> k \in stored \/ \E v \in Writer : k \in list'[v]
    BY DEF InTree
  <2>2. \A k : k \in InTree <=> k \in stored \/ k \in dirty_list \/ \E v \in Writer : k \in list[v]
    BY DEF InTree
  <2> QED BY <1>2, <1>4, <2>1, <2>2
<1>9. TypeInv'
  BY <1>1, <1>2, <1>3, <1>4, <1>5 DEF TypeInv, PcType, Agent
<1>10. RunInv'
  BY <1>1, <1>3 DEF RunInv, Agent
<1>11. WriterInv'
  <2>1. \A v \in Writer : v # None /\ v \in Agent
    BY DEF Agent
  <2> QED BY <1>1, <1>2, <1>3, <1>4, <2>1 DEF WriterInv
<1>12. PromisedGetsWritten'
  BY <1>1, <1>2, <1>3, <1>4 DEF PromisedGetsWritten, Agent
<1>13. (LruInv /\ TicketInv)'
  BY <1>1, <1>3, <1>7 DEF LruInv, TicketInv
<1>14. (DirtyInv /\ PinInv)'
  BY <1>1, <1>2, <1>3, <1>4, <1>5, <1>7, <1>8 DEF DirtyInv, PinInv, TypeInv
<1>15. ReadInv'
  <2>1. InTree \subseteq Key
    BY <1>1, InTreeKeys
  <2> QED BY <1>1, <1>3, <1>5, <1>8, <2>1 DEF ReadInv
<1> QED BY <1>6, <1>9, <1>10, <1>11, <1>12, <1>13, <1>14, <1>15 DEF CacheInv

\* The blocks of a writer are clean once they are stored.
LEMMA WriteReturnsKeepsInv ==
    ASSUME CacheInv, NEW w \in Writer, WriteReturns(w)
    PROVE  CacheInv'
<1> USE BlkAssumption DEF WriteReturns
<1>1. /\ TypeInv /\ RunInv /\ WriterInv /\ PromisedGetsWritten
      /\ BlkInv /\ LruInv /\ TicketInv /\ DirtyInv /\ PinInv /\ ReadInv
      /\ w = current /\ pc[w] = "writing" /\ ~broken /\ w # None /\ w \notin ToSet(run_list)
      /\ \A u \in Agent : pc[u] \in {"run", "dirtying"} => u = w
      /\ ToSet(run_list) \subseteq Agent /\ w \in Agent /\ w \notin Task
  BY RunningFacts DEF Agent
<1>2. list[w] \subseteq stored /\ list[w] \subseteq Key
  BY <1>1 DEF WriterInv, TypeInv
<1>3. /\ pc' \in [Agent -> {"idle", "start", "run", "dirtying", "reading", "waiting", "dangling", "writing"}]
      /\ pc'[w] = "idle" /\ (\A u \in Agent \ {w} : pc'[u] = pc[u])
      /\ (\A u \in Task : pc'[u] = pc[u]) /\ \A u \in Task : u \in Agent
  BY <1>1 DEF TypeInv, PcType, Agent
<1>4. list' \in [Writer -> SUBSET Key] /\ list'[w] = {} /\ \A v \in Writer \ {w} : list'[v] = list[v]
  BY <1>1 DEF TypeInv
<1>5. cache' \in [Key -> Blk] /\ \A k \in Key :
        /\ cache'[k].accessed = cache[k].accessed /\ cache'[k].reading = cache[k].reading
        /\ cache'[k].uptodate = cache[k].uptodate
        /\ (k \notin list[w] => cache'[k] = cache[k])
  BY <1>1, ChangedBlk DEF TypeInv
<1>6. BlkInv'
  BY <1>1, <1>5 DEF BlkInv, DirtyInv, Cached
<1>7. Cached' = Cached
  <2>1. \A k \in Key : cache[k] # NoBlk <=> cache[k].accessed >= 0
    BY <1>1, CachedByAccess DEF BlkInv, TypeInv
  <2>2. \A k \in Key : cache'[k] # NoBlk <=> cache'[k].accessed >= 0
    BY <1>5, <1>6, CachedByAccess DEF BlkInv
  <2> QED BY <1>5, <2>1, <2>2 DEF Cached
<1>8. InTree' = InTree
  <2>1. \A k : k \in InTree' <=> k \in stored \/ k \in dirty_list \/ \E v \in Writer : k \in list'[v]
    BY DEF InTree
  <2>2. \A k : k \in InTree <=> k \in stored \/ k \in dirty_list \/ \E v \in Writer : k \in list[v]
    BY DEF InTree
  <2> QED BY <1>2, <1>4, <2>1, <2>2
<1>9. TypeInv'
  BY <1>1, <1>3, <1>4, <1>5 DEF TypeInv, PcType, Agent
<1>10. RunInv'
  BY <1>1, <1>3 DEF RunInv, Agent
<1>11. WriterInv'
  <2>1. \A v \in Writer : v # None /\ v \in Agent
    BY DEF Agent
  <2>2. WriterInv /\ run_list' = run_list /\ write_dirty_tsk' = write_dirty_tsk
        /\ dirty_list' = dirty_list /\ stored' = stored /\ current' = None
        /\ w # write_dirty_tsk
    BY <1>1 DEF WriterInv
  <2>3. \A v \in Writer : v # w => pc'[v] = pc[v] /\ list'[v] = list[v]
    BY <1>3, <1>4, <2>1
  <2>4. pc'[w] = "idle" /\ list'[w] = {}
    BY <1>3, <1>4
  <2>5. (\A v \in Writer : pc'[v] = "start" <=> v = write_dirty_tsk')
        /\ \A v \in Writer : pc'[v] # "writing" => list'[v] = {}
    BY <2>2, <2>3, <2>4 DEF WriterInv
  <2>6. \A v \in Writer : pc'[v] = "writing" /\ (v = current' \/ v \in ToSet(run_list'))
                             => list'[v] \subseteq stored'
    BY <2>1, <2>2, <2>3, <2>4 DEF WriterInv
  <2>7. /\ \A u, v \in Writer : u # v => list'[u] \intersect list'[v] = {}
        /\ \A v \in Writer : list'[v] \intersect dirty_list' = {}
    BY <2>2, <2>3, <2>4 DEF WriterInv
  <2>8. dirty_list' \intersect stored' = {}
    BY <2>2 DEF WriterInv
  <2> QED BY <2>5, <2>6, <2>7, <2>8 DEF WriterInv
<1>12. PromisedGetsWritten'
  <2>1. \A v \in Writer : v \in Agent
    BY DEF Agent
  <2>2. write_dirty_tsk # None => write_dirty_tsk \in Writer
    BY <1>1 DEF TypeInv
  <2> QED BY <1>1, <1>2, <1>3, <1>4, <2>1, <2>2 DEF PromisedGetsWritten
<1>13. (LruInv /\ TicketInv)'
  BY <1>1, <1>3, <1>7 DEF LruInv, TicketInv
<1>14. DirtyInv'
  BY <1>1, <1>4, <1>5, <1>7 DEF DirtyInv, WriterInv
<1>15. PinInv'
  BY <1>1, <1>3, <1>5, <1>7, <1>8 DEF PinInv, TypeInv
<1>16. ReadInv'
  <2>1. InTree \subseteq Key
    BY <1>1, InTreeKeys
  <2>2. \A k \in Key : cache'[k].reading = cache[k].reading
    BY <1>5
  <2>3. want' = want /\ run_list' = run_list /\ \A u \in Task : u # current
    BY <1>1
  <2>4. /\ \A u \in Task : pc[u] \in {"reading", "waiting"} => want[u] \in InTree /\ want[u] \in Key
        /\ \A u \in Task : pc[u] = "reading" => cache[want[u]].reading
        /\ \A t, u \in Task : pc[t] = "reading" /\ pc[u] = "reading" /\ want[t] = want[u] => t = u
        /\ \A k \in Key : cache[k].reading => \E t \in Task : pc[t] = "reading" /\ want[t] = k
        /\ \A u \in Task : pc[u] = "waiting" => cache[want[u]].reading \/ u \in ToSet(run_list)
    BY <1>1, <2>1, <2>3 DEF ReadInv
  <2> HIDE DEF WriteReturns
  <2>5. /\ \A u \in Task : pc'[u] \in {"reading", "waiting"} => want'[u] \in InTree'
        /\ \A u \in Task : pc'[u] = "reading" => cache'[want'[u]].reading
        /\ \A t, u \in Task : pc'[t] = "reading" /\ pc'[u] = "reading" /\ want'[t] = want'[u] => t = u
    BY <1>3, <1>8, <2>2, <2>3, <2>4
  <2>6. \A k \in Key : cache'[k].reading => \E t \in Task : pc'[t] = "reading" /\ want'[t] = k
    BY <1>3, <2>2, <2>3, <2>4
  <2>7. \A u \in Task : pc'[u] = "waiting" => cache'[want'[u]].reading \/ u \in ToSet(run_list')
    BY <1>3, <2>2, <2>3, <2>4
  <2> QED BY <2>5, <2>6, <2>7 DEF ReadInv
<1> QED BY <1>6, <1>9, <1>10, <1>11, <1>12, <1>13, <1>14, <1>15, <1>16 DEF CacheInv

-----------------------------------------------------------------------------
(* The steps of blk_get, of cached blocks.                                 *)

\* A cached block changes, and no block comes or goes.
LEMMA OneBlkChanges ==
    ASSUME TypeInv, BlkInv, DirtyInv, NEW k \in Cached, NEW b \in Blk, cache' = [cache EXCEPT ![k] = b],
           b.accessed \in 0 .. MaxTickets, b.dirty = cache[k].dirty, cache[k].uptodate => b.uptodate,
           UNCHANGED <<dirty_list, list>>
    PROVE  /\ cache' \in [Key -> Blk] /\ k \in Key
           /\ cache'[k] = b /\ \A x \in Key \ {k} : cache'[x] = cache[x]
           /\ Cached' = Cached /\ BlkInv' /\ DirtyInv'
<1>1. k \in Key /\ cache \in [Key -> Blk]
  BY DEF Cached, TypeInv
<1>2. cache' \in [Key -> Blk] /\ cache'[k] = b /\ \A x \in Key \ {k} : cache'[x] = cache[x]
  BY <1>1
<1>3. BlkInv'
  BY <1>2 DEF BlkInv
<1>4. b # NoBlk
  BY BlkFields
<1>5. Cached' = Cached
  BY <1>1, <1>2, <1>4 DEF Cached
<1>6. DirtyInv'
  BY <1>1, <1>2, <1>5 DEF DirtyInv
<1> QED BY <1>1, <1>2, <1>3, <1>5, <1>6

\* Which keys the lru holds after an access to a cached block.
LEMMA LruKept ==
    ASSUME TypeInv, LruInv, NEW k \in Cached, NEW b, NEW n,
           lru_list' \in {lru_list, LruAccessed(lru_list, k, b, n)}, Cached' = Cached
    PROVE  lru_list' \in Seq(Key) /\ LruInv'
<1>1. lru_list \in Seq(Key) /\ k \in ToSet(lru_list) /\ k \in Key /\ IsInjective(lru_list) /\ ToSet(lru_list) = Cached
  BY DEF TypeInv, LruInv, Cached
<1>2. /\ LruAccessed(lru_list, k, b, n) \in Seq(Key)
      /\ ToSet(LruAccessed(lru_list, k, b, n)) = ToSet(lru_list)
      /\ IsInjective(LruAccessed(lru_list, k, b, n))
  BY <1>1, LruAccessedElements
<1>3. CASE lru_list' = lru_list
  BY <1>1, <1>3 DEF LruInv
<1>4. CASE lru_list' = LruAccessed(lru_list, k, b, n)
  BY <1>1, <1>2, <1>4 DEF LruInv
<1> QED BY <1>3, <1>4

\* A block is given to a task, or its error is.
LEMMA ReturnedKeepsInv ==
    ASSUME CacheInv, NEW t \in Task, NEW at \in {"run", "waiting"}, Running(t, at),
           NEW k \in Cached, k \in InTree, Returned(t, k, cache[k]),
           UNCHANGED <<tickets, next_ticket, dirty_list, write_dirty_tsk, number, list, run_list, current,
                       stored, promised, broken>>
    PROVE  CacheInv'
<1> USE BlkAssumption
<1>1. /\ TypeInv /\ RunInv /\ WriterInv /\ PromisedGetsWritten
      /\ BlkInv /\ LruInv /\ TicketInv /\ DirtyInv /\ PinInv /\ ReadInv
      /\ t = current /\ pc[t] = at /\ ~broken /\ t # None /\ t \notin ToSet(run_list)
      /\ \A u \in Agent : pc[u] \in {"run", "dirtying"} => u = t
      /\ ToSet(run_list) \subseteq Agent
  BY RunningFacts DEF Agent
<1>2. pc' = [pc EXCEPT ![t] = "run"]
  BY DEF Returned
<1>3. /\ PcType' /\ pc'[t] = "run" /\ t \in Agent /\ t \notin Writer
      /\ \A u \in Agent \ {t} : pc'[u] = pc[u]
      /\ \A w \in Writer : w \in Agent /\ pc'[w] = pc[w]
  BY <1>1, <1>2, PcChanges
<1>4. want' \in [Task -> Key \union {None}] /\ \A u \in Task \ {t} : want'[u] = want[u]
  BY <1>1 DEF TypeInv, Returned
<1>5. k \in Key /\ cache[k] \in Blk /\ number[t] \in 0 .. MaxTickets /\ cache[k].accessed \in 0 .. MaxTickets
  BY <1>1 DEF TypeInv, Cached, BlkInv
<1> DEFINE b == IF cache[k].error THEN cache[k] ELSE Accessed(cache[k], number[t])
<1>6. /\ b \in Blk /\ b.accessed \in 0 .. MaxTickets /\ b.accessed >= cache[k].accessed
      /\ (~cache[k].error => b.accessed >= number[t])
      /\ b.dirty = cache[k].dirty /\ b.reading = cache[k].reading /\ b.uptodate = cache[k].uptodate
  <2> DEFINE c == cache[k]
             n == number[t]
             a == Accessed(c, n)
  <2>1. c \in Blk /\ n \in Nat /\ n \in 0 .. MaxTickets /\ c.accessed \in 0 .. MaxTickets /\ b = IF c.error THEN c ELSE a
    BY <1>5
  <2> HIDE DEF b, c, n
  <2>2. /\ a \in Blk /\ a.accessed = (IF c.accessed < n THEN n ELSE c.accessed)
        /\ a.dirty = c.dirty /\ a.reading = c.reading /\ a.uptodate = c.uptodate
    BY <2>1, AccessedBlk
  <2> HIDE DEF a
  <2>3. /\ b \in Blk /\ b.accessed \in 0 .. MaxTickets /\ b.accessed >= c.accessed
        /\ (~c.error => b.accessed >= n)
        /\ b.dirty = c.dirty /\ b.reading = c.reading /\ b.uptodate = c.uptodate
    BY <2>1, <2>2
  <2> QED BY <2>3 DEF c, n
<1>7. cache' = [cache EXCEPT ![k] = b]
  BY DEF Returned
<1> HIDE DEF b
<1>8. /\ cache' \in [Key -> Blk] /\ cache'[k] = b /\ \A x \in Key \ {k} : cache'[x] = cache[x]
      /\ Cached' = Cached /\ BlkInv' /\ DirtyInv'
  BY <1>1, <1>6, <1>7, OneBlkChanges
<1>9. lru_list' \in Seq(Key) /\ LruInv'
  <2>1. lru_list' \in {lru_list, LruAccessed(lru_list, k, cache[k], number[t])}
    BY DEF Returned
  <2> QED BY <1>1, <1>8, <2>1, LruKept
<1>10. /\ pinned' \in [Task -> SUBSET Key]
       /\ \A u \in Task \ {t} : pinned'[u] = pinned[u]
       /\ \A x \in pinned'[t] : x \in pinned[t] \/ (x = k /\ ~cache[k].error)
  BY <1>1, <1>5 DEF Returned, TypeInv
<1>11. TypeInv'
  BY <1>1, <1>3, <1>4, <1>8, <1>9, <1>10 DEF TypeInv
<1>12. RunInv'
  BY <1>1, <1>3 DEF RunInv
<1>13. WriterInv' /\ PromisedGetsWritten'
  BY <1>1, <1>3, WritersKept
<1>14. TicketInv'
  BY <1>1, <1>3 DEF TicketInv, Agent
<1>15. InTree' = InTree /\ (\A x \in Key : cache'[x].reading = cache[x].reading)
       /\ (\A x \in Key : cache'[x].accessed >= cache[x].accessed /\ cache[x].accessed \in Int)
  <2>1. InTree' = InTree
    BY DEF InTree
  <2>2. \A x \in Key : cache[x].accessed \in Int
    BY <1>1, BlkFields DEF TypeInv
  <2>3. \A x \in Key : cache'[x].reading = cache[x].reading /\ cache'[x].accessed >= cache[x].accessed
    BY <1>6, <1>8, <2>2
  <2> QED BY <2>1, <2>2, <2>3
<1>16. PinInv'
  <2>1. pinned[t] \subseteq Key /\ \A u \in Task : number[u] \in Int /\ \A x \in Key : cache'[x].accessed \in Int
    BY <1>1, <1>8, BlkFields DEF TypeInv
  <2>2. ASSUME NEW u \in Task, NEW x \in pinned'[u]
        PROVE  x \in InTree /\ x \in Cached /\ cache'[x].accessed >= number[u]
    <3>1. CASE x \in pinned[u]
      <4>1. x \in Key /\ x \in InTree /\ x \in Cached /\ cache[x].accessed >= number[u]
        BY <1>1, <3>1 DEF PinInv, TypeInv
      <4> QED BY <1>15, <2>1, <4>1
    <3>2. CASE x \notin pinned[u]
      <4>1. u = t /\ x = k /\ ~cache[k].error
        BY <1>10, <2>2, <3>2
      <4> QED BY <1>6, <1>8, <4>1
    <3> QED BY <3>1, <3>2
  <2>3. \A u \in Task : pc'[u] \in {"idle", "start"} => pinned'[u] = {}
    BY <1>1, <1>3, <1>10 DEF PinInv, Agent
  <2>4. number' = number
    OBVIOUS
  <2> QED BY <1>8, <1>15, <2>2, <2>3, <2>4 DEF PinInv
<1>17. ReadInv'
  <2>1. \A u \in Task : pc'[u] \in {"reading", "waiting"} =>
          u # t /\ pc[u] = pc'[u] /\ want'[u] = want[u] /\ want[u] \in InTree /\ want[u] \in Key
    <3>1. InTree \subseteq Key
      BY <1>1, InTreeKeys
    <3> QED BY <1>1, <1>3, <1>4, <3>1 DEF ReadInv, Agent
  <2>2. /\ \A u \in Task : pc'[u] \in {"reading", "waiting"} => want'[u] \in InTree'
        /\ \A u \in Task : pc'[u] = "reading" => cache'[want'[u]].reading
        /\ \A u, v \in Task : pc'[u] = "reading" /\ pc'[v] = "reading" /\ want'[u] = want'[v] => u = v
    BY <1>1, <1>15, <2>1 DEF ReadInv
  <2>3. \A x \in Key : cache'[x].reading => \E u \in Task : pc'[u] = "reading" /\ want'[u] = x
    <3> SUFFICES ASSUME NEW x \in Key, cache'[x].reading
                 PROVE  \E u \in Task : pc'[u] = "reading" /\ want'[u] = x
      OBVIOUS
    <3>1. PICK u \in Task : pc[u] = "reading" /\ want[u] = x
      BY <1>1, <1>15 DEF ReadInv
    <3>2. u # t /\ pc'[u] = "reading" /\ want'[u] = x
      BY <1>1, <1>3, <1>4, <3>1 DEF Agent
    <3> QED BY <3>2
  <2>4. \A u \in Task : pc'[u] = "waiting" => cache'[want'[u]].reading \/ u = current' \/ u \in ToSet(run_list')
    BY <1>1, <1>15, <2>1 DEF ReadInv
  <2> QED BY <2>2, <2>3, <2>4 DEF ReadInv
<1> QED BY <1>8, <1>9, <1>11, <1>12, <1>13, <1>14, <1>16, <1>17 DEF CacheInv

\* A cached block is given to the task that gets it.
LEMMA GetCachedKeepsInv ==
    ASSUME CacheInv, NEW t \in Task, NEW k \in Key, GetCached(t, k)
    PROVE  CacheInv'
<1>1. Running(t, "run") /\ k \in InTree /\ k \in Cached
  BY DEF GetCached, CanGet
<1>2. Returned(t, k, cache[k])
  BY DEF GetCached
<1>3. UNCHANGED <<tickets, next_ticket, dirty_list, write_dirty_tsk, number, list, run_list, current,
                  stored, promised, broken>>
  BY DEF GetCached, schedVars
<1> QED BY <1>1, <1>2, <1>3, ReturnedKeepsInv

\* A task that was woken gets the block it waited for.
LEMMA WaitReturnsKeepsInv ==
    ASSUME CacheInv, NEW t \in Task, WaitReturns(t)
    PROVE  CacheInv'
<1> DEFINE k == want[t]
<1>1. Running(t, "waiting") /\ (cache[k].uptodate \/ cache[k].error) /\ Returned(t, k, cache[k])
  BY DEF WaitReturns
<1>2. UNCHANGED <<tickets, next_ticket, dirty_list, write_dirty_tsk, number, list, run_list, current,
                  stored, promised, broken>>
  BY DEF WaitReturns, schedVars
<1>3. TypeInv /\ ReadInv /\ pc[t] = "waiting"
  BY <1>1, RunningFacts DEF Agent
<1>4. k \in InTree /\ k \in Key
  BY <1>3, InTreeKeys DEF ReadInv
<1> HIDE DEF k
<1>5. k \in Cached
  BY <1>1, <1>4, BlkFields DEF Cached
<1> QED BY <1>1, <1>2, <1>4, <1>5, ReturnedKeepsInv

\* A block whose last read failed is read again.
LEMMA GetFailedKeepsInv ==
    ASSUME CacheInv, NEW t \in Task, NEW k \in Key, GetFailed(t, k)
    PROVE  CacheInv'
<1> USE BlkAssumption
<1>1. /\ Running(t, "run") /\ k \in InTree /\ k \in Cached /\ ~cache[k].uptodate /\ ~cache[k].reading
      /\ pc' = [pc EXCEPT ![t] = "reading"] /\ want' = [want EXCEPT ![t] = k]
      /\ cache' = [cache EXCEPT ![k] = [cache[k] EXCEPT !.reading = TRUE]] /\ current' = None
      /\ lru_list' = lru_list /\ tickets' = tickets /\ next_ticket' = next_ticket /\ dirty_list' = dirty_list
      /\ write_dirty_tsk' = write_dirty_tsk /\ number' = number /\ pinned' = pinned /\ list' = list
      /\ run_list' = run_list /\ stored' = stored /\ promised' = promised /\ broken' = broken
  <2>1. cache' = [cache EXCEPT ![k].reading = TRUE]
    BY DEF GetFailed, StartRead
  <2>2. cache' = [cache EXCEPT ![k] = [cache[k] EXCEPT !.reading = TRUE]]
    BY <2>1
  <2> QED BY <2>2 DEF GetFailed, CanGet, StartRead
<1>2. /\ TypeInv /\ RunInv /\ WriterInv /\ PromisedGetsWritten
      /\ BlkInv /\ LruInv /\ TicketInv /\ DirtyInv /\ PinInv /\ ReadInv
      /\ t = current /\ pc[t] = "run" /\ ~broken /\ t # None /\ t \notin ToSet(run_list)
      /\ \A u \in Agent : pc[u] \in {"run", "dirtying"} => u = t
      /\ ToSet(run_list) \subseteq Agent
  BY <1>1, RunningFacts DEF Agent
<1>3. /\ PcType' /\ pc'[t] = "reading" /\ t \in Agent /\ t \notin Writer
      /\ \A u \in Agent \ {t} : pc'[u] = pc[u]
      /\ \A w \in Writer : w \in Agent /\ pc'[w] = pc[w]
  BY <1>1, <1>2, PcChanges
<1>4. want' \in [Task -> Key \union {None}] /\ want'[t] = k /\ \A u \in Task \ {t} : want'[u] = want[u]
  BY <1>1, <1>2 DEF TypeInv
<1> DEFINE b == [cache[k] EXCEPT !.reading = TRUE]
<1>5. cache[k] \in Blk /\ cache[k].accessed \in 0 .. MaxTickets
  BY <1>1, <1>2 DEF TypeInv, Cached, BlkInv
<1>6. /\ b \in Blk /\ b.accessed = cache[k].accessed /\ b.accessed \in 0 .. MaxTickets
      /\ b.dirty = cache[k].dirty /\ b.uptodate = cache[k].uptodate /\ b.reading
  BY <1>5, ChangedBlk
<1>7. cache' = [cache EXCEPT ![k] = b]
  BY <1>1
<1> HIDE DEF b
<1>8. /\ cache' \in [Key -> Blk] /\ cache'[k] = b /\ \A x \in Key \ {k} : cache'[x] = cache[x]
      /\ Cached' = Cached /\ BlkInv' /\ DirtyInv'
  BY <1>1, <1>2, <1>6, <1>7, OneBlkChanges
<1>9. InTree' = InTree
  BY <1>1 DEF InTree
<1>10. TypeInv'
  BY <1>1, <1>2, <1>3, <1>4, <1>8 DEF TypeInv
<1>11. RunInv'
  BY <1>1, <1>2, <1>3 DEF RunInv, Agent
<1>12. WriterInv' /\ PromisedGetsWritten'
  BY <1>1, <1>2, <1>3, WritersKept
<1>13. (LruInv /\ TicketInv)'
  BY <1>1, <1>2, <1>3, <1>8 DEF LruInv, TicketInv, Agent
<1>14. PinInv'
  BY <1>1, <1>2, <1>3, <1>6, <1>8, <1>9 DEF PinInv, Agent, TypeInv
<1>15. ReadInv'
  <2>1. \A u \in Task : pc[u] \in {"reading", "waiting"} => u # t /\ want[u] \in InTree /\ want[u] \in Key
    <3>1. InTree \subseteq Key
      BY <1>2, InTreeKeys
    <3> QED BY <1>2, <3>1 DEF ReadInv
  <2>2. \A u \in Task : pc[u] = "reading" => want[u] # k
    BY <1>1, <1>2 DEF ReadInv
  <2>3. \A u \in Task \ {t} : pc'[u] = pc[u]
    BY <1>3 DEF Agent
  <2>4. \A x \in Key : cache[x].reading => cache'[x].reading
    BY <1>6, <1>8
  <2>5. \A u \in Task : pc'[u] \in {"reading", "waiting"} => want'[u] \in InTree'
    BY <1>1, <1>4, <1>9, <2>1, <2>3
  <2>6. \A u \in Task : pc'[u] = "reading" => cache'[want'[u]].reading
    BY <1>2, <1>4, <1>6, <1>8, <2>1, <2>3, <2>4 DEF ReadInv
  <2>7. \A u, v \in Task : pc'[u] = "reading" /\ pc'[v] = "reading" /\ want'[u] = want'[v] => u = v
    BY <1>2, <1>4, <2>2, <2>3 DEF ReadInv
  <2>8. \A x \in Key : cache'[x].reading => \E u \in Task : pc'[u] = "reading" /\ want'[u] = x
    <3> SUFFICES ASSUME NEW x \in Key, cache'[x].reading
                 PROVE  \E u \in Task : pc'[u] = "reading" /\ want'[u] = x
      OBVIOUS
    <3>1. CASE x = k
      BY <1>3, <1>4, <3>1
    <3>2. CASE x # k
      <4>1. PICK u \in Task : pc[u] = "reading" /\ want[u] = x
        BY <1>2, <1>8, <3>2 DEF ReadInv
      <4> QED BY <1>4, <2>1, <2>3, <4>1
    <3> QED BY <3>1, <3>2
  <2>9. \A u \in Task : pc'[u] = "waiting" => cache'[want'[u]].reading \/ u = current' \/ u \in ToSet(run_list')
    BY <1>1, <1>2, <1>3, <1>4, <2>1, <2>3, <2>4 DEF ReadInv
  <2> QED BY <2>5, <2>6, <2>7, <2>8, <2>9 DEF ReadInv
<1> QED BY <1>8, <1>10, <1>11, <1>12, <1>13, <1>14, <1>15 DEF CacheInv

\* A read returns, and all the tasks that wait for it are woken.
LEMMA ReadReturnsKeepsInv ==
    ASSUME CacheInv, NEW t \in Task, ReadReturns(t)
    PROVE  CacheInv'
<1> USE BlkAssumption
<1> DEFINE k  == want[t]
           ws == Waiters(k)
<1>1. PICK failed \in BOOLEAN :
        LET blk == [cache[k] EXCEPT !.reading = FALSE,
                                    !.uptodate = @ \/ ~failed, !.error = @ \/ failed]
        IN /\ cache' = [cache EXCEPT ![k] = IF failed THEN blk ELSE Accessed(blk, number[t])]
           /\ lru_list' = IF failed THEN lru_list ELSE LruAccessed(lru_list, k, blk, number[t])
           /\ pinned' = IF failed THEN pinned ELSE [pinned EXCEPT ![t] = @ \union {k}]
           /\ run_list' = Woken(run_list, ws)
  BY DEF ReadReturns, Wakes
<1>2. /\ Running(t, "reading") /\ pc' = [pc EXCEPT ![t] = "run"] /\ want' = [want EXCEPT ![t] = None]
      /\ tickets' = tickets /\ next_ticket' = next_ticket /\ dirty_list' = dirty_list
      /\ write_dirty_tsk' = write_dirty_tsk /\ number' = number /\ list' = list
      /\ current' = current /\ stored' = stored /\ promised' = promised /\ broken' = broken
  BY DEF ReadReturns
<1>3. /\ TypeInv /\ RunInv /\ WriterInv /\ PromisedGetsWritten
      /\ BlkInv /\ LruInv /\ TicketInv /\ DirtyInv /\ PinInv /\ ReadInv
      /\ t = current /\ pc[t] = "reading" /\ ~broken /\ t # None /\ t \notin ToSet(run_list)
      /\ \A u \in Agent : pc[u] \in {"run", "dirtying"} => u = t
      /\ ToSet(run_list) \subseteq Agent
  BY <1>2, RunningFacts DEF Agent
<1>4. /\ PcType' /\ pc'[t] = "run" /\ t \in Agent /\ t \notin Writer
      /\ \A u \in Agent \ {t} : pc'[u] = pc[u]
      /\ \A w \in Writer : w \in Agent /\ pc'[w] = pc[w]
  BY <1>2, <1>3, PcChanges
<1>5. want' \in [Task -> Key \union {None}] /\ \A u \in Task \ {t} : want'[u] = want[u]
  BY <1>2, <1>3 DEF TypeInv
<1>6. k \in InTree /\ k \in Key /\ cache[k].reading
  <2>1. TypeInv /\ ReadInv /\ pc[t] = "reading"
    BY <1>3
  <2> QED BY <2>1, InTreeKeys DEF ReadInv
<1>7. k \in Cached
  BY <1>6, BlkFields DEF Cached
<1>8. cache[k] \in Blk /\ number[t] \in 0 .. MaxTickets /\ cache[k].accessed \in 0 .. MaxTickets
  <2>0. TypeInv /\ BlkInv
    BY <1>3
  <2>1. cache[k] \in Blk
    <3>1. cache \in [Key -> Blk] /\ k \in Key
      BY <1>6, <2>0 DEF TypeInv
    <3> HIDE DEF k
    <3> QED BY <3>1
  <2>2. number[t] \in 0 .. MaxTickets
    <3>1. number \in [Task -> 0 .. MaxTickets] /\ t \in Task
      BY <2>0 DEF TypeInv
    <3> QED BY <3>1, Zenon
  <2>3. cache[k].accessed \in 0 .. MaxTickets
    <3>1. k \in Key /\ cache[k] # NoBlk
      BY <1>7 DEF Cached
    <3>2. \A x \in Key : cache[x] = NoBlk \/ cache[x].accessed \in 0 .. MaxTickets
      BY <2>0 DEF BlkInv
    <3> HIDE DEF k
    <3> QED BY <3>1, <3>2, Zenon
  <2> QED BY <2>1, <2>2, <2>3
<1>9. \A u \in ws : u \in Task /\ pc[u] = "waiting" /\ want[u] = k /\ u # t
  BY <1>3 DEF Waiters
<1>10. /\ run_list' \in Seq(Agent) /\ ToSet(run_list') = ToSet(run_list) \union ws /\ IsInjective(run_list')
  <2>1. IsFiniteSet(ws)
    BY FS_Subset DEF Waiters
  <2>2. ws \subseteq Agent
    BY DEF Waiters, Agent
  <2>3. run_list \in Seq(Agent) /\ IsInjective(run_list)
    BY <1>3 DEF TypeInv, RunInv
  <2>4. run_list' = Woken(run_list, ws)
    BY <1>1
  <2> HIDE DEF ws
  <2>5. /\ Woken(run_list, ws) \in Seq(Agent) /\ IsInjective(Woken(run_list, ws))
        /\ ToSet(Woken(run_list, ws)) = ToSet(run_list) \union ws
    BY <2>1, <2>2, <2>3, WokenElements
  <2> QED BY <2>4, <2>5, Zenon
<1> DEFINE r == [cache[k] EXCEPT !.reading = FALSE, !.uptodate = @ \/ ~failed, !.error = @ \/ failed]
           b == IF failed THEN r ELSE Accessed(r, number[t])
<1>11. /\ cache' = [cache EXCEPT ![k] = b] /\ lru_list' \in {lru_list, LruAccessed(lru_list, k, r, number[t])}
       /\ pinned' = IF failed THEN pinned ELSE [pinned EXCEPT ![t] = @ \union {k}]
  BY <1>1
<1>12. /\ b \in Blk /\ b.accessed \in 0 .. MaxTickets /\ b.accessed >= cache[k].accessed
       /\ (~failed => b.accessed >= number[t])
       /\ b.dirty = cache[k].dirty /\ ~b.reading /\ (cache[k].uptodate => b.uptodate)
  <2> DEFINE c == cache[k]
             n == number[t]
             a == Accessed(r, n)
  <2>1. r \in Blk /\ ~r.reading /\ r.accessed = c.accessed /\ r.dirty = c.dirty /\ (c.uptodate => r.uptodate)
    <3>1. c \in Blk
      BY <1>8
    <3> HIDE DEF c
    <3>2. r = [c EXCEPT !.reading = FALSE, !.uptodate = @ \/ ~failed, !.error = @ \/ failed]
      BY DEF c
    <3> HIDE DEF r
    <3> QED BY <3>1, <3>2 DEF Blk
  <2>2. n \in Nat /\ n \in 0 .. MaxTickets /\ c.accessed \in 0 .. MaxTickets /\ b = IF failed THEN r ELSE a
    BY <1>8
  <2> HIDE DEF b, c, n, r
  <2>3. /\ a \in Blk /\ a.accessed = (IF r.accessed < n THEN n ELSE r.accessed)
        /\ a.dirty = r.dirty /\ a.reading = r.reading /\ a.uptodate = r.uptodate
    BY <2>1, <2>2, AccessedBlk
  <2> HIDE DEF a
  <2>4. /\ b \in Blk /\ b.accessed \in 0 .. MaxTickets /\ b.accessed >= c.accessed
        /\ (~failed => b.accessed >= n)
        /\ b.dirty = c.dirty /\ ~b.reading /\ (c.uptodate => b.uptodate)
    BY <2>1, <2>2, <2>3
  <2> QED BY <2>4 DEF c, n
<1> HIDE DEF b, r
<1>13. /\ cache' \in [Key -> Blk] /\ cache'[k] = b /\ \A x \in Key \ {k} : cache'[x] = cache[x]
       /\ Cached' = Cached /\ BlkInv' /\ DirtyInv'
  BY <1>2, <1>3, <1>7, <1>11, <1>12, OneBlkChanges
<1>14. lru_list' \in Seq(Key) /\ LruInv'
  BY <1>3, <1>7, <1>11, <1>13, LruKept
<1>15. /\ pinned' \in [Task -> SUBSET Key]
       /\ \A u \in Task \ {t} : pinned'[u] = pinned[u]
       /\ \A x \in pinned'[t] : x \in pinned[t] \/ (x = k /\ ~failed)
  BY <1>3, <1>6, <1>11 DEF TypeInv
<1> HIDE DEF k
<1>16. TypeInv'
  BY <1>2, <1>3, <1>4, <1>5, <1>10, <1>13, <1>14, <1>15 DEF TypeInv
<1>17. RunInv'
  <2>1. \A x \in ToSet(run_list') : pc'[x] \in {"start", "reading", "waiting", "dangling", "writing"}
    BY <1>3, <1>4, <1>9, <1>10 DEF RunInv, Agent
  <2>2. current' \notin ToSet(run_list')
    BY <1>2, <1>3, <1>9, <1>10
  <2>3. \A u \in Agent : pc'[u] \in {"run", "dirtying"} => u = current'
    BY <1>2, <1>3, <1>4
  <2>4. \A u \in Agent : pc'[u] = "idle" => u # current'
    BY <1>2, <1>3, <1>4
  <2> QED BY <1>10, <2>1, <2>2, <2>3, <2>4 DEF RunInv
<1>18. WriterInv' /\ PromisedGetsWritten'
  <2>1. \A w \in Writer : w \in ToSet(run_list') <=> w \in ToSet(run_list)
    BY <1>9, <1>10
  <2> QED BY <1>2, <1>3, <1>4, <2>1, WritersKept
<1>19. TicketInv'
  BY <1>2, <1>3, <1>4 DEF TicketInv, Agent
<1>20. InTree' = InTree
  BY <1>2 DEF InTree
<1>21. PinInv'
  <2>1. /\ pinned[t] \subseteq Key /\ (\A u \in Task : number[u] \in Int)
        /\ \A x \in Key : cache'[x].accessed \in Int /\ cache[x].accessed \in Int
    BY <1>3, <1>13, BlkFields DEF TypeInv
  <2>2. \A x \in Key : cache'[x].accessed >= cache[x].accessed
    BY <1>12, <1>13, <2>1
  <2>3. ASSUME NEW u \in Task, NEW x \in pinned'[u]
        PROVE  x \in InTree /\ x \in Cached /\ cache'[x].accessed >= number[u]
    <3>1. CASE x \in pinned[u]
      <4>1. x \in Key /\ x \in InTree /\ x \in Cached /\ cache[x].accessed >= number[u]
        BY <1>3, <3>1 DEF PinInv, TypeInv
      <4> QED BY <2>1, <2>2, <4>1
    <3>2. CASE x \notin pinned[u]
      <4>1. u = t /\ x = k /\ ~failed
        BY <1>15, <2>3, <3>2
      <4> QED BY <1>6, <1>7, <1>12, <1>13, <4>1
    <3> QED BY <3>1, <3>2
  <2>4. \A u \in Task : pc'[u] \in {"idle", "start"} => pinned'[u] = {}
    BY <1>3, <1>4, <1>15 DEF PinInv, Agent
  <2> QED BY <1>2, <1>13, <1>20, <2>3, <2>4 DEF PinInv
<1>22. ReadInv'
  <2>1. \A u \in Task : pc'[u] \in {"reading", "waiting"} =>
          u # t /\ pc[u] = pc'[u] /\ want'[u] = want[u] /\ want[u] \in InTree /\ want[u] \in Key
    <3>1. InTree \subseteq Key
      BY <1>3, InTreeKeys
    <3> QED BY <1>3, <1>4, <1>5, <3>1 DEF ReadInv, Agent
  <2>2. \A u \in Task : pc'[u] = "reading" => want[u] # k
    BY <1>3, <2>1 DEF ReadInv, k
  <2>3. \A u \in Task : pc'[u] \in {"reading", "waiting"} => want'[u] \in InTree'
    BY <1>20, <2>1
  <2>4. \A u \in Task : pc'[u] = "reading" => cache'[want'[u]].reading
    BY <1>3, <1>13, <2>1, <2>2 DEF ReadInv
  <2>5. \A u, v \in Task : pc'[u] = "reading" /\ pc'[v] = "reading" /\ want'[u] = want'[v] => u = v
    BY <1>3, <2>1 DEF ReadInv
  <2>6. \A x \in Key : cache'[x].reading => \E u \in Task : pc'[u] = "reading" /\ want'[u] = x
    <3> SUFFICES ASSUME NEW x \in Key, cache'[x].reading
                 PROVE  \E u \in Task : pc'[u] = "reading" /\ want'[u] = x
      OBVIOUS
    <3>1. x # k
      BY <1>12, <1>13
    <3>2. PICK u \in Task : pc[u] = "reading" /\ want[u] = x
      BY <1>3, <1>13, <3>1 DEF ReadInv
    <3>3. u # t
      BY <3>1, <3>2 DEF k
    <3>4. pc'[u] = "reading" /\ want'[u] = x
      BY <1>4, <1>5, <3>2, <3>3 DEF Agent
    <3> QED BY <3>4
  <2>7. ASSUME NEW u \in Task, pc'[u] = "waiting"
        PROVE  cache'[want'[u]].reading \/ u = current' \/ u \in ToSet(run_list')
    <3>1. u # t /\ pc[u] = "waiting" /\ want'[u] = want[u] /\ want[u] \in Key
      BY <2>1, <2>7
    <3>2. CASE want[u] = k
      <4>1. u \in ws
        BY <3>1, <3>2 DEF Waiters
      <4> QED BY <1>10, <4>1
    <3>3. CASE want[u] # k
      BY <1>2, <1>3, <1>10, <1>13, <3>1, <3>3 DEF ReadInv
    <3> QED BY <3>2, <3>3
  <2> QED BY <2>3, <2>4, <2>5, <2>6, <2>7 DEF ReadInv
<1> QED BY <1>13, <1>14, <1>16, <1>17, <1>18, <1>19, <1>21, <1>22 DEF CacheInv

-----------------------------------------------------------------------------
(* The steps that add a block, and shrink the cache.                       *)

\* The cache once k is added with the block b and the keys in gone are freed.
Shrinks(k, b, gone) ==
    cache' = [x \in Key |-> IF x = k THEN b ELSE IF x \in gone THEN NoBlk ELSE cache[x]]

\* The tasks that a shrink leaves behind have waited for what it freed.
LEMMA LeftBehindFacts ==
    ASSUME TypeInv, NEW gone
    PROVE  /\ LeftBehind(gone) \in
                [Agent -> {"idle", "start", "run", "dirtying", "reading", "waiting", "dangling", "writing"}]
           /\ \A w \in Writer : LeftBehind(gone)[w] = pc[w]
           /\ \A t \in Task : \/ LeftBehind(gone)[t] = pc[t] /\ (pc[t] = "waiting" => want[t] \notin gone)
                              \/ LeftBehind(gone)[t] = "dangling" /\ pc[t] = "waiting"
  BY BlkAssumption DEF TypeInv, PcType, Agent, LeftBehind

\* What a shrink does to the types, be it right or not.
LEMMA ShrinkTypes ==
    ASSUME TypeInv, NEW k \in Key, NEW b \in Blk, NEW lru \in Seq(Key), NEW gone,
           Shrinks(k, b, gone), lru_list' = Without(lru, gone)
    PROVE  /\ cache' \in [Key -> Blk] /\ lru_list' \in Seq(Key) /\ cache'[k] = b
           /\ \A x \in Key \ {k} : cache'[x] = IF x \in gone THEN NoBlk ELSE cache[x]
<1>1. lru_list' \in Seq(Key)
  BY WithoutElements
<1>2. /\ cache' \in [Key -> Blk] /\ cache'[k] = b
      /\ \A x \in Key \ {k} : cache'[x] = IF x \in gone THEN NoBlk ELSE cache[x]
  BY BlkFields DEF TypeInv, Shrinks
<1> QED BY <1>1, <1>2

\* A shrink frees no block that is pinned, dirty or being read.
LEMMA ShrinkKeeps ==
    ASSUME TypeInv, BlkInv, LruInv, TicketInv, PinInv, NEW k \in Key, NEW b \in Blk, b.accessed = 0,
           NEW blks, \A x \in Key \ {k} : blks[x] = cache[x],
           NEW lru \in Seq(Key), IsInjective(lru), ToSet(lru) = Cached \union {k},
           NEW gone, gone = Shrunk(blks, lru), k \notin gone,
           Shrinks(k, b, gone), lru_list' = Without(lru, gone)
    PROVE  /\ \A x \in gone : x \in Key /\ x \in Cached /\ ~cache[x].reading /\ ~cache[x].dirty
           /\ \A t \in Task : pinned[t] \intersect gone = {}
           /\ BlkInv' /\ LruInv' /\ Cached' = (Cached \union {k}) \ gone
<1>1. \A x \in gone : /\ x \in ToSet(lru) /\ x \in Key /\ blks[x].accessed < OldestTicket
                      /\ ~blks[x].reading /\ ~blks[x].dirty
  BY ShrunkFacts
<1>2. \A x \in gone : /\ x \in Key /\ x \in Cached /\ cache[x].accessed < OldestTicket
                      /\ ~cache[x].reading /\ ~cache[x].dirty
  BY <1>1
<1>3. \A t \in Task : pinned[t] \intersect gone = {}
  <2> SUFFICES ASSUME NEW t \in Task, NEW x \in pinned[t], x \in gone PROVE FALSE
    OBVIOUS
  <2>1. cache[x].accessed >= OldestTicket /\ cache[x].accessed < OldestTicket
    BY <1>2, PinnedSince
  <2>2. cache[x].accessed \in Int /\ OldestTicket \in Int
    <3>1. cache[x].accessed \in Int
      BY <1>2, BlkFields DEF TypeInv
    <3>2. next_ticket \in Int /\ tickets \in Seq(Task) /\ number \in [Task -> Int]
      BY BlkAssumption DEF TypeInv
    <3>3. tickets # <<>> => Head(tickets) \in Task
      BY <3>2
    <3> QED BY <3>1, <3>2, <3>3 DEF OldestTicket
  <2> QED BY <2>1, <2>2
<1>4. /\ cache' \in [Key -> Blk] /\ lru_list' \in Seq(Key) /\ cache'[k] = b
      /\ \A x \in Key \ {k} : cache'[x] = IF x \in gone THEN NoBlk ELSE cache[x]
  BY ShrinkTypes
<1>5. BlkInv'
  BY <1>4, BlkAssumption DEF BlkInv
<1>6. b # NoBlk
  BY BlkFields
<1>7. Cached' = (Cached \union {k}) \ gone
  <2>1. ASSUME NEW x \in Key PROVE x \in Cached' <=> x \in (Cached \union {k}) \ gone
    <3>1. CASE x = k
      BY <1>4, <1>6, <3>1 DEF Cached
    <3>2. CASE x # k
      BY <1>4, <3>2 DEF Cached
    <3> QED BY <3>1, <3>2
  <2>2. Cached' \subseteq Key /\ Cached \subseteq Key
    BY DEF Cached
  <2> QED BY <2>1, <2>2
<1>8. LruInv'
  <2>1. ToSet(lru_list') = ToSet(lru) \ gone /\ IsInjective(lru_list')
    BY WithoutElements
  <2> QED BY <1>7, <2>1 DEF LruInv
<1> QED BY <1>2, <1>3, <1>5, <1>7, <1>8

\* A block is added to read it from the device.
LEMMA GetMissingKeepsInv ==
    ASSUME CacheInv, NEW t \in Task, NEW k \in Key, GetMissing(t, k)
    PROVE  CacheInv'
<1> USE BlkAssumption
<1> DEFINE blks == [cache EXCEPT ![k] = NewBlk]
           lru  == Append(lru_list, k)
           gone == Shrunk(blks, lru)
           f    == Freed(blks, gone)
           b    == [f[k] EXCEPT !.reading = TRUE]
           left == LeftBehind(gone)
<1>1. /\ Running(t, "run") /\ k \in InTree /\ k \notin Cached
      /\ cache' = [f EXCEPT ![k].reading = TRUE] /\ want' = [want EXCEPT ![t] = k] /\ current' = None
      /\ lru_list' = Without(lru, gone) /\ pc' = [left EXCEPT ![t] = "reading"] /\ broken' = (k \in gone)
      /\ tickets' = tickets /\ next_ticket' = next_ticket /\ dirty_list' = dirty_list
      /\ write_dirty_tsk' = write_dirty_tsk /\ number' = number /\ pinned' = pinned /\ list' = list
      /\ run_list' = run_list /\ stored' = stored /\ promised' = promised
  BY DEF GetMissing, StartRead, CanGet
<1>2. /\ TypeInv /\ RunInv /\ WriterInv /\ PromisedGetsWritten
      /\ BlkInv /\ LruInv /\ TicketInv /\ DirtyInv /\ PinInv /\ ReadInv
      /\ t = current /\ pc[t] = "run" /\ ~broken /\ t # None /\ t \notin ToSet(run_list)
      /\ \A u \in Agent : pc[u] \in {"run", "dirtying"} => u = t
      /\ ToSet(run_list) \subseteq Agent
  BY <1>1, RunningFacts DEF Agent
<1>3. cache \in [Key -> Blk] /\ \A x \in Key \ {k} : blks[x] = cache[x]
  BY <1>2 DEF TypeInv
<1>4. lru \in Seq(Key) /\ IsInjective(lru) /\ ToSet(lru) = Cached \union {k}
  <2>1. lru_list \in Seq(Key) /\ k \notin ToSet(lru_list) /\ IsInjective(lru_list) /\ ToSet(lru_list) = Cached
    BY <1>1, <1>2 DEF TypeInv, LruInv
  <2> QED BY <2>1, AppendElements
<1>5. /\ f = [x \in Key |-> IF x \in gone THEN NoBlk ELSE blks[x]]
      /\ f[k] \in Blk /\ (k \notin gone => f[k] = NewBlk)
  BY <1>3, BlkFields DEF Freed
<1>6. b \in Blk /\ b.reading /\ (k \notin gone => b.accessed = 0)
  <2> DEFINE c == f[k]
  <2>1. c \in Blk /\ (k \notin gone => c.accessed = 0)
    BY <1>5, BlkFields
  <2> HIDE DEF c, gone
  <2>2. [c EXCEPT !.reading = TRUE] \in Blk /\ [c EXCEPT !.reading = TRUE].reading
        /\ [c EXCEPT !.reading = TRUE].accessed = c.accessed
    BY <2>1, ChangedBlk
  <2>3. b = [c EXCEPT !.reading = TRUE]
    BY DEF c
  <2> HIDE DEF b
  <2> QED BY <2>1, <2>2, <2>3
<1>7. Shrinks(k, b, gone)
  <2>1. cache' = [f EXCEPT ![k] = b]
    BY <1>1
  <2>2. \A x \in Key : x # k => f[x] = IF x \in gone THEN NoBlk ELSE cache[x]
    BY <1>3, <1>5
  <2> HIDE DEF b, gone, blks, f
  <2> QED BY <1>5, <2>1, <2>2 DEF Shrinks
<1>8. /\ left \in [Agent -> {"idle", "start", "run", "dirtying", "reading", "waiting", "dangling", "writing"}]
      /\ \A w \in Writer : left[w] = pc[w]
      /\ \A u \in Task : \/ left[u] = pc[u] /\ (pc[u] = "waiting" => want[u] \notin gone)
                         \/ left[u] = "dangling" /\ pc[u] = "waiting"
  BY <1>2, LeftBehindFacts
<1>9. gone = Shrunk(blks, lru)
  OBVIOUS
<1> HIDE DEF blks, lru, gone, f, b, left
<1>10. /\ pc' \in [Agent -> {"idle", "start", "run", "dirtying", "reading", "waiting", "dangling", "writing"}]
       /\ pc'[t] = "reading" /\ t \in Agent /\ t \notin Writer
       /\ \A w \in Writer : w \in Agent /\ pc'[w] = pc[w]
       /\ \A u \in Task \ {t} : \/ pc'[u] = pc[u] /\ (pc[u] = "waiting" => want[u] \notin gone)
                                \/ pc'[u] = "dangling" /\ pc[u] = "waiting"
  BY <1>1, <1>8 DEF Agent
<1>11. want' \in [Task -> Key \union {None}] /\ want'[t] = k /\ \A u \in Task \ {t} : want'[u] = want[u]
  BY <1>1, <1>2 DEF TypeInv
<1>12. /\ cache' \in [Key -> Blk] /\ lru_list' \in Seq(Key) /\ cache'[k] = b
       /\ \A x \in Key \ {k} : cache'[x] = IF x \in gone THEN NoBlk ELSE cache[x]
  <2>1. TypeInv /\ k \in Key /\ b \in Blk /\ lru \in Seq(Key)
    BY <1>2, <1>4, <1>6
  <2>2. Shrinks(k, b, gone) /\ lru_list' = Without(lru, gone)
    BY <1>1, <1>7
  <2> QED BY <2>1, <2>2, ShrinkTypes, ZenonT(60)
<1>13. TypeInv'
  <2>1. PcType'
    BY <1>2, <1>10 DEF PcType, TypeInv
  <2> QED BY <1>1, <1>2, <1>11, <1>12, <2>1 DEF TypeInv
<1>14. RunInv'
  BY <1>1, <1>2, <1>10 DEF RunInv, Agent
<1>15. WriterInv' /\ PromisedGetsWritten'
  BY <1>1, <1>2, <1>10, WritersKept
<1>16. ASSUME k \notin gone PROVE (BlkInv /\ LruInv /\ TicketInv /\ DirtyInv /\ PinInv /\ ReadInv)'
  <2>1. /\ \A x \in gone : x \in Key /\ x \in Cached /\ ~cache[x].reading /\ ~cache[x].dirty
        /\ \A u \in Task : pinned[u] \intersect gone = {}
        /\ BlkInv' /\ LruInv' /\ Cached' = (Cached \union {k}) \ gone
    BY <1>1, <1>2, <1>3, <1>4, <1>6, <1>7, <1>9, <1>16, ShrinkKeeps
  <2>2. TicketInv'
    BY <1>1, <1>2, <1>10 DEF TicketInv
  <2>3. DirtyInv'
    BY <1>1, <1>2, <1>12, <2>1 DEF DirtyInv
  <2>4. InTree' = InTree /\ InTree \subseteq Key
    BY <1>1, <1>2, InTreeKeys DEF InTree
  <2>5. PinInv'
    <3>1. \A u \in Task : \A x \in pinned[u] :
            x \in InTree /\ x \in Cached' /\ cache'[x] = cache[x] /\ cache[x].accessed >= number[u]
      BY <1>1, <1>2, <1>12, <2>1, <2>4 DEF PinInv
    <3>2. \A u \in Task : pc'[u] \in {"idle", "start"} => pinned[u] = {}
      BY <1>2, <1>10 DEF PinInv
    <3> QED BY <1>1, <2>4, <3>1, <3>2 DEF PinInv
  <2>6. ReadInv'
    <3>1. ~cache[k].reading
      BY <1>1, BlkFields DEF Cached
    <3>2. \A u \in Task : pc[u] \in {"reading", "waiting"} =>
            u # t /\ want'[u] = want[u] /\ want[u] \in InTree /\ want[u] \in Key
      BY <1>2, <1>11, <2>4 DEF ReadInv
    <3>3. \A u \in Task \ {t} : pc'[u] = "reading" <=> pc[u] = "reading"
      BY <1>10
    <3>4. \A u \in Task \ {t} : pc'[u] = "waiting" => pc[u] = "waiting" /\ want[u] \notin gone
      BY <1>10
    <3>5. \A u \in Task : pc[u] = "reading" => want[u] # k /\ want[u] \notin gone /\ cache[want[u]].reading
      BY <1>2, <2>1, <3>1 DEF ReadInv
    <3>6. \A u \in Task : pc'[u] \in {"reading", "waiting"} => want'[u] \in InTree'
      BY <1>1, <1>11, <2>4, <3>2, <3>3, <3>4
    <3>7. \A u \in Task : pc'[u] = "reading" => cache'[want'[u]].reading
      BY <1>6, <1>11, <1>12, <3>2, <3>3, <3>5
    <3>8. \A u, v \in Task : pc'[u] = "reading" /\ pc'[v] = "reading" /\ want'[u] = want'[v] => u = v
      BY <1>2, <1>11, <3>2, <3>3, <3>5 DEF ReadInv
    <3>9. \A x \in Key : cache'[x].reading => \E u \in Task : pc'[u] = "reading" /\ want'[u] = x
      <4> SUFFICES ASSUME NEW x \in Key, cache'[x].reading
                   PROVE  \E u \in Task : pc'[u] = "reading" /\ want'[u] = x
        OBVIOUS
      <4>1. CASE x = k
        BY <1>10, <1>11, <4>1
      <4>2. CASE x # k
        <5>1. cache[x].reading
          BY <1>12, <4>2, BlkFields
        <5>2. PICK u \in Task : pc[u] = "reading" /\ want[u] = x
          BY <1>2, <5>1 DEF ReadInv
        <5> QED BY <3>2, <3>3, <5>2
      <4> QED BY <4>1, <4>2
    <3>10. ASSUME NEW u \in Task, pc'[u] = "waiting"
           PROVE  cache'[want'[u]].reading \/ u = current' \/ u \in ToSet(run_list')
      <4>1. u # t /\ pc[u] = "waiting" /\ want[u] \notin gone /\ want'[u] = want[u] /\ want[u] \in Key
        BY <1>10, <3>2, <3>4, <3>10
      <4>2. cache[want[u]].reading \/ u \in ToSet(run_list)
        BY <1>2, <4>1 DEF ReadInv
      <4> QED BY <1>1, <1>12, <3>1, <4>1, <4>2
    <3> QED BY <3>6, <3>7, <3>8, <3>9, <3>10 DEF ReadInv
  <2> QED BY <2>1, <2>2, <2>3, <2>5, <2>6
<1> QED BY <1>1, <1>13, <1>14, <1>15, <1>16 DEF CacheInv

\* A block is added, and is dirty when the task goes on.
LEMMA AllocDirtyKeepsInv ==
    ASSUME CacheInv, NEW t \in Task, NEW k \in Key, AllocDirty(t, k)
    PROVE  CacheInv'
<1> USE BlkAssumption
<1> DEFINE old  == Freed(cache, {k})
           blks == [old EXCEPT ![k] = NewBlk]
           lru  == ToTail(lru_list, k)
           gone == Shrunk(blks, lru)
           f    == Freed(blks, gone)
           b    == MarkedDirty(f[k])
           left == LeftBehind(gone)
<1>1. PICK at \in {"run", "dirtying"} : Running(t, at)
  BY DEF AllocDirty
<1>2. /\ k \notin InTree
      /\ cache' = [f EXCEPT ![k] = b] /\ want' = want /\ current' = current
      /\ lru_list' = Without(lru, gone) /\ pc' = [left EXCEPT ![t] = "dirtying"] /\ broken' = (k \in gone)
      /\ tickets' = tickets /\ next_ticket' = next_ticket /\ dirty_list' = dirty_list \union {k}
      /\ write_dirty_tsk' = write_dirty_tsk /\ number' = number /\ pinned' = pinned /\ list' = list
      /\ run_list' = run_list /\ stored' = stored /\ promised' = promised
  BY DEF AllocDirty, schedVars
<1>3. /\ TypeInv /\ RunInv /\ WriterInv /\ PromisedGetsWritten
      /\ BlkInv /\ LruInv /\ TicketInv /\ DirtyInv /\ PinInv /\ ReadInv
      /\ t = current /\ pc[t] = at /\ ~broken /\ t # None /\ t \notin ToSet(run_list)
      /\ \A u \in Agent : pc[u] \in {"run", "dirtying"} => u = t
      /\ ToSet(run_list) \subseteq Agent
  BY <1>1, RunningFacts DEF Agent
<1>4. cache \in [Key -> Blk] /\ \A x \in Key \ {k} : blks[x] = cache[x]
  BY <1>3 DEF TypeInv, Freed
<1>5. lru \in Seq(Key) /\ IsInjective(lru) /\ ToSet(lru) = Cached \union {k}
  <2>1. lru_list \in Seq(Key) /\ IsInjective(lru_list) /\ ToSet(lru_list) = Cached
    BY <1>3 DEF TypeInv, LruInv
  <2> QED BY <2>1, ToTailElements
<1>6. /\ f = [x \in Key |-> IF x \in gone THEN NoBlk ELSE blks[x]]
      /\ f[k] \in Blk /\ (k \notin gone => f[k] = NewBlk)
  <2>1. blks[k] = NewBlk
    BY DEF Freed
  <2>2. f = [x \in Key |-> IF x \in gone THEN NoBlk ELSE blks[x]]
    BY Zenon DEF Freed
  <2> HIDE DEF blks, gone, f
  <2> QED BY <2>1, <2>2, BlkFields
<1>7. b \in Blk /\ b.dirty /\ b.uptodate /\ (k \notin gone => b.accessed = 0 /\ ~b.reading)
  <2> DEFINE c == f[k]
  <2>1. c \in Blk /\ (k \notin gone => c.accessed = 0 /\ ~c.reading)
    BY <1>6, BlkFields
  <2> HIDE DEF c, gone
  <2>2. /\ MarkedDirty(c) \in Blk /\ MarkedDirty(c).dirty /\ MarkedDirty(c).uptodate
        /\ MarkedDirty(c).accessed = c.accessed /\ MarkedDirty(c).reading = c.reading
    BY <2>1, ChangedBlk
  <2>3. b = MarkedDirty(c)
    BY DEF c
  <2> HIDE DEF b
  <2> QED BY <2>1, <2>2, <2>3
<1>8. Shrinks(k, b, gone)
  <2>1. \A x \in Key : x # k => f[x] = IF x \in gone THEN NoBlk ELSE cache[x]
    BY <1>4, <1>6
  <2> HIDE DEF b, gone, blks, f
  <2> QED BY <1>2, <1>6, <2>1 DEF Shrinks
<1>9. /\ left \in [Agent -> {"idle", "start", "run", "dirtying", "reading", "waiting", "dangling", "writing"}]
      /\ \A w \in Writer : left[w] = pc[w]
      /\ \A u \in Task : \/ left[u] = pc[u] /\ (pc[u] = "waiting" => want[u] \notin gone)
                         \/ left[u] = "dangling" /\ pc[u] = "waiting"
  BY <1>3, LeftBehindFacts
<1>10. gone = Shrunk(blks, lru)
  OBVIOUS
<1> HIDE DEF old, blks, lru, gone, f, b, left
<1>11. /\ pc' \in [Agent -> {"idle", "start", "run", "dirtying", "reading", "waiting", "dangling", "writing"}]
       /\ pc'[t] = "dirtying" /\ t \in Agent /\ t \notin Writer
       /\ \A w \in Writer : w \in Agent /\ pc'[w] = pc[w] /\ w # t
       /\ \A u \in Task \ {t} : \/ pc'[u] = pc[u] /\ (pc[u] = "waiting" => want[u] \notin gone)
                                \/ pc'[u] = "dangling" /\ pc[u] = "waiting"
  BY <1>2, <1>9 DEF Agent
<1>12. /\ cache' \in [Key -> Blk] /\ lru_list' \in Seq(Key) /\ cache'[k] = b
       /\ \A x \in Key \ {k} : cache'[x] = IF x \in gone THEN NoBlk ELSE cache[x]
  BY <1>2, <1>3, <1>5, <1>7, <1>8, ShrinkTypes
<1>13. TypeInv'
  <2>1. PcType'
    BY <1>3, <1>11 DEF PcType, TypeInv
  <2> QED BY <1>2, <1>3, <1>12, <2>1 DEF TypeInv
<1>14. RunInv'
  BY <1>2, <1>3, <1>11 DEF RunInv, Agent
<1>15. k \notin stored /\ k \notin dirty_list /\ \A w \in Writer : k \notin list[w]
  BY <1>2 DEF InTree
<1>16. WriterInv'
  BY <1>2, <1>3, <1>11, <1>15 DEF WriterInv
<1>17. PromisedGetsWritten'
  <2>1. write_dirty_tsk # None => write_dirty_tsk \in Writer
    BY <1>3 DEF TypeInv
  <2> QED BY <1>2, <1>3, <1>11, <2>1 DEF PromisedGetsWritten
<1>18. ASSUME k \notin gone PROVE (BlkInv /\ LruInv /\ TicketInv /\ DirtyInv /\ PinInv /\ ReadInv)'
  <2>1. /\ \A x \in gone : x \in Key /\ x \in Cached /\ ~cache[x].reading /\ ~cache[x].dirty
        /\ \A u \in Task : pinned[u] \intersect gone = {}
        /\ BlkInv' /\ LruInv' /\ Cached' = (Cached \union {k}) \ gone
    BY <1>2, <1>3, <1>4, <1>5, <1>7, <1>8, <1>10, <1>18, ShrinkKeeps
  <2>2. TicketInv'
    BY <1>2, <1>3, <1>11 DEF TicketInv
  <2>3. DirtyInv'
    BY <1>2, <1>3, <1>7, <1>12, <1>15, <1>18, <2>1 DEF DirtyInv
  <2>4. InTree' = InTree \union {k} /\ InTree \subseteq Key
    BY <1>2, <1>3, InTreeKeys DEF InTree
  <2>5. PinInv'
    <3>1. \A u \in Task : \A x \in pinned[u] :
            x \in InTree /\ x \in Cached' /\ cache'[x] = cache[x] /\ cache[x].accessed >= number[u]
      BY <1>2, <1>3, <1>12, <2>1, <2>4 DEF PinInv
    <3>2. \A u \in Task : pc'[u] \in {"idle", "start"} => pinned[u] = {}
      BY <1>3, <1>11 DEF PinInv
    <3> QED BY <1>2, <2>4, <3>1, <3>2 DEF PinInv
  <2>6. ReadInv'
    <3>1. \A u \in Task : pc[u] \in {"reading", "waiting"} => u # t /\ want[u] \in InTree /\ want[u] \in Key /\ want[u] # k
      BY <1>2, <1>3, <2>4 DEF ReadInv
    <3>2. \A u \in Task : pc'[u] = "reading" <=> pc[u] = "reading"
      BY <1>3, <1>11
    <3>3. \A u \in Task : pc'[u] = "waiting" => pc[u] = "waiting" /\ want[u] \notin gone
      BY <1>11
    <3>4. \A u \in Task : pc[u] = "reading" => want[u] \notin gone /\ cache[want[u]].reading
      BY <1>3, <2>1 DEF ReadInv
    <3>5. \A u \in Task : pc'[u] \in {"reading", "waiting"} => want'[u] \in InTree'
      BY <1>2, <2>4, <3>1, <3>2, <3>3
    <3>6. \A u \in Task : pc'[u] = "reading" => cache'[want'[u]].reading
      BY <1>2, <1>12, <3>1, <3>2, <3>4
    <3>7. \A u, v \in Task : pc'[u] = "reading" /\ pc'[v] = "reading" /\ want'[u] = want'[v] => u = v
      BY <1>2, <1>3, <3>2 DEF ReadInv
    <3>8. \A x \in Key : cache'[x].reading => \E u \in Task : pc'[u] = "reading" /\ want'[u] = x
      <4> SUFFICES ASSUME NEW x \in Key, cache'[x].reading
                   PROVE  \E u \in Task : pc'[u] = "reading" /\ want'[u] = x
        OBVIOUS
      <4>1. x # k
        BY <1>7, <1>12, <1>18
      <4>2. cache[x].reading
        BY <1>12, <4>1, BlkFields
      <4>3. PICK u \in Task : pc[u] = "reading" /\ want[u] = x
        BY <1>3, <4>2 DEF ReadInv
      <4> QED BY <1>2, <3>2, <4>3
    <3>9. ASSUME NEW u \in Task, pc'[u] = "waiting"
          PROVE  cache'[want'[u]].reading \/ u = current' \/ u \in ToSet(run_list')
      <4>1. u # t /\ pc[u] = "waiting" /\ want[u] \notin gone /\ want[u] # k /\ want[u] \in Key
        BY <1>11, <3>1, <3>3, <3>9
      <4>2. cache[want[u]].reading \/ u \in ToSet(run_list)
        BY <1>3, <4>1 DEF ReadInv
      <4> QED BY <1>2, <1>12, <4>1, <4>2
    <3> QED BY <3>5, <3>6, <3>7, <3>8, <3>9 DEF ReadInv
  <2> QED BY <2>1, <2>2, <2>3, <2>5, <2>6
<1> QED BY <1>2, <1>13, <1>14, <1>16, <1>17, <1>18 DEF CacheInv

-----------------------------------------------------------------------------
(* The theorems.                                                           *)

\* Each step keeps the invariant.
LEMMA CacheInvNext == CacheInv /\ [Next]_vars => CacheInv'
<1> SUFFICES ASSUME CacheInv, [Next]_vars PROVE CacheInv'
  OBVIOUS
<1>1. CASE Switch
  BY <1>1, SwitchKeepsInv
<1>2. ASSUME NEW t \in Task,
             \/ Arrive(t) \/ Complete(t) \/ OpenTicket(t) \/ ReadReturns(t) \/ WaitReturns(t)
             \/ CloseTicket(t) \/ FinishDirty(t)
      PROVE  CacheInv'
  <2>1. t \in Agent
    BY DEF Agent
  <2> QED BY <1>2, <2>1, ArriveKeepsInv, CompleteKeepsInv, OpenTicketKeepsInv, ReadReturnsKeepsInv,
             WaitReturnsKeepsInv, CloseTicketKeepsInv, FinishDirtyKeepsInv
<1>3. ASSUME NEW t \in Task, NEW k \in Key,
             GetCached(t, k) \/ GetWaits(t, k) \/ GetFailed(t, k) \/ GetMissing(t, k) \/ AllocDirty(t, k)
      PROVE  CacheInv'
  BY <1>3, GetCachedKeepsInv, GetWaitsKeepsInv, GetFailedKeepsInv, GetMissingKeepsInv, AllocDirtyKeepsInv
<1>4. ASSUME NEW w \in Writer, Complete(w) \/ WriteStarts(w) \/ WriteReturns(w)
      PROVE  CacheInv'
  <2>1. w \in Agent
    BY DEF Agent
  <2> QED BY <1>4, <2>1, CompleteKeepsInv, WriteStartsKeepsInv, WriteReturnsKeepsInv
<1>5. CASE UNCHANGED vars
  BY <1>5, StutterKeepsInv
<1> QED BY <1>1, <1>2, <1>3, <1>4, <1>5 DEF Next

\* CacheInv is an invariant of the cache.
LEMMA CacheInvariant == Spec => []CacheInv
  BY CacheInvInit, CacheInvNext, PTL DEF Spec

\* The lru holds each cached block once, the tickets are those of the tasks
\* that are at work in the order they were opened, and a task is on the run
\* list at most once: what blk.c does to its lists by hand.
THEOREM CacheTypeCorrect == Spec => []TypeOK
<1>1. CacheInv => TypeOK
  <2> SUFFICES ASSUME CacheInv, ~broken PROVE TypeOK
    BY DEF TypeOK
  <2> USE BlkAssumption
  <2>1. TypeInv /\ RunInv /\ BlkInv /\ LruInv /\ TicketInv
    BY DEF CacheInv
  <2>2. \A k \in Key : cache[k].accessed \in -1 .. MaxTickets /\ DOMAIN cache[k] = DOMAIN NoBlk
    BY <2>1, BlkFields DEF TypeInv, BlkInv
  <2>3. IsInjective(tickets)
    <3>1. tickets \in Seq(Task) /\ number \in [Task -> Int] /\ DOMAIN tickets = 1 .. Len(tickets)
      BY <2>1 DEF TypeInv
    <3>2. ASSUME NEW i \in 1 .. Len(tickets), NEW j \in 1 .. Len(tickets), i < j PROVE tickets[i] # tickets[j]
      <4>1. number[tickets[i]] < number[tickets[j]] /\ tickets[i] \in Task
        BY <2>1, <3>1, <3>2 DEF TicketInv
      <4>2. number[tickets[i]] \in Int
        BY <3>1, <4>1
      <4> QED BY <4>1, <4>2
    <3> QED BY <3>1, <3>2, InjectiveByOrder
  <2>4. write_dirty_tsk \in Writer \union {None}
    BY <2>1 DEF TypeInv
  <2> QED BY <2>1, <2>2, <2>3, <2>4 DEF TypeOK, RunInv, LruInv, TicketInv
<1> QED BY <1>1, CacheInvariant, PTL

\* What a task got with its open ticket stays in the cache: blk_get's promise,
\* for any number of tasks and however small the cache is to be.
THEOREM PinnedBlocksStay == Spec => []PinnedStays
<1>1. CacheInv => PinnedStays
  BY DEF CacheInv, PinInv, PinnedStays
<1> QED BY <1>1, CacheInvariant, PTL

\* A dirty block is in the cache until it is stored, with any number of writers.
THEOREM DirtyBlocksStay == Spec => []DirtyUntilStored
<1>1. CacheInv => DirtyUntilStored
  BY DEF CacheInv, TypeInv, DirtyInv, DirtyUntilStored, InTree
<1> QED BY <1>1, CacheInvariant, PTL

\* What finished requests dirtied has a writer, or is stored: no schedule of
\* the write_dirty_utasks forgets a block.
THEOREM FinishedGetsWritten == Spec => []PromisedGetsWritten
<1>1. CacheInv => PromisedGetsWritten
  BY DEF CacheInv
<1> QED BY <1>1, CacheInvariant, PTL

\* One task reads a block at a time, and a task that waits for it is woken.
THEOREM ReadersAreAlone == Spec => []OneReader
<1>1. CacheInv => OneReader
  <2> SUFFICES ASSUME CacheInv, ~broken PROVE OneReader
    BY DEF OneReader
  <2>1. TypeInv /\ ReadInv
    BY DEF CacheInv
  <2>2. ASSUME NEW k \in Key
        PROVE  cache[k].reading <=> Cardinality({t \in Task : pc[t] = "reading" /\ want[t] = k}) = 1
    <3> DEFINE R == {t \in Task : pc[t] = "reading" /\ want[t] = k}
    <3>1. IsFiniteSet(R)
      BY BlkAssumption, FS_Subset
    <3>2. cache[k].reading => \E t : R = {t}
      BY <2>1 DEF ReadInv
    <3>3. (\E t : R = {t}) => cache[k].reading
      BY <2>1 DEF ReadInv
    <3> HIDE DEF R
    <3>4. Cardinality(R) = 1 <=> \E t : R = {t}
      BY <3>1, FS_Singleton
    <3>5. cache[k].reading <=> Cardinality(R) = 1
      BY <2>1, <3>2, <3>3, <3>4, BlkFields DEF TypeInv
    <3> QED BY <3>5 DEF R
  <2>3. \A t \in Task : t \in ToSet(run_list) <=> Contains(run_list, t)
    <3>1. DOMAIN run_list = 1 .. Len(run_list)
      BY <2>1 DEF TypeInv
    <3> QED BY <3>1, Zenon DEF Contains, ToSet
  <2> QED BY <2>1, <2>2, <2>3 DEF OneReader, ReadInv
<1> QED BY <1>1, CacheInvariant, PTL
=============================================================================
