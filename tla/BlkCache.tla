----------------------------- MODULE BlkCache -----------------------------
(***************************************************************************)
(* The block cache of the daemon (src/utask/blk.c) and the tasks that use  *)
(* it as src/devd/lstore.c does: a request opens a ticket, gets blocks,    *)
(* which may sleep, and then finishes or dirties new blocks without        *)
(* sleeping and has them written.  Tasks are cooperative                   *)
(* (src/utask/utask.c): one runs until it sleeps, the next is the first of *)
(* the run list, and completions are looked at when the list is empty.     *)
(*                                                                         *)
(* A block that is freed while a task still points to it breaks the        *)
(* program, in any way: the behaviour ends there, with broken set.         *)
(***************************************************************************)
EXTENDS Lists, FiniteSets, SequencesExt

CONSTANTS
    Key,            \* the device addresses, the keys of blocks
    Stored,         \* those that a previous commit wrote
    Task,           \* the tasks of requests
    Writer,         \* the write_dirty_utasks; bound: how many write at once
    None,           \* no task
    ShrinkLimit,    \* shrink_limit
    MaxTickets      \* bound: how many tickets are opened

ASSUME BlkAssumption ==
    /\ Stored \subseteq Key
    /\ ShrinkLimit \in Nat /\ MaxTickets \in Nat
    /\ IsFiniteSet(Key) /\ IsFiniteSet(Task)
    /\ Task \intersect Writer = {} /\ None \notin Task \union Writer

VARIABLES
    cache,          \* ht: the block of each key, or NoBlk
    lru_list, tickets, next_ticket,
    dirty_list, write_dirty_tsk,
    number,         \* each task's ticket number
    pc, want,       \* where each task is, and the block it is getting
    pinned,         \* the blocks each task got with its open ticket
    list,           \* the blocks each writer took from dirty_list
    run_list, current, polling,
    stored,         \* the addresses that are written
    promised,       \* those that a request that finished dirtied
    broken

cacheVars == <<cache, lru_list, tickets, next_ticket, dirty_list, write_dirty_tsk, number>>
taskVars  == <<pc, want, pinned, list>>
schedVars == <<run_list, current, polling>>
vars == <<cacheVars, taskVars, schedVars, stored, promised, broken>>

NoBlk == [accessed |-> -1, dirty |-> FALSE, reading |-> FALSE, uptodate |-> FALSE,
          writeback |-> FALSE, error |-> FALSE]
NewBlk == [NoBlk EXCEPT !.accessed = 0]

Cached == {k \in Key : cache[k] # NoBlk}

\* Recovery leaves blocks behind that it read past the end of the log.
Init ==
    \E probed \in SUBSET (Key \ Stored) :
        /\ cache = [k \in Key |-> IF k \in probed THEN [NewBlk EXCEPT !.uptodate = TRUE] ELSE NoBlk]
        /\ lru_list = SetToSeq(probed)
        /\ tickets = <<>> /\ next_ticket = 1
        /\ dirty_list = {} /\ write_dirty_tsk = None
        /\ number = [t \in Task |-> 0]
        /\ pc = [t \in Task \union Writer |-> "idle"]
        /\ want = [t \in Task |-> None]
        /\ pinned = [t \in Task |-> {}]
        /\ list = [w \in Writer |-> {}]
        /\ run_list = <<>> /\ current = None /\ polling = TRUE
        /\ stored = Stored /\ promised = {} /\ broken = FALSE

-----------------------------------------------------------------------------
(* Helpers.  Each returns the part of the state that it changes.           *)

\* utask_wake_task, of those in ts that are not on the run list.
Woken(queue, ts) == queue \o SetToSeq({t \in ts : ~Contains(queue, t)})

\* The tasks on the waitq of the block, from utask_prepare_wait to _finish_wait.
Waiters(k) == {t \in Task : pc[t] = "waiting" /\ want[t] = k}

\* Faulty: the place in the lru changes, not the number.
AccessedNot(blk, n) == blk

\* mark_accessed: the block's record, and its place in the lru.
Accessed(blk, n) == [blk EXCEPT !.accessed = IF @ < n THEN n ELSE @]

ToTail(lru, k) == Append(Without(lru, {k}), k)

LruAccessed(lru, k, blk, n) == IF blk.accessed < n THEN ToTail(lru, k) ELSE lru

\* oldest_ticket
OldestTicket == IF tickets = <<>> THEN next_ticket - 1 ELSE number[Head(tickets)]

\* Faulty: dirty blocks are freed as well.
ReclaimableDirty(blk) == ~blk.reading

Reclaimable(blk) == ~blk.reading /\ ~blk.dirty

\* try_shrink: the keys of the blocks it frees, from the head of the lru.
Shrunk(blks, lru) ==
    LET tried == {i \in DOMAIN lru : \A j \in 1 .. i : blks[lru[j]].accessed < OldestTicket}
        idle  == {i \in tried : Reclaimable(blks[lru[i]])}
    IN {lru[i] : i \in {i \in idle : Cardinality({j \in idle : j <= i}) <= Len(lru) - ShrinkLimit}}

\* free_blk of the keys, which a task that waits for one of them still uses.
Freed(blks, keys) == [k \in Key |-> IF k \in keys THEN NoBlk ELSE blks[k]]
LeftBehind(keys) ==
    [t \in DOMAIN pc |-> IF pc[t] = "waiting" /\ want[t] \in keys THEN "dangling" ELSE pc[t]]

-----------------------------------------------------------------------------
(* The scheduler, and the tasks it is given.                               *)

Running(t, at) == ~broken /\ current = t /\ pc[t] = at

\* A message arrives and a task is created for it.
Arrive(t) ==
    /\ ~broken /\ current = None /\ (polling \/ run_list = <<>>)
    /\ pc[t] = "idle" /\ next_ticket <= MaxTickets
    /\ pc' = [pc EXCEPT ![t] = "start"]
    /\ run_list' = Append(run_list, t) /\ polling' = TRUE
    /\ UNCHANGED <<cacheVars, want, pinned, list, current, stored, promised, broken>>

\* An io completes and its task is woken; what was written is stored.
Complete(t) ==
    /\ ~broken /\ current = None /\ (polling \/ run_list = <<>>)
    /\ pc[t] \in {"reading", "writing"} /\ ~Contains(run_list, t)
    /\ run_list' = Append(run_list, t) /\ polling' = TRUE
    /\ stored' = IF t \in Writer THEN stored \union list[t] ELSE stored
    /\ UNCHANGED <<cacheVars, taskVars, current, promised, broken>>

\* utask_run: the first task of the run list.  A task that waited for a block
\* that is gone looks at it all the same.
Switch ==
    /\ ~broken /\ current = None /\ run_list # <<>>
    /\ current' = Head(run_list) /\ run_list' = Tail(run_list) /\ polling' = FALSE
    /\ broken' = (pc[Head(run_list)] = "dangling")
    /\ UNCHANGED <<cacheVars, taskVars, stored, promised>>

-----------------------------------------------------------------------------
(* A request.                                                              *)

\* Faulty: a ticket that is opened again keeps its place.
TicketsKept(t) == IF Contains(tickets, t) THEN tickets ELSE Append(tickets, t)

TicketsOpened(t) == Append(Without(tickets, {t}), t)

\* blk_open_ticket, of a task that starts or tries again.
OpenTicket(t) ==
    /\ Running(t, "start") \/ Running(t, "run")
    /\ next_ticket <= MaxTickets
    /\ tickets' = TicketsOpened(t)
    /\ number' = [number EXCEPT ![t] = next_ticket]
    /\ next_ticket' = next_ticket + 1
    /\ pinned' = [pinned EXCEPT ![t] = {}]
    /\ pc' = [pc EXCEPT ![t] = "run"]
    /\ UNCHANGED <<cache, lru_list, dirty_list, write_dirty_tsk, want, list, schedVars, stored, promised, broken>>

\* The end of blk_get: the block is given to the task, or its error is.
Returned(t, k, blk) ==
    /\ cache' = [cache EXCEPT ![k] = IF blk.error THEN blk ELSE Accessed(blk, number[t])]
    /\ lru_list' = IF blk.error THEN lru_list ELSE LruAccessed(lru_list, k, blk, number[t])
    /\ pinned' = IF blk.error THEN pinned ELSE [pinned EXCEPT ![t] = @ \union {k}]
    /\ pc' = [pc EXCEPT ![t] = "run"]
    /\ want' = [want EXCEPT ![t] = None]

\* The blocks that the tree references: written, or dirty.
InTree == stored \union dirty_list \union UNION {list[w] : w \in Writer}

CanGet(t, k) == Running(t, "run") /\ k \in InTree \ pinned[t]

\* blk_get of a cached block that need not be read; an error is never cleared.
GetCached(t, k) ==
    /\ CanGet(t, k) /\ k \in Cached
    /\ cache[k].uptodate \/ (cache[k].reading /\ cache[k].error)
    /\ Returned(t, k, cache[k])
    /\ UNCHANGED <<tickets, next_ticket, dirty_list, write_dirty_tsk, number, list, schedVars, stored, promised, broken>>

\* blk_get of a block that another task is reading: utask_wait_event.
GetWaits(t, k) ==
    /\ CanGet(t, k) /\ k \in Cached
    /\ cache[k].reading /\ ~cache[k].uptodate /\ ~cache[k].error
    /\ pc' = [pc EXCEPT ![t] = "waiting"]
    /\ want' = [want EXCEPT ![t] = k]
    /\ current' = None
    /\ UNCHANGED <<cacheVars, pinned, list, run_list, polling, stored, promised, broken>>

\* The read of blk_get, which the task sleeps for.
StartRead(t, k, blks) ==
    /\ cache' = [blks EXCEPT ![k].reading = TRUE]
    /\ want' = [want EXCEPT ![t] = k]
    /\ current' = None

\* blk_get of a block whose last read failed: it is read again.
GetFailed(t, k) ==
    /\ CanGet(t, k) /\ k \in Cached
    /\ ~cache[k].uptodate /\ ~cache[k].reading
    /\ StartRead(t, k, cache)
    /\ pc' = [pc EXCEPT ![t] = "reading"]
    /\ UNCHANGED <<lru_list, tickets, next_ticket, dirty_list, write_dirty_tsk, number, pinned, list,
                   run_list, polling, stored, promised, broken>>

\* blk_get of a block that is not cached: the new one goes to the end of the
\* lru before the cache is shrunk, which must not free it.
GetMissing(t, k) ==
    /\ CanGet(t, k) /\ k \notin Cached
    /\ LET blks == [cache EXCEPT ![k] = NewBlk]
           lru  == Append(lru_list, k)
           gone == Shrunk(blks, lru)
       IN /\ StartRead(t, k, Freed(blks, gone))
          /\ lru_list' = Without(lru, gone)
          /\ pc' = [LeftBehind(gone) EXCEPT ![t] = "reading"]
          /\ broken' = (k \in gone)
    /\ UNCHANGED <<tickets, next_ticket, dirty_list, write_dirty_tsk, number, pinned, list,
                   run_list, polling, stored, promised>>

\* Faulty: only a read that succeeds wakes the tasks that wait.
WakesWhenRead(k, failed) == IF failed THEN {} ELSE Waiters(k)

\* utask_wake_all of the block's waitq.
Wakes(k, failed) == Waiters(k)

\* The rest of blk_get of the task that read the block, which may have failed.
ReadReturns(t) ==
    /\ Running(t, "reading")
    /\ \E failed \in BOOLEAN :
         LET k   == want[t]
             blk == [cache[k] EXCEPT !.reading = FALSE,
                                     !.uptodate = @ \/ ~failed, !.error = @ \/ failed]
         IN /\ cache' = [cache EXCEPT ![k] = IF failed THEN blk ELSE Accessed(blk, number[t])]
            /\ lru_list' = IF failed THEN lru_list ELSE LruAccessed(lru_list, k, blk, number[t])
            /\ pinned' = IF failed THEN pinned ELSE [pinned EXCEPT ![t] = @ \union {k}]
            /\ run_list' = Woken(run_list, Wakes(k, failed))
    /\ pc' = [pc EXCEPT ![t] = "run"]
    /\ want' = [want EXCEPT ![t] = None]
    /\ UNCHANGED <<tickets, next_ticket, dirty_list, write_dirty_tsk, number, list, current, polling,
                   stored, promised, broken>>

\* The rest of blk_get of a task that was woken, which is after the read.
WaitReturns(t) ==
    /\ Running(t, "waiting")
    /\ cache[want[t]].uptodate \/ cache[want[t]].error
    /\ Returned(t, want[t], cache[want[t]])
    /\ UNCHANGED <<tickets, next_ticket, dirty_list, write_dirty_tsk, number, list, schedVars, stored, promised, broken>>

\* blk_mark_dirty of a block that is not dirty, which dirty_list takes.
MarkedDirty(blk) == [blk EXCEPT !.uptodate = TRUE, !.dirty = TRUE]

\* lstore_alloc_dirty: blk_get of a new block and blk_mark_dirty, which do not
\* sleep; a block that recovery left at the address is freed first.  To get
\* here the task got a block of the tree, if there is a tree.
AllocDirty(t, k) ==
    /\ Running(t, "run") \/ Running(t, "dirtying")
    /\ write_dirty_tsk # None \/ \E w \in Writer : pc[w] = "idle"
    /\ pinned[t] # {} \/ InTree \subseteq dirty_list
    /\ k \notin InTree
    /\ LET old  == Freed(cache, {k})
           blks == [old EXCEPT ![k] = NewBlk]
           lru  == ToTail(lru_list, k)
           gone == Shrunk(blks, lru)
       IN /\ cache' = [Freed(blks, gone) EXCEPT ![k] = MarkedDirty(@)]
          /\ lru_list' = Without(lru, gone)
          /\ pc' = [LeftBehind(gone) EXCEPT ![t] = "dirtying"]
          /\ broken' = (k \in gone)
    /\ dirty_list' = dirty_list \union {k}
    /\ UNCHANGED <<tickets, next_ticket, write_dirty_tsk, number, want, pinned, list, schedVars, stored, promised>>

\* blk_close_ticket of a reader, or of a writer that is refused once its commit
\* is open and leaves it to the next one.
CloseTicket(t) ==
    /\ Running(t, "run") \/ Running(t, "dirtying")
    /\ tickets' = Without(tickets, {t})
    /\ pinned' = [pinned EXCEPT ![t] = {}]
    /\ current' = None
    /\ pc' = [pc EXCEPT ![t] = "idle"]
    /\ UNCHANGED <<cache, lru_list, next_ticket, dirty_list, write_dirty_tsk, number, want, list,
                   run_list, polling, stored, promised, broken>>

\* blk_schedule_write_dirty, when the tasks are at the places pcs.
ScheduleWriteDirty(pcs) ==
    IF write_dirty_tsk # None THEN pc' = pcs /\ UNCHANGED <<write_dirty_tsk, run_list>>
    ELSE \E w \in Writer :
           /\ pcs[w] = "idle"
           /\ write_dirty_tsk' = w
           /\ pc' = [pcs EXCEPT ![w] = "start"]
           /\ run_list' = Append(run_list, w)

\* finish_dirty_sync: blk_close_ticket and blk_schedule_write_dirty.
FinishDirty(t) ==
    /\ Running(t, "dirtying")
    /\ tickets' = Without(tickets, {t})
    /\ pinned' = [pinned EXCEPT ![t] = {}]
    /\ current' = None
    /\ promised' = promised \union dirty_list
    /\ ScheduleWriteDirty([pc EXCEPT ![t] = "idle"])
    /\ UNCHANGED <<cache, lru_list, next_ticket, dirty_list, number, want, list, polling, stored, broken>>

-----------------------------------------------------------------------------
(* write_dirty_utask.                                                      *)

\* Faulty: the next writer can only be scheduled when this one has written.
WriterStarted(w) == w

\* The pending writer once this one runs.
WriterAfter(w) == None

\* The writer takes the dirty list and sleeps in the write method.
WriteStarts(w) ==
    /\ Running(w, "start")
    /\ list' = [list EXCEPT ![w] = dirty_list]
    /\ dirty_list' = {}
    /\ cache' = [k \in Key |-> IF k \in dirty_list THEN [cache[k] EXCEPT !.writeback = TRUE] ELSE cache[k]]
    /\ write_dirty_tsk' = WriterAfter(w)
    /\ pc' = [pc EXCEPT ![w] = "writing"]
    /\ current' = None
    /\ UNCHANGED <<lru_list, tickets, next_ticket, number, want, pinned, run_list, polling, stored, promised, broken>>

\* The blocks are clean once they are written.
WriteReturns(w) ==
    /\ Running(w, "writing")
    /\ cache' = [k \in Key |-> IF k \in list[w]
                               THEN [cache[k] EXCEPT !.writeback = FALSE, !.dirty = FALSE]
                               ELSE cache[k]]
    /\ list' = [list EXCEPT ![w] = {}]
    /\ pc' = [pc EXCEPT ![w] = "idle"]
    /\ current' = None
    /\ UNCHANGED <<lru_list, tickets, next_ticket, dirty_list, write_dirty_tsk, number, want, pinned,
                   run_list, polling, stored, promised, broken>>

-----------------------------------------------------------------------------
Next ==
    \/ Switch
    \/ \E t \in Task :
         \/ Arrive(t) \/ Complete(t) \/ OpenTicket(t) \/ ReadReturns(t) \/ WaitReturns(t) 
         \/ CloseTicket(t) \/ FinishDirty(t)
         \/ \E k \in Key : \/ GetCached(t, k) \/ GetWaits(t, k) \/ GetFailed(t, k) \/ GetMissing(t, k)
                           \/ AllocDirty(t, k)
    \/ \E w \in Writer : Complete(w) \/ WriteStarts(w) \/ WriteReturns(w)

Spec == Init /\ [][Next]_vars

-----------------------------------------------------------------------------
(* Correctness.                                                            *)

TypeOK == ~broken =>
    /\ \A k \in Key : /\ cache[k].accessed \in -1 .. MaxTickets
                      /\ DOMAIN cache[k] = DOMAIN NoBlk
    /\ IsInjective(lru_list) /\ ToSet(lru_list) = Cached
    /\ IsInjective(tickets) /\ ToSet(tickets) = {t \in Task : pc[t] \notin {"idle", "start"}}
    /\ \A i, j \in DOMAIN tickets : i < j => number[tickets[i]] < number[tickets[j]]
    /\ IsInjective(run_list) /\ current \notin ToSet(run_list)
    /\ write_dirty_tsk \in Writer \union {None}

\* "Until they close the ticket those blocks won't be freed": what a task got
\* with its open ticket stays cached, whatever other tasks get meanwhile.
PinnedStays == \A t \in Task : ~broken => pinned[t] \subseteq Cached

\* A new block is in the cache, dirty, until it is stored, so no read can see
\* what the device held at its address before.
DirtyUntilStored ==
    ~broken => \A k \in InTree \ stored : k \in Cached /\ cache[k].dirty /\ cache[k].uptodate

\* What a request that finished has dirtied is stored, or is being written, or
\* has a writer coming for it, also when it was dirtied during another write.
PromisedGetsWritten ==
    \A k \in promised \ stored :
        \/ \E w \in Writer : k \in list[w] /\ pc[w] = "writing"
        \/ k \in dirty_list /\ write_dirty_tsk # None /\ pc[write_dirty_tsk] = "start"

\* A block is being read by exactly one task, and a task only waits for a
\* block that is being read, or is about to look at it again.
OneReader ==
    ~broken =>
        /\ \A k \in Key : cache[k].reading <=> Cardinality({t \in Task : pc[t] = "reading" /\ want[t] = k}) = 1
        /\ \A t \in Task : pc[t] = "waiting" =>
             cache[want[t]].reading \/ t = current \/ Contains(run_list, t)

\* "stop reclaim on any blocks that are returned from blk_get while the ticket
\* is still open": nor is a block freed that blk_get is about to return, be it
\* new and freed by the shrink of its own insertion, or waited for.
GetsKeepTheirBlock == ~broken
=============================================================================
