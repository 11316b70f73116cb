# Verification of rpdfs-progs

TLA+ models of the userspace server of rpdfs, the TLC configurations that check
them on small instances, and machine-checked proofs about them. `PROJECT.json`
names every component, run, mutant, theorem and hazard, and maps every definition to
the lines of `src/` it models. Definitions keep the names of the source where
TLA+ allows it.

    tlc -workers 2 -config MCRLock_safe.cfg MCRLock      # a run
    tlapm RLockSafety.tla                                # a module's proofs

## 1. The system

`rpdfs-devd` serves one block device to kernel clients over the network. It is
one process with one thread: every activity is a **utask**, a stack of its own
that runs until it sleeps (`src/utask/utask.c`). So the interesting
interleavings are those *between two places that can sleep*, the order in which
IO completes, the order of messages, and crashes.

    clients ──messages──> net.c ──> proc.c: one utask per message
                                      │
                      ┌───────────────┴───────────────┐
                  rlock.c                           lstore.c  (read, write)
          request/confirm/release             │ walks            │ commits
          grants and revokes ─> net_send      btree.c            │
                                              └──> blk.c <───────┘
                                                   │ cache, tickets, dirty list
                                                   └──> utask io ──> device

| Component | State it keeps | Operations | How it interacts |
|---|---|---|---|
| `devd/rlock.c` lock server | per key: granted list, request queue; per client and key: `granted`, `revoked` | request, confirm, release | called by a message's utask, never sleeps, answers with `net_send` |
| `devd/lstore.c` log store | stable, current and dirty commit, `next_commit_seq`, `next_dev_addr`, `dirty_seq`, waiting writers | read, write, write of a commit, recovery | walks `btree`, dirties blocks of `blk`, is called back by `write_dirty_utask` |
| `devd/btree.c` btree | the blocks under a root | insert, replace, delete, lookup, and the walks that prepare them | gets blocks from `lstore`, which copies them on write |
| `utask/blk.c` block cache | hash table, lru, tickets, dirty list, `write_dirty_tsk` | open and close a ticket, get, mark dirty, write | sleeps in IO, wakes waiters |
| `utask/utask.c` scheduler | run list, wait queues, submissions, cancellation | create, wake, sleep, io, cancel, destroy | everything runs in it |
| `utask/net.c` connections | sockets, peers, send queues, accept / send / receive tasks | listen, connect, send, receive, teardown | hands messages to `proc` |
| `devd/proc.c` dispatch | table of handlers | one utask for each message | starts `rlock` and `lstore` handlers |
| `devd/rpdfs-devd.c`, `utask/sigcb.c` | order of init and exit, a signalfd task | start, signal, stop | |
| `shared/hash_table.c` | a robin hood table and, while resizing, a second one | insert, delete, lookup, iterate | used by `rlock`, `blk` |
| `shared/dtracef.c` | a ring of segments of trace events | write, print | `print-trace` reads what a process left |
| `cli/` (`format-device`, front end) | none | writes the first commit | the device that `lstore` starts on |

Vendored kernel code (`shared/lk/`: lists, red-black tree, hashes, crc) appears as
sequences, sets and functions. Options, parsing, logging and the crash handler
keep no state that matters here.

### What makes each part correct, and what is hard about it

* **rlock**: no two clients ever use conflicting modes; every request is granted;
  no client is asked for more than the request in its way needs. Hard because the
  server's idea of a mode, the messages in flight and the client's idea differ for
  most of the time; because a walk of the granted list stops early on the
  strength of its order; and because nothing but a message ever makes the
  server look at a waiting request again.
* **lstore**: what the network has seen survives any crash, in order, and no
  commit of which a block is missing is loaded. Hard because writes of several
  commits complete in any order, a crash keeps any subset of their blocks, old
  blocks lie where new commits go, and a writer sleeps between preparing and
  modifying.
* **btree**: order, balance, and the two promises its atomic phase depends on:
  no more blocks than reserved, no block that was not read beforehand.
* **blk**: a block that somebody relies on (ticket, dirty, being read, waited
  for) is not freed; what is dirty gets written; every waiter is woken.
* **utask, net, sigcb, shutdown**: a task, its stack and the socket it serves are freed
  after everything that points to them, in an order that several sleeping tasks
  agree on; a teardown ends; messages go out once and in order also when sends
  fail. Hard because each step of a teardown sleeps, and any other task can run there.
* **hash table**: between two batches of a migration an object is in exactly one of the
  two tables, and each table keeps the order of its runs so that a lookup
  may stop early.
* **trace**: what a stopped program left is read with segments of two rounds in it;
  the printer must neither take an old event for a new one nor go round for ever.

The `hazards` of `PROJECT.json` list where each of these bites, with its line.

## 2. Modules

| Module | Models | Notes |
|---|---|---|
| `RLock` | `rlock.c` for one key, its clients, in-order connections | a handler never sleeps: one step |
| `RLockAbs` | the promise: modes that change hands instantly | refined by `RLock` |
| `RLockInv` | inductive invariants over a value of `srv` | used by the proofs |
| `SeqFacts` | facts about sequences, `Lists` and least elements | lemmas with proofs |
| `RLockProofs` | the server on its own, for any client behaviour | 4 theorems |
| `RLockSafety` | the whole protocol, for clients that do not release | 6 theorems |
| `LStore` | writes, reads, commit writes, crash, recovery | the tree is one leaf |
| `LStoreAbs` | the promise: an ordered store with visible writes | refined by `LStore` |
| `LStoreProofs` | the log for any device, and what a crash leaves of it | 5 theorems |
| `BTree` | the walks and operations of `btree.c` | blocks as sequences of items |
| `BTreeBlock` | the memory of a block: item slots, the sorted array of offsets | refines `BTreeBlockAbs` |
| `BTreeBlockAbs` | the promise: a block is a set of items | |
| `BTreeBlockProofs` | blocks of any size, with any keys | 2 theorems |
| `BlkCache` | `blk.c`, the request tasks that use it and the scheduler's run list | |
| `BlkCacheProofs` | any number of tasks, writers and blocks | 5 theorems |
| `Lists` | `list_del` and `list_del_init` on lists as sequences | used by `BlkCache` and `UTask` |
| `UTask` | the scheduler's functions as operators on its state | used by `Net` |
| `Net` | `net.c`: accept, send, receive and destroying tasks, `utask_run` | extends `UTask` |
| `Devd` | `rpdfs-devd.c`, `sigcb.c`, `proc.c`: the composition | extends `Net`; the run is of this module |
| `DevdProofs` | the scheduler, the connections and the daemon, any number of peers, messages and signals | 6 theorems |
| `HashTable` | `hash_table.c`: two robin hood tables and the migration between them | refines `KeyMap` |
| `KeyMap` | the promise: a map | |
| `TraceRing` | `dtracef.c`: the writer's ring and `print-trace` | |
| `TraceRingProofs` | segments of any size, any number of them, of sites and of events | 1 theorem |
| `MC*` | definitions the configurations need | symmetry, the writes, hashes |

### RLock

Every hash table lookup of `rlock.c` is by key, so two keys never meet and one key
is the whole behaviour. `srv` is a record of what the server has for the key:
`lists` (the `rlock_lists` is allocated), `list` (the granted list, in order),
`reqs` (`head_req` first), `granted` and `revoked` of each `client_rlock`,
`toClient` (what it has sent) and `aborted` (a `BUG_ON` ended the daemon). The
functions of `rlock.c` are operators from one value of `srv` to the next:
`GetClient`, `MaintainOrder`, `SendRevokes`, `SendGrant`, `ProcessRequests` (a fold
of `ProcessHead`, one iteration of its loop), `TryFreeOrProcess`, and the three
handlers. `RecvRequest`, `RecvConfirm`, `RecvRelease` are the steps of the server.

The client is the kernel module, which is not in the repository. `SendRequest`,
`SendRelease`, `RecvGrant` and `RecvRevoke` do what the comments of `rlock.c` say that
clients do: requests only raise the mode, concurrent requests have increasing modes,
one confirm for each revoke, with a lower mode when the client no longer has the
rlock, and no release while a request is unserved.

### LStore

An action is the code between two places that can sleep. `Prepare` is `prepare_dirty`
and the walk that reads the inputs, `WaitToReserve` and `Modify` (or `RefuseBadCrc`)
the code behind the wait for a reservation, `Reply` the end of
`wait_for_finished_commit`; `SubmitCommit`, `CompleteWrite` and `FinishCommit` are
`write_dirty_utask`, the device and `finish_commit_write`; `PrepareRead` and
`FinishRead` a read; `Crash` keeps any of the blocks of the commits being written and
`Recover` is the whole of `load_stable_commit`. Addresses count blocks; a data block is
the write that made it, a crc stands for contents. The items are the contents of one
btree block, copied on the first change in each commit, as the splits have a module of
their own. `hist` in a commit is a history value: the writes its tree is the result of.

### BTree

`Replace` and `Delete` are the operations with their walks: the root copied, then at
each level a split (`WalkSplit`) or a merge or borrow (`WalkMerge`), restarting at the
root where the code does; blocks are nested values, each with its `dirty` bit, and a walk
returns the blocks it allocated and those it had to read. `PrepareParents`, `PreparePath`
and `PrepareMerge` are the walks that read beforehand, `RsvInsert` and `RsvDelete` the
reservations. Insert and replace share everything but the error for an existing item.
`FindKey` is the binary search as written, not its result.

### BlkCache

`OpenTicket`, `GetCached`, `GetWaits`, `GetFailed`, `GetMissing`, `ReadReturns`,
`WaitReturns` split `blk_get` at its sleeps; `AllocDirty`, `FinishDirty` and `CloseTicket`
are what `lstore` does between them; `WriteStarts` and `WriteReturns` are
`write_dirty_utask`. `Switch`, `Complete` and `Arrive` are the scheduler: one current task,
the first of the run list next, completions polled only when the list has been emptied.
When a block is freed that a task still points to, `broken` ends the behaviour, and the
other properties speak of states before that.

### BTreeBlock

Two siblings, each a record of `slots` (the items as they lie in memory, packed from the
front) and `offsets` (their order). The actions are the calls that `BTree` makes on a block:
insertion, deletion, change of a value or of a reference's key, splitting and merging, and the
copy that keeps only the memory in use. `Packed` is what each needs of the one before;
the refinement is why `BTree` may take a block for a sequence of items.

### UTask, Net and Devd

The program is one thread, so a step is what one task does from one sleep to the next;
`Runs(t, at)` says that task `t` is first in the run list and where it stands. `UTask` has
`utask_create`, `wake_task`, `cancel`, `destroy` and the end of a task as operators on a record of
the run list and the tasks, `dead` naming what killed the program, if anything did (the use
of freed memory, a failed `BUG_ON`). `Net` has the tasks of `net.c` and the completions:
`Submit`, `Complete` and `BatchEnds` are the order of `utask_run`, which looks at a batch of
completions only when nobody is left to run. An op of a task is `none`, `prep` (an sqe is
filled), `busy` (the kernel has it) or how it completed. `walk` is what `destroy_utask` holds in local
variables while `free_sock` sleeps. `Devd` adds the main task with `lstore`, `rlock` and `net` started and
stopped in the code's order, the task that reads the signalfd, and a task for each
message, of which only the sleeps, the reply and the use of tables freed at exit remain.

### HashTable

`ht` and `prev_ht` are arrays of entries with their `probe_len`; an action is one call of
`hash_table.c` with the batch of the migration it makes, in the code's order (`htable_lookup` moves
entries too). `ManageResize` and `NewSize` compute sizes as the code does, in integers and percents. Deletion shifts back
the entries behind it. The value that `KeyMap` sees is `Contents`, the union of both tables.

### TraceRing

The ring is an array of cells. `Trace(nr)` is `dtracef_get_event` with the stores of the arguments by its
caller: whether the event fits its segment with a zero behind it, the next segment or the
start otherwise. `Stop` may come before, between and after all steps of the file's creation and of tracing.
`Open`, `Wrap`, `SkipSegment` and `PrintEvent` are the iterations of the printer's loop. An argument
cell can be taken for a header: it has no number of a site, which the invariant forbids the walk to meet.

## 3. Runs

Each run asks one question. Deadlock is checked in `rlock_safe`, `btree_ops` and `btree_block`. In the
others behaviours end by design: all writes are answered (`LStore`), the server aborted (`RLock` with
releases), the tickets have run out (`BlkCache`), the daemon ended (`Devd`), the
table was destroyed (`HashTable`), the trace was printed (`TraceRing`).

| Run | Question | Bounds |
|---|---|---|
| `rlock_safe` | Do clients that never release get mutual exclusion, every grant, at most one revoke at a time, and the abstract lock? | 3 clients, modes SH_RD and EX_WR, up to 3 messages of a client queued and 2 requests outstanding |
| `rlock_release` | Do the server's own lists stay right whatever clients release, stale confirms included? | 3 clients, NONE, SH_RD, EX_WR, releases to NULL, NONE and SH_RD, 1 request outstanding |
| `rlock_crossing` | Does mutual exclusion survive a release that crosses a revoke? **No** | 2 clients |
| `lstore_crash` | Is all that was shown kept by a crash, and is what is loaded whole? | 3 writes of 2 keys, a read, 1 crash, one segment |
| `lstore_live` | Is every write answered? | the same writes, one with a bad crc, segments of 4 blocks, 5 entries in a commit |
| `lstore_stale` | Is the stable tree readable after two crashes? **No** | 2 crashes |
| `btree_ops` | Are order, fill, contents, reservations and prepared blocks right? | 10 keys, 4 items in a block: up to 3 levels |
| `btree_block` | Do the items of a block stay packed and found through all that is done to its memory? | 6 keys, 2 values, 2 siblings of 4 items |
| `blk_cache` | Are pinned and dirty blocks kept, all dirty blocks written and all waiters woken? | 2 tasks, 3 tickets, 2 stored and 2 new blocks, 2 writers, a limit of 2 |
| `net` | Is everything freed after what uses it, are messages sent once and in order, and does every teardown end? | 2 connections or 1 and 2 messages (`MaxWork` 4: a connection counts 2, a message 1), disconnects, 1 signal |
| `htable` | Is the pair of tables one map at every point of a migration? | 4 keys whose hashes collide, 2 versions, tables of 3 to 9 entries, batches of 3 |
| `trace` | Is exactly what was kept printed, wherever the program stops? | 3 sites of 1, 2 and 4 arguments, 3 segments of 7 cells, 10 events |

Why the bounds are enough: three clients are a head request, a holder in its way and one
more in the list behind it, with which the early stop of a walk, the order of the list
and the reuse of a revoke for the next request all occur; `MaxInFlight` 3 lets a
client have a request above a request, and a confirm behind both (a client sends no more
than two requests of two modes, so 3 hides nothing in `rlock_safe`; `rlock_release` is about the server's lists and has a client
ask again only when it was answered, while the theorems of `RLockProofs` cover all bounds). Three writes are a commit being
written, one written out of order behind it, and one being dirtied; two of them
overwrite the same key. `max_items` is a multiple
of four (`round_down(nr, ALIGNMENT / sz)`), so four items is its least value, and ten keys reach three
levels, so there are merges of parents. A cache of two with four
blocks is at its limit from the third block on. Two siblings are what any operation on
blocks touches, with the parent, which is a block of the same form. Two connections
are a socket being freed and the one that the walk goes to next; a connection with two messages has
a second send behind one that fails, and a request that outlives its socket. The daemon's hash table
starts at 2048 entries and moves 16 in a batch; with `MIN_SIZE` 3 and batches of 3 the same
rules give tables that grow and shrink within four keys and migrations that take two calls, and the two
rows of hashes wrap around the end of every size. (A batch of one would let insertions overtake the
migration, which the real sizes exclude.) Ten events in three segments go round more than once,
with events that fill a segment to its last cell and events that do not fit.

The faulty variants (`...Late`, `...Strict`, `Finish...`, marked `Faulty:` in the
modules) are mutants: `PROJECT.json` pairs one with every property, and TLC finds the
property violated when the variant takes the place of the definition.

### Fairness

* `RLock`: weak fairness of each client's `ServerStep` and `ClientRecv`. The run list is
  first in first out and a handler never sleeps, so a received message is handled; clients
  keep reading their connections. Nothing is assumed of `SendRequest`.
* `LStore`: weak fairness of the tasks' own steps, of submission, completion and finishing
  of IO, and of `Recover` (the daemon is restarted). None of a new request or of `Crash`.
* `Devd`: one weak fairness condition of the daemon as a whole, which goes on as long as it has something
  to do: tasks run, ops are submitted, and of those submitted the ones complete that were canceled, are
  on a socket that was shut down or closed, or load the device. Nothing makes a message, a
  connection, a disconnect or a signal come.
* `TraceRing`: weak fairness of the printer's steps: `print-trace` is run.

## 4. What is proved

`RLockProofs` and `RLockSafety` hold for every set of clients (finite or not), every
`RequestModes`, `ReleaseModes` and `MaxInFlight` that satisfy `ModesAssumption` and
`BoundAssumption`.

**The server on its own** (`RLockProofs`), whatever clients send, releases included:

* `TypeCorrect`, `GrantedStaysSorted`, `ListsExistWithClients`, `RequestsWaitForConfirms`.

The inductive invariant `SrvInv` says that the list is sorted by mode with each client
on it once, that there is one writer at most, that clients off the list have no modes,
that revokes are below EX_WR and queued requests are not below SH_RD; and, between handlers, that
`lists` matches and the head request waits for a confirm. Sortedness alone is not inductive:
a revoke is confirmed by *setting* `granted` to `revoked`, so the range of `revoked` and
"off the list means no mode" are needed for `MaintainOrder` to have only one
client out of place. The invariants are about a value `s` of `srv`, so that they
can be stated for the states between the iterations of `process_requests`: the lemma
`ProcessRequestsServer` carries them through its loop, by the least iteration that fails
(`LeastNat`), and `ProcessHeadProgress` shows that the loop ends with a head
request that is blocked or with none.

**The protocol** (`RLockSafety`), under `NoReleases`: clients do not give modes up on their
own and do not request NONE. Without that assumption mutual exclusion is false
(`rlock_crossing`) and the server aborts (section 5).

* `MutuallyExclusive`: no two clients use conflicting modes, whatever is in flight.
* `ServerNeverAborts`: no request or confirm makes a handler fail.
* `LosesOnlyWhatIsAsked`: a mode is only lost to a conflicting request that waits, and
  no further down than that request needs.
* `ImplementsLock`: `RLock` implements `RLockAbs`; receiving a grant is `Raise`,
  receiving a revoke is `Lower`, all else stutters.

Mutual exclusion is about `held`, which the server cannot see. `SafeInv` ties the three
views together: granted modes are pairwise compatible (`GrantedCompatible`); a client
uses no more than its granted mode, and all of it unless a grant of it is on its way or a
confirm is under way (`HeldInv`); grants in flight rise, above the client's mode and up to the granted one
(`GrantInv`); a revoke is the last message to its client and for the head request
(`RevokeInv`, `RevokedForHead`); a confirm in flight is the only one and the client has
complied (`ConfirmInv`); and requests elevate, in every queue they pass through
(`RequestInv`). The last one is what makes `SendGrant` always send: without it a request
could be served without a message and a client wait for ever. The proof has a lemma for
each action, and under it one for each of what the action does to the client it
is about (`RequestedClient`, `GrantedClient`, `RevokedReplies`, `QueuedClient`,
`ConfirmedClient`, `ServedClient`, `RevokedClient`) with `SameClient` for all others.

* `OneRevokeAtATime`: `revoked` of a client is set exactly while one revoke or the confirm of it
  is on its way, and that one names the mode.
* `EveryRequestAccounted`: a request that a client waits for is in exactly one place, on its way to the
  server, queued there, or granted and on its way back.

These two count messages. `SafeInv` bounds the counts from above (a second revoke, or a second copy of a
request, breaks `RevokeInv` or `RequestInv`); what it lacks is that nothing is *lost*. `KeptInv` adds it:
every mode in `pend` is `Placed`, every outstanding revoke is `Answering`. Each step keeps that, as whatever
takes a message out of one place puts it, or its answer, in the next; and the cardinalities follow from the two bounds.

**The block cache** (`BlkCacheProofs`), for any finite sets of tasks and blocks, any writers, tickets and
limit, under `BlkAssumption`:

* `CacheTypeCorrect`, `PinnedBlocksStay`, `DirtyBlocksStay`, `FinishedGetsWritten`, `ReadersAreAlone`.

Shrinking frees what the oldest open ticket has not accessed, so `PinnedStays` needs the tickets
sorted by number and each pinned block accessed at or after the number of its task (`TicketInv`,
`PinInv`); that in turn needs the `lru_list` to hold each cached block once (`LruInv`), and that dirty
blocks of any of the writers' lists are in the cache (`DirtyInv`), as `blk_get` does not look at the lists.
`ReadInv` says that of the tasks at a block being read one reads, and the others are woken by it or
on the run list already. `CacheInv` has these parts only while the program is not `broken` (section 5); the run
list, the writers and `PromisedGetsWritten` hold even then.

**The log store** (`LStoreProofs`), for any keys, writes (bad crcs too), sizes of commits, device and segments,
under `WriteAssumption`, `SizeAssumption` (a commit has room for a reservation, the device for a block behind the first commit) and
`NoneAssumption`. After any number of crashes:

* `StoreTypeCorrect`, `LogStaysContiguous`.

`StoreInv` is `TypeInv /\ LogInv`. The type of what a crash leaves is in it: every block of the device is
one that some commit wrote there and has room behind it (`GoodDisk`), or recovery could load a commit that runs
off the end. Contiguity alone is not inductive; the dirty commit has to follow the `current` one,
and `next_commit_seq` and `next_dev_addr` the newest (`Newest`), and the writing, written and dirty commits
are `Distinct`, so that taking one out of the middle leaves the others their predecessors.

Under `OneCrash` (at most one crash, a log of one segment):

* `SeenSurvivesCrash`, `StableTreeReadable`, `LogImplementsStore`.

`CrashInv` says that there *is* a log: a sequence of commits from the first one, each following the one before
and readable from the blocks of those up to it (`LogOf`), of which the stable commit is one and all blocks up to the
stable one are on the device (`HasLog`). While nothing has crashed the device holds nothing
else (`OnlyLog`); so what recovery finds whole is a prefix of the log, at least as long as the stable one, and the walk
of `load_stable_commit` and its search end there. The running store goes on from the end
of that log (`RunsOn`). `NotMade` (a write that was not made is in no commit), `Pending` (a writer that waits is in its
commit and those after it) and `Seen` connect it to the tasks. After the crash the leftovers
of torn commits are still there, which is what `OnlyLog` forbids: `lstore_stale` shows that a second crash
then loads one. With several segments one crash is enough (section 5). The theorems have these two
hypotheses because the code needs them.

**The memory of a btree block** (`BTreeBlockProofs`), for any keys, values and `MaxItems` that `BlockAssumption` allows:

* `BlocksStayPacked`, `BlocksAreSets`.

`Inv` says of each of the siblings that the offsets are a permutation of the slots in use and the
others are clear (`Placed`), that the keys are in `Ordered`, and of the two that they are `Apart`. `FindKeyFacts` is the
binary search: `Narrowed` holds after `n` rounds (the key is not before `start` nor behind `end`, and the range
has shrunk), by the least round that fails, so `MaxItems + 1` rounds end it. It asks of a block only that what is searched is sorted, not that it is
`Placed`: `delete_item` searches the array *after* it took the offset out and before the end item has moved,
when the block is not `Placed` and the end item's key is still in order (`DeleteItemFacts`). The same lemma covers the deletion in `merge_block`, where
two references have one key for a moment: it needs only that the keys other than the
deleted one are in order. `MoveItemsFacts` carries a move through its loop by where each item is after
`n` of them, `AbsChanges` and `StepsImplement` map every operation to one of `BTreeBlockAbs`. That a merge leaves
both blocks half full, or one empty, and none too full, is `ToMoveFits`; it uses that `MaxItems` is even.

**The trace** (`TraceRingProofs`), for segments of any size, any number of them, sites and events,
under `TraceAssumption` (an event of the most arguments and the zero behind it fit into a segment):

* `TracePrinted`.

The invariant has two parts. While the program runs, the ring is `Laid`: some positions `P` and sites `N` exist
for the events, such that those of one segment follow each other from its start (`Rows`), each is in its cells and a
zero is behind the last one of each segment (`Events`), segments never begun start with a zero (`Fresh`), and `pos` is the end of
the newest event (`Ends`). The slot of a segment follows from the newest one's number and slot (`SlotOf`), also when `r`
segments were begun and the ring has been round many times. `LaidOn` is the step: an event goes behind the newest
one or to the start of the next slot, and what the segments kept have in the ring is elsewhere. While `print-trace` walks
(`Walking`), it is at the next event to print, or at a zero or at the end of the ring when no event
of its segment is left (`Behind`). That is why it stays in step with the events: without a zero in the newest segment the
walk would go on into the cells of the round before. The walk comes back to its start only with everything printed
(`NextSegment`). `OldestFound` is `find_oldest`: times of first events rise with the segments' numbers, so the first
one below that of slot 0 is in the slot behind the newest.

**Scheduler, connections and daemon** (`DevdProofs`, about `Devd` with `Net` and `UTask`), for any numbers of
peers, messages and signals, under `NetAssumption` and `NoneAssumption` (no task and no socket is `None`):

* `DevdInvariant`, `TypesCorrect`, `ListsAreExact`, `OwnersAreOutlived`, `MessagesInOrder`, `NoStackFreedUnderIo`.

`DevdInv` is `TakenInv`, which holds even after the program died, and, while it is `Alive`, these parts:

* `SchedInv`: the run list holds live tasks, each once; a task that destroys another exists; and a task of a connection is
  canceled by its destroyer only. It is about a value `s` of `sched`, as a step composes several operators of `UTask`, and each
  has a lemma that it keeps it (`WakeKeeps`, `SleepKeeps`, `CreatedKeeps`, ...).
* `ListInv` is `ListsExact` with the two lists as *one* sequence without duplicates, so that `MovedToTail` from one to the other needs
  no case distinction.
* `OwnerInv`: the tasks of a socket exist as soon as it does, and end before it. `OwnersOutlive` needs it and `WalkInv`: while
  `free_sock` sleeps at a socket that socket is shut, it and the next one are on `destroy_list`, and its
  live tasks are among those that are `left`. So what it frees when it wakes has no live task.
* `MainInv`: what `main_utask` has started where it stands. Without it a second start of a task that exists, or a
  socket before the daemon is up, would not be excluded.
* `SendInv` and `QueueInv`: `send_utask` has an op only where it sleeps for it, and for the entry at the head of the queue; the messages taken
  and those in the queue are together all that were sent. An op that has succeeded, but that the task has not seen, is why
  `Gone` may be one less than what was taken.
* `BusyInv`: an op of a socket that is shut ends with the cancel at the latest, which `free_sock` has prepared, and there is no
  cancel left when it sleeps for a task. This is what `NoStackFreedUnderIo` rests on: nothing looks at the op of a task when its stack is
  freed, only at whether the task is finished, and the destroying task is the one that freed or canceled it.

Two lemmas share the work. `DestroyerStep` sums up what one run of the destroying task may do to the sockets it frees or shuts, and
`DestroyerStepKeeps` is the proof for all of its steps (a walk that starts, one that goes on, a task that was
waited for, the end of a socket); the other tasks have a lemma for each action. That `Without` removes
what it should is proved in `SeqFacts` for both users of `Lists`.

**Only model-checked**: what is a matter of fairness (`RequestsGranted`, `WritesAnswered`, `TeardownEnds`,
`PrintEnds`), which is out of the prover's reach; `BTree`, whose recursive walks need induction over the
data; and `HashTable` (`TablesExact`): that the entries of a run stay in order and found is an induction over the
folds that insert and shift, with sums modulo a size that is a variable, which the provers' arithmetic does not cover.

## 5. Disagreements found

Two are runs with the expectation "violation", and findings that quote the line.

* **A release crosses a revoke** (`rlock_crossing`). The client answers the revoke with a confirm
  although the release already dropped its mode; the confirm is later taken for the answer to another
  revoke, and two clients write. The same sequence can also meet a freed `client_rlock`, which is
  `-EPROTO`, which `proc.c` turns into a `BUG_ON`; and it leaves two revokes in flight although
  the comment says there is one.
* **A torn commit is loaded after two crashes** (`lstore_stale`): blocks with a header are checked only
  against the crc they hold, so a leftover of the first torn commit passes for the second one's.

The others are definitions in the modules that no run checks, because they are false. To see one
fail, name it in a configuration:

| Definition | What the code does instead | Configuration |
|---|---|---|
| `LStore!Restarts` | recovery never ends: `mid = (start + last) >> 2` (`lstore.c:837`) | `FairSpec`, property; `MaxEntries` 6, `SearchOffset` 8, `DevSize` 16, `MaxCrashes` 1, the writes of `MCLStore` |
| `LStore!ModifiesPrepared` | a writer modifies a tree that changed while it waited for room, against the comment at `lstore.c:40` | `Spec`; `MaxEntries` 5, `SearchOffset` 64, `DevSize` 28, `MaxCrashes` 0, the same writes |
| `BTree!DeletePrepared` | a deletion reads in its atomic phase; `btree_delete` has no caller yet | the constants of `MCBTree.cfg` |
| `BlkCache!GetsKeepTheirBlock` | `blk_get` frees the block it returns, in a cache at its limit whose other blocks are all dirty or being read | those of `MCBlkCache.cfg` |
| `Devd!NoOpOutlivesStack` | `free_sock` frees a task while an op it prepared has still to be submitted, against the comment at `net.c:126` | `Spec`; `MaxPeers` 1, `MaxRequests` 1, `MaxWork` 4, `MaxSignals` 1 |

Besides these:

* `lstore_crash` with segments (`SearchOffset` 6, `DevSize` 42) violates `VisibleSurvives`: when the
  latest search block points into the segment before, recovery stops at that segment's end. And it
  violates `StableIsReadable` after a single crash (`SearchOffset` 7, `DevSize` 48): `load_stable_commit` starts at the commit of the most recent search
  block (`lstore.c:952`), and never looks whether those before it were written, which complete in any order. The comment
  at `lstore.c:931` promises the last written *stable* commit, and the one at `lstore.c:129` says that this is one that finished in order. `lstore_crash`
  therefore has one segment, `lstore_live`, which has several, no crash, and the theorems say `OneCrash`.
* The daemon of `Devd` can die of each of the following, and `sched.dead` names it: a task that was
  freed is woken (`freed`); a socket is put on the list after the destroying task is gone
  (`null`); a canceled sender goes round without sleeping until no sqe is left (`sqe`); a reply
  to a peer that has gone fails (`gone`, marked as unfinished in `proc.c`); an op completes into a wait
  that its task has left (`waiter`); a send or a receive ends short, which is a `BUG_ON` (`short`);
  and at exit a message arrives after `recv_fn` is cleared (`recv_fn`), or a request uses the
  locks or the log store after they are freed (`rlock`, `lstore`). It is never destroyed twice
  (`twice`) and no task destroys itself (`self`). The properties of `net` speak of the states before such an end.
* Not all sockets are freed at exit, which the comment at `net.c:160` hopes for: the destroying task may end
  with sockets on its list. `ListsExact` says that they are on a list, and which.

## 6. Abstractions to know of

* `RLock`: connections do not fail (a failed send of a grant or revoke is a `BUG_ON`).
* `LStore`: the device keeps what it completed (no volatile cache); a full device (`BUG_ON`) is not
  reached; the merging of adjacent iovecs, which depends on where the heap puts pages, is left out.
* `BTreeBlock`: one size of values; leaves and parents are alike, so a value stands for a reference too.
* `Net`, `Devd`: allocations do not fail; an address connects once (`net.c:516` refuses a
  second socket); `get_peer_sock` on an empty tree reads an uninitialised `sock`, taken for NULL; `net_connect`
  has no caller and SIGUSR1 only prints, so both are left out. Peers and requests are numbered as they come.
  What a message's task does is abstracted to its sleeps and its reply.
* `HashTable`: the hash is any of a set of functions, as the seed is random; objects are in the tables and not in
  memory, so `htable_destroy` in the middle of a migration freeing a table twice (`hash_table.c:391`, `404`) does not show.
* `TraceRing`: memory is in cells, an argument in one; the program does not stop within
  `dtracef_get_event`; the clock does not go back; the end of the headers is taken to be where the ring's first
  page begins; how arguments are formatted is left out.
* `BTree`: each commit holds one operation, which allocates the most; values, the layout
  within a block and read errors are left out.
* `BlkCache`: the receiving task is left out, so a new task appears where completions do;
  the sleep for a reservation with a ticket held is not a step of its own; `blk_change_key` and
  `BGF_NEW` of a block being read have no caller and are left out.

## 7. Not modelled

The CLI's table of subcommands, options, parsing, logging and the crash handler keep no state that a step of
another actor can disturb. The kernel library under `shared/lk/` is vendored; its
lists, trees and hashes are sequences, sets and functions here. The switch of stacks is below the level of
these models. Some of the hazards of parts that are modelled are outside of the abstraction chosen:

* `rlock.c:437`: a request for a mode below SH_RD is refused but goes on with no lists (`RequestModes` excludes it).
* `rlock.c:354`: a failed send of a grant or a revoke ends the daemon, and connections of `RLock` do not fail.
* `lstore.c:410`: where two pages of a commit happen to be adjacent their iovecs are merged, the count no longer
  matches, and the failed write ends the daemon: to the device that is a `Crash` before the write.
* `lstore.c:434`: writes are not followed by a flush of the device's cache.
* `lstore.c:317`: the room for a search block; it takes a tree that splits at every level in that commit.
* `utask.c:578`: `ring_initialized` is set only for a positive result.
* `dtracef.c:84`: a stop within `dtracef_get_event`; `dtracef.c:254`: `find_oldest` may read the event at the very end of the mapping.

## 8. What is left

All modules of the plan exist, with the proofs of section 4. What would come next:

1. **HashTable**: lemmas about one table (the order of `probe_len` in a run, a free entry ahead of each), stated for
   the position in a run so that the arithmetic modulo the size is in one lemma.
2. **RLock**: the server over connections that fail, as those of `Net` do.
3. **Composition**: LStore over BlkCache's promises (`DirtyUntilStored`, `PinnedStays`), and
   several leaves in LStore's tree, so that the search block's room in a reservation matters.
