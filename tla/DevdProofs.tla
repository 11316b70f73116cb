----------------------------- MODULE DevdProofs -----------------------------
(***************************************************************************)
(* Proofs about Devd, for any number of peers, requests and signals: the   *)
(* invariants the runs check, and that no stack is freed under an op of    *)
(* the kernel, follow from the inductive invariant DevdInv.                *)
(***************************************************************************)
EXTENDS Devd, SeqFacts

-----------------------------------------------------------------------------
(* The inductive invariant.                                                *)

\* Where a task may sleep, and what may kill the program.
Places == {"start", "load", "up", "net_exit", "sigcb_free", "read", "accept", "idle", "send", "hdr", "body",
           "cancel", "tasks", "lstore"}
Ends == {"no", "freed", "self", "twice", "null", "sqe", "short", "gone", "recv_fn", "rlock", "lstore", "waiter"}

\* The values of a flag, under a name that the provers leave alone.
Bits == BOOLEAN

TaskRecord ==
    [st: {"none", "live", "finished", "freed"}, at: Places, canceled: BOOLEAN,
     destroy_at_finish: Bits, destroyer: AllTasks \union {None}]

Schedulers == [run_list: Seq(AllTasks), dead: Ends, task: [AllTasks -> TaskRecord]]

\* The scheduler.  A task that waits to run is live, the one that destroys
\* another exists, and a task of a connection is canceled by its destroyer.
SchedInv(s) ==
    /\ s \in Schedulers
    /\ IsInjective(s.run_list)
    /\ \A t \in ToSet(s.run_list) : s.task[t].st = "live"
    /\ \A t \in AllTasks : s.task[t].destroyer # None => s.task[s.task[t].destroyer].st # "none"
    /\ \A t \in NetTask : s.task[t].canceled => s.task[t].destroyer # None

Ops == {"none", "prep", "busy", "ok", "zero", "short", "err"}

TypeInv ==
    /\ phase \in {"run", "wait", "seen", "ended"}
    /\ op \in [AllTasks -> Ops]
    /\ sockets_list \in Seq(Sock) /\ destroy_list \in Seq(Sock)
    /\ sk \in [Sock -> [st: {"none", "open", "shut", "freed"}, queue: Seq(Nat)]]
    /\ recv_fn \in BOOLEAN /\ destroy_tsk \in BOOLEAN
    /\ closed \subseteq Peer
    /\ sent \in [Peer -> Nat]

ListInv ==
    /\ IsInjective(sockets_list \o destroy_list)
    /\ ToSet(sockets_list \o destroy_list) = Allocated
    /\ peer_root = Allocated \ {Listener}
    /\ closed \subseteq peer_root \union {p \in Peer : sk[p].st = "freed"}

\* A socket that is or was in use has, or had, its tasks; they end before it.
OwnerInv ==
    \A t \in NetTask :
        /\ sk[SockOf(t)].st # "none" => sched.task[t].st # "none"
        /\ sched.task[t].st = "live" => SockOf(t) \in Allocated

\* What main_utask has started where it stands.
MainInv ==
    /\ sched.task[Main].st # "none"
    /\ sched.task[Main].at = "start" => sched.task[SigRead].st = "none"
    /\ sched.task[Main].at # "start" => sched.task[SigRead].st # "none"
    /\ sched.task[Main].at \in {"start", "load"} =>
         /\ \A x \in Sock : sk[x].st = "none"
         /\ sched.task[Destroyer].st = "none"
    /\ sched.task[Main].at = "up" \/ destroy_tsk => sched.task[Destroyer].st # "none"

\* What free_sock may have left to destroy of x while it sleeps.
LeftOf(x) == IF x = Listener THEN {<<Accept>>} ELSE {<<Send(x), Recv(x)>>, <<Recv(x)>>}

\* free_sock is at a socket: it is shut, it and the next are on the list, and
\* its tasks are those that are left, but for those that have ended.
Walking ==
    /\ walk \in [sock: Sock, tmp: Sock \union {None}, left: Seq(NetTask)]
    /\ walk.sock \in ToSet(destroy_list)
    /\ walk.tmp \in (ToSet(destroy_list) \ {walk.sock}) \union {None}
    /\ sk[walk.sock].st = "shut"
    /\ walk.left \in LeftOf(walk.sock)
    /\ \A t \in NetTask : SockOf(t) = walk.sock /\ sched.task[t].st = "live" => t \in ToSet(walk.left)

WalkInv ==
    /\ walk = NoWalk \/ Walking
    /\ sched.task[Destroyer].at \in {"cancel", "tasks"} /\ sched.task[Destroyer].st = "live" => Walking

\* send_utask has an op only where it sleeps for it, and it is for an entry.
SendInv ==
    \A p \in Peer : op[Send(p)] # "none" =>
        sched.task[Send(p)].st = "live" /\ sched.task[Send(p)].at = "send" /\ sk[p].queue # <<>>

\* How many messages are no longer in the queue.
Gone(p) == Len(taken[p]) - IF op[Send(p)] = "ok" THEN 1 ELSE 0

QueueInv ==
    \A p \in Peer :
        /\ sk[p].st = "none" => sent[p] = 0 /\ taken[p] = <<>>
        /\ p \in Allocated =>
             /\ Gone(p) + Len(sk[p].queue) = sent[p]
             /\ \A i \in 1 .. Len(sk[p].queue) : sk[p].queue[i] = Gone(p) + i

\* What a connection took is what was sent, in that order.
TakenInv == taken \in [Peer -> Seq(Nat)] /\ \A p \in Peer : \A i \in 1 .. Len(taken[p]) : taken[p][i] = i

\* The ops of a socket that is shut end with the cancel at the latest.
BusyInv ==
    /\ phase = "run" => \A t \in NetTask : op[t] = "busy" /\ sk[SockOf(t)].st # "open" => op[Destroyer] = "prep"
    /\ sched.task[Destroyer].at = "tasks" => op[Destroyer] = "none"

AliveInv ==
    SchedInv(sched) /\ TypeInv /\ ListInv /\ OwnerInv /\ MainInv /\ WalkInv /\ SendInv /\ QueueInv /\ BusyInv

DevdInv == TakenInv /\ (Alive => AliveInv)

-----------------------------------------------------------------------------
(* The names of the tasks.                                                 *)

LEMMA Names ==
    /\ {Main, Destroyer, SigRead, Accept} \subseteq AllTasks
    /\ NetTask \subseteq AllTasks
    /\ Accept \in NetTask
    /\ \A p \in Peer : {Send(p), Recv(p)} \subseteq NetTask
    /\ \A r \in Request : Req(r) \in AllTasks \ (NetTask \union {Main, Destroyer, SigRead})
    /\ {Main, Destroyer, SigRead} \intersect NetTask = {}
    /\ Main # Destroyer /\ Main # SigRead /\ Destroyer # SigRead
BY DEF Main, Destroyer, SigRead, Accept, Send, Recv, Req, NetTask, AllTasks

\* The tasks of the connections and their sockets.
LEMMA NetNames ==
    /\ SockOf(Accept) = Listener
    /\ \A p \in Peer : SockOf(Send(p)) = p /\ SockOf(Recv(p)) = p
    /\ \A t \in NetTask : SockOf(t) \in Sock /\ SockOf(t) # None
    /\ \A t \in NetTask : t = Accept \/ \E p \in Peer : t \in {Send(p), Recv(p)}
    /\ \A p, q \in Peer : Send(p) # Recv(q) /\ Send(p) # Accept /\ Recv(p) # Accept
    /\ \A p, q \in Peer : p # q => Send(p) # Send(q) /\ Recv(p) # Recv(q)
<1>1. \A p \in Peer : p \in Sock
  BY DEF Sock
<1>2. Listener \in Sock /\ None \notin Sock
  BY NoneAssumption DEF Sock
<1>3. SockOf(Accept) = Listener
  BY DEF SockOf, Accept
<1>4. \A p \in Peer : SockOf(Send(p)) = p /\ SockOf(Recv(p)) = p
  BY DEF SockOf, Send, Recv
<1>5. \A t \in NetTask : t = Accept \/ \E p \in Peer : t \in {Send(p), Recv(p)}
  BY DEF NetTask
<1>6. \A p, q \in Peer : Send(p) # Recv(q) /\ Send(p) # Accept /\ Recv(p) # Accept
  BY DEF Send, Recv, Accept
<1>7. \A p, q \in Peer : p # q => Send(p) # Send(q) /\ Recv(p) # Recv(q)
  BY <1>4
<1>8. \A t \in NetTask : SockOf(t) \in Sock
  BY <1>1, <1>2, <1>3, <1>4, <1>5
<1> QED BY <1>2, <1>3, <1>4, <1>5, <1>6, <1>7, <1>8

\* The listening socket is none of a peer.
LEMMA SockNames ==
    Sock = Peer \union {Listener} /\ Listener \notin Peer /\ Listener \in Sock /\ None \notin Sock
BY NoneAssumption DEF Sock, Peer, Listener

-----------------------------------------------------------------------------
(* The operators of the scheduler keep SchedInv.                           *)

\* The tasks outside of T stay where they are.
OthersStay(s, r, T) ==
    \A u \in AllTasks \ T : r.task[u].st = s.task[u].st /\ r.task[u].at = s.task[u].at

\* What SchedInv says of the record of a task.
LEMMA SchedType ==
    ASSUME NEW s, SchedInv(s)
    PROVE  s \in Schedulers
BY DEF SchedInv

LEMMA TaskFields ==
    ASSUME NEW s, SchedInv(s)
    PROVE  /\ s.task \in [AllTasks -> TaskRecord] /\ s.run_list \in Seq(AllTasks)
           /\ \A t \in AllTasks :
                /\ s.task[t].st \in {"none", "live", "finished", "freed"}
                /\ s.task[t].at \in Places
                /\ s.task[t].canceled \in BOOLEAN
                /\ s.task[t].destroy_at_finish \in Bits
                /\ s.task[t].destroyer \in AllTasks \union {None}
BY SchedType DEF Schedulers, TaskRecord

\* A task that is not live does not wait to run.
LEMMA OffList ==
    ASSUME NEW s, SchedInv(s), NEW t \in AllTasks, s.task[t].st # "live"
    PROVE  t \notin ToSet(s.run_list)
BY DEF SchedInv

\* Two schedulers differ in what killed the program.
LEMMA DeadKeeps ==
    ASSUME NEW s, SchedInv(s), NEW why \in Ends
    PROVE  /\ SchedInv(Dead(s, why))
           /\ Dead(s, why).task = s.task
           /\ Dead(s, why).run_list = s.run_list
           /\ why # "no" => Dead(s, why).dead # "no"
<1> DEFINE r == Dead(s, why)
<1>1. s \in Schedulers
  BY SchedType
<1>2. r = [s EXCEPT !.dead = IF @ = "no" THEN why ELSE @]
  BY DEF Dead
<1>3. /\ r \in Schedulers
      /\ r.task = s.task /\ r.run_list = s.run_list
      /\ why # "no" => r.dead # "no"
  BY <1>1, <1>2 DEF Schedulers
<1> HIDE DEF r
<1>4. SchedInv(r)
  BY <1>3 DEF SchedInv
<1> QED BY <1>3, <1>4 DEF r

\* utask_wake_task
LEMMA WakeKeeps ==
    ASSUME NEW s, SchedInv(s), NEW t \in AllTasks, s.task[t].st # "none"
    PROVE  /\ SchedInv(Wake(s, t))
           /\ Wake(s, t).task = s.task
           /\ ToSet(Wake(s, t).run_list) \subseteq ToSet(s.run_list) \union {t}
           /\ Wake(s, t).dead = "no" => s.dead = "no" /\ s.task[t].st # "freed"
<1> DEFINE r == [s EXCEPT !.run_list = Append(@, t)]
<1>1. s \in Schedulers
  BY SchedType
<1>2. CASE s.task[t].st = "freed"
  <2>1. Wake(s, t) = Dead(s, "freed")
    BY <1>2 DEF Wake
  <2>2. SchedInv(Dead(s, "freed")) /\ Dead(s, "freed").task = s.task
        /\ Dead(s, "freed").run_list = s.run_list /\ Dead(s, "freed").dead # "no"
    <3>1. "freed" \in Ends /\ "freed" # "no"
      BY DEF Ends
    <3> QED BY <3>1, DeadKeeps
  <2> QED BY <2>1, <2>2
<1>3. CASE s.task[t].st # "freed" /\ (s.task[t].st = "finished" \/ Contains(s.run_list, t))
  <2>1. Wake(s, t) = s
    BY <1>3 DEF Wake
  <2> QED BY <1>3, <2>1
<1>4. CASE s.task[t].st \notin {"freed", "finished"} /\ ~Contains(s.run_list, t)
  <2>1. Wake(s, t) = r
    BY <1>4 DEF Wake
  <2>2. s.run_list \in Seq(AllTasks) /\ IsInjective(s.run_list)
    BY TaskFields DEF SchedInv
  <2>3. t \notin ToSet(s.run_list)
    BY <1>4, <2>2 DEF Contains, ToSet
  <2>4. /\ Append(s.run_list, t) \in Seq(AllTasks)
        /\ ToSet(Append(s.run_list, t)) = ToSet(s.run_list) \union {t}
        /\ IsInjective(Append(s.run_list, t))
    BY <2>2, <2>3, AppendElements
  <2>5. /\ r \in Schedulers
        /\ r.task = s.task /\ r.run_list = Append(s.run_list, t) /\ r.dead = s.dead
    BY <1>1, <2>4 DEF Schedulers
  <2>6. s.task[t].st = "live"
    BY <1>4, TaskFields
  <2> HIDE DEF r
  <2>7. \A u \in ToSet(r.run_list) : r.task[u].st = "live"
    <3>1. \A u \in ToSet(s.run_list) : s.task[u].st = "live"
      BY DEF SchedInv
    <3> QED BY <2>4, <2>5, <2>6, <3>1
  <2>8. SchedInv(r)
    <3>1. /\ \A u \in AllTasks : r.task[u].destroyer # None => r.task[r.task[u].destroyer].st # "none"
          /\ \A u \in NetTask : r.task[u].canceled => r.task[u].destroyer # None
      BY <2>5 DEF SchedInv
    <3> QED BY <2>4, <2>5, <2>7, <3>1 DEF SchedInv
  <2> QED BY <1>4, <2>1, <2>4, <2>5, <2>8
<1> QED BY <1>2, <1>3, <1>4

\* A step that changes the record of one task keeps the invariant.
LEMMA RecordKeeps ==
    ASSUME NEW s, SchedInv(s), NEW t \in AllTasks, NEW rec \in TaskRecord,
           rec.st = "live" \/ t \notin ToSet(s.run_list),
           rec.st # "none" \/ s.task[t].st = "none",
           rec.destroyer # None => s.task[rec.destroyer].st # "none",
           t \in NetTask /\ rec.canceled => rec.destroyer # None
    PROVE  SchedInv([s EXCEPT !.task[t] = rec])
<1> DEFINE r == [s EXCEPT !.task[t] = rec]
<1>1. s \in Schedulers
  BY SchedType
<1>2. /\ r \in Schedulers
      /\ r.run_list = s.run_list
      /\ r.task[t] = rec /\ \A u \in AllTasks \ {t} : r.task[u] = s.task[u]
  BY <1>1 DEF Schedulers
<1> HIDE DEF r
<1>3. IsInjective(r.run_list)
  BY <1>2 DEF SchedInv
<1>4. \A u \in ToSet(r.run_list) : r.task[u].st = "live"
  <2>1. \A u \in ToSet(s.run_list) : s.task[u].st = "live" /\ u \in AllTasks
    BY TaskFields DEF SchedInv, ToSet
  <2> QED BY <1>2, <2>1
<1>5. \A u \in AllTasks : s.task[u].st # "none" => r.task[u].st # "none"
  BY <1>2
<1>6. ASSUME NEW u \in AllTasks, r.task[u].destroyer # None PROVE r.task[r.task[u].destroyer].st # "none"
  <2>1. CASE u = t
    <3>1. rec.destroyer \in AllTasks
      BY <1>2, <1>6, <2>1 DEF TaskRecord
    <3> QED BY <1>2, <1>5, <1>6, <2>1, <3>1
  <2>2. CASE u # t
    <3>1. r.task[u] = s.task[u] /\ s.task[u].destroyer \in AllTasks
      BY <1>2, <1>6, <2>2, TaskFields
    <3>2. s.task[s.task[u].destroyer].st # "none"
      BY <1>6, <3>1 DEF SchedInv
    <3> QED BY <1>5, <3>1, <3>2
  <2> QED BY <2>1, <2>2
<1>7. \A u \in NetTask : r.task[u].canceled => r.task[u].destroyer # None
  <2>1. \A u \in NetTask : s.task[u].canceled => s.task[u].destroyer # None
    BY DEF SchedInv
  <2>2. NetTask \subseteq AllTasks
    BY Names
  <2> QED BY <1>2, <2>1, <2>2
<1>8. SchedInv(r)
  BY <1>2, <1>3, <1>4, <1>6, <1>7 DEF SchedInv
<1> QED BY <1>8 DEF r

\* utask_schedule
LEMMA SleepKeeps ==
    ASSUME NEW s, SchedInv(s), NEW t \in AllTasks, NEW at \in Places
    PROVE  /\ SchedInv(Sleep(s, t, at))
           /\ OthersStay(s, Sleep(s, t, at), {t})
           /\ \A u \in AllTasks : Sleep(s, t, at).task[u].st = s.task[u].st
           /\ Sleep(s, t, at).task[t].at = at
           /\ Sleep(s, t, at).dead = s.dead
           /\ Sleep(s, t, at).run_list = s.run_list
<1> DEFINE rec == [s.task[t] EXCEPT !.at = at]
           r == Sleep(s, t, at)
<1>1. s.task[t] \in TaskRecord
  BY TaskFields
<1>2. /\ rec \in TaskRecord
      /\ rec.at = at /\ rec.st = s.task[t].st
      /\ rec.canceled = s.task[t].canceled /\ rec.destroyer = s.task[t].destroyer
  BY <1>1 DEF TaskRecord
<1>3. r = [s EXCEPT !.task[t] = rec]
  BY DEF Sleep
<1> HIDE DEF r, rec
<1>4. rec.st = "live" \/ t \notin ToSet(s.run_list)
  BY <1>2, OffList
<1>5. rec.st # "none" \/ s.task[t].st = "none"
  BY <1>2
<1>6. rec.destroyer # None => s.task[rec.destroyer].st # "none"
  BY <1>2 DEF SchedInv
<1>7. t \in NetTask /\ rec.canceled => rec.destroyer # None
  BY <1>2 DEF SchedInv
<1>8. SchedInv(r)
  BY <1>2, <1>3, <1>4, <1>5, <1>6, <1>7, RecordKeeps
<1>9. /\ r.run_list = s.run_list /\ r.dead = s.dead
      /\ r.task[t] = rec
      /\ \A u \in AllTasks \ {t} : r.task[u] = s.task[u]
  BY <1>3, SchedType DEF Schedulers
<1>10. OthersStay(s, r, {t})
  BY <1>9 DEF OthersStay
<1> QED BY <1>2, <1>8, <1>9, <1>10 DEF r

LEMMA Sleeps ==
    ASSUME NEW s, SchedInv(s), NEW t \in AllTasks, NEW at \in Places, NEW r, r = Sleep(s, t, at)
    PROVE  /\ SchedInv(r) /\ OthersStay(s, r, {t})
           /\ (\A u \in AllTasks : r.task[u].st = s.task[u].st) /\ r.task[t].at = at
BY SleepKeeps

\* utask_create, nowake: the memory is that of no live task.
LEMMA CreatedKeeps ==
    ASSUME NEW s, SchedInv(s), NEW t \in AllTasks, NEW at \in Places, NEW b \in Bits
    PROVE  /\ SchedInv(Created(s, t, at, b))
           /\ \A u \in AllTasks \ {t} : Created(s, t, at, b).task[u] = s.task[u]
           /\ Created(s, t, at, b).task[t].st = "live"
           /\ Created(s, t, at, b).task[t].at = at
           /\ Created(s, t, at, b).dead = s.dead
           /\ Created(s, t, at, b).run_list = s.run_list
<1> DEFINE rec == [NoTask EXCEPT !.st = "live", !.at = at, !.destroy_at_finish = b]
           r == Created(s, t, at, b)
<1>2. /\ rec \in TaskRecord
      /\ rec.at = at /\ rec.st = "live"
      /\ rec.canceled = FALSE /\ rec.destroyer = None
  BY DEF TaskRecord, NoTask
<1>3. r = [s EXCEPT !.task[t] = rec]
  BY DEF Created
<1> HIDE DEF r, rec
<1>8. SchedInv(r)
  BY <1>2, <1>3, RecordKeeps
<1>9. /\ r.run_list = s.run_list /\ r.dead = s.dead
      /\ r.task[t] = rec
      /\ \A u \in AllTasks \ {t} : r.task[u] = s.task[u]
  BY <1>3, SchedType DEF Schedulers
<1> QED BY <1>2, <1>8, <1>9 DEF r

\* The bit that a new task finds in its memory is a bit.
LEMMA BitInMemory ==
    ASSUME NEW s, SchedInv(s)
    PROVE  LeftInMemory(s) \subseteq Bits
<1>1. s.task \in [AllTasks -> TaskRecord]
  BY TaskFields
<1>2. \A t \in AllTasks : s.task[t].destroy_at_finish \in Bits
  BY TaskFields
<1>3. DOMAIN s.task = AllTasks
  BY <1>1
<1>4. FALSE \in Bits
  BY DEF Bits
<1> QED BY <1>2, <1>3, <1>4 DEF LeftInMemory

\* utask_create
LEMMA StartedKeeps ==
    ASSUME NEW s, SchedInv(s), NEW t \in AllTasks, NEW b \in Bits
    PROVE  /\ SchedInv(Started(s, t, b))
           /\ \A u \in AllTasks \ {t} : Started(s, t, b).task[u] = s.task[u]
           /\ Started(s, t, b).task[t].st = "live"
           /\ Started(s, t, b).task[t].at = "start"
           /\ Started(s, t, b).dead = "no" => s.dead = "no"
           /\ ToSet(Started(s, t, b).run_list) \subseteq ToSet(s.run_list) \union {t}
<1> DEFINE c == Created(s, t, "start", b)
<1>1. "start" \in Places
  BY DEF Places
<1>2. SchedInv(c) /\ (\A u \in AllTasks \ {t} : c.task[u] = s.task[u]) /\ c.task[t].st = "live"
      /\ c.task[t].at = "start" /\ c.dead = s.dead /\ c.run_list = s.run_list
  BY <1>1, CreatedKeeps
<1>3. Started(s, t, b) = Wake(c, t)
  BY DEF Started
<1> HIDE DEF c
<1>4. /\ SchedInv(Wake(c, t))
      /\ Wake(c, t).task = c.task
      /\ ToSet(Wake(c, t).run_list) \subseteq ToSet(c.run_list) \union {t}
      /\ Wake(c, t).dead = "no" => c.dead = "no"
  BY <1>2, WakeKeeps
<1> QED BY <1>2, <1>3, <1>4

\* utask_cancel of a task that is not one of a connection
LEMMA CancelKeeps ==
    ASSUME NEW s, SchedInv(s), NEW t \in AllTasks \ NetTask, s.task[t].st # "none"
    PROVE  /\ SchedInv(Cancel(s, t))
           /\ \A u \in AllTasks \ {t} : Cancel(s, t).task[u] = s.task[u]
           /\ OthersStay(s, Cancel(s, t), {})
           /\ Cancel(s, t).dead = "no" => s.dead = "no"
           /\ ToSet(Cancel(s, t).run_list) \subseteq ToSet(s.run_list) \union {t}
<1>1. CASE s.task[t].canceled
  <2>1. Cancel(s, t) = s
    BY <1>1 DEF Cancel
  <2> QED BY <2>1 DEF OthersStay
<1>2. CASE ~s.task[t].canceled
  <2> DEFINE rec == [s.task[t] EXCEPT !.canceled = TRUE]
             r == [s EXCEPT !.task[t] = rec]
  <2>1. s.task[t] \in TaskRecord
    BY TaskFields
  <2>2. /\ rec \in TaskRecord
        /\ rec.at = s.task[t].at /\ rec.st = s.task[t].st
        /\ rec.destroyer = s.task[t].destroyer
    BY <2>1 DEF TaskRecord
  <2>3. Cancel(s, t) = Wake(r, t)
    BY <1>2 DEF Cancel
  <2> HIDE DEF rec
  <2>4. r = [s EXCEPT !.task[t] = rec]
    OBVIOUS
  <2> HIDE DEF r
  <2>5. rec.st = "live" \/ t \notin ToSet(s.run_list)
    BY <2>2, OffList
  <2>6. rec.destroyer # None => s.task[rec.destroyer].st # "none"
    BY <2>2 DEF SchedInv
  <2>7. SchedInv(r)
    BY <2>2, <2>4, <2>5, <2>6, RecordKeeps
  <2>8. /\ r.run_list = s.run_list /\ r.dead = s.dead
        /\ r.task[t] = rec
        /\ \A u \in AllTasks \ {t} : r.task[u] = s.task[u]
    BY <2>4, SchedType DEF Schedulers
  <2>9. r.task[t].st # "none"
    BY <2>2, <2>8
  <2>10. /\ SchedInv(Wake(r, t))
         /\ Wake(r, t).task = r.task
         /\ ToSet(Wake(r, t).run_list) \subseteq ToSet(r.run_list) \union {t}
         /\ Wake(r, t).dead = "no" => r.dead = "no"
    BY <2>7, <2>9, WakeKeeps
  <2>11. OthersStay(s, Wake(r, t), {})
    BY <2>2, <2>8, <2>10 DEF OthersStay
  <2> QED BY <2>3, <2>8, <2>10, <2>11
<1> QED BY <1>1, <1>2

\* utask_destroy of a task that is not finished
LEMMA DestroyStartKeeps ==
    ASSUME NEW s, SchedInv(s), NEW t \in AllTasks, NEW by \in AllTasks,
           s.task[t].st # "none", s.task[by].st # "none"
    PROVE  /\ SchedInv(DestroyStart(s, t, by))
           /\ OthersStay(s, DestroyStart(s, t, by), {})
           /\ DestroyStart(s, t, by).dead = "no" => s.dead = "no"
           /\ ToSet(DestroyStart(s, t, by).run_list) \subseteq ToSet(s.run_list) \union {t}
<1>0. {"self", "twice"} \subseteq Ends
  BY DEF Ends
<1>1. CASE t = by
  <2>1. DestroyStart(s, t, by) = Dead(s, "self")
    BY <1>1 DEF DestroyStart
  <2>2. SchedInv(Dead(s, "self")) /\ Dead(s, "self").task = s.task
        /\ Dead(s, "self").run_list = s.run_list /\ Dead(s, "self").dead # "no"
    BY <1>0, DeadKeeps
  <2> QED BY <2>1, <2>2 DEF OthersStay
<1>2. CASE t # by /\ s.task[t].destroyer # None
  <2>1. DestroyStart(s, t, by) = Dead(s, "twice")
    BY <1>2 DEF DestroyStart
  <2>2. SchedInv(Dead(s, "twice")) /\ Dead(s, "twice").task = s.task
        /\ Dead(s, "twice").run_list = s.run_list /\ Dead(s, "twice").dead # "no"
    BY <1>0, DeadKeeps
  <2> QED BY <2>1, <2>2 DEF OthersStay
<1>3. CASE t # by /\ s.task[t].destroyer = None
  <2> DEFINE rec == [s.task[t] EXCEPT !.canceled = TRUE, !.destroyer = by]
             r == [s EXCEPT !.task[t] = rec]
  <2>1. s.task[t] \in TaskRecord
    BY TaskFields
  <2>2. /\ rec \in TaskRecord
        /\ rec.at = s.task[t].at /\ rec.st = s.task[t].st
        /\ rec.destroyer = by
    BY <2>1 DEF TaskRecord
  <2>3. DestroyStart(s, t, by) = r \/ DestroyStart(s, t, by) = Wake(r, t)
    <3>1. DestroyStart(s, t, by) = [Cancel(s, t) EXCEPT !.task[t].destroyer = by]
      BY <1>3 DEF DestroyStart
    <3>2. s \in Schedulers
      BY SchedType
    <3>3. CASE s.task[t].canceled
      <4>1. Cancel(s, t) = s
        BY <3>3 DEF Cancel
      <4>2. [s.task[t] EXCEPT !.destroyer = by] = rec
        BY <2>1, <3>3 DEF TaskRecord
      <4> QED BY <3>1, <4>1, <4>2
    <3>4. CASE ~s.task[t].canceled
      <4> DEFINE m == [s.task[t] EXCEPT !.canceled = TRUE]
                 c == [s EXCEPT !.task[t] = m]
      <4>1. Cancel(s, t) = Wake(c, t)
        BY <3>4 DEF Cancel
      <4>2. m.st = s.task[t].st /\ [m EXCEPT !.destroyer = by] = rec
        BY <2>1 DEF TaskRecord
      <4>3. c.task[t].st = s.task[t].st /\ r.task[t].st = s.task[t].st
            /\ c.run_list = s.run_list /\ r.run_list = s.run_list
            /\ c.dead = s.dead /\ r.dead = s.dead
        BY <2>2, <3>2, <4>2 DEF Schedulers
      <4>4. [c EXCEPT !.task[t].destroyer = by] = r
        BY <3>2, <4>2 DEF Schedulers
      <4>5. [[c EXCEPT !.run_list = Append(@, t)] EXCEPT !.task[t].destroyer = by] = [r EXCEPT !.run_list = Append(@, t)]
        BY <3>2, <4>2 DEF Schedulers
      <4>6. [[c EXCEPT !.dead = IF @ = "no" THEN "freed" ELSE @] EXCEPT !.task[t].destroyer = by]
              = [r EXCEPT !.dead = IF @ = "no" THEN "freed" ELSE @]
        BY <3>2, <4>2 DEF Schedulers
      <4> HIDE DEF c, r, m, rec
      <4>7. [Wake(c, t) EXCEPT !.task[t].destroyer = by] = Wake(r, t)
        BY <4>3, <4>4, <4>5, <4>6 DEF Wake, Dead
      <4> QED BY <3>1, <4>1, <4>7
    <3> QED BY <3>3, <3>4
  <2> HIDE DEF rec
  <2>4. r = [s EXCEPT !.task[t] = rec]
    OBVIOUS
  <2> HIDE DEF r
  <2>5. rec.st = "live" \/ t \notin ToSet(s.run_list)
    BY <2>2, OffList
  <2>6. by # None /\ s.task[by].st # "none"
    BY NoneAssumption
  <2>7. SchedInv(r)
    BY <2>2, <2>4, <2>5, <2>6, RecordKeeps
  <2>8. /\ r.run_list = s.run_list /\ r.dead = s.dead
        /\ r.task[t] = rec
        /\ \A u \in AllTasks \ {t} : r.task[u] = s.task[u]
    BY <2>4, SchedType DEF Schedulers
  <2>9. r.task[t].st # "none"
    BY <2>2, <2>8
  <2>10. /\ SchedInv(Wake(r, t))
         /\ Wake(r, t).task = r.task
         /\ ToSet(Wake(r, t).run_list) \subseteq ToSet(r.run_list) \union {t}
         /\ Wake(r, t).dead = "no" => r.dead = "no"
    BY <2>7, <2>9, WakeKeeps
  <2>11. OthersStay(s, Wake(r, t), {}) /\ OthersStay(s, r, {})
    BY <2>2, <2>8, <2>10 DEF OthersStay
  <2> QED BY <2>3, <2>7, <2>8, <2>10, <2>11
<1> QED BY <1>1, <1>2, <1>3

\* utask_destroy of a task that is finished
LEMMA FreeKeeps ==
    ASSUME NEW s, SchedInv(s), NEW t \in AllTasks
    PROVE  /\ SchedInv(Free(s, t))
           /\ \A u \in AllTasks \ {t} : Free(s, t).task[u] = s.task[u]
           /\ Free(s, t).task[t].st = "freed" /\ Free(s, t).task[t].at = s.task[t].at
           /\ Free(s, t).dead = "no" => s.dead = "no"
           /\ ToSet(Free(s, t).run_list) \subseteq ToSet(s.run_list)
<1>0. "freed" \in Ends
  BY DEF Ends
<1>1. CASE s.task[t].st = "freed"
  <2>1. Free(s, t) = Dead(s, "freed")
    BY <1>1 DEF Free
  <2>2. SchedInv(Dead(s, "freed")) /\ Dead(s, "freed").task = s.task
        /\ Dead(s, "freed").run_list = s.run_list /\ Dead(s, "freed").dead # "no"
    BY <1>0, DeadKeeps
  <2> QED BY <1>1, <2>1, <2>2
<1>2. CASE s.task[t].st # "freed"
  <2> DEFINE q == Unlinked(s.run_list, t)
             m == [s EXCEPT !.run_list = q]
             rec == [s.task[t] EXCEPT !.st = "freed"]
             r == Free(s, t)
  <2>1. s.task[t] \in TaskRecord /\ s.run_list \in Seq(AllTasks) /\ IsInjective(s.run_list)
    BY TaskFields DEF SchedInv
  <2>2. q \in Seq(AllTasks) /\ ToSet(q) = ToSet(s.run_list) \ {t} /\ IsInjective(q)
    BY <2>1, WithoutElements DEF Unlinked
  <2>3. s \in Schedulers
    BY SchedType
  <2>4. rec \in TaskRecord /\ rec.st = "freed" /\ rec.at = s.task[t].at
        /\ rec.destroyer = s.task[t].destroyer /\ rec.canceled = s.task[t].canceled
    BY <2>1 DEF TaskRecord
  <2>5. r = [s EXCEPT !.run_list = q, !.task[t].st = "freed"]
    BY <1>2 DEF Free
  <2> HIDE DEF r, q
  <2>6. r = [m EXCEPT !.task[t] = rec]
    BY <2>3, <2>5 DEF Schedulers
  <2>7. m \in Schedulers /\ m.run_list = q /\ m.dead = s.dead /\ m.task = s.task
    BY <2>2, <2>3 DEF Schedulers
  <2> HIDE DEF m, rec
  <2>8. SchedInv(m)
    <3>1. \A u \in ToSet(m.run_list) : m.task[u].st = "live"
      BY <2>2, <2>7 DEF SchedInv
    <3>2. /\ \A u \in AllTasks : m.task[u].destroyer # None => m.task[m.task[u].destroyer].st # "none"
          /\ \A u \in NetTask : m.task[u].canceled => m.task[u].destroyer # None
      BY <2>7 DEF SchedInv
    <3> QED BY <2>2, <2>7, <3>1, <3>2 DEF SchedInv
  <2>9. t \notin ToSet(m.run_list) /\ rec.st # "none"
    BY <2>2, <2>4, <2>7
  <2>10. rec.destroyer # None => m.task[rec.destroyer].st # "none"
    BY <2>4, <2>7 DEF SchedInv
  <2>11. t \in NetTask /\ rec.canceled => rec.destroyer # None
    BY <2>4 DEF SchedInv
  <2>12. SchedInv(r)
    BY <2>4, <2>6, <2>8, <2>9, <2>10, <2>11, RecordKeeps
  <2>13. r.run_list = q /\ r.dead = s.dead /\ r.task[t] = rec /\ \A u \in AllTasks \ {t} : r.task[u] = s.task[u]
    BY <2>6, <2>7 DEF Schedulers
  <2> QED BY <2>2, <2>4, <2>12, <2>13 DEF r
<1> QED BY <1>1, <1>2

\* The end of a task's function
LEMMA FinishKeeps ==
    ASSUME NEW s, SchedInv(s), NEW t \in AllTasks, t \notin ToSet(s.run_list)
    PROVE  /\ SchedInv(Finish(s, t))
           /\ \A u \in AllTasks \ {t} : Finish(s, t).task[u] = s.task[u]
           /\ Finish(s, t).task[t].st \in {"finished", "freed"} /\ Finish(s, t).task[t].at = s.task[t].at
           /\ Finish(s, t).task[t].st = "freed" => s.task[t].destroyer = None
           /\ Finish(s, t).dead = "no" => s.dead = "no"
<1> DEFINE rec == [s.task[t] EXCEPT !.st = "finished"]
           f == [s EXCEPT !.task[t].st = "finished"]
<1>1. s.task[t] \in TaskRecord
  BY TaskFields
<1>2. rec \in TaskRecord /\ rec.st = "finished" /\ rec.at = s.task[t].at
      /\ rec.destroyer = s.task[t].destroyer /\ rec.canceled = s.task[t].canceled
  BY <1>1 DEF TaskRecord
<1>3. f = [s EXCEPT !.task[t] = rec]
  OBVIOUS
<1>4. Finish(s, t) = IF f.task[t].destroyer # None THEN Wake(f, f.task[t].destroyer)
                     ELSE IF f.task[t].destroy_at_finish THEN Free(f, t)
                     ELSE f
  BY DEF Finish
<1> HIDE DEF f, rec
<1>5. rec.destroyer # None => s.task[rec.destroyer].st # "none"
  BY <1>2 DEF SchedInv
<1>6. t \in NetTask /\ rec.canceled => rec.destroyer # None
  BY <1>2 DEF SchedInv
<1>7. SchedInv(f)
  BY <1>2, <1>3, <1>5, <1>6, RecordKeeps
<1>8. f.dead = s.dead /\ f.task[t] = rec /\ \A u \in AllTasks \ {t} : f.task[u] = s.task[u]
  BY <1>3, SchedType DEF Schedulers
<1>9. CASE f.task[t].destroyer # None
  <2>1. f.task[t].destroyer \in AllTasks
    BY <1>7, <1>9, TaskFields
  <2>2. f.task[f.task[t].destroyer].st # "none"
    BY <1>7, <1>9 DEF SchedInv
  <2>3. Finish(s, t) = Wake(f, f.task[t].destroyer)
    BY <1>4, <1>9
  <2>4. /\ SchedInv(Wake(f, f.task[t].destroyer))
        /\ Wake(f, f.task[t].destroyer).task = f.task
        /\ Wake(f, f.task[t].destroyer).dead = "no" => f.dead = "no"
    BY <1>7, <2>1, <2>2, WakeKeeps
  <2> QED BY <1>2, <1>8, <2>3, <2>4
<1>10. CASE f.task[t].destroyer = None /\ f.task[t].destroy_at_finish
  <2>1. Finish(s, t) = Free(f, t)
    BY <1>4, <1>10
  <2>2. /\ SchedInv(Free(f, t))
        /\ \A u \in AllTasks \ {t} : Free(f, t).task[u] = f.task[u]
        /\ Free(f, t).task[t].st = "freed" /\ Free(f, t).task[t].at = f.task[t].at
        /\ Free(f, t).dead = "no" => f.dead = "no"
    BY <1>7, FreeKeeps
  <2> QED BY <1>2, <1>8, <1>10, <2>1, <2>2
<1>11. CASE f.task[t].destroyer = None /\ ~f.task[t].destroy_at_finish
  <2>1. Finish(s, t) = f
    BY <1>4, <1>11
  <2> QED BY <1>2, <1>7, <1>8, <2>1
<1> QED BY <1>9, <1>10, <1>11

\* The switch to the task that runs next
LEMMA SwitchKeeps ==
    ASSUME NEW s, SchedInv(s), NEW t \in AllTasks, Current(s) = t
    PROVE  /\ SchedInv(Switch(s))
           /\ Switch(s).task = s.task
           /\ Switch(s).dead = s.dead
           /\ t \notin ToSet(Switch(s).run_list)
           /\ s.task[t].st = "live"
<1> DEFINE q == Tail(s.run_list)
           r == Switch(s)
<1>1. s \in Schedulers /\ s.run_list \in Seq(AllTasks) /\ IsInjective(s.run_list)
  BY SchedType, TaskFields DEF SchedInv
<1>2. s.run_list # <<>> /\ Head(s.run_list) = t
  <2>1. t # None
    BY NoneAssumption
  <2> QED BY <2>1 DEF Current
<1>3. q \in Seq(AllTasks) /\ ToSet(q) \subseteq ToSet(s.run_list) /\ IsInjective(q) /\ t \notin ToSet(q) /\ t \in ToSet(s.run_list)
  <2>1. q \in Seq(AllTasks)
    BY <1>1, <1>2
  <2> QED BY <1>1, <1>2, <2>1, TailElements
<1>4. r = [s EXCEPT !.run_list = q]
  BY DEF Switch
<1> HIDE DEF q, r
<1>5. r \in Schedulers /\ r.run_list = q /\ r.task = s.task /\ r.dead = s.dead
  BY <1>1, <1>3, <1>4 DEF Schedulers
<1>6. SchedInv(r)
  <2>1. \A u \in ToSet(r.run_list) : r.task[u].st = "live"
    BY <1>3, <1>5 DEF SchedInv
  <2>2. /\ \A u \in AllTasks : r.task[u].destroyer # None => r.task[r.task[u].destroyer].st # "none"
        /\ \A u \in NetTask : r.task[u].canceled => r.task[u].destroyer # None
    BY <1>5 DEF SchedInv
  <2> QED BY <1>3, <1>5, <2>1, <2>2 DEF SchedInv
<1>7. s.task[t].st = "live"
  BY <1>3 DEF SchedInv
<1> QED BY <1>3, <1>5, <1>6, <1>7 DEF r

-----------------------------------------------------------------------------
(* The lists of sockets.                                                   *)

\* The parts of a sequence whose elements differ.
LEMMA ConcatParts ==
    ASSUME NEW T, NEW p \in Seq(T), NEW q \in Seq(T), IsInjective(p \o q)
    PROVE  IsInjective(p) /\ IsInjective(q) /\ ToSet(p) \intersect ToSet(q) = {}
<1> DEFINE r == p \o q
           M == Len(p)
           N == Len(q)
<1>1. /\ M \in Nat /\ N \in Nat /\ r \in Seq(T) /\ Len(r) = M + N
      /\ DOMAIN p = 1 .. M /\ DOMAIN q = 1 .. N
      /\ \A i \in 1 .. M : r[i] = p[i]
      /\ \A i \in 1 .. N : r[M + i] = q[i]
  OBVIOUS
<1> HIDE DEF r, M, N
<1>2. \A i, j \in 1 .. M + N : i < j => r[i] # r[j]
  BY <1>1, InjectiveByOrder DEF r
<1>3. \A i, j \in 1 .. M : i < j => p[i] # p[j]
  BY <1>1, <1>2
<1>4. \A i, j \in 1 .. N : i < j => q[i] # q[j]
  <2> SUFFICES ASSUME NEW i \in 1 .. N, NEW j \in 1 .. N, i < j PROVE q[i] # q[j]
    OBVIOUS
  <2>1. M + i \in 1 .. M + N /\ M + j \in 1 .. M + N /\ M + i < M + j
    BY <1>1
  <2> QED BY <1>1, <1>2, <2>1
<1>5. \A i \in 1 .. M, j \in 1 .. N : p[i] # q[j]
  <2> SUFFICES ASSUME NEW i \in 1 .. M, NEW j \in 1 .. N PROVE p[i] # q[j]
    OBVIOUS
  <2>1. i \in 1 .. M + N /\ M + j \in 1 .. M + N /\ i < M + j
    BY <1>1
  <2> QED BY <1>1, <1>2, <2>1
<1>6. IsInjective(p) /\ IsInjective(q)
  BY <1>3, <1>4, InjectiveByOrder DEF M, N
<1>7. ToSet(p) \intersect ToSet(q) = {}
  BY <1>1, <1>5 DEF ToSet
<1> QED BY <1>6, <1>7

\* list_del_init of a socket
LEMMA UnlinkedElements ==
    ASSUME NEW T, NEW q \in Seq(T), NEW x
    PROVE  /\ Unlinked(q, x) \in Seq(T)
           /\ ToSet(Unlinked(q, x)) = ToSet(q) \ {x}
           /\ IsInjective(q) => IsInjective(Unlinked(q, x))
BY WithoutElements DEF Unlinked

\* A socket that moves from the end of one list to the end of the other, or
\* that was there already
LEMMA MovedElements ==
    ASSUME NEW a \in Seq(Sock), NEW b \in Seq(Sock), IsInjective(a \o b), NEW x \in Sock
    PROVE  /\ Unlinked(a, x) \in Seq(Sock) /\ MovedToTail(b, x) \in Seq(Sock)
           /\ ToSet(MovedToTail(b, x)) = ToSet(b) \union {x}
           /\ ToSet(Unlinked(a, x) \o MovedToTail(b, x)) = ToSet(a \o b) \union {x}
           /\ IsInjective(Unlinked(a, x) \o MovedToTail(b, x))
<1> DEFINE c == Unlinked(a, x)
           d == Unlinked(b, x)
           e == MovedToTail(b, x)
<1>1. IsInjective(a) /\ IsInjective(b) /\ ToSet(a) \intersect ToSet(b) = {}
  BY ConcatParts
<1>2. c \in Seq(Sock) /\ ToSet(c) = ToSet(a) \ {x} /\ IsInjective(c)
  BY <1>1, UnlinkedElements
<1>3. d \in Seq(Sock) /\ ToSet(d) = ToSet(b) \ {x} /\ IsInjective(d)
  BY <1>1, UnlinkedElements
<1>4. e = Append(d, x)
  BY DEF MovedToTail
<1> HIDE DEF c, d, e
<1>5. Append(d, x) \in Seq(Sock) /\ ToSet(Append(d, x)) = ToSet(d) \union {x} /\ IsInjective(Append(d, x))
  <2>1. x \notin ToSet(d)
    BY <1>3
  <2>2. Append(d, x) \in Seq(Sock)
    BY <1>3
  <2> QED BY <1>3, <2>1, <2>2, AppendElements
<1>6. e \in Seq(Sock) /\ ToSet(e) = ToSet(b) \union {x} /\ IsInjective(e)
  BY <1>3, <1>4, <1>5
<1>7. ToSet(c) \intersect ToSet(e) = {}
  BY <1>1, <1>2, <1>6
<1>8. ToSet(c \o e) = ToSet(c) \union ToSet(e) /\ IsInjective(c \o e)
  BY <1>2, <1>6, <1>7, ConcatElements
<1>9. ToSet(a \o b) = ToSet(a) \union ToSet(b)
  BY ConcatElements
<1>10. ToSet(c \o e) = ToSet(a \o b) \union {x}
  BY <1>2, <1>6, <1>8, <1>9
<1> QED BY <1>2, <1>6, <1>8, <1>10 DEF c, e

\* A socket that is added to the end of the first list
LEMMA AddedElements ==
    ASSUME NEW a \in Seq(Sock), NEW b \in Seq(Sock), IsInjective(a \o b),
           NEW x \in Sock, x \notin ToSet(a \o b)
    PROVE  /\ Append(a, x) \in Seq(Sock)
           /\ ToSet(Append(a, x) \o b) = ToSet(a \o b) \union {x}
           /\ IsInjective(Append(a, x) \o b)
<1> DEFINE c == Append(a, x)
<1>1. IsInjective(a) /\ IsInjective(b) /\ ToSet(a) \intersect ToSet(b) = {}
  BY ConcatParts
<1>2. ToSet(a \o b) = ToSet(a) \union ToSet(b)
  BY ConcatElements
<1>3. c \in Seq(Sock)
  OBVIOUS
<1>4. ToSet(c) = ToSet(a) \union {x} /\ IsInjective(c)
  BY <1>1, <1>2, AppendElements
<1> HIDE DEF c
<1>5. ToSet(c) \intersect ToSet(b) = {}
  BY <1>1, <1>2, <1>4
<1>6. ToSet(c \o b) = ToSet(c) \union ToSet(b) /\ IsInjective(c \o b)
  BY <1>1, <1>3, <1>4, <1>5, ConcatElements
<1>7. ToSet(c \o b) = ToSet(a \o b) \union {x}
  BY <1>2, <1>4, <1>6
<1> QED BY <1>3, <1>6, <1>7 DEF c

\* A socket that is taken off the second list
LEMMA TakenOffElements ==
    ASSUME NEW a \in Seq(Sock), NEW b \in Seq(Sock), IsInjective(a \o b), NEW x \in ToSet(b)
    PROVE  /\ Unlinked(b, x) \in Seq(Sock)
           /\ ToSet(Unlinked(b, x)) = ToSet(b) \ {x}
           /\ ToSet(a \o Unlinked(b, x)) = ToSet(a \o b) \ {x}
           /\ IsInjective(a \o Unlinked(b, x))
<1> DEFINE d == Unlinked(b, x)
<1>1. IsInjective(a) /\ IsInjective(b) /\ ToSet(a) \intersect ToSet(b) = {}
  BY ConcatParts
<1>2. d \in Seq(Sock) /\ ToSet(d) = ToSet(b) \ {x} /\ IsInjective(d)
  BY <1>1, UnlinkedElements
<1> HIDE DEF d
<1>3. ToSet(a) \intersect ToSet(d) = {}
  BY <1>1, <1>2
<1>4. ToSet(a \o d) = ToSet(a) \union ToSet(d) /\ IsInjective(a \o d)
  BY <1>1, <1>2, <1>3, ConcatElements
<1>5. ToSet(a \o b) = ToSet(a) \union ToSet(b)
  BY ConcatElements
<1>6. ToSet(a \o d) = ToSet(a \o b) \ {x}
  BY <1>1, <1>2, <1>4, <1>5
<1> QED BY <1>2, <1>4, <1>6 DEF d

\* The first list put before the second
LEMMA SplicedElements ==
    ASSUME NEW a \in Seq(Sock), NEW b \in Seq(Sock)
    PROVE  <<>> \in Seq(Sock) /\ a \o b \in Seq(Sock) /\ <<>> \o (a \o b) = a \o b
           /\ ToSet(b) \subseteq ToSet(a \o b)
<1>1. <<>> \in Seq(Sock) /\ a \o b \in Seq(Sock)
  OBVIOUS
<1>2. ToSet(a \o b) = ToSet(a) \union ToSet(b)
  BY ConcatElements
<1>3. \A c \in Seq(Sock) : <<>> \o c = c
  OBVIOUS
<1> QED BY <1>1, <1>2, <1>3

\* The entry that follows x
LEMMA AfterElement ==
    ASSUME NEW b \in Seq(Sock), IsInjective(b), NEW x \in ToSet(b)
    PROVE  After(b, x) \in (ToSet(b) \ {x}) \union {None}
<1> DEFINE i == CHOOSE j \in DOMAIN b : b[j] = x
<1>1. i \in DOMAIN b /\ b[i] = x
  BY DEF ToSet
<1>2. After(b, x) = IF i = Len(b) THEN None ELSE b[i + 1]
  BY DEF After
<1> HIDE DEF i
<1>3. DOMAIN b = 1 .. Len(b) /\ Len(b) \in Nat
  OBVIOUS
<1>4. CASE i = Len(b)
  BY <1>2, <1>4
<1>5. CASE i # Len(b)
  <2>1. i + 1 \in DOMAIN b /\ i + 1 # i
    BY <1>1, <1>3, <1>5
  <2>2. b[i + 1] # x
    BY <1>1, <2>1 DEF IsInjective
  <2>3. b[i + 1] \in ToSet(b)
    BY <2>1 DEF ToSet
  <2> QED BY <1>2, <1>5, <2>2, <2>3
<1> QED BY <1>4, <1>5

-----------------------------------------------------------------------------
(* The steps of one task.                                                  *)

\* No stack is freed under an op.
IoStep == \A t \in NetTask : FreedTask(t) => op[t] # "busy"

StepOK == (Alive' => AliveInv') /\ IoStep

\* A step of task t, which goes on or ends, and may start requests.
Requests == AllTasks \ (NetTask \union {Main, Destroyer, SigRead})
SchedStep(t) ==
    /\ SchedInv(sched')
    /\ OthersStay(sched, sched', {t} \union Requests)
    /\ \/ sched'.task[t].st = sched.task[t].st
       \/ sched.task[t].st = "live" /\ sched'.task[t].st \in {"finished", "freed"}
OpStep(t) ==
    /\ op' \in [AllTasks -> Ops]
    /\ \A u \in AllTasks \ {t} : op'[u] = op[u]
    /\ op'[t] = "busy" => op[t] = "busy"
TaskStep(t) == phase = "run" /\ phase' = "run" /\ SchedStep(t) /\ OpStep(t)

\* The lists are as they were, or a socket has moved to the end of them.
ListsMoved ==
    /\ sockets_list' \in Seq(Sock) /\ destroy_list' \in Seq(Sock)
    /\ IsInjective(sockets_list' \o destroy_list')
    /\ ToSet(sockets_list' \o destroy_list') = ToSet(sockets_list \o destroy_list)
    /\ ToSet(destroy_list) \subseteq ToSet(destroy_list')
    /\ UNCHANGED <<peer_root, closed>>

LEMMA ListsStay ==
    ASSUME TypeInv, ListInv, UNCHANGED <<listVars, closed>>
    PROVE  ListsMoved
BY DEF TypeInv, ListInv, listVars, ListsMoved

\* What follows for the lists,
LEMMA ListsKeep ==
    ASSUME TypeInv, ListInv, ListsMoved, \A x \in Sock : sk'[x].st = sk[x].st
    PROVE  ListInv'
<1>1. Allocated' = Allocated
  BY DEF Allocated
<1>2. \A p \in Peer : sk'[p].st = sk[p].st
  BY SockNames
<1>3. {p \in Peer : sk[p].st = "freed"} = {p \in Peer : sk'[p].st = "freed"}
  BY <1>2
<1>4. UNCHANGED <<peer_root, closed>>
  BY DEF ListsMoved
<1>5. closed' \subseteq peer_root' \union {p \in Peer : sk'[p].st = "freed"}
  BY <1>3, <1>4 DEF ListInv
<1> QED BY <1>1, <1>4, <1>5 DEF ListInv, ListsMoved

\* for the owners of the sockets,
LEMMA OwnersKeep ==
    ASSUME OwnerInv, NEW t \in AllTasks, TaskStep(t), \A x \in Sock : sk'[x].st = sk[x].st
    PROVE  OwnerInv'
<1>1. Allocated' = Allocated
  BY DEF Allocated
<1>2. \A u \in NetTask : u \in AllTasks \ Requests /\ SockOf(u) \in Sock
  BY Names, NetNames DEF Requests
<1>3. ASSUME NEW u \in NetTask
      PROVE  /\ sched'.task[u].st = "live" => sched.task[u].st = "live"
             /\ sched.task[u].st # "none" => sched'.task[u].st # "none"
  BY <1>2 DEF TaskStep, SchedStep, OpStep, OthersStay
<1> QED BY <1>1, <1>2, <1>3 DEF OwnerInv

\* for main_utask, when it is another task that runs,
LEMMA MainKeeps ==
    ASSUME MainInv, NEW t \in AllTasks \ {Main}, TaskStep(t), \A x \in Sock : sk'[x].st = sk[x].st,
           destroy_tsk' = destroy_tsk
    PROVE  MainInv'
<1>1. Main \in AllTasks \ Requests /\ SigRead \in AllTasks \ Requests /\ Destroyer \in AllTasks \ Requests
  BY Names DEF Requests
<1>2. sched'.task[Main].st = sched.task[Main].st /\ sched'.task[Main].at = sched.task[Main].at
  BY <1>1 DEF TaskStep, SchedStep, OpStep, OthersStay
<1>3. ASSUME NEW u \in {SigRead, Destroyer}
      PROVE  sched'.task[u].st = "none" <=> sched.task[u].st = "none"
  BY <1>1 DEF TaskStep, SchedStep, OpStep, OthersStay
<1> QED BY <1>2, <1>3 DEF MainInv

\* for the walk of destroy_utask,
LEMMA WalkKeeps ==
    ASSUME WalkInv, TypeInv, NEW t \in AllTasks \ {Destroyer}, TaskStep(t), walk' = walk,
           \A x \in Sock : sk'[x].st = sk[x].st, ToSet(destroy_list) \subseteq ToSet(destroy_list')
    PROVE  WalkInv'
<1>1. \A u \in NetTask : u \in AllTasks \ Requests
  BY Names DEF Requests
<1>2. Destroyer \in AllTasks \ Requests
  BY Names DEF Requests
<1>3. sched'.task[Destroyer].st = sched.task[Destroyer].st /\ sched'.task[Destroyer].at = sched.task[Destroyer].at
  BY <1>2 DEF TaskStep, SchedStep, OpStep, OthersStay
<1>4. ASSUME NEW u \in NetTask, sched'.task[u].st = "live" PROVE sched.task[u].st = "live"
  BY <1>1, <1>4 DEF TaskStep, SchedStep, OpStep, OthersStay
<1>5. ASSUME Walking PROVE Walking'
  <2>1. walk.sock \in Sock
    <3>1. walk.sock \in ToSet(destroy_list)
      BY <1>5 DEF Walking
    <3>2. ToSet(destroy_list) \subseteq Sock
      BY DEF TypeInv, ToSet
    <3> QED BY <3>1, <3>2
  <2> QED BY <1>4, <1>5, <2>1 DEF Walking
<1> QED BY <1>3, <1>5 DEF WalkInv

\* for the ops of the sockets that are shut,
LEMMA BusyKeeps ==
    ASSUME BusyInv, NEW t \in AllTasks \ {Destroyer}, TaskStep(t), \A x \in Sock : sk'[x].st = sk[x].st
    PROVE  BusyInv'
<1>1. Destroyer \in AllTasks \ Requests /\ NetTask \subseteq AllTasks
  BY Names DEF Requests
<1>2. sched'.task[Destroyer].at = sched.task[Destroyer].at /\ op'[Destroyer] = op[Destroyer]
  BY <1>1 DEF TaskStep, SchedStep, OpStep, OthersStay
<1>3. ASSUME NEW u \in NetTask PROVE op'[u] = "busy" => op[u] = "busy"
  BY <1>1 DEF TaskStep, SchedStep, OpStep
<1>4. \A u \in NetTask : SockOf(u) \in Sock
  BY NetNames
<1>5. phase = "run"
  BY DEF TaskStep, SchedStep, OpStep
<1> QED BY <1>2, <1>3, <1>4, <1>5 DEF BusyInv

\* for the sends and the queues, when it is not a sending task.
LEMMA SendsKeep ==
    ASSUME SendInv, QueueInv, TakenInv, NEW t \in AllTasks, \A p \in Peer : t # Send(p), TaskStep(t),
           UNCHANGED <<sk, sent, taken>>
    PROVE  SendInv' /\ QueueInv' /\ TakenInv'
<1>1. ASSUME NEW p \in Peer
      PROVE  /\ op'[Send(p)] = op[Send(p)]
             /\ sched'.task[Send(p)].st = sched.task[Send(p)].st
             /\ sched'.task[Send(p)].at = sched.task[Send(p)].at
  <2>1. Send(p) \in AllTasks \ Requests /\ Send(p) # t
    BY Names DEF Requests
  <2> QED BY <2>1 DEF TaskStep, SchedStep, OpStep, OthersStay
<1>2. SendInv'
  BY <1>1 DEF SendInv
<1>3. Allocated' = Allocated /\ \A p \in Peer : Gone(p)' = Gone(p)
  BY <1>1 DEF Allocated, Gone
<1>4. QueueInv'
  BY <1>3 DEF QueueInv
<1>5. TakenInv'
  BY DEF TakenInv
<1> QED BY <1>2, <1>4, <1>5

\* Only the task that runs can be freed in such a step.
LEMMA OnlyOneFreed ==
    ASSUME NEW t \in AllTasks, TaskStep(t), t \in NetTask /\ FreedTask(t) => op[t] # "busy"
    PROVE  IoStep
<1> SUFFICES ASSUME NEW u \in NetTask, FreedTask(u) PROVE op[u] # "busy"
  BY DEF IoStep
<1>1. u \in AllTasks \ Requests
  BY Names DEF Requests
<1>2. u = t
  BY <1>1 DEF TaskStep, SchedStep, OpStep, OthersStay, FreedTask
<1> QED BY <1>2

\* A step of a task of a connection, or of one that is none of its own.
LEMMA StepKeeps ==
    ASSUME AliveInv, TakenInv, NEW t \in AllTasks \ {Main, Destroyer}, \A p \in Peer : t # Send(p), TaskStep(t),
           ListsMoved, UNCHANGED <<sk, walk, destroy_tsk, sent, taken>>, recv_fn' \in BOOLEAN,
           t \in NetTask /\ FreedTask(t) => op[t] # "busy"
    PROVE  AliveInv' /\ IoStep
<1>0. SchedInv(sched) /\ TypeInv /\ ListInv /\ OwnerInv /\ MainInv /\ WalkInv /\ SendInv /\ QueueInv /\ BusyInv
  BY DEF AliveInv
<1>1. \A x \in Sock : sk'[x].st = sk[x].st
  OBVIOUS
<1>2. SchedInv(sched')
  BY DEF TaskStep, SchedStep, OpStep
<1>3. TypeInv'
  BY <1>0 DEF TypeInv, TaskStep, SchedStep, OpStep, ListsMoved
<1>4. ListInv'
  BY <1>0, <1>1, ListsKeep
<1>5. OwnerInv' 
  BY <1>0, <1>1, OwnersKeep
<1>6. MainInv'
  BY <1>0, <1>1, MainKeeps
<1>7. WalkInv'
  <2>1. ToSet(destroy_list) \subseteq ToSet(destroy_list')
    BY DEF ListsMoved
  <2> QED BY <1>0, <1>1, <2>1, WalkKeeps
<1>8. BusyInv'
  BY <1>0, <1>1, BusyKeeps
<1>9. SendInv' /\ QueueInv'
  BY <1>0, SendsKeep
<1>10. IoStep
  BY OnlyOneFreed
<1> QED BY <1>2, <1>3, <1>4, <1>5, <1>6, <1>7, <1>8, <1>9, <1>10 DEF AliveInv

-----------------------------------------------------------------------------
(* What a task does to the scheduler while it runs.                        *)

\* s is what the scheduler has become since the switch to task t.
Running(s, t) ==
    /\ SchedInv(s) /\ t \notin ToSet(s.run_list)
    /\ sched.task[t].st = "live" /\ s.task[t] = sched.task[t]
    /\ OthersStay(sched, s, Requests)

LEMMA RunsGives ==
    ASSUME SchedInv(sched), NEW t \in AllTasks, NEW at, Runs(t, at)
    PROVE  /\ Running(Switch(sched), t) /\ phase = "run"
           /\ sched.task[t].at = at /\ sched.task[t].st = "live"
           /\ Switch(sched).task = sched.task
<1>1. Current(sched) = t /\ sched.task[t].at = at /\ phase = "run"
  BY DEF Runs
<1>2. /\ SchedInv(Switch(sched))
      /\ Switch(sched).task = sched.task
      /\ t \notin ToSet(Switch(sched).run_list)
      /\ sched.task[t].st = "live"
  BY <1>1, SwitchKeeps
<1>3. OthersStay(sched, Switch(sched), Requests)
  BY <1>2 DEF OthersStay
<1> QED BY <1>1, <1>2, <1>3 DEF Running

\* It wakes another,
LEMMA WakeRuns ==
    ASSUME NEW t \in AllTasks, NEW s, Running(s, t), NEW u \in AllTasks \ {t}, s.task[u].st # "none"
    PROVE  Running(Wake(s, u), t)
<1>1. SchedInv(s) /\ t \notin ToSet(s.run_list)
  BY DEF Running
<1>2. /\ SchedInv(Wake(s, u))
      /\ Wake(s, u).task = s.task
      /\ ToSet(Wake(s, u).run_list) \subseteq ToSet(s.run_list) \union {u}
  BY <1>1, WakeKeeps
<1>3. t \notin ToSet(Wake(s, u).run_list)
  BY <1>1, <1>2
<1>4. OthersStay(sched, Wake(s, u), Requests)
  BY <1>2 DEF Running, OthersStay
<1> QED BY <1>1, <1>2, <1>3, <1>4 DEF Running

\* cancels another,
LEMMA CancelRuns ==
    ASSUME NEW t \in AllTasks, NEW s, Running(s, t), NEW u \in AllTasks \ (NetTask \union {t}), s.task[u].st # "none"
    PROVE  Running(Cancel(s, u), t)
<1>1. SchedInv(s) /\ t \notin ToSet(s.run_list) /\ u \in AllTasks \ NetTask
  BY DEF Running
<1>2. /\ SchedInv(Cancel(s, u))
      /\ \A v \in AllTasks \ {u} : Cancel(s, u).task[v] = s.task[v]
      /\ OthersStay(s, Cancel(s, u), {})
      /\ ToSet(Cancel(s, u).run_list) \subseteq ToSet(s.run_list) \union {u}
  BY <1>1, CancelKeeps
<1>3. t \notin ToSet(Cancel(s, u).run_list)
  BY <1>1, <1>2
<1>4. OthersStay(sched, Cancel(s, u), Requests)
  BY <1>2 DEF Running, OthersStay
<1> QED BY <1>1, <1>2, <1>3, <1>4 DEF Running

\* starts a request,
LEMMA StartRuns ==
    ASSUME NEW t \in AllTasks, NEW s, Running(s, t), NEW u \in Requests, u # t, NEW b \in Bits
    PROVE  Running(Started(s, u, b), t)
<1> DEFINE z == Started(s, u, b)
<1>1. SchedInv(s) /\ t \notin ToSet(s.run_list) /\ u \in AllTasks
  BY DEF Running, Requests
<1>2. /\ SchedInv(z)
      /\ \A v \in AllTasks \ {u} : z.task[v] = s.task[v]
      /\ ToSet(z.run_list) \subseteq ToSet(s.run_list) \union {u}
  BY <1>1, StartedKeeps
<1> HIDE DEF z
<1>3. OthersStay(sched, z, Requests)
  BY <1>2 DEF Running, OthersStay
<1>4. Running(z, t)
  BY <1>1, <1>2, <1>3 DEF Running
<1> QED BY <1>4 DEF z

\* sleeps,
LEMMA SleepRuns ==
    ASSUME NEW t \in AllTasks, NEW s, Running(s, t), NEW at \in Places, sched' = Sleep(s, t, at)
    PROVE  SchedStep(t) /\ sched'.task[t].st = "live" /\ sched'.task[t].at = at
<1>1. SchedInv(s)
  BY DEF Running
<1>2. /\ SchedInv(sched')
      /\ OthersStay(s, sched', {t})
      /\ \A u \in AllTasks : sched'.task[u].st = s.task[u].st
      /\ sched'.task[t].at = at
  BY <1>1, SleepKeeps
<1>3. OthersStay(sched, sched', {t} \union Requests)
  BY <1>2 DEF OthersStay, Running
<1>4. sched'.task[t].st = sched.task[t].st /\ sched.task[t].st = "live"
  BY <1>2 DEF Running
<1> QED BY <1>2, <1>3, <1>4 DEF SchedStep

\* or ends, when its stack may be freed, unless another task waits to do so.
LEMMA FinishRuns ==
    ASSUME NEW t \in AllTasks, NEW s, Running(s, t), sched' = Finish(s, t)
    PROVE  /\ SchedStep(t)
           /\ sched'.task[t].st \in {"finished", "freed"} /\ sched'.task[t].at = sched.task[t].at
           /\ FreedTask(t) => sched.task[t].destroyer = None
<1>1. SchedInv(s) /\ t \notin ToSet(s.run_list)
  BY DEF Running
<1>2. /\ SchedInv(sched')
      /\ \A u \in AllTasks \ {t} : sched'.task[u] = s.task[u]
      /\ sched'.task[t].st \in {"finished", "freed"} /\ sched'.task[t].at = s.task[t].at
      /\ sched'.task[t].st = "freed" => s.task[t].destroyer = None
  BY <1>1, FinishKeeps
<1>3. OthersStay(sched, sched', {t} \union Requests)
  BY <1>2 DEF OthersStay, Running
<1>4. s.task[t] = sched.task[t] /\ sched.task[t].st = "live"
  BY DEF Running
<1> QED BY <1>2, <1>3, <1>4 DEF SchedStep, FreedTask

\* It fails a BUG_ON.
LEMMA DeadRuns ==
    ASSUME NEW t \in AllTasks, NEW s, Running(s, t) \/ (s = sched /\ SchedInv(s)), NEW why \in Ends, why # "no",
           sched' = Dead(s, why)
    PROVE  SchedStep(t) /\ ~Alive' /\ ~FreedTask(t)
<1>1. SchedInv(s)
  BY DEF Running
<1>2. SchedInv(sched') /\ sched'.task = s.task /\ sched'.dead # "no"
  BY <1>1, DeadKeeps
<1>3. OthersStay(sched, sched', {t} \union Requests) /\ sched'.task[t].st = sched.task[t].st
  BY <1>2 DEF OthersStay, Running
<1> QED BY <1>2, <1>3 DEF SchedStep, Alive, FreedTask

\* It prepares an op, or has looked at the last one.
LEMMA PrepareGives ==
    ASSUME op \in [AllTasks -> Ops], NEW t \in AllTasks, Prepare(t)
    PROVE  OpStep(t) /\ op'[t] = "prep"
<1>1. "prep" \in Ops /\ "prep" # "busy"
  BY DEF Ops
<1> QED BY <1>1 DEF Prepare, OpStep

LEMMA ConsumeGives ==
    ASSUME op \in [AllTasks -> Ops], NEW t \in AllTasks, Consume(t)
    PROVE  OpStep(t) /\ op'[t] = IF Completed(t) THEN "none" ELSE op[t]
<1>1. "none" \in Ops /\ "none" # "busy"
  BY DEF Ops
<1> QED BY <1>1 DEF Consume, OpStep

LEMMA OpStays ==
    ASSUME op \in [AllTasks -> Ops], NEW t \in AllTasks, op' = op
    PROVE  OpStep(t)
BY DEF OpStep

\* The last act of a task of a connection, destroy_sock
LEMMA DestroySockRuns ==
    ASSUME AliveInv, NEW t \in NetTask, NEW s, Running(s, t), DestroySock(s, t, SockOf(t), sockets_list),
           UNCHANGED <<peer_root, closed>>
    PROVE  SchedStep(t) /\ ListsMoved /\ (FreedTask(t) => sched.task[t].destroyer = None)
           /\ (Alive' => sched'.task[t].st \in {"finished", "freed"})
<1>0. TypeInv /\ ListInv /\ OwnerInv /\ MainInv
  BY DEF AliveInv
<1>1. t \in AllTasks /\ Destroyer \in AllTasks \ Requests /\ t # Destroyer
  BY Names DEF Requests
<1>2. SockOf(t) \in Allocated
  BY <1>0 DEF OwnerInv, Running
<1>3. SockOf(t) \in Sock
  BY NetNames
<1>4. ListsMoved
  <2>1. sockets_list \in Seq(Sock) /\ destroy_list \in Seq(Sock) /\ IsInjective(sockets_list \o destroy_list)
        /\ ToSet(sockets_list \o destroy_list) = Allocated
    BY <1>0 DEF TypeInv, ListInv
  <2>2. sockets_list' = Unlinked(sockets_list, SockOf(t)) /\ destroy_list' = MovedToTail(destroy_list, SockOf(t))
    BY DEF DestroySock
  <2>3. /\ sockets_list' \in Seq(Sock) /\ destroy_list' \in Seq(Sock)
        /\ ToSet(destroy_list') = ToSet(destroy_list) \union {SockOf(t)}
        /\ ToSet(sockets_list' \o destroy_list') = ToSet(sockets_list \o destroy_list) \union {SockOf(t)}
        /\ IsInjective(sockets_list' \o destroy_list')
    BY <1>3, <2>1, <2>2, MovedElements
  <2>4. ToSet(sockets_list' \o destroy_list') = ToSet(sockets_list \o destroy_list)
    BY <1>2, <2>1, <2>3
  <2> QED BY <2>3, <2>4 DEF ListsMoved
<1>5. CASE destroy_tsk
  <2>1. sched' = Finish(Wake(s, Destroyer), t)
    BY <1>5 DEF DestroySock
  <2>2. s.task[Destroyer].st # "none"
    BY <1>0, <1>1, <1>5 DEF Running, OthersStay, MainInv
  <2>3. Running(Wake(s, Destroyer), t)
    BY <1>1, <2>2, WakeRuns
  <2>4. SchedStep(t) /\ (FreedTask(t) => sched.task[t].destroyer = None) /\ sched'.task[t].st \in {"finished", "freed"}
    BY <1>1, <2>1, <2>3, FinishRuns
  <2> QED BY <1>4, <2>4
<1>6. CASE ~destroy_tsk
  <2>1. sched' = Dead(s, "null")
    BY <1>6 DEF DestroySock
  <2>2. "null" \in Ends /\ "null" # "no"
    BY DEF Ends
  <2>3. SchedStep(t) /\ ~Alive' /\ ~FreedTask(t)
    BY <1>1, <2>1, <2>2, DeadRuns
  <2> QED BY <1>4, <2>3
<1> QED BY <1>5, <1>6

-----------------------------------------------------------------------------
(* The accepting and the receiving tasks.                                  *)

\* A task that was canceled has a destroyer, who frees it; one that ends on
\* its own has seen the end of its op.
LEMMA EndsAfterOp ==
    ASSUME AliveInv, NEW t \in NetTask, Completed(t) \/ Canceled(t),
           FreedTask(t) => sched.task[t].destroyer = None
    PROVE  FreedTask(t) => op[t] # "busy"
<1>1. sched.task[t].canceled => sched.task[t].destroyer # None
  BY DEF AliveInv, SchedInv
<1> QED BY <1>1 DEF Completed, Canceled

LEMMA AcceptStartsKeeps ==
    ASSUME AliveInv, TakenInv, AcceptStarts
    PROVE  AliveInv' /\ IoStep
<1>1. Accept \in AllTasks \ {Main, Destroyer} /\ \A p \in Peer : Accept # Send(p)
  BY Names, NetNames
<1>2. Running(Switch(sched), Accept) /\ phase = "run"
  BY <1>1, RunsGives DEF AcceptStarts, AliveInv
<1>3. SchedStep(Accept) /\ sched'.task[Accept].st = "live"
  <2>1. "accept" \in Places
    BY DEF Places
  <2>2. sched' = Sleep(Switch(sched), Accept, "accept")
    BY DEF AcceptStarts
  <2> QED BY <1>1, <1>2, <2>1, <2>2, SleepRuns
<1>4. OpStep(Accept)
  BY <1>1, PrepareGives DEF AcceptStarts, AliveInv, TypeInv
<1>5. UNCHANGED <<phase, listVars, closed, sk, walk, destroy_tsk, sent, taken, recv_fn>>
  BY DEF AcceptStarts, peerVars
<1>6. TaskStep(Accept)
  BY <1>2, <1>3, <1>4, <1>5 DEF TaskStep
<1>7. ListsMoved /\ recv_fn' \in BOOLEAN
  BY <1>5, ListsStay DEF AliveInv, TypeInv
<1>8. ~FreedTask(Accept)
  BY <1>3 DEF FreedTask
<1> QED BY <1>1, <1>5, <1>6, <1>7, <1>8, StepKeeps

LEMMA AcceptEndsKeeps ==
    ASSUME AliveInv, TakenInv, AcceptEnds
    PROVE  AliveInv' /\ IoStep
<1>1. Accept \in AllTasks \ {Main, Destroyer} /\ Accept \in NetTask /\ \A p \in Peer : Accept # Send(p)
  BY Names, NetNames
<1>2. Running(Switch(sched), Accept) /\ phase = "run"
  BY <1>1, RunsGives DEF AcceptEnds, AliveInv
<1>3. UNCHANGED <<phase, peer_root, closed, sk, walk, destroy_tsk, sent, taken, recv_fn>>
  BY DEF AcceptEnds, peerVars
<1>4. SchedStep(Accept) /\ ListsMoved /\ (FreedTask(Accept) => sched.task[Accept].destroyer = None)
  <2>1. DestroySock(Switch(sched), Accept, SockOf(Accept), sockets_list)
    BY NetNames DEF AcceptEnds
  <2> QED BY <1>1, <1>2, <1>3, <2>1, DestroySockRuns
<1>5. OpStep(Accept)
  BY <1>1, ConsumeGives DEF AcceptEnds, AliveInv, TypeInv
<1>6. TaskStep(Accept)
  BY <1>2, <1>3, <1>4, <1>5 DEF TaskStep
<1>7. recv_fn' \in BOOLEAN
  BY <1>3 DEF AliveInv, TypeInv
<1>8. FreedTask(Accept) => op[Accept] # "busy"
  BY <1>1, <1>4, EndsAfterOp DEF AcceptEnds
<1> QED BY <1>1, <1>3, <1>4, <1>6, <1>7, <1>8, StepKeeps

\* The ends of the steps of a receiving task: it ends with its socket,
LEMMA RecvDestroys ==
    ASSUME AliveInv, TakenInv, NEW p \in Peer, Running(Switch(sched), Recv(p)), phase = "run",
           DestroySock(Switch(sched), Recv(p), p, sockets_list), Consume(Recv(p)),
           Completed(Recv(p)) \/ Canceled(Recv(p)),
           UNCHANGED <<phase, peer_root, closed, sk, walk, destroy_tsk, sent, taken, recv_fn>>
    PROVE  AliveInv' /\ IoStep
<1> DEFINE t == Recv(p)
<1>1. t \in AllTasks \ {Main, Destroyer} /\ t \in NetTask /\ \A q \in Peer : t # Send(q)
  BY Names, NetNames
<1>2. DestroySock(Switch(sched), t, SockOf(t), sockets_list)
  BY NetNames
<1>3. Running(Switch(sched), t) /\ Consume(t) /\ (Completed(t) \/ Canceled(t))
  OBVIOUS
<1> HIDE DEF t
<1>4. SchedStep(t) /\ ListsMoved /\ (FreedTask(t) => sched.task[t].destroyer = None)
  BY <1>1, <1>2, <1>3, DestroySockRuns
<1>5. OpStep(t)
  BY <1>1, <1>3, ConsumeGives DEF AliveInv, TypeInv
<1>6. TaskStep(t)
  BY <1>4, <1>5 DEF TaskStep
<1>7. recv_fn' \in BOOLEAN
  BY DEF AliveInv, TypeInv
<1>8. FreedTask(t) => op[t] # "busy"
  BY <1>1, <1>3, <1>4, EndsAfterOp
<1> QED BY <1>1, <1>4, <1>6, <1>7, <1>8, StepKeeps

\* or it prepares the next receive.
LEMMA RecvNextKeeps ==
    ASSUME AliveInv, TakenInv, NEW p \in Peer, NEW s, Running(s, Recv(p)), phase = "run",
           NEW at \in Places, RecvNext(p, s, at),
           UNCHANGED <<phase, peer_root, closed, sk, walk, destroy_tsk, sent, taken, recv_fn>>
    PROVE  AliveInv' /\ IoStep
<1> DEFINE t == Recv(p)
<1>1. t \in AllTasks \ {Main, Destroyer} /\ t \in NetTask /\ \A q \in Peer : t # Send(q)
  BY Names, NetNames
<1>2. Running(s, t) /\ Prepare(t) /\ SockOf(t) = p
  BY NetNames DEF RecvNext
<1>3. SchedStep(t) /\ ListsMoved /\ (FreedTask(t) => op[t] # "busy")
  <2>1. CASE Canceled(t)
    <3>1. DestroySock(s, t, SockOf(t), sockets_list)
      BY <1>2, <2>1 DEF RecvNext
    <3> HIDE DEF t
    <3>2. SchedStep(t) /\ ListsMoved /\ (FreedTask(t) => sched.task[t].destroyer = None)
      BY <1>1, <1>2, <3>1, DestroySockRuns
    <3>3. FreedTask(t) => op[t] # "busy"
      BY <1>1, <2>1, <3>2, EndsAfterOp
    <3> QED BY <3>2, <3>3
  <2>2. CASE ~Canceled(t)
    <3>1. sched' = Sleep(s, t, at) /\ UNCHANGED <<sockets_list, destroy_list>>
      BY <2>2 DEF RecvNext
    <3> HIDE DEF t
    <3>2. SchedStep(t) /\ sched'.task[t].st = "live"
      BY <1>1, <1>2, <3>1, SleepRuns
    <3>3. ListsMoved
      BY <3>1, ListsStay DEF AliveInv, listVars
    <3> QED BY <3>2, <3>3 DEF FreedTask
  <2> QED BY <2>1, <2>2
<1> HIDE DEF t
<1>5. OpStep(t)
  BY <1>1, <1>2, PrepareGives DEF AliveInv, TypeInv
<1>6. TaskStep(t)
  BY <1>3, <1>5 DEF TaskStep
<1>7. recv_fn' \in BOOLEAN
  BY DEF AliveInv, TypeInv
<1> QED BY <1>1, <1>3, <1>6, <1>7, StepKeeps

LEMMA RecvRuns ==
    ASSUME AliveInv, NEW p \in Peer, NEW at, Runs(Recv(p), at)
    PROVE  Running(Switch(sched), Recv(p)) /\ phase = "run"
<1>1. Recv(p) \in AllTasks
  BY Names
<1> QED BY <1>1, RunsGives DEF AliveInv

LEMMA RecvStartsKeeps ==
    ASSUME AliveInv, TakenInv, NEW p \in Peer, RecvStarts(p)
    PROVE  AliveInv' /\ IoStep
<1>1. Running(Switch(sched), Recv(p)) /\ phase = "run" /\ "hdr" \in Places
  BY RecvRuns DEF RecvStarts, Places
<1>2. RecvNext(p, Switch(sched), "hdr")
      /\ UNCHANGED <<phase, peer_root, closed, sk, walk, destroy_tsk, sent, taken, recv_fn>>
  BY DEF RecvStarts, peerVars
<1> QED BY <1>1, <1>2, RecvNextKeeps

LEMMA RecvHeaderKeeps ==
    ASSUME AliveInv, TakenInv, NEW p \in Peer, RecvHeader(p)
    PROVE  AliveInv' /\ IoStep
<1>1. Running(Switch(sched), Recv(p)) /\ phase = "run" /\ "body" \in Places
  BY RecvRuns DEF RecvHeader, Places
<1>2. RecvNext(p, Switch(sched), "body")
      /\ UNCHANGED <<phase, peer_root, closed, sk, walk, destroy_tsk, sent, taken, recv_fn>>
  BY DEF RecvHeader, peerVars
<1> QED BY <1>1, <1>2, RecvNextKeeps

LEMMA RecvRefusesKeeps ==
    ASSUME AliveInv, TakenInv, NEW p \in Peer, RecvRefuses(p)
    PROVE  AliveInv' /\ IoStep
<1>1. Running(Switch(sched), Recv(p)) /\ phase = "run"
  BY RecvRuns DEF RecvRefuses
<1>2. Completed(Recv(p))
  BY DEF RecvRefuses, Completed
<1>3. /\ DestroySock(Switch(sched), Recv(p), p, sockets_list) /\ Consume(Recv(p))
      /\ UNCHANGED <<phase, peer_root, closed, sk, walk, destroy_tsk, sent, taken, recv_fn>>
  BY DEF RecvRefuses, peerVars
<1> QED BY <1>1, <1>2, <1>3, RecvDestroys

\* A step that fails a BUG_ON frees nothing.
LEMMA DeadStep ==
    ASSUME SchedInv(sched), NEW why \in Ends, why # "no", sched' = Dead(sched, why)
    PROVE  ~Alive' /\ IoStep
<1>1. sched'.task = sched.task /\ sched'.dead # "no"
  BY DeadKeeps
<1> QED BY <1>1 DEF Alive, IoStep, FreedTask

LEMMA RecvEndsKeeps ==
    ASSUME AliveInv, TakenInv, NEW p \in Peer, RecvEnds(p)
    PROVE  StepOK
<1>1. Running(Switch(sched), Recv(p)) /\ phase = "run"
  BY RecvRuns DEF RecvEnds
<1>2. CASE sched' = Dead(sched, "short")
  <2>1. "short" \in Ends /\ "short" # "no"
    BY DEF Ends
  <2> QED BY <1>2, <2>1, DeadStep DEF AliveInv, StepOK
<1>3. CASE DestroySock(Switch(sched), Recv(p), p, sockets_list)
  <2>1. /\ Consume(Recv(p)) /\ (Completed(Recv(p)) \/ Canceled(Recv(p)))
        /\ UNCHANGED <<phase, peer_root, closed, sk, walk, destroy_tsk, sent, taken, recv_fn>>
    BY DEF RecvEnds, peerVars
  <2> QED BY <1>1, <1>3, <2>1, RecvDestroys DEF StepOK
<1> QED BY <1>2, <1>3 DEF RecvEnds

\* A request is started.
LEMMA ReceivesKeeps ==
    ASSUME AliveInv, TakenInv, NEW p \in Peer, NEW r \in Request, Receives(p, r)
    PROVE  StepOK
<1>1. CASE recv_fn
  <2> DEFINE s == Switch(sched)
             z == ProcRecv(s, r)
  <2>1. Running(s, Recv(p)) /\ phase = "run" /\ "hdr" \in Places
    BY RecvRuns DEF Receives, RecvMessage, Places
  <2>2. Req(r) \in AllTasks /\ Req(r) \in Requests /\ Recv(p) \in AllTasks \ Requests /\ Recv(p) # Req(r)
    BY Names DEF Requests
  <2>3. Running(z, Recv(p))
    <3> DEFINE b == TRUE
               t == Recv(p)
               u == Req(r)
    <3>1. b \in Bits /\ z = Started(s, u, b) /\ Running(s, t) /\ t \in AllTasks /\ u \in Requests /\ t # u
      BY <2>1, <2>2 DEF ProcRecv, Bits
    <3> HIDE DEF s, z, b, t, u
    <3>2. Running(Started(s, u, b), t)
      BY <3>1, StartRuns
    <3> QED BY <3>1, <3>2 DEF t
  <2>4. /\ RecvNext(p, z, "hdr")
        /\ UNCHANGED <<phase, peer_root, closed, sk, walk, destroy_tsk, sent, taken, recv_fn>>
    BY <1>1 DEF Receives, RecvMessage, peerVars
  <2> HIDE DEF s, z
  <2> QED BY <2>1, <2>3, <2>4, RecvNextKeeps DEF StepOK
<1>2. CASE ~recv_fn
  <2>1. "recv_fn" \in Ends /\ "recv_fn" # "no"
    BY DEF Ends
  <2>2. sched' = Dead(sched, "recv_fn")
    BY <1>2 DEF Receives, RecvMessage
  <2> QED BY <2>1, <2>2, DeadStep DEF AliveInv, StepOK
<1> QED BY <1>1, <1>2

-----------------------------------------------------------------------------
(* The sending tasks.                                                      *)

\* A step of the sending task of p, which leaves the queue with what
\* connection p has not taken.
LEMMA SendStepKeeps ==
    ASSUME AliveInv, TakenInv, NEW p \in Peer, TaskStep(Send(p)), ListsMoved,
           UNCHANGED <<walk, destroy_tsk, sent, taken, recv_fn>>,
           NEW queue \in Seq(Nat), sk' = [sk EXCEPT ![p].queue = queue],
           op'[Send(p)] # "none" => sched'.task[Send(p)].st = "live" /\ sched'.task[Send(p)].at = "send"
                                   /\ queue # <<>>,
           op'[Send(p)] # "ok",
           sk[p].st # "none", Len(taken[p]) + Len(queue) = sent[p],
           \A i \in 1 .. Len(queue) : queue[i] = Len(taken[p]) + i,
           FreedTask(Send(p)) => op[Send(p)] # "busy"
    PROVE  AliveInv' /\ IoStep
<1> DEFINE t == Send(p)
<1>0. SchedInv(sched) /\ TypeInv /\ ListInv /\ OwnerInv /\ MainInv /\ WalkInv /\ SendInv /\ QueueInv /\ BusyInv
  BY DEF AliveInv
<1>a. t \in AllTasks \ {Main, Destroyer} /\ t \in NetTask /\ \A q \in Peer : q # p => Send(q) # t
  BY Names, NetNames
<1>b. TaskStep(t) /\ (FreedTask(t) => op[t] # "busy") /\ op'[t] # "ok"
      /\ (op'[t] # "none" => sched'.task[t].st = "live" /\ sched'.task[t].at = "send" /\ queue # <<>>)
  OBVIOUS
<1>c. p \in Sock /\ Peer \subseteq Sock /\ sk \in [Sock -> [st: {"none", "open", "shut", "freed"}, queue: Seq(Nat)]]
  BY <1>0, SockNames DEF TypeInv
<1>d. /\ sk' \in [Sock -> [st: {"none", "open", "shut", "freed"}, queue: Seq(Nat)]]
      /\ sk'[p].queue = queue /\ sk'[p].st = sk[p].st
      /\ \A x \in Sock \ {p} : sk'[x] = sk[x]
  BY <1>c
<1>1. \A x \in Sock : sk'[x].st = sk[x].st
  BY <1>d
<1> HIDE DEF t
<1>2. SchedInv(sched')
  BY <1>b DEF TaskStep, SchedStep
<1>3. TypeInv'
  BY <1>0, <1>b, <1>d DEF TypeInv, TaskStep, OpStep, ListsMoved
<1>4. ListInv'
  BY <1>0, <1>1, ListsKeep
<1>5. OwnerInv'
  BY <1>0, <1>1, <1>a, <1>b, OwnersKeep
<1>6. MainInv'
  BY <1>0, <1>1, <1>a, <1>b, MainKeeps
<1>7. WalkInv'
  <2>1. ToSet(destroy_list) \subseteq ToSet(destroy_list')
    BY DEF ListsMoved
  <2> QED BY <1>0, <1>1, <1>a, <1>b, <2>1, WalkKeeps
<1>8. BusyInv'
  BY <1>0, <1>1, <1>a, <1>b, BusyKeeps
<1>9. ASSUME NEW q \in Peer, q # p
      PROVE  /\ op'[Send(q)] = op[Send(q)]
             /\ sched'.task[Send(q)].st = sched.task[Send(q)].st
             /\ sched'.task[Send(q)].at = sched.task[Send(q)].at
             /\ sk'[q] = sk[q]
  <2>1. Send(q) \in AllTasks \ Requests /\ Send(q) # t /\ q \in Sock \ {p}
    BY <1>9, <1>a, <1>c, Names DEF Requests
  <2> QED BY <1>b, <1>d, <2>1 DEF TaskStep, SchedStep, OpStep, OthersStay
<1>10. SendInv'
  <2>1. ASSUME NEW q \in Peer, op'[Send(q)] # "none"
        PROVE  sched'.task[Send(q)].st = "live" /\ sched'.task[Send(q)].at = "send" /\ sk'[q].queue # <<>>
    <3>1. CASE q = p
      BY <1>b, <1>d, <2>1, <3>1 DEF t
    <3>2. CASE q # p
      BY <1>0, <1>9, <2>1, <3>2 DEF SendInv
    <3> QED BY <3>1, <3>2
  <2> QED BY <2>1 DEF SendInv
<1>11. QueueInv'
  <2>0. taken' = taken /\ sent' = sent
    OBVIOUS
  <2>1. ASSUME NEW q \in Peer, sk'[q].st = "none" PROVE sent'[q] = 0 /\ taken'[q] = <<>>
    BY <1>0, <1>1, <1>c, <2>0, <2>1 DEF QueueInv
  <2>2. ASSUME NEW q \in Peer, q \in Allocated'
        PROVE  /\ Gone(q)' + Len(sk'[q].queue) = sent'[q]
               /\ \A i \in 1 .. Len(sk'[q].queue) : sk'[q].queue[i] = Gone(q)' + i
    <3>1. CASE q = p
      <4>1. Gone(q)' = Len(taken[p])
        <5>1. Len(taken[p]) \in Int
          BY DEF TakenInv
        <5> QED BY <1>b, <2>0, <3>1, <5>1 DEF Gone, t
      <4> QED BY <1>d, <2>0, <3>1, <4>1
    <3>2. CASE q # p
      <4>1. Gone(q)' = Gone(q) /\ sk'[q] = sk[q] /\ q \in Allocated
        BY <1>9, <2>0, <2>2, <3>2 DEF Gone, Allocated
      <4> QED BY <1>0, <2>0, <4>1 DEF QueueInv
    <3> QED BY <3>1, <3>2
  <2> QED BY <2>1, <2>2 DEF QueueInv
<1>12. IoStep
  BY <1>a, <1>b, OnlyOneFreed
<1> QED BY <1>2, <1>3, <1>4, <1>5, <1>6, <1>7, <1>8, <1>10, <1>11, <1>12 DEF AliveInv

\* The loop of send_utask, which ends when nothing is left.
LEMMA SendLoopKeeps ==
    ASSUME AliveInv, TakenInv, NEW p \in Peer, NEW s, Running(s, Send(p)), phase = "run",
           NEW queue \in Seq(Nat), SendLoop(p, s, queue),
           UNCHANGED <<phase, peer_root, closed, walk, destroy_tsk, sent, taken, recv_fn>>,
           queue = <<>> => op[Send(p)] = "none" \/ Completed(Send(p)),
           Len(taken[p]) + Len(queue) = sent[p],
           \A i \in 1 .. Len(queue) : queue[i] = Len(taken[p]) + i
    PROVE  StepOK
<1> DEFINE t == Send(p)
<1>0. op \in [AllTasks -> Ops]
  BY DEF AliveInv, TypeInv
<1>1. t \in AllTasks \ {Main, Destroyer} /\ t \in NetTask /\ SockOf(t) = p
  BY Names, NetNames
<1>2. sk' = [sk EXCEPT ![p].queue = queue] /\ Running(s, t)
  BY DEF SendLoop
<1>3. sk[p].st # "none"
  <2>1. SockOf(t) \in Allocated
    BY <1>1 DEF AliveInv, OwnerInv, Running
  <2> QED BY <1>1, <2>1 DEF Allocated
<1>4. CASE queue = <<>>
  <2>1. Consume(t) /\ (op[t] = "none" \/ Completed(t))
    BY <1>4 DEF SendLoop
  <2>2. CASE Canceled(t)
    <3>1. DestroySock(s, t, SockOf(t), sockets_list)
      BY <1>1, <1>4, <2>2 DEF SendLoop
    <3> HIDE DEF t
    <3>2. SchedStep(t) /\ ListsMoved /\ (FreedTask(t) => sched.task[t].destroyer = None)
      BY <1>1, <1>2, <3>1, DestroySockRuns
    <3>3. FreedTask(t) => op[t] # "busy"
      BY <1>1, <2>2, <3>2, EndsAfterOp
    <3>4. OpStep(t) /\ op'[t] = "none"
      BY <1>0, <1>1, <2>1, ConsumeGives
    <3>5. TaskStep(t)
      BY <3>2, <3>4 DEF TaskStep
    <3> QED BY <1>2, <1>3, <3>2, <3>3, <3>4, <3>5, SendStepKeeps DEF StepOK, t
  <2>3. CASE ~Canceled(t)
    <3>1. sched' = Sleep(s, t, "idle") /\ UNCHANGED <<sockets_list, destroy_list>> /\ "idle" \in Places
      BY <1>4, <2>3 DEF SendLoop, Places
    <3> HIDE DEF t
    <3>2. SchedStep(t) /\ sched'.task[t].st = "live"
      BY <1>1, <1>2, <3>1, SleepRuns
    <3>3. ListsMoved
      BY <3>1, ListsStay DEF AliveInv, listVars
    <3>4. OpStep(t) /\ op'[t] = "none"
      BY <1>0, <1>1, <2>1, ConsumeGives
    <3>5. TaskStep(t)
      BY <3>2, <3>4 DEF TaskStep
    <3>6. ~FreedTask(t)
      BY <3>2 DEF FreedTask
    <3> QED BY <1>2, <1>3, <3>3, <3>4, <3>5, <3>6, SendStepKeeps DEF StepOK, t
  <2> QED BY <2>2, <2>3
<1>5. CASE queue # <<>> /\ Canceled(t)
  <2>1. sched' = Dead(s, "sqe") /\ "sqe" \in Ends /\ "sqe" # "no" /\ op' = op
    BY <1>5 DEF SendLoop, Ends
  <2> HIDE DEF t
  <2>2. SchedStep(t) /\ ~Alive' /\ ~FreedTask(t)
    BY <1>1, <1>2, <2>1, DeadRuns
  <2>3. OpStep(t)
    BY <1>0, <1>1, <2>1, OpStays
  <2>4. TaskStep(t)
    BY <2>2, <2>3 DEF TaskStep
  <2>5. IoStep
    BY <1>1, <2>2, <2>4, OnlyOneFreed
  <2> QED BY <2>2, <2>5 DEF StepOK
<1>6. CASE queue # <<>> /\ ~Canceled(t)
  <2>1. sched' = Sleep(s, t, "send") /\ UNCHANGED <<sockets_list, destroy_list>> /\ "send" \in Places /\ Prepare(t)
    BY <1>6 DEF SendLoop, Places
  <2> HIDE DEF t
  <2>2. SchedStep(t) /\ sched'.task[t].st = "live" /\ sched'.task[t].at = "send"
    BY <1>1, <1>2, <2>1, SleepRuns
  <2>3. ListsMoved
    BY <2>1, ListsStay DEF AliveInv, listVars
  <2>4. OpStep(t) /\ op'[t] = "prep"
    BY <1>0, <1>1, <2>1, PrepareGives
  <2>5. TaskStep(t)
    BY <2>2, <2>4 DEF TaskStep
  <2>6. ~FreedTask(t)
    BY <2>2 DEF FreedTask
  <2> QED BY <1>2, <1>3, <1>6, <2>2, <2>3, <2>4, <2>5, <2>6, SendStepKeeps DEF StepOK, t
<1> QED BY <1>4, <1>5, <1>6

\* What the invariant says of the queue of a task that runs
LEMMA QueueOf ==
    ASSUME AliveInv, TakenInv, NEW p \in Peer, sched.task[Send(p)].st = "live"
    PROVE  /\ sk[p].queue \in Seq(Nat) /\ Len(taken[p]) \in Nat /\ sent[p] \in Nat
           /\ Gone(p) + Len(sk[p].queue) = sent[p]
           /\ \A i \in 1 .. Len(sk[p].queue) : sk[p].queue[i] = Gone(p) + i
<1>1. p \in Sock /\ Send(p) \in NetTask /\ SockOf(Send(p)) = p
  BY Names, NetNames, SockNames
<1>2. p \in Allocated
  BY <1>1 DEF AliveInv, OwnerInv
<1>3. sk[p].queue \in Seq(Nat) /\ sent[p] \in Nat
  BY <1>1 DEF AliveInv, TypeInv
<1>4. Len(taken[p]) \in Nat
  BY DEF TakenInv
<1> QED BY <1>2, <1>3, <1>4 DEF AliveInv, QueueInv

LEMMA SendRunsKeeps ==
    ASSUME AliveInv, TakenInv, NEW p \in Peer, SendRuns(p)
    PROVE  StepOK
<1> DEFINE s == Switch(sched)
           queue == sk[p].queue
<1>0. Send(p) \in AllTasks
  BY Names
<1>1. PICK at \in {"start", "idle"} : Runs(Send(p), at)
  BY DEF SendRuns
<1>2. Running(s, Send(p)) /\ phase = "run" /\ sched.task[Send(p)].at = at /\ sched.task[Send(p)].st = "live"
  BY <1>0, <1>1, RunsGives DEF AliveInv
<1>3. op[Send(p)] = "none"
  BY <1>2 DEF AliveInv, SendInv
<1>4. /\ SendLoop(p, s, queue)
      /\ UNCHANGED <<phase, peer_root, closed, walk, destroy_tsk, sent, taken, recv_fn>>
  BY DEF SendRuns, peerVars
<1>5. /\ queue \in Seq(Nat) /\ Len(taken[p]) \in Nat /\ sent[p] \in Nat
      /\ Gone(p) + Len(queue) = sent[p]
      /\ \A i \in 1 .. Len(queue) : queue[i] = Gone(p) + i
  BY <1>2, QueueOf
<1>6. Gone(p) = Len(taken[p])
  BY <1>3, <1>5 DEF Gone
<1> HIDE DEF s, queue
<1> QED BY <1>2, <1>3, <1>4, <1>5, <1>6, SendLoopKeeps

LEMMA SendReturnsKeeps ==
    ASSUME AliveInv, TakenInv, NEW p \in Peer, SendReturns(p)
    PROVE  StepOK
<1> DEFINE s == Switch(sched)
           old == sk[p].queue
           queue == EntriesLeft(p)
<1>0. Send(p) \in AllTasks
  BY Names
<1>2. Running(s, Send(p)) /\ phase = "run" /\ sched.task[Send(p)].st = "live"
  BY <1>0, RunsGives DEF AliveInv, SendReturns
<1>3. CASE op[Send(p)] = "short"
  <2>1. sched' = Dead(sched, "short") /\ "short" \in Ends /\ "short" # "no"
    BY <1>3 DEF SendReturns, Ends
  <2> QED BY <2>1, DeadStep DEF AliveInv, StepOK
<1>4. CASE op[Send(p)] # "short"
  <2>1. /\ SendLoop(p, s, queue)
        /\ UNCHANGED <<phase, peer_root, closed, walk, destroy_tsk, sent, taken, recv_fn>>
    BY <1>4 DEF SendReturns, peerVars
  <2>2. /\ old \in Seq(Nat) /\ Len(taken[p]) \in Nat /\ sent[p] \in Nat
        /\ Gone(p) + Len(old) = sent[p]
        /\ \A i \in 1 .. Len(old) : old[i] = Gone(p) + i
    BY <1>2, QueueOf
  <2>3. op[Send(p)] # "none" => old # <<>>
    BY DEF AliveInv, SendInv
  <2>4. queue = IF op[Send(p)] = "ok" THEN Tail(old) ELSE old
    BY DEF EntriesLeft
  <2> HIDE DEF s, queue, old
  <2>5. /\ queue \in Seq(Nat) /\ Len(taken[p]) + Len(queue) = sent[p]
        /\ \A i \in 1 .. Len(queue) : queue[i] = Len(taken[p]) + i
        /\ queue = <<>> => op[Send(p)] = "none" \/ Completed(Send(p))
    <3>1. CASE op[Send(p)] = "ok"
      <4>1. old # <<>> /\ queue = Tail(old) /\ Gone(p) = Len(taken[p]) - 1
        BY <2>2, <2>3, <2>4, <3>1 DEF Gone
      <4>2. /\ queue \in Seq(Nat) /\ Len(queue) = Len(old) - 1
            /\ \A i \in 1 .. Len(queue) : queue[i] = old[i + 1] /\ i + 1 \in 1 .. Len(old)
        BY <2>2, <4>1
      <4>3. Completed(Send(p))
        BY <3>1 DEF Completed
      <4>4. \A i \in 1 .. Len(queue) : queue[i] = Len(taken[p]) + i
        BY <2>2, <4>1, <4>2
      <4> QED BY <2>2, <4>1, <4>2, <4>3, <4>4
    <3>2. CASE op[Send(p)] # "ok"
      <4>1. queue = old /\ Gone(p) = Len(taken[p])
        BY <2>2, <2>4, <3>2 DEF Gone
      <4> QED BY <2>2, <2>3, <4>1
    <3> QED BY <3>1, <3>2
  <2> QED BY <1>2, <2>1, <2>5, SendLoopKeeps
<1> QED BY <1>3, <1>4

-----------------------------------------------------------------------------
(* The tasks that read signals and serve requests.                         *)

\* net_send by a request puts the next message at the end of a queue.
LEMMA NetSendKeeps ==
    ASSUME AliveInv, TakenInv, NEW t \in Requests, Running(Switch(sched), t), phase = "run", OpStep(t),
           NEW q, NetSend(Switch(sched), t, q),
           UNCHANGED <<phase, listVars, closed, walk, destroy_tsk, taken, recv_fn>>
    PROVE  StepOK
<1> DEFINE s == Switch(sched)
<1>0. SchedInv(sched) /\ TypeInv /\ ListInv /\ OwnerInv /\ MainInv /\ WalkInv /\ SendInv /\ QueueInv /\ BusyInv
  BY DEF AliveInv
<1>1. t \in AllTasks \ {Main, Destroyer} /\ t \notin NetTask /\ Running(s, t) /\ \A p \in Peer : t # Send(p)
  BY Names DEF Requests
<1> HIDE DEF s
<1>2. CASE Found(q)
  <2>1. /\ sk' = [sk EXCEPT ![q].queue = Append(sk[q].queue, sent[q] + 1)]
        /\ sent' = [sent EXCEPT ![q] = sent[q] + 1]
        /\ sched' = Finish(Wake(s, Send(q)), t)
    BY <1>2 DEF NetSend, s
  <2>2. q \in Peer /\ q \in Sock /\ q \in Allocated
    BY <1>0, <1>2, SockNames DEF Found, ListInv, Allocated
  <2>3. Send(q) \in AllTasks \ {t} /\ Send(q) \in AllTasks \ Requests /\ Send(q) \in NetTask /\ SockOf(Send(q)) = q
    BY <1>1, <2>2, Names, NetNames DEF Requests
  <2>4. s.task[Send(q)].st # "none"
    <3>1. sched.task[Send(q)].st # "none"
      BY <1>0, <2>2, <2>3 DEF OwnerInv, Allocated
    <3> QED BY <1>1, <2>3, <3>1 DEF Running, OthersStay
  <2>5. Running(Wake(s, Send(q)), t)
    BY <1>1, <2>3, <2>4, WakeRuns
  <2>6. SchedStep(t)
    BY <1>1, <2>1, <2>5, FinishRuns
  <2>7. TaskStep(t)
    BY <2>6 DEF TaskStep
  <2>8. sk \in [Sock -> [st: {"none", "open", "shut", "freed"}, queue: Seq(Nat)]] /\ sent \in [Peer -> Nat]
    BY <1>0 DEF TypeInv
  <2> DEFINE old == sk[q].queue
             new == Append(sk[q].queue, sent[q] + 1)
  <2>9. /\ new \in Seq(Nat) /\ Len(new) = Len(old) + 1 /\ Len(old) \in Nat /\ sent[q] \in Nat
        /\ new[Len(old) + 1] = sent[q] + 1 /\ \A i \in 1 .. Len(old) : new[i] = old[i]
        /\ new # <<>>
    BY <2>2, <2>8
  <2> HIDE DEF new, old
  <2>10. /\ sk' \in [Sock -> [st: {"none", "open", "shut", "freed"}, queue: Seq(Nat)]]
         /\ sk'[q].queue = new /\ sk'[q].st = sk[q].st
         /\ \A x \in Sock \ {q} : sk'[x] = sk[x]
         /\ sent' \in [Peer -> Nat] /\ sent'[q] = sent[q] + 1 /\ \A p \in Peer \ {q} : sent'[p] = sent[p]
    <3>1. sk' = [sk EXCEPT ![q].queue = new]
      BY <2>1 DEF new
    <3>2. /\ sk' \in [Sock -> [st: {"none", "open", "shut", "freed"}, queue: Seq(Nat)]]
          /\ sk'[q].queue = new /\ sk'[q].st = sk[q].st
          /\ \A x \in Sock \ {q} : sk'[x] = sk[x]
      BY <2>2, <2>8, <2>9, <3>1
    <3>3. sent' \in [Peer -> Nat] /\ sent'[q] = sent[q] + 1 /\ \A p \in Peer \ {q} : sent'[p] = sent[p]
      BY <2>1, <2>2, <2>8, <2>9
    <3> QED BY <3>2, <3>3
  <2>11. \A x \in Sock : sk'[x].st = sk[x].st
    BY <2>10
  <2>12. ListsMoved
    BY <1>0, ListsStay
  <2>13. SchedInv(sched')
    BY <2>6 DEF SchedStep
  <2>14. TypeInv'
    BY <1>0, <2>10, <2>12 DEF TypeInv, OpStep, ListsMoved
  <2>15. ListInv'
    BY <1>0, <2>11, <2>12, ListsKeep
  <2>16. OwnerInv'
    BY <1>0, <1>1, <2>7, <2>11, OwnersKeep
  <2>17. MainInv'
    BY <1>0, <1>1, <2>7, <2>11, MainKeeps
  <2>18. WalkInv'
    <3>1. ToSet(destroy_list) \subseteq ToSet(destroy_list')
      BY <2>12 DEF ListsMoved
    <3> QED BY <1>0, <1>1, <2>7, <2>11, <3>1, WalkKeeps
  <2>19. BusyInv'
    BY <1>0, <1>1, <2>7, <2>11, BusyKeeps
  <2>20. ASSUME NEW p \in Peer
         PROVE  /\ op'[Send(p)] = op[Send(p)]
                /\ sched'.task[Send(p)].st = sched.task[Send(p)].st
                /\ sched'.task[Send(p)].at = sched.task[Send(p)].at
    <3>1. Send(p) \in AllTasks \ Requests /\ Send(p) # t
      BY <1>1, Names DEF Requests
    <3> QED BY <2>7, <3>1 DEF TaskStep, SchedStep, OpStep, OthersStay
  <2>21. \A p \in Peer : sk[p].queue # <<>> => sk'[p].queue # <<>>
    BY <2>9, <2>10, SockNames
  <2>22. SendInv'
    BY <1>0, <2>20, <2>21 DEF SendInv
  <2>23. QueueInv'
    <3>1. \A p \in Peer : Gone(p)' = Gone(p)
      BY <2>20 DEF Gone
    <3>2. taken' = taken
      OBVIOUS
    <3>3. ASSUME NEW p \in Peer, sk'[p].st = "none" PROVE sent'[p] = 0 /\ taken'[p] = <<>>
      <4>1. sk[p].st = "none" /\ p # q
        BY <2>2, <2>11, <3>3, SockNames DEF Allocated
      <4> QED BY <1>0, <2>10, <3>2, <4>1 DEF QueueInv
    <3>4. ASSUME NEW p \in Peer, p \in Allocated'
          PROVE  /\ Gone(p)' + Len(sk'[p].queue) = sent'[p]
                 /\ \A i \in 1 .. Len(sk'[p].queue) : sk'[p].queue[i] = Gone(p)' + i
      <4>1. p \in Allocated
        BY <2>11, <3>4, SockNames DEF Allocated
      <4>2. /\ Gone(p) + Len(sk[p].queue) = sent[p]
            /\ \A i \in 1 .. Len(sk[p].queue) : sk[p].queue[i] = Gone(p) + i
        BY <1>0, <4>1 DEF QueueInv
      <4>3. CASE p = q
        <5>1. Gone(p) \in Int
          <6>1. Len(taken[p]) \in Nat
            BY DEF TakenInv
          <6> QED BY <6>1 DEF Gone
        <5>2. Gone(p) + Len(old) = sent[q] /\ \A i \in 1 .. Len(old) : old[i] = Gone(p) + i
          BY <4>2, <4>3 DEF old
        <5>3. Gone(p) + Len(new) = sent[q] + 1
          BY <2>9, <5>1, <5>2
        <5>4. \A i \in 1 .. Len(new) : new[i] = Gone(p) + i
          <6>1. ASSUME NEW i \in 1 .. Len(new) PROVE new[i] = Gone(p) + i
            <7>1. CASE i \in 1 .. Len(old)
              BY <2>9, <5>2, <7>1
            <7>2. CASE i = Len(old) + 1
              BY <2>9, <5>1, <5>2, <7>2
            <7> QED BY <2>9, <7>1, <7>2
          <6> QED BY <6>1
        <5> QED BY <2>10, <3>1, <4>3, <5>3, <5>4
      <4>4. CASE p # q
        <5>1. sk'[p] = sk[p] /\ sent'[p] = sent[p]
          BY <2>10, <4>4, SockNames
        <5> QED BY <3>1, <4>2, <5>1
      <4> QED BY <4>3, <4>4
    <3> QED BY <3>3, <3>4 DEF QueueInv
  <2>24. IoStep
    BY <1>1, <2>7, OnlyOneFreed
  <2> QED BY <2>13, <2>14, <2>15, <2>16, <2>17, <2>18, <2>19, <2>22, <2>23, <2>24 DEF AliveInv, StepOK
<1>3. CASE ~Found(q)
  <2>1. sched' = Dead(s, "gone") /\ "gone" \in Ends /\ "gone" # "no"
    BY <1>3 DEF NetSend, s, Ends
  <2>2. SchedStep(t) /\ ~Alive'
    BY <1>1, <2>1, DeadRuns
  <2>3. TaskStep(t)
    BY <2>2 DEF TaskStep
  <2>4. IoStep
    BY <1>1, <2>3, OnlyOneFreed
  <2> QED BY <2>2, <2>4 DEF StepOK
<1> QED BY <1>2, <1>3

\* A step of a task that is not one of the connections, nor main's
LEMMA PlainKeeps ==
    ASSUME AliveInv, TakenInv, NEW t \in AllTasks \ (NetTask \union {Main, Destroyer}), TaskStep(t),
           UNCHANGED <<listVars, closed, sk, walk, destroy_tsk, sent, taken, recv_fn>>
    PROVE  AliveInv' /\ IoStep
<1>1. \A p \in Peer : t # Send(p)
  BY Names
<1>2. ListsMoved
  BY ListsStay DEF AliveInv
<1>3. recv_fn' \in BOOLEAN
  BY DEF AliveInv, TypeInv
<1> QED BY <1>1, <1>2, <1>3, StepKeeps

LEMMA SigStartsKeeps ==
    ASSUME AliveInv, TakenInv, SigStarts
    PROVE  AliveInv' /\ IoStep
<1>1. SigRead \in AllTasks \ (NetTask \union {Main, Destroyer})
  BY Names
<1>2. Running(Switch(sched), SigRead) /\ phase = "run"
  BY <1>1, RunsGives DEF SigStarts, AliveInv
<1>3. SchedStep(SigRead)
  <2>1. sched' = Sleep(Switch(sched), SigRead, "read") /\ "read" \in Places
    BY DEF SigStarts, Places
  <2> QED BY <1>1, <1>2, <2>1, SleepRuns
<1>4. OpStep(SigRead)
  BY <1>1, PrepareGives DEF SigStarts, AliveInv, TypeInv
<1>5. UNCHANGED <<phase, listVars, closed, sk, walk, destroy_tsk, sent, taken, recv_fn>>
  BY DEF SigStarts, peerVars
<1>6. TaskStep(SigRead)
  BY <1>2, <1>3, <1>4, <1>5 DEF TaskStep
<1> QED BY <1>1, <1>5, <1>6, PlainKeeps

LEMMA SigReturnsKeeps ==
    ASSUME AliveInv, TakenInv, SigReturns
    PROVE  AliveInv' /\ IoStep
<1> DEFINE s == IF Completed(SigRead) THEN Cancel(Switch(sched), Main) ELSE Switch(sched)
<1>1. SigRead \in AllTasks \ (NetTask \union {Main, Destroyer}) /\ Main \in AllTasks \ (NetTask \union {SigRead})
  BY Names
<1>2. Running(Switch(sched), SigRead) /\ phase = "run" /\ Switch(sched).task = sched.task
  BY <1>1, RunsGives DEF SigReturns, AliveInv
<1>3. Running(s, SigRead)
  <2>1. Switch(sched).task[Main].st # "none"
    BY <1>2 DEF AliveInv, MainInv
  <2>2. Running(Cancel(Switch(sched), Main), SigRead)
    BY <1>1, <1>2, <2>1, CancelRuns
  <2> QED BY <1>2, <2>2
<1>4. \/ sched' = Finish(s, SigRead) /\ Consume(SigRead)
      \/ sched' = s /\ Prepare(SigRead)
  BY DEF SigReturns
<1> HIDE DEF s
<1>5. SchedStep(SigRead)
  <2>1. CASE sched' = Finish(s, SigRead)
    BY <1>1, <1>3, <2>1, FinishRuns
  <2>2. CASE sched' = s
    <3>1. SchedInv(sched') /\ OthersStay(sched, sched', Requests) /\ sched'.task[SigRead] = sched.task[SigRead]
      BY <1>3, <2>2 DEF Running
    <3>2. OthersStay(sched, sched', {SigRead} \union Requests)
      BY <3>1 DEF OthersStay
    <3> QED BY <3>1, <3>2 DEF SchedStep
  <2> QED BY <1>4, <2>1, <2>2
<1>6. OpStep(SigRead)
  BY <1>1, <1>4, PrepareGives, ConsumeGives DEF AliveInv, TypeInv
<1>7. UNCHANGED <<phase, listVars, closed, sk, walk, destroy_tsk, sent, taken, recv_fn>>
  BY DEF SigReturns, peerVars
<1>8. TaskStep(SigRead)
  BY <1>2, <1>5, <1>6, <1>7 DEF TaskStep
<1> QED BY <1>1, <1>7, <1>8, PlainKeeps

\* The wait of a task goes on: the same as no step of another.
LEMMA SleepsOnKeeps ==
    ASSUME AliveInv, TakenInv, NEW t \in AllTasks, SleepsOn(t)
    PROVE  AliveInv' /\ IoStep
<1>1. SigRead \in AllTasks \ (NetTask \union {Main, Destroyer})
  BY Names
<1>2. Running(Switch(sched), t) /\ phase = "run" /\ Switch(sched).task = sched.task
  BY RunsGives DEF SleepsOn, AliveInv
<1>3. sched' = Switch(sched) /\ UNCHANGED netVars
  BY DEF SleepsOn
<1>4. SchedStep(SigRead)
  <2>1. SchedInv(sched') /\ sched'.task = sched.task
    BY <1>2, <1>3 DEF Running
  <2> QED BY <2>1 DEF SchedStep, OthersStay
<1>5. UNCHANGED <<phase, op, listVars, closed, sk, walk, destroy_tsk, sent, taken, recv_fn>>
  BY <1>3 DEF netVars, peerVars
<1>6. OpStep(SigRead)
  BY <1>1, <1>5, OpStays DEF AliveInv, TypeInv
<1>7. TaskStep(SigRead)
  BY <1>2, <1>4, <1>5, <1>6 DEF TaskStep
<1> QED BY <1>1, <1>5, <1>7, PlainKeeps

LEMMA RequestNames ==
    ASSUME NEW r \in Request
    PROVE  Req(r) \in Requests /\ Req(r) \in AllTasks \ (NetTask \union {Main, Destroyer})
BY Names DEF Requests

LEMMA RlockRunsKeeps ==
    ASSUME AliveInv, TakenInv, NEW r \in Request, RlockRuns(r)
    PROVE  StepOK
<1> DEFINE t == Req(r)
<1>0. t \in Requests /\ t \in AllTasks \ (NetTask \union {Main, Destroyer})
  BY RequestNames
<1>1. Running(Switch(sched), t) /\ phase = "run"
  BY <1>0, RunsGives DEF RlockRuns, AliveInv
<1>2. op' = op /\ UNCHANGED <<phase, listVars, closed, walk, destroy_tsk, taken, recv_fn>>
  BY DEF RlockRuns
<1>3. OpStep(t)
  BY <1>0, <1>2, OpStays DEF AliveInv, TypeInv
<1>4. CASE sched' = Dead(sched, "rlock")
  <2>1. "rlock" \in Ends /\ "rlock" # "no"
    BY DEF Ends
  <2> QED BY <1>4, <2>1, DeadStep DEF AliveInv, StepOK
<1>5. CASE sched' = Finish(Switch(sched), t) /\ UNCHANGED <<sk, sent>>
  <2> HIDE DEF t
  <2>1. SchedStep(t)
    BY <1>0, <1>1, <1>5, FinishRuns
  <2>2. TaskStep(t)
    BY <1>1, <1>2, <1>3, <2>1 DEF TaskStep
  <2> QED BY <1>0, <1>2, <1>5, <2>2, PlainKeeps DEF StepOK
<1>6. ASSUME NEW q, NetSend(Switch(sched), t, q) PROVE StepOK
  <2> HIDE DEF t
  <2> QED BY <1>0, <1>1, <1>2, <1>3, <1>6, NetSendKeeps
<1> QED BY <1>4, <1>5, <1>6 DEF RlockRuns

LEMMA BlockRunsKeeps ==
    ASSUME AliveInv, TakenInv, NEW r \in Request, BlockRuns(r)
    PROVE  StepOK
<1> DEFINE t == Req(r)
<1>0. t \in Requests /\ t \in AllTasks \ (NetTask \union {Main, Destroyer})
  BY RequestNames
<1>1. Running(Switch(sched), t) /\ phase = "run"
  BY <1>0, RunsGives DEF BlockRuns, AliveInv
<1>2. Prepare(t) /\ UNCHANGED <<phase, listVars, closed, sk, walk, destroy_tsk, sent, taken, recv_fn>>
  BY DEF BlockRuns, peerVars
<1>4. CASE sched' = Dead(sched, "lstore")
  <2>1. "lstore" \in Ends /\ "lstore" # "no"
    BY DEF Ends
  <2> QED BY <1>4, <2>1, DeadStep DEF AliveInv, StepOK
<1>5. CASE sched' = Sleep(Switch(sched), t, "lstore")
  <2>0. "lstore" \in Places
    BY DEF Places
  <2> HIDE DEF t
  <2>1. SchedStep(t)
    BY <1>0, <1>1, <1>5, <2>0, SleepRuns
  <2>2. OpStep(t)
    BY <1>0, <1>2, PrepareGives DEF AliveInv, TypeInv
  <2>3. TaskStep(t)
    BY <1>1, <1>2, <2>1, <2>2 DEF TaskStep
  <2> QED BY <1>0, <1>2, <2>3, PlainKeeps DEF StepOK
<1> QED BY <1>4, <1>5 DEF BlockRuns

LEMMA BlockRepliesKeeps ==
    ASSUME AliveInv, TakenInv, NEW r \in Request, BlockReplies(r)
    PROVE  StepOK
<1> DEFINE t == Req(r)
<1>0. t \in Requests /\ t \in AllTasks \ (NetTask \union {Main, Destroyer})
  BY RequestNames
<1>1. Running(Switch(sched), t) /\ phase = "run"
  BY <1>0, RunsGives DEF BlockReplies, AliveInv
<1>2. Consume(t) /\ UNCHANGED <<phase, listVars, closed, walk, destroy_tsk, taken, recv_fn>>
  BY DEF BlockReplies
<1>3. OpStep(t)
  BY <1>0, <1>2, ConsumeGives DEF AliveInv, TypeInv
<1>4. CASE sched' = Dead(sched, "lstore")
  <2>1. "lstore" \in Ends /\ "lstore" # "no"
    BY DEF Ends
  <2> QED BY <1>4, <2>1, DeadStep DEF AliveInv, StepOK
<1>5. CASE NetSend(Switch(sched), t, from[r])
  <2> HIDE DEF t
  <2> QED BY <1>0, <1>1, <1>2, <1>3, <1>5, NetSendKeeps
<1> QED BY <1>4, <1>5 DEF BlockReplies

-----------------------------------------------------------------------------
(* The main task.                                                          *)

\* A step of main_utask, which may start the task that reads signals and the
\* one that destroys sockets, or free them.
MainStep ==
    /\ phase = "run" /\ phase' = "run"
    /\ SchedInv(sched')
    /\ OthersStay(sched, sched', {Main, SigRead, Destroyer} \union Requests)
    /\ \/ sched'.task[Destroyer].at = "idle"
       \/ /\ sched'.task[Destroyer].at = sched.task[Destroyer].at
          /\ sched'.task[Destroyer].st \in {sched.task[Destroyer].st, "freed"}
    /\ OpStep(Main)

LEMMA MainStepKeeps ==
    ASSUME AliveInv, TakenInv, MainStep, ListsMoved, MainInv', UNCHANGED <<sk, walk, sent, taken>>,
           recv_fn' \in BOOLEAN, destroy_tsk' \in BOOLEAN
    PROVE  AliveInv' /\ IoStep
<1>0. SchedInv(sched) /\ TypeInv /\ ListInv /\ OwnerInv /\ MainInv /\ WalkInv /\ SendInv /\ QueueInv /\ BusyInv
  BY DEF AliveInv
<1>1. \A x \in Sock : sk'[x].st = sk[x].st
  OBVIOUS
<1>2. ASSUME NEW u \in NetTask
      PROVE  /\ sched'.task[u].st = sched.task[u].st
             /\ sched'.task[u].at = sched.task[u].at
             /\ op'[u] = op[u]
  <2>1. u \in AllTasks \ ({Main, SigRead, Destroyer} \union Requests)
    BY Names DEF Requests
  <2> QED BY <2>1 DEF MainStep, OthersStay, OpStep
<1>3. SchedInv(sched') /\ phase = "run" /\ phase' = "run" /\ op' \in [AllTasks -> Ops]
  BY DEF MainStep, OpStep
<1>4. TypeInv'
  BY <1>0, <1>3 DEF TypeInv, ListsMoved
<1>5. ListInv'
  BY <1>0, <1>1, ListsKeep
<1>6. Allocated' = Allocated
  BY DEF Allocated
<1>7. OwnerInv'
  BY <1>0, <1>2, <1>6 DEF OwnerInv
<1>8. WalkInv'
  <2>1. ToSet(destroy_list) \subseteq ToSet(destroy_list')
    BY DEF ListsMoved
  <2>2. Walking => Walking'
    BY <1>2, <2>1 DEF Walking
  <2>3. sched'.task[Destroyer].at \in {"cancel", "tasks"} /\ sched'.task[Destroyer].st = "live" =>
          sched.task[Destroyer].at \in {"cancel", "tasks"} /\ sched.task[Destroyer].st = "live"
    BY DEF MainStep
  <2> QED BY <1>0, <2>2, <2>3 DEF WalkInv
<1>9. \A p \in Peer : Send(p) \in NetTask
  BY Names
<1>10. SendInv'
  BY <1>0, <1>2, <1>9 DEF SendInv
<1>11. QueueInv'
  <2>1. \A p \in Peer : Gone(p)' = Gone(p)
    BY <1>2, <1>9 DEF Gone
  <2> QED BY <1>0, <1>6, <2>1 DEF QueueInv
<1>12. BusyInv'
  <2>1. sched'.task[Destroyer].at = "tasks" => sched.task[Destroyer].at = "tasks"
    BY DEF MainStep
  <2>2. op'[Destroyer] = op[Destroyer]
    BY Names DEF MainStep, OpStep
  <2> QED BY <1>0, <1>2, <1>3, <2>1, <2>2 DEF BusyInv
<1>13. IoStep
  BY <1>2 DEF IoStep, FreedTask
<1> QED BY <1>3, <1>4, <1>5, <1>7, <1>8, <1>10, <1>11, <1>12, <1>13 DEF AliveInv

\* The main task runs.
LEMMA MainRuns ==
    ASSUME AliveInv, NEW at, Runs(Main, at)
    PROVE  /\ SchedInv(Switch(sched)) /\ Main \notin ToSet(Switch(sched).run_list)
           /\ Switch(sched).task = sched.task
           /\ phase = "run" /\ sched.task[Main].at = at /\ sched.task[Main].st = "live"
           /\ Main \in AllTasks /\ SigRead \in AllTasks /\ Destroyer \in AllTasks
           /\ Main # SigRead /\ Main # Destroyer /\ SigRead # Destroyer
<1>1. Main \in AllTasks /\ SigRead \in AllTasks /\ Destroyer \in AllTasks /\ Main # SigRead /\ Main # Destroyer /\ SigRead # Destroyer
  BY Names
<1>2. Running(Switch(sched), Main) /\ Switch(sched).task = sched.task
      /\ phase = "run" /\ sched.task[Main].at = at /\ sched.task[Main].st = "live"
  BY <1>1, RunsGives DEF AliveInv
<1> QED BY <1>1, <1>2 DEF Running

LEMMA MainStartsKeeps ==
    ASSUME AliveInv, TakenInv, MainStarts
    PROVE  AliveInv' /\ IoStep
<1> DEFINE s == Switch(sched)
<1>1. /\ SchedInv(s) /\ s.task = sched.task
      /\ phase = "run" /\ sched.task[Main].at = "start" /\ sched.task[Main].st = "live"
      /\ Main \in AllTasks /\ SigRead \in AllTasks /\ Destroyer \in AllTasks
      /\ Main # SigRead /\ Main # Destroyer /\ SigRead # Destroyer
  BY MainRuns DEF MainStarts
<1>2. /\ Prepare(Main)
      /\ UNCHANGED <<phase, listVars, closed, sk, walk, recv_fn, destroy_tsk, sent, taken>>
  BY DEF MainStarts, peerVars
<1>3. PICK b \in LeftInMemory(sched) : sched' = Sleep(Started(s, SigRead, b), Main, "load")
  BY DEF MainStarts
<1>4. b \in Bits
  BY <1>3, BitInMemory DEF AliveInv
<1> DEFINE z == Started(s, SigRead, b)
<1> HIDE DEF s
<1>5. SchedInv(z) /\ (\A u \in AllTasks \ {SigRead} : z.task[u] = s.task[u]) /\ z.task[SigRead].st = "live"
  BY <1>1, <1>4, StartedKeeps
<1> HIDE DEF z
<1>6. sched' = Sleep(z, Main, "load") /\ "load" \in Places
  BY <1>3 DEF z, Places
<1>7. /\ SchedInv(sched') /\ OthersStay(z, sched', {Main})
      /\ (\A u \in AllTasks : sched'.task[u].st = z.task[u].st) /\ sched'.task[Main].at = "load"
  <2>1. SchedInv(z) /\ Main \in AllTasks
    BY <1>1, <1>5
  <2> QED BY <1>6, <2>1, Sleeps
<1>8. OthersStay(sched, sched', {Main, SigRead})
  BY <1>1, <1>5, <1>7 DEF OthersStay
<1>9. MainStep
  <2>1. OpStep(Main)
    BY <1>1, <1>2, PrepareGives DEF AliveInv, TypeInv
  <2>2. OthersStay(sched, sched', {Main, SigRead, Destroyer} \union Requests)
    BY <1>8 DEF OthersStay
  <2>3. sched'.task[Destroyer].at = sched.task[Destroyer].at /\ sched'.task[Destroyer].st = sched.task[Destroyer].st
    BY <1>1, <1>8 DEF OthersStay
  <2> QED BY <1>1, <1>2, <1>7, <2>1, <2>2, <2>3 DEF MainStep
<1>10. MainInv'
  <2>1. MainInv
    BY DEF AliveInv
  <2>2. sched'.task[Destroyer].st = sched.task[Destroyer].st
    BY <1>1, <1>8 DEF OthersStay
  <2>3. sched'.task[Main].st = "live" /\ sched'.task[SigRead].st = "live"
    BY <1>1, <1>5, <1>7
  <2> QED BY <1>1, <1>2, <1>7, <2>1, <2>2, <2>3 DEF MainInv
<1>11. ListsMoved
  BY <1>2, ListsStay DEF AliveInv
<1>12. recv_fn' \in BOOLEAN /\ destroy_tsk' \in BOOLEAN
  BY <1>2 DEF AliveInv, TypeInv
<1> QED BY <1>2, <1>9, <1>10, <1>11, <1>12, MainStepKeeps

\* sigcb_free, until it sleeps for the task that reads signals
LEMMA ExitRuns ==
    ASSUME NEW s, SchedInv(s), s.task[Main].st # "none", s.task[SigRead].st # "none", ExitGoesOn(s)
    PROVE  /\ SchedInv(sched') /\ OthersStay(s, sched', {Main})
           /\ sched'.task[Main].st = s.task[Main].st /\ sched'.task[Main].at = "sigcb_free"
<1> DEFINE d == DestroyStart(s, SigRead, Main)
<1>1. Main \in AllTasks /\ SigRead \in AllTasks
  BY Names
<1>2. SchedInv(d) /\ OthersStay(s, d, {})
  BY <1>1, DestroyStartKeeps
<1>3. sched' = Sleep(d, Main, "sigcb_free") /\ "sigcb_free" \in Places
  BY DEF ExitGoesOn, Places
<1> HIDE DEF d
<1>4. /\ SchedInv(sched') /\ OthersStay(d, sched', {Main})
      /\ (\A u \in AllTasks : sched'.task[u].st = d.task[u].st) /\ sched'.task[Main].at = "sigcb_free"
  BY <1>1, <1>2, <1>3, Sleeps
<1> QED BY <1>1, <1>2, <1>4 DEF OthersStay

\* net_exit, until it sleeps for the destroying task
LEMMA NetExitRuns ==
    ASSUME AliveInv, NEW s, SchedInv(s), s.task[Main].st # "none", s.task[Destroyer].st # "none", NetExit(s),
           UNCHANGED <<peer_root, closed>>
    PROVE  /\ SchedInv(sched') /\ OthersStay(s, sched', {Main}) /\ ListsMoved
           /\ sched'.task[Main].st = s.task[Main].st /\ sched'.task[Main].at = "net_exit"
<1> DEFINE w == Wake(s, Destroyer)
           d == DestroyStart(w, Destroyer, Main)
<1>1. Main \in AllTasks /\ Destroyer \in AllTasks
  BY Names
<1>2. SchedInv(w) /\ w.task = s.task
  BY <1>1, WakeKeeps
<1>3. sched' = Sleep(d, Main, "net_exit") /\ "net_exit" \in Places
  BY DEF NetExit, Places
<1> HIDE DEF w
<1>4. SchedInv(d) /\ OthersStay(w, d, {})
  BY <1>1, <1>2, DestroyStartKeeps
<1> HIDE DEF d
<1>5. /\ SchedInv(sched') /\ OthersStay(d, sched', {Main})
      /\ (\A u \in AllTasks : sched'.task[u].st = d.task[u].st) /\ sched'.task[Main].at = "net_exit"
  <2>1. SchedInv(d) /\ Main \in AllTasks
    BY <1>1, <1>4
  <2> DEFINE at == "net_exit"
  <2>2. at \in Places /\ sched' = Sleep(d, Main, at)
    BY <1>3
  <2> HIDE DEF at
  <2>3. /\ SchedInv(sched') /\ OthersStay(d, sched', {Main})
        /\ (\A u \in AllTasks : sched'.task[u].st = d.task[u].st) /\ sched'.task[Main].at = at
    BY <2>1, <2>2, Sleeps
  <2> QED BY <2>3 DEF at
<1>6. OthersStay(s, sched', {Main}) /\ sched'.task[Main].st = s.task[Main].st
  BY <1>1, <1>2, <1>4, <1>5 DEF OthersStay
<1>7. ListsMoved
  <2>1. sockets_list \in Seq(Sock) /\ destroy_list \in Seq(Sock) /\ IsInjective(sockets_list \o destroy_list)
    BY DEF AliveInv, TypeInv, ListInv
  <2>2. sockets_list' = <<>> /\ destroy_list' = sockets_list \o destroy_list
    BY DEF NetExit
  <2>3. /\ <<>> \in Seq(Sock) /\ sockets_list \o destroy_list \in Seq(Sock)
        /\ <<>> \o (sockets_list \o destroy_list) = sockets_list \o destroy_list
        /\ ToSet(destroy_list) \subseteq ToSet(sockets_list \o destroy_list)
    BY <2>1, SplicedElements
  <2> QED BY <2>1, <2>2, <2>3 DEF ListsMoved
<1> QED BY <1>5, <1>6, <1>7

LEMMA InitFailsKeeps ==
    ASSUME AliveInv, TakenInv, InitFails
    PROVE  AliveInv' /\ IoStep
<1> DEFINE s == Switch(sched)
<1>1. /\ SchedInv(s) /\ s.task = sched.task
      /\ phase = "run" /\ sched.task[Main].at = "load" /\ sched.task[Main].st = "live"
      /\ Main \in AllTasks /\ SigRead \in AllTasks /\ Destroyer \in AllTasks
      /\ Main # SigRead /\ Main # Destroyer /\ SigRead # Destroyer
  BY MainRuns DEF InitFails
<1>2. ExitGoesOn(s) /\ UNCHANGED <<phase, op, listVars, closed, sk, walk, recv_fn, destroy_tsk, sent, taken>>
  BY DEF InitFails, netVars, peerVars
<1> HIDE DEF s
<1>3. MainInv
  BY DEF AliveInv
<1>4. s.task[Main].st # "none" /\ s.task[SigRead].st # "none"
  BY <1>1, <1>3 DEF MainInv
<1>5. /\ SchedInv(sched') /\ OthersStay(s, sched', {Main})
      /\ sched'.task[Main].st = s.task[Main].st /\ sched'.task[Main].at = "sigcb_free"
  BY <1>1, <1>2, <1>4, ExitRuns
<1>6. OthersStay(sched, sched', {Main})
  BY <1>1, <1>5 DEF OthersStay
<1>7. sched'.task[Destroyer].at = sched.task[Destroyer].at /\ sched'.task[Destroyer].st = sched.task[Destroyer].st
      /\ sched'.task[SigRead].st = sched.task[SigRead].st
  BY <1>1, <1>6 DEF OthersStay
<1>8. MainStep
  <2>1. OpStep(Main)
    BY <1>1, <1>2, OpStays DEF AliveInv, TypeInv
  <2>2. OthersStay(sched, sched', {Main, SigRead, Destroyer} \union Requests)
    BY <1>6 DEF OthersStay
  <2> QED BY <1>1, <1>2, <1>5, <1>7, <2>1, <2>2 DEF MainStep
<1>9. MainInv'
  <2>1. destroy_tsk' = destroy_tsk
    BY <1>2
  <2>2. sched'.task[Main].st # "none" /\ sched'.task[SigRead].st # "none"
    BY <1>1, <1>4, <1>5, <1>7
  <2> QED BY <1>3, <1>5, <1>7, <2>1, <2>2 DEF MainInv
<1>10. ListsMoved
  BY <1>2, ListsStay DEF AliveInv
<1>11. recv_fn' \in BOOLEAN /\ destroy_tsk' \in BOOLEAN
  BY <1>2 DEF AliveInv, TypeInv
<1> QED BY <1>2, <1>8, <1>9, <1>10, <1>11, MainStepKeeps

LEMMA ListenFailsKeeps ==
    ASSUME AliveInv, TakenInv, ListenFails
    PROVE  AliveInv' /\ IoStep
<1> DEFINE s == Switch(sched)
<1>1. /\ SchedInv(s) /\ s.task = sched.task
      /\ phase = "run" /\ sched.task[Main].at = "load" /\ sched.task[Main].st = "live"
      /\ Main \in AllTasks /\ SigRead \in AllTasks /\ Destroyer \in AllTasks
      /\ Main # SigRead /\ Main # Destroyer /\ SigRead # Destroyer
  BY MainRuns DEF ListenFails
<1>2. PICK b \in LeftInMemory(sched) : NetExit(Created(s, Destroyer, "idle", b))
  BY DEF ListenFails
<1>2a. /\ destroy_tsk' = TRUE /\ Consume(Main)
       /\ UNCHANGED <<phase, peer_root, closed, sk, walk, sent, taken>>
  BY DEF ListenFails, peerVars
<1>3. b \in Bits
  BY <1>2, BitInMemory DEF AliveInv
<1>4. MainInv
  BY DEF AliveInv
<1> DEFINE c == Created(s, Destroyer, "idle", b)
<1> HIDE DEF s
<1>5. /\ SchedInv(c) /\ (\A u \in AllTasks \ {Destroyer} : c.task[u] = s.task[u])
      /\ c.task[Destroyer].st = "live" /\ c.task[Destroyer].at = "idle"
  <2>1. "idle" \in Places /\ Destroyer \in AllTasks /\ SchedInv(s)
    BY <1>1 DEF Places
  <2> QED BY <1>3, <2>1, CreatedKeeps
<1>6. NetExit(c)
  BY <1>2
<1> HIDE DEF c
<1>7. c.task[Main].st # "none" /\ c.task[Destroyer].st # "none" /\ SchedInv(c)
  BY <1>1, <1>5
<1>8. /\ SchedInv(sched') /\ OthersStay(c, sched', {Main}) /\ ListsMoved
      /\ sched'.task[Main].st = c.task[Main].st /\ sched'.task[Main].at = "net_exit"
  BY <1>2a, <1>6, <1>7, NetExitRuns
<1>9. OthersStay(sched, sched', {Main, Destroyer})
  BY <1>1, <1>5, <1>8 DEF OthersStay
<1>10. sched'.task[Destroyer].at = "idle" /\ sched'.task[Destroyer].st = "live"
       /\ sched'.task[SigRead].st = sched.task[SigRead].st /\ sched'.task[Main].st # "none"
  BY <1>1, <1>5, <1>7, <1>8, <1>9 DEF OthersStay
<1>11. MainStep
  <2>1. OpStep(Main)
    BY <1>1, <1>2a, ConsumeGives DEF AliveInv, TypeInv
  <2>2. OthersStay(sched, sched', {Main, SigRead, Destroyer} \union Requests)
    BY <1>9 DEF OthersStay
  <2> QED BY <1>1, <1>2a, <1>8, <1>10, <2>1, <2>2 DEF MainStep
<1>12. MainInv'
  <2>1. sched.task[SigRead].st # "none"
    BY <1>1, <1>4 DEF MainInv
  <2> QED BY <1>8, <1>10, <2>1 DEF MainInv
<1>13. recv_fn' \in BOOLEAN /\ destroy_tsk' \in BOOLEAN
  BY <1>2a, <1>6 DEF NetExit
<1> QED BY <1>2a, <1>8, <1>11, <1>12, <1>13, MainStepKeeps

LEMMA ExitStartsKeeps ==
    ASSUME AliveInv, TakenInv, ExitStarts
    PROVE  AliveInv' /\ IoStep
<1> DEFINE s == Switch(sched)
<1>1. /\ SchedInv(s) /\ s.task = sched.task
      /\ phase = "run" /\ sched.task[Main].at = "up" /\ sched.task[Main].st = "live"
      /\ Main \in AllTasks /\ SigRead \in AllTasks /\ Destroyer \in AllTasks
      /\ Main # SigRead /\ Main # Destroyer /\ SigRead # Destroyer
  BY MainRuns DEF ExitStarts
<1>2. NetExit(s) /\ UNCHANGED <<phase, op, peer_root, closed, sk, walk, destroy_tsk, sent, taken>>
  BY DEF ExitStarts, peerVars
<1> HIDE DEF s
<1>3. MainInv
  BY DEF AliveInv
<1>4. s.task[Main].st # "none" /\ s.task[Destroyer].st # "none" /\ SchedInv(s)
  BY <1>1, <1>3 DEF MainInv
<1>5. /\ SchedInv(sched') /\ OthersStay(s, sched', {Main}) /\ ListsMoved
      /\ sched'.task[Main].st = s.task[Main].st /\ sched'.task[Main].at = "net_exit"
  BY <1>2, <1>4, NetExitRuns
<1>6. OthersStay(sched, sched', {Main})
  BY <1>1, <1>5 DEF OthersStay
<1>7. sched'.task[Destroyer].at = sched.task[Destroyer].at /\ sched'.task[Destroyer].st = sched.task[Destroyer].st
      /\ sched'.task[SigRead].st = sched.task[SigRead].st
  BY <1>1, <1>6 DEF OthersStay
<1>8. MainStep
  <2>1. OpStep(Main)
    BY <1>1, <1>2, OpStays DEF AliveInv, TypeInv
  <2>2. OthersStay(sched, sched', {Main, SigRead, Destroyer} \union Requests)
    BY <1>6 DEF OthersStay
  <2> QED BY <1>1, <1>2, <1>5, <1>7, <2>1, <2>2 DEF MainStep
<1>9. MainInv'
  <2>1. sched'.task[Main].st # "none" /\ sched'.task[SigRead].st # "none" /\ sched'.task[Destroyer].st # "none"
    BY <1>1, <1>3, <1>4, <1>5, <1>7 DEF MainInv
  <2> QED BY <1>5, <2>1 DEF MainInv
<1>10. recv_fn' \in BOOLEAN /\ destroy_tsk' \in BOOLEAN
  BY <1>2 DEF AliveInv, TypeInv, NetExit
<1> QED BY <1>2, <1>5, <1>8, <1>9, <1>10, MainStepKeeps

LEMMA NetExitedKeeps ==
    ASSUME AliveInv, TakenInv, NetExited
    PROVE  AliveInv' /\ IoStep
<1> DEFINE s == Switch(sched)
           f == Free(s, Destroyer)
<1>1. /\ SchedInv(s) /\ s.task = sched.task
      /\ phase = "run" /\ sched.task[Main].at = "net_exit" /\ sched.task[Main].st = "live"
      /\ Main \in AllTasks /\ SigRead \in AllTasks /\ Destroyer \in AllTasks
      /\ Main # SigRead /\ Main # Destroyer /\ SigRead # Destroyer
  BY MainRuns DEF NetExited
<1>2. ExitGoesOn(f) /\ destroy_tsk' = FALSE
      /\ UNCHANGED <<phase, op, listVars, closed, sk, walk, recv_fn, sent, taken>>
  BY DEF NetExited, peerVars
<1> HIDE DEF s
<1>3. MainInv
  BY DEF AliveInv
<1>4. /\ SchedInv(f) /\ (\A u \in AllTasks \ {Destroyer} : f.task[u] = s.task[u])
      /\ f.task[Destroyer].st = "freed" /\ f.task[Destroyer].at = s.task[Destroyer].at
  <2>1. SchedInv(s) /\ Destroyer \in AllTasks
    BY <1>1
  <2> QED BY <2>1, FreeKeeps
<1> HIDE DEF f
<1>5. SchedInv(f) /\ f.task[Main].st # "none" /\ f.task[SigRead].st # "none"
  <2>1. f.task[Main] = sched.task[Main] /\ f.task[SigRead] = sched.task[SigRead]
    BY <1>1, <1>4
  <2>2. sched.task[SigRead].st # "none"
    BY <1>1, <1>3 DEF MainInv
  <2> QED BY <1>1, <1>4, <2>1, <2>2
<1>6. /\ SchedInv(sched') /\ OthersStay(f, sched', {Main})
      /\ sched'.task[Main].st = f.task[Main].st /\ sched'.task[Main].at = "sigcb_free"
  BY <1>2, <1>5, ExitRuns
<1>7. OthersStay(sched, sched', {Main, Destroyer})
  BY <1>1, <1>4, <1>6 DEF OthersStay
<1>8. /\ sched'.task[Destroyer].at = sched.task[Destroyer].at /\ sched'.task[Destroyer].st = "freed"
      /\ sched'.task[SigRead].st # "none" /\ sched'.task[Main].st # "none"
  BY <1>1, <1>4, <1>5, <1>6 DEF OthersStay
<1>9. MainStep
  <2>1. OpStep(Main)
    BY <1>1, <1>2, OpStays DEF AliveInv, TypeInv
  <2>2. OthersStay(sched, sched', {Main, SigRead, Destroyer} \union Requests)
    BY <1>7 DEF OthersStay
  <2> QED BY <1>1, <1>2, <1>6, <1>8, <2>1, <2>2 DEF MainStep
<1>10. MainInv'
  BY <1>2, <1>6, <1>8 DEF MainInv
<1>11. ListsMoved
  BY <1>2, ListsStay DEF AliveInv
<1>12. recv_fn' \in BOOLEAN /\ destroy_tsk' \in BOOLEAN
  BY <1>2 DEF AliveInv, TypeInv
<1> QED BY <1>2, <1>9, <1>10, <1>11, <1>12, MainStepKeeps

LEMMA MainEndsKeeps ==
    ASSUME AliveInv, TakenInv, MainEnds
    PROVE  AliveInv' /\ IoStep
<1> DEFINE s == Switch(sched)
           f == Free(s, SigRead)
<1>1. /\ SchedInv(s) /\ Main \notin ToSet(s.run_list) /\ s.task = sched.task
      /\ phase = "run" /\ sched.task[Main].at = "sigcb_free" /\ sched.task[Main].st = "live"
      /\ Main \in AllTasks /\ SigRead \in AllTasks /\ Destroyer \in AllTasks
      /\ Main # SigRead /\ Main # Destroyer /\ SigRead # Destroyer
  BY MainRuns DEF MainEnds
<1>2. sched' = Finish(f, Main)
      /\ UNCHANGED <<phase, op, listVars, closed, sk, walk, recv_fn, destroy_tsk, sent, taken>>
  BY DEF MainEnds, peerVars
<1> HIDE DEF s
<1>3. MainInv
  BY DEF AliveInv
<1>4. /\ SchedInv(f) /\ (\A u \in AllTasks \ {SigRead} : f.task[u] = s.task[u])
      /\ f.task[SigRead].st = "freed" /\ ToSet(f.run_list) \subseteq ToSet(s.run_list)
  <2>1. SchedInv(s) /\ SigRead \in AllTasks
    BY <1>1
  <2> QED BY <2>1, FreeKeeps
<1> HIDE DEF f
<1>5. /\ SchedInv(sched') /\ (\A u \in AllTasks \ {Main} : sched'.task[u] = f.task[u])
      /\ sched'.task[Main].st \in {"finished", "freed"} /\ sched'.task[Main].at = f.task[Main].at
  <2>1. SchedInv(f) /\ Main \in AllTasks /\ Main \notin ToSet(f.run_list)
    BY <1>1, <1>4
  <2>2. /\ SchedInv(Finish(f, Main)) /\ (\A u \in AllTasks \ {Main} : Finish(f, Main).task[u] = f.task[u])
        /\ Finish(f, Main).task[Main].st \in {"finished", "freed"} /\ Finish(f, Main).task[Main].at = f.task[Main].at
    BY <2>1, FinishKeeps
  <2> QED BY <1>2, <2>2
<1>6. OthersStay(sched, sched', {Main, SigRead})
  BY <1>1, <1>4, <1>5 DEF OthersStay
<1>7. /\ sched'.task[Destroyer].at = sched.task[Destroyer].at /\ sched'.task[Destroyer].st = sched.task[Destroyer].st
      /\ sched'.task[SigRead].st = "freed" /\ sched'.task[Main].at = "sigcb_free"
  BY <1>1, <1>4, <1>5
<1>8. MainStep
  <2>1. OpStep(Main)
    BY <1>1, <1>2, OpStays DEF AliveInv, TypeInv
  <2>2. OthersStay(sched, sched', {Main, SigRead, Destroyer} \union Requests)
    BY <1>6 DEF OthersStay
  <2> QED BY <1>1, <1>2, <1>5, <1>7, <2>1, <2>2 DEF MainStep
<1>9. MainInv'
  <2>1. destroy_tsk => sched.task[Destroyer].st # "none"
    BY <1>3 DEF MainInv
  <2> QED BY <1>2, <1>5, <1>7, <2>1 DEF MainInv
<1>10. ListsMoved
  BY <1>2, ListsStay DEF AliveInv
<1>11. recv_fn' \in BOOLEAN /\ destroy_tsk' \in BOOLEAN
  BY <1>2 DEF AliveInv, TypeInv
<1> QED BY <1>2, <1>8, <1>9, <1>10, <1>11, MainStepKeeps

\* Before net_init there is no socket, and nothing on any list.
LEMMA BeforeNetInit ==
    ASSUME AliveInv, sched.task[Main].at = "load"
    PROVE  /\ \A x \in Sock : sk[x].st = "none"
           /\ destroy_list = <<>> /\ peer_root = {} /\ closed = {} /\ walk = NoWalk
           /\ \A t \in NetTask : sched.task[t].st # "live"
           /\ \A p \in Peer : op[Send(p)] = "none"
<1>0. TypeInv /\ ListInv /\ OwnerInv /\ MainInv /\ WalkInv /\ SendInv
  BY DEF AliveInv
<1>1. \A x \in Sock : sk[x].st = "none"
  BY <1>0 DEF MainInv
<1>2. Allocated = {}
  BY <1>1 DEF Allocated
<1>3. ToSet(destroy_list) = {}
  <2>1. sockets_list \in Seq(Sock) /\ destroy_list \in Seq(Sock)
    BY <1>0 DEF TypeInv
  <2>2. ToSet(sockets_list \o destroy_list) = {}
    BY <1>0, <1>2 DEF ListInv
  <2> QED BY <2>1, <2>2, SplicedElements
<1>4. destroy_list = <<>>
  <2>1. destroy_list \in Seq(Sock)
    BY <1>0 DEF TypeInv
  <2>2. destroy_list # <<>> => Head(destroy_list) \in ToSet(destroy_list)
    BY <2>1 DEF ToSet
  <2> QED BY <1>3, <2>2
<1>5. peer_root = {} /\ closed = {}
  <2>1. \A p \in Peer : sk[p].st # "freed"
    BY <1>1, SockNames
  <2> QED BY <1>0, <1>2, <2>1 DEF ListInv
<1>6. walk = NoWalk
  BY <1>0, <1>3 DEF WalkInv, Walking
<1>7. \A t \in NetTask : sched.task[t].st # "live"
  BY <1>0, <1>2 DEF OwnerInv
<1>8. \A p \in Peer : op[Send(p)] = "none"
  BY <1>0, <1>7, Names DEF SendInv
<1> QED BY <1>1, <1>4, <1>5, <1>6, <1>7, <1>8

\* The scheduler once the tasks of Net are started
LEMMA InitRuns ==
    ASSUME AliveInv, InitEnds
    PROVE  /\ SchedInv(sched') /\ OthersStay(sched, sched', {Main, Destroyer, Accept})
           /\ sched'.task[Main].st = "live" /\ sched'.task[Main].at = "up"
           /\ sched'.task[Destroyer].st = "live" /\ sched'.task[Destroyer].at = "idle"
           /\ sched'.task[Accept].st = "live"
           /\ phase = "run" /\ sched.task[Main].at = "load"
<1> DEFINE s == Switch(sched)
<1>1. /\ SchedInv(s) /\ s.task = sched.task
      /\ phase = "run" /\ sched.task[Main].at = "load" /\ sched.task[Main].st = "live"
      /\ Main \in AllTasks /\ SigRead \in AllTasks /\ Destroyer \in AllTasks
      /\ Main # SigRead /\ Main # Destroyer /\ SigRead # Destroyer
  BY MainRuns DEF InitEnds
<1>2. Accept \in AllTasks /\ Accept # Main /\ Accept # Destroyer
  BY Names
<1>3. PICK b \in LeftInMemory(sched), e \in LeftInMemory(sched) :
         sched' = LET z == Started(Created(s, Destroyer, "idle", b), Accept, e)
                  IN Sleep(IF Canceled(Main) THEN Wake(z, Main) ELSE z, Main, "up")
  BY DEF InitEnds
<1>4. b \in Bits /\ e \in Bits
  BY <1>3, BitInMemory DEF AliveInv
<1> DEFINE c == Created(s, Destroyer, "idle", b)
           a == Started(c, Accept, e)
           w == IF Canceled(Main) THEN Wake(a, Main) ELSE a
           up == "up"
<1>5. sched' = Sleep(w, Main, up) /\ up \in Places
  BY <1>3 DEF Places
<1> HIDE DEF s, up
<1>6. /\ SchedInv(c) /\ (\A u \in AllTasks \ {Destroyer} : c.task[u] = s.task[u])
      /\ c.task[Destroyer].st = "live" /\ c.task[Destroyer].at = "idle"
  <2>1. "idle" \in Places /\ Destroyer \in AllTasks /\ SchedInv(s) /\ b \in Bits
    BY <1>1, <1>4 DEF Places
  <2> QED BY <2>1, CreatedKeeps
<1> HIDE DEF c
<1>7. SchedInv(a) /\ (\A u \in AllTasks \ {Accept} : a.task[u] = c.task[u]) /\ a.task[Accept].st = "live"
  <2>1. Accept \in AllTasks /\ SchedInv(c) /\ e \in Bits
    BY <1>2, <1>4, <1>6
  <2> QED BY <2>1, StartedKeeps
<1> HIDE DEF a
<1>8. SchedInv(w) /\ w.task = a.task
  <2>1. SchedInv(a) /\ Main \in AllTasks /\ a.task[Main].st # "none"
    BY <1>1, <1>2, <1>6, <1>7
  <2>2. SchedInv(Wake(a, Main)) /\ Wake(a, Main).task = a.task
    BY <2>1, WakeKeeps
  <2> QED BY <2>1, <2>2
<1> HIDE DEF w
<1>9. /\ SchedInv(sched') /\ OthersStay(w, sched', {Main})
      /\ (\A u \in AllTasks : sched'.task[u].st = w.task[u].st) /\ sched'.task[Main].at = up
  <2>1. SchedInv(w) /\ Main \in AllTasks
    BY <1>1, <1>8
  <2>2. sched' = Sleep(w, Main, up)
    BY <1>5
  <2>3. SchedInv(w) /\ Main \in AllTasks /\ up \in Places
    BY <1>5, <2>1
  <2>4. /\ SchedInv(Sleep(w, Main, up)) /\ OthersStay(w, Sleep(w, Main, up), {Main})
        /\ (\A u \in AllTasks : Sleep(w, Main, up).task[u].st = w.task[u].st) /\ Sleep(w, Main, up).task[Main].at = up
    BY <2>3, SleepKeeps
  <2> QED BY <2>2, <2>4
<1>10. OthersStay(sched, sched', {Main, Destroyer, Accept})
  BY <1>1, <1>6, <1>7, <1>8, <1>9 DEF OthersStay
<1>11. /\ sched'.task[Main].st = "live"
       /\ sched'.task[Destroyer].st = "live" /\ sched'.task[Destroyer].at = "idle"
       /\ sched'.task[Accept].st = "live"
  BY <1>1, <1>2, <1>6, <1>7, <1>8, <1>9 DEF OthersStay
<1> QED BY <1>1, <1>9, <1>10, <1>11 DEF up

LEMMA InitEndsKeeps ==
    ASSUME AliveInv, TakenInv, InitEnds
    PROVE  AliveInv' /\ IoStep
<1>0. SchedInv(sched) /\ TypeInv /\ ListInv /\ OwnerInv /\ MainInv /\ WalkInv /\ SendInv /\ QueueInv /\ BusyInv
  BY DEF AliveInv
<1>1. /\ SchedInv(sched') /\ OthersStay(sched, sched', {Main, Destroyer, Accept})
      /\ sched'.task[Main].st = "live" /\ sched'.task[Main].at = "up"
      /\ sched'.task[Destroyer].st = "live" /\ sched'.task[Destroyer].at = "idle"
      /\ sched'.task[Accept].st = "live"
      /\ phase = "run" /\ sched.task[Main].at = "load"
  BY InitRuns
<1>2. /\ sk' = [sk EXCEPT ![Listener] = NewSock] /\ sockets_list' = <<Listener>>
      /\ destroy_tsk' = TRUE /\ recv_fn' = TRUE
      /\ UNCHANGED <<phase, destroy_list, peer_root, walk, closed, sent, taken>>
      /\ Consume(Main)
  BY DEF InitEnds, peerVars
<1>3. /\ \A x \in Sock : sk[x].st = "none"
      /\ destroy_list = <<>> /\ peer_root = {} /\ closed = {} /\ walk = NoWalk
      /\ \A t \in NetTask : sched.task[t].st # "live"
      /\ \A p \in Peer : op[Send(p)] = "none"
  BY <1>1, BeforeNetInit
<1>4. op' \in [AllTasks -> Ops] /\ \A t \in AllTasks \ {Main} : op'[t] = op[t]
  <2>1. Main \in AllTasks
    BY Names
  <2>2. OpStep(Main)
    BY <1>0, <1>2, <2>1, ConsumeGives DEF TypeInv
  <2> QED BY <2>2 DEF OpStep
<1>5. ASSUME NEW t \in NetTask
      PROVE  t \in AllTasks \ {Main, Destroyer} /\ op'[t] = op[t] /\ (t # Accept => sched'.task[t].st = sched.task[t].st)
  <2>1. t \in AllTasks \ {Main, Destroyer}
    BY Names
  <2> QED BY <1>1, <1>4, <2>1 DEF OthersStay
<1>6. /\ sk' \in [Sock -> [st: {"none", "open", "shut", "freed"}, queue: Seq(Nat)]]
      /\ sk'[Listener].st = "open" /\ \A p \in Peer : sk'[p] = sk[p] /\ sk[p].st = "none"
  <2>1. NewSock \in [st: {"none", "open", "shut", "freed"}, queue: Seq(Nat)] /\ NewSock.st = "open"
    BY DEF NewSock
  <2>2. sk \in [Sock -> [st: {"none", "open", "shut", "freed"}, queue: Seq(Nat)]]
    BY <1>0 DEF TypeInv
  <2> QED BY <1>2, <1>3, <2>1, <2>2, SockNames
<1>7. Allocated' = {Listener}
  BY <1>6, SockNames DEF Allocated
<1>8. TypeInv'
  <2>1. sockets_list' \in Seq(Sock)
    BY <1>2, SockNames
  <2> QED BY <1>0, <1>1, <1>2, <1>4, <1>6, <2>1 DEF TypeInv
<1>9. ListInv'
  <2>1. sockets_list' \o destroy_list' = <<Listener>>
    BY <1>2, <1>3
  <2>2. IsInjective(<<Listener>>) /\ ToSet(<<Listener>>) = {Listener}
    BY DEF IsInjective, ToSet
  <2> QED BY <1>2, <1>3, <1>7, <2>1, <2>2 DEF ListInv
<1>10. OwnerInv'
  <2>1. ASSUME NEW t \in NetTask, t # Accept
        PROVE  sk'[SockOf(t)].st = "none" /\ sched'.task[t].st # "live"
    BY <1>3, <1>5, <1>6, <2>1, NetNames
  <2>2. SockOf(Accept) = Listener
    BY NetNames
  <2> QED BY <1>1, <1>7, <2>1, <2>2 DEF OwnerInv
<1>11. MainInv'
  <2>1. sched'.task[SigRead].st = sched.task[SigRead].st
    BY <1>1, Names DEF OthersStay
  <2>2. sched.task[SigRead].st # "none"
    BY <1>0, <1>1 DEF MainInv
  <2> QED BY <1>1, <2>1, <2>2 DEF MainInv
<1>12. WalkInv'
  BY <1>1, <1>2, <1>3 DEF WalkInv
<1>13. SendInv'
  BY <1>3, <1>5, Names DEF SendInv
<1>14. QueueInv'
  BY <1>0, <1>2, <1>6, <1>7, SockNames DEF QueueInv
<1>15. BusyInv'
  <2>1. op'[Destroyer] = op[Destroyer]
    BY <1>4, Names
  <2>2. \A t \in NetTask : SockOf(t) \in Sock
    BY NetNames
  <2> QED BY <1>0, <1>1, <1>3, <1>5, <2>1, <2>2 DEF BusyInv
<1>16. IoStep
  BY <1>1, <1>5 DEF IoStep, FreedTask
<1> QED BY <1>1, <1>8, <1>9, <1>10, <1>11, <1>12, <1>13, <1>14, <1>15, <1>16 DEF AliveInv

-----------------------------------------------------------------------------
(* A new connection.                                                       *)

\* The scheduler after the tasks of the connection of p are started
LEMMA AcceptRuns ==
    ASSUME AliveInv, NEW p \in Peer, Accepts(p)
    PROVE  /\ SchedInv(sched') /\ OthersStay(sched, sched', {Accept, Send(p), Recv(p)})
           /\ sched'.task[Send(p)].st = "live" /\ sched'.task[Send(p)].at = "start"
           /\ sched'.task[Recv(p)].st = "live"
           /\ sched.task[Accept].st = "live" /\ sched'.task[Accept].st # "none" /\ phase = "run"
<1> DEFINE s == Switch(sched)
           S == Send(p)
           R == Recv(p)
<1>1. S \in AllTasks /\ R \in AllTasks /\ Accept \in AllTasks /\ S # R /\ S # Accept /\ R # Accept
      /\ Destroyer \in AllTasks /\ Destroyer \notin {Accept, S, R}
  BY Names, NetNames
<1>2. Running(s, Accept) /\ phase = "run" /\ sched.task[Accept].st = "live" /\ s.task = sched.task
  BY <1>1, RunsGives DEF Accepts, AliveInv
<1>3. SchedInv(s) /\ Accept \notin ToSet(s.run_list)
  BY <1>2 DEF Running
<1>4. PICK b \in LeftInMemory(sched), c \in LeftInMemory(sched) :
         LET z == Started(Started(s, S, b), R, c)
             list == Append(sockets_list, p)
         IN IF Canceled(Accept) THEN DestroySock(z, Accept, Listener, list)
            ELSE sched' = z /\ sockets_list' = list /\ UNCHANGED destroy_list
  BY DEF Accepts
<1>5. b \in Bits /\ c \in Bits
  BY <1>4, BitInMemory DEF AliveInv
<1> DEFINE y == Started(s, S, b)
           z == Started(y, R, c)
<1>6. sched' \in {z, Finish(Wake(z, Destroyer), Accept), Dead(z, "null")}
  BY <1>4 DEF DestroySock
<1>6a. sched' = Finish(Wake(z, Destroyer), Accept) => destroy_tsk \/ sched' \in {z, Dead(z, "null")}
  BY <1>4 DEF DestroySock
<1> HIDE DEF s, S, R
<1>7. /\ SchedInv(y) /\ (\A u \in AllTasks \ {S} : y.task[u] = s.task[u])
      /\ y.task[S].st = "live" /\ y.task[S].at = "start"
      /\ ToSet(y.run_list) \subseteq ToSet(s.run_list) \union {S}
  <2>1. SchedInv(s) /\ S \in AllTasks /\ b \in Bits
    BY <1>1, <1>3, <1>5
  <2> QED BY <2>1, StartedKeeps
<1> HIDE DEF y
<1>8. /\ SchedInv(z) /\ (\A u \in AllTasks \ {R} : z.task[u] = y.task[u])
      /\ z.task[R].st = "live"
      /\ ToSet(z.run_list) \subseteq ToSet(y.run_list) \union {R}
  <2>1. SchedInv(y) /\ R \in AllTasks /\ c \in Bits
    BY <1>1, <1>5, <1>7
  <2> QED BY <2>1, StartedKeeps
<1> HIDE DEF z
<1>9. OthersStay(sched, z, {S, R}) /\ z.task[S].st = "live" /\ z.task[S].at = "start" /\ z.task[R].st = "live"
      /\ z.task[Accept] = sched.task[Accept] /\ z.task[Destroyer] = sched.task[Destroyer]
      /\ Accept \notin ToSet(z.run_list)
  BY <1>1, <1>2, <1>3, <1>7, <1>8 DEF OthersStay
<1>10. SchedInv(sched') /\ OthersStay(z, sched', {Accept}) /\ sched'.task[Accept].st # "none"
  <2>1. CASE sched' = z
    BY <1>2, <1>8, <1>9, <2>1 DEF OthersStay
  <2>2. CASE sched' = Dead(z, "null")
    <3>1. "null" \in Ends
      BY DEF Ends
    <3>2. SchedInv(Dead(z, "null")) /\ Dead(z, "null").task = z.task
      BY <1>8, <3>1, DeadKeeps
    <3> QED BY <1>2, <1>9, <2>2, <3>2 DEF OthersStay
  <2>3. CASE sched' = Finish(Wake(z, Destroyer), Accept) /\ destroy_tsk
    <3> DEFINE w == Wake(z, Destroyer)
    <3>1. z.task[Destroyer].st # "none"
      BY <1>9, <2>3 DEF AliveInv, MainInv
    <3>2. SchedInv(w) /\ w.task = z.task /\ ToSet(w.run_list) \subseteq ToSet(z.run_list) \union {Destroyer}
      BY <1>1, <1>8, <3>1, WakeKeeps
    <3>3. sched' = Finish(w, Accept)
      BY <2>3
    <3> HIDE DEF w
    <3>4. SchedInv(w) /\ Accept \in AllTasks /\ Accept \notin ToSet(w.run_list)
      BY <1>1, <1>9, <3>2
    <3>5. /\ SchedInv(Finish(w, Accept))
          /\ \A u \in AllTasks \ {Accept} : Finish(w, Accept).task[u] = w.task[u]
          /\ Finish(w, Accept).task[Accept].st \in {"finished", "freed"}
      BY <3>4, FinishKeeps
    <3> QED BY <3>2, <3>3, <3>5 DEF OthersStay
  <2> QED BY <1>6, <1>6a, <2>1, <2>2, <2>3
<1>11. OthersStay(sched, sched', {Accept, S, R})
  BY <1>9, <1>10 DEF OthersStay
<1>12. sched'.task[S].st = "live" /\ sched'.task[S].at = "start" /\ sched'.task[R].st = "live"
  BY <1>1, <1>9, <1>10 DEF OthersStay
<1> QED BY <1>2, <1>10, <1>11, <1>12 DEF S, R

\* The new socket is on one of the lists.
LEMMA AcceptLists ==
    ASSUME TypeInv, ListInv, NEW p \in Peer, p \notin Allocated, Listener \in Allocated, Accepts(p)
    PROVE  /\ sockets_list' \in Seq(Sock) /\ destroy_list' \in Seq(Sock)
           /\ IsInjective(sockets_list' \o destroy_list')
           /\ ToSet(sockets_list' \o destroy_list') = Allocated \union {p}
           /\ ToSet(destroy_list) \subseteq ToSet(destroy_list')
<1> DEFINE list == Append(sockets_list, p)
<1>1. p \in Sock /\ Listener \in Sock
  BY SockNames
<1>2. sockets_list \in Seq(Sock) /\ destroy_list \in Seq(Sock) /\ IsInjective(sockets_list \o destroy_list)
      /\ ToSet(sockets_list \o destroy_list) = Allocated
  BY DEF TypeInv, ListInv
<1>3. list \in Seq(Sock) /\ ToSet(list \o destroy_list) = Allocated \union {p} /\ IsInjective(list \o destroy_list)
  BY <1>1, <1>2, AddedElements
<1>4. \/ sockets_list' = list /\ destroy_list' = destroy_list
      \/ sockets_list' = Unlinked(list, Listener) /\ destroy_list' = MovedToTail(destroy_list, Listener)
  BY DEF Accepts, DestroySock
<1> HIDE DEF list
<1>5. CASE sockets_list' = list /\ destroy_list' = destroy_list
  BY <1>2, <1>3, <1>5
<1>6. CASE sockets_list' = Unlinked(list, Listener) /\ destroy_list' = MovedToTail(destroy_list, Listener)
  <2> DEFINE a == Unlinked(list, Listener)
             d == MovedToTail(destroy_list, Listener)
  <2>1. list \in Seq(Sock) /\ destroy_list \in Seq(Sock) /\ IsInjective(list \o destroy_list) /\ Listener \in Sock
    BY <1>1, <1>2, <1>3
  <2>2. /\ a \in Seq(Sock) /\ d \in Seq(Sock)
        /\ ToSet(d) = ToSet(destroy_list) \union {Listener}
        /\ ToSet(a \o d) = ToSet(list \o destroy_list) \union {Listener}
        /\ IsInjective(a \o d)
    BY ONLY <2>1, MovedElements
  <2>3. sockets_list' = a /\ destroy_list' = d
    BY <1>6
  <2> HIDE DEF a, d
  <2>4. ToSet(a \o d) = Allocated \union {p}
    BY <1>3, <2>2
  <2> QED BY <2>2, <2>3, <2>4
<1> QED BY <1>4, <1>5, <1>6

LEMMA AcceptsKeeps ==
    ASSUME AliveInv, TakenInv, NEW p \in Peer, Accepts(p)
    PROVE  AliveInv' /\ IoStep
<1>0. SchedInv(sched) /\ TypeInv /\ ListInv /\ OwnerInv /\ MainInv /\ WalkInv /\ SendInv /\ QueueInv /\ BusyInv
  BY DEF AliveInv
<1>1. /\ SchedInv(sched') /\ OthersStay(sched, sched', {Accept, Send(p), Recv(p)})
      /\ sched'.task[Send(p)].st = "live" /\ sched'.task[Send(p)].at = "start"
      /\ sched'.task[Recv(p)].st = "live"
      /\ sched.task[Accept].st = "live" /\ sched'.task[Accept].st # "none" /\ phase = "run"
  BY AcceptRuns
<1>2. /\ sk[p].st = "none" /\ op[Accept] = "ok"
      /\ sk' = [sk EXCEPT ![p] = NewSock] /\ peer_root' = peer_root \union {p}
      /\ UNCHANGED <<phase, walk, recv_fn, destroy_tsk, closed, sent, taken>>
      /\ Prepare(Accept)
  BY DEF Accepts, Inserted, peerVars
<1>3. p \notin Allocated /\ Listener \in Allocated
  BY <1>0, <1>1, <1>2, Names, NetNames DEF OwnerInv, Allocated
<1>4. /\ sockets_list' \in Seq(Sock) /\ destroy_list' \in Seq(Sock)
      /\ IsInjective(sockets_list' \o destroy_list')
      /\ ToSet(sockets_list' \o destroy_list') = Allocated \union {p}
      /\ ToSet(destroy_list) \subseteq ToSet(destroy_list')
  BY <1>0, <1>3, AcceptLists
<1>5. /\ op' \in [AllTasks -> Ops]
      /\ \A t \in AllTasks \ {Accept} : op'[t] = op[t]
      /\ op'[Accept] # "busy"
  <2>1. "prep" # "busy" /\ Accept \in AllTasks
    BY Names
  <2>2. OpStep(Accept) /\ op'[Accept] = "prep"
    BY <1>0, <1>2, <2>1, PrepareGives DEF TypeInv
  <2>3. op'[Accept] # "busy"
    BY ONLY <2>1, <2>2
  <2> QED BY <2>2, <2>3 DEF OpStep
<1>6. p \in Sock /\ p # Listener
  BY SockNames
<1>7. /\ sk' \in [Sock -> [st: {"none", "open", "shut", "freed"}, queue: Seq(Nat)]]
      /\ sk'[p].st = "open" /\ sk'[p].queue = <<>> /\ \A x \in Sock \ {p} : sk'[x] = sk[x]
  <2>1. NewSock \in [st: {"none", "open", "shut", "freed"}, queue: Seq(Nat)] /\ NewSock.st = "open" /\ NewSock.queue = <<>>
    BY DEF NewSock
  <2>2. sk \in [Sock -> [st: {"none", "open", "shut", "freed"}, queue: Seq(Nat)]]
    BY <1>0 DEF TypeInv
  <2> QED BY <1>2, <1>6, <2>1, <2>2
<1>8. Allocated' = Allocated \union {p}
  BY <1>6, <1>7 DEF Allocated
<1>9. ASSUME NEW t \in NetTask
      PROVE  /\ SockOf(t) \in Sock
             /\ SockOf(t) = p <=> t \in {Send(p), Recv(p)}
             /\ t \notin {Accept, Send(p), Recv(p)} => sched'.task[t].st = sched.task[t].st /\ sched'.task[t].at = sched.task[t].at
             /\ t # Accept => op'[t] = op[t]
             /\ op'[t] = "busy" => op[t] = "busy"
  <2>1. t \in AllTasks
    BY Names
  <2>2. SockOf(t) \in Sock /\ (SockOf(t) = p <=> t \in {Send(p), Recv(p)})
    BY <1>6, NetNames
  <2>3. op'[t] = "busy" => op[t] = "busy"
    BY <1>5, <2>1
  <2> QED BY <1>1, <1>5, <2>1, <2>2, <2>3 DEF OthersStay
<1>10. TypeInv'
  BY <1>0, <1>1, <1>2, <1>4, <1>5, <1>7 DEF TypeInv
<1>11. ListInv'
  <2>1. peer_root' = Allocated' \ {Listener}
    BY <1>0, <1>2, <1>6, <1>8 DEF ListInv
  <2>2. {q \in Peer : sk[q].st = "freed"} \subseteq {q \in Peer : sk'[q].st = "freed"}
    BY <1>2, <1>7, SockNames
  <2>3. closed' \subseteq peer_root' \union {q \in Peer : sk'[q].st = "freed"}
    BY <1>0, <1>2, <2>2 DEF ListInv
  <2> QED BY <1>4, <1>8, <2>1, <2>3 DEF ListInv
<1>12. OwnerInv'
  <2>1. ASSUME NEW t \in NetTask, t \in {Send(p), Recv(p)}
        PROVE  sched'.task[t].st # "none" /\ SockOf(t) \in Allocated'
    BY <1>1, <1>8, <1>9, <2>1
  <2>2. ASSUME NEW t \in NetTask, t \notin {Send(p), Recv(p)}
        PROVE  /\ sk'[SockOf(t)].st # "none" => sched'.task[t].st # "none"
               /\ sched'.task[t].st = "live" => SockOf(t) \in Allocated'
    <3>1. sk'[SockOf(t)] = sk[SockOf(t)]
      BY <1>7, <1>9, <2>2
    <3>2. CASE t = Accept
      BY <1>1, <1>3, <1>8, <3>2, NetNames
    <3>3. CASE t # Accept
      BY <1>0, <1>8, <1>9, <2>2, <3>1, <3>3 DEF OwnerInv
    <3> QED BY <3>2, <3>3
  <2> QED BY <2>1, <2>2 DEF OwnerInv
<1>13. MainInv'
  <2>1. \A u \in {Main, SigRead, Destroyer} :
          sched'.task[u].st = sched.task[u].st /\ sched'.task[u].at = sched.task[u].at
    BY <1>1, Names DEF OthersStay
  <2>2. sk[Listener].st # "none"
    BY <1>3 DEF Allocated
  <2>3. sched.task[Main].at \notin {"start", "load"}
    BY <1>0, <2>2, SockNames DEF MainInv
  <2> QED BY <1>0, <1>2, <2>1, <2>3 DEF MainInv
<1>14. sched'.task[Destroyer].st = sched.task[Destroyer].st /\ sched'.task[Destroyer].at = sched.task[Destroyer].at
       /\ op'[Destroyer] = op[Destroyer]
  BY <1>1, <1>5, Names, NetNames DEF OthersStay
<1>15. WalkInv'
  <2>1. ASSUME Walking PROVE Walking'
    <3>1. walk.sock \in Sock /\ walk.sock # p
      <4>1. ToSet(destroy_list) \subseteq Sock
        BY <1>0 DEF TypeInv, ToSet
      <4> QED BY <1>2, <2>1, <4>1 DEF Walking
    <3>2. sk'[walk.sock] = sk[walk.sock]
      BY <1>7, <3>1
    <3>3. ASSUME NEW t \in NetTask, SockOf(t) = walk.sock, sched'.task[t].st = "live"
          PROVE  sched.task[t].st = "live"
      BY <1>1, <1>9, <3>1, <3>3
    <3> QED BY <1>2, <1>4, <2>1, <3>2, <3>3 DEF Walking
  <2> QED BY <1>0, <1>2, <1>14, <2>1 DEF WalkInv
<1>16. op[Send(p)] = "none" /\ op'[Send(p)] = "none"
  <2>1. Send(p) \in NetTask /\ SockOf(Send(p)) = p /\ Send(p) # Accept
    BY Names, NetNames
  <2>2. sched.task[Send(p)].st # "live"
    BY <1>0, <1>3, <2>1 DEF OwnerInv
  <2>3. op[Send(p)] = "none"
    BY <1>0, <2>2 DEF SendInv
  <2> QED BY <1>9, <2>1, <2>3
<1>17. ASSUME NEW q \in Peer, q # p
       PROVE  /\ sched'.task[Send(q)].st = sched.task[Send(q)].st /\ sched'.task[Send(q)].at = sched.task[Send(q)].at
              /\ op'[Send(q)] = op[Send(q)] /\ sk'[q] = sk[q]
  <2>1. Send(q) \in NetTask /\ Send(q) \notin {Accept, Send(p), Recv(p)}
    BY <1>17, Names, NetNames
  <2> QED BY <1>7, <1>9, <1>17, <2>1, SockNames
<1>18. SendInv'
  BY <1>0, <1>16, <1>17 DEF SendInv
<1>19. QueueInv'
  <2>1. ASSUME NEW q \in Peer, q # p PROVE Gone(q)' = Gone(q) /\ (q \in Allocated' => q \in Allocated)
    BY <1>2, <1>8, <1>17, <2>1 DEF Gone
  <2>2. sent[p] = 0 /\ taken[p] = <<>>
    BY <1>0, <1>2 DEF QueueInv
  <2>3. Gone(p)' = 0 /\ Len(sk'[p].queue) = 0
    BY <1>2, <1>7, <1>16, <2>2 DEF Gone
  <2>4. /\ sk'[p].st # "none"
        /\ Gone(p)' + Len(sk'[p].queue) = sent'[p]
        /\ \A i \in 1 .. Len(sk'[p].queue) : sk'[p].queue[i] = Gone(p)' + i
    BY <1>2, <1>7, <2>2, <2>3
  <2>5. ASSUME NEW q \in Peer, q # p
        PROVE  /\ sk'[q].st = "none" => sent'[q] = 0 /\ taken'[q] = <<>>
               /\ q \in Allocated' =>
                    /\ Gone(q)' + Len(sk'[q].queue) = sent'[q]
                    /\ \A i \in 1 .. Len(sk'[q].queue) : sk'[q].queue[i] = Gone(q)' + i
    BY <1>0, <1>2, <1>17, <2>1, <2>5 DEF QueueInv
  <2> QED BY <2>4, <2>5 DEF QueueInv
<1>20. BusyInv'
  <2>1. ASSUME NEW t \in NetTask, op'[t] = "busy", sk'[SockOf(t)].st # "open" PROVE op'[Destroyer] = "prep"
    <3>1. SockOf(t) # p
      BY <1>7, <2>1
    <3>2. sk'[SockOf(t)] = sk[SockOf(t)]
      BY <1>7, <1>9, <3>1
    <3> QED BY <1>0, <1>1, <1>9, <1>14, <2>1, <3>2 DEF BusyInv
  <2> QED BY <1>0, <1>14, <2>1 DEF BusyInv
<1>21. IoStep
  <2>1. ASSUME NEW t \in NetTask, FreedTask(t) PROVE op[t] # "busy"
    BY <1>1, <1>2, <1>9, <2>1 DEF FreedTask
  <2> QED BY <2>1 DEF IoStep
<1> QED BY <1>1, <1>10, <1>11, <1>12, <1>13, <1>15, <1>18, <1>19, <1>20, <1>21 DEF AliveInv

-----------------------------------------------------------------------------
(* The destroying task.                                                    *)

SockRecord == [st: {"none", "open", "shut", "freed"}, queue: Seq(Nat)]

\* What a task of a connection may become of the destroying task
TasksEnd ==
    \A t \in NetTask :
        /\ sched'.task[t].at = sched.task[t].at
        /\ sched'.task[t].st # sched.task[t].st => sched.task[t].st \notin {"none", "live"} /\ sched'.task[t].st = "freed"

\* and what a socket that it does not free.
SocksShut(S) ==
    \A x \in S :
        /\ sk'[x].queue = sk[x].queue
        /\ sk'[x].st # sk[x].st => sk[x].st = "open" /\ sk'[x].st = "shut" /\ op'[Destroyer] = "prep"

\* A step of it, which frees the sockets in gone: one, or none.
DestroyerStep(gone) ==
    /\ phase = "run" /\ phase' = "run"
    /\ sched.task[Destroyer].st = "live" /\ sched'.task[Destroyer].st # "none"
    /\ SchedInv(sched') /\ OthersStay(sched, sched', NetTask \union {Destroyer}) /\ TasksEnd
    /\ OpStep(Destroyer)
    /\ op[Destroyer] = "prep" => op'[Destroyer] = "prep"
    /\ sched'.task[Destroyer].at = "tasks" => op'[Destroyer] = "none"
    /\ sk' \in [Sock -> SockRecord]
    /\ SocksShut(Sock \ gone)
    /\ \A x \in gone : /\ sk[x].st = "shut" /\ sk'[x].st = "freed"
                       /\ \A t \in NetTask : SockOf(t) = x => sched.task[t].st # "live"
    /\ sockets_list' \in Seq(Sock) /\ destroy_list' \in Seq(Sock)
    /\ IsInjective(sockets_list' \o destroy_list')
    /\ ToSet(sockets_list' \o destroy_list') = Allocated \ gone
    /\ peer_root' = peer_root \ gone
    /\ UNCHANGED <<closed, sent, taken, recv_fn, destroy_tsk>>
    /\ WalkInv'

LEMMA DestroyerStepKeeps ==
    ASSUME AliveInv, TakenInv, NEW gone \in SUBSET Sock, DestroyerStep(gone)
    PROVE  AliveInv'
<1>0. SchedInv(sched) /\ TypeInv /\ ListInv /\ OwnerInv /\ MainInv /\ WalkInv /\ SendInv /\ QueueInv /\ BusyInv
  BY DEF AliveInv
<1>1. /\ phase = "run" /\ phase' = "run"
      /\ sched.task[Destroyer].st = "live" /\ sched'.task[Destroyer].st # "none"
      /\ SchedInv(sched')
      /\ UNCHANGED <<closed, sent, taken, recv_fn, destroy_tsk>>
      /\ peer_root' = peer_root \ gone
  BY DEF DestroyerStep
<1>2. ASSUME NEW x \in Sock
      PROVE  /\ x \in gone => sk[x].st = "shut" /\ sk'[x].st = "freed"
             /\ x \notin gone => /\ sk'[x].queue = sk[x].queue
                                 /\ sk'[x].st # sk[x].st => sk[x].st = "open" /\ sk'[x].st = "shut" /\ op'[Destroyer] = "prep"
  BY DEF DestroyerStep, SocksShut
<1>3. \A t \in NetTask : SockOf(t) \in gone => sched.task[t].st # "live"
  BY DEF DestroyerStep
<1>4. Allocated' = Allocated \ gone
  <2>1. ASSUME NEW x \in Sock PROVE sk'[x].st \in {"open", "shut"} <=> sk[x].st \in {"open", "shut"} /\ x \notin gone
    BY <1>2
  <2> QED BY <2>1 DEF Allocated
<1>5. /\ op' \in [AllTasks -> Ops]
      /\ \A t \in AllTasks \ {Destroyer} : op'[t] = op[t]
  BY DEF DestroyerStep, OpStep
<1>6. ASSUME NEW t \in NetTask
      PROVE  /\ SockOf(t) \in Sock /\ op'[t] = op[t]
             /\ sched'.task[t].at = sched.task[t].at
             /\ sched'.task[t].st = "live" <=> sched.task[t].st = "live"
             /\ sched.task[t].st # "none" => sched'.task[t].st # "none"
  <2>1. t \in AllTasks \ {Destroyer} /\ SockOf(t) \in Sock
    BY Names, NetNames
  <2> QED BY <1>5, <2>1 DEF DestroyerStep, TasksEnd
<1>7. TypeInv'
  <2>1. sk' \in [Sock -> [st: {"none", "open", "shut", "freed"}, queue: Seq(Nat)]]
    BY DEF DestroyerStep, SockRecord
  <2>2. sockets_list' \in Seq(Sock) /\ destroy_list' \in Seq(Sock)
    BY DEF DestroyerStep
  <2> QED BY <1>0, <1>1, <1>5, <2>1, <2>2 DEF TypeInv
<1>8. ListInv'
  <2>1. IsInjective(sockets_list' \o destroy_list') /\ ToSet(sockets_list' \o destroy_list') = Allocated'
    BY <1>4 DEF DestroyerStep
  <2>2. peer_root' = Allocated' \ {Listener}
    BY <1>0, <1>1, <1>4 DEF ListInv
  <2>3. closed' \subseteq peer_root' \union {p \in Peer : sk'[p].st = "freed"}
    <3>1. ASSUME NEW p \in closed PROVE p \in peer_root' \union {q \in Peer : sk'[q].st = "freed"}
      <4>1. p \in Peer /\ p \in Sock
        BY <1>0, SockNames DEF TypeInv
      <4>2. p \in peer_root \/ sk[p].st = "freed"
        BY <1>0 DEF ListInv
      <4>3. p \in gone => sk'[p].st = "freed"
        BY <1>2, <4>1
      <4>4. sk[p].st = "freed" => sk'[p].st = "freed"
        BY <1>2, <4>1
      <4> QED BY <1>1, <4>1, <4>2, <4>3, <4>4
    <3> QED BY <1>1, <3>1
  <2> QED BY <2>1, <2>2, <2>3 DEF ListInv
<1>9. OwnerInv'
  <2>1. ASSUME NEW t \in NetTask
        PROVE  /\ sk'[SockOf(t)].st # "none" => sched'.task[t].st # "none"
               /\ sched'.task[t].st = "live" => SockOf(t) \in Allocated'
    <3>1. sk'[SockOf(t)].st # "none" => sk[SockOf(t)].st # "none"
      BY <1>2, <1>6
    <3> QED BY <1>0, <1>3, <1>4, <1>6, <3>1 DEF OwnerInv
  <2> QED BY <2>1 DEF OwnerInv
<1>10. MainInv'
  <2>1. {Main, SigRead} \subseteq AllTasks \ (NetTask \union {Destroyer})
    BY Names
  <2>2. \A u \in {Main, SigRead} : sched'.task[u].st = sched.task[u].st /\ sched'.task[u].at = sched.task[u].at
    BY <2>1 DEF DestroyerStep, OthersStay
  <2>3. sched.task[Main].at \notin {"start", "load"}
    BY <1>0, <1>1 DEF MainInv
  <2> QED BY <1>0, <1>1, <2>2, <2>3 DEF MainInv
<1>11. WalkInv'
  BY DEF DestroyerStep
<1>12. ASSUME NEW p \in Peer
       PROVE  Send(p) \in NetTask /\ SockOf(Send(p)) = p /\ p \in Sock
  BY Names, NetNames, SockNames
<1>13. SendInv'
  <2>1. ASSUME NEW p \in Peer, op'[Send(p)] # "none"
        PROVE  sched'.task[Send(p)].st = "live" /\ sched'.task[Send(p)].at = "send" /\ sk'[p].queue # <<>>
    <3>1. sched.task[Send(p)].st = "live" /\ sched.task[Send(p)].at = "send" /\ sk[p].queue # <<>>
      BY <1>0, <1>6, <1>12, <2>1 DEF SendInv
    <3>2. p \notin gone
      BY <1>3, <1>12, <3>1
    <3> QED BY <1>2, <1>6, <1>12, <3>1, <3>2
  <2> QED BY <2>1 DEF SendInv
<1>14. QueueInv'
  <2>1. \A p \in Peer : Gone(p)' = Gone(p)
    BY <1>1, <1>6, <1>12 DEF Gone
  <2>2. ASSUME NEW p \in Peer
        PROVE  /\ sk'[p].st = "none" => sk[p].st = "none"
               /\ p \in Allocated' => p \in Allocated /\ sk'[p].queue = sk[p].queue
    BY <1>2, <1>4, <1>12
  <2> QED BY <1>0, <1>1, <2>1, <2>2 DEF QueueInv
<1>15. BusyInv'
  <2>1. ASSUME NEW t \in NetTask, op'[t] = "busy", sk'[SockOf(t)].st # "open" PROVE op'[Destroyer] = "prep"
    <3>1. sk[SockOf(t)].st # "open" \/ op'[Destroyer] = "prep"
      BY <1>2, <1>6, <2>1
    <3>2. op[t] = "busy" /\ (op[Destroyer] = "prep" => op'[Destroyer] = "prep")
      BY <1>6, <2>1 DEF DestroyerStep
    <3> QED BY <1>0, <1>1, <3>1, <3>2 DEF BusyInv
  <2>2. sched'.task[Destroyer].at = "tasks" => op'[Destroyer] = "none"
    BY DEF DestroyerStep
  <2> QED BY <2>1, <2>2 DEF BusyInv
<1> QED BY <1>1, <1>7, <1>8, <1>9, <1>10, <1>11, <1>13, <1>14, <1>15 DEF AliveInv

\* The tasks that may be left of a socket are its own.
LEMMA LeftTasks ==
    ASSUME NEW x \in Sock, NEW ts \in LeftOf(x)
    PROVE  ts \in Seq(NetTask) /\ \A t \in ToSet(ts) : t \in NetTask /\ SockOf(t) = x
<1>1. \A a : ToSet(<<a>>) = {a}
  BY DEF ToSet
<1>2. \A a, b : ToSet(<<a, b>>) = {a, b}
  BY DEF ToSet
<1>3. CASE x = Listener
  <2> DEFINE a == Accept
  <2>1. a \in NetTask /\ SockOf(a) = x
    BY <1>3, Names, NetNames
  <2>2. ts = <<a>>
    BY <1>3 DEF LeftOf
  <2> HIDE DEF a
  <2> QED BY <1>1, <2>1, <2>2
<1>4. CASE x # Listener
  <2> DEFINE a == Send(x)
             b == Recv(x)
  <2>1. x \in Peer
    BY <1>4, SockNames
  <2>2. a \in NetTask /\ b \in NetTask /\ SockOf(a) = x /\ SockOf(b) = x
    BY <2>1, Names, NetNames
  <2>3. ts \in {<<a, b>>, <<b>>}
    BY <1>4 DEF LeftOf
  <2> HIDE DEF a, b
  <2>4. CASE ts = <<b>>
    BY <1>1, <2>2, <2>4
  <2>5. CASE ts = <<a, b>>
    BY <1>2, <2>2, <2>5
  <2> QED BY <2>3, <2>4, <2>5
<1> QED BY <1>3, <1>4

\* free_sock of x, which is on the list, until it sleeps
LEMMA FreeStartsGives ==
    ASSUME NEW s, SchedInv(s), NEW list \in Seq(Sock), IsInjective(list), list = destroy_list',
           NEW x \in ToSet(list), NEW sks \in [Sock -> SockRecord], FreeStarts(s, x, list, sks)
    PROVE  /\ SchedInv(sched') /\ OthersStay(s, sched', {Destroyer})
           /\ (\A u \in AllTasks : sched'.task[u].st = s.task[u].st) /\ sched'.task[Destroyer].at = "cancel"
           /\ sk' \in [Sock -> SockRecord]
           /\ \A y \in Sock : sk'[y].queue = sks[y].queue
           /\ \A y \in Sock \ {x} : sk'[y].st = sks[y].st
           /\ x \in Sock /\ sk'[x].st = "shut"
           /\ WalkInv'
<1>1. x \in Sock
  BY DEF ToSet
<1>2. sched' = Sleep(s, Destroyer, "cancel") /\ "cancel" \in Places /\ Destroyer \in AllTasks
  BY Names DEF FreeStarts, Places
<1> DEFINE e == s
           at == "cancel"
<1>3a. SchedInv(e) /\ Destroyer \in AllTasks /\ at \in Places
  BY <1>2
<1>3b. sched' = Sleep(e, Destroyer, at)
  BY <1>2
<1> HIDE DEF e, at
<1>3c. /\ SchedInv(Sleep(e, Destroyer, at)) /\ OthersStay(e, Sleep(e, Destroyer, at), {Destroyer})
       /\ \A u \in AllTasks : Sleep(e, Destroyer, at).task[u].st = e.task[u].st
       /\ Sleep(e, Destroyer, at).task[Destroyer].at = at
  BY ONLY <1>3a, SleepKeeps, ZenonT(60)
<1>3. /\ SchedInv(sched') /\ OthersStay(s, sched', {Destroyer})
      /\ \A u \in AllTasks : sched'.task[u].st = s.task[u].st
      /\ sched'.task[Destroyer].at = "cancel"
  BY <1>3b, <1>3c DEF e, at
<1>4. /\ sk' \in [Sock -> SockRecord]
      /\ \A y \in Sock : sk'[y].queue = sks[y].queue
      /\ \A y \in Sock \ {x} : sk'[y].st = sks[y].st
      /\ sk'[x].st = "shut"
  BY <1>1 DEF FreeStarts, SockRecord
<1>5. /\ walk'.sock = x /\ walk'.tmp = After(list, x) /\ walk'.left = TasksOf(x)
  BY DEF FreeStarts
<1>6. Walking'
  <2>1. After(list, x) \in (ToSet(list) \ {x}) \union {None}
    BY AfterElement
  <2>2. TasksOf(x) \in LeftOf(x)
    BY DEF TasksOf, LeftOf
  <2>3. ASSUME NEW t \in NetTask, SockOf(t) = x PROVE t \in ToSet(TasksOf(x))
    <3>1. ToSet(<<Accept>>) = {Accept}
      BY DEF ToSet
    <3>2. \A a, b : ToSet(<<a, b>>) = {a, b}
      BY DEF ToSet
    <3> QED BY <1>1, <2>3, <3>1, <3>2, NetNames, SockNames DEF TasksOf
  <2>4. walk' \in [sock: Sock, tmp: Sock \union {None}, left: Seq(NetTask)]
    <3>1. walk' = [sock |-> x, tmp |-> After(list, x), left |-> TasksOf(x)]
      BY DEF FreeStarts
    <3>2. After(list, x) \in Sock \union {None}
      BY <2>1 DEF ToSet
    <3>3. TasksOf(x) \in Seq(NetTask)
      BY <1>1, <2>2, LeftTasks
    <3> QED BY <1>1, <3>1, <3>2, <3>3
  <2> QED BY <1>4, <1>5, <2>1, <2>2, <2>3, <2>4 DEF Walking
<1>7. WalkInv'
  BY <1>6 DEF WalkInv
<1> QED BY <1>1, <1>2, <1>3, <1>4, <1>7

\* What the walk makes of the scheduler and the sockets sks, from x on
LEMMA WalkOnGives ==
    ASSUME AliveInv, NEW s, SchedInv(s), Destroyer \notin ToSet(s.run_list),
           s.task[Destroyer].st = "live", s.task[Destroyer].at = sched.task[Destroyer].at,
           sched.task[Destroyer].at \in {"idle", "cancel", "tasks"},
           NEW list \in Seq(Sock), IsInjective(list), list = destroy_list',
           NEW sks \in [Sock -> SockRecord], \A y \in ToSet(list) : sks[y].st \in {"open", "shut"},
           NEW x \in ToSet(list) \union {None}, WalkOn(s, x, list, sks)
    PROVE  /\ SchedInv(sched') /\ OthersStay(s, sched', {Destroyer}) /\ sched'.task[Destroyer].st # "none"
           /\ OpStep(Destroyer)
           /\ op[Destroyer] = "prep" => op'[Destroyer] = "prep"
           /\ sched'.task[Destroyer].at = "tasks" =>
                sched.task[Destroyer].at = "tasks" /\ op'[Destroyer] = IF Completed(Destroyer) THEN "none" ELSE op[Destroyer]
           /\ sk' \in [Sock -> SockRecord]
           /\ \A y \in Sock : /\ sk'[y].queue = sks[y].queue
                              /\ sk'[y].st # sks[y].st => sks[y].st = "open" /\ sk'[y].st = "shut" /\ op'[Destroyer] = "prep"
           /\ WalkInv'
<1>0. Destroyer \in AllTasks /\ op \in [AllTasks -> Ops]
  BY Names DEF AliveInv, TypeInv
<1>1. ASSUME NEW y \in ToSet(list), FreeStarts(s, y, list, sks)
      PROVE  /\ SchedInv(sched') /\ OthersStay(s, sched', {Destroyer}) /\ sched'.task[Destroyer].st # "none"
             /\ OpStep(Destroyer) /\ op'[Destroyer] = "prep"
             /\ sched'.task[Destroyer].at # "tasks"
             /\ sk' \in [Sock -> SockRecord]
             /\ \A z \in Sock : /\ sk'[z].queue = sks[z].queue
                                /\ sk'[z].st # sks[z].st => sks[z].st = "open" /\ sk'[z].st = "shut" /\ op'[Destroyer] = "prep"
             /\ WalkInv'
  <2>1. /\ SchedInv(sched') /\ OthersStay(s, sched', {Destroyer})
        /\ (\A u \in AllTasks : sched'.task[u].st = s.task[u].st) /\ sched'.task[Destroyer].at = "cancel"
        /\ sk' \in [Sock -> SockRecord]
        /\ \A z \in Sock : sk'[z].queue = sks[z].queue
        /\ \A z \in Sock \ {y} : sk'[z].st = sks[z].st
        /\ y \in Sock /\ sk'[y].st = "shut"
        /\ WalkInv'
    BY <1>1, FreeStartsGives
  <2>2. OpStep(Destroyer) /\ op'[Destroyer] = "prep"
    BY <1>0, <1>1, PrepareGives DEF FreeStarts
  <2>3. sched'.task[Destroyer].st # "none"
    BY <1>0, <2>1
  <2> QED BY <2>1, <2>2, <2>3
<1>2. ASSUME sk' = sks, walk' = NoWalk, Consume(Destroyer),
             sched' = Finish(s, Destroyer) \/ sched' = Sleep(s, Destroyer, "idle")
      PROVE  /\ SchedInv(sched') /\ OthersStay(s, sched', {Destroyer}) /\ sched'.task[Destroyer].st # "none"
             /\ OpStep(Destroyer) /\ op'[Destroyer] = IF Completed(Destroyer) THEN "none" ELSE op[Destroyer]
             /\ sched'.task[Destroyer].at = "tasks" => sched.task[Destroyer].at = "tasks"
             /\ WalkInv'
  <2>1. OpStep(Destroyer) /\ op'[Destroyer] = IF Completed(Destroyer) THEN "none" ELSE op[Destroyer]
    BY <1>0, <1>2, ConsumeGives
  <2>2. CASE sched' = Finish(s, Destroyer)
    <3>1. /\ SchedInv(Finish(s, Destroyer))
          /\ \A u \in AllTasks \ {Destroyer} : Finish(s, Destroyer).task[u] = s.task[u]
          /\ Finish(s, Destroyer).task[Destroyer].st \in {"finished", "freed"}
          /\ Finish(s, Destroyer).task[Destroyer].at = s.task[Destroyer].at
      BY <1>0, FinishKeeps
    <3>2. SchedInv(sched') /\ OthersStay(s, sched', {Destroyer}) /\ sched'.task[Destroyer].st \notin {"none", "live"}
          /\ sched'.task[Destroyer].at = sched.task[Destroyer].at
      BY <2>2, <3>1 DEF OthersStay
    <3>3. WalkInv'
      BY <1>2, <3>2 DEF WalkInv
    <3> QED BY <2>1, <3>2, <3>3
  <2>3. CASE sched' = Sleep(s, Destroyer, "idle")
    <3> DEFINE e == s
               at == "idle"
    <3>1. SchedInv(e) /\ Destroyer \in AllTasks /\ at \in Places
      BY <1>0 DEF Places
    <3>1a. sched' = Sleep(e, Destroyer, at)
      BY <2>3
    <3> HIDE DEF e, at
    <3>2. /\ SchedInv(Sleep(e, Destroyer, at)) /\ OthersStay(e, Sleep(e, Destroyer, at), {Destroyer})
          /\ \A u \in AllTasks : Sleep(e, Destroyer, at).task[u].st = e.task[u].st
          /\ Sleep(e, Destroyer, at).task[Destroyer].at = at
      BY ONLY <3>1, SleepKeeps, ZenonT(60)
    <3>3. SchedInv(sched') /\ OthersStay(s, sched', {Destroyer}) /\ sched'.task[Destroyer].st # "none"
          /\ sched'.task[Destroyer].at = "idle"
      BY <1>0, <3>1a, <3>2 DEF e, at
    <3>4. WalkInv'
      BY <1>2, <3>3 DEF WalkInv
    <3> QED BY <2>1, <3>3, <3>4
  <2> QED BY <1>2, <2>2, <2>3
<1>3. CASE \E y \in ToSet(list) : FreeStarts(s, y, list, sks)
  <2>1. PICK y \in ToSet(list) : FreeStarts(s, y, list, sks)
    BY <1>3
  <2> QED BY <1>1, <2>1
<1>4. CASE sk' = sks /\ walk' = NoWalk /\ Consume(Destroyer)
           /\ (sched' = Finish(s, Destroyer) \/ sched' = Sleep(s, Destroyer, "idle"))
  <2>1. /\ SchedInv(sched') /\ OthersStay(s, sched', {Destroyer}) /\ sched'.task[Destroyer].st # "none"
        /\ OpStep(Destroyer) /\ op'[Destroyer] = IF Completed(Destroyer) THEN "none" ELSE op[Destroyer]
        /\ sched'.task[Destroyer].at = "tasks" => sched.task[Destroyer].at = "tasks"
        /\ WalkInv'
    BY <1>2, <1>4
  <2>2. op[Destroyer] = "prep" => op'[Destroyer] = "prep"
    BY <2>1 DEF Completed
  <2>3. sk' = sks
    BY <1>4
  <2> QED BY <2>1, <2>2, <2>3
<1>5. \/ \E y \in ToSet(list) : FreeStarts(s, y, list, sks)
      \/ sk' = sks /\ walk' = NoWalk /\ Consume(Destroyer)
         /\ (sched' = Finish(s, Destroyer) \/ sched' = Sleep(s, Destroyer, "idle"))
  <2>1. list # <<>> => Head(list) \in ToSet(list)
    BY DEF ToSet
  <2> QED BY <2>1 DEF WalkOn
<1> QED BY <1>3, <1>4, <1>5

\* utask_destroy of t, which the destroying task waits for, or frees
LEMMA DestroyTaskGives ==
    ASSUME NEW s, SchedInv(s), NEW t \in AllTasks, s.task[t].st # "none", s.task[Destroyer].st # "none",
           NEW d, d = DestroyTask(s, t)
    PROVE  /\ SchedInv(d.s) /\ OthersStay(s, d.s, {t}) /\ d.s.task[t].at = s.task[t].at
           /\ \/ s.task[t].st = "live" /\ d.s.task[t].st = "live" /\ d.left = <<t>>
              \/ s.task[t].st # "live" /\ d.s.task[t].st = "freed" /\ d.left = <<>>
                 /\ ToSet(d.s.run_list) \subseteq ToSet(s.run_list)
<1>1. CASE s.task[t].st = "live"
  <2>1. d.s = DestroyStart(s, t, Destroyer) /\ d.left = <<t>>
    BY <1>1 DEF DestroyTask
  <2>2. Destroyer \in AllTasks
    BY Names
  <2>3. SchedInv(DestroyStart(s, t, Destroyer)) /\ OthersStay(s, DestroyStart(s, t, Destroyer), {})
    BY <2>2, DestroyStartKeeps
  <2> QED BY <1>1, <2>1, <2>3 DEF OthersStay
<1>2. CASE s.task[t].st # "live"
  <2>1. d.s = Free(s, t) /\ d.left = <<>>
    BY <1>2 DEF DestroyTask
  <2>2. /\ SchedInv(Free(s, t))
        /\ \A u \in AllTasks \ {t} : Free(s, t).task[u] = s.task[u]
        /\ Free(s, t).task[t].st = "freed" /\ Free(s, t).task[t].at = s.task[t].at
        /\ ToSet(Free(s, t).run_list) \subseteq ToSet(s.run_list)
    BY FreeKeeps
  <2> QED BY <1>2, <2>1, <2>2 DEF OthersStay
<1> QED BY <1>1, <1>2

\* The tasks ts that are left of a socket: those that have ended are freed, up
\* to the first that has not.
LEMMA DestroyTasksGive ==
    ASSUME NEW s, SchedInv(s), s.task[Destroyer].st # "none", NEW x \in Sock, NEW ts \in LeftOf(x),
           \A t \in ToSet(ts) : s.task[t].st # "none",
           NEW d, d = DestroyTasks(s, ts)
    PROVE  /\ SchedInv(d.s) /\ OthersStay(s, d.s, ToSet(ts)) /\ ToSet(ts) \subseteq NetTask
           /\ \A t \in ToSet(ts) :
                /\ SockOf(t) = x
                /\ d.s.task[t].at = s.task[t].at
                /\ d.s.task[t].st # s.task[t].st => s.task[t].st # "live" /\ d.s.task[t].st = "freed"
                /\ s.task[t].st = "live" => t \in ToSet(d.left)
           /\ d.left \in LeftOf(x) \/ (d.left = <<>> /\ ToSet(d.s.run_list) \subseteq ToSet(s.run_list))
<1>0. \A a : ToSet(<<a>>) = {a} /\ Head(<<a>>) = a /\ Tail(<<a>>) = <<>>
  BY DEF ToSet
<1>1. \A a, b : ToSet(<<a, b>>) = {a, b} /\ Head(<<a, b>>) = a /\ <<a, b>>[2] = b /\ Tail(<<a, b>>) = <<b>>
  BY DEF ToSet
<1>2. ASSUME NEW a \in NetTask, SockOf(a) = x, ts = <<a>>, <<a>> \in LeftOf(x)
      PROVE  /\ SchedInv(d.s) /\ OthersStay(s, d.s, ToSet(ts)) /\ ToSet(ts) \subseteq NetTask
             /\ \A t \in ToSet(ts) :
                  /\ SockOf(t) = x
                  /\ d.s.task[t].at = s.task[t].at
                  /\ d.s.task[t].st # s.task[t].st => s.task[t].st # "live" /\ d.s.task[t].st = "freed"
                  /\ s.task[t].st = "live" => t \in ToSet(d.left)
             /\ d.left \in LeftOf(x) \/ (d.left = <<>> /\ ToSet(d.s.run_list) \subseteq ToSet(s.run_list))
  <2>1. d = DestroyTask(s, a)
    BY <1>0, <1>2 DEF DestroyTasks
  <2>2. a \in AllTasks /\ s.task[a].st # "none"
    BY <1>0, <1>2, Names
  <2>3. /\ SchedInv(d.s) /\ OthersStay(s, d.s, {a}) /\ d.s.task[a].at = s.task[a].at
        /\ \/ s.task[a].st = "live" /\ d.s.task[a].st = "live" /\ d.left = <<a>>
           \/ s.task[a].st # "live" /\ d.s.task[a].st = "freed" /\ d.left = <<>>
              /\ ToSet(d.s.run_list) \subseteq ToSet(s.run_list)
    BY <2>1, <2>2, DestroyTaskGives
  <2>4. ToSet(ts) = {a} /\ ToSet(<<a>>) = {a}
    BY <1>0, <1>2
  <2> QED BY <1>2, <2>3, <2>4
<1>3. CASE x = Listener
  BY <1>2, <1>3, Names, NetNames DEF LeftOf
<1>4. CASE x # Listener
  <2> DEFINE a == Send(x)
             b == Recv(x)
  <2>1. x \in Peer
    BY <1>4, SockNames
  <2>2. /\ a \in NetTask /\ b \in NetTask /\ a # b /\ SockOf(a) = x /\ SockOf(b) = x
        /\ a \in AllTasks /\ b \in AllTasks
    BY <2>1, Names, NetNames
  <2>3. LeftOf(x) = {<<a, b>>, <<b>>}
    BY <1>4 DEF LeftOf
  <2> HIDE DEF a, b
  <2>4. CASE ts = <<b>>
    BY <1>2, <2>2, <2>3, <2>4
  <2>5. CASE ts = <<a, b>>
    <3> DEFINE e == DestroyTask(s, a)
    <3>1. ToSet(ts) = {a, b} /\ s.task[a].st # "none" /\ s.task[b].st # "none"
      BY <1>1, <2>5
    <3>2. d = IF e.left # <<>> THEN [e EXCEPT !.left = ts] ELSE DestroyTask(e.s, b)
      <4>1. Head(ts) = a /\ Tail(ts) # <<>> /\ ts[2] = b
        BY <1>1, <2>5
      <4> QED BY <4>1 DEF DestroyTasks
    <3>2a. e.left # <<>> => [e EXCEPT !.left = ts].s = e.s /\ [e EXCEPT !.left = ts].left = ts
      BY DEF DestroyTask
    <3> HIDE DEF e
    <3>3. /\ SchedInv(e.s) /\ OthersStay(s, e.s, {a}) /\ e.s.task[a].at = s.task[a].at
          /\ \/ s.task[a].st = "live" /\ e.s.task[a].st = "live" /\ e.left = <<a>>
             \/ s.task[a].st # "live" /\ e.s.task[a].st = "freed" /\ e.left = <<>>
                /\ ToSet(e.s.run_list) \subseteq ToSet(s.run_list)
      BY <2>2, <3>1, DestroyTaskGives DEF e
    <3>4. CASE e.left # <<>>
      <4>1. d.s = e.s /\ d.left = ts /\ s.task[a].st = "live" /\ e.s.task[a].st = "live"
        BY <3>2, <3>2a, <3>3, <3>4
      <4>2. OthersStay(s, d.s, {a, b}) /\ d.s.task[b].at = s.task[b].at /\ d.s.task[b].st = s.task[b].st
        BY <2>2, <3>3, <4>1 DEF OthersStay
      <4> QED BY <2>2, <2>3, <2>5, <3>1, <3>3, <4>1, <4>2
    <3>5. CASE e.left = <<>>
      <4>1. d = DestroyTask(e.s, b) /\ s.task[a].st # "live" /\ e.s.task[a].st = "freed"
            /\ ToSet(e.s.run_list) \subseteq ToSet(s.run_list)
        BY <3>2, <3>3, <3>5
      <4>2. e.s.task[b].st = s.task[b].st /\ e.s.task[b].at = s.task[b].at /\ e.s.task[Destroyer].st # "none"
        BY <2>2, <3>3, Names DEF OthersStay
      <4>3. SchedInv(e.s) /\ e.s.task[b].st # "none"
        BY <3>1, <3>3, <4>2
      <4>4. /\ SchedInv(d.s) /\ OthersStay(e.s, d.s, {b}) /\ d.s.task[b].at = e.s.task[b].at
            /\ \/ e.s.task[b].st = "live" /\ d.s.task[b].st = "live" /\ d.left = <<b>>
               \/ e.s.task[b].st # "live" /\ d.s.task[b].st = "freed" /\ d.left = <<>>
                  /\ ToSet(d.s.run_list) \subseteq ToSet(e.s.run_list)
        BY <2>2, <4>1, <4>2, <4>3, DestroyTaskGives
      <4>5. OthersStay(s, d.s, {a, b}) /\ d.s.task[a].at = s.task[a].at /\ d.s.task[a].st = "freed"
        BY <2>2, <3>3, <4>1, <4>4 DEF OthersStay
      <4>6. s.task[b].st = "live" => b \in ToSet(d.left)
        BY <1>0, <4>2, <4>4
      <4>7. d.left \in LeftOf(x) \/ (d.left = <<>> /\ ToSet(d.s.run_list) \subseteq ToSet(s.run_list))
        BY <2>3, <4>1, <4>4
      <4>8. ASSUME NEW t \in {a, b}
            PROVE  /\ SockOf(t) = x
                   /\ d.s.task[t].at = s.task[t].at
                   /\ d.s.task[t].st # s.task[t].st => s.task[t].st # "live" /\ d.s.task[t].st = "freed"
                   /\ s.task[t].st = "live" => t \in ToSet(d.left)
        BY <2>2, <4>1, <4>2, <4>4, <4>5, <4>6
      <4> QED BY <2>2, <3>1, <4>4, <4>5, <4>7, <4>8
    <3> QED BY <3>4, <3>5
  <2> QED BY <2>3, <2>4, <2>5
<1> QED BY <1>3, <1>4

\* The destroying task runs.
LEMMA DestroyerRuns ==
    ASSUME AliveInv, NEW at, Runs(Destroyer, at)
    PROVE  /\ SchedInv(Switch(sched)) /\ Destroyer \notin ToSet(Switch(sched).run_list)
           /\ Switch(sched).task = sched.task
           /\ phase = "run" /\ sched.task[Destroyer].at = at /\ sched.task[Destroyer].st = "live"
<1>1. Destroyer \in AllTasks
  BY Names
<1>2. Running(Switch(sched), Destroyer) /\ Switch(sched).task = sched.task
      /\ phase = "run" /\ sched.task[Destroyer].at = at /\ sched.task[Destroyer].st = "live"
  BY <1>1, RunsGives DEF AliveInv
<1> QED BY <1>2 DEF Running

\* The sockets on its list
LEMMA ListedSocks ==
    ASSUME AliveInv
    PROVE  /\ sockets_list \in Seq(Sock) /\ destroy_list \in Seq(Sock)
           /\ IsInjective(sockets_list \o destroy_list) /\ IsInjective(destroy_list)
           /\ ToSet(sockets_list \o destroy_list) = Allocated
           /\ ToSet(destroy_list) \subseteq Allocated
<1>1. sockets_list \in Seq(Sock) /\ destroy_list \in Seq(Sock) /\ IsInjective(sockets_list \o destroy_list)
      /\ ToSet(sockets_list \o destroy_list) = Allocated
  BY DEF AliveInv, TypeInv, ListInv
<1>2. IsInjective(destroy_list)
  BY <1>1, ConcatParts
<1>3. ToSet(destroy_list) \subseteq ToSet(sockets_list \o destroy_list)
  BY <1>1, SplicedElements
<1> QED BY <1>1, <1>2, <1>3

LEMMA DestroyRunsKeeps ==
    ASSUME AliveInv, TakenInv, DestroyRuns
    PROVE  AliveInv' /\ IoStep
<1> DEFINE s == Switch(sched)
           x == IF destroy_list = <<>> THEN None ELSE Head(destroy_list)
<1>1. /\ SchedInv(s) /\ Destroyer \notin ToSet(s.run_list)
      /\ s.task = sched.task
      /\ phase = "run" /\ sched.task[Destroyer].at = "idle" /\ sched.task[Destroyer].st = "live"
  BY DestroyerRuns DEF DestroyRuns
<1>2. WalkOn(s, x, destroy_list, sk) /\ UNCHANGED <<phase, listVars, closed, sent, taken, recv_fn, destroy_tsk>>
  BY DEF DestroyRuns, peerVars
<1>3. /\ sockets_list \in Seq(Sock) /\ destroy_list \in Seq(Sock)
      /\ IsInjective(sockets_list \o destroy_list) /\ IsInjective(destroy_list)
      /\ ToSet(sockets_list \o destroy_list) = Allocated
      /\ ToSet(destroy_list) \subseteq Allocated
  BY ListedSocks
<1>4. x \in ToSet(destroy_list) \union {None}
  BY <1>3 DEF ToSet
<1>5. sk \in [Sock -> SockRecord]
  BY DEF AliveInv, TypeInv, SockRecord
<1> HIDE DEF s, x
<1>6. /\ SchedInv(sched') /\ OthersStay(s, sched', {Destroyer}) /\ sched'.task[Destroyer].st # "none"
      /\ OpStep(Destroyer)
      /\ op[Destroyer] = "prep" => op'[Destroyer] = "prep"
      /\ sched'.task[Destroyer].at = "tasks" => sched.task[Destroyer].at = "tasks"
      /\ sk' \in [Sock -> SockRecord]
      /\ \A y \in Sock : /\ sk'[y].queue = sk[y].queue
                         /\ sk'[y].st # sk[y].st => sk[y].st = "open" /\ sk'[y].st = "shut" /\ op'[Destroyer] = "prep"
      /\ WalkInv'
  <2>1. s.task[Destroyer].st = "live" /\ s.task[Destroyer].at = sched.task[Destroyer].at
        /\ sched.task[Destroyer].at \in {"idle", "cancel", "tasks"}
    BY <1>1
  <2>2. destroy_list = destroy_list' /\ \A y \in ToSet(destroy_list) : sk[y].st \in {"open", "shut"}
    BY <1>2, <1>3 DEF listVars, Allocated
  <2> QED BY <1>1, <1>2, <1>3, <1>4, <1>5, <2>1, <2>2, WalkOnGives
<1>7. OthersStay(sched, sched', {Destroyer})
  BY <1>1, <1>6 DEF OthersStay
<1>8. ASSUME NEW t \in NetTask
      PROVE  sched'.task[t].st = sched.task[t].st /\ sched'.task[t].at = sched.task[t].at
  BY <1>7, Names DEF OthersStay
<1>9. DestroyerStep({})
  <2>1. OthersStay(sched, sched', NetTask \union {Destroyer}) /\ TasksEnd
    BY <1>7, <1>8 DEF OthersStay, TasksEnd
  <2>2. SocksShut(Sock \ {})
    BY <1>6 DEF SocksShut
  <2>3. UNCHANGED <<sockets_list, destroy_list, peer_root>>
    BY <1>2 DEF listVars
  <2>4. sched'.task[Destroyer].at # "tasks"
    BY <1>1, <1>6
  <2> QED BY <1>1, <1>2, <1>3, <1>6, <2>1, <2>2, <2>3, <2>4 DEF DestroyerStep
<1>10. AliveInv'
  BY <1>9, DestroyerStepKeeps
<1>11. IoStep
  BY <1>8 DEF IoStep, FreedTask
<1> QED BY <1>10, <1>11

\* free_sock goes on: what utask_destroy makes of the tasks that were left
LEMMA FreeGives ==
    ASSUME AliveInv, FreeGoesOn, NEW d, d = DestroyTasks(Switch(sched), walk.left)
    PROVE  /\ phase = "run" /\ Walking /\ walk.sock \in Sock /\ walk.sock \in ToSet(destroy_list)
           /\ sched.task[Destroyer].st = "live" /\ sched.task[Destroyer].at \in {"cancel", "tasks"}
           /\ op[Destroyer] # "prep" /\ (Completed(Destroyer) \/ op[Destroyer] = "none")
           /\ SchedInv(d.s) /\ d.s.task[Destroyer].st = "live"
           /\ d.s.task[Destroyer].at = sched.task[Destroyer].at
           /\ OthersStay(sched, d.s, NetTask)
           /\ \A t \in NetTask :
                /\ d.s.task[t].at = sched.task[t].at
                /\ d.s.task[t].st # sched.task[t].st =>
                     SockOf(t) = walk.sock /\ sched.task[t].st \notin {"none", "live"} /\ d.s.task[t].st = "freed"
                /\ SockOf(t) = walk.sock /\ sched.task[t].st = "live" => t \in ToSet(d.left)
           /\ d.left \in LeftOf(walk.sock) \/ (d.left = <<>> /\ Destroyer \notin ToSet(d.s.run_list))
<1> DEFINE s == Switch(sched)
           x == walk.sock
           ts == walk.left
<1>1. PICK at \in {"cancel", "tasks"} : Runs(Destroyer, at)
  BY DEF FreeGoesOn
<1>2. /\ SchedInv(s) /\ Destroyer \notin ToSet(s.run_list)
      /\ s.task = sched.task
      /\ phase = "run" /\ sched.task[Destroyer].at = at /\ sched.task[Destroyer].st = "live"
  BY <1>1, DestroyerRuns
<1>3. Walking
  BY <1>1, <1>2 DEF AliveInv, WalkInv
<1>4. op[Destroyer] # "prep" /\ (Completed(Destroyer) \/ op[Destroyer] = "none")
  <2>1. Completed(Destroyer) \/ sched.task[Destroyer].at = "tasks"
    BY DEF FreeGoesOn, Runs
  <2>2. sched.task[Destroyer].at = "tasks" => op[Destroyer] = "none"
    BY DEF AliveInv, BusyInv
  <2> QED BY <2>1, <2>2 DEF Completed
<1>5. x \in Sock /\ x \in ToSet(destroy_list) /\ ts \in LeftOf(x) /\ sk[x].st = "shut"
      /\ \A t \in NetTask : SockOf(t) = x /\ sched.task[t].st = "live" => t \in ToSet(ts)
  BY <1>3 DEF Walking
<1>6. d = DestroyTasks(s, ts)
  OBVIOUS
<1> HIDE DEF s, x, ts
<1>7. \A t \in ToSet(ts) : t \in NetTask /\ SockOf(t) = x
  BY <1>5, LeftTasks
<1>8. \A t \in ToSet(ts) : s.task[t].st # "none"
  <2>1. OwnerInv
    BY DEF AliveInv
  <2> QED BY <1>2, <1>5, <1>7, <2>1 DEF OwnerInv
<1>9. SchedInv(s) /\ s.task[Destroyer].st # "none"
  BY <1>2
<1>10. /\ SchedInv(d.s) /\ OthersStay(s, d.s, ToSet(ts)) /\ ToSet(ts) \subseteq NetTask
       /\ \A t \in ToSet(ts) :
            /\ SockOf(t) = x
            /\ d.s.task[t].at = s.task[t].at
            /\ d.s.task[t].st # s.task[t].st => s.task[t].st # "live" /\ d.s.task[t].st = "freed"
            /\ s.task[t].st = "live" => t \in ToSet(d.left)
       /\ d.left \in LeftOf(x) \/ (d.left = <<>> /\ ToSet(d.s.run_list) \subseteq ToSet(s.run_list))
  BY <1>5, <1>6, <1>8, <1>9, DestroyTasksGive
<1>11. OthersStay(sched, d.s, NetTask)
  BY <1>2, <1>10 DEF OthersStay
<1>12. d.s.task[Destroyer].st = "live" /\ d.s.task[Destroyer].at = sched.task[Destroyer].at
  BY <1>2, <1>11, Names DEF OthersStay
<1>13. ASSUME NEW t \in NetTask
       PROVE  /\ d.s.task[t].at = sched.task[t].at
              /\ d.s.task[t].st # sched.task[t].st =>
                   SockOf(t) = x /\ sched.task[t].st \notin {"none", "live"} /\ d.s.task[t].st = "freed"
              /\ SockOf(t) = x /\ sched.task[t].st = "live" => t \in ToSet(d.left)
  <2>1. t \in AllTasks
    BY Names
  <2>2. CASE t \in ToSet(ts)
    BY <1>2, <1>8, <1>10, <2>2
  <2>3. CASE t \notin ToSet(ts)
    BY <1>2, <1>5, <1>10, <2>1, <2>3 DEF OthersStay
  <2> QED BY <2>2, <2>3
<1>14. d.left \in LeftOf(x) \/ (d.left = <<>> /\ Destroyer \notin ToSet(d.s.run_list))
  BY <1>2, <1>10
<1> QED BY <1>1, <1>2, <1>3, <1>4, <1>5, <1>10, <1>11, <1>12, <1>13, <1>14 DEF x

\* No op of the kernel points to the stacks it frees.
LEMMA FreeIoStep ==
    ASSUME AliveInv, FreeGoesOn, NEW d, d = DestroyTasks(Switch(sched), walk.left),
           OthersStay(d.s, sched', {Destroyer})
    PROVE  IoStep
<1>1. /\ phase = "run" /\ Walking /\ op[Destroyer] # "prep"
      /\ \A t \in NetTask : d.s.task[t].st # sched.task[t].st => SockOf(t) = walk.sock
  BY FreeGives
<1> SUFFICES ASSUME NEW t \in NetTask, FreedTask(t) PROVE op[t] # "busy"
  BY DEF IoStep
<1>2. t \in AllTasks \ {Destroyer}
  BY Names
<1>3. SockOf(t) = walk.sock
  BY <1>1, <1>2 DEF FreedTask, OthersStay
<1>4. sk[SockOf(t)].st # "open"
  BY <1>1, <1>3 DEF Walking
<1> QED BY <1>1, <1>4 DEF AliveInv, BusyInv

\* It sleeps for a task that has not ended,
LEMMA FreeWaitsKeeps ==
    ASSUME AliveInv, TakenInv, FreeGoesOn, NEW d, d = DestroyTasks(Switch(sched), walk.left), d.left # <<>>
    PROVE  AliveInv' /\ IoStep
<1>1. /\ phase = "run" /\ Walking /\ walk.sock \in Sock /\ walk.sock \in ToSet(destroy_list)
      /\ sched.task[Destroyer].st = "live" /\ sched.task[Destroyer].at \in {"cancel", "tasks"}
      /\ op[Destroyer] # "prep" /\ (Completed(Destroyer) \/ op[Destroyer] = "none")
      /\ SchedInv(d.s) /\ d.s.task[Destroyer].st = "live"
      /\ OthersStay(sched, d.s, NetTask)
      /\ \A t \in NetTask :
           /\ d.s.task[t].at = sched.task[t].at
           /\ d.s.task[t].st # sched.task[t].st =>
                SockOf(t) = walk.sock /\ sched.task[t].st \notin {"none", "live"} /\ d.s.task[t].st = "freed"
           /\ SockOf(t) = walk.sock /\ sched.task[t].st = "live" => t \in ToSet(d.left)
      /\ d.left \in LeftOf(walk.sock)
  BY FreeGives
<1>2. /\ sched' = Sleep(d.s, Destroyer, "tasks") /\ walk' = [walk EXCEPT !.left = d.left]
      /\ Consume(Destroyer)
      /\ UNCHANGED <<phase, listVars, sk, closed, sent, taken, recv_fn, destroy_tsk>>
  BY DEF FreeGoesOn, listVars, peerVars
<1> DEFINE e == d.s
           at == "tasks"
<1>3. SchedInv(e) /\ Destroyer \in AllTasks /\ at \in Places
  BY <1>1, Names DEF Places
<1>4. sched' = Sleep(e, Destroyer, at)
  BY <1>2
<1> HIDE DEF e, at
<1>5. /\ SchedInv(Sleep(e, Destroyer, at)) /\ OthersStay(e, Sleep(e, Destroyer, at), {Destroyer})
      /\ \A u \in AllTasks : Sleep(e, Destroyer, at).task[u].st = e.task[u].st
      /\ Sleep(e, Destroyer, at).task[Destroyer].at = at
  BY ONLY <1>3, SleepKeeps
<1>6. /\ SchedInv(sched') /\ OthersStay(d.s, sched', {Destroyer}) /\ sched'.task[Destroyer].st = "live"
      /\ sched'.task[Destroyer].at = "tasks"
  BY <1>1, <1>3, <1>4, <1>5 DEF e, at
<1>7. IoStep
  BY <1>6, FreeIoStep
<1>8. OpStep(Destroyer) /\ op'[Destroyer] = "none"
  <2>1. op \in [AllTasks -> Ops]
    BY DEF AliveInv, TypeInv
  <2>2. OpStep(Destroyer) /\ op'[Destroyer] = IF Completed(Destroyer) THEN "none" ELSE op[Destroyer]
    BY <1>2, <1>3, <2>1, ConsumeGives
  <2> QED BY <1>1, <2>2
<1>9. ASSUME NEW t \in NetTask
      PROVE  /\ sched'.task[t].at = sched.task[t].at
             /\ sched'.task[t].st # sched.task[t].st => sched.task[t].st \notin {"none", "live"} /\ sched'.task[t].st = "freed"
             /\ sched'.task[t].st = "live" => sched.task[t].st = "live"
  <2>1. t \in AllTasks \ {Destroyer}
    BY Names
  <2> QED BY <1>1, <1>6, <2>1 DEF OthersStay
<1>10. WalkInv'
  <2>1. walk'.sock = walk.sock /\ walk'.tmp = walk.tmp /\ walk'.left = d.left
        /\ walk' \in [sock: Sock, tmp: Sock \union {None}, left: Seq(NetTask)]
    BY <1>1, <1>2, LeftTasks DEF Walking
  <2>2. Walking'
    BY <1>1, <1>2, <1>9, <2>1 DEF Walking, listVars
  <2> QED BY <2>2 DEF WalkInv
<1>11. DestroyerStep({})
  <2>1. OthersStay(sched, sched', NetTask \union {Destroyer}) /\ TasksEnd
    BY <1>1, <1>6, <1>9 DEF OthersStay, TasksEnd
  <2>2. SocksShut(Sock \ {}) /\ sk' \in [Sock -> SockRecord]
    BY <1>2 DEF SocksShut, AliveInv, TypeInv, SockRecord
  <2>3. UNCHANGED <<sockets_list, destroy_list, peer_root>>
    BY <1>2 DEF listVars
  <2>4. /\ sockets_list \in Seq(Sock) /\ destroy_list \in Seq(Sock)
        /\ IsInjective(sockets_list \o destroy_list)
        /\ ToSet(sockets_list \o destroy_list) = Allocated
    BY ListedSocks
  <2> QED BY <1>1, <1>2, <1>6, <1>8, <1>10, <2>1, <2>2, <2>3, <2>4 DEF DestroyerStep
<1>12. AliveInv'
  BY <1>11, DestroyerStepKeeps
<1> QED BY <1>7, <1>12

\* or frees the socket, and the walk goes on from the entry it has kept.
LEMMA FreeEndsKeeps ==
    ASSUME AliveInv, TakenInv, FreeGoesOn, NEW d, d = DestroyTasks(Switch(sched), walk.left), d.left = <<>>
    PROVE  AliveInv' /\ IoStep
<1> DEFINE x == walk.sock
           rest == Unlinked(destroy_list, x)
           sks == [sk EXCEPT ![x] = [st |-> "freed", queue |-> <<>>]]
           e == d.s
<1>1. /\ phase = "run" /\ Walking /\ x \in Sock /\ x \in ToSet(destroy_list)
      /\ sched.task[Destroyer].st = "live" /\ sched.task[Destroyer].at \in {"cancel", "tasks"}
      /\ op[Destroyer] # "prep" /\ (Completed(Destroyer) \/ op[Destroyer] = "none")
      /\ SchedInv(e) /\ e.task[Destroyer].st = "live"
      /\ e.task[Destroyer].at = sched.task[Destroyer].at
      /\ OthersStay(sched, e, NetTask)
      /\ \A t \in NetTask :
           /\ e.task[t].at = sched.task[t].at
           /\ e.task[t].st # sched.task[t].st =>
                SockOf(t) = x /\ sched.task[t].st \notin {"none", "live"} /\ e.task[t].st = "freed"
           /\ SockOf(t) = x /\ sched.task[t].st = "live" => t \in ToSet(d.left)
      /\ d.left \in LeftOf(x) \/ (d.left = <<>> /\ Destroyer \notin ToSet(e.run_list))
  BY FreeGives
<1>2. Destroyer \notin ToSet(e.run_list) /\ \A t \in NetTask : SockOf(t) = x => sched.task[t].st # "live"
  <2>1. <<>> \notin LeftOf(x)
    BY DEF LeftOf
  <2>2. ToSet(<<>>) = {}
    BY DEF ToSet
  <2> QED BY <1>1, <2>1, <2>2
<1>3. /\ destroy_list' = rest /\ peer_root' = peer_root \ {x} /\ WalkOn(e, walk.tmp, rest, sks)
      /\ UNCHANGED <<phase, sockets_list, closed, sent, taken, recv_fn, destroy_tsk>>
  BY DEF FreeGoesOn, Erased, peerVars
<1>4. /\ sockets_list \in Seq(Sock) /\ destroy_list \in Seq(Sock)
      /\ IsInjective(sockets_list \o destroy_list) /\ IsInjective(destroy_list)
      /\ ToSet(sockets_list \o destroy_list) = Allocated
      /\ ToSet(destroy_list) \subseteq Allocated
  BY ListedSocks
<1>5. sk \in [Sock -> SockRecord]
  BY DEF AliveInv, TypeInv, SockRecord
<1>6. sk[x].st = "shut" /\ walk.tmp \in (ToSet(destroy_list) \ {x}) \union {None}
  BY <1>1 DEF Walking
<1> HIDE DEF x, e
<1>7. /\ rest \in Seq(Sock) /\ ToSet(rest) = ToSet(destroy_list) \ {x}
      /\ ToSet(sockets_list \o rest) = ToSet(sockets_list \o destroy_list) \ {x}
      /\ IsInjective(sockets_list \o rest)
  BY <1>1, <1>4, TakenOffElements
<1>8. /\ sks \in [Sock -> SockRecord] /\ sks[x].st = "freed"
      /\ \A y \in Sock \ {x} : sks[y] = sk[y]
  BY <1>1, <1>5 DEF SockRecord
<1> HIDE DEF rest, sks
<1>9. /\ SchedInv(sched') /\ OthersStay(e, sched', {Destroyer}) /\ sched'.task[Destroyer].st # "none"
      /\ OpStep(Destroyer)
      /\ op[Destroyer] = "prep" => op'[Destroyer] = "prep"
      /\ sched'.task[Destroyer].at = "tasks" =>
           sched.task[Destroyer].at = "tasks" /\ op'[Destroyer] = IF Completed(Destroyer) THEN "none" ELSE op[Destroyer]
      /\ sk' \in [Sock -> SockRecord]
      /\ \A y \in Sock : /\ sk'[y].queue = sks[y].queue
                         /\ sk'[y].st # sks[y].st => sks[y].st = "open" /\ sk'[y].st = "shut" /\ op'[Destroyer] = "prep"
      /\ WalkInv'
  <2>1. SchedInv(e) /\ Destroyer \notin ToSet(e.run_list) /\ e.task[Destroyer].st = "live"
        /\ e.task[Destroyer].at = sched.task[Destroyer].at /\ sched.task[Destroyer].at \in {"idle", "cancel", "tasks"}
    BY <1>1, <1>2
  <2>2. rest \in Seq(Sock) /\ IsInjective(rest) /\ rest = destroy_list'
    BY <1>3, <1>4, <1>7, ConcatParts
  <2>3. \A y \in ToSet(rest) : sks[y].st \in {"open", "shut"}
    <3>1. ASSUME NEW y \in ToSet(rest) PROVE sks[y].st \in {"open", "shut"}
      <4>1. y \in Sock \ {x} /\ y \in Allocated
        BY <1>4, <1>7 DEF Allocated
      <4> QED BY <1>8, <4>1 DEF Allocated
    <3> QED BY <3>1
  <2>4. walk.tmp \in ToSet(rest) \union {None} /\ WalkOn(e, walk.tmp, rest, sks) /\ sks \in [Sock -> SockRecord]
    BY <1>3, <1>6, <1>7, <1>8
  <2> QED BY <2>1, <2>2, <2>3, <2>4, WalkOnGives
<1>10. IoStep
  BY <1>9, FreeIoStep DEF e
<1>11. OthersStay(sched, sched', NetTask \union {Destroyer}) /\ TasksEnd
  <2>1. OthersStay(sched, sched', NetTask \union {Destroyer})
    BY <1>1, <1>9 DEF OthersStay
  <2>2. ASSUME NEW t \in NetTask
        PROVE  /\ sched'.task[t].at = sched.task[t].at
               /\ sched'.task[t].st # sched.task[t].st => sched.task[t].st \notin {"none", "live"} /\ sched'.task[t].st = "freed"
    <3>1. t \in AllTasks \ {Destroyer}
      BY Names
    <3> QED BY <1>1, <1>9, <3>1 DEF OthersStay
  <2> QED BY <2>1, <2>2 DEF TasksEnd
<1>12. SocksShut(Sock \ {x})
  BY <1>8, <1>9 DEF SocksShut
<1>13. sk'[x].st = "freed"
  BY <1>1, <1>8, <1>9
<1>14. sched'.task[Destroyer].at = "tasks" => op'[Destroyer] = "none"
  BY <1>1, <1>9
<1>15. DestroyerStep({x})
  <2>1. /\ sockets_list' \in Seq(Sock) /\ destroy_list' \in Seq(Sock)
        /\ IsInjective(sockets_list' \o destroy_list')
        /\ ToSet(sockets_list' \o destroy_list') = Allocated \ {x}
    BY <1>3, <1>4, <1>7
  <2> QED BY <1>1, <1>2, <1>3, <1>6, <1>9, <1>11, <1>12, <1>13, <1>14, <2>1 DEF DestroyerStep
<1>16. AliveInv'
  BY <1>1, <1>15, DestroyerStepKeeps
<1> QED BY <1>10, <1>16

LEMMA FreeGoesOnKeeps ==
    ASSUME AliveInv, TakenInv, FreeGoesOn
    PROVE  AliveInv' /\ IoStep
BY FreeWaitsKeeps, FreeEndsKeeps

-----------------------------------------------------------------------------
(* The kernel, and the end.                                                *)

\* A step that leaves the tasks and the sockets alone
QuietStep ==
    /\ SchedInv(sched') /\ sched'.task = sched.task
    /\ UNCHANGED <<listVars, sk, walk, recv_fn, destroy_tsk, sent>>
    /\ phase' \in {"run", "wait", "seen", "ended"}
    /\ op' \in [AllTasks -> Ops]
    /\ \A t \in AllTasks : op[t] = "none" => op'[t] = "none"
    /\ \A p \in Peer : Gone(p)' = Gone(p) /\ (taken[p] = <<>> /\ sk[p].st = "none" => taken'[p] = <<>>)
    /\ closed' \subseteq closed \union {p \in Peer : sk[p].st = "open"}
    /\ phase' = "run" => \A t \in NetTask : op'[t] = "busy" /\ sk[SockOf(t)].st # "open" => op'[Destroyer] = "prep"

LEMMA QuietKeeps ==
    ASSUME AliveInv, QuietStep
    PROVE  AliveInv' /\ IoStep
<1>0. SchedInv(sched) /\ TypeInv /\ ListInv /\ OwnerInv /\ MainInv /\ WalkInv /\ SendInv /\ QueueInv /\ BusyInv
  BY DEF AliveInv
<1>1. /\ SchedInv(sched') /\ sched'.task = sched.task
      /\ UNCHANGED <<listVars, sk, walk, recv_fn, destroy_tsk, sent>>
      /\ phase' \in {"run", "wait", "seen", "ended"}
      /\ op' \in [AllTasks -> Ops]
      /\ closed' \subseteq closed \union {p \in Peer : sk[p].st = "open"}
  BY DEF QuietStep
<1>2. Allocated' = Allocated
  BY <1>1 DEF Allocated
<1>3. TypeInv'
  BY <1>0, <1>1 DEF TypeInv, listVars
<1>4. ListInv'
  <2>1. {p \in Peer : sk[p].st = "open"} \subseteq peer_root
    BY <1>0, SockNames DEF ListInv, Allocated
  <2>2. closed' \subseteq peer_root' \union {p \in Peer : sk'[p].st = "freed"}
    BY <1>0, <1>1, <2>1 DEF ListInv, listVars
  <2> QED BY <1>0, <1>1, <1>2, <2>2 DEF ListInv, listVars
<1>5. OwnerInv'
  BY <1>0, <1>1, <1>2 DEF OwnerInv
<1>6. MainInv'
  BY <1>0, <1>1 DEF MainInv
<1>7. WalkInv'
  BY <1>0, <1>1 DEF WalkInv, Walking, listVars
<1>8. SendInv'
  <2>1. \A p \in Peer : op'[Send(p)] # "none" => op[Send(p)] # "none"
    BY Names DEF QuietStep
  <2> QED BY <1>0, <1>1, <2>1 DEF SendInv
<1>9. QueueInv'
  <2>1. \A p \in Peer : Gone(p)' = Gone(p) /\ (taken[p] = <<>> /\ sk[p].st = "none" => taken'[p] = <<>>)
    BY DEF QuietStep
  <2> QED BY <1>0, <1>1, <1>2, <2>1 DEF QueueInv
<1>10. BusyInv'
  <2>1. op[Destroyer] = "none" => op'[Destroyer] = "none"
    BY Names DEF QuietStep
  <2>2. phase' = "run" => \A t \in NetTask : op'[t] = "busy" /\ sk[SockOf(t)].st # "open" => op'[Destroyer] = "prep"
    BY DEF QuietStep
  <2> QED BY <1>0, <1>1, <2>1, <2>2 DEF BusyInv
<1>11. IoStep
  BY <1>1 DEF IoStep, FreedTask
<1> QED BY <1>1, <1>3, <1>4, <1>5, <1>6, <1>7, <1>8, <1>9, <1>10, <1>11 DEF AliveInv

\* is one of utask_run, of a peer that closes its connection, or none at all.
LEMMA SubmitKeeps ==
    ASSUME AliveInv, TakenInv, Submit
    PROVE  AliveInv' /\ IoStep
<1>1. op \in [AllTasks -> Ops]
  BY DEF AliveInv, TypeInv
<1>2. op' = [t \in AllTasks |-> IF op[t] = "prep" THEN "busy" ELSE op[t]]
      /\ UNCHANGED <<sched, listVars, sk, walk, recv_fn, destroy_tsk, peerVars>> /\ phase' = "wait"
  BY DEF Submit
<1>3. /\ op' \in [AllTasks -> Ops]
      /\ \A t \in AllTasks : op[t] = "none" => op'[t] = "none"
      /\ \A t \in AllTasks : op'[t] = "ok" <=> op[t] = "ok"
  BY <1>1, <1>2 DEF Ops
<1>4. \A p \in Peer : Gone(p)' = Gone(p)
  BY <1>2, <1>3, Names DEF Gone, peerVars
<1>5. QuietStep
  BY <1>2, <1>3, <1>4 DEF QuietStep, AliveInv, peerVars
<1> QED BY <1>5, QuietKeeps

LEMMA BatchEndsKeeps ==
    ASSUME AliveInv, TakenInv, BatchEnds
    PROVE  AliveInv' /\ IoStep
<1>1. \A t \in NetTask : ~(op[t] = "busy" /\ sk[SockOf(t)].st # "open")
  BY Names, NetNames DEF BatchEnds, EndsNext, Broken, Shut
<1>2. UNCHANGED <<sched, op, listVars, sk, walk, recv_fn, destroy_tsk, peerVars>> /\ phase' = "run"
  BY DEF BatchEnds
<1>3. \A p \in Peer : Gone(p)' = Gone(p)
  BY <1>2 DEF Gone, peerVars
<1>4. QuietStep
  BY <1>1, <1>2, <1>3 DEF QuietStep, AliveInv, TypeInv, peerVars
<1> QED BY <1>4, QuietKeeps

LEMMA OtherKernelKeeps ==
    ASSUME AliveInv, TakenInv, Shutdown \/ RunEnds \/ \E p \in Peer : PeerCloses(p)
    PROVE  AliveInv' /\ IoStep
<1>1. /\ UNCHANGED <<sched, op, listVars, sk, walk, recv_fn, destroy_tsk, sent, taken>>
      /\ phase' \in {"wait", "seen", "ended"}
      /\ closed' \subseteq closed \union {p \in Peer : sk[p].st = "open"}
  BY DEF Shutdown, RunEnds, PeerCloses, peerVars
<1>2. \A p \in Peer : Gone(p)' = Gone(p)
  BY <1>1 DEF Gone
<1>3. QuietStep
  BY <1>1, <1>2 DEF QuietStep, AliveInv, TypeInv
<1> QED BY <1>3, QuietKeeps

LEMMA StutterKeeps ==
    ASSUME AliveInv, UNCHANGED vars
    PROVE  AliveInv' /\ IoStep
<1>1. UNCHANGED <<sched, phase, op, listVars, sk, walk, recv_fn, destroy_tsk, closed, sent, taken>>
  BY DEF vars, netVars, peerVars
<1>2. \A p \in Peer : Gone(p)' = Gone(p)
  BY <1>1 DEF Gone
<1>3. QuietStep
  BY <1>1, <1>2 DEF QuietStep, AliveInv, TypeInv, BusyInv
<1> QED BY <1>3, QuietKeeps

\* The names of the tasks that send
LEMMA SendNames ==
    ASSUME NEW t \in AllTasks, t[1] = "send"
    PROVE  \E p \in Peer : t = Send(p) /\ t[2] = p
BY DEF AllTasks, NetTask, Main, Destroyer, SigRead, Accept, Send, Recv, Req

LEMMA ResultNames ==
    ASSUME NEW t, NEW r \in Results(t)
    PROVE  r \in Ops /\ r \notin {"none", "prep", "busy"}
BY DEF Results, OkIf, Ops

\* A completion takes the message at the head of the queue, if it is that of
\* a send that did not fail.
LEMMA CompleteTakes ==
    ASSUME AliveInv, TakenInv, NEW t \in AllTasks, Complete(t)
    PROVE  TakenInv' /\ \A p \in Peer : Gone(p)' = Gone(p) /\ (sk[p].st = "none" => taken'[p] = taken[p])
<1>0. TypeInv /\ SendInv /\ QueueInv /\ OwnerInv /\ taken \in [Peer -> Seq(Nat)] /\ op \in [AllTasks -> Ops]
      /\ \A p \in Peer : \A i \in 1 .. Len(taken[p]) : taken[p][i] = i
  BY DEF AliveInv, TypeInv, TakenInv
<1>1. PICK r \in Results(t) :
        /\ op' = [op EXCEPT ![t] = r]
        /\ taken' = IF t[1] = "send" /\ r = "ok" THEN [taken EXCEPT ![t[2]] = Append(@, Head(sk[t[2]].queue))]
                    ELSE taken
  BY DEF Complete
<1>2. op[t] = "busy"
  BY DEF Complete
<1>3. ASSUME NEW p \in Peer PROVE Send(p) \in AllTasks /\ Send(p)[1] = "send" /\ Send(p)[2] = p
  BY Names DEF Send
<1>4. ASSUME NEW p \in Peer, t # Send(p) PROVE op'[Send(p)] = op[Send(p)]
  BY <1>0, <1>1, <1>3, <1>4
<1>5. CASE t[1] = "send" /\ r = "ok"
  <2>1. PICK p \in Peer : t = Send(p) /\ t[2] = p
    BY <1>5, SendNames
  <2>2. Gone(p) = Len(taken[p])
    BY <1>0, <1>2, <2>1 DEF Gone
  <2>3. sk[p].queue \in Seq(Nat) /\ sk[p].queue # <<>> /\ p \in Allocated /\ sched.task[Send(p)].st = "live"
    <3>1. sched.task[Send(p)].st = "live" /\ sk[p].queue # <<>>
      BY <1>0, <1>2, <2>1 DEF SendInv
    <3>2. p \in Allocated /\ p \in Sock
      BY <1>0, <3>1, Names, NetNames, SockNames DEF OwnerInv
    <3> QED BY <3>1, <3>2, QueueOf
  <2>4. Head(sk[p].queue) = Len(taken[p]) + 1
    <3>1. \A i \in 1 .. Len(sk[p].queue) : sk[p].queue[i] = Gone(p) + i
      BY <2>3, QueueOf
    <3>2. 1 \in 1 .. Len(sk[p].queue) /\ Head(sk[p].queue) = sk[p].queue[1]
      BY <2>3
    <3> QED BY <2>2, <3>1, <3>2
  <2> DEFINE s == Append(taken[p], Len(taken[p]) + 1)
  <2>5. s \in Seq(Nat) /\ Len(s) = Len(taken[p]) + 1 /\ \A i \in 1 .. Len(s) : s[i] = i
    <3>1. taken[p] \in Seq(Nat) /\ \A i \in 1 .. Len(taken[p]) : taken[p][i] = i
      BY <1>0
    <3> QED BY <3>1
  <2> HIDE DEF s
  <2>6. taken' \in [Peer -> Seq(Nat)] /\ taken'[p] = s /\ \A q \in Peer \ {p} : taken'[q] = taken[q]
    BY <1>0, <1>1, <1>5, <2>1, <2>4, <2>5 DEF s
  <2>7. TakenInv'
    BY <1>0, <2>5, <2>6 DEF TakenInv
  <2>8. op'[Send(p)] = "ok"
    BY <1>0, <1>1, <1>5, <2>1
  <2>9. Gone(p)' = Gone(p)
    <3>1. Gone(p)' = Len(s) - 1
      BY <2>6, <2>8 DEF Gone
    <3> QED BY <1>0, <2>2, <2>5, <3>1
  <2>10. ASSUME NEW q \in Peer, q # p PROVE Gone(q)' = Gone(q) /\ taken'[q] = taken[q]
    <3>1. t # Send(q)
      BY <1>3, <2>1, <2>10
    <3> QED BY <1>4, <2>6, <2>10, <3>1 DEF Gone
  <2>11. sk[p].st # "none"
    BY <2>3 DEF Allocated
  <2> QED BY <2>7, <2>9, <2>10, <2>11
<1>6. CASE ~(t[1] = "send" /\ r = "ok")
  <2>1. taken' = taken
    BY <1>1, <1>6
  <2>2. TakenInv'
    BY <2>1 DEF TakenInv
  <2>3. ASSUME NEW p \in Peer PROVE op'[Send(p)] = "ok" <=> op[Send(p)] = "ok"
    <3>1. CASE t = Send(p)
      <4>1. r # "ok"
        BY <1>3, <1>6, <3>1
      <4>2. op'[t] = r
        BY <1>0, <1>1
      <4> QED BY <1>2, <3>1, <4>1, <4>2
    <3>2. CASE t # Send(p)
      BY <1>4, <3>2
    <3> QED BY <3>1, <3>2
  <2>4. \A p \in Peer : Gone(p)' = Gone(p)
    BY <2>1, <2>3 DEF Gone
  <2> QED BY <2>1, <2>2, <2>4
<1> QED BY <1>5, <1>6

LEMMA CompleteKeeps ==
    ASSUME AliveInv, TakenInv, NEW t \in AllTasks, Complete(t)
    PROVE  AliveInv' /\ IoStep /\ TakenInv'
<1>1. TakenInv' /\ \A p \in Peer : Gone(p)' = Gone(p) /\ (sk[p].st = "none" => taken'[p] = taken[p])
  BY CompleteTakes
<1>2. op \in [AllTasks -> Ops] /\ SchedInv(sched) /\ op[t] = "busy"
  BY DEF AliveInv, TypeInv, Complete
<1>3. PICK r \in Results(t) : op' = [op EXCEPT ![t] = r]
  BY DEF Complete
<1>4. r \in Ops
  BY ResultNames
<1>5. op' \in [AllTasks -> Ops] /\ \A u \in AllTasks : op[u] = "none" => op'[u] = "none"
  BY <1>2, <1>3, <1>4
<1>6. SchedInv(sched') /\ sched'.task = sched.task
  <2>1. CASE Waits(t)
    <3>1. sched' = Wake(sched, t) /\ sched.task[t].st # "none"
      BY <2>1 DEF Complete, Waits
    <3> QED BY <1>2, <3>1, WakeKeeps
  <2>2. CASE ~Waits(t)
    <3>1. sched' = Dead(sched, "waiter") /\ "waiter" \in Ends
      BY <2>2 DEF Complete, Ends
    <3> QED BY <1>2, <3>1, DeadKeeps
  <2> QED BY <2>1, <2>2
<1>7. UNCHANGED <<listVars, sk, walk, recv_fn, destroy_tsk, closed, sent>> /\ phase' = "seen"
  BY DEF Complete
<1>8. QuietStep
  BY <1>1, <1>5, <1>6, <1>7 DEF QuietStep
<1> QED BY <1>1, <1>8, QuietKeeps

-----------------------------------------------------------------------------
(* The invariant.                                                          *)

LEMMA InitDevdInv ==
    ASSUME Init
    PROVE  DevdInv
<1> DEFINE z == Scheduler(AllTasks)
<1>1. /\ sched = Started(z, Main, FALSE)
      /\ phase = "run" /\ op = [t \in AllTasks |-> "none"]
      /\ sockets_list = <<>> /\ destroy_list = <<>> /\ peer_root = {}
      /\ sk = [x \in Sock |-> [st |-> "none", queue |-> <<>>]]
      /\ walk = NoWalk /\ recv_fn = FALSE /\ destroy_tsk = FALSE
      /\ closed = {} /\ sent = [p \in Peer |-> 0] /\ taken = [p \in Peer |-> <<>>]
  BY DEF Init
<1>2. /\ z \in Schedulers /\ z.run_list = <<>>
      /\ \A t \in AllTasks : /\ z.task[t].st = "none" /\ z.task[t].at = "start"
                             /\ z.task[t].canceled = FALSE /\ z.task[t].destroyer = None
  <2>1. NoTask \in TaskRecord /\ "no" \in Ends
    BY DEF NoTask, TaskRecord, Places, Ends, Bits
  <2> QED BY <2>1 DEF Scheduler, Schedulers, NoTask
<1> HIDE DEF z
<1>3. SchedInv(z)
  <2>1. IsInjective(z.run_list) /\ ToSet(z.run_list) = {}
    BY <1>2 DEF IsInjective, ToSet
  <2> QED BY <1>2, <2>1, Names DEF SchedInv
<1>4. SchedInv(sched) /\ (\A u \in AllTasks \ {Main} : sched.task[u] = z.task[u])
      /\ sched.task[Main].st = "live" /\ sched.task[Main].at = "start"
  <2>1. FALSE \in Bits /\ Main \in AllTasks
    BY Names DEF Bits
  <2> DEFINE b == FALSE
  <2>2. b \in Bits /\ sched = Started(z, Main, b)
    BY <1>1, <2>1
  <2> HIDE DEF b
  <2>3. /\ SchedInv(Started(z, Main, b)) /\ Started(z, Main, b).task[Main].st = "live"
        /\ Started(z, Main, b).task[Main].at = "start"
        /\ \A u \in AllTasks \ {Main} : Started(z, Main, b).task[u] = z.task[u]
    BY <1>3, <2>1, <2>2, StartedKeeps
  <2> QED BY <2>2, <2>3
<1>5. \A u \in AllTasks \ {Main} : sched.task[u].st = "none" /\ sched.task[u].at = "start"
  BY <1>2, <1>4
<1>6. Allocated = {} /\ \A x \in Sock : sk[x].st = "none" /\ sk[x].queue = <<>>
  BY <1>1 DEF Allocated
<1>7. TypeInv
  <2>1. op \in [AllTasks -> Ops]
    BY <1>1 DEF Ops
  <2>2. sk \in [Sock -> [st: {"none", "open", "shut", "freed"}, queue: Seq(Nat)]]
    BY <1>1
  <2>3. sockets_list \in Seq(Sock) /\ destroy_list \in Seq(Sock) /\ closed \subseteq Peer /\ sent \in [Peer -> Nat]
    BY <1>1
  <2> QED BY <1>1, <2>1, <2>2, <2>3 DEF TypeInv
<1>8. ListInv
  <2>1. <<>> \o <<>> = <<>> /\ IsInjective(<<>>) /\ ToSet(<<>>) = {}
    BY DEF IsInjective, ToSet
  <2> QED BY <1>1, <1>6, <2>1 DEF ListInv
<1>9. OwnerInv
  BY <1>5, <1>6, Names, NetNames DEF OwnerInv
<1>10. MainInv
  BY <1>1, <1>4, <1>5, <1>6, Names DEF MainInv
<1>11. WalkInv
  BY <1>1, <1>5, Names DEF WalkInv
<1>12. SendInv
  BY <1>1, Names DEF SendInv
<1>13. QueueInv
  BY <1>1, <1>6 DEF QueueInv
<1>14. BusyInv
  <2>1. \A t \in AllTasks : op[t] = "none"
    BY <1>1
  <2> QED BY <1>5, <2>1, Names DEF BusyInv
<1>15. TakenInv
  BY <1>1 DEF TakenInv
<1> QED BY <1>4, <1>7, <1>8, <1>9, <1>10, <1>11, <1>12, <1>13, <1>14, <1>15 DEF DevdInv, AliveInv

\* Nothing happens once the program has died, and only a completion takes a
\* message.
LEMMA OnlyAlive ==
    ASSUME Next
    PROVE  Alive
BY DEF Next, TaskRuns, NetRuns, Kernel, Alive, Runs, AcceptStarts, AcceptEnds, Accepts, SendRuns, SendReturns,
       RecvStarts, RecvHeader, RecvRefuses, RecvEnds, DestroyRuns, FreeGoesOn, MainStarts, InitFails, InitEnds,
       ListenFails, ExitStarts, NetExited, MainEnds, SigStarts, SigReturns, Receives, RecvMessage, RlockRuns,
       BlockRuns, BlockReplies, SleepsOn, Submit, Shutdown, BatchEnds, Complete, PeerCloses, RunEnds

LEMMA TakenStays ==
    ASSUME TaskRuns \/ Submit \/ Shutdown \/ BatchEnds \/ (\E p \in Peer : PeerCloses(p)) \/ RunEnds
    PROVE  taken' = taken
BY DEF TaskRuns, NetRuns, AcceptStarts, AcceptEnds, Accepts, SendRuns, SendReturns,
       RecvStarts, RecvHeader, RecvRefuses, RecvEnds, DestroyRuns, FreeGoesOn, MainStarts, InitFails, InitEnds,
       ListenFails, ExitStarts, NetExited, MainEnds, SigStarts, SigReturns, Receives, RecvMessage, RlockRuns,
       BlockRuns, BlockReplies, SleepsOn, Submit, Shutdown, BatchEnds, PeerCloses, RunEnds, peerVars, netVars

LEMMA NetRunsKeeps ==
    ASSUME AliveInv, TakenInv, NetRuns
    PROVE  StepOK
<1>1. CASE AcceptStarts
  BY <1>1, AcceptStartsKeeps DEF StepOK
<1>2. CASE AcceptEnds
  BY <1>2, AcceptEndsKeeps DEF StepOK
<1>3. ASSUME NEW p \in Peer, Accepts(p) PROVE StepOK
  BY <1>3, AcceptsKeeps DEF StepOK
<1>4. ASSUME NEW p \in Peer, SendRuns(p) \/ SendReturns(p) PROVE StepOK
  BY <1>4, SendRunsKeeps, SendReturnsKeeps
<1>5. ASSUME NEW p \in Peer, RecvStarts(p) \/ RecvHeader(p) \/ RecvRefuses(p) \/ RecvEnds(p) PROVE StepOK
  BY <1>5, RecvStartsKeeps, RecvHeaderKeeps, RecvRefusesKeeps, RecvEndsKeeps DEF StepOK
<1>6. CASE DestroyRuns
  BY <1>6, DestroyRunsKeeps DEF StepOK
<1>7. CASE FreeGoesOn
  BY <1>7, FreeGoesOnKeeps DEF StepOK
<1> QED BY <1>1, <1>2, <1>3, <1>4, <1>5, <1>6, <1>7 DEF NetRuns

LEMMA TaskRunsKeeps ==
    ASSUME AliveInv, TakenInv, TaskRuns
    PROVE  StepOK
<1>1. CASE NetRuns
  BY <1>1, NetRunsKeeps
<1>2. CASE MainStarts \/ InitFails \/ InitEnds \/ ListenFails
  BY <1>2, MainStartsKeeps, InitFailsKeeps, InitEndsKeeps, ListenFailsKeeps DEF StepOK
<1>3. CASE ExitStarts \/ NetExited \/ MainEnds
  BY <1>3, ExitStartsKeeps, NetExitedKeeps, MainEndsKeeps DEF StepOK
<1>4. CASE SigStarts \/ SigReturns
  BY <1>4, SigStartsKeeps, SigReturnsKeeps DEF StepOK
<1>5. ASSUME NEW p \in Peer, NEW r \in Request, Receives(p, r) PROVE StepOK
  BY <1>5, ReceivesKeeps
<1>6. ASSUME NEW r \in Request, RlockRuns(r) \/ BlockRuns(r) \/ BlockReplies(r) PROVE StepOK
  BY <1>6, RlockRunsKeeps, BlockRunsKeeps, BlockRepliesKeeps
<1>7. ASSUME NEW t \in AllTasks, SleepsOn(t) PROVE StepOK
  BY <1>7, SleepsOnKeeps DEF StepOK
<1> QED BY <1>1, <1>2, <1>3, <1>4, <1>5, <1>6, <1>7 DEF TaskRuns

\* A step keeps the invariant and frees no stack under an op.
LEMMA NextKeeps ==
    ASSUME DevdInv, [Next]_vars
    PROVE  DevdInv' /\ IoStep
<1>1. CASE UNCHANGED vars
  <2>1. IoStep
    BY <1>1 DEF vars, IoStep, FreedTask
  <2>2. TakenInv' /\ (Alive' => Alive)
    BY <1>1 DEF vars, netVars, peerVars, DevdInv, TakenInv, Alive
  <2>3. Alive => AliveInv'
    BY <1>1, StutterKeeps DEF DevdInv
  <2> QED BY <2>1, <2>2, <2>3 DEF DevdInv
<1>2. CASE Next
  <2>1. AliveInv /\ TakenInv
    BY <1>2, OnlyAlive DEF DevdInv
  <2>2. CASE TaskRuns
    <3>1. TakenInv'
      BY <2>1, <2>2, TakenStays DEF TakenInv
    <3> QED BY <2>1, <2>2, <3>1, TaskRunsKeeps DEF StepOK, DevdInv
  <2>3. CASE Submit \/ Shutdown \/ BatchEnds \/ (\E p \in Peer : PeerCloses(p)) \/ RunEnds
    <3>1. TakenInv'
      BY <2>1, <2>3, TakenStays DEF TakenInv
    <3>2. AliveInv' /\ IoStep
      BY <2>1, <2>3, SubmitKeeps, BatchEndsKeeps, OtherKernelKeeps
    <3> QED BY <3>1, <3>2 DEF DevdInv
  <2>4. ASSUME NEW t \in AllTasks, Complete(t) PROVE DevdInv' /\ IoStep
    BY <2>1, <2>4, CompleteKeeps DEF DevdInv
  <2> QED BY <1>2, <2>2, <2>3, <2>4 DEF Next, Kernel
<1> QED BY <1>1, <1>2

\* The inductive invariant: the scheduler, the lists, the owners of the
\* sockets, the walk of the destroying task, the queues and the ops.
THEOREM DevdInvariant == Spec => []DevdInv
<1>1. Init => DevdInv
  BY InitDevdInv
<1>2. DevdInv /\ [Next]_vars => DevdInv'
  BY NextKeeps
<1> QED BY <1>1, <1>2, PTL DEF Spec

\* A task is on the run list once, and only as long as it has not finished
\* (utask_wake_task, utask_run), and every op is in one of its states.
THEOREM TypesCorrect == Spec => []TypeOK
<1>1. DevdInv => TypeOK
  <2> SUFFICES ASSUME AliveInv
               PROVE  /\ IsInjective(sched.run_list)
                      /\ \A i \in DOMAIN sched.run_list : sched.task[sched.run_list[i]].st = "live"
                      /\ phase \in {"run", "wait", "seen", "ended"}
                      /\ \A t \in AllTasks : op[t] \in {"none", "prep", "busy", "ok", "zero", "short", "err"}
                      /\ closed \subseteq peer_root \union {p \in Peer : sk[p].st = "freed"}
    BY DEF DevdInv, TypeOK
  <2>1. \A i \in DOMAIN sched.run_list : sched.run_list[i] \in ToSet(sched.run_list)
    BY DEF ToSet
  <2>2. IsInjective(sched.run_list) /\ \A t \in ToSet(sched.run_list) : sched.task[t].st = "live"
    BY DEF AliveInv, SchedInv
  <2>3. \A t \in AllTasks : op[t] \in {"none", "prep", "busy", "ok", "zero", "short", "err"}
    BY DEF AliveInv, TypeInv, Ops
  <2>4. phase \in {"run", "wait", "seen", "ended"} /\ closed \subseteq peer_root \union {p \in Peer : sk[p].st = "freed"}
    BY DEF AliveInv, TypeInv, ListInv
  <2> QED BY <2>1, <2>2, <2>3, <2>4
<1> QED BY <1>1, DevdInvariant, PTL

\* Each allocated socket is on one of the two lists, once, and in the tree of
\* peers (net.c: destroy_sock, net_exit and free_sock move and take them off).
THEOREM ListsAreExact == Spec => []ListsExact
<1>1. DevdInv => ListsExact
  BY DEF DevdInv, AliveInv, ListInv, ListsExact
<1> QED BY <1>1, DevdInvariant, PTL

\* A socket outlives its tasks and the pointers of the destroying task's walk,
\* which free_sock keeps while it sleeps.
THEOREM OwnersAreOutlived == Spec => []OwnersOutlive
<1>1. DevdInv => OwnersOutlive
  <2> SUFFICES ASSUME AliveInv
               PROVE  /\ \A t \in NetTask : sched.task[t].st = "live" => SockOf(t) \in Allocated
                      /\ {walk.sock, walk.tmp} \subseteq Allocated \union {None}
    BY DEF DevdInv, OwnersOutlive
  <2>1. \A t \in NetTask : sched.task[t].st = "live" => SockOf(t) \in Allocated
    BY DEF AliveInv, OwnerInv
  <2>2. ToSet(destroy_list) \subseteq Allocated
    BY ListedSocks
  <2>3. walk = NoWalk \/ Walking
    BY DEF AliveInv, WalkInv
  <2>4. {walk.sock, walk.tmp} \subseteq Allocated \union {None}
    BY <2>2, <2>3 DEF NoWalk, Walking
  <2> QED BY <2>1, <2>4
<1> QED BY <1>1, DevdInvariant, PTL

\* A connection takes the messages in the order of net_send, each once, and
\* its queue holds the others, also after a send that failed (send_utask).
THEOREM MessagesInOrder == Spec => []SentInOrder
<1>1. DevdInv => SentInOrder
  <2> SUFFICES ASSUME DevdInv, NEW p \in Peer
               PROVE  /\ taken[p] = [i \in 1 .. Len(taken[p]) |-> i]
                      /\ Alive /\ p \in Allocated =>
                           LET first == Len(taken[p]) + IF op[Send(p)] = "ok" THEN 0 ELSE 1
                           IN sk[p].queue = [i \in 1 .. sent[p] + 1 - first |-> first + i - 1]
    BY DEF SentInOrder
  <2>1. taken[p] \in Seq(Nat) /\ \A i \in 1 .. Len(taken[p]) : taken[p][i] = i
    BY DEF DevdInv, TakenInv
  <2>2. taken[p] = [i \in 1 .. Len(taken[p]) |-> i]
    BY <2>1
  <2>3. ASSUME Alive, p \in Allocated
        PROVE  LET first == Len(taken[p]) + IF op[Send(p)] = "ok" THEN 0 ELSE 1
               IN sk[p].queue = [i \in 1 .. sent[p] + 1 - first |-> first + i - 1]
    <3> DEFINE q == sk[p].queue
               n == Len(taken[p])
               g == Gone(p)
               first == n + IF op[Send(p)] = "ok" THEN 0 ELSE 1
    <3>1. p \in Sock
      BY SockNames
    <3>2. q \in Seq(Nat) /\ sent[p] \in Nat
      BY <2>3, <3>1 DEF DevdInv, AliveInv, TypeInv
    <3>3. g + Len(q) = sent[p] /\ \A i \in 1 .. Len(q) : q[i] = g + i
      BY <2>3 DEF DevdInv, AliveInv, QueueInv
    <3>4. n \in Nat
      BY <2>1
    <3>5. g = first - 1 /\ first \in Nat
      <4>1. g = n - IF op[Send(p)] = "ok" THEN 1 ELSE 0
        BY DEF Gone
      <4> HIDE DEF g, n
      <4>2. CASE op[Send(p)] = "ok"
        BY <3>4, <4>1, <4>2
      <4>3. CASE op[Send(p)] # "ok"
        BY <3>4, <4>1, <4>3
      <4> QED BY <4>2, <4>3
    <3> HIDE DEF q, n, g, first
    <3>6. sent[p] + 1 - first = Len(q)
      BY <3>2, <3>3, <3>5
    <3>7. \A i \in 1 .. Len(q) : q[i] = first + i - 1
      BY <3>2, <3>3, <3>5
    <3>8. q = [i \in 1 .. Len(q) |-> first + i - 1]
      BY <3>2, <3>7
    <3> QED BY <3>6, <3>8 DEF q, first, n
  <2> QED BY <2>2, <2>3
<1> QED BY <1>1, DevdInvariant, PTL

\* The stack of a task of a connection is never freed while the kernel has an
\* op that points to it (net.c:free_sock, utask.c:utask_destroy).
THEOREM NoStackFreedUnderIo == Spec => IoEndsFirst
<1>1. DevdInv /\ [Next]_vars => [\A t \in NetTask : FreedTask(t) => op[t] # "busy"]_vars
  BY NextKeeps DEF IoStep
<1> QED BY <1>1, DevdInvariant, PTL DEF Spec, IoEndsFirst
=============================================================================
