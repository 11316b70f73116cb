-------------------------------- MODULE Net --------------------------------
(***************************************************************************)
(* The connections of the daemon (src/utask/net.c): the tasks that accept  *)
(* them, send and receive on them and tear them down, and the completions  *)
(* they sleep for.  A step is what a task does from one sleep to the next; *)
(* between two tasks that run nothing else happens, and completions are    *)
(* looked at when no task is left to run (utask_run).                      *)
(*                                                                         *)
(* The kernel is modelled from how it is used: an op can complete in any   *)
(* batch, and one on a socket that is shut down does in the next, as does  *)
(* the cancel of cancel_fd_waiter.                                         *)
(***************************************************************************)
EXTENDS Integers, UTask

CONSTANTS
    MaxPeers,       \* bound: how many peers connect; each does so once
    MaxRequests,    \* bound: how many messages arrive
    MaxWork,        \* bound: how much of both: see Work
    MaxSignals      \* bound: how many SIGTERM arrive

ASSUME NetAssumption == {MaxPeers, MaxRequests, MaxWork, MaxSignals} \subseteq Nat

\* Peers, which are their addresses, and requests, numbered as they come.
Peer == 1 .. MaxPeers
Request == 1 .. MaxRequests
Listener == 0
Sock == Peer \union {Listener}

Main == <<"main", None>>
Destroyer == <<"destroy", None>>
SigRead == <<"signals", None>>
Accept == <<"accept", Listener>>
Send(p) == <<"send", p>>
Recv(p) == <<"recv", p>>
Req(r) == <<"request", r>>
NetTask == {Accept} \union {Send(p) : p \in Peer} \union {Recv(p) : p \in Peer}
AllTasks == NetTask \union {Main, Destroyer, SigRead} \union {Req(r) : r \in Request}

ASSUME NoneAssumption == None \notin Sock /\ None \notin AllTasks

VARIABLES
    sched,          \* the scheduler: see UTask
    phase,          \* of utask_run: "run" tasks, "wait" for a completion, some "seen", "ended"
    op,             \* the op each task has prepared last, and what came of it
    shutdown,       \* the nop of utask_shutdown: "no", "prep", "busy", "set"
    sockets_list, destroy_list, peer_root,
    sk,             \* the sockets: state and send queue
    walk,           \* destroy_utask: sock, tmp, and the tasks of sock still to destroy
    recv_fn,        \* is the callback registered?
    destroy_tsk,    \* is there a destroying task?
    signals,        \* how many signals came
    closed,         \* the peers that have closed their connection
    sent,           \* how many messages net_send has queued for each peer
    taken           \* the messages that the connection of each has taken

listVars == <<sockets_list, destroy_list, peer_root>>
peerVars == <<signals, closed, sent, taken>>
netVars == <<phase, op, shutdown, listVars, sk, walk, recv_fn, destroy_tsk, peerVars>>

Completed(t) == op[t] \in {"ok", "zero", "short", "err"}
Canceled(t) == sched.task[t].canceled

\* Task t is the next to run, where it stands.
Runs(t, at) ==
    /\ phase = "run" /\ sched.dead = "no"
    /\ Current(sched) = t /\ sched.task[t].at = at

\* The op that a task prepares before it sleeps: utask_get_sqe_waiter.
Prepare(t) == op' = [op EXCEPT ![t] = "prep"]

\* The task has looked at its op for the last time.
Consume(t) == op' = [op EXCEPT ![t] = IF Completed(t) THEN "none" ELSE @]

-----------------------------------------------------------------------------
(* Lists and sockets.                                                      *)

\* alloc_sock
NewSock == [st |-> "open", queue |-> <<>>]

\* list_move_tail
MovedToTail(list, x) == Append(Unlinked(list, x), x)

\* get_peer_sock: the tree holds each address once.
Found(q) == q \in peer_root
Inserted(p) == peer_root \union {p}

\* destroy_sock, the last thing that task t does.
DestroySock(s, t, x, list) ==
    /\ sockets_list' = Unlinked(list, x)
    /\ destroy_list' = MovedToTail(destroy_list, x)
    /\ sched' = IF destroy_tsk THEN Finish(Wake(s, Destroyer), t) ELSE Dead(s, "null")

\* The entry after x, or None at the end of the list.
After(list, x) ==
    LET i == CHOOSE j \in DOMAIN list : list[j] = x
    IN IF i = Len(list) THEN None ELSE list[i + 1]

-----------------------------------------------------------------------------
(* accept_utask                                                            *)

AcceptStarts ==
    /\ Runs(Accept, "start")
    /\ Prepare(Accept)
    /\ sched' = Sleep(Switch(sched), Accept, "accept")
    /\ UNCHANGED <<phase, shutdown, listVars, sk, walk, recv_fn, destroy_tsk, peerVars>>

\* A connection: its socket, which is in the tree, and its two tasks.
Accepts(p) ==
    /\ Runs(Accept, "accept") /\ op[Accept] = "ok"
    /\ sk[p].st = "none" /\ \A q \in 1 .. p - 1 : sk[q].st # "none"
    /\ peer_root' = Inserted(p)
    /\ sk' = [sk EXCEPT ![p] = NewSock]
    /\ Prepare(Accept)
    /\ \E b, c \in LeftInMemory(sched) :
         LET s    == Started(Started(Switch(sched), Send(p), b), Recv(p), c)
             list == Append(sockets_list, p)
         IN IF Canceled(Accept) THEN DestroySock(s, Accept, Listener, list)
            ELSE sched' = s /\ sockets_list' = list /\ UNCHANGED destroy_list
    /\ UNCHANGED <<phase, shutdown, walk, recv_fn, destroy_tsk, peerVars>>

\* The accept failed or was canceled, which ends the listening socket.
AcceptEnds ==
    /\ Runs(Accept, "accept") /\ op[Accept] # "ok" /\ (Completed(Accept) \/ Canceled(Accept))
    /\ DestroySock(Switch(sched), Accept, Listener, sockets_list)
    /\ Consume(Accept)
    /\ UNCHANGED <<phase, shutdown, peer_root, sk, walk, recv_fn, destroy_tsk, peerVars>>

-----------------------------------------------------------------------------
(* send_utask and net_send                                                 *)

\* The loops of send_utask, from either of their waits.  A canceled task that
\* has an entry goes round without sleeping, until there is no sqe left.
SendLoop(p, s, queue) ==
    /\ sk' = [sk EXCEPT ![p].queue = queue]
    /\ IF queue = <<>>
       THEN /\ Consume(Send(p))
            /\ IF Canceled(Send(p)) THEN DestroySock(s, Send(p), p, sockets_list)
               ELSE sched' = Sleep(s, Send(p), "idle") /\ UNCHANGED <<sockets_list, destroy_list>>
       ELSE /\ UNCHANGED <<sockets_list, destroy_list>>
            /\ IF Canceled(Send(p)) THEN sched' = Dead(s, "sqe") /\ UNCHANGED op
               ELSE sched' = Sleep(s, Send(p), "send") /\ Prepare(Send(p))

SendRuns(p) ==
    /\ Runs(Send(p), "start") \/ Runs(Send(p), "idle")
    /\ SendLoop(p, Switch(sched), sk[p].queue)
    /\ UNCHANGED <<phase, shutdown, peer_root, walk, recv_fn, destroy_tsk, peerVars>>

\* Faulty: an entry whose send failed is freed as well.
EntriesLeftAnyway(p) == Tail(sk[p].queue)

\* free_ent of the entry that was sent; one that was not is sent again.
EntriesLeft(p) == IF op[Send(p)] = "ok" THEN Tail(sk[p].queue) ELSE sk[p].queue

\* sendmsg_waiter returns.
SendReturns(p) ==
    /\ Runs(Send(p), "send") /\ (Completed(Send(p)) \/ Canceled(Send(p)))
    /\ IF op[Send(p)] = "short"
       THEN sched' = Dead(sched, "short") /\ UNCHANGED <<op, sockets_list, destroy_list, sk>>
       ELSE SendLoop(p, Switch(sched), EntriesLeft(p))
    /\ UNCHANGED <<phase, shutdown, peer_root, walk, recv_fn, destroy_tsk, peerVars>>

\* net_send by task t, its last act; a caller whose send fails is a BUG_ON.
NetSend(s, t, q) ==
    IF Found(q)
    THEN /\ sk' = [sk EXCEPT ![q].queue = Append(@, sent[q] + 1)]
         /\ sent' = [sent EXCEPT ![q] = @ + 1]
         /\ sched' = Finish(Wake(s, Send(q)), t)
    ELSE sched' = Dead(s, "gone") /\ UNCHANGED <<sk, sent>>

-----------------------------------------------------------------------------
(* recv_utask                                                              *)

\* Prepare the next receive; the wait of a canceled task returns at once.
RecvNext(p, s, at) ==
    /\ Prepare(Recv(p))
    /\ IF Canceled(Recv(p)) THEN DestroySock(s, Recv(p), p, sockets_list)
       ELSE sched' = Sleep(s, Recv(p), at) /\ UNCHANGED <<sockets_list, destroy_list>>

RecvStarts(p) ==
    /\ Runs(Recv(p), "start")
    /\ RecvNext(p, Switch(sched), "hdr")
    /\ UNCHANGED <<phase, shutdown, peer_root, sk, walk, recv_fn, destroy_tsk, peerVars>>

RecvHeader(p) ==
    /\ Runs(Recv(p), "hdr") /\ op[Recv(p)] = "ok"
    /\ RecvNext(p, Switch(sched), "body")
    /\ UNCHANGED <<phase, shutdown, peer_root, sk, walk, recv_fn, destroy_tsk, peerVars>>

\* The message is complete, which may have no body: recv_fn makes handled of
\* the scheduler.
RecvMessage(p, handled) ==
    /\ Runs(Recv(p), "hdr") \/ Runs(Recv(p), "body")
    /\ op[Recv(p)] = "ok"
    /\ IF recv_fn THEN RecvNext(p, handled, "hdr")
       ELSE sched' = Dead(sched, "recv_fn") /\ UNCHANGED <<op, sockets_list, destroy_list>>
    /\ UNCHANGED <<phase, shutdown, peer_root, sk, walk, recv_fn, destroy_tsk, peerVars>>

\* A receive that ended short is a BUG_ON, one that failed ends the task.
RecvEnds(p) ==
    /\ Runs(Recv(p), "hdr") \/ Runs(Recv(p), "body")
    /\ op[Recv(p)] # "ok" /\ (Completed(Recv(p)) \/ Canceled(Recv(p)))
    /\ IF op[Recv(p)] = "short" \/ (op[Recv(p)] = "zero" /\ Runs(Recv(p), "body"))
       THEN sched' = Dead(sched, "short") /\ UNCHANGED <<sockets_list, destroy_list>>
       ELSE DestroySock(Switch(sched), Recv(p), p, sockets_list)
    /\ Consume(Recv(p))
    /\ UNCHANGED <<phase, shutdown, peer_root, sk, walk, recv_fn, destroy_tsk, peerVars>>

\* The header is not valid, or recv_fn refuses the message.
RecvRefuses(p) ==
    /\ Runs(Recv(p), "hdr") \/ (Runs(Recv(p), "body") /\ recv_fn)
    /\ op[Recv(p)] = "ok"
    /\ DestroySock(Switch(sched), Recv(p), p, sockets_list)
    /\ Consume(Recv(p))
    /\ UNCHANGED <<phase, shutdown, peer_root, sk, walk, recv_fn, destroy_tsk, peerVars>>

-----------------------------------------------------------------------------
(* destroy_utask and free_sock                                             *)

NoWalk == [sock |-> None, tmp |-> None, left |-> <<>>]

\* Faulty: the receiving task is forgotten.
TasksForgotten(x) == IF x = Listener THEN <<Accept>> ELSE <<Send(x)>>

TasksOf(x) == IF x = Listener THEN <<Accept>> ELSE <<Send(x), Recv(x)>>

\* utask_destroy of t, which sleeps, and is left to end, if t is not finished.
DestroyTask(s, t) ==
    IF s.task[t].st = "live" THEN [s |-> DestroyStart(s, t, Destroyer), left |-> <<t>>]
    ELSE [s |-> Free(s, t), left |-> <<>>]

\* The calls of utask_destroy for the tasks ts, one or two, up to the first
\* that sleeps.
DestroyTasks(s, ts) ==
    LET d == DestroyTask(s, Head(ts))
    IN IF Tail(ts) = <<>> THEN d
       ELSE IF d.left # <<>> THEN [d EXCEPT !.left = ts]
       ELSE DestroyTask(d.s, ts[2])

\* Faulty: the socket is not shut down, nor are its ops canceled.
FreeStartsUnshut(s, x, list, sks) ==
    /\ walk' = [sock |-> x, tmp |-> After(list, x), left |-> TasksOf(x)]
    /\ sk' = sks
    /\ Prepare(Destroyer)
    /\ sched' = Sleep(s, Destroyer, "cancel")

\* free_sock of x until it sleeps for its cancel: nothing of the socket is
\* freed before the kernel is done with it.
FreeStarts(s, x, list, sks) ==
    /\ walk' = [sock |-> x, tmp |-> After(list, x), left |-> TasksOf(x)]
    /\ sk' = [sks EXCEPT ![x].st = "shut"]
    /\ Prepare(Destroyer)
    /\ sched' = Sleep(s, Destroyer, "cancel")

\* The next socket of the walk, or the loop around it.
WalkOn(s, x, list, sks) ==
    IF x # None THEN FreeStarts(s, x, list, sks)
    ELSE IF Canceled(Destroyer)
    THEN sched' = Finish(s, Destroyer) /\ sk' = sks /\ walk' = NoWalk /\ Consume(Destroyer)
    ELSE IF list # <<>> THEN FreeStarts(s, Head(list), list, sks)
    ELSE sched' = Sleep(s, Destroyer, "idle") /\ sk' = sks /\ walk' = NoWalk /\ Consume(Destroyer)

DestroyRuns ==
    /\ Runs(Destroyer, "idle") /\ (destroy_list # <<>> \/ Canceled(Destroyer))
    /\ WalkOn(Switch(sched), IF destroy_list = <<>> THEN None ELSE Head(destroy_list), destroy_list, sk)
    /\ UNCHANGED <<phase, shutdown, listVars, recv_fn, destroy_tsk, peerVars>>

\* Faulty: the socket is left in the tree.
ErasedNot(x) == peer_root

Erased(x) == peer_root \ {x}

\* free_sock from one of its sleeps to the next.
FreeGoesOn ==
    /\ \/ Runs(Destroyer, "cancel") /\ Completed(Destroyer)
       \/ Runs(Destroyer, "tasks") /\ sched.task[Head(walk.left)].st # "live"
    /\ LET d == DestroyTasks(Switch(sched), walk.left)
           x == walk.sock
           rest == Unlinked(destroy_list, x)
       IN IF d.left # <<>>
          THEN /\ sched' = Sleep(d.s, Destroyer, "tasks")
               /\ walk' = [walk EXCEPT !.left = d.left]
               /\ Consume(Destroyer)
               /\ UNCHANGED <<destroy_list, peer_root, sk>>
          ELSE /\ destroy_list' = rest
               /\ peer_root' = Erased(x)
               /\ WalkOn(d.s, walk.tmp, rest, [sk EXCEPT ![x] = [st |-> "freed", queue |-> <<>>]])
    /\ UNCHANGED <<phase, shutdown, sockets_list, recv_fn, destroy_tsk, peerVars>>

\* net_exit, called by Main, until it sleeps for the destroying task.
NetExit(s) ==
    /\ recv_fn' = FALSE
    /\ destroy_list' = sockets_list \o destroy_list
    /\ sockets_list' = <<>>
    /\ sched' = Sleep(DestroyStart(Wake(s, Destroyer), Destroyer, Main), Main, "net_exit")

-----------------------------------------------------------------------------
(* The kernel.                                                             *)

SockOf(t) == IF t[1] \in {"accept", "send", "recv"} THEN t[2] ELSE None

\* Nothing more goes through the socket of t.
Shut(t) == SockOf(t) # None /\ sk[SockOf(t)].st # "open"
Broken(t) == Shut(t) \/ SockOf(t) \in closed

\* What came from the peers; bound: a connection counts as two messages.
Work == 2 * Cardinality({p \in Peer : sk[p].st # "none"})
        + Cardinality({r \in Request : sched.task[Req(r)].st # "none"})
        + Cardinality({p \in Peer : sched.task[Recv(p)].st = "live" /\
                                    (sched.task[Recv(p)].at = "body" \/ op[Recv(p)] = "ok")})
MorePeers == Work + 2 <= MaxWork /\ \E p \in Peer : sk[p].st = "none"
MoreMessages == Work < MaxWork

OkIf(c) == IF c THEN {"ok"} ELSE {}

\* How the op of t may end: data that had arrived is read also after a
\* shutdown, and one that is canceled or disconnected may have moved a part.
Results(t) ==
    CASE t[1] = "accept" -> IF Shut(t) THEN {"err"} ELSE IF MorePeers THEN {"ok", "err"} ELSE {}
      [] t[1] = "send" -> OkIf(~Shut(t)) \union IF Broken(t) THEN {"short", "err"} ELSE {}
      [] t[1] = "recv" -> OkIf(sched.task[t].at = "body" \/ MoreMessages)
                          \union IF Broken(t) THEN {"zero", "short", "err"} ELSE {}
      [] t = SigRead -> OkIf(signals < MaxSignals)
      [] t = Main -> {"ok", "err"}
      [] OTHER -> {"ok"}

\* Ops that complete in the next batch.
EndsNext(t) == t = Destroyer \/ Broken(t)

\* The waiter on the stack of t can be written: t has ended, or waits for it.
Waits(t) ==
    \/ sched.task[t].st = "finished"
    \/ /\ sched.task[t].st = "live"
       /\ sched.task[t].at \in {"accept", "send", "hdr", "body", "cancel", "load", "read", "lstore"}

\* No task is left to run: what they prepared is submitted.
Submit ==
    /\ phase = "run" /\ sched.dead = "no" /\ sched.run_list = <<>> /\ shutdown # "set"
    /\ phase' = "wait"
    /\ op' = [t \in AllTasks |-> IF op[t] = "prep" THEN "busy" ELSE op[t]]
    /\ shutdown' = IF shutdown = "prep" THEN "busy" ELSE shutdown
    /\ UNCHANGED <<sched, listVars, sk, walk, recv_fn, destroy_tsk, peerVars>>

\* One completion of the batch: wake_waiter_cqe_fn.
Complete(t) ==
    /\ phase \in {"wait", "seen"} /\ sched.dead = "no" /\ op[t] = "busy"
    /\ phase' = "seen"
    /\ \E r \in Results(t) :
         /\ op' = [op EXCEPT ![t] = r]
         /\ taken' = IF t[1] = "send" /\ r = "ok"
                         THEN [taken EXCEPT ![t[2]] = Append(@, Head(sk[t[2]].queue))]
                         ELSE taken
    /\ signals' = IF t = SigRead THEN signals + 1 ELSE signals
    /\ sched' = IF Waits(t) THEN Wake(sched, t) ELSE Dead(sched, "waiter")
    /\ UNCHANGED <<shutdown, listVars, sk, walk, recv_fn, destroy_tsk, closed, sent>>

\* utask_shutdown
StartShutdown == shutdown' = "prep"

\* shutdown_cb
Shutdown ==
    /\ phase \in {"wait", "seen"} /\ sched.dead = "no" /\ shutdown = "busy"
    /\ phase' = "seen" /\ shutdown' = "set"
    /\ UNCHANGED <<sched, op, listVars, sk, walk, recv_fn, destroy_tsk, peerVars>>

\* The batch ends, with the completions that have to be in it.
BatchEnds ==
    /\ phase = "seen" /\ sched.dead = "no" /\ shutdown # "busy"
    /\ \A t \in AllTasks : op[t] = "busy" => ~EndsNext(t)
    /\ phase' = "run"
    /\ UNCHANGED <<sched, op, shutdown, listVars, sk, walk, recv_fn, destroy_tsk, peerVars>>

\* The peer closes its connection, which shows while tasks wait.
PeerCloses(p) ==
    /\ phase = "wait" /\ sched.dead = "no"
    /\ sk[p].st = "open" /\ p \notin closed
    /\ closed' = closed \union {p}
    /\ UNCHANGED <<sched, phase, op, shutdown, listVars, sk, walk, recv_fn, destroy_tsk, signals, sent, taken>>
=============================================================================
