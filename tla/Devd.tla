------------------------------- MODULE Devd --------------------------------
(***************************************************************************)
(* The daemon (src/devd/rpdfs-devd.c): its main task, the task that reads  *)
(* signals (src/utask/sigcb.c) and the tasks that serve messages           *)
(* (src/devd/proc.c), over the connections of Net, from its start to the   *)
(* end of utask_run.  Of what the requests do only the sleeps, the replies *)
(* and the use of what is freed at exit are modelled.                      *)
(***************************************************************************)
EXTENDS Net

VARIABLES
    from,           \* the peer of each request
    rlock_up,       \* can the tables of locks be used?
    lstore_up       \* the log store and its block cache?

vars == <<sched, netVars, from, rlock_up, lstore_up>>
appVars == <<from, rlock_up, lstore_up>>

Init ==
    /\ sched = Started(Scheduler(AllTasks), Main, FALSE)
    /\ phase = "run"
    /\ op = [t \in AllTasks |-> "none"] /\ shutdown = "no"
    /\ sockets_list = <<>> /\ destroy_list = <<>> /\ peer_root = {}
    /\ sk = [x \in Sock |-> [st |-> "none", queue |-> <<>>]]
    /\ walk = NoWalk
    /\ recv_fn = FALSE /\ destroy_tsk = FALSE
    /\ signals = 0 /\ closed = {} /\ sent = [p \in Peer |-> 0] /\ taken = [p \in Peer |-> <<>>]
    /\ from = [r \in Request |-> None]
    /\ rlock_up = FALSE /\ lstore_up = FALSE

-----------------------------------------------------------------------------
(* main_utask                                                              *)

\* sigcb_register_callback, and lstore_init until it sleeps for the device.
MainStarts ==
    /\ Runs(Main, "start")
    /\ \E b \in LeftInMemory(sched) :
         sched' = Sleep(Started(Switch(sched), SigRead, b), Main, "load")
    /\ Prepare(Main)
    /\ UNCHANGED <<phase, shutdown, listVars, sk, walk, recv_fn, destroy_tsk, peerVars, appVars>>

\* utask_read of the device fails, or its wait is canceled.
LoadFails == op[Main] = "err" \/ (op[Main] # "ok" /\ Canceled(Main))

\* lstore_exit and rlock_exit free all that the requests use.
LStoreExit == lstore_up' = FALSE
RLockExit == rlock_up' = FALSE

\* lstore_exit and sigcb_free, until it sleeps for the reading task.
ExitGoesOn(s) ==
    /\ LStoreExit
    /\ sched' = Sleep(DestroyStart(s, SigRead, Main), Main, "sigcb_free")

\* lstore_init has failed or was canceled: the exits, of what never started.
InitFails ==
    /\ Runs(Main, "load")
    /\ LoadFails
    /\ ExitGoesOn(Switch(sched))
    /\ UNCHANGED <<netVars, from, rlock_up>>

\* The rest of the init: net_init, rlock_init, net_register_recv, net_listen.
InitEnds ==
    /\ Runs(Main, "load") /\ op[Main] = "ok"
    /\ \E b, c \in LeftInMemory(sched) :
         sched' = LET s == Started(Created(Switch(sched), Destroyer, "idle", b), Accept, c)
                  IN Sleep(IF Canceled(Main) THEN Wake(s, Main) ELSE s, Main, "up")
    /\ sk' = [sk EXCEPT ![Listener] = NewSock]
    /\ sockets_list' = <<Listener>>
    /\ destroy_tsk' = TRUE /\ recv_fn' = TRUE
    /\ rlock_up' = TRUE /\ lstore_up' = TRUE
    /\ Consume(Main)
    /\ UNCHANGED <<phase, shutdown, destroy_list, peer_root, walk, peerVars, from>>

\* net_listen fails, as when the address is in use: net_exit has no socket.
ListenFails ==
    /\ Runs(Main, "load") /\ op[Main] = "ok"
    /\ \E b \in LeftInMemory(sched) : NetExit(Created(Switch(sched), Destroyer, "idle", b))
    /\ destroy_tsk' = TRUE /\ lstore_up' = TRUE
    /\ Consume(Main)
    /\ UNCHANGED <<phase, shutdown, peer_root, sk, walk, peerVars, from, rlock_up>>

\* A signal has canceled the task: rlock_exit and net_exit.
ExitStarts ==
    /\ Runs(Main, "up") /\ Canceled(Main)
    /\ RLockExit
    /\ NetExit(Switch(sched))
    /\ UNCHANGED <<phase, op, shutdown, peer_root, sk, walk, destroy_tsk, peerVars, from, lstore_up>>

\* The destroying task has ended.
NetExited ==
    /\ Runs(Main, "net_exit") /\ sched.task[Destroyer].st # "live"
    /\ ExitGoesOn(Free(Switch(sched), Destroyer))
    /\ destroy_tsk' = FALSE
    /\ UNCHANGED <<phase, op, shutdown, listVars, sk, walk, recv_fn, peerVars, from, rlock_up>>

\* The reading task has ended: utask_shutdown.
MainEnds ==
    /\ Runs(Main, "sigcb_free") /\ sched.task[SigRead].st # "live"
    /\ sched' = Finish(Free(Switch(sched), SigRead), Main)
    /\ StartShutdown
    /\ UNCHANGED <<phase, op, listVars, sk, walk, recv_fn, destroy_tsk, peerVars, appVars>>

\* utask_run returns.
RunEnds ==
    /\ phase = "run" /\ sched.dead = "no" /\ sched.run_list = <<>>
    /\ shutdown = "set"
    /\ phase' = "ended"
    /\ UNCHANGED <<sched, op, shutdown, listVars, sk, walk, recv_fn, destroy_tsk, peerVars, appVars>>

-----------------------------------------------------------------------------
(* signalfd_read_utask                                                     *)

\* It runs before anything could cancel it.
SigStarts ==
    /\ Runs(SigRead, "start")
    /\ sched' = Sleep(Switch(sched), SigRead, "read") /\ Prepare(SigRead)
    /\ UNCHANGED <<phase, shutdown, listVars, sk, walk, recv_fn, destroy_tsk, peerVars, appVars>>

\* A signal: signal_cb cancels Main.
SigReturns ==
    /\ Runs(SigRead, "read") /\ (Completed(SigRead) \/ Canceled(SigRead))
    /\ LET s == IF Completed(SigRead) THEN Cancel(Switch(sched), Main) ELSE Switch(sched)
       IN IF Canceled(SigRead)
         THEN sched' = Finish(s, SigRead) /\ Consume(SigRead)
         ELSE sched' = s /\ Prepare(SigRead)
    /\ UNCHANGED <<phase, shutdown, listVars, sk, walk, recv_fn, destroy_tsk, peerVars, appVars>>

-----------------------------------------------------------------------------
(* proc_recv and the tasks it creates                                      *)

\* proc_recv, called by the receiving task: a task that frees itself.
ProcRecv(s, r) == Started(s, Req(r), TRUE)

Receives(p, r) ==
    /\ sched.task[Req(r)].st = "none" /\ \A q \in 1 .. r - 1 : sched.task[Req(q)].st # "none"
    /\ RecvMessage(p, ProcRecv(Switch(sched), r))
    /\ from' = [from EXCEPT ![r] = p]
    /\ UNCHANGED <<rlock_up, lstore_up>>

\* rlock_utask: a message to a client, or none.
RlockRuns(r) ==
    /\ Runs(Req(r), "start")
    /\ IF ~rlock_up THEN sched' = Dead(sched, "rlock") /\ UNCHANGED <<sk, sent>>
       ELSE \/ sched' = Finish(Switch(sched), Req(r)) /\ UNCHANGED <<sk, sent>>
            \/ \E q \in {q \in Peer : sk[q].st # "none"} : NetSend(Switch(sched), Req(r), q)
    /\ UNCHANGED <<phase, op, shutdown, listVars, walk, recv_fn, destroy_tsk, signals, closed, taken, appVars>>

\* block_read_utask and its like until they sleep for the log store.
BlockRuns(r) ==
    /\ Runs(Req(r), "start")
    /\ sched' = IF lstore_up THEN Sleep(Switch(sched), Req(r), "lstore") ELSE Dead(sched, "lstore")
    /\ Prepare(Req(r))
    /\ UNCHANGED <<phase, shutdown, listVars, sk, walk, recv_fn, destroy_tsk, peerVars, appVars>>

\* The result is sent.
BlockReplies(r) ==
    /\ Runs(Req(r), "lstore") /\ Completed(Req(r))
    /\ IF lstore_up THEN NetSend(Switch(sched), Req(r), from[r])
       ELSE sched' = Dead(sched, "lstore") /\ UNCHANGED <<sk, sent>>
    /\ Consume(Req(r))
    /\ UNCHANGED <<phase, shutdown, listVars, walk, recv_fn, destroy_tsk, signals, closed, taken, appVars>>

-----------------------------------------------------------------------------
\* The condition that task t sleeps for.
Ready(t) ==
    LET at == sched.task[t].at
    IN CASE at = "start" -> TRUE
         [] at \in {"accept", "send", "hdr", "body", "load", "read"} -> Completed(t) \/ Canceled(t)
         [] at \in {"cancel", "lstore"} -> Completed(t)
         [] at = "idle" -> Canceled(t) \/ IF t = Destroyer THEN destroy_list # <<>> ELSE sk[t[2]].queue # <<>>
         [] at = "tasks" -> sched.task[Head(walk.left)].st # "live"
         [] at = "up" -> Canceled(t)
         [] at = "net_exit" -> sched.task[Destroyer].st # "live"
         [] at = "sigcb_free" -> sched.task[SigRead].st # "live"

\* A task that was woken for nothing sleeps on: the loop of utask_wait_event.
SleepsOn(t) ==
    /\ Runs(t, sched.task[t].at) /\ ~Ready(t)
    /\ sched' = Switch(sched)
    /\ UNCHANGED <<netVars, appVars>>

NetRuns ==
    \/ AcceptStarts \/ AcceptEnds \/ \E p \in Peer : Accepts(p)
    \/ \E p \in Peer : \/ SendRuns(p) \/ SendReturns(p)
                       \/ RecvStarts(p) \/ RecvHeader(p) \/ RecvRefuses(p) \/ RecvEnds(p)
    \/ DestroyRuns \/ FreeGoesOn

TaskRuns ==
    \/ NetRuns /\ UNCHANGED appVars
    \/ MainStarts \/ InitFails \/ InitEnds \/ ListenFails \/ ExitStarts \/ NetExited \/ MainEnds
    \/ SigStarts \/ SigReturns
    \/ \E p \in Peer, r \in Request : Receives(p, r)
    \/ \E r \in Request : RlockRuns(r) \/ BlockRuns(r) \/ BlockReplies(r)
    \/ \E t \in AllTasks : SleepsOn(t)

Kernel == Submit \/ Shutdown \/ BatchEnds \/ (\E t \in AllTasks : Complete(t)) \/ \E p \in Peer : PeerCloses(p)

Next == TaskRuns \/ (Kernel /\ UNCHANGED appVars) \/ RunEnds

Spec == Init /\ [][Next]_vars

-----------------------------------------------------------------------------
(* Correctness, as long as no BUG_ON and no use of what is freed has ended *)
(* the program.                                                            *)

Alive == sched.dead = "no"
Allocated == {x \in Sock : sk[x].st \in {"open", "shut"}}

\* A task is on the run list once, and only as long as it has not finished.
TypeOK == Alive =>
    /\ IsInjective(sched.run_list)
    /\ \A i \in DOMAIN sched.run_list : sched.task[sched.run_list[i]].st = "live"
    /\ phase \in {"run", "wait", "seen", "ended"}
    /\ \A t \in AllTasks : op[t] \in {"none", "prep", "busy", "ok", "zero", "short", "err"}
    /\ closed \subseteq peer_root \union {p \in Peer : sk[p].st = "freed"}

\* Each allocated socket is on one of the two lists, once, and the tree of
\* peers has all of them but the listening one, whoever moves them between
\* the sleeps of the destroying task (net.c).
ListsExact == Alive =>
    /\ IsInjective(sockets_list \o destroy_list)
    /\ ToSet(sockets_list \o destroy_list) = Allocated
    /\ peer_root = Allocated \ {Listener}

\* A socket is freed after its tasks, and never while the walk of the
\* destroying task still points to it: list_for_each_entry_safe keeps the
\* next entry while free_sock sleeps.
OwnersOutlive == Alive =>
    /\ \A t \in NetTask : sched.task[t].st = "live" => SockOf(t) \in Allocated
    /\ {walk.sock, walk.tmp} \subseteq Allocated \union {None}

\* A connection takes the messages in the order of net_send, each once, and
\* the queue holds the ones it has not taken, also after a send that failed.
SentInOrder ==
    \A p \in Peer :
        /\ taken[p] = [i \in 1 .. Len(taken[p]) |-> i]
        /\ Alive /\ p \in Allocated =>
             LET first == Len(taken[p]) + IF op[Send(p)] = "ok" THEN 0 ELSE 1
             IN sk[p].queue = [i \in 1 .. sent[p] + 1 - first |-> first + i - 1]

FreedTask(t) == sched.task[t].st # "freed" /\ sched'.task[t].st = "freed"

\* The stack of a task of a connection is not freed while the kernel has an
\* op that points to it: free_sock shuts the socket and cancels first.
IoEndsFirst == [][\A t \in NetTask : FreedTask(t) => op[t] # "busy"]_vars

\* Once such a stack is freed no op points to it, nor will one: net.c:126
\* promises that all activity stops before the tasks are torn down.
NoOpOutlivesStack == \A t \in NetTask : sched.task[t].st = "freed" => op[t] \notin {"prep", "busy"}

Over == ~Alive \/ phase = "ended"

\* No teardown waits for ever for a task that it canceled: the socket of a peer
\* that goes away is freed, with its tasks, and a signal ends the daemon.
TeardownEnds ==
    /\ \A p \in Peer : (p \in closed) ~> (sk[p].st = "freed" \/ Over)
    /\ Canceled(Main) ~> Over

\* The daemon goes on as long as it has something to do.  Of its ops only
\* those end for certain that are canceled or broken, and the load.
Fairness ==
    WF_vars(\/ TaskRuns \/ RunEnds
            \/ /\ Submit \/ Shutdown \/ BatchEnds \/ \E t \in AllTasks : Complete(t) /\ (EndsNext(t) \/ t = Main)
               /\ UNCHANGED appVars)
LiveSpec == Spec /\ Fairness
=============================================================================
