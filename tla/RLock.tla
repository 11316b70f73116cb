------------------------------- MODULE RLock -------------------------------
(***************************************************************************)
(* The rlock server of rpdfs-devd (src/devd/rlock.c) for one key, its      *)
(* clients, and the in-order connections between them.                     *)
(*                                                                         *)
(* Every hash table lookup of rlock.c is by key, so the state of two keys  *)
(* never meets: one key is the whole behaviour.  A handler runs in a utask *)
(* and never sleeps (net_send only queues), so each one is a single step.  *)
(* The utask run list is first in first out, so the messages of one client *)
(* are handled in the order they were sent.                                *)
(*                                                                         *)
(* The client is the kernel module, which is not part of the repository:   *)
(* it does what the comments of rlock.c say that clients do.               *)
(***************************************************************************)
EXTENDS Integers, Sequences, FiniteSets, SequencesExt

CONSTANTS
    Client,        \* the client ids
    RequestModes,  \* the modes that clients request
    ReleaseModes,  \* the modes that clients voluntarily fall back to
    MaxInFlight    \* bound on one client's queued messages, and its requests

\* enum rpdfs_rlock_mode
NULL  == 0
NONE  == 1
SH_RD == 2
EX_WR == 3
Mode  == NULL .. EX_WR

ASSUME ModesAssumption ==
    /\ RequestModes \subseteq {NONE, SH_RD, EX_WR}
    /\ ReleaseModes \subseteq {NULL, NONE, SH_RD}

ASSUME BoundAssumption == MaxInFlight \in Nat

Request(m) == [type |-> "REQUEST", mode |-> m]
Confirm(m) == [type |-> "CONFIRM", mode |-> m]
Release(m) == [type |-> "RELEASE", mode |-> m]
Grant(m)   == [type |-> "GRANT",   mode |-> m]
Revoke(m)  == [type |-> "REVOKE",  mode |-> m]

ToServerMsg == [type : {"REQUEST", "CONFIRM", "RELEASE"}, mode : Mode]
ToClientMsg == [type : {"GRANT", "REVOKE"}, mode : Mode]

VARIABLES
    srv,        \* the server's state for the key, and what it has sent
    toServer,   \* toServer[c]: messages from c the server has not handled
    held,       \* held[c]: the mode client c may use
    pend        \* pend[c]: the modes c has requested and not been granted

vars == <<srv, toServer, held, pend>>

(***************************************************************************)
(* srv.lists     the rlock_lists of the key is allocated                   *)
(* srv.list      its granted list, in list order; these clients are also   *)
(*               the ones that client_ht holds                             *)
(* srv.reqs      its requests, head_req first                              *)
(* srv.granted   client_rlock.granted (NULL when there is no client_rlock) *)
(* srv.revoked   client_rlock.revoked                                      *)
(* srv.toClient  messages sent to each client and not yet received         *)
(* srv.aborted   a BUG_ON or a NULL dereference has killed rpdfs-devd      *)
(***************************************************************************)
RLockRequest == [client : Client, mode : Mode]

SrvType ==
    [lists : BOOLEAN, list : Seq(Client), reqs : Seq(RLockRequest),
     granted : [Client -> Mode], revoked : [Client -> Mode],
     toClient : [Client -> Seq(ToClientMsg)], aborted : BOOLEAN]

SrvInit ==
    [lists |-> FALSE, list |-> <<>>, reqs |-> <<>>,
     granted |-> [c \in Client |-> NULL], revoked |-> [c \in Client |-> NULL],
     toClient |-> [c \in Client |-> <<>>], aborted |-> FALSE]

-----------------------------------------------------------------------------
(* The server's functions, each from a value of srv to the next one.       *)

\* Faulty: reads taken to be compatible with a write.
CompatibleReads(a, b) == a <= SH_RD \/ b <= SH_RD

Compatible(a, b) == a <= NONE \/ b <= NONE \/ (a < EX_WR /\ b < EX_WR)

\* Faulty: the next mode of the enum; every holder told to drop everything.
MostCompatibleNext(m) == m + 1
MostCompatibleNone(m) == NONE

MostCompatible(m) == IF m = EX_WR THEN NONE ELSE SH_RD

\* get_rlock_lists(alloc): lists that exist are left as they are.
GetLists(s) == [s EXCEPT !.lists = TRUE]

\* get_client_rlock(alloc): a new client_rlock goes to the tail of the list.
GetClient(s, c) ==
    IF c \in Range(s.list) THEN s
    ELSE [s EXCEPT !.list = Append(@, c), !.granted[c] = NULL, !.revoked[c] = NULL]

Position(list, c) == CHOOSE i \in DOMAIN list : list[i] = c

\* Where maintain_granted_order inserts mode m into the rest of the list.
SortedPosition(rest, granted, m) ==
    IF m <= NONE THEN Len(rest) + 1
    ELSE IF m = SH_RD /\ rest # <<>> /\ granted[rest[1]] = EX_WR THEN 2
    ELSE 1

OutOfOrder(list, granted, i) ==
    \/ i < Len(list) /\ granted[list[i]] < granted[list[i + 1]]
    \/ i > 1 /\ granted[list[i]] > granted[list[i - 1]]

MaintainOrder(list, granted, c) ==
    LET i    == Position(list, c)
        rest == RemoveAt(list, i)
    IN IF OutOfOrder(list, granted, i)
       THEN InsertAt(rest, SortedPosition(rest, granted, granted[c]), c)
       ELSE list

\* One entry of the granted list as process_requests walks it for request r.
Conflicts(s, r, i) ==
    s.list[i] # r.client /\ ~Compatible(s.granted[s.list[i]], r.mode)

\* Faulty: the check for an earlier revoke of the same mode is missing.
StopsAtResend(s, r, i) ==
    s.list[i] # r.client /\ Compatible(s.granted[s.list[i]], r.mode)

StopsAt(s, r, i) ==
    /\ s.list[i] # r.client
    /\ \/ Compatible(s.granted[s.list[i]], r.mode)
       \/ s.revoked[s.list[i]] = MostCompatible(r.mode)

\* Faulty: the walk breaks at a revoked client before it sets saw_incompat.
SawIncompatLate(s, r) ==
    \E i \in DOMAIN s.list :
        /\ Conflicts(s, r, i) /\ ~StopsAt(s, r, i)
        /\ \A j \in 1 .. (i - 1) : s.list[j] = r.client

\* saw_incompat: the walk meets a conflict before it breaks.
SawIncompat(s, r) ==
    \E i \in DOMAIN s.list :
        Conflicts(s, r, i) /\ \A j \in 1 .. (i - 1) : s.list[j] = r.client

\* The clients the walk sends a revoke to.
Revokees(s, r) ==
    {s.list[i] : i \in {k \in DOMAIN s.list :
        s.list[k] # r.client /\ \A j \in 1 .. k : ~StopsAt(s, r, j)}}

SendRevokes(s, r) ==
    LET m  == MostCompatible(r.mode)
        rv == Revokees(s, r)
    IN [s EXCEPT
          !.revoked  = [c \in Client |-> IF c \in rv THEN m ELSE @[c]],
          !.toClient = [c \in Client |->
                          IF c \in rv THEN Append(@[c], Revoke(m)) ELSE @[c]]]

\* A grant is only sent when it changes the client's granted mode.
SendGrant(s, r) ==
    IF s.granted[r.client] = r.mode THEN s
    ELSE LET granted == [s.granted EXCEPT ![r.client] = r.mode]
         IN [s EXCEPT !.granted = granted,
                      !.toClient[r.client] = Append(@, Grant(r.mode)),
                      !.list = MaintainOrder(@, granted, r.client)]

FreeHeadRequest(s) == [s EXCEPT !.reqs = Tail(@)]

\* One iteration of the loop of process_requests; nothing when it would break.
ProcessHead(s) ==
    IF s.reqs = <<>> THEN s
    ELSE LET r == Head(s.reqs)
         IN IF SawIncompat(s, r) THEN SendRevokes(s, r)
            ELSE FreeHeadRequest(SendGrant(GetClient(s, r.client), r))

\* Every iteration but the last serves a request.  (The CHOOSE only makes TLC
\* evaluate each iteration once.)
ProcessRequests(s) ==
    LET after[n \in 0 .. Len(s.reqs)] ==
            IF n = 0 THEN s ELSE CHOOSE t \in {ProcessHead(p) : p \in {after[n - 1]}} : TRUE
    IN after[Len(s.reqs)]

FreeClient(s, c) ==
    [s EXCEPT !.list = RemoveAt(@, Position(@, c)), !.granted[c] = NULL, !.revoked[c] = NULL]

\* Faulty: no look at the requests after a client is freed; an unsorted list;
\* lists freed without a look at head_req.
TryFreeNoProcess(s, c) ==
    IF s.granted[c] <= NONE /\ s.revoked[c] <= NONE
    THEN [FreeClient(s, c) EXCEPT !.lists = Len(s.list) > 1 \/ s.reqs # <<>>]
    ELSE ProcessRequests([s EXCEPT !.list = MaintainOrder(@, s.granted, c)])

TryFreeUnsorted(s, c) ==
    IF s.granted[c] <= NONE /\ s.revoked[c] <= NONE
    THEN ProcessRequests([FreeClient(s, c) EXCEPT !.lists = Len(s.list) > 1 \/ s.reqs # <<>>])
    ELSE ProcessRequests(s)

TryFreeNoHeadCheck(s, c) ==
    IF s.granted[c] <= NONE /\ s.revoked[c] <= NONE
    THEN ProcessRequests([FreeClient(s, c) EXCEPT !.lists = Len(s.list) > 1])
    ELSE ProcessRequests([s EXCEPT !.list = MaintainOrder(@, s.granted, c)])

\* try_free_rlock_lists: no client is granted a mode and none waits for one.
Unused(s) == s.list = <<>> /\ s.reqs = <<>>
FreeLists(s) == [s EXCEPT !.lists = FALSE]

TryFreeOrProcess(s, c) ==
    IF s.granted[c] <= NONE /\ s.revoked[c] <= NONE
    THEN LET f == FreeClient(s, c)
         IN IF Unused(f) THEN FreeLists(f) ELSE ProcessRequests(f)
    ELSE ProcessRequests([s EXCEPT !.list = MaintainOrder(@, s.granted, c)])

Abort(s) == [s EXCEPT !.aborted = TRUE]

\* Faulty: the old tail's next pointer is not set.
AppendUnlinked(reqs, r) == IF reqs = <<>> THEN <<r>> ELSE reqs

AppendRequest(reqs, r) == Append(reqs, r)

\* A mode below SH_RD leaves lists NULL, which process_requests dereferences.
HandleRequest(s, c, m) ==
    IF m < SH_RD THEN Abort(s)
    ELSE ProcessRequests([GetLists(s) EXCEPT
                            !.reqs = AppendRequest(@, [client |-> c, mode |-> m])])

\* Faulty: a confirm of just the revoked mode is refused.
HandleConfirmStrict(s, c, m) ==
    IF m >= EX_WR \/ c \notin Range(s.list) \/ ~s.lists \/ m >= s.revoked[c]
    THEN Abort(s)
    ELSE TryFreeOrProcess([s EXCEPT !.granted[c] = s.revoked[c], !.revoked[c] = NULL], c)

\* An error from rlock_confirm or rlock_release is a BUG_ON in rlock_utask.
HandleConfirm(s, c, m) ==
    IF m >= EX_WR \/ c \notin Range(s.list) \/ ~s.lists \/ m > s.revoked[c]
    THEN Abort(s)
    ELSE TryFreeOrProcess([s EXCEPT !.granted[c] = s.revoked[c], !.revoked[c] = NULL], c)

HandleRelease(s, c, m) ==
    IF m >= EX_WR \/ c \notin Range(s.list) \/ ~s.lists \/ m >= s.granted[c]
    THEN Abort(s)
    ELSE TryFreeOrProcess([s EXCEPT !.granted[c] = m], c)

-----------------------------------------------------------------------------
(* The steps of the server: the oldest message of a client is handled.     *)

Receive(c, type, s) ==
    /\ ~srv.aborted
    /\ toServer[c] # <<>>
    /\ Head(toServer[c]).type = type
    /\ toServer' = [toServer EXCEPT ![c] = Tail(@)]
    /\ srv' = s
    /\ UNCHANGED <<held, pend>>

RecvRequest(c) == Receive(c, "REQUEST", HandleRequest(srv, c, Head(toServer[c]).mode))
RecvConfirm(c) == Receive(c, "CONFIRM", HandleConfirm(srv, c, Head(toServer[c]).mode))
RecvRelease(c) == Receive(c, "RELEASE", HandleRelease(srv, c, Head(toServer[c]).mode))

-----------------------------------------------------------------------------
(* The steps of the clients.                                               *)

\* "Requests only elevate the mode", "concurrent requests for increasing modes"
SendRequest(c) == \E m \in RequestModes :
    /\ ~srv.aborted
    /\ Len(toServer[c]) < MaxInFlight
    /\ Cardinality(pend[c]) < MaxInFlight
    /\ m > held[c] /\ \A p \in pend[c] : m > p
    /\ toServer' = [toServer EXCEPT ![c] = Append(@, Request(m))]
    /\ pend' = [pend EXCEPT ![c] = @ \union {m}]
    /\ UNCHANGED <<srv, held>>

\* "the client won't release the rlock until its request is served"
SendRelease(c) == \E m \in ReleaseModes :
    /\ ~srv.aborted
    /\ Len(toServer[c]) < MaxInFlight
    /\ pend[c] = {} /\ held[c] >= SH_RD /\ m < held[c]
    /\ toServer' = [toServer EXCEPT ![c] = Append(@, Release(m))]
    /\ held' = [held EXCEPT ![c] = m]
    /\ UNCHANGED <<srv, pend>>

PopToClient(c) == srv' = [srv EXCEPT !.toClient[c] = Tail(@)]

NextMessage(c, type) ==
    /\ ~srv.aborted
    /\ srv.toClient[c] # <<>>
    /\ Head(srv.toClient[c]).type = type

RecvGrant(c) ==
    /\ NextMessage(c, "GRANT")
    /\ LET m == Head(srv.toClient[c]).mode
       IN /\ held' = [held EXCEPT ![c] = m]
          /\ pend' = [pend EXCEPT ![c] = @ \ {m}]
    /\ PopToClient(c)
    /\ UNCHANGED toServer

\* "one confirm matching the mode of each revoke", a lower one "when they
\* don't have the rlock anymore"
RecvRevoke(c) ==
    /\ NextMessage(c, "REVOKE")
    /\ LET m == Head(srv.toClient[c]).mode
           left == IF held[c] < m THEN held[c] ELSE m
       IN /\ held' = [held EXCEPT ![c] = left]
          /\ toServer' = [toServer EXCEPT ![c] = Append(@, Confirm(left))]
    /\ PopToClient(c)
    /\ UNCHANGED pend

-----------------------------------------------------------------------------
Init ==
    /\ srv = SrvInit
    /\ toServer = [c \in Client |-> <<>>]
    /\ held = [c \in Client |-> NULL]
    /\ pend = [c \in Client |-> {}]

ServerStep(c) == RecvRequest(c) \/ RecvConfirm(c) \/ RecvRelease(c)
ClientRecv(c) == RecvGrant(c) \/ RecvRevoke(c)

Next == \E c \in Client :
    ServerStep(c) \/ ClientRecv(c) \/ SendRequest(c) \/ SendRelease(c)

Spec == Init /\ [][Next]_vars

\* Queued utasks run, and clients keep reading their connection.
Fairness == \A c \in Client : WF_vars(ServerStep(c)) /\ WF_vars(ClientRecv(c))

FairSpec == Spec /\ Fairness

-----------------------------------------------------------------------------
(* Correctness.                                                            *)

\* Every variable stays in its domain.
TypeOK ==
    /\ srv \in SrvType
    /\ toServer \in [Client -> Seq(ToServerMsg)]
    /\ held \in [Client -> Mode]
    /\ pend \in [Client -> SUBSET Mode]

\* "clients aren't able to use conflicting modes for a given key": no two
\* clients may use incompatible modes, whatever is still in flight.
MutualExclusion ==
    \A c, d \in Client : c # d => Compatible(held[c], held[d])

\* process_requests stops its walk at the first compatible client: that is
\* only right while the granted list is sorted by decreasing mode, NONE and
\* NULL in one last group, with at most one writer in front.
Rank(m) == IF m <= NONE THEN NONE ELSE m

GrantedSorted ==
    /\ \A i, j \in DOMAIN srv.list :
         i < j => Rank(srv.granted[srv.list[i]]) >= Rank(srv.granted[srv.list[j]])
    /\ \A c, d \in Client :
         srv.granted[c] = EX_WR /\ srv.granted[d] = EX_WR => c = d

\* "lists must exist when cl does": the lists of a key are allocated exactly
\* while a client_rlock or a request is on them (no BUG_ON, no leak), and a
\* client is on the granted list at most once.
ListsMatchClients ==
    /\ srv.lists <=> srv.list # <<>> \/ srv.reqs # <<>>
    /\ IsInjective(srv.list)
    /\ \A c \in Client \ Range(srv.list) :
         srv.granted[c] = NULL /\ srv.revoked[c] = NULL

\* Nothing but an incoming message makes process_requests run again.  So when
\* a request waits, some client in its way owes the server a confirm of a
\* revoke to the mode the request tolerates.
WaitsForConfirm ==
    ~srv.aborted /\ srv.reqs # <<>> =>
        \E d \in Client \ {Head(srv.reqs).client} :
            /\ ~Compatible(srv.granted[d], Head(srv.reqs).mode)
            /\ srv.revoked[d] = MostCompatible(Head(srv.reqs).mode)

\* No message of a client that keeps to the protocol makes a handler fail.
NeverAborts == ~srv.aborted

Revokes(c)  == {i \in DOMAIN srv.toClient[c] : srv.toClient[c][i].type = "REVOKE"}
Confirms(c) == {i \in DOMAIN toServer[c] : toServer[c][i].type = "CONFIRM"}

\* "We must receive one confirm matching the mode of each revoke", "we'll only
\* have one revoke in flight to each client at a time": client_rlock.revoked is
\* set exactly while one revoke, or its confirm, of that mode is in flight.
OneRevokeInFlight == \A c \in Client :
    /\ \A i \in Revokes(c) : srv.toClient[c][i].mode = srv.revoked[c]
    /\ \A i \in Confirms(c) : toServer[c][i].mode = srv.revoked[c]
    /\ Cardinality(Revokes(c)) + Cardinality(Confirms(c))
         = IF srv.revoked[c] = NULL THEN 0 ELSE 1

\* "we'll always send a grant for every request received": a request a client
\* waits for is in exactly one place: sent, queued by the server, or granted
\* and on its way back.
RequestAccounted == \A c \in Client : \A m \in Mode :
    Cardinality({i \in DOMAIN toServer[c] : toServer[c][i] = Request(m)})
      + Cardinality({i \in DOMAIN srv.reqs : srv.reqs[i] = [client |-> c, mode |-> m]})
      + Cardinality({i \in DOMAIN srv.toClient[c] : srv.toClient[c][i] = Grant(m)})
      = IF m \in pend[c] THEN 1 ELSE 0

\* "Writes conflicting with reads are reduced to reads to keep their read
\* cache": a client that does not release only loses a mode to a conflicting
\* request another client waits for, and keeps the most that request tolerates.
LosesNoMoreThanAsked == [][\A c \in Client :
    held'[c] < held[c] =>
        \E d \in Client \ {c} : \E m \in pend[d] :
            /\ ~Compatible(held[c], m)
            /\ \A k \in Mode : Compatible(k, m) => k <= held'[c]]_vars

\* Requests are served in order and every revoke is confirmed, so no request
\* waits forever.
RequestsGranted == \A c \in Client : \A m \in RequestModes :
    m \in pend[c] ~> m \notin pend[c]

\* The protocol implements a lock whose modes change hands instantly.
Abs == INSTANCE RLockAbs
AbsSpec == Abs!Spec
=============================================================================
