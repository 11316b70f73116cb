------------------------------ MODULE RLockInv ------------------------------
(***************************************************************************)
(* The inductive invariants behind the theorems of RLockProofs.  They are  *)
(* about a value s of srv, so that they also hold between the iterations   *)
(* of process_requests.                                                    *)
(***************************************************************************)
EXTENDS RLock

-----------------------------------------------------------------------------
(* The server on its own, whatever the clients send.                       *)

SortedList(list, granted) == \A i, j \in DOMAIN list :
    i < j => Rank(granted[list[i]]) >= Rank(granted[list[j]])

OneWriter(granted) == \A c, d \in Client :
    granted[c] = EX_WR /\ granted[d] = EX_WR => c = d

Absent(s) == \A c \in Client \ Range(s.list) :
    s.granted[c] = NULL /\ s.revoked[c] = NULL

\* The walk of process_requests is right on such a state.
ServerInv(s) ==
    /\ s \in SrvType
    /\ IsInjective(s.list)
    /\ Absent(s)
    /\ SortedList(s.list, s.granted)
    /\ OneWriter(s.granted)
    /\ \A c \in Client : s.revoked[c] < EX_WR
    /\ \A i \in DOMAIN s.reqs : s.reqs[i].mode >= SH_RD

ListsUsed(s) == s.lists <=> s.list # <<>> \/ s.reqs # <<>>

\* The head request waits for a confirm.
Blocked(s) ==
    /\ s.reqs # <<>>
    /\ \E d \in Client \ {Head(s.reqs).client} :
         /\ ~Compatible(s.granted[d], Head(s.reqs).mode)
         /\ s.revoked[d] = MostCompatible(Head(s.reqs).mode)

-----------------------------------------------------------------------------
(* The server and the clients, when no client releases a mode on its own.  *)

NoReleases == ReleaseModes = {} /\ NONE \notin RequestModes

GrantedCompatible(s) == \A c, d \in Client :
    c # d => Compatible(s.granted[c], s.granted[d])

\* Revokes are only outstanding for the head request.
RevokedForHead(s) == \A d \in Client : s.revoked[d] # NULL =>
    /\ s.reqs # <<>>
    /\ Head(s.reqs).client # d
    /\ ~Compatible(s.granted[d], Head(s.reqs).mode)
    /\ s.revoked[d] = MostCompatible(Head(s.reqs).mode)

IsConfirm(ts, c, i) == ts[c][i].type = "CONFIRM"
IsRequest(ts, c, i) == ts[c][i].type = "REQUEST"
ConfirmSent(ts, c)  == \E i \in DOMAIN ts[c] : IsConfirm(ts, c, i)

\* A revoke is the last message to a client, and not yet confirmed.
RevokeInv(s, ts, c) == \A i \in DOMAIN s.toClient[c] :
    s.toClient[c][i].type = "REVOKE" =>
        /\ i = Len(s.toClient[c])
        /\ s.revoked[c] # NULL
        /\ s.toClient[c][i].mode = s.revoked[c]
        /\ ~ConfirmSent(ts, c)

\* A confirm answers the outstanding revoke, and the client has complied.
ConfirmInv(s, ts, h, c) ==
    /\ \A i \in DOMAIN ts[c] : IsConfirm(ts, c, i) =>
         /\ s.toClient[c] = <<>>
         /\ s.revoked[c] # NULL
         /\ ts[c][i].mode = s.revoked[c]
         /\ h[c] = s.revoked[c]
    /\ \A i, j \in DOMAIN ts[c] : IsConfirm(ts, c, i) /\ IsConfirm(ts, c, j) => i = j

\* Grants on their way rise to the granted mode, each to be consumed by a
\* request the client waits for.
GrantInv(s, h, p, c) ==
    /\ \A i \in DOMAIN s.toClient[c] : s.toClient[c][i].type = "GRANT" =>
         /\ s.toClient[c][i].mode <= s.granted[c]
         /\ s.toClient[c][i].mode > h[c]
         /\ s.toClient[c][i].mode \in p[c]
    /\ \A i, j \in DOMAIN s.toClient[c] :
         /\ i < j
         /\ s.toClient[c][i].type = "GRANT"
         /\ s.toClient[c][j].type = "GRANT"
         => s.toClient[c][i].mode < s.toClient[c][j].mode

\* A client never uses more than it was granted, and the granted mode is the
\* client's or on its way to it.
HeldInv(s, ts, h, c) ==
    /\ h[c] <= s.granted[c] \/ h[c] <= NONE
    /\ ConfirmSent(ts, c) \/ s.granted[c] <= NONE \/ h[c] = s.granted[c]
         \/ \E i \in DOMAIN s.toClient[c] : s.toClient[c][i] = Grant(s.granted[c])

\* A client's requests elevate its mode, each above the one before it.
RequestInv(s, ts, h, p, c) ==
    /\ \A i \in DOMAIN ts[c] : IsRequest(ts, c, i) =>
         /\ ts[c][i].mode \in p[c]
         /\ ts[c][i].mode >= SH_RD
         /\ ts[c][i].mode > h[c]
         /\ ts[c][i].mode > s.granted[c] \/ \E j \in 1 .. (i - 1) : IsConfirm(ts, c, j)
    /\ \A i \in DOMAIN s.reqs : s.reqs[i].client = c =>
         s.reqs[i].mode \in p[c] /\ s.reqs[i].mode > s.granted[c]
    /\ \A i, j \in DOMAIN ts[c] :
         i < j /\ IsRequest(ts, c, i) /\ IsRequest(ts, c, j) => ts[c][i].mode < ts[c][j].mode
    /\ \A i, j \in DOMAIN s.reqs :
         i < j /\ s.reqs[i].client = c /\ s.reqs[j].client = c => s.reqs[i].mode < s.reqs[j].mode
    /\ \A i \in DOMAIN s.reqs : \A j \in DOMAIN ts[c] :
         s.reqs[i].client = c /\ IsRequest(ts, c, j) => s.reqs[i].mode < ts[c][j].mode

ClientInv(s, ts, h, p, c) ==
    /\ \A i \in DOMAIN ts[c] : ts[c][i].type # "RELEASE"
    /\ RevokeInv(s, ts, c)
    /\ ConfirmInv(s, ts, h, c)
    /\ GrantInv(s, h, p, c)
    /\ HeldInv(s, ts, h, c)
    /\ RequestInv(s, ts, h, p, c)

ProtocolInv(s, ts, h, p) ==
    /\ GrantedCompatible(s)
    /\ RevokedForHead(s)
    /\ \A c \in Client : ClientInv(s, ts, h, p, c)

\* What a mode that client c waits for is: sent, queued by the server, or
\* granted and on its way back.
Placed(s, ts, c, m) ==
    \/ Request(m) \in ToSet(ts[c])
    \/ [client |-> c, mode |-> m] \in ToSet(s.reqs)
    \/ Grant(m) \in ToSet(s.toClient[c])

\* A client with an outstanding revoke has still to read it, or to be heard.
Answering(s, ts, c) == s.revoked[c] # NULL =>
    \/ Revoke(s.revoked[c]) \in ToSet(s.toClient[c])
    \/ Confirm(s.revoked[c]) \in ToSet(ts[c])

AccountInv(s, ts, p) == \A c \in Client :
    Answering(s, ts, c) /\ \A m \in p[c] : Placed(s, ts, c, m)

-----------------------------------------------------------------------------
\* Holds for all request and release modes.
SrvInv == TypeOK /\ ServerInv(srv) /\ ListsUsed(srv) /\ WaitsForConfirm

\* Holds when no client releases a mode on its own.
SafeInv == SrvInv /\ ProtocolInv(srv, toServer, held, pend) /\ NeverAborts

\* Holds then as well: nothing that is waited for gets lost.
KeptInv == SafeInv /\ AccountInv(srv, toServer, pend)
=============================================================================
