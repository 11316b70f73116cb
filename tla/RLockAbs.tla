------------------------------ MODULE RLockAbs ------------------------------
(***************************************************************************)
(* What the rlocks of one key promise to the clients: a client's mode only *)
(* rises while every other client's mode is compatible with the new one.   *)
(* No messages, no server: held[c] is the mode client c may use.           *)
(***************************************************************************)
EXTENDS Integers

CONSTANT Client

VARIABLE held

Modes == 0 .. 3
NoConflict(a, b) == a <= 1 \/ b <= 1 \/ (a < 3 /\ b < 3)

AbsInit == held = [c \in Client |-> 0]

Raise(c, m) ==
    /\ m > held[c]
    /\ \A d \in Client \ {c} : NoConflict(held[d], m)
    /\ held' = [held EXCEPT ![c] = m]

Lower(c, m) ==
    /\ m < held[c]
    /\ held' = [held EXCEPT ![c] = m]

AbsNext == \E c \in Client, m \in Modes : Raise(c, m) \/ Lower(c, m)

Spec == AbsInit /\ [][AbsNext]_held
=============================================================================
