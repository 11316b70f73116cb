------------------------------ MODULE MCLStore ------------------------------
(* Model checking of LStore: w1 and w2 write one key, w3 another one.      *)
EXTENDS LStore, TLC

CONSTANTS w1, w2, w3, k1, k2

OneKeyTwice == (w1 :> k1) @@ (w2 :> k1) @@ (w3 :> k2)

=============================================================================
