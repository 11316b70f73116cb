------------------------------- MODULE MCRLock -------------------------------
(***************************************************************************)
(* RLock on small sets of clients.  The modes are the numbers of enum      *)
(* rpdfs_rlock_mode: 2 is SH_RD and 3 is EX_WR.                            *)
(***************************************************************************)
EXTENDS RLock

Symmetry == Permutations(Client)
=============================================================================
