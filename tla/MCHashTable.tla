---------------------------- MODULE MCHashTable -----------------------------
(* An instance of HashTable small enough for TLC.                          *)
EXTENDS HashTable

MCKey == 1 .. 4

\* Hashes that collide at every size, and whose runs wrap around the end of
\* the tables of 3, 4, 6 and 9 entries.
MCHashes == {<<0, 8, 8, 11>>, <<8, 8, 8, 8>>}
=============================================================================
