------------------------------- MODULE Lists --------------------------------
(***************************************************************************)
(* The linked lists of src/shared/lk/list.h, as sequences.                 *)
(***************************************************************************)
EXTENDS Integers, Sequences

\* list_del of the elements of S.
Without(seq, S) ==
    LET kept[n \in 0 .. Len(seq)] ==
            IF n = 0 THEN <<>>
            ELSE IF seq[n] \in S THEN kept[n - 1] ELSE Append(kept[n - 1], seq[n])
    IN kept[Len(seq)]

\* list_del_init of x, which is a no-op for an entry that is on no list.
Unlinked(seq, x) == Without(seq, {x})
=============================================================================
