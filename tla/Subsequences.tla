---------------------------- MODULE Subsequences ----------------------------
(***************************************************************************)
(* Parts of sequences, in their order: what Rust's retain and filter keep. *)
(***************************************************************************)
EXTENDS Naturals, Sequences

Items(q) == {q[i] : i \in DOMAIN q}

\* The items of q that are in S
Only(q, S) ==
  LET kept[n \in 0..Len(q)] ==
        IF n = 0 THEN <<>>
        ELSE IF q[n] \in S THEN Append(kept[n - 1], q[n]) ELSE kept[n - 1]
  IN kept[Len(q)]
=============================================================================
