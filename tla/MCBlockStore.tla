--------------------------- MODULE MCBlockStore ---------------------------
(* Instances of BlockStore small enough for TLC. *)
EXTENDS BlockStore, TLC

\* Entries are interchangeable; block numbers are not.
Symm == Permutations(Entries)
=============================================================================
