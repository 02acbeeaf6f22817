----------------------------- MODULE MCRowLocks -----------------------------
(* Small sets of requests and branches for TLC: see the cfg files.         *)
EXTENDS RowLocks, TLC

Interchangeable == Permutations(Callers) \cup Permutations(Branches)
                       \cup Permutations(Documents)

=============================================================================
