----------------------------- MODULE MCSyncRuns -----------------------------
(* SyncRuns for TLC: a few run rows, one or two API requests, one or two ids. *)
EXTENDS SyncRuns, TLC
Symmetry == Permutations(Runs) \union Permutations(Callers) \union Permutations(Ids)
=============================================================================
