---------------------------- MODULE MCIngestion ----------------------------
(* Ingestion for TLC: two or three uploads of two contents.                *)
EXTENDS Ingestion, TLC
Symmetry == Permutations(Uploads) \union Permutations(Names) \union Permutations(Contents)
=============================================================================
