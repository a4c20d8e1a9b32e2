------------------------- MODULE MCSourceDocuments -------------------------
(* SourceDocuments for TLC: one or two items, two contents, one engine. *)
EXTENDS SourceDocuments, TLC
Symmetry == Permutations(Items) \union Permutations(Contents)
=============================================================================
