--------------------------- MODULE MCSourceAccess ---------------------------
(* SourceAccess for TLC: one or two items, two principals.                 *)
EXTENDS SourceAccess, TLC
Symmetry == Permutations(Items) \union Permutations(Principals) \union Permutations(Members)
=============================================================================
