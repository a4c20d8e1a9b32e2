---------------------------- MODULE MCChatTurn ----------------------------
(* ChatTurn for TLC: requests, questions and both jobs. *)
EXTENDS ChatTurn, TLC
Symmetry == Permutations(Requests) \union Permutations(Questions)
=============================================================================
