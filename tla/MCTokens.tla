------------------------------ MODULE MCTokens ------------------------------
(* Tokens on a small instance. *)
EXTENDS Tokens, TLC

Symmetry == Permutations(Tokens) \cup Permutations(Clients) \cup Permutations(Envs)
=============================================================================
