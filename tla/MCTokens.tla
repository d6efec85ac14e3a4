------------------------------ MODULE MCTokens ------------------------------
(* Instances of Tokens for TLC. *)
EXTENDS Tokens, TLC

\* tokens and calls are each interchangeable
Symmetry == Permutations(Tokens) \union Permutations(Refreshes)
==============================================================================
