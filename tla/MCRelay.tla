------------------------------- MODULE MCRelay -------------------------------
(* Instances of Relay for TLC. *)
EXTENDS Relay, TLC

\* peer connections are interchangeable
Symmetry == Permutations(PCs)
==============================================================================
