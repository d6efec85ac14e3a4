----------------------------- MODULE MCSignaling -----------------------------
(* Instances of Signaling for TLC. *)
EXTENDS Signaling, TLC

\* connections and sessions are each interchangeable
Symmetry == Permutations(PCs) \union Permutations(Sessions)
==============================================================================
