------------------------------ MODULE MCTenants ------------------------------
(* Instances of Tenants for TLC. *)
EXTENDS Tenants, TLC

\* tenants, stoppers and calls are each interchangeable
Symmetry ==
  Permutations(TenantIds) \union Permutations(Stoppers) \union Permutations(Suspends)
==============================================================================
