-------------------------------- MODULE MCApi --------------------------------
(* Instances of Api for TLC. *)
EXTENDS Api, TLC

\* streams, tenants and requests are each interchangeable
Symmetry ==
  Permutations(Streams) \union Permutations(TenantIds) \union Permutations(Requests)
==============================================================================
