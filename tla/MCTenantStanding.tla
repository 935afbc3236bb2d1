------------------------- MODULE MCTenantStanding --------------------------
(* Instances of TenantStanding.                                            *)
EXTENDS TenantStanding, TLC

Symmetry == Permutations(Operators)
=============================================================================
