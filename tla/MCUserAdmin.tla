---------------------------- MODULE MCUserAdmin -----------------------------
(***************************************************************************)
(* UserAdmin on small instances.                                           *)
(***************************************************************************)
EXTENDS UserAdmin, TLC

CONSTANTS u1, u2, u3

\* The accounts other than the seeded one are interchangeable.
Symmetry == Permutations({u2, u3})
=============================================================================
