----------------------------- MODULE MCSessions -----------------------------
(***************************************************************************)
(* Sessions on small instances.                                            *)
(***************************************************************************)
EXTENDS Sessions, TLC

CONSTANTS u1, u2, u3, r1, r2

\* Sessions of an employee under one admin; and many admins without sessions.
SmallDeployments ==
  {[users |-> {u1, u2}, roles |-> {}, requests |-> {r1, r2}],
   [users |-> {u1, u2, u3}, roles |-> UserRole, requests |-> {}]}

\* Requests are interchangeable; the accounts are not, one of them is seeded.
Symmetry == Permutations(Requests)
=============================================================================
