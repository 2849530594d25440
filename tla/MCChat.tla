------------------------------- MODULE MCChat -------------------------------
(***************************************************************************)
(* Chat on small instances.                                                *)
(***************************************************************************)
EXTENDS Chat

CONSTANTS k1, k2, s1, s2, x1, x2

\* Both articles indexed with the primary, or one reindexed while the fallback served; one
\* call left in the budget, or enough of them; with a fallback and without.
SmallDeployments ==
  [asks : {{k1, k2}}, sessions : {{s1}, {s1, s2}}, providers : 1..Providers,
   indexedWith : {[x \in Articles |-> IF x = x1 THEN 1 ELSE 2]},
   spent : {0, Budget - 1}, maxFaults : {1}]
=============================================================================
