------------------------- MODULE MCTicketLifecycle --------------------------
(***************************************************************************)
(* TicketLifecycle on small instances.                                     *)
(***************************************************************************)
EXTENDS TicketLifecycle, TLC

CONSTANTS e1, a1, a2, m1, c1, t1, t2

MCRole == (e1 :> "EMPLOYEE") @@ (a1 :> "IT_AGENT") @@ (a2 :> "IT_AGENT") @@ (m1 :> "ADMIN")
MCRoleOf == [u \in Users |-> MCRole[u]]
MCPriorities == {"MEDIUM", "URGENT"}
MCMediumOnly == {"MEDIUM"}
MCMediumDefault == [c \in Categories \cup {None} |-> "MEDIUM"]
MCDefaultPriority == [c \in Categories \cup {None} |-> IF c = None THEN "MEDIUM" ELSE "URGENT"]
=============================================================================
