----------------------------- MODULE MCInsights -----------------------------
(***************************************************************************)
(* Insights on small instances.                                            *)
(***************************************************************************)
EXTENDS Insights

CONSTANTS emma, alan, beth, mona, t1, t2, net

MCRole == [u \in Users |-> CASE u = emma -> "EMPLOYEE" [] u \in {alan, beth} -> "IT_AGENT"
                             [] u = mona -> "ADMIN"]
MCDefaultPriority == [x \in Categories \cup {None} |-> "LOW"]
MCSlaTicks == [p \in Priorities |-> IF p = "URGENT" THEN 1 ELSE 2]
MCSkill == [u \in Users |-> [x \in Categories |-> IF u = beth THEN 2 ELSE 0]]
MCLastLogin == [u \in Users |-> IF u = alan THEN 0 ELSE None]
MCNameOrder == <<emma, beth, alan, mona>>

\* The default window, and one that is given the wrong way round.
MCAskedWindows == {[from |-> None, to |-> None], [from |-> 1, to |-> 0]}

\* One ticket for long, and its rating; one with the overview open; two tickets for the
\* loads of two agents.
OneTicketRated ==
  [tickets |-> {t1}, requesters |-> {emma}, staff |-> {alan, mona}, maxTime |-> 3, maxEvents |-> 5,
   pages |-> {"ratings"}]
OneTicketWatched ==
  [tickets |-> {t1}, requesters |-> {emma}, staff |-> {alan}, maxTime |-> 2, maxEvents |-> 1,
   pages |-> {"overview"}]
TwoTickets ==
  [tickets |-> {t1, t2}, requesters |-> {emma}, staff |-> {alan}, maxTime |-> 1, maxEvents |-> 1,
   pages |-> {"accounts", "triage"}]

SmallDeployments == {OneTicketRated, OneTicketWatched, TwoTickets}
=============================================================================
