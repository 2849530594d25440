------------------------------- MODULE MCFeed -------------------------------
(***************************************************************************)
(* Feed on small instances.                                                *)
(***************************************************************************)
EXTENDS Feed

CONSTANTS emma, alan, mona, api1, api2, worker, se, sa1, sa2, r1, r2

MCRole == [u \in Users |-> CASE u = emma -> "EMPLOYEE" [] u = alan -> "IT_AGENT" [] u = mona -> "ADMIN"]
MCDefaultPriority == [x \in Categories \cup {None} |-> "LOW"]
MCOwnerOf == [s \in Sockets |-> IF s = se THEN emma ELSE alan]
MCHeldBy  == [s \in Sockets |-> IF s = sa2 THEN api2 ELSE api1]

AtWork == [NewTicket(emma, None, "LOW") EXCEPT !.assignee = alan, !.status = "IN_PROGRESS",
                                            !.firstResponseAt = 0, !.version = 3]

\* One process and one page that watches; two processes, Redis and the worker; nobody
\* online and the deduplication window.
OneProcess ==
  [row |-> AtWork, users |-> {alan}, processes |-> {api1}, sockets |-> {se}, open |-> {se},
   requests |-> {r1, r2}, does |-> {"comment", "status", "read"}, faults |-> {},
   maxNotes |-> 3, maxVersion |-> 4, maxTime |-> 0, maxFaults |-> 0]
TwoProcesses ==
  [row |-> AtWork, users |-> {mona}, processes |-> {api1, api2, worker}, sockets |-> {sa1, sa2},
   open |-> {sa1}, requests |-> {r1}, does |-> {"assign", "scan"},
   faults |-> {"drop", "redis", "restart"}, maxNotes |-> 3, maxVersion |-> 5, maxTime |-> 0,
   maxFaults |-> 2]
Overlapping ==
  [row |-> AtWork, users |-> {alan}, processes |-> {api1, worker}, sockets |-> {}, open |-> {},
   requests |-> {r1, r2}, does |-> {"comment", "status", "scan"}, faults |-> {"commit"},
   maxNotes |-> 2, maxVersion |-> 5, maxTime |-> 2, maxFaults |-> 1]

SmallDeployments == {OneProcess, TwoProcesses, Overlapping}
=============================================================================
