--------------------------- MODULE AtomicTickets ----------------------------
(***************************************************************************)
(* What TicketService promises about the tickets table: the operations     *)
(* take effect one at a time.  Every change of a row is one operation      *)
(* applied to the row as it is at that moment, by a user whom the rules    *)
(* allow to make it, or the classifier or the auto-close job.  There are   *)
(* no open transactions and no versions to compare; the only trace of the  *)
(* time between reading and committing is that a timestamp may lie in the  *)
(* past.                                                                   *)
(***************************************************************************)
EXTENDS TicketOps

CONSTANT Tickets

VARIABLES rows, human, today

vars == <<rows, human, today>>

Created(t) == rows[t] # None
NextVersion(row) == [row EXCEPT !.version = @ + 1]
Written(x) == NextVersion(x.new)
Classifies(x) == x.events.category # Silent \/ x.events.priority # Silent

Init ==
  /\ rows = [t \in Tickets |-> None]
  /\ human = [t \in Tickets |-> FALSE]
  /\ today = 0

Create(u, t) ==
  /\ ~Created(t)
  /\ \E c \in OrNone(Categories), p \in OrNone(Priorities) :
       rows' = [rows EXCEPT ![t] = NewTicket(u, c, p)]
  /\ UNCHANGED <<human, today>>

\* One accepted request, decided on some day up to now.
Edit(u, t) ==
  /\ Created(t)
  /\ \E d \in 0..today : \E x \in Edits(u, d, rows[t]) :
       /\ x.dirty /\ CheckConstraints(x.new)
       /\ rows' = [rows EXCEPT ![t] = Written(x)]
       /\ human' = [human EXCEPT ![t] = @ \/ Classifies(x)]
  /\ UNCHANGED today

ApplyAiClassification(t) ==
  /\ Created(t) /\ rows[t].aiStatus = "PENDING"
  /\ \E c \in Categories, p \in Priorities :
       rows' = [rows EXCEPT ![t] = Written(AiOutcome(rows[t], human[t], c, p))]
  /\ UNCHANGED <<human, today>>

MarkAiStatus(t) ==
  /\ Created(t) /\ rows[t].aiStatus = "PENDING"
  /\ \E s \in {"LOW_CONFIDENCE", "FAILED"} :
       rows' = [rows EXCEPT ![t] = NextVersion([@ EXCEPT !.aiStatus = s])]
  /\ UNCHANGED <<human, today>>

\* A whole batch at once.
AutoClose ==
  /\ \E S \in SUBSET Tickets, d \in 0..today :
       /\ \A t \in S : Created(t) /\ DueForAutoClose(d, rows[t])
       /\ rows' = [t \in Tickets |-> IF t \in S THEN Written(AutoClosed(d, rows[t])) ELSE rows[t]]
  /\ UNCHANGED <<human, today>>

NextDay == today' = today + 1 /\ UNCHANGED <<rows, human>>

Next ==
  \/ \E u \in Users, t \in Tickets : Create(u, t) \/ Edit(u, t)
  \/ \E t \in Tickets : ApplyAiClassification(t) \/ MarkAiStatus(t)
  \/ AutoClose
  \/ NextDay

Spec == Init /\ [][Next]_vars
=============================================================================
