----------------------------- MODULE TicketOps ------------------------------
(***************************************************************************)
(* What each operation of TicketService computes from the ticket row it    *)
(* loaded: tickets/service.py, with policies.py and the state machine.     *)
(* An operation is the set of outcomes the code may produce for a user u,  *)
(* a day d and a loaded row; an empty set is a request the code refuses    *)
(* (403, 404, 409 or 422).  No state here: TicketLifecycle runs these      *)
(* operations as concurrent database transactions, AtomicTickets one at a  *)
(* time.                                                                   *)
(*                                                                         *)
(* Timestamps are day numbers, the unit of both windows of the code.  A    *)
(* resolution note is kept as "has it the 10 characters required or not".  *)
(* SLA due dates are a function of created_at and of the priority they     *)
(* were computed for, so the row keeps that priority (slaFor).             *)
(***************************************************************************)
EXTENDS Integers, TicketStateMachine

CONSTANTS
  Users, Role,             \* accounts, and the role of each
  Categories, Priorities,
  DefaultPriority,         \* category (or None) -> default_priority
  ReopenWindowDays,        \* REOPEN_WINDOW_DAYS, 7 in the code
  AutoCloseAfterDays,      \* AUTO_CLOSE_AFTER_DAYS, 3 in the code
  None                     \* NULL

ASSUME RolesAssumption == Role \in [Users -> UserRole]
ASSUME PriorityAssumption == DefaultPriority \in [Categories \cup {None} -> Priorities]
ASSUME WindowAssumption == ReopenWindowDays \in Nat /\ AutoCloseAfterDays \in Nat
ASSUME NoneAssumption ==
  None \notin Users \cup Categories \cup Priorities \cup TicketStatus \cup Nat

AiStatus == {"PENDING", "APPLIED", "LOW_CONFIDENCE", "SKIPPED", "FAILED"}
OrNone(S) == S \cup {None}

Row == [requester : Users, assignee : OrNone(Users), status : TicketStatus,
        priority : Priorities, slaFor : Priorities, category : OrNone(Categories),
        aiStatus : AiStatus, longNote : BOOLEAN, resolvedAt : OrNone(Nat),
        closedAt : OrNone(Nat), firstResponseAt : OrNone(Nat), version : Nat]

ASSUME NullRowAssumption == None \notin Row

\* The two CHECK constraints of the tickets table that relate columns.
CheckConstraints(row) ==
  /\ row.status \in {"NEW", "CANCELLED"} \/ row.assignee # None
  /\ row.status \in {"RESOLVED", "CLOSED"} => row.resolvedAt # None /\ row.longNote

(***************************************************************************)
(* ticket_events: per field, the old and new value that a transaction      *)
(* writes to the journal.  Events that name no field (CREATED, REOPENED,   *)
(* COMMENTED) add nothing to a replay and are left out.                    *)
(***************************************************************************)
Change(old, new) == [old |-> old, new |-> new]
Silent == Change(None, None)
Quiet  == [status |-> Silent, assignee |-> Silent, category |-> Silent, priority |-> Silent]

\* What a service method leaves in its session when it reaches commit():
\* the row, whether a column of it changed (only then is there an UPDATE, and
\* only an UPDATE compares versions), and the events.
Outcome(row, new, dirty, events) ==
  [base |-> row, new |-> new, dirty |-> dirty, events |-> events]

Events == [status : [old : OrNone(TicketStatus), new : OrNone(TicketStatus)],
           assignee : [old : OrNone(Users), new : OrNone(Users)],
           category : [old : OrNone(Categories), new : OrNone(Categories)],
           priority : [old : OrNone(Priorities), new : OrNone(Priorities)]]
OutcomeType == [base : Row, new : Row, dirty : BOOLEAN, events : Events]

(***************************************************************************)
(* TicketAccessPolicy.                                                     *)
(***************************************************************************)
CanView(u, row) == Role[u] \in AGENT_ADMIN \/ row.requester = u
CanEdit(u, row) ==
  Role[u] \in AGENT_ADMIN \/ (row.requester = u /\ row.status = "NEW")
CanClaim(u) == Role[u] = "IT_AGENT"
CanAssign(u) == Role[u] \in AGENT_ADMIN
CanBeAssigned(a) == Role[a] = "IT_AGENT"

(***************************************************************************)
(* create.                                                                 *)
(***************************************************************************)
NewTicket(u, c, p) ==
  LET priority == IF p # None THEN p ELSE DefaultPriority[c]
  IN  [requester |-> u, assignee |-> None, status |-> "NEW",
       priority |-> priority, slaFor |-> priority, category |-> c,
       aiStatus |-> "PENDING", longNote |-> FALSE, resolvedAt |-> None,
       closedAt |-> None, firstResponseAt |-> None, version |-> 1]

(***************************************************************************)
(* update.  An absent field of the request is None; text says whether the  *)
(* title or the description differs.  A request that changes nothing does  *)
(* not commit.                                                             *)
(***************************************************************************)
UpdateTicketRequest ==
  [category : OrNone(Categories), priority : OrNone(Priorities), text : BOOLEAN]

Reclassifies(row, q)   == q.category # None /\ q.category # row.category
Reprioritises(row, q)  == q.priority # None /\ q.priority # row.priority

CanUpdate(u, row, q) ==
  /\ CanEdit(u, row)
  /\ Role[u] = "EMPLOYEE" => q.category = None /\ q.priority = None
  /\ q.text \/ Reclassifies(row, q) \/ Reprioritises(row, q)

Updated(row, q) ==
  [row EXCEPT !.category = IF Reclassifies(row, q) THEN q.category ELSE @,
              !.priority = IF Reprioritises(row, q) THEN q.priority ELSE @,
              !.slaFor   = IF Reprioritises(row, q) THEN q.priority ELSE @]

UpdateEvents(row, q) ==
  [Quiet EXCEPT
     !.category = IF Reclassifies(row, q) THEN Change(row.category, q.category) ELSE @,
     !.priority = IF Reprioritises(row, q) THEN Change(row.priority, q.priority) ELSE @]

Updates(u, row) ==
  {Outcome(row, Updated(row, q), TRUE, UpdateEvents(row, q)) :
     q \in {r \in UpdateTicketRequest : CanUpdate(u, row, r)}}

(***************************************************************************)
(* claim and assign, both through _do_assign.  Giving the ticket to the    *)
(* agent who already has it writes an event and no column.                 *)
(***************************************************************************)
DoAssign(row, a) ==
  LET new == [row EXCEPT !.assignee = a, !.status = "ASSIGNED"]
  IN  Outcome(row, new, new # row,
        [Quiet EXCEPT
           !.assignee = Change(row.assignee, a),
           !.status = IF row.status # "ASSIGNED" THEN Change(row.status, "ASSIGNED") ELSE @])

CanMoveToAssigned(u, row) == GetRule(row.status, "ASSIGNED", Role[u]) # {}

Claims(u, row) ==
  IF CanClaim(u) /\ row.assignee = None /\ CanMoveToAssigned(u, row)
    THEN {DoAssign(row, u)} ELSE {}

Assigns(u, row) ==
  IF CanAssign(u) /\ CanMoveToAssigned(u, row)
    THEN {DoAssign(row, a) : a \in {b \in Users : CanBeAssigned(b)}} ELSE {}

(***************************************************************************)
(* change_status.  The note is absent, shorter than 10 characters, or long *)
(* enough; one that is sent replaces the ticket's even when it is shorter. *)
(***************************************************************************)
ChangeStatusRequest == [status : TicketStatus, note : {None, "short", "long"}]

NoteAfter(row, q) == IF q.note = None THEN row.longNote ELSE q.note = "long"

WithinReopenWindow(d, row) ==
  row.resolvedAt # None => d - row.resolvedAt <= ReopenWindowDays

CanChangeStatus(u, d, row, q) ==
  /\ CanView(u, row)
  /\ Validate(row.status, q.status, Role[u], row.requester = u, row.assignee = u,
              row.assignee # None, NoteAfter(row, q))
  /\ row.status = "RESOLVED" /\ q.status = "IN_PROGRESS" => WithinReopenWindow(d, row)

\* _mark_first_response: only the first answer of somebody else from IT counts.
FirstResponse(u, d, row) ==
  IF row.firstResponseAt = None /\ u # row.requester /\ Role[u] \in AGENT_ADMIN
    THEN d ELSE row.firstResponseAt

\* Mutant of ResolvedAtAfter: reopening forgets to reset it.
ResolvedAtKept(d, row, to) ==
  IF to = "RESOLVED" \/ (to = "CLOSED" /\ row.resolvedAt = None) THEN d ELSE row.resolvedAt

ResolvedAtAfter(d, row, to) ==
  CASE to = "RESOLVED" -> d
    [] to = "CLOSED"   -> IF row.resolvedAt = None THEN d ELSE row.resolvedAt
    [] to \notin {"RESOLVED", "CLOSED"} /\ row.status = "RESOLVED" -> None
    [] OTHER -> row.resolvedAt

StatusChanged(u, d, row, q) ==
  [row EXCEPT !.status = q.status,
              !.longNote = NoteAfter(row, q),
              !.resolvedAt = ResolvedAtAfter(d, row, q.status),
              !.closedAt = IF q.status = "CLOSED" THEN d ELSE @,
              !.firstResponseAt = FirstResponse(u, d, row)]

StatusChanges(u, d, row) ==
  {Outcome(row, StatusChanged(u, d, row, q), TRUE,
           [Quiet EXCEPT !.status = Change(row.status, q.status)]) :
     q \in {r \in ChangeStatusRequest : CanChangeStatus(u, d, row, r)}}

(***************************************************************************)
(* add_comment: touches the ticket row only when it is the first response. *)
(* An employee's wish for an internal comment is ignored.                  *)
(***************************************************************************)
Commented(u, d, row, wantsInternal) ==
  LET internal == wantsInternal /\ Role[u] \in AGENT_ADMIN
      new == IF internal THEN row
             ELSE [row EXCEPT !.firstResponseAt = FirstResponse(u, d, row)]
  IN  Outcome(row, new, new # row, Quiet)

Comments(u, d, row) ==
  IF CanView(u, row) THEN {Commented(u, d, row, i) : i \in BOOLEAN} ELSE {}

\* Every request that works on a row the user can see.
Edits(u, d, row) ==
  Updates(u, row) \cup Claims(u, row) \cup Assigns(u, row)
    \cup StatusChanges(u, d, row) \cup Comments(u, d, row)

(***************************************************************************)
(* The two writers that are not requests.                                  *)
(***************************************************************************)
\* Mutant of AiOutcome: asks only whether the ticket has a category.
AiOutcomeBlind(row, human, c, p) ==
  IF row.category # None
  THEN Outcome(row, [row EXCEPT !.aiStatus = "SKIPPED"], TRUE, Quiet)
  ELSE Outcome(row,
         [row EXCEPT !.category = c, !.priority = p, !.slaFor = p, !.aiStatus = "APPLIED"],
         TRUE,
         [Quiet EXCEPT !.category = Change(None, c),
                       !.priority = IF row.priority # p THEN Change(row.priority, p) ELSE @])

\* apply_ai_classification on a PENDING ticket; human says whether a user's
\* RECLASSIFIED or PRIORITY_CHANGED event is in the journal.
AiOutcome(row, human, c, p) ==
  IF row.category # None \/ human
  THEN Outcome(row, [row EXCEPT !.aiStatus = "SKIPPED"], TRUE, Quiet)
  ELSE Outcome(row,
         [row EXCEPT !.category = c, !.priority = p, !.slaFor = p, !.aiStatus = "APPLIED"],
         TRUE,
         [Quiet EXCEPT !.category = Change(None, c),
                       !.priority = IF row.priority # p THEN Change(row.priority, p) ELSE @])

\* auto_close_resolved, for one ticket of the batch.
DueForAutoClose(d, row) ==
  row.status = "RESOLVED" /\ row.resolvedAt # None /\ row.resolvedAt <= d - AutoCloseAfterDays

AutoClosed(d, row) ==
  Outcome(row, [row EXCEPT !.status = "CLOSED", !.closedAt = d], TRUE,
          [Quiet EXCEPT !.status = Change("RESOLVED", "CLOSED")])
=============================================================================
