------------------------- MODULE TicketStateMachine -------------------------
(***************************************************************************)
(* The pure rule table of tickets/state_machine.py: which status a ticket  *)
(* may move to, by whom, and on which conditions.  No state and no I/O, as *)
(* in the source; the ticket service and its abstract specification both   *)
(* use it.                                                                 *)
(***************************************************************************)

TicketStatus == {"NEW", "ASSIGNED", "IN_PROGRESS", "PENDING_REQUESTER",
                 "RESOLVED", "CLOSED", "CANCELLED"}
TerminalStatus == {"CLOSED", "CANCELLED"}

UserRole   == {"EMPLOYEE", "IT_AGENT", "ADMIN"}
ALL_ROLES  == UserRole
AGENT_ADMIN == {"IT_AGENT", "ADMIN"}
ADMIN_ONLY == {"ADMIN"}

(***************************************************************************)
(* One TransitionRule.  The three *_only flags of the source exclude each  *)
(* other in the table, so they are one field: who may use the rule.        *)
(***************************************************************************)
TransitionRule(from, to, roles, who) ==
  [from |-> from, to |-> to, roles |-> roles, who |-> who]

ALLOWED == {
  TransitionRule("NEW", "ASSIGNED", AGENT_ADMIN, "anyone"),
  TransitionRule("NEW", "CANCELLED", ALL_ROLES, "requester"),
  TransitionRule("ASSIGNED", "ASSIGNED", AGENT_ADMIN, "anyone"),
  TransitionRule("ASSIGNED", "IN_PROGRESS", AGENT_ADMIN, "assignee"),
  TransitionRule("ASSIGNED", "CANCELLED", ALL_ROLES, "requester"),
  TransitionRule("IN_PROGRESS", "ASSIGNED", ADMIN_ONLY, "anyone"),
  TransitionRule("IN_PROGRESS", "PENDING_REQUESTER", AGENT_ADMIN, "assignee"),
  TransitionRule("IN_PROGRESS", "RESOLVED", AGENT_ADMIN, "assignee"),
  TransitionRule("IN_PROGRESS", "CANCELLED", ADMIN_ONLY, "anyone"),
  TransitionRule("PENDING_REQUESTER", "IN_PROGRESS", ALL_ROLES, "requester_or_assignee"),
  TransitionRule("PENDING_REQUESTER", "RESOLVED", AGENT_ADMIN, "assignee"),
  TransitionRule("PENDING_REQUESTER", "CANCELLED", ADMIN_ONLY, "anyone"),
  TransitionRule("RESOLVED", "IN_PROGRESS", ALL_ROLES, "requester"),
  TransitionRule("RESOLVED", "CLOSED", ALL_ROLES, "requester") }

\* Every rule into ASSIGNED, and no other, requires an assignee; every rule
\* into RESOLVED, and no other, requires a resolution note of >= 10 characters.
RequiresAssignee(to) == to = "ASSIGNED"
RequiresResolutionNote(to) == to = "RESOLVED"

\* get_rule: the rule for this step that is open to the role, if there is one.
GetRule(from, to, role) ==
  {r \in ALLOWED : r.from = from /\ r.to = to /\ role \in r.roles}

\* _du_tu_cach: does this user have the standing that the rule asks for?
\* Admins are exempt.
Qualified(rule, role, isRequester, isAssignee) ==
  \/ role = "ADMIN"
  \/ rule.who = "anyone"
  \/ rule.who = "requester" /\ isRequester
  \/ rule.who = "assignee" /\ isAssignee
  \/ rule.who = "requester_or_assignee" /\ (isRequester \/ isAssignee)

\* validate: the step is accepted.  A step to the same status never is.
Validate(from, to, role, isRequester, isAssignee, hasAssignee, longNote) ==
  /\ from # to
  /\ \E r \in GetRule(from, to, role) : Qualified(r, role, isRequester, isAssignee)
  /\ RequiresAssignee(to) => hasAssignee
  /\ RequiresResolutionNote(to) => longNote

\* allowed_next: the buttons the front end shows for this user.
AllowedNext(from, role, isRequester, isAssignee) ==
  {r.to : r \in {q \in ALLOWED : /\ q.from = from
                                 /\ q.to # from
                                 /\ role \in q.roles
                                 /\ Qualified(q, role, isRequester, isAssignee)}}
=============================================================================
