----------------------------- MODULE SlaMonitor -----------------------------
(***************************************************************************)
(* The SLA of tickets and the job that watches it (US-35).  The ticket     *)
(* service computes the due date at creation and anew when the priority    *)
(* changes (_apply_sla); every five minutes monitor_sla scans a batch of   *)
(* open tickets, reports what is at risk or late, and marks it, all in one *)
(* transaction without locks: one ticket that somebody changed in between  *)
(* rolls the whole scan back (version_id_col).  Which moves a status       *)
(* allows is TicketLifecycle's business; here a ticket is open or not.     *)
(***************************************************************************)
EXTENDS SlaClock, Sequences

CONSTANTS
  Tickets, Agents, Admins,
  Workers,               \* worker processes that can run a scan
  Priorities, Policy,    \* sla_policies: priority -> minutes and kind of hours
  DedupWindow,           \* NOTIFY_DEDUP_MINUTES
  BusinessZone,          \* BUSINESS_TIMEZONE of the ticket service
  MonitorZone,           \* the zone SlaMonitor._calendar leaves at its default
  MaxTime,               \* bound on the clock
  MaxVersion,            \* bound on the changes of each ticket
  Deployments,           \* choices of the priorities in use, of the workers, of
                         \* SLA_MONITOR_BATCH_SIZE (200 in the code), and of the bounds on
                         \* the moments at which tickets are created and on dying workers
  None

ASSUME PolicyAssumption ==
  Policy \in [Priorities -> [minutes : Nat \ {0}, businessHoursOnly : BOOLEAN]]
ASSUME SlaDeploymentsAssumption ==
  Deployments \subseteq [priorities : SUBSET Priorities, workers : SUBSET Workers,
                         batchSize : Nat \ {0}, creationTimes : SUBSET Nat, maxFaults : Nat]
ASSUME WindowAssumption == DedupWindow \in Nat
ASSUME NoneAssumption == None \notin Nat /\ None \notin Admins
ASSUME ZoneAssumption == BusinessZone \in Nat /\ MonitorZone \in Nat

VARIABLES
  deployment,\* one of Deployments, chosen once
  rows,      \* the tickets table: a function on the tickets that were created
  notices,   \* the notifications table
  events,    \* per ticket, the monitor's rows in ticket_events
  scan,      \* per worker, None or the open transaction of a scan
  now,
  faults

vars == <<deployment, rows, notices, events, scan, now, faults>>

Created(t) == t \in DOMAIN rows

-----------------------------------------------------------------------------
(***************************************************************************)
(* The ticket service, as far as the SLA is concerned.                     *)
(***************************************************************************)
ApplySla(createdAt, priority) == DueAt(createdAt, Policy[priority], BusinessZone)

NewRow(p) ==
  [createdAt |-> now, priority |-> p, dueAt |-> ApplySla(now, p), open |-> TRUE,
   assignee |-> None, warnedAt |-> None, breachedAt |-> None, version |-> 1]

Create(t, p) ==
  /\ ~Created(t)
  /\ p \in deployment.priorities /\ now \in deployment.creationTimes
  /\ rows' = [r \in DOMAIN rows \cup {t} |-> IF r = t THEN NewRow(p) ELSE rows[r]]
  /\ UNCHANGED <<deployment, notices, events, scan, now, faults>>

Edited(t, row) ==
  /\ rows[t].version < MaxVersion[t]
  /\ rows' = [rows EXCEPT ![t] = [row EXCEPT !.version = @ + 1]]
  /\ UNCHANGED <<deployment, notices, events, scan, now, faults>>

\* update and apply_ai_classification.  The marks of the monitor stay.
ChangePriority(t, p) ==
  /\ Created(t) /\ p \in deployment.priorities /\ p # rows[t].priority
  /\ Edited(t, [rows[t] EXCEPT !.priority = p, !.dueAt = ApplySla(rows[t].createdAt, p)])

\* claim and assign.
Assign(t, u) ==
  /\ Created(t) /\ rows[t].open /\ u # rows[t].assignee
  /\ Edited(t, [rows[t] EXCEPT !.assignee = u])

\* change_status out of the open statuses, and the reopening.
Resolve(t) == Created(t) /\ rows[t].open /\ Edited(t, [rows[t] EXCEPT !.open = FALSE])
Reopen(t)  == Created(t) /\ ~rows[t].open /\ Edited(t, [rows[t] EXCEPT !.open = TRUE])

Tick ==
  /\ now < MaxTime
  /\ now' = now + 1
  /\ UNCHANGED <<deployment, rows, notices, events, scan, faults>>

-----------------------------------------------------------------------------
(***************************************************************************)
(* NotificationService.notify, called by the monitor without an actor.     *)
(***************************************************************************)
\* Mutant of ExistsRecent: notices of other tickets count as well.
ExistsRecentOfAny(u, type, t, since) ==
  \E n \in notices : n.user = u /\ n.type = type /\ n.at >= since

ExistsRecent(u, type, t, since) ==
  \E n \in notices : n.user = u /\ n.type = type /\ n.ticket = t /\ n.at >= since

\* notify_many: nobody is told twice, and an unassigned ticket has no assignee to tell.
Notify(users, type, t, moment) ==
  {[user |-> u, type |-> type, ticket |-> t, at |-> moment] :
     u \in {v \in users \ {None} : ~ExistsRecent(v, type, t, moment - DedupWindow)}}

-----------------------------------------------------------------------------
(***************************************************************************)
(* SlaMonitor.run.                                                         *)
(***************************************************************************)
\* Mutant of Candidates: a ticket that was warned is not looked at again.
CandidatesUnwarned == {t \in Tickets : Created(t) /\ rows[t].open /\ rows[t].warnedAt = None}

Candidates ==
  {t \in Tickets : /\ Created(t) /\ rows[t].open
                   /\ rows[t].warnedAt = None \/ rows[t].breachedAt = None}

\* ORDER BY sla_resolution_due_at LIMIT, with any order among equals.
IsBatch(S) ==
  /\ S \subseteq Candidates
  /\ IF Cardinality(Candidates) <= deployment.batchSize THEN S = Candidates
     ELSE /\ Cardinality(S) = deployment.batchSize
          /\ \A t \in S, r \in Candidates \ S : rows[t].dueAt <= rows[r].dueAt

\* What the scan has to say of a ticket as it was read.
Report(row, at) ==
  LET state == SlaState(row.createdAt, row.dueAt, at, MonitorZone)
  IN  CASE state = "BREACHED" /\ row.breachedAt = None -> "SLA_BREACHED"
        [] state = "AT_RISK" /\ row.warnedAt = None    -> "SLA_AT_RISK"
        [] OTHER                                       -> None

\* A scan is kept as what it is going to write: a report per ticket, with the row that was
\* read.  A scan with nothing to report has no effect.
StartScan(w) ==
  /\ w \in deployment.workers /\ scan[w] = None
  /\ \E S \in SUBSET Candidates :
       LET new == {t \in S : Report(rows[t], now) # None}
       IN  /\ IsBatch(S) /\ new # {}
           /\ scan' = [scan EXCEPT ![w] =
                [at |-> now,
                 reports |-> [t \in new |-> [row |-> rows[t], type |-> Report(rows[t], now)]]]]
  /\ UNCHANGED <<deployment, rows, notices, events, now, faults>>

\* Mutant of Mark: a warned ticket is left without its mark.
MarkBreachOnly(row, type, at) ==
  IF type = "SLA_BREACHED" THEN [row EXCEPT !.breachedAt = at, !.version = @ + 1] ELSE row

Mark(row, type, at) ==
  IF type = "SLA_BREACHED" THEN [row EXCEPT !.breachedAt = at, !.version = @ + 1]
                           ELSE [row EXCEPT !.warnedAt = at, !.version = @ + 1]

\* Lateness is reported to the admins too.
Recipients(report) ==
  {report.row.assignee} \cup (IF report.type = "SLA_BREACHED" THEN Admins ELSE {})

\* Mutant of Current: tickets without a version column.
CurrentUnversioned(x) == DOMAIN x.reports \subseteq DOMAIN rows

\* version_id_col: every row is still the one that was read.
Current(x) == \A t \in DOMAIN x.reports : rows[t].version = x.reports[t].row.version

CommitScan(w) ==
  /\ scan[w] # None
  /\ Current(scan[w])
  /\ LET x   == scan[w]
         new == DOMAIN x.reports
     IN  /\ rows' = [t \in DOMAIN rows |->
              IF t \in new THEN Mark(x.reports[t].row, x.reports[t].type, x.at) ELSE rows[t]]
         /\ events' = [t \in Tickets |->
              IF t \in new THEN Append(events[t], x.reports[t].type) ELSE events[t]]
         /\ notices' = notices \cup UNION
              {Notify(Recipients(x.reports[t]), x.reports[t].type, t, x.at) : t \in new}
  /\ scan' = [scan EXCEPT ![w] = None]
  /\ UNCHANGED <<deployment, now, faults>>

\* StaleDataError: nothing of the scan stays, and nothing retries it.
RollbackScan(w) ==
  /\ scan[w] # None
  /\ ~Current(scan[w])
  /\ scan' = [scan EXCEPT ![w] = None]
  /\ UNCHANGED <<deployment, rows, notices, events, now, faults>>

Die(w) ==
  /\ scan[w] # None
  /\ faults < deployment.maxFaults /\ faults' = faults + 1
  /\ scan' = [scan EXCEPT ![w] = None]
  /\ UNCHANGED <<deployment, rows, notices, events, now>>

-----------------------------------------------------------------------------
Init ==
  /\ deployment \in Deployments
  /\ rows = [t \in {} |-> None]
  /\ notices = {}
  /\ events = [t \in Tickets |-> <<>>]
  /\ scan = [w \in Workers |-> None]
  /\ now = 0 /\ faults = 0

Next ==
  \/ \E t \in Tickets, p \in Priorities : Create(t, p) \/ ChangePriority(t, p)
  \/ \E t \in Tickets, u \in Agents : Assign(t, u)
  \/ \E t \in Tickets : Resolve(t) \/ Reopen(t)
  \/ Tick
  \/ \E w \in Workers : StartScan(w) \/ CommitScan(w) \/ RollbackScan(w) \/ Die(w)

Spec == Init /\ [][Next]_vars

(***************************************************************************)
(* The beat starts a scan every five minutes and a scan ends.  Nothing is  *)
(* assumed of the people, who can change a ticket MaxVersion times.        *)
(***************************************************************************)
FairSpec ==
  /\ Spec
  /\ WF_vars(\E w \in Workers : StartScan(w))
  /\ \A w \in Workers : WF_vars(CommitScan(w) \/ RollbackScan(w))

-----------------------------------------------------------------------------
(***************************************************************************)
(* Properties.                                                             *)
(***************************************************************************)
\* BR-19 and sla.py: the due date leaves exactly the policy's business time, counted
\* minute by minute in office hours of the local zone, and falls into office hours
\* (their end included), whenever the ticket was created and reprioritised; and the time
\* left, on which AT_RISK is decided, is the business time that is left.
BusinessTimeCounted ==
  \A t \in Tickets : Created(t) =>
    /\ Policy[rows[t].priority].businessHoursOnly =>
         /\ Counted(rows[t].createdAt, rows[t].dueAt, BusinessZone)
              = Policy[rows[t].priority].minutes
         /\ BusinessMinute(rows[t].dueAt - 1, BusinessZone)
    /\ BusinessMinutesBetween(now, rows[t].dueAt, MonitorZone)
         = Counted(now, rows[t].dueAt, MonitorZone)

\* US-35: each ticket is reported at most once of each kind, whatever scans overlap, die
\* or are rolled back, and what is in the journal is what the marks say.
ReportedOnce ==
  \A t \in Tickets : Created(t) =>
    /\ \A i, j \in DOMAIN events[t] : events[t][i] = events[t][j] => i = j
    /\ rows[t].warnedAt # None <=> \E i \in DOMAIN events[t] : events[t][i] = "SLA_AT_RISK"
    /\ rows[t].breachedAt # None <=> \E i \in DOMAIN events[t] : events[t][i] = "SLA_BREACHED"

\* A ticket that is marked late was reported to every admin: the deduplication of
\* notify never swallows a report of the monitor.
AdminsToldOfBreach ==
  \A t \in Tickets : Created(t) /\ rows[t].breachedAt # None =>
    \A u \in Admins : \E n \in notices :
      n.user = u /\ n.type = "SLA_BREACHED" /\ n.ticket = t

\* A mark is true when it is made: the ticket is open and late by the due date it has then,
\* or in the last quarter of its business time, counted minute by minute; whatever was
\* changed while the scan was open.
MarksAreDue ==
  [][\A t \in Tickets : Created(t) =>
       /\ rows'[t].breachedAt # rows[t].breachedAt => rows[t].open /\ rows[t].dueAt < now
       /\ rows'[t].warnedAt # rows[t].warnedAt =>
            /\ rows[t].open
            /\ 4 * Counted(now, rows[t].dueAt, MonitorZone)
                 <= Counted(rows[t].createdAt, rows[t].dueAt, MonitorZone)]_vars

Unreported(t) ==
  Created(t) /\ rows[t].open /\ rows[t].dueAt < now /\ rows[t].breachedAt = None

\* As many late tickets as a scan takes are due no later than t and were never warned: they
\* stay candidates, of which there is nothing more to say, for as long as they are open.
Crowded(t) ==
  Cardinality({r \in Tickets \ {t} :
      /\ Created(r) /\ rows[r].open
      /\ rows[r].breachedAt # None /\ rows[r].warnedAt = None
      /\ rows[r].dueAt <= rows[t].dueAt}) >= deployment.batchSize

\* US-35: a late ticket gets reported, also after an outage of the job, unless it is
\* resolved or given more time, or is crowded out of the batch.  config.py:141-143 says that
\* what a batch leaves waits for the next one only, with no such exception.
EveryBreachReported == \A t \in Tickets : Unreported(t) ~> ~Unreported(t) \/ Crowded(t)
=============================================================================
