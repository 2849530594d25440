-------------------------- MODULE TicketLifecycle ---------------------------
(***************************************************************************)
(* TicketService under concurrent requests.  A request runs as the code    *)
(* does: _load reads the row, _check_version and the guards of the         *)
(* operation look at what was read, and commit() writes later.  Between    *)
(* the two anything may happen to the row.  What stands between an old     *)
(* reading and the database is version_id_col: an UPDATE whose WHERE       *)
(* version = old finds no row rolls the whole transaction back (409).      *)
(***************************************************************************)
EXTENDS TicketOps, FiniteSets

CONSTANTS
  Tickets,                 \* the ticket ids that may be created
  MaxVersion,              \* bound: no request is started on a newer row
  MaxDay,                  \* bound on the clock
  MaxInFlight              \* bound on concurrent requests

VARIABLES
  rows,      \* the tickets table; None where no ticket has been created
  journal,   \* what a replay of the ticket_events of each ticket gives
  tx,        \* the open transaction of each user, None if there is none
  job,       \* the open transaction of the auto-close job, None if none
  today

vars == <<rows, journal, tx, job, today>>

Created(t) == rows[t] # None

(***************************************************************************)
(* The journal replayed: per field the last new value, or Broken as soon   *)
(* as an event's old value is not the one the replay has reached; and      *)
(* whether a person has classified the ticket (_nguoi_da_phan_loai).       *)
(***************************************************************************)
Broken == "BROKEN"

ReplayField(value, e) ==
  IF e = Silent THEN value ELSE IF e.old = value THEN e.new ELSE Broken

Replay(j, events, byUser) ==
  [status   |-> ReplayField(j.status, events.status),
   assignee |-> ReplayField(j.assignee, events.assignee),
   category |-> ReplayField(j.category, events.category),
   priority |-> ReplayField(j.priority, events.priority),
   human    |-> j.human \/ (byUser /\ (events.category # Silent \/ events.priority # Silent))]

FirstJournal(row) ==
  [status |-> row.status, assignee |-> row.assignee, category |-> row.category,
   priority |-> row.priority, human |-> FALSE]

-----------------------------------------------------------------------------
(***************************************************************************)
(* The database side of every write.                                       *)
(***************************************************************************)
\* The UPDATE of version_id_col: version + 1.  (A transaction that flushes twice adds 2:
\* the number here counts the transactions that wrote, which is all that is compared.)
Bump(row) == [row EXCEPT !.version = @ + 1]

\* Mutant of Succeeds: the UPDATE does not compare versions.
SucceedsUnversioned(t, x) == x.dirty => CheckConstraints(x.new)

\* commit() of this outcome on this ticket succeeds: nothing to update, or the
\* version is the one that was read and the CHECK constraints hold.
Succeeds(t, x) ==
  x.dirty => /\ rows[t].version = x.base.version
             /\ CheckConstraints(x.new)

InFlight == {u \in Users : tx[u] # None}

\* A request of u, sent with this version, was accepted with outcome x: it is
\* not committed yet.
Begin(u, t, sent, x) ==
  /\ tx[u] = None
  /\ Cardinality(InFlight) < MaxInFlight
  /\ rows[t].version < MaxVersion
  /\ tx' = [tx EXCEPT ![u] = [ticket |-> t, sent |-> sent, day |-> today, outcome |-> x]]
  /\ UNCHANGED <<rows, journal, job, today>>

\* The client sends the version its page shows, which may be any it once saw.
VersionsSeen(t) == 1..rows[t].version

\* Mutant of CheckVersion: the version of the request is ignored.
CheckVersionSkipped(t, sent) == TRUE

\* _check_version.
CheckVersion(t, sent) == sent = rows[t].version

-----------------------------------------------------------------------------
(***************************************************************************)
(* Requests.                                                               *)
(***************************************************************************)
\* POST /tickets: one INSERT, no row to race for.
Create(u, t) ==
  /\ ~Created(t)
  /\ tx[u] = None
  /\ \E c \in OrNone(Categories), p \in OrNone(Priorities) :
       /\ rows' = [rows EXCEPT ![t] = NewTicket(u, c, p)]
       /\ journal' = [journal EXCEPT ![t] = FirstJournal(NewTicket(u, c, p))]
  /\ UNCHANGED <<tx, job, today>>

Update(u, t) ==
  /\ Created(t)
  /\ \E sent \in VersionsSeen(t), x \in Updates(u, rows[t]) :
       CheckVersion(t, sent) /\ Begin(u, t, sent, x)

Claim(u, t) ==
  /\ Created(t)
  /\ \E sent \in VersionsSeen(t), x \in Claims(u, rows[t]) :
       CheckVersion(t, sent) /\ Begin(u, t, sent, x)

Assign(u, t) ==
  /\ Created(t)
  /\ \E sent \in VersionsSeen(t), x \in Assigns(u, rows[t]) :
       CheckVersion(t, sent) /\ Begin(u, t, sent, x)

ChangeStatus(u, t) ==
  /\ Created(t)
  /\ \E sent \in VersionsSeen(t), x \in StatusChanges(u, today, rows[t]) :
       CheckVersion(t, sent) /\ Begin(u, t, sent, x)

\* Commenting asks for no version.
AddComment(u, t) ==
  /\ Created(t)
  /\ \E x \in Comments(u, today, rows[t]) : Begin(u, t, None, x)

Commit(u) ==
  /\ tx[u] # None
  /\ LET t == tx[u].ticket
         x == tx[u].outcome
     IN  /\ Succeeds(t, x)
         /\ rows' = IF x.dirty THEN [rows EXCEPT ![t] = Bump(x.new)] ELSE rows
         /\ journal' = [journal EXCEPT ![t] = Replay(@, x.events, TRUE)]
  /\ tx' = [tx EXCEPT ![u] = None]
  /\ UNCHANGED <<job, today>>

\* 409 from StaleDataError, 500 from a CHECK constraint, or the process or its
\* connection dies: nothing of the transaction stays.
Rollback(u) ==
  /\ tx[u] # None
  /\ tx' = [tx EXCEPT ![u] = None]
  /\ UNCHANGED <<rows, journal, job, today>>

-----------------------------------------------------------------------------
(***************************************************************************)
(* The worker and the beat.                                                *)
(***************************************************************************)
\* apply_ai_classification and the record of it: SELECT ... FOR UPDATE holds
\* the row from the check to the commit, so the two are one step.
ApplyAiClassification(t) ==
  /\ Created(t)
  /\ rows[t].aiStatus = "PENDING"
  /\ \E c \in Categories, p \in Priorities :
       LET x == AiOutcome(rows[t], journal[t].human, c, p)
       IN  /\ rows' = [rows EXCEPT ![t] = Bump(x.new)]
           /\ journal' = [journal EXCEPT ![t] = Replay(@, x.events, FALSE)]
  /\ UNCHANGED <<tx, job, today>>

\* mark_ai_status, under the same lock.
MarkAiStatus(t) ==
  /\ Created(t)
  /\ rows[t].aiStatus = "PENDING"
  /\ \E s \in {"LOW_CONFIDENCE", "FAILED"} :
       rows' = [rows EXCEPT ![t] = Bump([@ EXCEPT !.aiStatus = s])]
  /\ UNCHANGED <<journal, tx, job, today>>

\* auto_close_resolved reads its whole batch without a lock ...
AutoCloseLoad ==
  LET due == {t \in Tickets : Created(t) /\ DueForAutoClose(today, rows[t])}
  IN  /\ job = None
      /\ due # {}
      /\ job' = [t \in due |-> AutoClosed(today, rows[t])]
      /\ UNCHANGED <<rows, journal, tx, today>>

\* ... and writes it in one transaction,
AutoCloseCommit ==
  /\ job # None
  /\ \A t \in DOMAIN job : Succeeds(t, job[t])
  /\ rows' = [t \in Tickets |-> IF t \in DOMAIN job THEN Bump(job[t].new) ELSE rows[t]]
  /\ journal' = [t \in Tickets |-> IF t \in DOMAIN job
                                     THEN Replay(journal[t], job[t].events, FALSE)
                                     ELSE journal[t]]
  /\ job' = None
  /\ UNCHANGED <<tx, today>>

\* of which nothing stays when one ticket was changed meanwhile, or the worker dies.
AutoCloseRollback ==
  /\ job # None
  /\ job' = None
  /\ UNCHANGED <<rows, journal, tx, today>>

NextDay ==
  /\ today < MaxDay
  /\ today' = today + 1
  /\ UNCHANGED <<rows, journal, tx, job>>

-----------------------------------------------------------------------------
Init ==
  /\ rows = [t \in Tickets |-> None]
  /\ journal = [t \in Tickets |-> None]
  /\ tx = [u \in Users |-> None]
  /\ job = None
  /\ today = 0

Request(u, t) ==
  \/ Create(u, t)
  \/ Update(u, t)
  \/ Claim(u, t)
  \/ Assign(u, t)
  \/ ChangeStatus(u, t)
  \/ AddComment(u, t)

Next ==
  \/ \E u \in Users, t \in Tickets : Request(u, t)
  \/ \E u \in Users : Commit(u) \/ Rollback(u)
  \/ \E t \in Tickets : ApplyAiClassification(t) \/ MarkAiStatus(t)
  \/ AutoCloseLoad \/ AutoCloseCommit \/ AutoCloseRollback
  \/ NextDay

Spec == Init /\ [][Next]_vars

-----------------------------------------------------------------------------
(***************************************************************************)
(* Properties.                                                             *)
(***************************************************************************)
Journal == [status : OrNone(TicketStatus) \cup {Broken}, assignee : OrNone(Users) \cup {Broken},
            category : OrNone(Categories) \cup {Broken},
            priority : OrNone(Priorities) \cup {Broken}, human : BOOLEAN]

ASSUME NullJournalAssumption == None \notin Journal

\* Types of the table, the journal and the open transactions.
TypeOK ==
  /\ rows \in [Tickets -> OrNone(Row)]
  /\ journal \in [Tickets -> OrNone(Journal)]
  /\ \A t \in Tickets : Created(t) <=> journal[t] # None
  /\ tx \in [Users -> OrNone([ticket : Tickets, sent : OrNone(Nat), day : Nat, outcome : OutcomeType])]
  /\ job = None \/ (DOMAIN job \subseteq Tickets /\ \A t \in DOMAIN job : job[t] \in OutcomeType)
  /\ today \in Nat

\* The row is one the table's CHECK constraints and the reports can live with:
\* the constraints hold; resolved_at is set exactly while the ticket counts as
\* handled (a reopened ticket must leave the average handling time, US-38),
\* closed_at exactly when it is closed; and the SLA dates are those of the
\* priority the row shows (_apply_sla after every change of priority).
RowConsistent(row) ==
  /\ CheckConstraints(row)
  /\ row.resolvedAt # None <=> row.status \in {"RESOLVED", "CLOSED"}
  /\ row.closedAt # None <=> row.status = "CLOSED"
  /\ row.slaFor = row.priority

\* Every row, whatever requests, classifier and auto-close interleave.
RowsConsistent == \A t \in Tickets : Created(t) => RowConsistent(rows[t])

\* ticket_events is "the source of truth for the history" (models.py): replaying
\* the journal never meets an event whose old value is not the value reached, and
\* it ends at the status, category and priority that the row holds.
JournalExplainsRow ==
  \A t \in Tickets : Created(t) =>
    /\ journal[t].status = rows[t].status
    /\ journal[t].category = rows[t].category
    /\ journal[t].priority = rows[t].priority

\* A transaction that read the current version read the current row: the version
\* number stands for the whole content, whoever writes (the AI and the auto-close
\* job included).
VersionDeterminesRow ==
  /\ \A u \in Users : tx[u] # None =>
       LET t == tx[u].ticket
           base == tx[u].outcome.base
       IN  /\ base.version <= rows[t].version
           /\ base.version = rows[t].version => base = rows[t]
  /\ job # None => \A t \in DOMAIN job :
       /\ job[t].base.version <= rows[t].version
       /\ job[t].base.version = rows[t].version => job[t].base = rows[t]

\* u's transaction on t ends in this step with its effect kept.
Commits(u, t) ==
  /\ tx[u] # None /\ tx'[u] = None /\ tx[u].ticket = t
  /\ rows'[t] # rows[t]

\* No lost update (BR-16): a request changes a row only if the row it was computed
\* from is the row it replaces, and - comments aside, which send no version - only
\* if that is the row the user had on the screen.
NoLostUpdate ==
  [][\A u \in Users, t \in Tickets : Commits(u, t) =>
       LET x == tx[u].outcome
       IN  /\ x.base = rows[t]
           /\ tx[u].sent \in {None, rows[t].version}
     ]_vars

\* BR-03: every change of status is one the table allows, from the status that the
\* row really had and for the person who made it; the system only closes.
OnlyAllowedTransitions ==
  [][\A t \in Tickets : Created(t) /\ rows'[t].status # rows[t].status =>
       \/ \E u \in Users : /\ Commits(u, t)
                           /\ GetRule(rows[t].status, rows'[t].status, Role[u]) # {}
       \/ /\ job # None /\ job' = None
          /\ rows[t].status = "RESOLVED" /\ rows'[t].status = "CLOSED"
     ]_vars

\* BR-05: the moment of the first response is written once and is an answer of
\* somebody else than the requester, even when two agents answer at once.
FirstResponseOnce ==
  [][\A t \in Tickets : Created(t) /\ rows'[t].firstResponseAt # rows[t].firstResponseAt =>
       /\ rows[t].firstResponseAt = None
       /\ \E u \in Users : Commits(u, t) /\ u # rows[t].requester
     ]_vars

\* What apply_ai_classification gives of BR-13: only a person's request changes the
\* category and the priority of a ticket that has a category, whoever chose it, or of which
\* a person has changed one of the two - also while the LLM was still thinking.  A priority
\* given at creation without a category is no such change: the AI replaces it.
AiLeavesClassified ==
  [][\A t \in Tickets :
       /\ Created(t)
       /\ rows[t].category # None \/ journal[t].human
       /\ <<rows'[t].category, rows'[t].priority>> # <<rows[t].category, rows[t].priority>>
       => \E u \in Users : Commits(u, t)
     ]_vars

\* The auto-close job closes only tickets that are due at the moment it commits: not
\* one that was reopened, or reopened and resolved again, after the job read it.
AutoCloseOnlyDue ==
  [][job # None /\ job' = None =>
       \A t \in DOMAIN job : rows'[t] # rows[t] => DueForAutoClose(today, rows[t])
     ]_vars

\* The optimistic transactions implement the atomic operations: whatever interleaves,
\* the tickets table changes as if the operations had run one at a time.
Atomic == INSTANCE AtomicTickets
            WITH human <- [t \in Tickets |-> journal[t] # None /\ journal[t].human]
AtomicSpec == Atomic!Spec

\* Two agents who press "claim" at once: a claim never takes a ticket from somebody.
ClaimTakesNothing ==
  [][\A u \in Users, t \in Tickets :
       /\ Commits(u, t)
       /\ tx[u].outcome.base.assignee = None /\ tx[u].outcome.new.assignee = u
       => rows[t].assignee = None
     ]_vars
=============================================================================
