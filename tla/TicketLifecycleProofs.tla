----------------------- MODULE TicketLifecycleProofs ------------------------
(***************************************************************************)
(* Theorems of TicketLifecycle for every set of users, roles, tickets,     *)
(* categories and priorities and every bound.                              *)
(***************************************************************************)
EXTENDS TicketLifecycle, TLAPS

(***************************************************************************)
(* What an operation does to the row it loaded.                            *)
(***************************************************************************)
\* An operation keeps the row it was given as its base and yields a typed outcome.
LEMMA EditType ==
  ASSUME NEW u \in Users, NEW d \in Nat, NEW row \in Row, NEW x \in Edits(u, d, row)
  PROVE  x \in OutcomeType /\ x.base = row
<1>1. CASE x \in Updates(u, row)
  <2>1. PICK q \in UpdateTicketRequest :
               x = Outcome(row, Updated(row, q), TRUE, UpdateEvents(row, q))
    BY <1>1 DEF Updates
  <2>2. q.category \in OrNone(Categories) /\ q.priority \in OrNone(Priorities)
    BY DEF UpdateTicketRequest
  <2>3. Updated(row, q) \in Row
    <3>1. IF Reclassifies(row, q) THEN q.category \in OrNone(Categories) ELSE TRUE
      BY <2>2
    <3>2. IF Reprioritises(row, q) THEN q.priority \in Priorities ELSE TRUE
      BY <2>2 DEF Reprioritises, OrNone
    <3> QED BY <3>1, <3>2 DEF Updated, Row
  <2>4. UpdateEvents(row, q) \in Events
    BY <2>2 DEF UpdateEvents, Events, Row, Quiet, Silent, Change, OrNone
  <2> QED BY <2>1, <2>3, <2>4 DEF Outcome, OutcomeType
<1>2. ASSUME NEW a \in Users, x = DoAssign(row, a)
      PROVE  x \in OutcomeType /\ x.base = row
  <2> DEFINE new == [row EXCEPT !.assignee = a, !.status = "ASSIGNED"]
  <2>1. new \in Row
    BY DEF Row, OrNone, TicketStatus
  <2>2. x.events \in Events
    BY <1>2 DEF DoAssign, Outcome, Events, Row, Quiet, Silent, Change, OrNone, TicketStatus
  <2>3. x.dirty \in BOOLEAN
        /\ x = [base |-> row, new |-> new, dirty |-> x.dirty, events |-> x.events]
    BY <1>2 DEF DoAssign, Outcome
  <2> HIDE DEF new
  <2> QED BY <2>1, <2>2, <2>3 DEF OutcomeType
<1>3. CASE x \in Claims(u, row) \cup Assigns(u, row)
  BY <1>2, <1>3 DEF Claims, Assigns
<1>4. CASE x \in StatusChanges(u, d, row)
  <2>1. PICK q \in ChangeStatusRequest :
          x = Outcome(row, StatusChanged(u, d, row, q), TRUE,
                      [Quiet EXCEPT !.status = Change(row.status, q.status)])
    BY <1>4 DEF StatusChanges
  <2>2. q.status \in TicketStatus /\ NoteAfter(row, q) \in BOOLEAN
    BY DEF ChangeStatusRequest, NoteAfter, Row
  <2>3. FirstResponse(u, d, row) \in OrNone(Nat)
    BY DEF FirstResponse, Row, OrNone
  <2>4. ResolvedAtAfter(d, row, q.status) \in OrNone(Nat)
    BY DEF ResolvedAtAfter, Row, OrNone
  <2>5. StatusChanged(u, d, row, q) \in Row
    <3>1. ASSUME NEW s \in TicketStatus, NEW n \in BOOLEAN, NEW r \in OrNone(Nat),
                 NEW c \in OrNone(Nat), NEW f \in OrNone(Nat)
          PROVE  [row EXCEPT !.status = s, !.longNote = n, !.resolvedAt = r,
                             !.closedAt = c, !.firstResponseAt = f] \in Row
      BY DEF Row
    <3>2. (IF q.status = "CLOSED" THEN d ELSE row.closedAt) \in OrNone(Nat)
      BY DEF Row, OrNone
    <3> QED BY <2>2, <2>3, <2>4, <3>1, <3>2 DEF StatusChanged
  <2>6. [Quiet EXCEPT !.status = Change(row.status, q.status)] \in Events
    BY <2>2 DEF Events, Row, Quiet, Silent, Change, OrNone
  <2> QED BY <2>1, <2>5, <2>6 DEF Outcome, OutcomeType
<1>5. CASE x \in Comments(u, d, row)
  <2>1. PICK i \in BOOLEAN : x = Commented(u, d, row, i)
    BY <1>5 DEF Comments
  <2>2. FirstResponse(u, d, row) \in OrNone(Nat)
    BY DEF FirstResponse, Row, OrNone
  <2>3. [row EXCEPT !.firstResponseAt = FirstResponse(u, d, row)] \in Row
    BY <2>2 DEF Row
  <2>4. x.new \in Row /\ x.base = row /\ x.events = Quiet /\ x.dirty \in BOOLEAN
        /\ x = [base |-> x.base, new |-> x.new, dirty |-> x.dirty, events |-> x.events]
    BY <2>1, <2>3 DEF Commented, Outcome
  <2>5. Quiet \in Events
    BY DEF Quiet, Events, Silent, Change, OrNone
  <2> QED BY <2>4, <2>5 DEF OutcomeType
<1> QED BY <1>1, <1>3, <1>4, <1>5 DEF Edits

\* What the rule table says of every step it allows: nothing leaves CLOSED or
\* CANCELLED, nothing returns to NEW, only RESOLVED becomes CLOSED, and RESOLVED
\* goes nowhere but to IN_PROGRESS and CLOSED.
LEMMA TableShape ==
  ASSUME NEW from, NEW to, NEW role, GetRule(from, to, role) # {}
  PROVE  /\ from \notin TerminalStatus
         /\ to # "NEW"
         /\ to = "CLOSED" => from = "RESOLVED"
         /\ from = "RESOLVED" => to \in {"IN_PROGRESS", "CLOSED"}
<1>1. PICK r \in ALLOWED : r.from = from /\ r.to = to
  BY DEF GetRule
<1>2. \A s, t, roles, who : /\ TransitionRule(s, t, roles, who).from = s
                            /\ TransitionRule(s, t, roles, who).to = t
  BY DEF TransitionRule
<1>3. \/ r.from \in {"NEW", "ASSIGNED", "IN_PROGRESS", "PENDING_REQUESTER"}
         /\ r.to \notin {"NEW", "CLOSED"}
      \/ r.from = "RESOLVED" /\ r.to \in {"IN_PROGRESS", "CLOSED"}
  BY <1>2, SMTT(30) DEF ALLOWED
<1> QED BY <1>1, <1>3 DEF TerminalStatus

\* An operation that passes the CHECK constraints leaves a consistent row.
LEMMA EditConsistent ==
  ASSUME NEW u \in Users, NEW d \in Nat, NEW row \in Row, NEW x \in Edits(u, d, row),
         RowConsistent(row), CheckConstraints(x.new)
  PROVE  RowConsistent(x.new)
<1>1. CASE x \in Updates(u, row)
  <2>1. PICK q \in UpdateTicketRequest : x.new = Updated(row, q)
    BY <1>1 DEF Updates, Outcome
  <2>2. /\ x.new.status = row.status /\ x.new.resolvedAt = row.resolvedAt
        /\ x.new.closedAt = row.closedAt /\ x.new.slaFor = x.new.priority
    BY <2>1 DEF Updated, Row, RowConsistent
  <2> QED BY <2>2 DEF RowConsistent
<1>2. CASE x \in Claims(u, row) \cup Assigns(u, row)
  <2>1. PICK a \in Users : x = DoAssign(row, a)
    BY <1>2 DEF Claims, Assigns
  <2>2. row.status \notin {"RESOLVED", "CLOSED"}
    BY <1>2, TableShape DEF Claims, Assigns, CanMoveToAssigned, TerminalStatus
  <2>3. x.new.status = "ASSIGNED" /\ x.new.resolvedAt = row.resolvedAt
        /\ x.new.closedAt = row.closedAt /\ x.new.slaFor = row.slaFor
        /\ x.new.priority = row.priority
    BY <2>1 DEF DoAssign, Outcome, Row
  <2> QED BY <2>2, <2>3 DEF RowConsistent
<1>3. CASE x \in StatusChanges(u, d, row)
  <2>1. PICK q \in ChangeStatusRequest :
          CanChangeStatus(u, d, row, q) /\ x.new = StatusChanged(u, d, row, q)
    BY <1>3 DEF StatusChanges, Outcome
  <2>2. GetRule(row.status, q.status, Role[u]) # {} /\ row.status # q.status
    BY <2>1 DEF CanChangeStatus, Validate
  <2>3. /\ row.status \notin TerminalStatus
        /\ q.status = "CLOSED" => row.status = "RESOLVED"
        /\ row.status = "RESOLVED" => q.status \in {"IN_PROGRESS", "CLOSED"}
    BY <2>2, TableShape
  <2>4. /\ x.new.status = q.status
        /\ x.new.resolvedAt = ResolvedAtAfter(d, row, q.status)
        /\ x.new.closedAt = IF q.status = "CLOSED" THEN d ELSE row.closedAt
        /\ x.new.slaFor = row.slaFor /\ x.new.priority = row.priority
    BY <2>1 DEF StatusChanged, Row
  <2>5. d # None
    BY NoneAssumption
  <2>6. x.new.resolvedAt # None <=> q.status \in {"RESOLVED", "CLOSED"}
    BY <2>2, <2>3, <2>4, <2>5 DEF ResolvedAtAfter, RowConsistent, TerminalStatus
  <2>7. x.new.closedAt # None <=> q.status = "CLOSED"
    BY <2>3, <2>4, <2>5 DEF RowConsistent, TerminalStatus
  <2> QED BY <2>4, <2>6, <2>7 DEF RowConsistent
<1>4. CASE x \in Comments(u, d, row)
  <2>1. /\ x.new.status = row.status /\ x.new.resolvedAt = row.resolvedAt
        /\ x.new.closedAt = row.closedAt /\ x.new.slaFor = row.slaFor
        /\ x.new.priority = row.priority
    BY <1>4 DEF Comments, Commented, Outcome, Row
  <2> QED BY <2>1 DEF RowConsistent
<1> QED BY <1>1, <1>2, <1>3, <1>4 DEF Edits

\* The events of an operation lead from the row it loaded to the row it writes;
\* when it writes no row, they leave status, category and priority alone.
LEMMA EditJournal ==
  ASSUME NEW u \in Users, NEW d \in Nat, NEW row \in Row, NEW x \in Edits(u, d, row)
  PROVE  /\ ReplayField(row.status, x.events.status) = x.new.status
         /\ ReplayField(row.category, x.events.category) = x.new.category
         /\ ReplayField(row.priority, x.events.priority) = x.new.priority
         /\ ~x.dirty => /\ x.events.status = Silent
                        /\ x.events.category = Silent
                        /\ x.events.priority = Silent
<1>1. CASE x \in Updates(u, row)
  <2>1. PICK q \in UpdateTicketRequest :
               x = Outcome(row, Updated(row, q), TRUE, UpdateEvents(row, q))
    BY <1>1 DEF Updates
  <2>2. /\ x.dirty
        /\ x.events.status = Silent /\ x.new.status = row.status
        /\ x.events.category = IF Reclassifies(row, q) THEN Change(row.category, q.category)
                                                       ELSE Silent
        /\ x.new.category = IF Reclassifies(row, q) THEN q.category ELSE row.category
        /\ x.events.priority = IF Reprioritises(row, q) THEN Change(row.priority, q.priority)
                                                        ELSE Silent
        /\ x.new.priority = IF Reprioritises(row, q) THEN q.priority ELSE row.priority
    BY <2>1 DEF Outcome, Updated, UpdateEvents, Quiet, Row
  <2> QED BY <2>2 DEF ReplayField, Change, Silent, Reclassifies, Reprioritises
<1>2. CASE x \in Claims(u, row) \cup Assigns(u, row)
  <2>1. PICK a \in Users : x = DoAssign(row, a)
    BY <1>2 DEF Claims, Assigns
  <2>2. /\ x.new.status = "ASSIGNED" /\ x.new.category = row.category
        /\ x.new.priority = row.priority
        /\ x.events.category = Silent /\ x.events.priority = Silent
        /\ x.events.status = IF row.status # "ASSIGNED" THEN Change(row.status, "ASSIGNED")
                                                        ELSE Silent
        /\ ~x.dirty => row.status = "ASSIGNED"
    BY <2>1 DEF DoAssign, Outcome, Quiet, Row
  <2>3. None # "ASSIGNED"
    BY NoneAssumption DEF TicketStatus
  <2> QED BY <2>2, <2>3 DEF ReplayField, Change, Silent
<1>3. CASE x \in StatusChanges(u, d, row)
  <2>1. PICK q \in ChangeStatusRequest :
          x = Outcome(row, StatusChanged(u, d, row, q), TRUE,
                      [Quiet EXCEPT !.status = Change(row.status, q.status)])
    BY <1>3 DEF StatusChanges
  <2>2. q.status # None
    BY NoneAssumption DEF ChangeStatusRequest
  <2>3. /\ x.dirty
        /\ x.new.status = q.status /\ x.new.category = row.category
        /\ x.new.priority = row.priority
        /\ x.events.category = Silent /\ x.events.priority = Silent
        /\ x.events.status = Change(row.status, q.status)
    BY <2>1 DEF Outcome, StatusChanged, Quiet, Row
  <2> QED BY <2>2, <2>3 DEF ReplayField, Change, Silent
<1>4. CASE x \in Comments(u, d, row)
  BY <1>4 DEF Comments, Commented, Outcome, Row, ReplayField, Quiet
<1> QED BY <1>1, <1>2, <1>3, <1>4 DEF Edits

\* The version is the database's business, not the operation's.
LEMMA EditVersion ==
  ASSUME NEW u \in Users, NEW d \in Nat, NEW row \in Row, NEW x \in Edits(u, d, row)
  PROVE  x.new.version = row.version
<1>1. CASE x \in Updates(u, row)
  <2>1. PICK q \in UpdateTicketRequest : x.new = Updated(row, q)
    BY <1>1 DEF Updates, Outcome
  <2> QED BY <2>1 DEF Updated, Row
<1>2. CASE x \in Claims(u, row) \cup Assigns(u, row)
  <2>1. PICK a \in Users : x = DoAssign(row, a)
    BY <1>2 DEF Claims, Assigns
  <2> QED BY <2>1 DEF DoAssign, Outcome, Row
<1>3. CASE x \in StatusChanges(u, d, row)
  <2>1. PICK q \in ChangeStatusRequest : x.new = StatusChanged(u, d, row, q)
    BY <1>3 DEF StatusChanges, Outcome
  <2> QED BY <2>1 DEF StatusChanged, Row
<1>4. CASE x \in Comments(u, d, row)
  BY <1>4 DEF Comments, Commented, Outcome, Row
<1> QED BY <1>1, <1>2, <1>3, <1>4 DEF Edits

LEMMA BumpRow ==
  ASSUME NEW row \in Row
  PROVE  /\ Bump(row) \in Row
         /\ Bump(row).version = row.version + 1
         /\ RowConsistent(row) => RowConsistent(Bump(row))
         /\ Bump(row).status = row.status /\ Bump(row).category = row.category
         /\ Bump(row).priority = row.priority
BY DEF Bump, Row, RowConsistent, CheckConstraints

\* A replay by typed events is a typed journal.
LEMMA ReplayType ==
  ASSUME NEW j \in Journal, NEW e \in Events, NEW byUser \in BOOLEAN
  PROVE  Replay(j, e, byUser) \in Journal
BY DEF Replay, ReplayField, Journal, Events, Silent, Change, OrNone

\* The classifier's write, seen by every invariant.
LEMMA AiWrite ==
  ASSUME NEW row \in Row, NEW human \in BOOLEAN, NEW c \in Categories, NEW p \in Priorities,
         NEW x, x = AiOutcome(row, human, c, p)
  PROVE  /\ x.new \in Row /\ x.events \in Events
         /\ x.new.version = row.version
         /\ RowConsistent(row) => RowConsistent(x.new)
         /\ ReplayField(row.status, x.events.status) = x.new.status
         /\ ReplayField(row.category, x.events.category) = x.new.category
         /\ ReplayField(row.priority, x.events.priority) = x.new.priority
<1>1. CASE row.category # None \/ human
  <2>1. x = Outcome(row, [row EXCEPT !.aiStatus = "SKIPPED"], TRUE, Quiet)
    BY <1>1 DEF AiOutcome
  <2> QED BY <2>1 DEF Outcome, Row, AiStatus, Events, Quiet, Silent, Change, OrNone,
                      RowConsistent, CheckConstraints, ReplayField
<1>2. CASE row.category = None /\ ~human
  <2> DEFINE new == [row EXCEPT !.category = c, !.priority = p, !.slaFor = p,
                                !.aiStatus = "APPLIED"]
  <2>1. x.new = new
        /\ x.events = [Quiet EXCEPT
              !.category = Change(None, c),
              !.priority = IF row.priority # p THEN Change(row.priority, p) ELSE @]
    BY <1>2 DEF AiOutcome, Outcome
  <2>2. x.events.status = Silent /\ x.events.category = Change(None, c)
        /\ x.events.priority = IF row.priority # p THEN Change(row.priority, p) ELSE Silent
    BY <2>1 DEF Quiet
  <2>3. x.events \in Events
    <3>1. /\ Change(None, c) \in [old : OrNone(Categories), new : OrNone(Categories)]
          /\ Silent \in [old : OrNone(TicketStatus), new : OrNone(TicketStatus)]
          /\ Silent \in [old : OrNone(Users), new : OrNone(Users)]
          /\ Silent \in [old : OrNone(Priorities), new : OrNone(Priorities)]
          /\ Change(row.priority, p) \in [old : OrNone(Priorities), new : OrNone(Priorities)]
      BY DEF Silent, Change, OrNone, Row
    <3>2. x.events = [status |-> Silent, assignee |-> Silent, category |-> Change(None, c),
                      priority |-> x.events.priority]
      BY <2>1 DEF Quiet
    <3>3. x.events.priority \in [old : OrNone(Priorities), new : OrNone(Priorities)]
      BY <2>2, <3>1
    <3> QED BY <3>1, <3>2, <3>3 DEF Events
  <2>4. new \in Row /\ new.version = row.version /\ new.status = row.status
        /\ new.category = c /\ new.priority = p
    BY DEF Row, AiStatus, OrNone
  <2>5. RowConsistent(row) => RowConsistent(new)
    BY DEF Row, RowConsistent, CheckConstraints
  <2>6. c # None /\ p # None
    BY NoneAssumption
  <2> HIDE DEF new
  <2>7. ReplayField(row.category, x.events.category) = c
    BY <1>2, <2>2, <2>6 DEF ReplayField, Silent, Change
  <2>8. ReplayField(row.priority, x.events.priority) = p
    BY <2>2, <2>6 DEF ReplayField, Silent, Change
  <2>9. ReplayField(row.status, x.events.status) = row.status
    BY <2>2 DEF ReplayField
  <2> QED BY <2>1, <2>3, <2>4, <2>5, <2>7, <2>8, <2>9
<1> QED BY <1>1, <1>2

\* The auto-close job's write.
LEMMA AutoCloseWrite ==
  ASSUME NEW row \in Row, NEW d \in Nat, DueForAutoClose(d, row), RowConsistent(row),
         NEW x, x = AutoClosed(d, row)
  PROVE  /\ x \in OutcomeType /\ x.base = row /\ x.dirty
         /\ x.new.version = row.version
         /\ RowConsistent(x.new)
         /\ ReplayField(row.status, x.events.status) = x.new.status
         /\ x.new.category = row.category /\ x.events.category = Silent
         /\ x.new.priority = row.priority /\ x.events.priority = Silent
<1> DEFINE new == [row EXCEPT !.status = "CLOSED", !.closedAt = d]
<1>1. x = [base |-> row, new |-> new, dirty |-> TRUE, events |-> x.events]
      /\ x.events = [Quiet EXCEPT !.status = Change("RESOLVED", "CLOSED")]
  BY DEF AutoClosed, Outcome
<1>2. x.events \in Events
  BY <1>1 DEF Quiet, Events, Silent, Change, OrNone, TicketStatus
<1>3. new \in Row /\ new.version = row.version /\ new.status = "CLOSED"
      /\ new.category = row.category /\ new.priority = row.priority
  BY DEF Row, TicketStatus, OrNone
<1>4. RowConsistent(new)
  BY NoneAssumption DEF Row, RowConsistent, CheckConstraints, DueForAutoClose
<1>5. x.events.status = Change("RESOLVED", "CLOSED")
      /\ x.events.category = Silent /\ x.events.priority = Silent
  BY <1>1 DEF Quiet
<1>6. "CLOSED" # None
  BY NoneAssumption DEF TicketStatus
<1>7. ReplayField(row.status, x.events.status) = "CLOSED"
  BY <1>5, <1>6 DEF ReplayField, Silent, Change, DueForAutoClose
<1>8. x \in OutcomeType /\ x.base = row /\ x.dirty /\ x.new = new
  <2> DEFINE ev == x.events
  <2>1. x = [base |-> row, new |-> new, dirty |-> TRUE, events |-> ev] /\ ev \in Events
    BY <1>1, <1>2
  <2> HIDE DEF new, ev
  <2> QED BY <2>1, <1>3 DEF OutcomeType
<1> HIDE DEF new
<1> QED BY <1>3, <1>4, <1>5, <1>7, <1>8

-----------------------------------------------------------------------------
(***************************************************************************)
(* The inductive invariant.  Consistency of the rows and faithfulness of   *)
(* the journal are not inductive alone: a commit writes what was computed  *)
(* from an older reading.  Pending says what an open transaction carries   *)
(* (an outcome of an operation its user may do on the row that was read),  *)
(* VersionDeterminesRow that this reading is the present row whenever the  *)
(* version check lets the commit through.                                  *)
(***************************************************************************)
Pending ==
  /\ \A u \in Users : tx[u] # None =>
       /\ Created(tx[u].ticket)
       /\ tx[u].day <= today
       /\ tx[u].outcome \in Edits(u, tx[u].day, tx[u].outcome.base)
       /\ tx[u].sent \in {None, tx[u].outcome.base.version}
  /\ job # None => \E d \in 0..today : \A t \in DOMAIN job :
       /\ Created(t)
       /\ DueForAutoClose(d, job[t].base)
       /\ job[t] = AutoClosed(d, job[t].base)

IInv == TypeOK /\ RowsConsistent /\ JournalExplainsRow /\ VersionDeterminesRow /\ Pending

Transaction == [ticket : Tickets, sent : OrNone(Nat), day : Nat, outcome : OutcomeType]

\* What the invariant says of one open transaction.
LEMMA OpenTransaction ==
  ASSUME IInv, NEW u \in Users, tx[u] # None
  PROVE  /\ tx[u] \in Transaction
         /\ tx[u].ticket \in Tickets /\ tx[u].day \in Nat
         /\ tx[u].outcome \in OutcomeType
         /\ rows[tx[u].ticket] \in Row /\ journal[tx[u].ticket] \in Journal
<1>1. tx[u] \in Transaction
  BY DEF IInv, TypeOK, OrNone, Transaction
<1>2. tx[u].ticket \in Tickets /\ tx[u].day \in Nat /\ tx[u].outcome \in OutcomeType
  BY <1>1 DEF Transaction
<1>3. Created(tx[u].ticket)
  BY DEF IInv, Pending
<1> QED BY <1>1, <1>2, <1>3 DEF IInv, TypeOK, OrNone, Created

\* Transactions that stay open keep what the invariant says of them as long as a
\* row only changes together with its version.
LEMMA Carried ==
  ASSUME IInv,
         \A t \in Tickets : Created(t) =>
            Created(t)' /\ (rows'[t] = rows[t] \/ rows[t].version < rows'[t].version),
         rows' \in [Tickets -> OrNone(Row)],
         \A u \in Users : tx'[u] \in {None, tx[u]},
         job' \in {None, job},
         today' \in Nat, today <= today'
  PROVE  VersionDeterminesRow' /\ Pending'
<1>1. ASSUME NEW t \in Tickets, NEW base \in Row, Created(t),
             base.version <= rows[t].version,
             base.version = rows[t].version => base = rows[t]
      PROVE  /\ base.version <= rows'[t].version
             /\ base.version = rows'[t].version => base = rows'[t]
  <2>1. rows[t] \in Row /\ rows'[t] \in Row
    BY <1>1 DEF IInv, TypeOK, OrNone, Created
  <2>2. rows[t].version \in Nat /\ rows'[t].version \in Nat /\ base.version \in Nat
    BY <2>1 DEF Row
  <2> QED BY <1>1, <2>2
<1>2. ASSUME NEW u \in Users, tx'[u] # None
      PROVE  /\ tx'[u] = tx[u] /\ tx[u] # None
             /\ tx[u].ticket \in Tickets /\ tx[u].day \in Nat
             /\ tx[u].outcome.base \in Row
  BY <1>2, OpenTransaction DEF OutcomeType
<1>3. ASSUME job' # None
      PROVE  /\ job' = job /\ job # None
             /\ \A t \in DOMAIN job : t \in Tickets /\ job[t].base \in Row
  BY <1>3 DEF IInv, TypeOK, OutcomeType
<1>4. VersionDeterminesRow'
  <2>1. ASSUME NEW u \in Users, tx'[u] # None
        PROVE  /\ tx'[u].outcome.base.version <= rows'[tx'[u].ticket].version
               /\ tx'[u].outcome.base.version = rows'[tx'[u].ticket].version
                    => tx'[u].outcome.base = rows'[tx'[u].ticket]
    BY <2>1, <1>1, <1>2 DEF IInv, VersionDeterminesRow, Pending
  <2>2. ASSUME job' # None, NEW t \in DOMAIN job'
        PROVE  /\ job'[t].base.version <= rows'[t].version
               /\ job'[t].base.version = rows'[t].version => job'[t].base = rows'[t]
    BY <2>2, <1>1, <1>3 DEF IInv, VersionDeterminesRow, Pending
  <2> QED BY <2>1, <2>2 DEF VersionDeterminesRow
<1>5. Pending'
  <2>1. ASSUME NEW u \in Users, tx'[u] # None
        PROVE  /\ rows'[tx'[u].ticket] # None
               /\ tx'[u].day <= today'
               /\ tx'[u].outcome \in Edits(u, tx'[u].day, tx'[u].outcome.base)
               /\ tx'[u].sent \in {None, tx'[u].outcome.base.version}
    <3>1. /\ tx'[u] = tx[u] /\ tx[u].ticket \in Tickets
          /\ Created(tx[u].ticket) /\ tx[u].day <= today
          /\ tx[u].outcome \in Edits(u, tx[u].day, tx[u].outcome.base)
          /\ tx[u].sent \in {None, tx[u].outcome.base.version}
      BY <2>1, <1>2 DEF IInv, Pending
    <3>2. tx[u].day <= today'
      BY <2>1, <1>2, <3>1 DEF IInv, TypeOK
    <3>3. rows'[tx[u].ticket] # None
      BY <3>1 DEF Created
    <3> QED BY <3>1, <3>2, <3>3
  <2>2. ASSUME job' # None
        PROVE  \E d \in 0..today' : \A t \in DOMAIN job' :
                 /\ Created(t)'
                 /\ DueForAutoClose(d, job'[t].base)
                 /\ job'[t] = AutoClosed(d, job'[t].base)
    <3>1. PICK d \in 0..today : \A t \in DOMAIN job :
                 /\ Created(t)
                 /\ DueForAutoClose(d, job[t].base)
                 /\ job[t] = AutoClosed(d, job[t].base)
      BY <2>2, <1>3 DEF IInv, Pending
    <3>2. d \in 0..today'
      BY DEF IInv, TypeOK
    <3> QED BY <2>2, <1>3, <3>1, <3>2
  <2> QED BY <2>1, <2>2 DEF Pending, Created
<1> QED BY <1>4, <1>5

\* One row and its journal are written together.
LEMMA WriteStep ==
  ASSUME IInv, NEW t \in Tickets, NEW row \in Row, NEW j \in Journal,
         RowConsistent(row),
         j.status = row.status, j.category = row.category, j.priority = row.priority,
         rows[t] = None \/ row = rows[t] \/ rows[t].version < row.version,
         rows' = [rows EXCEPT ![t] = row], journal' = [journal EXCEPT ![t] = j],
         tx' \in [Users -> OrNone(Transaction)],
         \A u \in Users : tx'[u] \in {None, tx[u]},
         job' = job, today' = today
  PROVE  IInv'
<1>1. None \notin Row /\ None \notin Journal
  BY NullRowAssumption, NullJournalAssumption
<1>2. /\ rows' \in [Tickets -> OrNone(Row)] /\ journal' \in [Tickets -> OrNone(Journal)]
      /\ rows'[t] = row /\ journal'[t] = j
      /\ \A s \in Tickets : s # t => rows'[s] = rows[s] /\ journal'[s] = journal[s]
  BY DEF IInv, TypeOK, OrNone
<1>3. TypeOK'
  <2>1. \A s \in Tickets : Created(s)' <=> journal'[s] # None
    BY <1>1, <1>2 DEF IInv, TypeOK, Created
  <2> QED BY <1>2, <2>1 DEF IInv, TypeOK, Transaction
<1>4. RowsConsistent'
  BY <1>2 DEF IInv, RowsConsistent, Created
<1>5. JournalExplainsRow'
  BY <1>2 DEF IInv, JournalExplainsRow, Created
<1>6. \A s \in Tickets : Created(s) =>
        Created(s)' /\ (rows'[s] = rows[s] \/ rows[s].version < rows'[s].version)
  BY <1>1, <1>2 DEF Created
<1>7. today \in Nat /\ today' \in Nat /\ today <= today' /\ job' \in {None, job}
  BY DEF IInv, TypeOK
<1>8. VersionDeterminesRow' /\ Pending'
  BY <1>2, <1>6, <1>7, Carried
<1> QED BY <1>3, <1>4, <1>5, <1>8 DEF IInv

\* Neither a row nor the journal is written.
LEMMA IdleStep ==
  ASSUME IInv, rows' = rows, journal' = journal,
         tx' \in [Users -> OrNone(Transaction)],
         \A u \in Users : tx'[u] \in {None, tx[u]},
         job' \in {None, job}, today' \in Nat, today <= today'
  PROVE  IInv'
<1>1. TypeOK'
  BY DEF IInv, TypeOK, Transaction, Created
<1>2. RowsConsistent' /\ JournalExplainsRow'
  BY DEF IInv, RowsConsistent, JournalExplainsRow, Created
<1>3. \A s \in Tickets : Created(s) => Created(s)' /\ rows'[s] = rows[s]
  BY DEF Created
<1>4. VersionDeterminesRow' /\ Pending'
  BY <1>3, Carried DEF IInv, TypeOK
<1> QED BY <1>1, <1>2, <1>4 DEF IInv

\* A request was read and accepted.
LEMMA BeginStep ==
  ASSUME IInv, NEW u \in Users, NEW t \in Tickets, Created(t),
         NEW sent \in {None, rows[t].version}, NEW x \in Edits(u, today, rows[t]),
         Begin(u, t, sent, x)
  PROVE  IInv'
<1>1. rows[t] \in Row /\ today \in Nat /\ rows[t].version \in Nat
  BY DEF IInv, TypeOK, OrNone, Created, Row
<1>2. x \in OutcomeType /\ x.base = rows[t]
  BY <1>1, EditType
<1> DEFINE open == [ticket |-> t, sent |-> sent, day |-> today, outcome |-> x]
<1>3. open \in Transaction
  BY <1>1, <1>2 DEF Transaction, OrNone
<1>4. /\ open.ticket = t /\ open.sent = sent /\ open.day = today /\ open.outcome = x
  OBVIOUS
<1>5. tx' = [tx EXCEPT ![u] = open] /\ rows' = rows /\ journal' = journal
      /\ job' = job /\ today' = today
  BY DEF Begin
<1> HIDE DEF open
<1>6. tx' \in [Users -> OrNone(Transaction)]
      /\ tx'[u] = open /\ \A v \in Users : v # u => tx'[v] = tx[v]
  BY <1>3, <1>5 DEF IInv, TypeOK, OrNone, Transaction
<1>7. TypeOK'
  BY <1>5, <1>6 DEF IInv, TypeOK, Created, Transaction
<1>8. RowsConsistent' /\ JournalExplainsRow'
  BY <1>5 DEF IInv, RowsConsistent, JournalExplainsRow, Created
<1>9. VersionDeterminesRow'
  <2>1. ASSUME NEW v \in Users, tx'[v] # None
        PROVE  /\ tx'[v].outcome.base.version <= rows'[tx'[v].ticket].version
               /\ tx'[v].outcome.base.version = rows'[tx'[v].ticket].version
                    => tx'[v].outcome.base = rows'[tx'[v].ticket]
    <3>1. CASE v = u
      BY <3>1, <1>1, <1>2, <1>4, <1>5, <1>6
    <3>2. CASE v # u
      BY <3>2, <2>1, <1>5, <1>6 DEF IInv, VersionDeterminesRow
    <3> QED BY <3>1, <3>2
  <2>2. job' # None => \A s \in DOMAIN job' :
          /\ job'[s].base.version <= rows'[s].version
          /\ job'[s].base.version = rows'[s].version => job'[s].base = rows'[s]
    BY <1>5 DEF IInv, VersionDeterminesRow
  <2> QED BY <2>1, <2>2 DEF VersionDeterminesRow
<1>10. Pending'
  <2>1. ASSUME NEW v \in Users, tx'[v] # None
        PROVE  /\ rows'[tx'[v].ticket] # None
               /\ tx'[v].day <= today'
               /\ tx'[v].outcome \in Edits(v, tx'[v].day, tx'[v].outcome.base)
               /\ tx'[v].sent \in {None, tx'[v].outcome.base.version}
    <3>1. CASE v = u
      BY <3>1, <1>1, <1>2, <1>4, <1>5, <1>6 DEF Created
    <3>2. CASE v # u
      BY <3>2, <2>1, <1>5, <1>6 DEF IInv, Pending, Created
    <3> QED BY <3>1, <3>2
  <2>2. job' # None => \E d \in 0..today' : \A s \in DOMAIN job' :
          /\ Created(s)'
          /\ DueForAutoClose(d, job'[s].base)
          /\ job'[s] = AutoClosed(d, job'[s].base)
    BY <1>5 DEF IInv, Pending, Created
  <2> QED BY <2>1, <2>2 DEF Pending, Created
<1> QED BY <1>7, <1>8, <1>9, <1>10 DEF IInv
-----------------------------------------------------------------------------
\* POST /tickets.
LEMMA CreateStep ==
  ASSUME IInv, NEW u \in Users, NEW t \in Tickets, Create(u, t)
  PROVE  IInv'
<1>1. PICK c \in OrNone(Categories), p \in OrNone(Priorities) :
        /\ rows' = [rows EXCEPT ![t] = NewTicket(u, c, p)]
        /\ journal' = [journal EXCEPT ![t] = FirstJournal(NewTicket(u, c, p))]
  BY DEF Create
<1>2. (IF p # None THEN p ELSE DefaultPriority[c]) \in Priorities
  BY PriorityAssumption DEF OrNone
<1> DEFINE row == NewTicket(u, c, p)
           j == FirstJournal(row)
<1>3. row \in Row /\ RowConsistent(row)
  <2>1. row \in Row
    BY <1>2 DEF NewTicket, Row, OrNone, TicketStatus, AiStatus
  <2>2. RowConsistent(row)
    BY DEF NewTicket, RowConsistent, CheckConstraints
  <2> QED BY <2>1, <2>2
<1> HIDE DEF row
<1>4. j \in Journal /\ j.status = row.status /\ j.category = row.category
      /\ j.priority = row.priority
  BY <1>3 DEF FirstJournal, Journal, Row, OrNone
<1>5. rows' = [rows EXCEPT ![t] = row] /\ journal' = [journal EXCEPT ![t] = j]
  BY <1>1 DEF row
<1>6. rows[t] = None /\ tx' = tx /\ job' = job /\ today' = today
  BY DEF Create, Created
<1>7. tx' \in [Users -> OrNone(Transaction)]
  BY <1>6 DEF IInv, TypeOK, Transaction
<1>8. \A v \in Users : tx'[v] \in {None, tx[v]}
  BY <1>6
<1> HIDE DEF j
<1> QED BY <1>3, <1>4, <1>5, <1>6, <1>7, <1>8, WriteStep

\* The commit of a request.
LEMMA CommitWrites ==
  ASSUME IInv, NEW u \in Users, Commit(u)
  PROVE  /\ tx[u] # None
         /\ tx[u].ticket \in Tickets
         /\ Created(tx[u].ticket)
         /\ tx[u].outcome \in OutcomeType
         /\ tx[u].outcome \in Edits(u, tx[u].day, tx[u].outcome.base)
         /\ tx[u].day \in 0..today
         /\ tx[u].outcome.dirty =>
              /\ tx[u].outcome.base = rows[tx[u].ticket]
              /\ CheckConstraints(tx[u].outcome.new)
              /\ tx[u].outcome.new.version = rows[tx[u].ticket].version
<1>1. tx[u] # None /\ Succeeds(tx[u].ticket, tx[u].outcome)
  BY DEF Commit
<1>2. /\ tx[u].ticket \in Tickets /\ tx[u].outcome \in OutcomeType
      /\ tx[u].day \in Nat /\ tx[u].day <= today
      /\ Created(tx[u].ticket)
      /\ tx[u].outcome \in Edits(u, tx[u].day, tx[u].outcome.base)
      /\ tx[u].outcome.base \in Row
  <2>1. tx[u].ticket \in Tickets /\ tx[u].outcome \in OutcomeType /\ tx[u].day \in Nat
    BY <1>1, OpenTransaction
  <2> QED BY <1>1, <2>1 DEF IInv, Pending, OutcomeType
<1>3. tx[u].outcome.dirty => tx[u].outcome.base = rows[tx[u].ticket]
  BY <1>1 DEF IInv, VersionDeterminesRow, Succeeds
<1>4. tx[u].outcome.new.version = tx[u].outcome.base.version
  BY <1>2, EditVersion
<1>5. tx[u].day \in 0..today
  BY <1>2 DEF IInv, TypeOK
<1> QED BY <1>1, <1>2, <1>3, <1>4, <1>5 DEF Succeeds

LEMMA CommitStep ==
  ASSUME IInv, NEW u \in Users, Commit(u)
  PROVE  IInv'
<1> DEFINE t == tx[u].ticket
           x == tx[u].outcome
           d == tx[u].day
           row == IF x.dirty THEN Bump(x.new) ELSE rows[t]
           j == Replay(journal[t], x.events, TRUE)
<1>1. /\ t \in Tickets /\ Created(t) /\ x \in OutcomeType /\ d \in Nat
      /\ x \in Edits(u, d, x.base)
      /\ x.dirty => /\ x.base = rows[t] /\ CheckConstraints(x.new)
                    /\ x.new.version = rows[t].version
  BY CommitWrites
<1>2. /\ rows' = IF x.dirty THEN [rows EXCEPT ![t] = Bump(x.new)] ELSE rows
      /\ journal' = [journal EXCEPT ![t] = j]
      /\ tx' = [tx EXCEPT ![u] = None] /\ job' = job /\ today' = today
  BY DEF Commit
<1> HIDE DEF t, x, d
<1>3. rows[t] \in Row /\ journal[t] \in Journal
  BY <1>1 DEF IInv, TypeOK, OrNone, Created
<1>4. x.base \in Row /\ x.new \in Row /\ x.dirty \in BOOLEAN /\ x.events \in Events
  BY <1>1 DEF OutcomeType
<1>5. RowConsistent(rows[t]) /\ journal[t].status = rows[t].status
      /\ journal[t].category = rows[t].category /\ journal[t].priority = rows[t].priority
  BY <1>1 DEF IInv, RowsConsistent, JournalExplainsRow
<1>6. row \in Row /\ RowConsistent(row) /\ (row = rows[t] \/ rows[t].version < row.version)
  <2>1. CASE x.dirty
    <3>1. RowConsistent(x.new)
      BY <2>1, <1>1, <1>3, <1>5, EditConsistent
    <3>2. rows[t].version \in Nat
      BY <1>3 DEF Row
    <3> QED BY <2>1, <3>1, <3>2, <1>1, <1>4, BumpRow
  <2>2. CASE ~x.dirty
    BY <2>2, <1>3, <1>5
  <2> QED BY <2>1, <2>2, <1>4
<1>7. j \in Journal
  BY <1>3, <1>4, ReplayType
<1>8. j.status = row.status /\ j.category = row.category /\ j.priority = row.priority
  <2>1. /\ ReplayField(x.base.status, x.events.status) = x.new.status
        /\ ReplayField(x.base.category, x.events.category) = x.new.category
        /\ ReplayField(x.base.priority, x.events.priority) = x.new.priority
        /\ ~x.dirty => /\ x.events.status = Silent
                       /\ x.events.category = Silent
                       /\ x.events.priority = Silent
    BY <1>1, <1>4, EditJournal
  <2>2. /\ j.status = ReplayField(journal[t].status, x.events.status)
        /\ j.category = ReplayField(journal[t].category, x.events.category)
        /\ j.priority = ReplayField(journal[t].priority, x.events.priority)
    BY DEF Replay
  <2>3. CASE x.dirty
    <3>1. row.status = x.new.status /\ row.category = x.new.category
          /\ row.priority = x.new.priority
      BY <2>3, <1>4, BumpRow
    <3>2. j.status = x.new.status /\ j.category = x.new.category
          /\ j.priority = x.new.priority
      <4> HIDE DEF j
      <4> QED BY <2>1, <2>2, <2>3, <1>1, <1>5
    <3> QED BY <3>1, <3>2
  <2>4. CASE ~x.dirty
    BY <2>1, <2>2, <2>4, <1>5 DEF ReplayField
  <2> QED BY <2>3, <2>4, <1>4
<1>9. rows' = [rows EXCEPT ![t] = row]
  BY <1>1, <1>2, <1>4 DEF IInv, TypeOK
<1>10. tx' \in [Users -> OrNone(Transaction)] /\ \A v \in Users : tx'[v] \in {None, tx[v]}
  BY <1>2 DEF IInv, TypeOK, OrNone, Transaction
<1> HIDE DEF row, j
<1> QED BY <1>1, <1>2, <1>6, <1>7, <1>8, <1>9, <1>10, WriteStep

\* apply_ai_classification.
LEMMA ApplyAiStep ==
  ASSUME IInv, NEW t \in Tickets, ApplyAiClassification(t)
  PROVE  IInv'
<1>1. PICK c \in Categories, p \in Priorities :
        LET x == AiOutcome(rows[t], journal[t].human, c, p)
        IN  /\ rows' = [rows EXCEPT ![t] = Bump(x.new)]
            /\ journal' = [journal EXCEPT ![t] = Replay(@, x.events, FALSE)]
  BY DEF ApplyAiClassification
<1> DEFINE x == AiOutcome(rows[t], journal[t].human, c, p)
           row == Bump(x.new)
           j == Replay(journal[t], x.events, FALSE)
<1>2. rows[t] \in Row /\ journal[t] \in Journal /\ Created(t)
  BY DEF ApplyAiClassification, IInv, TypeOK, OrNone, Created
<1>3. journal[t].human \in BOOLEAN /\ rows[t].version \in Nat
  BY <1>2 DEF Journal, Row
<1>4. /\ x.new \in Row /\ x.events \in Events /\ x.new.version = rows[t].version
      /\ RowConsistent(rows[t]) => RowConsistent(x.new)
      /\ ReplayField(rows[t].status, x.events.status) = x.new.status
      /\ ReplayField(rows[t].category, x.events.category) = x.new.category
      /\ ReplayField(rows[t].priority, x.events.priority) = x.new.priority
  BY <1>2, <1>3, AiWrite
<1> HIDE DEF x
<1>5. RowConsistent(rows[t]) /\ journal[t].status = rows[t].status
      /\ journal[t].category = rows[t].category /\ journal[t].priority = rows[t].priority
  BY <1>2 DEF IInv, RowsConsistent, JournalExplainsRow
<1>6. row \in Row /\ RowConsistent(row) /\ rows[t].version < row.version
      /\ row.status = x.new.status /\ row.category = x.new.category
      /\ row.priority = x.new.priority
  BY <1>3, <1>4, <1>5, BumpRow
<1>7. j \in Journal
  BY <1>2, <1>4, ReplayType
<1>8. j.status = row.status /\ j.category = row.category /\ j.priority = row.priority
  BY <1>4, <1>5, <1>6 DEF Replay
<1>9. rows' = [rows EXCEPT ![t] = row] /\ journal' = [journal EXCEPT ![t] = j]
      /\ tx' = tx /\ job' = job /\ today' = today
  BY <1>1 DEF ApplyAiClassification, x
<1>10. tx' \in [Users -> OrNone(Transaction)] /\ \A v \in Users : tx'[v] \in {None, tx[v]}
  BY <1>9 DEF IInv, TypeOK, Transaction
<1> HIDE DEF row, j
<1> QED BY <1>6, <1>7, <1>8, <1>9, <1>10, WriteStep

\* mark_ai_status.
LEMMA MarkAiStep ==
  ASSUME IInv, NEW t \in Tickets, MarkAiStatus(t)
  PROVE  IInv'
<1>1. PICK s \in {"LOW_CONFIDENCE", "FAILED"} :
        rows' = [rows EXCEPT ![t] = Bump([@ EXCEPT !.aiStatus = s])]
  BY DEF MarkAiStatus
<1> DEFINE new == [rows[t] EXCEPT !.aiStatus = s]
           row == Bump(new)
<1>2. rows[t] \in Row /\ journal[t] \in Journal /\ Created(t)
  BY DEF MarkAiStatus, IInv, TypeOK, OrNone, Created
<1>3. RowConsistent(rows[t]) /\ journal[t].status = rows[t].status
      /\ journal[t].category = rows[t].category /\ journal[t].priority = rows[t].priority
  BY <1>2 DEF IInv, RowsConsistent, JournalExplainsRow
<1>4. /\ new \in Row /\ new.version = rows[t].version /\ rows[t].version \in Nat
      /\ new.status = rows[t].status /\ new.category = rows[t].category
      /\ new.priority = rows[t].priority
      /\ RowConsistent(new)
  BY <1>2, <1>3 DEF Row, AiStatus, RowConsistent, CheckConstraints
<1> HIDE DEF new
<1>5. row \in Row /\ RowConsistent(row) /\ rows[t].version < row.version
      /\ row.status = rows[t].status /\ row.category = rows[t].category
      /\ row.priority = rows[t].priority
  BY <1>4, BumpRow
<1>6. rows' = [rows EXCEPT ![t] = row] /\ tx' = tx /\ job' = job /\ today' = today
  BY <1>1 DEF MarkAiStatus, new
<1>7. journal' = [journal EXCEPT ![t] = journal[t]]
  BY DEF MarkAiStatus, IInv, TypeOK
<1>8. tx' \in [Users -> OrNone(Transaction)] /\ \A v \in Users : tx'[v] \in {None, tx[v]}
  BY <1>6 DEF IInv, TypeOK, Transaction
<1> HIDE DEF row
<1> QED BY <1>2, <1>3, <1>5, <1>6, <1>7, <1>8, WriteStep
\* The auto-close job reads its batch.
LEMMA AutoCloseLoadStep ==
  ASSUME IInv, AutoCloseLoad
  PROVE  IInv'
<1>1. PICK due \in SUBSET Tickets :
        /\ \A t \in due : Created(t) /\ DueForAutoClose(today, rows[t])
        /\ job' = [t \in due |-> AutoClosed(today, rows[t])]
  BY DEF AutoCloseLoad
<1>2. rows' = rows /\ journal' = journal /\ tx' = tx /\ today' = today
  BY DEF AutoCloseLoad
<1>3. ASSUME NEW t \in due
      PROVE  /\ job'[t] \in OutcomeType /\ job'[t].base = rows[t]
             /\ job'[t] = AutoClosed(today, job'[t].base)
             /\ rows[t].version \in Nat
  <2>1. t \in Tickets /\ rows[t] \in Row /\ RowConsistent(rows[t]) /\ today \in Nat
    BY <1>1, <1>3 DEF IInv, TypeOK, OrNone, Created, RowsConsistent
  <2>2. job'[t] = AutoClosed(today, rows[t])
    BY <1>1, <1>3
  <2> QED BY <1>1, <1>3, <2>1, <2>2, AutoCloseWrite DEF Row
<1>4. DOMAIN job' = due
  BY <1>1
<1>5. TypeOK'
  <2>1. DOMAIN job' \subseteq Tickets /\ \A t \in DOMAIN job' : job'[t] \in OutcomeType
    BY <1>3, <1>4
  <2> QED BY <2>1, <1>2 DEF IInv, TypeOK, Created
<1>6. RowsConsistent' /\ JournalExplainsRow'
  BY <1>2 DEF IInv, RowsConsistent, JournalExplainsRow, Created
<1>7. VersionDeterminesRow'
  <2>1. ASSUME NEW u \in Users, tx'[u] # None
        PROVE  /\ tx'[u].outcome.base.version <= rows'[tx'[u].ticket].version
               /\ tx'[u].outcome.base.version = rows'[tx'[u].ticket].version
                    => tx'[u].outcome.base = rows'[tx'[u].ticket]
    BY <2>1, <1>2 DEF IInv, VersionDeterminesRow
  <2>2. ASSUME NEW t \in DOMAIN job'
        PROVE  /\ job'[t].base.version <= rows'[t].version
               /\ job'[t].base.version = rows'[t].version => job'[t].base = rows'[t]
    BY <2>2, <1>2, <1>3, <1>4
  <2> QED BY <2>1, <2>2 DEF VersionDeterminesRow
<1>8. Pending'
  <2>1. ASSUME NEW u \in Users, tx'[u] # None
        PROVE  /\ rows'[tx'[u].ticket] # None
               /\ tx'[u].day <= today'
               /\ tx'[u].outcome \in Edits(u, tx'[u].day, tx'[u].outcome.base)
               /\ tx'[u].sent \in {None, tx'[u].outcome.base.version}
    BY <2>1, <1>2 DEF IInv, Pending, Created
  <2>2. \A t \in DOMAIN job' : /\ Created(t)'
                                /\ DueForAutoClose(today, job'[t].base)
                                /\ job'[t] = AutoClosed(today, job'[t].base)
    BY <1>1, <1>2, <1>3, <1>4 DEF Created
  <2>3. today \in 0..today'
    BY <1>2 DEF IInv, TypeOK
  <2> QED BY <2>1, <2>2, <2>3 DEF Pending, Created
<1> QED BY <1>5, <1>6, <1>7, <1>8 DEF IInv

\* The auto-close job writes its batch.
LEMMA AutoCloseBatch ==
  ASSUME IInv, AutoCloseCommit, NEW t \in DOMAIN job
  PROVE  /\ t \in Tickets /\ Created(t) /\ rows[t] \in Row /\ journal[t] \in Journal
         /\ \E d \in 0..today : DueForAutoClose(d, rows[t]) /\ job[t] = AutoClosed(d, rows[t])
         /\ job[t].new \in Row /\ job[t].new.version = rows[t].version
         /\ job[t].events \in Events
         /\ RowConsistent(job[t].new)
         /\ ReplayField(rows[t].status, job[t].events.status) = job[t].new.status
         /\ job[t].new.category = rows[t].category /\ job[t].events.category = Silent
         /\ job[t].new.priority = rows[t].priority /\ job[t].events.priority = Silent
<1>1. job # None /\ Succeeds(t, job[t])
  BY DEF AutoCloseCommit
<1>2. PICK d \in 0..today : /\ Created(t) /\ DueForAutoClose(d, job[t].base)
                            /\ job[t] = AutoClosed(d, job[t].base)
  BY <1>1 DEF IInv, Pending
<1>3. t \in Tickets /\ job[t] \in OutcomeType
  BY <1>1 DEF IInv, TypeOK
<1>4. rows[t] \in Row /\ journal[t] \in Journal /\ RowConsistent(rows[t]) /\ d \in Nat
  BY <1>2, <1>3 DEF IInv, TypeOK, OrNone, Created, RowsConsistent
<1>5. job[t].dirty
  BY <1>2 DEF AutoClosed, Outcome
<1>6. job[t].base = rows[t]
  BY <1>1, <1>5 DEF IInv, VersionDeterminesRow, Succeeds
<1>7. DueForAutoClose(d, rows[t]) /\ job[t] = AutoClosed(d, rows[t])
  BY <1>2, <1>6
<1>8. job[t].new \in Row /\ job[t].events \in Events
  BY <1>3 DEF OutcomeType
<1> QED BY <1>2, <1>3, <1>4, <1>7, <1>8, AutoCloseWrite

LEMMA AutoCloseCommitStep ==
  ASSUME IInv, AutoCloseCommit
  PROVE  IInv'
<1>1. /\ rows' = [t \in Tickets |-> IF t \in DOMAIN job THEN Bump(job[t].new) ELSE rows[t]]
      /\ journal' = [t \in Tickets |-> IF t \in DOMAIN job
                                         THEN Replay(journal[t], job[t].events, FALSE)
                                         ELSE journal[t]]
      /\ job' = None /\ tx' = tx /\ today' = today
  BY DEF AutoCloseCommit
<1>2. None \notin Row /\ None \notin Journal
  BY NullRowAssumption, NullJournalAssumption
<1>3. ASSUME NEW t \in Tickets, t \in DOMAIN job
      PROVE  /\ Created(t)
             /\ rows'[t] \in Row /\ journal'[t] \in Journal
             /\ RowConsistent(rows'[t]) /\ rows[t].version < rows'[t].version
             /\ journal'[t].status = rows'[t].status
             /\ journal'[t].category = rows'[t].category
             /\ journal'[t].priority = rows'[t].priority
  <2>1. rows'[t] = Bump(job[t].new) /\ journal'[t] = Replay(journal[t], job[t].events, FALSE)
    BY <1>1, <1>3
  <2>2. /\ Created(t) /\ rows[t] \in Row /\ journal[t] \in Journal
        /\ job[t].new \in Row /\ job[t].new.version = rows[t].version
        /\ job[t].events \in Events /\ RowConsistent(job[t].new)
    BY <1>3, AutoCloseBatch
  <2>3. /\ ReplayField(rows[t].status, job[t].events.status) = job[t].new.status
        /\ job[t].new.category = rows[t].category /\ job[t].events.category = Silent
        /\ job[t].new.priority = rows[t].priority /\ job[t].events.priority = Silent
    BY <1>3, AutoCloseBatch
  <2>4. rows[t].version \in Nat
    BY <2>2 DEF Row
  <2>5. /\ rows'[t] \in Row /\ RowConsistent(rows'[t]) /\ rows[t].version < rows'[t].version
        /\ rows'[t].status = job[t].new.status /\ rows'[t].category = job[t].new.category
        /\ rows'[t].priority = job[t].new.priority
    BY <2>1, <2>2, <2>4, BumpRow
  <2>6. journal'[t] \in Journal
    BY <2>1, <2>2, ReplayType
  <2>7. /\ journal[t].status = rows[t].status /\ journal[t].category = rows[t].category
        /\ journal[t].priority = rows[t].priority
    BY <2>2 DEF IInv, JournalExplainsRow
  <2>8. /\ journal'[t].status = rows'[t].status /\ journal'[t].category = rows'[t].category
        /\ journal'[t].priority = rows'[t].priority
    BY <2>1, <2>3, <2>5, <2>7 DEF Replay, ReplayField
  <2> QED BY <2>2, <2>5, <2>6, <2>8
<1>4. ASSUME NEW t \in Tickets, t \notin DOMAIN job
      PROVE  rows'[t] = rows[t] /\ journal'[t] = journal[t]
  BY <1>1, <1>4
<1>5. TypeOK'
  <2>1. rows' \in [Tickets -> OrNone(Row)]
    BY <1>1, <1>3, <1>4 DEF IInv, TypeOK, OrNone
  <2>2. journal' \in [Tickets -> OrNone(Journal)]
    BY <1>1, <1>3, <1>4 DEF IInv, TypeOK, OrNone
  <2>3. \A t \in Tickets : Created(t)' <=> journal'[t] # None
    BY <1>2, <1>3, <1>4 DEF IInv, TypeOK, Created
  <2> QED BY <1>1, <2>1, <2>2, <2>3 DEF IInv, TypeOK
<1>6. RowsConsistent'
  BY <1>3, <1>4 DEF IInv, RowsConsistent, Created
<1>7. JournalExplainsRow'
  BY <1>3, <1>4 DEF IInv, JournalExplainsRow, Created
<1>8. \A t \in Tickets : Created(t) =>
        Created(t)' /\ (rows'[t] = rows[t] \/ rows[t].version < rows'[t].version)
  BY <1>2, <1>3, <1>4 DEF Created
<1>9. VersionDeterminesRow' /\ Pending'
  <2>1. today \in Nat /\ today' \in Nat /\ today <= today'
    BY <1>1 DEF IInv, TypeOK
  <2>2. rows' \in [Tickets -> OrNone(Row)]
    BY <1>5 DEF TypeOK
  <2>3. \A u \in Users : tx'[u] \in {None, tx[u]}
    BY <1>1
  <2> QED BY <1>1, <1>8, <2>1, <2>2, <2>3, Carried
<1> QED BY <1>5, <1>6, <1>7, <1>9 DEF IInv

-----------------------------------------------------------------------------
\* Every step of the service preserves the invariant.
LEMMA Invariance ==
  ASSUME IInv, [Next]_vars
  PROVE  IInv'
<1>1. ASSUME NEW u \in Users, NEW t \in Tickets, Request(u, t)
      PROVE  IInv'
  <2>1. CASE Create(u, t)
    BY <2>1, CreateStep
  <2>2. CASE Update(u, t)
    <3>1. PICK x \in Updates(u, rows[t]) : Begin(u, t, rows[t].version, x)
      BY <2>2 DEF Update, CheckVersion
    <3>2. Created(t) /\ x \in Edits(u, today, rows[t])
      BY <2>2 DEF Update, Edits
    <3> QED BY <3>1, <3>2, BeginStep
  <2>3. CASE Claim(u, t)
    <3>1. PICK x \in Claims(u, rows[t]) : Begin(u, t, rows[t].version, x)
      BY <2>3 DEF Claim, CheckVersion
    <3>2. Created(t) /\ x \in Edits(u, today, rows[t])
      BY <2>3 DEF Claim, Edits
    <3> QED BY <3>1, <3>2, BeginStep
  <2>4. CASE Assign(u, t)
    <3>1. PICK x \in Assigns(u, rows[t]) : Begin(u, t, rows[t].version, x)
      BY <2>4 DEF Assign, CheckVersion
    <3>2. Created(t) /\ x \in Edits(u, today, rows[t])
      BY <2>4 DEF Assign, Edits
    <3> QED BY <3>1, <3>2, BeginStep
  <2>5. CASE ChangeStatus(u, t)
    <3>1. PICK x \in StatusChanges(u, today, rows[t]) : Begin(u, t, rows[t].version, x)
      BY <2>5 DEF ChangeStatus, CheckVersion
    <3>2. Created(t) /\ x \in Edits(u, today, rows[t])
      BY <2>5 DEF ChangeStatus, Edits
    <3> QED BY <3>1, <3>2, BeginStep
  <2>6. CASE AddComment(u, t)
    <3>1. PICK x \in Comments(u, today, rows[t]) : Begin(u, t, None, x)
      BY <2>6 DEF AddComment
    <3>2. Created(t) /\ x \in Edits(u, today, rows[t])
      BY <2>6 DEF AddComment, Edits
    <3> QED BY <3>1, <3>2, BeginStep
  <2> QED BY <1>1, <2>1, <2>2, <2>3, <2>4, <2>5, <2>6 DEF Request
<1>2. ASSUME NEW u \in Users, Commit(u)
      PROVE  IInv'
  BY <1>2, CommitStep
<1>3. tx \in [Users -> OrNone(Transaction)] /\ today \in Nat
  BY DEF IInv, TypeOK, Transaction
<1>4. ASSUME NEW u \in Users, Rollback(u)
      PROVE  IInv'
  <2>1. tx' \in [Users -> OrNone(Transaction)] /\ \A v \in Users : tx'[v] \in {None, tx[v]}
    BY <1>3, <1>4 DEF Rollback, OrNone
  <2> QED BY <1>3, <1>4, <2>1, IdleStep DEF Rollback
<1>5. ASSUME NEW t \in Tickets, ApplyAiClassification(t) \/ MarkAiStatus(t)
      PROVE  IInv'
  BY <1>5, ApplyAiStep, MarkAiStep
<1>6. CASE AutoCloseLoad
  BY <1>6, AutoCloseLoadStep
<1>7. CASE AutoCloseCommit
  BY <1>7, AutoCloseCommitStep
<1>8. CASE AutoCloseRollback
  BY <1>3, <1>8, IdleStep DEF AutoCloseRollback
<1>9. CASE NextDay
  <2>1. today' \in Nat /\ today <= today'
    BY <1>3, <1>9 DEF NextDay
  <2> QED BY <1>3, <1>9, <2>1, IdleStep DEF NextDay
<1>10. CASE UNCHANGED vars
  BY <1>3, <1>10, IdleStep DEF vars
<1> QED BY <1>1, <1>2, <1>4, <1>5, <1>6, <1>7, <1>8, <1>9, <1>10 DEF Next

\* The empty table satisfies the invariant.
LEMMA InitialInvariant ==
  ASSUME Init
  PROVE  IInv
<1>1. TypeOK
  BY DEF Init, TypeOK, OrNone, Created
<1> QED BY <1>1 DEF Init, IInv, RowsConsistent, JournalExplainsRow, VersionDeterminesRow,
                    Pending, Created

\* The invariant holds of every interleaving of requests, the job and the classifier.
THEOREM InductiveInvariant == Spec => []IInv
BY InitialInvariant, Invariance, PTL DEF Spec
\* The table, the journal and the open transactions keep their types.
THEOREM TypeCorrectness == Spec => []TypeOK
BY InductiveInvariant, PTL DEF IInv

\* However requests, classifier and auto-close interleave, no row breaks a CHECK
\* constraint, keeps a resolved_at of a resolution that was taken back, or shows
\* SLA dates of another priority.
THEOREM ConsistentRows == Spec => []RowsConsistent
BY InductiveInvariant, PTL DEF IInv

\* ticket_events replays to the status, category and priority of the row.
THEOREM FaithfulJournal == Spec => []JournalExplainsRow
BY InductiveInvariant, PTL DEF IInv

\* The version number stands for the content of the row.
THEOREM VersionsIdentify == Spec => []VersionDeterminesRow
BY InductiveInvariant, PTL DEF IInv

-----------------------------------------------------------------------------
(***************************************************************************)
(* Action properties, from the invariant.                                  *)
(***************************************************************************)
\* Only the commit of u's transaction ends it with an effect.
LEMMA OnlyCommitCommits ==
  ASSUME IInv, [Next]_vars, NEW u \in Users, NEW t \in Tickets, Commits(u, t)
  PROVE  /\ Commit(u) /\ tx[u].ticket = t
         /\ tx[u].outcome.dirty /\ tx[u].outcome.base = rows[t]
         /\ rows'[t] = Bump(tx[u].outcome.new)
<1>1. tx[u] # None /\ tx'[u] = None /\ tx[u].ticket = t /\ rows'[t] # rows[t]
  BY DEF Commits
<1>2. ASSUME NEW v \in Users, NEW s \in Tickets, Request(v, s)
      PROVE  FALSE
  <2>1. tx' = tx \/ (tx[v] = None /\ \E o : tx' = [tx EXCEPT ![v] = o])
    BY <1>2 DEF Request, Create, Update, Claim, Assign, ChangeStatus, AddComment, Begin
  <2> QED BY <1>1, <2>1 DEF IInv, TypeOK
<1>3. ASSUME NEW v \in Users, Commit(v) \/ Rollback(v)
      PROVE  v = u /\ Commit(u)
  <2>1. tx' = [tx EXCEPT ![v] = None]
    BY <1>3 DEF Commit, Rollback
  <2>2. v = u
    BY <1>1, <2>1 DEF IInv, TypeOK
  <2>3. ~Rollback(u)
    BY <1>1 DEF Rollback
  <2> QED BY <1>3, <2>2, <2>3
<1>4. Commit(u)
  <2>1. ASSUME tx' = tx PROVE FALSE
    BY <1>1, <2>1
  <2> QED BY <1>2, <1>3, <2>1 DEF Next, vars, ApplyAiClassification, MarkAiStatus,
             AutoCloseLoad, AutoCloseCommit, AutoCloseRollback, NextDay
<1>5. tx[u].outcome.dirty /\ rows' = [rows EXCEPT ![t] = Bump(tx[u].outcome.new)]
  BY <1>1, <1>4 DEF Commit
<1>6. tx[u].outcome.base = rows[t]
  BY <1>1, <1>4, <1>5, CommitWrites
<1>7. rows'[t] = Bump(tx[u].outcome.new)
  BY <1>5 DEF IInv, TypeOK
<1> QED BY <1>1, <1>4, <1>5, <1>6, <1>7

\* BR-16: no request overwrites a row it was not computed from, or that its user
\* had not on the screen.
THEOREM NoUpdateLost == Spec => NoLostUpdate
<1>1. ASSUME IInv, [Next]_vars, NEW u \in Users, NEW t \in Tickets, Commits(u, t)
      PROVE  tx[u].outcome.base = rows[t] /\ tx[u].sent \in {None, rows[t].version}
  <2>1. tx[u] # None /\ tx[u].outcome.base = rows[t]
    BY <1>1, OnlyCommitCommits DEF Commits
  <2> QED BY <1>1, <2>1 DEF IInv, Pending
<1>2. IInv /\ [Next]_vars =>
        [\A u \in Users, t \in Tickets : Commits(u, t) =>
           LET x == tx[u].outcome
           IN  /\ x.base = rows[t]
               /\ tx[u].sent \in {None, rows[t].version}]_vars
  BY <1>1
<1> QED BY <1>2, InductiveInvariant, PTL DEF Spec, NoLostUpdate

\* A claim of a ticket that was free when the agent's page loaded takes it from nobody.
THEOREM ClaimsTakeNothing == Spec => ClaimTakesNothing
<1>1. ASSUME IInv, [Next]_vars, NEW u \in Users, NEW t \in Tickets, Commits(u, t),
             tx[u].outcome.base.assignee = None
      PROVE  rows[t].assignee = None
  BY <1>1, OnlyCommitCommits
<1>2. IInv /\ [Next]_vars =>
        [\A u \in Users, t \in Tickets :
           /\ Commits(u, t)
           /\ tx[u].outcome.base.assignee = None /\ tx[u].outcome.new.assignee = u
           => rows[t].assignee = None]_vars
  BY <1>1
<1> QED BY <1>2, InductiveInvariant, PTL DEF Spec, ClaimTakesNothing

\* The auto-close job closes no ticket that is not due when it commits.
THEOREM AutoCloseDue == Spec => AutoCloseOnlyDue
<1>1. ASSUME IInv, [Next]_vars, job # None, job' = None, NEW t \in DOMAIN job,
             rows'[t] # rows[t]
      PROVE  DueForAutoClose(today, rows[t])
  <2>1. rows' # rows /\ job' # job
    BY <1>1
  <2>2. AutoCloseCommit
    <3>1. Next
      BY <1>1, <2>1 DEF vars
    <3>2. ASSUME NEW u \in Users, NEW s \in Tickets, Request(u, s)  PROVE job' = job
      BY <3>2 DEF Request, Create, Update, Claim, Assign, ChangeStatus, AddComment, Begin
    <3>3. ASSUME NEW u \in Users, Commit(u) \/ Rollback(u)  PROVE job' = job
      BY <3>3 DEF Commit, Rollback
    <3>4. ASSUME NEW s \in Tickets, ApplyAiClassification(s) \/ MarkAiStatus(s)
          PROVE  job' = job
      BY <3>4 DEF ApplyAiClassification, MarkAiStatus
    <3>5. AutoCloseLoad \/ AutoCloseRollback \/ NextDay => rows' = rows
      BY DEF AutoCloseLoad, AutoCloseRollback, NextDay
    <3> QED BY <2>1, <3>1, <3>2, <3>3, <3>4, <3>5 DEF Next
  <2>3. PICK d \in 0..today : DueForAutoClose(d, rows[t])
    BY <1>1, <2>2, AutoCloseBatch
  <2>4. rows[t] \in Row
    BY <1>1, <2>2, AutoCloseBatch
  <2> QED BY <1>1, <2>3, <2>4, WindowAssumption DEF DueForAutoClose, IInv, TypeOK, Row, OrNone
<1>2. IInv /\ [Next]_vars =>
        [job # None /\ job' = None =>
           \A t \in DOMAIN job : rows'[t] # rows[t] => DueForAutoClose(today, rows[t])]_vars
  BY <1>1
<1> QED BY <1>2, InductiveInvariant, PTL DEF Spec, AutoCloseOnlyDue

\* An operation changes the status only along a rule of the table.
LEMMA EditTransition ==
  ASSUME NEW u \in Users, NEW d \in Nat, NEW row \in Row, NEW x \in Edits(u, d, row),
         x.new.status # row.status
  PROVE  GetRule(row.status, x.new.status, Role[u]) # {}
<1>1. CASE x \in Updates(u, row)
  <2>1. PICK q \in UpdateTicketRequest : x.new = Updated(row, q)
    BY <1>1 DEF Updates, Outcome
  <2> QED BY <2>1 DEF Updated, Row
<1>2. CASE x \in Claims(u, row) \cup Assigns(u, row)
  <2>1. PICK a \in Users : x = DoAssign(row, a)
    BY <1>2 DEF Claims, Assigns
  <2>2. x.new.status = "ASSIGNED"
    BY <2>1 DEF DoAssign, Outcome, Row
  <2> QED BY <1>2, <2>2 DEF Claims, Assigns, CanMoveToAssigned
<1>3. CASE x \in StatusChanges(u, d, row)
  <2>1. PICK q \in ChangeStatusRequest :
          CanChangeStatus(u, d, row, q) /\ x.new = StatusChanged(u, d, row, q)
    BY <1>3 DEF StatusChanges, Outcome
  <2>2. x.new.status = q.status
    BY <2>1 DEF StatusChanged, Row
  <2> QED BY <2>1, <2>2 DEF CanChangeStatus, Validate
<1>4. CASE x \in Comments(u, d, row)
  BY <1>4 DEF Comments, Commented, Outcome, Row
<1> QED BY <1>1, <1>2, <1>3, <1>4 DEF Edits

\* Who can change a row.
LEMMA WhoChangesRow ==
  ASSUME IInv, [Next]_vars, NEW t \in Tickets, Created(t), rows'[t] # rows[t]
  PROVE  \/ \E u \in Users : Commits(u, t)
         \/ ApplyAiClassification(t)
         \/ MarkAiStatus(t)
         \/ AutoCloseCommit /\ t \in DOMAIN job
<1>1. rows \in [Tickets -> OrNone(Row)] /\ rows' # rows
  BY DEF IInv, TypeOK
<1>2. ASSUME NEW u \in Users, NEW s \in Tickets, Request(u, s)
      PROVE  FALSE
  <2>1. rows' = rows \/ (s # t /\ rows'[t] = rows[t])
    BY <1>1, <1>2 DEF Request, Create, Update, Claim, Assign, ChangeStatus, AddComment, Begin
  <2> QED BY <1>1, <2>1
<1>3. ASSUME NEW u \in Users, Commit(u)
      PROVE  Commits(u, t)
  <2>1. tx[u].ticket = t /\ tx[u] # None /\ tx' = [tx EXCEPT ![u] = None]
    BY <1>1, <1>3 DEF Commit
  <2> QED BY <2>1 DEF Commits, IInv, TypeOK
<1>4. ASSUME NEW s \in Tickets, ApplyAiClassification(s) \/ MarkAiStatus(s)
      PROVE  s = t
  BY <1>1, <1>4 DEF ApplyAiClassification, MarkAiStatus
<1>5. CASE AutoCloseCommit
  BY <1>1, <1>5 DEF AutoCloseCommit
<1> QED BY <1>1, <1>2, <1>3, <1>4, <1>5 DEF Next, vars, Rollback, AutoCloseLoad,
           AutoCloseRollback, NextDay

\* What the commit of a request writes.
LEMMA CommittedRow ==
  ASSUME IInv, [Next]_vars, NEW u \in Users, NEW t \in Tickets, Created(t), Commits(u, t)
  PROVE  \E d \in 0..today : \E x \in Edits(u, d, rows[t]) :
           x.new \in Row /\ rows'[t] = Bump(x.new)
<1>1. Commit(u) /\ rows'[t] = Bump(tx[u].outcome.new) /\ tx[u].outcome.base = rows[t]
  BY OnlyCommitCommits
<1>2. tx[u].outcome \in Edits(u, tx[u].day, rows[t]) /\ tx[u].day \in 0..today
      /\ tx[u].outcome.new \in Row
  BY <1>1, CommitWrites DEF OutcomeType
<1> QED BY <1>1, <1>2

\* BR-03 for every interleaving: the row's real status only moves along the table,
\* for a person whose role the rule names; the system only closes resolved tickets.
THEOREM TransitionsAllowed == Spec => OnlyAllowedTransitions
<1>1. ASSUME IInv, [Next]_vars, NEW t \in Tickets, Created(t),
             rows'[t].status # rows[t].status
      PROVE  \/ \E u \in Users : /\ Commits(u, t)
                                 /\ GetRule(rows[t].status, rows'[t].status, Role[u]) # {}
             \/ /\ job # None /\ job' = None
                /\ rows[t].status = "RESOLVED" /\ rows'[t].status = "CLOSED"
  <2>1. rows[t] \in Row /\ rows'[t] # rows[t]
    BY <1>1 DEF IInv, TypeOK, OrNone, Created
  <2>2. ASSUME NEW u \in Users, Commits(u, t)
        PROVE  GetRule(rows[t].status, rows'[t].status, Role[u]) # {}
    <3>1. PICK d \in 0..today : \E x \in Edits(u, d, rows[t]) :
                                  x.new \in Row /\ rows'[t] = Bump(x.new)
      BY <1>1, <2>2, CommittedRow
    <3>2. PICK x \in Edits(u, d, rows[t]) : x.new \in Row /\ rows'[t] = Bump(x.new)
      BY <3>1
    <3>3. rows'[t].status = x.new.status
      BY <3>2, BumpRow
    <3> QED BY <1>1, <2>1, <3>2, <3>3, EditTransition
  <2>3. CASE ApplyAiClassification(t)
    <3>1. PICK c \in Categories, p \in Priorities :
            rows' = [rows EXCEPT ![t] = Bump(AiOutcome(rows[t], journal[t].human, c, p).new)]
      BY <2>3 DEF ApplyAiClassification
    <3>2. rows'[t] = Bump(AiOutcome(rows[t], journal[t].human, c, p).new)
      BY <1>1, <3>1 DEF IInv, TypeOK
    <3>3. AiOutcome(rows[t], journal[t].human, c, p).new.status = rows[t].status
      BY <2>1 DEF AiOutcome, Outcome, Row
    <3>4. AiOutcome(rows[t], journal[t].human, c, p).new \in Row
      BY <2>1 DEF AiOutcome, Outcome, Row, OrNone, AiStatus
    <3> QED BY <1>1, <3>2, <3>3, <3>4, BumpRow
  <2>4. CASE MarkAiStatus(t)
    <3>1. PICK a : rows' = [rows EXCEPT ![t] = Bump([@ EXCEPT !.aiStatus = a])]
      BY <2>4 DEF MarkAiStatus
    <3>2. rows'[t] = Bump([rows[t] EXCEPT !.aiStatus = a])
      BY <1>1, <3>1 DEF IInv, TypeOK
    <3> QED BY <1>1, <2>1, <3>2 DEF Bump, Row
  <2>5. CASE AutoCloseCommit /\ t \in DOMAIN job
    <3>1. rows'[t] = Bump(job[t].new) /\ job # None /\ job' = None
      BY <1>1, <2>5 DEF AutoCloseCommit
    <3>2. PICK d \in 0..today :
            DueForAutoClose(d, rows[t]) /\ job[t] = AutoClosed(d, rows[t])
      BY <1>1, <2>5, AutoCloseBatch
    <3>3. job[t].new \in Row
      BY <1>1, <2>5, AutoCloseBatch
    <3>4. job[t].new.status = "CLOSED"
      <4>1. job[t].new = [rows[t] EXCEPT !.status = "CLOSED", !.closedAt = d]
        BY <3>2 DEF AutoClosed, Outcome
      <4> QED BY <2>1, <4>1 DEF Row
    <3>5. rows'[t].status = "CLOSED"
      BY <3>1, <3>3, <3>4, BumpRow
    <3> QED BY <3>1, <3>2, <3>5 DEF DueForAutoClose
  <2> QED BY <1>1, <2>1, <2>2, <2>3, <2>4, <2>5, WhoChangesRow
<1>2. IInv /\ [Next]_vars =>
        [\A t \in Tickets : Created(t) /\ rows'[t].status # rows[t].status =>
           \/ \E u \in Users : /\ Commits(u, t)
                               /\ GetRule(rows[t].status, rows'[t].status, Role[u]) # {}
           \/ /\ job # None /\ job' = None
              /\ rows[t].status = "RESOLVED" /\ rows'[t].status = "CLOSED"]_vars
  BY <1>1
<1> QED BY <1>2, InductiveInvariant, PTL DEF Spec, OnlyAllowedTransitions

\* What apply_ai_classification gives of BR-13: nothing but a person's request changes the
\* category or the priority once the ticket has a category or a person has changed one of
\* the two.  (A priority given at creation without a category is not protected.)
THEOREM AiLeavesClassifiedAlone == Spec => AiLeavesClassified
<1>1. ASSUME IInv, [Next]_vars, NEW t \in Tickets, Created(t),
             rows[t].category # None \/ journal[t].human,
             <<rows'[t].category, rows'[t].priority>> # <<rows[t].category, rows[t].priority>>
      PROVE  \E u \in Users : Commits(u, t)
  <2>1. rows[t] \in Row /\ rows'[t] # rows[t]
    BY <1>1 DEF IInv, TypeOK, OrNone, Created
  <2>2. ASSUME ApplyAiClassification(t)
        PROVE  FALSE
    <3> DEFINE new == [rows[t] EXCEPT !.aiStatus = "SKIPPED"]
    <3>1. PICK c \in Categories, p \in Priorities :
            rows' = [rows EXCEPT ![t] = Bump(AiOutcome(rows[t], journal[t].human, c, p).new)]
      BY <2>2 DEF ApplyAiClassification
    <3>2. AiOutcome(rows[t], journal[t].human, c, p).new = new
      BY <1>1 DEF AiOutcome, Outcome
    <3>3. rows'[t] = Bump(new)
      BY <1>1, <3>1, <3>2 DEF IInv, TypeOK
    <3>4. new \in Row /\ new.category = rows[t].category /\ new.priority = rows[t].priority
      BY <2>1 DEF Row, AiStatus
    <3> HIDE DEF new
    <3> QED BY <1>1, <3>3, <3>4, BumpRow
  <2>3. ASSUME MarkAiStatus(t)
        PROVE  FALSE
    <3>1. PICK a : rows' = [rows EXCEPT ![t] = Bump([@ EXCEPT !.aiStatus = a])]
      BY <2>3 DEF MarkAiStatus
    <3>2. rows'[t] = Bump([rows[t] EXCEPT !.aiStatus = a])
      BY <1>1, <3>1 DEF IInv, TypeOK
    <3> QED BY <1>1, <2>1, <3>2 DEF Bump, Row
  <2>4. ASSUME AutoCloseCommit, t \in DOMAIN job
        PROVE  FALSE
    <3>1. rows'[t] = Bump(job[t].new)
      BY <1>1, <2>4 DEF AutoCloseCommit
    <3>2. job[t].new \in Row /\ job[t].new.category = rows[t].category
          /\ job[t].new.priority = rows[t].priority
      BY <1>1, <2>4, AutoCloseBatch
    <3> QED BY <1>1, <3>1, <3>2, BumpRow
  <2> QED BY <1>1, <2>1, <2>2, <2>3, <2>4, WhoChangesRow
<1>2. IInv /\ [Next]_vars =>
        [\A t \in Tickets :
           /\ Created(t)
           /\ rows[t].category # None \/ journal[t].human
           /\ <<rows'[t].category, rows'[t].priority>> # <<rows[t].category, rows[t].priority>>
           => \E u \in Users : Commits(u, t)]_vars
  BY <1>1
<1> QED BY <1>2, InductiveInvariant, PTL DEF Spec, AiLeavesClassified

\* An operation sets the first response at most once, and never for the requester.
LEMMA EditFirstResponse ==
  ASSUME NEW u \in Users, NEW d \in Nat, NEW row \in Row, NEW x \in Edits(u, d, row),
         x.new.firstResponseAt # row.firstResponseAt
  PROVE  row.firstResponseAt = None /\ u # row.requester
<1>1. CASE x \in Updates(u, row)
  <2>1. PICK q \in UpdateTicketRequest : x.new = Updated(row, q)
    BY <1>1 DEF Updates, Outcome
  <2> QED BY <2>1 DEF Updated, Row
<1>2. CASE x \in Claims(u, row) \cup Assigns(u, row)
  <2>1. PICK a \in Users : x = DoAssign(row, a)
    BY <1>2 DEF Claims, Assigns
  <2> QED BY <2>1 DEF DoAssign, Outcome, Row
<1>3. CASE x \in StatusChanges(u, d, row)
  <2>1. PICK q \in ChangeStatusRequest : x.new = StatusChanged(u, d, row, q)
    BY <1>3 DEF StatusChanges, Outcome
  <2>2. x.new.firstResponseAt = FirstResponse(u, d, row)
    BY <2>1 DEF StatusChanged, Row
  <2> QED BY <2>2 DEF FirstResponse
<1>4. CASE x \in Comments(u, d, row)
  <2>1. PICK i \in BOOLEAN : x = Commented(u, d, row, i)
    BY <1>4 DEF Comments
  <2>2. x.new.firstResponseAt \in {row.firstResponseAt, FirstResponse(u, d, row)}
    BY <2>1 DEF Commented, Outcome, Row
  <2> QED BY <2>2 DEF FirstResponse
<1> QED BY <1>1, <1>2, <1>3, <1>4 DEF Edits

\* BR-05, also for two agents who answer at once.
THEOREM FirstResponseKept == Spec => FirstResponseOnce
<1>1. ASSUME IInv, [Next]_vars, NEW t \in Tickets, Created(t),
             rows'[t].firstResponseAt # rows[t].firstResponseAt
      PROVE  /\ rows[t].firstResponseAt = None
             /\ \E u \in Users : Commits(u, t) /\ u # rows[t].requester
  <2>1. rows[t] \in Row /\ rows'[t] # rows[t]
    BY <1>1 DEF IInv, TypeOK, OrNone, Created
  <2>2. ASSUME NEW row \in Row, row.firstResponseAt = rows[t].firstResponseAt,
               rows'[t] = Bump(row)
        PROVE  FALSE
    BY <1>1, <2>2 DEF Bump, Row
  <2>3. ASSUME ApplyAiClassification(t)
        PROVE  FALSE
    <3>1. PICK c \in Categories, p \in Priorities :
            rows' = [rows EXCEPT ![t] = Bump(AiOutcome(rows[t], journal[t].human, c, p).new)]
      BY <2>3 DEF ApplyAiClassification
    <3> DEFINE new == AiOutcome(rows[t], journal[t].human, c, p).new
    <3>2. rows'[t] = Bump(new)
      BY <1>1, <3>1 DEF IInv, TypeOK
    <3>3. new \in Row /\ new.firstResponseAt = rows[t].firstResponseAt
      BY <2>1 DEF AiOutcome, Outcome, Row, OrNone, AiStatus
    <3> HIDE DEF new
    <3> QED BY <2>2, <3>2, <3>3
  <2>4. ASSUME MarkAiStatus(t)
        PROVE  FALSE
    <3>1. PICK a \in AiStatus : rows' = [rows EXCEPT ![t] = Bump([@ EXCEPT !.aiStatus = a])]
      BY <2>4 DEF MarkAiStatus, AiStatus
    <3>2. rows'[t] = Bump([rows[t] EXCEPT !.aiStatus = a])
      BY <1>1, <3>1 DEF IInv, TypeOK
    <3>3. [rows[t] EXCEPT !.aiStatus = a] \in Row
          /\ [rows[t] EXCEPT !.aiStatus = a].firstResponseAt = rows[t].firstResponseAt
      BY <2>1 DEF Row
    <3> QED BY <2>2, <3>2, <3>3
  <2>5. ASSUME AutoCloseCommit, t \in DOMAIN job
        PROVE  FALSE
    <3>1. rows'[t] = Bump(job[t].new)
      BY <1>1, <2>5 DEF AutoCloseCommit
    <3>2. PICK d \in 0..today : job[t] = AutoClosed(d, rows[t])
      BY <1>1, <2>5, AutoCloseBatch
    <3>3. job[t].new \in Row
      BY <1>1, <2>5, AutoCloseBatch
    <3>4. job[t].new = [rows[t] EXCEPT !.status = "CLOSED", !.closedAt = d]
      BY <3>2 DEF AutoClosed, Outcome
    <3>5. job[t].new.firstResponseAt = rows[t].firstResponseAt
      BY <2>1, <3>4 DEF Row
    <3> QED BY <2>2, <3>1, <3>3, <3>5
  <2>6. PICK u \in Users : Commits(u, t)
    BY <1>1, <2>1, <2>3, <2>4, <2>5, WhoChangesRow
  <2>7. PICK d \in 0..today : \E x \in Edits(u, d, rows[t]) :
                                x.new \in Row /\ rows'[t] = Bump(x.new)
    BY <1>1, <2>6, CommittedRow
  <2>8. PICK x \in Edits(u, d, rows[t]) : x.new \in Row /\ rows'[t] = Bump(x.new)
    BY <2>7
  <2>9. x.new.firstResponseAt # rows[t].firstResponseAt
    BY <2>2, <2>8
  <2>10. rows[t].firstResponseAt = None /\ u # rows[t].requester
    BY <2>1, <2>8, <2>9, EditFirstResponse
  <2> QED BY <2>6, <2>10
<1>2. IInv /\ [Next]_vars =>
        [\A t \in Tickets : Created(t) /\ rows'[t].firstResponseAt # rows[t].firstResponseAt =>
           /\ rows[t].firstResponseAt = None
           /\ \E u \in Users : Commits(u, t) /\ u # rows[t].requester]_vars
  BY <1>1
<1> QED BY <1>2, InductiveInvariant, PTL DEF Spec, FirstResponseOnce

-----------------------------------------------------------------------------
(***************************************************************************)
(* TicketLifecycle implements AtomicTickets: however the transactions      *)
(* interleave, the tickets table changes as if the operations had been     *)
(* carried out one at a time.                                              *)
(***************************************************************************)
(***************************************************************************)
(* The instance has its own copy of the operations: they are the same.     *)
(***************************************************************************)
LEMMA SameTable ==
  /\ \A from, to, role : Atomic!GetRule(from, to, role) = GetRule(from, to, role)
  /\ \A from, to, role, isRequester, isAssignee, hasAssignee, longNote :
       Atomic!Validate(from, to, role, isRequester, isAssignee, hasAssignee, longNote)
         <=> Validate(from, to, role, isRequester, isAssignee, hasAssignee, longNote)
BY DEF Atomic!GetRule, GetRule, Atomic!Validate, Validate, Atomic!Qualified, Qualified,
       Atomic!RequiresAssignee, RequiresAssignee,
       Atomic!RequiresResolutionNote, RequiresResolutionNote,
       Atomic!ALLOWED, ALLOWED, Atomic!TransitionRule, TransitionRule,
       Atomic!ALL_ROLES, ALL_ROLES, Atomic!UserRole, UserRole,
       Atomic!AGENT_ADMIN, AGENT_ADMIN, Atomic!ADMIN_ONLY, ADMIN_ONLY

LEMMA SameVocabulary ==
  /\ Atomic!TicketStatus = TicketStatus /\ Atomic!AGENT_ADMIN = AGENT_ADMIN
  /\ Atomic!Silent = Silent /\ Atomic!Quiet = Quiet
  /\ \A a, b : Atomic!Change(a, b) = Change(a, b)
  /\ \A S : Atomic!OrNone(S) = OrNone(S)
  /\ \A row, new, dirty, events :
       Atomic!Outcome(row, new, dirty, events) = Outcome(row, new, dirty, events)
  /\ \A row : Atomic!CheckConstraints(row) <=> CheckConstraints(row)
BY DEF Atomic!TicketStatus, TicketStatus, Atomic!AGENT_ADMIN, AGENT_ADMIN,
       Atomic!Silent, Silent, Atomic!Quiet, Quiet, Atomic!Change, Change,
       Atomic!OrNone, OrNone, Atomic!Outcome, Outcome,
       Atomic!CheckConstraints, CheckConstraints

LEMMA SameUpdates ==
  ASSUME NEW u, NEW row
  PROVE  Atomic!Updates(u, row) = Updates(u, row)
BY DEF Atomic!Updates, Updates, Atomic!UpdateTicketRequest, UpdateTicketRequest,
       Atomic!CanUpdate, CanUpdate, Atomic!CanEdit, CanEdit, Atomic!Updated, Updated,
       Atomic!UpdateEvents, UpdateEvents, Atomic!Reclassifies, Reclassifies,
       Atomic!Reprioritises, Reprioritises, Atomic!AGENT_ADMIN, AGENT_ADMIN,
       Atomic!Quiet, Quiet, Atomic!Silent, Silent, Atomic!Change, Change,
       Atomic!OrNone, OrNone, Atomic!Outcome, Outcome

LEMMA SameAssignments ==
  ASSUME NEW u, NEW row
  PROVE  Atomic!Claims(u, row) \cup Atomic!Assigns(u, row) = Claims(u, row) \cup Assigns(u, row)
<1>1. Atomic!CanMoveToAssigned(u, row) <=> CanMoveToAssigned(u, row)
  BY SameTable DEF Atomic!CanMoveToAssigned, CanMoveToAssigned
<1>2. \A a : Atomic!DoAssign(row, a) = DoAssign(row, a)
  BY DEF Atomic!DoAssign, DoAssign, Atomic!Quiet, Quiet, Atomic!Silent, Silent,
         Atomic!Change, Change, Atomic!Outcome, Outcome
<1>3. Atomic!Claims(u, row) = Claims(u, row)
  BY <1>1, <1>2 DEF Atomic!Claims, Claims, Atomic!CanClaim, CanClaim
<1>4. Atomic!Assigns(u, row) = Assigns(u, row)
  BY <1>1, <1>2 DEF Atomic!Assigns, Assigns, Atomic!CanAssign, CanAssign,
                    Atomic!CanBeAssigned, CanBeAssigned, Atomic!AGENT_ADMIN, AGENT_ADMIN
<1> QED BY <1>3, <1>4

LEMMA SameStatusChanges ==
  ASSUME NEW u, NEW d, NEW row
  PROVE  Atomic!StatusChanges(u, d, row) = StatusChanges(u, d, row)
<1>1. Atomic!ChangeStatusRequest = ChangeStatusRequest
  BY DEF Atomic!ChangeStatusRequest, ChangeStatusRequest, Atomic!TicketStatus, TicketStatus
<1>2. \A q : Atomic!CanChangeStatus(u, d, row, q) <=> CanChangeStatus(u, d, row, q)
  BY SameTable DEF Atomic!CanChangeStatus, CanChangeStatus, Atomic!CanView, CanView,
         Atomic!WithinReopenWindow, WithinReopenWindow, Atomic!NoteAfter, NoteAfter,
         Atomic!AGENT_ADMIN, AGENT_ADMIN
<1>3. \A q : Atomic!StatusChanged(u, d, row, q) = StatusChanged(u, d, row, q)
  BY DEF Atomic!StatusChanged, StatusChanged, Atomic!NoteAfter, NoteAfter,
         Atomic!ResolvedAtAfter, ResolvedAtAfter, Atomic!FirstResponse, FirstResponse,
         Atomic!AGENT_ADMIN, AGENT_ADMIN
<1>4. \A q : Atomic!Outcome(row, Atomic!StatusChanged(u, d, row, q), TRUE,
                            [Atomic!Quiet EXCEPT !.status = Atomic!Change(row.status, q.status)])
             = Outcome(row, StatusChanged(u, d, row, q), TRUE,
                       [Quiet EXCEPT !.status = Change(row.status, q.status)])
  BY <1>3, SameVocabulary
<1> QED BY <1>1, <1>2, <1>4 DEF Atomic!StatusChanges, StatusChanges

LEMMA SameComments ==
  ASSUME NEW u, NEW d, NEW row
  PROVE  Atomic!Comments(u, d, row) = Comments(u, d, row)
BY DEF Atomic!Comments, Comments, Atomic!Commented, Commented, Atomic!CanView, CanView,
       Atomic!FirstResponse, FirstResponse, Atomic!AGENT_ADMIN, AGENT_ADMIN,
       Atomic!Quiet, Quiet, Atomic!Silent, Silent, Atomic!Change, Change,
       Atomic!Outcome, Outcome

LEMMA SameEdits ==
  ASSUME NEW u, NEW d, NEW row
  PROVE  Atomic!Edits(u, d, row) = Edits(u, d, row)
BY SameUpdates, SameAssignments, SameStatusChanges, SameComments DEF Atomic!Edits, Edits

LEMMA SameSystemWrites ==
  /\ \A row, human, c, p : Atomic!AiOutcome(row, human, c, p) = AiOutcome(row, human, c, p)
  /\ \A d, row : /\ Atomic!DueForAutoClose(d, row) <=> DueForAutoClose(d, row)
                 /\ Atomic!AutoClosed(d, row) = AutoClosed(d, row)
  /\ \A u, c, p : Atomic!NewTicket(u, c, p) = NewTicket(u, c, p)
BY DEF Atomic!AiOutcome, AiOutcome, Atomic!DueForAutoClose, DueForAutoClose,
       Atomic!AutoClosed, AutoClosed, Atomic!NewTicket, NewTicket,
       Atomic!Quiet, Quiet, Atomic!Silent, Silent, Atomic!Change, Change,
       Atomic!Outcome, Outcome
-----------------------------------------------------------------------------
(***************************************************************************)
(* The refinement mapping: human is read off the journal.                  *)
(***************************************************************************)
Human == [t \in Tickets |-> journal[t] # None /\ journal[t].human]

LEMMA MapInit ==
  ASSUME Init
  PROVE  Atomic!Init
BY DEF Init, Atomic!Init

\* Steps that write neither a row nor the journal nor the clock are stuttering steps.
LEMMA MapStutter ==
  ASSUME rows' = rows, journal' = journal, today' = today
  PROVE  UNCHANGED Atomic!vars
BY DEF Atomic!vars

LEMMA MapCreate ==
  ASSUME IInv, NEW u \in Users, NEW t \in Tickets, Create(u, t)
  PROVE  Atomic!Create(u, t)
<1>1. PICK c \in OrNone(Categories), p \in OrNone(Priorities) :
        /\ rows' = [rows EXCEPT ![t] = NewTicket(u, c, p)]
        /\ journal' = [journal EXCEPT ![t] = FirstJournal(NewTicket(u, c, p))]
  BY DEF Create
<1>2. rows[t] = None /\ journal[t] = None /\ today' = today
  BY DEF Create, Created, IInv, TypeOK
<1>3. Human' = Human
  <2>1. \A s \in Tickets : s # t => journal'[s] = journal[s]
    BY <1>1 DEF IInv, TypeOK
  <2>2. ~journal'[t].human
    BY <1>1 DEF FirstJournal, IInv, TypeOK
  <2>3. \A s \in Tickets : (journal'[s] # None /\ journal'[s].human)
                           = (journal[s] # None /\ journal[s].human)
    BY <1>2, <2>1, <2>2
  <2> QED BY <2>3 DEF Human
<1>4. rows' = [rows EXCEPT ![t] = Atomic!NewTicket(u, c, p)]
  BY <1>1, SameSystemWrites
<1>5. c \in Atomic!OrNone(Categories) /\ p \in Atomic!OrNone(Priorities)
  BY SameVocabulary
<1> QED BY <1>2, <1>3, <1>4, <1>5 DEF Atomic!Create, Atomic!Created, Human

\* What a replay does to the mapped variable, whoever wrote the events.
LEMMA HumanAfter ==
  ASSUME IInv, NEW t \in Tickets, Created(t), NEW e \in Events, NEW byUser \in BOOLEAN,
         journal' = [journal EXCEPT ![t] = Replay(journal[t], e, byUser)]
  PROVE  Human' = [Human EXCEPT ![t] =
                     @ \/ (byUser /\ (e.category # Silent \/ e.priority # Silent))]
<1> DEFINE h == byUser /\ (e.category # Silent \/ e.priority # Silent)
           j == Replay(journal[t], e, byUser)
<1>1. journal[t] \in Journal /\ journal[t] # None
  BY DEF IInv, TypeOK, OrNone, Created
<1>2. j \in Journal
  BY <1>1, ReplayType
<1>3. j.human = (journal[t].human \/ h)
  BY DEF Replay
<1>4. j # None
  BY <1>2, NullJournalAssumption
<1>5. journal'[t] = j /\ \A s \in Tickets : s # t => journal'[s] = journal[s]
  BY DEF IInv, TypeOK
<1>6. Human[t] = journal[t].human
  <2>1. journal[t].human \in BOOLEAN
    BY <1>1 DEF Journal
  <2> QED BY <1>1, <2>1 DEF Human
<1>7. Human'[t] = (Human[t] \/ h)
  <2> HIDE DEF h, j
  <2>1. Human'[t] = (journal'[t] # None /\ journal'[t].human)
    BY DEF Human
  <2> QED BY <2>1, <1>3, <1>4, <1>5, <1>6
<1>8. \A s \in Tickets : s # t => Human'[s] = Human[s]
  BY <1>5 DEF Human
<1>9. Human = [s \in Tickets |-> Human[s]] /\ Human' = [s \in Tickets |-> Human'[s]]
  BY DEF Human
<1> HIDE DEF Human, h, j
<1>10. [Human EXCEPT ![t] = @ \/ h] = [s \in Tickets |-> IF s = t THEN Human[t] \/ h ELSE Human[s]]
  BY <1>9
<1>11. \A s \in Tickets : Human'[s] = IF s = t THEN Human[t] \/ h ELSE Human[s]
  BY <1>7, <1>8
<1> QED BY <1>9, <1>10, <1>11 DEF h

LEMMA MapCommit ==
  ASSUME IInv, NEW u \in Users, Commit(u)
  PROVE  [Atomic!Next]_Atomic!vars
<1> DEFINE t == tx[u].ticket
           x == tx[u].outcome
           d == tx[u].day
<1>1. /\ t \in Tickets /\ Created(t) /\ x \in OutcomeType /\ d \in 0..today
      /\ x \in Edits(u, d, x.base)
      /\ x.dirty => x.base = rows[t] /\ CheckConstraints(x.new)
  BY CommitWrites
<1>2. /\ rows' = IF x.dirty THEN [rows EXCEPT ![t] = Bump(x.new)] ELSE rows
      /\ journal' = [journal EXCEPT ![t] = Replay(journal[t], x.events, TRUE)]
      /\ today' = today
  BY DEF Commit
<1> HIDE DEF t, x, d
<1>3. x.events \in Events /\ x.dirty \in BOOLEAN /\ x.base \in Row /\ d \in Nat
  BY <1>1 DEF OutcomeType
<1>4. Human' = [Human EXCEPT ![t] =
                  @ \/ (TRUE /\ (x.events.category # Silent \/ x.events.priority # Silent))]
  BY <1>1, <1>2, <1>3, HumanAfter
<1>5. CASE x.dirty
  <2>1. rows' = [rows EXCEPT ![t] = Atomic!Written(x)]
    BY <1>2, <1>5 DEF Atomic!Written, Atomic!NextVersion, Bump
  <2>2. Human' = [Human EXCEPT ![t] = @ \/ Atomic!Classifies(x)]
    BY <1>4, SameVocabulary DEF Atomic!Classifies
  <2>3. x \in Atomic!Edits(u, d, rows[t]) /\ Atomic!CheckConstraints(x.new)
    BY <1>1, <1>5, SameEdits, SameVocabulary
  <2>4. PICK s \in Tickets : s = t
    BY <1>1
  <2>5. Atomic!Edit(u, s)
    BY <1>1, <1>2, <1>5, <2>1, <2>2, <2>3, <2>4
       DEF Atomic!Edit, Atomic!Created, Created, Human
  <2> QED BY <2>5 DEF Atomic!Next
<1>6. CASE ~x.dirty
  <2>1. x.events.category = Silent /\ x.events.priority = Silent
    BY <1>1, <1>3, <1>6, EditJournal
  <2>2. Human' = Human
    BY <1>4, <2>1, Zenon DEF Human
  <2> QED BY <1>2, <1>6, <2>2 DEF Atomic!vars, Human
<1> QED BY <1>3, <1>5, <1>6

LEMMA MapApplyAi ==
  ASSUME IInv, NEW t \in Tickets, ApplyAiClassification(t)
  PROVE  Atomic!ApplyAiClassification(t)
<1>1. PICK c \in Categories, p \in Priorities :
        LET x == AiOutcome(rows[t], journal[t].human, c, p)
        IN  /\ rows' = [rows EXCEPT ![t] = Bump(x.new)]
            /\ journal' = [journal EXCEPT ![t] = Replay(@, x.events, FALSE)]
  BY DEF ApplyAiClassification
<1> DEFINE x == AiOutcome(rows[t], journal[t].human, c, p)
<1>2. rows[t] \in Row /\ journal[t] \in Journal /\ Created(t) /\ journal[t] # None
  BY DEF ApplyAiClassification, IInv, TypeOK, OrNone, Created
<1>3. journal[t].human \in BOOLEAN
  BY <1>2 DEF Journal
<1>4. x.events \in Events
  BY <1>2, <1>3, AiWrite
<1>5. Human[t] = journal[t].human
  BY <1>2, <1>3 DEF Human
<1>6. /\ rows' = [rows EXCEPT ![t] = Bump(x.new)]
      /\ journal' = [journal EXCEPT ![t] = Replay(journal[t], x.events, FALSE)]
      /\ today' = today /\ rows[t].aiStatus = "PENDING"
  BY <1>1 DEF ApplyAiClassification
<1>7. Human' = Human
  <2>1. Human' = [Human EXCEPT ![t] =
                    @ \/ (FALSE /\ (x.events.category # Silent \/ x.events.priority # Silent))]
    <3> HIDE DEF x
    <3> QED BY <1>2, <1>4, <1>6, HumanAfter
  <2> QED BY <2>1, Zenon DEF Human
<1>8. rows' = [rows EXCEPT ![t] = Atomic!Written(Atomic!AiOutcome(rows[t], Human[t], c, p))]
  BY <1>5, <1>6, SameSystemWrites DEF Atomic!Written, Atomic!NextVersion, Bump
<1> QED BY <1>2, <1>6, <1>7, <1>8
        DEF Atomic!ApplyAiClassification, Atomic!Created, Created, Human

LEMMA MapMarkAi ==
  ASSUME IInv, NEW t \in Tickets, MarkAiStatus(t)
  PROVE  Atomic!MarkAiStatus(t)
BY DEF MarkAiStatus, Atomic!MarkAiStatus, Created, Atomic!Created, Bump, Atomic!NextVersion

LEMMA MapAutoClose ==
  ASSUME IInv, AutoCloseCommit
  PROVE  Atomic!AutoClose
<1>1. job # None /\ DOMAIN job \subseteq Tickets
  BY DEF AutoCloseCommit, IInv, TypeOK
<1>2. PICK d \in 0..today : \A t \in DOMAIN job : /\ DueForAutoClose(d, job[t].base)
                                                  /\ job[t] = AutoClosed(d, job[t].base)
  BY <1>1 DEF IInv, Pending
<1>3. ASSUME NEW t \in DOMAIN job
      PROVE  /\ Created(t) /\ journal[t] \in Journal
             /\ job[t].base = rows[t]
             /\ job[t].events \in Events
  <2>1. Created(t) /\ journal[t] \in Journal /\ job[t].events \in Events
    BY <1>3, AutoCloseBatch
  <2>2. PICK e \in 0..today : job[t] = AutoClosed(e, rows[t])
    BY <1>3, AutoCloseBatch
  <2> QED BY <2>1, <2>2 DEF AutoClosed, Outcome
<1>4. rows' = [t \in Tickets |-> IF t \in DOMAIN job
                                 THEN Atomic!Written(Atomic!AutoClosed(d, rows[t])) ELSE rows[t]]
  <2>1. \A t \in DOMAIN job : Bump(job[t].new) = Atomic!Written(Atomic!AutoClosed(d, rows[t]))
    BY <1>2, <1>3, SameSystemWrites DEF Bump, Atomic!Written, Atomic!NextVersion
  <2> QED BY <2>1 DEF AutoCloseCommit
<1>5. \A t \in DOMAIN job : Atomic!Created(t) /\ Atomic!DueForAutoClose(d, rows[t])
  BY <1>2, <1>3, SameSystemWrites DEF Created, Atomic!Created
<1>6. Human' = Human
  <2>1. ASSUME NEW t \in Tickets, t \in DOMAIN job
        PROVE  (journal'[t] # None /\ journal'[t].human) = (journal[t] # None /\ journal[t].human)
    <3>1. journal'[t] = Replay(journal[t], job[t].events, FALSE)
      BY <2>1 DEF AutoCloseCommit
    <3>2. journal'[t] # None /\ journal[t] # None
      BY <1>3, <2>1, <3>1, ReplayType, NullJournalAssumption
    <3>3. journal'[t].human = journal[t].human
      <4>1. journal'[t].human = (journal[t].human \/ FALSE)
        BY <3>1 DEF Replay
      <4>2. journal[t].human \in BOOLEAN
        BY <1>3, <2>1 DEF Journal
      <4> QED BY <4>1, <4>2
    <3> QED BY <3>2, <3>3
  <2>2. ASSUME NEW t \in Tickets, t \notin DOMAIN job
        PROVE  journal'[t] = journal[t]
    BY <2>2 DEF AutoCloseCommit
  <2> QED BY <2>1, <2>2 DEF Human
<1>7. today' = today
  BY DEF AutoCloseCommit
<1> QED BY <1>1, <1>4, <1>5, <1>6, <1>7 DEF Atomic!AutoClose, Human

\* Every step of the transactions is a step of the atomic service or a stutter.
LEMMA MapStep ==
  ASSUME IInv, [Next]_vars
  PROVE  [Atomic!Next]_Atomic!vars
<1>1. ASSUME NEW u \in Users, NEW t \in Tickets, Request(u, t)
      PROVE  [Atomic!Next]_Atomic!vars
  <2>1. CASE Create(u, t)
    BY <2>1, MapCreate DEF Atomic!Next
  <2>2. CASE ~Create(u, t)
    <3>1. rows' = rows /\ journal' = journal /\ today' = today
      BY <1>1, <2>2 DEF Request, Update, Claim, Assign, ChangeStatus, AddComment, Begin
    <3> QED BY <3>1, MapStutter
  <2> QED BY <2>1, <2>2
<1>2. ASSUME NEW u \in Users, Commit(u)
      PROVE  [Atomic!Next]_Atomic!vars
  BY <1>2, MapCommit
<1>3. ASSUME NEW t \in Tickets, ApplyAiClassification(t) \/ MarkAiStatus(t)
      PROVE  [Atomic!Next]_Atomic!vars
  BY <1>3, MapApplyAi, MapMarkAi DEF Atomic!Next
<1>4. CASE AutoCloseCommit
  BY <1>4, MapAutoClose DEF Atomic!Next
<1>5. CASE NextDay
  <2>1. Atomic!NextDay
    BY <1>5 DEF NextDay, Atomic!NextDay
  <2> QED BY <2>1 DEF Atomic!Next
<1>6. CASE \/ \E u \in Users : Rollback(u)
           \/ AutoCloseLoad \/ AutoCloseRollback \/ UNCHANGED vars
  <2>1. rows' = rows /\ journal' = journal /\ today' = today
    BY <1>6 DEF Rollback, AutoCloseLoad, AutoCloseRollback, vars
  <2> QED BY <2>1, MapStutter
<1> QED BY <1>1, <1>2, <1>3, <1>4, <1>5, <1>6 DEF Next

\* Reading without a lock, checking the version and committing later is as good as
\* carrying the operations out one at a time.
THEOREM ImplementsAtomicTickets == Spec => AtomicSpec
<1>1. Init => Atomic!Init
  BY MapInit
<1>2. IInv /\ [Next]_vars => [Atomic!Next]_Atomic!vars
  BY MapStep
<1> QED BY <1>1, <1>2, InductiveInvariant, PTL DEF Spec, AtomicSpec, Atomic!Spec
=============================================================================
