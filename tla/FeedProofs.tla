----------------------------- MODULE FeedProofs -----------------------------
(***************************************************************************)
(* What is announced, and where it goes, for any users, processes, sockets *)
(* and number of open transactions.                                        *)
(*                                                                         *)
(* DbInv is about the notifications: whose they are (Apart), what an open  *)
(* transaction has inserted (Doing), and that those which may yet be       *)
(* committed repeat no change of status (StatusApart).  WireInv is about   *)
(* their way: a new event is scheduled by one process and carried by one   *)
(* message per other process (Tracked), what a page was told is not on its *)
(* way to it any more (Done), and what it was promised and not told is     *)
(* (Promised), as long as its process is subscribed (Connected).  WatchInv *)
(* is about the badges of a process that runs alone (Single): once its     *)
(* loop has delivered what it has, a page counts the notifications that    *)
(* are not read or whose push is owed (Tallied, Awaited).                  *)
(***************************************************************************)
EXTENDS Feed, FiniteSetTheorems, SequenceTheorems, WellFoundedInduction, TLAPS

(***************************************************************************)
(* What an operation announces.                                            *)
(***************************************************************************)
StatusTypes == {"TICKET_STATUS_CHANGED", "TICKET_RESOLVED", "RATING_REQUESTED"}

\* Only a change of status announces one, and it updates the ticket.
Prepared(step) ==
  /\ IsFiniteSet(step.calls)
  /\ step.kind = "status" => step.outcome.dirty
  /\ \A c \in step.calls : c.type \in StatusTypes => step.kind = "status"

\* notify_many makes a call for each recipient.
LEMMA TellType ==
  ASSUME NEW R, R \subseteq OrNone(Users), NEW type \in NotificationType
  PROVE  /\ Tell(R, type) \subseteq Call
         /\ IsFiniteSet(Tell(R, type))
         /\ \A c \in Tell(R, type) : c.type = type
<1>1. R \ {None} \subseteq Users
  BY DEF OrNone
<1>2. IsFiniteSet(R \ {None})
  BY <1>1, FeedUsersAssumption, FS_Subset
<1> DEFINE f == [u \in R \ {None} |-> [user |-> u, type |-> type]]
<1>3. f \in Surjection(R \ {None}, Tell(R, type))
  BY DEF Surjection, Tell
<1>4. IsFiniteSet(Tell(R, type))
  BY <1>2, <1>3, FS_Surjection
<1> QED BY <1>1, <1>4 DEF Tell, Call

\* Claiming and assigning yield a typed outcome.
LEMMA AssignType ==
  ASSUME NEW d \in Row, NEW a \in Users
  PROVE  DoAssign(d, a) \in OutcomeType
<1> DEFINE x == DoAssign(d, a)
           new == [d EXCEPT !.assignee = a, !.status = "ASSIGNED"]
<1>1. new \in Row
  BY DEF Row, OrNone, TicketStatus
<1>2. x.events \in Events
  BY DEF DoAssign, Outcome, Events, Row, Quiet, Silent, Change, OrNone, TicketStatus
<1>3. x.dirty \in BOOLEAN
      /\ x = [base |-> d, new |-> new, dirty |-> x.dirty, events |-> x.events]
  BY DEF DoAssign, Outcome
<1> HIDE DEF new, x
<1> QED BY <1>1, <1>2, <1>3 DEF OutcomeType, x

\* So does a change of status, and it updates the row.
LEMMA StatusType ==
  ASSUME NEW u \in Users, NEW d \in Nat, NEW old \in Row, NEW x \in StatusChanges(u, d, old)
  PROVE  x \in OutcomeType /\ x.dirty
<1>1. PICK q \in ChangeStatusRequest :
        x = Outcome(old, StatusChanged(u, d, old, q), TRUE,
                    [Quiet EXCEPT !.status = Change(old.status, q.status)])
  BY DEF StatusChanges
<1>2. q.status \in TicketStatus /\ NoteAfter(old, q) \in BOOLEAN
  BY DEF ChangeStatusRequest, NoteAfter, Row
<1>3. FirstResponse(u, d, old) \in OrNone(Nat)
  BY DEF FirstResponse, Row, OrNone
<1>4. ResolvedAtAfter(d, old, q.status) \in OrNone(Nat)
  BY DEF ResolvedAtAfter, Row, OrNone
<1>5. StatusChanged(u, d, old, q) \in Row
  <2>1. ASSUME NEW s \in TicketStatus, NEW n \in BOOLEAN, NEW r \in OrNone(Nat),
               NEW c \in OrNone(Nat), NEW f \in OrNone(Nat)
        PROVE  [old EXCEPT !.status = s, !.longNote = n, !.resolvedAt = r,
                           !.closedAt = c, !.firstResponseAt = f] \in Row
    BY DEF Row
  <2>2. (IF q.status = "CLOSED" THEN d ELSE old.closedAt) \in OrNone(Nat)
    BY DEF Row, OrNone
  <2> QED BY <1>2, <1>3, <1>4, <2>1, <2>2 DEF StatusChanged
<1>6. [Quiet EXCEPT !.status = Change(old.status, q.status)] \in Events
  BY <1>2 DEF Events, Row, Quiet, Silent, Change, OrNone
<1> QED BY <1>1, <1>5, <1>6 DEF Outcome, OutcomeType

\* And a comment.
LEMMA CommentType ==
  ASSUME NEW u \in Users, NEW d \in Nat, NEW old \in Row, NEW i \in BOOLEAN
  PROVE  Commented(u, d, old, i) \in OutcomeType
<1> DEFINE x == Commented(u, d, old, i)
<1>1. FirstResponse(u, d, old) \in OrNone(Nat)
  BY DEF FirstResponse, Row, OrNone
<1>2. [old EXCEPT !.firstResponseAt = FirstResponse(u, d, old)] \in Row
  BY <1>1 DEF Row
<1>3. x.new \in Row /\ x.base = old /\ x.events = Quiet /\ x.dirty \in BOOLEAN
      /\ x = [base |-> x.base, new |-> x.new, dirty |-> x.dirty, events |-> x.events]
  BY <1>2 DEF Commented, Outcome
<1>4. Quiet \in Events
  BY DEF Quiet, Events, Silent, Change, OrNone
<1> HIDE DEF x
<1>5. x \in OutcomeType
  BY <1>3, <1>4 DEF OutcomeType
<1> QED BY <1>5 DEF x

\* Who is told of what lies in the people of the row.
LEMMA PeopleType ==
  ASSUME NEW x \in OutcomeType, NEW internal \in BOOLEAN
  PROVE  /\ Tell({x.new.assignee}, "TICKET_ASSIGNED") \subseteq Call
         /\ IsFiniteSet(Tell({x.new.assignee}, "TICKET_ASSIGNED"))
         /\ \A c \in Tell({x.new.assignee}, "TICKET_ASSIGNED") : c.type = "TICKET_ASSIGNED"
         /\ NotifyComment(x, internal) \subseteq Call
         /\ IsFiniteSet(NotifyComment(x, internal))
         /\ \A c \in NotifyComment(x, internal) : c.type = "TICKET_COMMENTED"
         /\ NotifyStatusChange(x) \subseteq Call
         /\ IsFiniteSet(NotifyStatusChange(x))
<1> DEFINE r == x.new.requester
           a == x.new.assignee
<1>1. r \in OrNone(Users) /\ a \in OrNone(Users)
  BY DEF OutcomeType, Row, OrNone
<1>2. /\ {a} \subseteq OrNone(Users) /\ {r} \subseteq OrNone(Users)
      /\ {r, a} \subseteq OrNone(Users) /\ {a} \cup {} \subseteq OrNone(Users)
      /\ {a} \cup {r} \subseteq OrNone(Users)
  BY <1>1
<1> HIDE DEF r, a
<1>3. /\ Tell({a}, "TICKET_ASSIGNED") \subseteq Call
      /\ IsFiniteSet(Tell({a}, "TICKET_ASSIGNED"))
      /\ \A c \in Tell({a}, "TICKET_ASSIGNED") : c.type = "TICKET_ASSIGNED"
  BY <1>2, TellType DEF NotificationType
<1>4. /\ NotifyComment(x, internal) \subseteq Call
      /\ IsFiniteSet(NotifyComment(x, internal))
      /\ \A c \in NotifyComment(x, internal) : c.type = "TICKET_COMMENTED"
  BY <1>2, TellType DEF NotifyComment, NotificationType, a, r
<1>5. \A R \in SUBSET OrNone(Users), t \in NotificationType :
        Tell(R, t) \subseteq Call /\ IsFiniteSet(Tell(R, t))
  BY TellType
<1>6. IsFiniteSet({})
  BY FS_EmptySet
<1>7. NotifyStatusChange(x) \subseteq Call
  BY <1>2, <1>5 DEF NotifyStatusChange, NotificationType, a, r
<1>8. \A S, T : IsFiniteSet(S) /\ IsFiniteSet(T) => IsFiniteSet(S \cup T)
  BY FS_Union
<1>9. IsFiniteSet(NotifyStatusChange(x))
  BY <1>2, <1>5, <1>6, <1>8 DEF NotifyStatusChange, NotificationType, a, r
<1> QED BY <1>3, <1>4, <1>7, <1>9 DEF a

\* Every request that may begin.
LEMMA StepsPrepared ==
  ASSUME row \in Row, now \in Nat, NEW u \in Users, NEW s \in Steps(u)
  PROVE  s \in Operation /\ Prepared(s)
<1>1. ASSUME NEW kind \in {"assign", "status", "comment", "scan"}, NEW x \in OutcomeType,
             NEW calls \in SUBSET Call
      PROVE  Step(u, kind, x, calls) \in Operation
  BY DEF Step, Operation, OrNone
<1>2. CASE \E x \in Claims(u, row) \cup Assigns(u, row) :
             s = Step(u, "assign", x, Tell({x.new.assignee}, "TICKET_ASSIGNED"))
  <2>1. PICK x \in Claims(u, row) \cup Assigns(u, row) :
               s = Step(u, "assign", x, Tell({x.new.assignee}, "TICKET_ASSIGNED"))
    BY <1>2
  <2>2. x \in OutcomeType
    BY AssignType DEF Claims, Assigns
  <2> QED BY <1>1, <2>1, <2>2, PeopleType DEF Step, Prepared, StatusTypes
<1>3. CASE \E x \in StatusChanges(u, now, row) : s = Step(u, "status", x, NotifyStatusChange(x))
  <2>1. PICK x \in StatusChanges(u, now, row) : s = Step(u, "status", x, NotifyStatusChange(x))
    BY <1>3
  <2>2. x \in OutcomeType /\ x.dirty
    BY StatusType
  <2> QED BY <1>1, <2>1, <2>2, PeopleType DEF Step, Prepared
<1>4. CASE \E i \in BOOLEAN :
             LET x == Commented(u, now, row, i)
             IN  s = Step(u, "comment", x, NotifyComment(x, i /\ Role[u] \in AGENT_ADMIN))
  <2>1. PICK i \in BOOLEAN :
               LET x == Commented(u, now, row, i)
               IN  s = Step(u, "comment", x, NotifyComment(x, i /\ Role[u] \in AGENT_ADMIN))
    BY <1>4
  <2>2. Commented(u, now, row, i) \in OutcomeType
    BY CommentType
  <2> QED BY <1>1, <2>1, <2>2, PeopleType DEF Step, Prepared, StatusTypes
<1> QED BY <1>2, <1>3, <1>4 DEF Steps

\* The scan.
LEMMA ScanPrepared ==
  ASSUME row \in Row
  PROVE  Scan \in Operation /\ Prepared(Scan)
<1> DEFINE R == {row.assignee} \cup Admins
           x == Outcome(row, row, TRUE, Quiet)
<1>1. R \subseteq OrNone(Users)
  BY DEF Admins, Row, OrNone
<1>2. x \in OutcomeType
  BY DEF Outcome, OutcomeType, Quiet, Events, Silent, Change, OrNone
<1> HIDE DEF R, x
<1>3. /\ Tell(R, "SLA_BREACHED") \subseteq Call /\ IsFiniteSet(Tell(R, "SLA_BREACHED"))
      /\ \A c \in Tell(R, "SLA_BREACHED") : c.type = "SLA_BREACHED"
  BY <1>1, TellType DEF NotificationType
<1>4. Scan = Step(None, "scan", x, Tell(R, "SLA_BREACHED"))
  BY DEF Scan, R, x
<1> QED BY <1>2, <1>3, <1>4 DEF Step, Operation, Prepared, OrNone, StatusTypes

-----------------------------------------------------------------------------
(***************************************************************************)
(* The invariant of the database: what open transactions have inserted and *)
(* may still announce.                                                     *)
(***************************************************************************)
DbTypes ==
  /\ deployment \in Deployments /\ now \in Nat /\ row \in Row
  /\ notes \in Seq(Note)
  /\ tx \in [Requests -> OrNone(Transaction)]

\* A transaction t has inserted only what its operation announces, and nothing that is not
\* pending.
Holds(t, ns) ==
  /\ t.notes \subseteq DOMAIN ns
  /\ t.phase = "loaded" => t.notes = {}
  /\ \A i \in t.notes : /\ ns[i].state = "pending"
                        /\ \E c \in t.step.calls : ns[i].user = c.user /\ ns[i].type = c.type

\* Whomever its operation addresses has a committed notification in the window, or one of its
\* own.
Tells(t, ns) ==
  t.phase = "worked" =>
    \A c \in Addressed(t.step) : \E i \in DOMAIN ns :
      /\ ns[i].state = "committed" \/ i \in t.notes
      /\ ns[i].user = c.user /\ ns[i].type = c.type
      /\ ns[i].at >= t.at - DedupTicks

\* The open transactions.
Doing ==
  \A r \in Requests : Open(r) =>
    /\ tx[r].at <= now
    /\ Prepared(tx[r].step)
    /\ Holds(tx[r], notes)
    /\ Tells(tx[r], notes)

\* A pending notification is that of one open transaction.
Apart ==
  /\ \A q, r \in Requests : Open(q) /\ Open(r) /\ q # r => tx[q].notes \cap tx[r].notes = {}
  /\ \A i \in DOMAIN notes : notes[i].state = "pending" => \E r \in Requests : Open(r) /\ i \in tx[r].notes

\* StatusAnnouncedOnce, of the notifications that may yet be committed too.
StatusApart ==
  \A i, j \in DOMAIN notes :
    /\ i < j /\ notes[i].state # "gone" /\ notes[j].state # "gone"
    /\ notes[i].user = notes[j].user /\ notes[i].type = notes[j].type
    /\ notes[i].type \in StatusTypes
    => notes[j].checked - notes[i].at > DedupTicks

DbInv == DbTypes /\ Doing /\ Apart /\ StatusApart /\ NothingHidden

-----------------------------------------------------------------------------
\* A function on 1..n is a sequence of length n.
LEMMA AsSeq ==
  ASSUME NEW S, NEW n \in Nat, NEW f \in [1..n -> S]
  PROVE  f \in Seq(S) /\ Len(f) = n /\ DOMAIN f = 1..n
<1>1. f \in Seq(S)
  BY SeqDef
<1>2. Len(f) \in Nat /\ DOMAIN f = 1..Len(f) /\ DOMAIN f = 1..n
  BY <1>1, LenProperties
<1> QED BY <1>1, <1>2

\* The calls that insert, in a sequence without repetition.
LEMMA NewIs ==
  ASSUME NEW r \in Requests, DbTypes, Doing, Open(r)
  PROVE  /\ New(r) \in Seq(Call) /\ Len(New(r)) \in Nat /\ DOMAIN New(r) = 1..Len(New(r))
         /\ \A k \in 1..Len(New(r)) : New(r)[k] \in Call /\ New(r)[k] \in Inserts(tx[r].step)
         /\ \A k, l \in 1..Len(New(r)) : New(r)[k] = New(r)[l] => k = l
         /\ \A c \in Inserts(tx[r].step) : \E k \in 1..Len(New(r)) : New(r)[k] = c
<1> DEFINE S == Inserts(tx[r].step)
           n == Cardinality(S)
<1>1. tx[r] \in Transaction
  BY DEF DbTypes, Open, OrNone
<1>2. S \subseteq Call /\ S \subseteq tx[r].step.calls
  BY <1>1 DEF Inserts, Addressed, Transaction, Operation
<1>3. IsFiniteSet(S)
  BY <1>2, FS_Subset DEF Doing, Prepared
<1>4. n \in Nat /\ ExistsBijection(1..n, S)
  BY <1>3, FS_CardinalityType
<1>5. PICK g \in [1..n -> S] : IsInjective(g)
  BY <1>4 DEF ExistsBijection, Bijection, Injection, IsInjective
<1>6. New(r) \in [1..n -> S] /\ IsInjective(New(r))
  BY <1>5 DEF New, SetToSeq
<1>7. New(r) \in [1..n -> Call]
  BY <1>2, <1>6
<1>8. New(r) \in Seq(Call) /\ Len(New(r)) = n /\ DOMAIN New(r) = 1..n
  BY <1>4, <1>7, AsSeq
<1>9. \A k, l \in 1..n : New(r)[k] = New(r)[l] => k = l
  BY <1>6 DEF IsInjective
<1>10. New(r) \in Injection(1..n, S)
  BY <1>6, <1>9 DEF Injection
<1>11. IsFiniteSet(1..n) /\ Cardinality(1..n) = n
  BY <1>4, FS_Interval
<1>12. New(r) \in Surjection(1..n, S)
  BY <1>3, <1>10, <1>11, FS_Injection
<1>13. \A c \in S : \E k \in 1..n : New(r)[k] = c
  BY <1>12 DEF Surjection
<1> HIDE DEF S, n
<1>14. \A k \in 1..n : New(r)[k] \in Call /\ New(r)[k] \in S
  BY <1>6, <1>7
<1> QED BY <1>4, <1>8, <1>9, <1>13, <1>14 DEF S

\* The notifications it inserts.
LEMMA NewNotesAre ==
  ASSUME NEW r \in Requests, DbTypes, Doing, Open(r)
  PROVE  /\ NewNotes(r) \in Seq(Note) /\ Len(NewNotes(r)) = Len(New(r))
         /\ \A k \in 1..Len(New(r)) :
              /\ NewNotes(r)[k].user = New(r)[k].user /\ NewNotes(r)[k].type = New(r)[k].type
              /\ NewNotes(r)[k].at = tx[r].at /\ NewNotes(r)[k].checked = now
              /\ NewNotes(r)[k].state = "pending" /\ NewNotes(r)[k].from = tx[r].process
              /\ NewNotes(r)[k].read = FALSE
              /\ NewNotes(r)[k].watchers =
                   {s \in Sockets : socket[s] = "open" /\ OwnerOf[s] = New(r)[k].user}
<1>1. tx[r] \in Transaction
  BY DEF DbTypes, Open, OrNone
<1>2. /\ Len(New(r)) \in Nat /\ DOMAIN New(r) = 1..Len(New(r))
      /\ \A k \in 1..Len(New(r)) : New(r)[k] \in Call
  BY NewIs
<1>3. tx[r].at \in Nat /\ tx[r].process \in Processes /\ now \in Nat
  BY <1>1 DEF Transaction, DbTypes
<1>4. NewNotes(r) \in [1..Len(New(r)) -> Note]
  BY <1>2, <1>3 DEF NewNotes, Note, Call
<1>5. NewNotes(r) \in Seq(Note) /\ Len(NewNotes(r)) = Len(New(r))
  BY <1>2, <1>4, AsSeq
<1> QED BY <1>2, <1>5 DEF NewNotes

\* The events it pushes.
LEMMA NewEventsAre ==
  ASSUME NEW r \in Requests, DbTypes, Doing, Open(r)
  PROVE  /\ NewEvents(r) \in Seq(Event) /\ Len(NewEvents(r)) = Len(New(r))
         /\ DOMAIN NewEvents(r) = 1..Len(New(r))
         /\ \A k \in 1..Len(New(r)) : /\ NewEvents(r)[k].event = "new"
                                      /\ NewEvents(r)[k].user = New(r)[k].user
                                      /\ NewEvents(r)[k].id = Len(notes) + k
<1>1. /\ Len(New(r)) \in Nat /\ DOMAIN New(r) = 1..Len(New(r))
      /\ \A k \in 1..Len(New(r)) : New(r)[k] \in Call
  BY NewIs
<1>2. Len(notes) \in Nat
  BY LenProperties DEF DbTypes
<1>3. NewEvents(r) \in [1..Len(New(r)) -> Event]
  BY <1>1, <1>2 DEF NewEvents, Event, Call
<1>4. /\ NewEvents(r) \in Seq(Event) /\ Len(NewEvents(r)) = Len(New(r))
      /\ DOMAIN NewEvents(r) = 1..Len(New(r))
  BY <1>1, <1>3, AsSeq
<1> QED BY <1>1, <1>4 DEF NewEvents

\* Notifications are only added, and only their state and the read mark change: none that is
\* committed or gone changes its state.
Grown(ns, ms) ==
  /\ DOMAIN ns \subseteq DOMAIN ms
  /\ \A i \in DOMAIN ns :
       /\ ms[i].user = ns[i].user /\ ms[i].type = ns[i].type
       /\ ms[i].at = ns[i].at /\ ms[i].checked = ns[i].checked
       /\ ms[i].from = ns[i].from /\ ms[i].watchers = ns[i].watchers
       /\ ns[i].state # "pending" => ms[i].state = ns[i].state

\* Nothing of the database changes but what is read, and time.
Calm ==
  /\ tx' = tx /\ announced' = announced /\ now' >= now
  /\ DOMAIN notes' = DOMAIN notes
  /\ \A i \in DOMAIN notes :
       /\ notes'[i].user = notes[i].user /\ notes'[i].type = notes[i].type
       /\ notes'[i].at = notes[i].at /\ notes'[i].checked = notes[i].checked
       /\ notes'[i].from = notes[i].from /\ notes'[i].watchers = notes[i].watchers
       /\ notes'[i].state = notes[i].state

LEMMA CalmKeeps ==
  ASSUME DbInv, Calm, DbTypes'
  PROVE  DbInv' /\ Grown(notes, notes')
<1> USE DEF Calm
<1>1. \A r \in Requests : Open(r)' <=> Open(r)
  BY DEF Open
<1>2. Doing'
  <2>1. SUFFICES ASSUME NEW r \in Requests, Open(r)
                 PROVE  /\ tx[r].at <= now' /\ Prepared(tx[r].step)
                        /\ Holds(tx[r], notes') /\ Tells(tx[r], notes')
    BY <1>1 DEF Doing
  <2>2. tx[r] \in Transaction
    BY <2>1 DEF DbInv, DbTypes, Open, OrNone
  <2>3. tx[r].at <= now /\ Prepared(tx[r].step) /\ Holds(tx[r], notes) /\ Tells(tx[r], notes)
    BY <2>1 DEF DbInv, Doing
  <2>4. tx[r].at <= now'
    BY <2>2, <2>3 DEF DbInv, DbTypes, Transaction
  <2>5. Holds(tx[r], notes')
    BY <2>3 DEF Holds
  <2>6. Tells(tx[r], notes')
    BY <2>3 DEF Tells
  <2> QED BY <2>3, <2>4, <2>5, <2>6
<1>3. Apart'
  BY <1>1 DEF DbInv, Apart
<1>4. StatusApart'
  BY DEF DbInv, StatusApart
<1>5. NothingHidden'
  BY DEF DbInv, NothingHidden
<1>6. Grown(notes, notes')
  BY DEF Grown
<1> QED BY <1>2, <1>3, <1>4, <1>5, <1>6 DEF DbInv

\* A new transaction has inserted nothing yet.
LEMMA LoadKeeps ==
  ASSUME DbInv, NEW r \in Requests, Load(r)
  PROVE  DbInv' /\ Grown(notes, notes')
<1>1. /\ UNCHANGED <<deployment, now, row, notes, announced>> /\ ~Open(r)
      /\ \E p \in deployment.processes :
           \E s \in (IF p = Worker THEN (IF Does("scan") /\ ~breached THEN {Scan} ELSE {})
                     ELSE UNION {Steps(u) : u \in deployment.users}) :
             tx' = [tx EXCEPT ![r] = [step |-> s, process |-> p, at |-> now,
                                      phase |-> "loaded", notes |-> {}]]
  BY DEF Load, dbVars
<1>2. PICK p \in deployment.processes :
        \E s \in (IF p = Worker THEN (IF Does("scan") /\ ~breached THEN {Scan} ELSE {})
                  ELSE UNION {Steps(u) : u \in deployment.users}) :
          tx' = [tx EXCEPT ![r] = [step |-> s, process |-> p, at |-> now,
                                   phase |-> "loaded", notes |-> {}]]
  BY <1>1
<1>3. PICK s \in (IF p = Worker THEN (IF Does("scan") /\ ~breached THEN {Scan} ELSE {})
                  ELSE UNION {Steps(u) : u \in deployment.users}) :
        tx' = [tx EXCEPT ![r] = [step |-> s, process |-> p, at |-> now,
                                 phase |-> "loaded", notes |-> {}]]
  BY <1>2
<1> DEFINE t == [step |-> s, process |-> p, at |-> now, phase |-> "loaded", notes |-> {}]
<1>4. deployment.processes \subseteq Processes /\ deployment.users \subseteq Users
  BY FeedDeploymentsAssumption DEF DbInv, DbTypes
<1>5. s \in Operation /\ Prepared(s)
  <2>1. row \in Row /\ now \in Nat
    BY DEF DbInv, DbTypes
  <2>2. CASE s = Scan
    BY <2>1, <2>2, ScanPrepared
  <2>3. CASE \E u \in Users : s \in Steps(u)
    BY <2>1, <2>3, StepsPrepared
  <2> QED BY <1>4, <2>2, <2>3
<1>6. t \in Transaction
  BY <1>4, <1>5 DEF DbInv, DbTypes, Transaction
<1>7. /\ t.at = now /\ t.step = s /\ t.phase = "loaded" /\ t.notes = {}
  OBVIOUS
<1>8. tx' = [tx EXCEPT ![r] = t]
  BY <1>3
<1> HIDE DEF t
<1>9. DbTypes'
  BY <1>1, <1>6, <1>8 DEF DbInv, DbTypes, OrNone
<1>10. /\ tx'[r] = t /\ \A q \in Requests \ {r} : tx'[q] = tx[q] /\ (Open(q)' <=> Open(q))
  BY <1>8 DEF DbInv, DbTypes, Open
<1>11. Doing'
  <2>1. SUFFICES ASSUME NEW q \in Requests, Open(q)'
                 PROVE  /\ tx'[q].at <= now /\ Prepared(tx'[q].step)
                        /\ Holds(tx'[q], notes) /\ Tells(tx'[q], notes)
    BY <1>1 DEF Doing
  <2>2. CASE q = r
    <3>1. t.at <= t.at
      BY <1>7 DEF DbInv, DbTypes
    <3> QED BY <1>5, <1>7, <1>10, <2>2, <3>1 DEF Holds, Tells
  <2>3. CASE q # r
    BY <1>10, <2>1, <2>3 DEF DbInv, Doing
  <2> QED BY <2>2, <2>3
<1>12. Apart'
  <2>1. \A q, v \in Requests : Open(q)' /\ Open(v)' /\ q # v => tx'[q].notes \cap tx'[v].notes = {}
    BY <1>7, <1>10 DEF DbInv, Apart
  <2>2. \A i \in DOMAIN notes : notes[i].state = "pending" =>
          \E q \in Requests : Open(q)' /\ i \in tx'[q].notes
    BY <1>1, <1>10 DEF DbInv, Apart
  <2> QED BY <1>1, <2>1, <2>2 DEF Apart
<1>13. StatusApart' /\ NothingHidden' /\ Grown(notes, notes')
  BY <1>1 DEF DbInv, StatusApart, NothingHidden, Grown
<1> QED BY <1>9, <1>11, <1>12, <1>13 DEF DbInv

\* The transactions of T end: what they inserted is committed, or gone.
Settles(T, state) ==
  /\ T \subseteq {r \in Requests : Open(r)}
  /\ tx' = [r \in Requests |-> IF r \in T THEN None ELSE tx[r]]
  /\ notes' = [i \in DOMAIN notes |->
                 IF \E r \in T : i \in tx[r].notes THEN [notes[i] EXCEPT !.state = state] ELSE notes[i]]
  /\ UNCHANGED <<deployment, now>>

LEMMA SettlesKeeps ==
  ASSUME DbInv, NEW T, NEW state \in {"committed", "gone"}, Settles(T, state), row' \in Row
  PROVE  /\ DbTypes' /\ Doing' /\ Apart' /\ StatusApart' /\ Grown(notes, notes')
         /\ \A i \in DOMAIN notes :
              notes'[i].state = IF \E r \in T : i \in tx[r].notes THEN state ELSE notes[i].state
<1>1. /\ \A i \in DOMAIN notes : notes[i] \in Note
      /\ notes \in Seq(Note)
  BY ElementOfSeq, LenProperties DEF DbInv, DbTypes
<1>2. /\ DOMAIN notes' = DOMAIN notes
      /\ \A i \in DOMAIN notes :
           /\ notes'[i] \in Note
           /\ notes'[i].user = notes[i].user /\ notes'[i].type = notes[i].type
           /\ notes'[i].at = notes[i].at /\ notes'[i].checked = notes[i].checked
           /\ notes'[i].from = notes[i].from /\ notes'[i].watchers = notes[i].watchers
           /\ notes'[i].state = IF \E r \in T : i \in tx[r].notes THEN state ELSE notes[i].state
  <2>1. \A n \in Note : /\ [n EXCEPT !.state = state] \in Note
                        /\ [n EXCEPT !.state = state].user = n.user
                        /\ [n EXCEPT !.state = state].type = n.type
                        /\ [n EXCEPT !.state = state].at = n.at
                        /\ [n EXCEPT !.state = state].checked = n.checked
                        /\ [n EXCEPT !.state = state].from = n.from
                        /\ [n EXCEPT !.state = state].watchers = n.watchers
                        /\ [n EXCEPT !.state = state].state = state
    BY DEF Note
  <2>2. /\ DOMAIN notes' = DOMAIN notes
        /\ \A i \in DOMAIN notes : notes'[i] = IF \E r \in T : i \in tx[r].notes
                                                 THEN [notes[i] EXCEPT !.state = state] ELSE notes[i]
    BY DEF Settles
  <2>3. ASSUME NEW i \in DOMAIN notes
        PROVE  /\ notes'[i] \in Note
               /\ notes'[i].user = notes[i].user /\ notes'[i].type = notes[i].type
               /\ notes'[i].at = notes[i].at /\ notes'[i].checked = notes[i].checked
               /\ notes'[i].from = notes[i].from /\ notes'[i].watchers = notes[i].watchers
               /\ notes'[i].state = IF \E r \in T : i \in tx[r].notes THEN state ELSE notes[i].state
    <3>1. notes[i] \in Note
      BY <1>1
    <3>2. CASE \E r \in T : i \in tx[r].notes
      <4>1. notes'[i] = [notes[i] EXCEPT !.state = state]
        BY <2>2, <3>2
      <4> QED BY <2>1, <3>1, <3>2, <4>1
    <3>3. CASE ~\E r \in T : i \in tx[r].notes
      <4>1. notes'[i] = notes[i]
        BY <2>2, <3>3
      <4> QED BY <3>1, <3>3, <4>1
    <3> QED BY <3>2, <3>3
  <2> QED BY <2>2, <2>3
<1>3. notes' \in Seq(Note)
  <2>1. DOMAIN notes = 1..Len(notes) /\ Len(notes) \in Nat
    BY <1>1, LenProperties
  <2>2. notes' \in [1..Len(notes) -> Note]
    BY <1>2, <2>1 DEF Settles
  <2> QED BY <2>1, <2>2, AsSeq
<1>4. /\ tx' \in [Requests -> OrNone(Transaction)]
      /\ \A q \in Requests : (Open(q)' <=> Open(q) /\ q \notin T) /\ (Open(q)' => tx'[q] = tx[q])
  BY DEF Settles, Open, DbInv, DbTypes, OrNone
<1>5. DbTypes'
  BY <1>3, <1>4 DEF DbInv, DbTypes, Settles
<1>6. \A q \in Requests : Open(q)' => \A i \in tx[q].notes : ~\E r \in T : i \in tx[r].notes
  BY <1>4 DEF DbInv, Apart, Settles
<1>7. \A i \in DOMAIN notes : (\E r \in T : i \in tx[r].notes) => notes[i].state = "pending"
  BY DEF DbInv, Doing, Holds, Settles
<1>8. Doing'
  <2>1. SUFFICES ASSUME NEW q \in Requests, Open(q)'
                 PROVE  /\ tx[q].at <= now /\ Prepared(tx[q].step)
                        /\ Holds(tx[q], notes') /\ Tells(tx[q], notes')
    BY <1>4 DEF Doing, Settles
  <2>2. tx[q].at <= now /\ Prepared(tx[q].step) /\ Holds(tx[q], notes) /\ Tells(tx[q], notes)
    BY <1>4, <2>1 DEF DbInv, Doing
  <2>3. Holds(tx[q], notes')
    BY <1>2, <1>6, <2>1, <2>2 DEF Holds
  <2>4. Tells(tx[q], notes')
    BY <1>2, <1>7, <2>2 DEF Tells
  <2> QED BY <2>2, <2>3, <2>4
<1>9. Apart'
  <2>1. \A q, v \in Requests : Open(q)' /\ Open(v)' /\ q # v => tx'[q].notes \cap tx'[v].notes = {}
    BY <1>4 DEF DbInv, Apart
  <2>2. ASSUME NEW i \in DOMAIN notes', notes'[i].state = "pending"
        PROVE  \E q \in Requests : Open(q)' /\ i \in tx'[q].notes
    <3>1. notes[i].state = "pending" /\ ~\E r \in T : i \in tx[r].notes
      BY <1>2, <2>2
    <3>2. PICK q \in Requests : Open(q) /\ i \in tx[q].notes
      BY <1>2, <3>1 DEF DbInv, Apart
    <3> QED BY <1>4, <3>1, <3>2
  <2> QED BY <2>1, <2>2 DEF Apart
<1>10. StatusApart'
  BY <1>2, <1>7 DEF DbInv, StatusApart
<1>11. Grown(notes, notes')
  BY <1>2, <1>7 DEF Grown
<1> QED BY <1>2, <1>5, <1>8, <1>9, <1>10, <1>11

\* A rollback hides nothing that was announced.
LEMMA GoneKeeps ==
  ASSUME DbInv, NEW T, Settles(T, "gone"), row' = row, announced' = announced
  PROVE  DbInv' /\ Grown(notes, notes')
<1>1. row' \in Row
  BY DEF DbInv, DbTypes
<1>2. /\ DbTypes' /\ Doing' /\ Apart' /\ StatusApart' /\ Grown(notes, notes')
  BY <1>1, SettlesKeeps
<1>3. NothingHidden'
  BY <1>2 DEF DbInv, NothingHidden, Grown
<1> QED BY <1>2, <1>3 DEF DbInv

\* What a commit announces, its notifications tell.
LEMMA CommitKeeps ==
  ASSUME DbInv, NEW r \in Requests, Commit(r)
  PROVE  DbInv' /\ Grown(notes, notes')
<1> DEFINE t == tx[r]
<1>1. t \in Transaction /\ Open(r) /\ t.phase = "worked" /\ Tells(t, notes)
  BY DEF DbInv, DbTypes, Doing, Open, OrNone, Commit
<1>2. Settles({r}, "committed")
  <2>1. tx' = [q \in Requests |-> IF q \in {r} THEN None ELSE tx[q]]
    <3>1. tx' = [tx EXCEPT ![r] = None] /\ DOMAIN tx = Requests
      BY DEF Commit, DbInv, DbTypes
    <3> QED BY <3>1
  <2>2. notes' = [i \in DOMAIN notes |->
                    IF \E q \in {r} : i \in tx[q].notes
                      THEN [notes[i] EXCEPT !.state = "committed"] ELSE notes[i]]
    BY DEF Commit
  <2> QED BY <1>1, <2>1, <2>2 DEF Settles, Commit
<1>3. row' \in Row
  <2>1. t.step.outcome.new \in Row
    BY <1>1 DEF Transaction, Operation, OutcomeType
  <2>2. \A d \in Row : [d EXCEPT !.version = @ + 1] \in Row
    BY DEF Row
  <2>3. row' = row \/ row' = [t.step.outcome.new EXCEPT !.version = @ + 1]
    BY DEF Commit
  <2> QED BY <2>1, <2>2, <2>3 DEF DbInv, DbTypes
<1>4. /\ DbTypes' /\ Doing' /\ Apart' /\ StatusApart' /\ Grown(notes, notes')
      /\ \A i \in DOMAIN notes :
           notes'[i].state = IF \E q \in {r} : i \in tx[q].notes THEN "committed" ELSE notes[i].state
  BY <1>2, <1>3, SettlesKeeps
<1>5. NothingHidden'
  <2>1. SUFFICES ASSUME NEW a \in announced'
                 PROVE  \E i \in DOMAIN notes' : /\ notes'[i].state = "committed"
                                                 /\ notes'[i].user = a.user /\ notes'[i].type = a.type
                                                 /\ notes'[i].at >= a.since
    BY DEF NothingHidden
  <2>2. CASE a \in announced
    BY <1>4, <2>2 DEF DbInv, NothingHidden, Grown
  <2>3. CASE a \notin announced
    <3>1. PICK c \in Addressed(t.step) : a = [user |-> c.user, type |-> c.type, since |-> t.at - DedupTicks]
      BY <2>3 DEF Commit
    <3>2. PICK i \in DOMAIN notes : /\ notes[i].state = "committed" \/ i \in t.notes
                                    /\ notes[i].user = c.user /\ notes[i].type = c.type
                                    /\ notes[i].at >= t.at - DedupTicks
      BY <1>1, <3>1 DEF Tells
    <3>3. i \in DOMAIN notes' /\ notes'[i].state = "committed"
      BY <1>4, <3>2 DEF Grown
    <3> QED BY <1>4, <3>1, <3>2, <3>3 DEF Grown
  <2> QED BY <2>2, <2>3
<1> QED BY <1>4, <1>5 DEF DbInv

\* The notifications after Work.
LEMMA WorkIs ==
  ASSUME DbInv, NEW r \in Requests, Work(r)
  PROVE  /\ Len(notes) \in Nat /\ Len(New(r)) \in Nat
         /\ DOMAIN notes = 1..Len(notes)
         /\ DOMAIN notes' = 1..Len(notes) + Len(New(r))
         /\ notes' \in Seq(Note)
         /\ \A i \in DOMAIN notes : notes'[i] = notes[i]
         /\ \A i \in DOMAIN notes' \ DOMAIN notes :
              /\ i - Len(notes) \in 1..Len(New(r))
              /\ LET c == New(r)[i - Len(notes)]
                 IN  /\ c \in Call /\ c \in Inserts(tx[r].step)
                     /\ notes'[i].user = c.user /\ notes'[i].type = c.type
                     /\ notes'[i].watchers = {s \in Sockets : socket[s] = "open" /\ OwnerOf[s] = c.user}
              /\ notes'[i].at = tx[r].at /\ notes'[i].checked = now /\ notes'[i].read = FALSE
              /\ notes'[i].state = "pending" /\ notes'[i].from = tx[r].process
         /\ \A k \in 1..Len(New(r)) : /\ Len(notes) + k \in DOMAIN notes' \ DOMAIN notes
                                      /\ (Len(notes) + k) - Len(notes) = k
<1>1. DbTypes /\ Doing /\ Open(r) /\ notes' = notes \o NewNotes(r)
  BY DEF DbInv, Work
<1>2. /\ Len(New(r)) \in Nat
      /\ \A k \in 1..Len(New(r)) : New(r)[k] \in Call /\ New(r)[k] \in Inserts(tx[r].step)
  BY <1>1, NewIs
<1>3. /\ NewNotes(r) \in Seq(Note) /\ Len(NewNotes(r)) = Len(New(r))
      /\ \A k \in 1..Len(New(r)) :
           /\ NewNotes(r)[k].user = New(r)[k].user /\ NewNotes(r)[k].type = New(r)[k].type
           /\ NewNotes(r)[k].at = tx[r].at /\ NewNotes(r)[k].checked = now
           /\ NewNotes(r)[k].state = "pending" /\ NewNotes(r)[k].from = tx[r].process
           /\ NewNotes(r)[k].read = FALSE
           /\ NewNotes(r)[k].watchers =
                {s \in Sockets : socket[s] = "open" /\ OwnerOf[s] = New(r)[k].user}
  BY <1>1, NewNotesAre
<1>4. /\ notes \in Seq(Note) /\ Len(notes) \in Nat /\ DOMAIN notes = 1..Len(notes)
      /\ NewNotes(r) \in Seq(Note) /\ Len(NewNotes(r)) = Len(New(r))
  BY <1>1, <1>3, LenProperties DEF DbTypes
<1>5. /\ notes' \in Seq(Note) /\ Len(notes') = Len(notes) + Len(New(r))
      /\ \A i \in 1..Len(notes) + Len(New(r)) :
           notes'[i] = IF i <= Len(notes) THEN notes[i] ELSE NewNotes(r)[i - Len(notes)]
  BY <1>1, <1>2, <1>4, ConcatProperties
<1>6. DOMAIN notes' = 1..Len(notes) + Len(New(r))
  BY <1>5, LenProperties
<1>7. \A i \in DOMAIN notes : notes'[i] = notes[i]
  BY <1>2, <1>4, <1>5
<1>8. \A i \in DOMAIN notes' \ DOMAIN notes :
        i - Len(notes) \in 1..Len(New(r)) /\ notes'[i] = NewNotes(r)[i - Len(notes)]
  BY <1>2, <1>4, <1>5, <1>6
<1>9. \A k \in 1..Len(New(r)) : /\ Len(notes) + k \in DOMAIN notes' \ DOMAIN notes
                                /\ (Len(notes) + k) - Len(notes) = k
  BY <1>2, <1>4, <1>6
<1>10. ASSUME NEW i \in DOMAIN notes' \ DOMAIN notes
       PROVE  /\ LET c == New(r)[i - Len(notes)]
                 IN  /\ c \in Call /\ c \in Inserts(tx[r].step)
                     /\ notes'[i].user = c.user /\ notes'[i].type = c.type
                     /\ notes'[i].watchers = {s \in Sockets : socket[s] = "open" /\ OwnerOf[s] = c.user}
              /\ notes'[i].at = tx[r].at /\ notes'[i].checked = now /\ notes'[i].read = FALSE
              /\ notes'[i].state = "pending" /\ notes'[i].from = tx[r].process
  BY <1>2, <1>3, <1>8
<1> QED BY <1>2, <1>4, <1>5, <1>6, <1>7, <1>8, <1>9, <1>10

\* Work inserts nothing of a change of status that another insert of its window repeats: the
\* flush has waited for whoever changes the status too, and exists_recent sees what that left.
LEMMA WorkKeeps ==
  ASSUME DbInv, NEW r \in Requests, Work(r)
  PROVE  DbInv' /\ Grown(notes, notes')
<1> DEFINE t   == tx[r]
           old == DOMAIN notes
           ids == Len(notes) + 1..Len(notes) + Len(New(r))
<1>1. /\ DbTypes /\ Doing /\ Open(r) /\ t.phase = "loaded" /\ t \in Transaction
      /\ tx' = [tx EXCEPT ![r] = [t EXCEPT !.phase = "worked", !.notes = ids]]
      /\ UNCHANGED <<deployment, now, row, announced>>
      /\ FlushedFirst(t.step) => ~Locked(r)
  BY DEF DbInv, DbTypes, Open, OrNone, Work
<1>2. t.at <= now /\ Prepared(t.step) /\ Holds(t, notes) /\ t.at \in Nat /\ now \in Nat
  BY <1>1 DEF Doing, Transaction, DbTypes
<1>3. /\ Len(notes) \in Nat /\ Len(New(r)) \in Nat
      /\ old = 1..Len(notes) /\ DOMAIN notes' = 1..Len(notes) + Len(New(r))
      /\ notes' \in Seq(Note)
      /\ \A i \in old : notes'[i] = notes[i]
      /\ \A i \in DOMAIN notes' \ old :
           /\ i - Len(notes) \in 1..Len(New(r))
           /\ LET c == New(r)[i - Len(notes)]
              IN  /\ c \in Call /\ c \in Inserts(t.step)
                  /\ notes'[i].user = c.user /\ notes'[i].type = c.type
           /\ notes'[i].at = t.at /\ notes'[i].checked = now
           /\ notes'[i].state = "pending"
      /\ \A k \in 1..Len(New(r)) : /\ Len(notes) + k \in DOMAIN notes' \ old
                                   /\ (Len(notes) + k) - Len(notes) = k
  BY WorkIs
<1>4. ids = DOMAIN notes' \ old
  BY <1>3
<1>5. /\ tx'[r] \in Transaction /\ tx'[r].step = t.step /\ tx'[r].at = t.at
      /\ tx'[r].phase = "worked" /\ tx'[r].notes = ids
      /\ \A q \in Requests \ {r} : tx'[q] = tx[q]
      /\ tx' \in [Requests -> OrNone(Transaction)]
  <2> DEFINE n == [t EXCEPT !.phase = "worked", !.notes = ids]
  <2>1. /\ n.step = t.step /\ n.at = t.at /\ n.phase = "worked" /\ n.notes = ids
        /\ n \in Transaction
    <3>1. ids \in SUBSET Nat
      BY <1>3
    <3> HIDE DEF ids
    <3>2. \A m \in Transaction : \A S \in SUBSET Nat :
            LET v == [m EXCEPT !.phase = "worked", !.notes = S]
            IN  /\ v.step = m.step /\ v.at = m.at /\ v.phase = "worked" /\ v.notes = S
                /\ v \in Transaction
      BY DEF Transaction
    <3> QED BY <1>1, <3>1, <3>2
  <2>2. tx' = [tx EXCEPT ![r] = n] /\ tx \in [Requests -> OrNone(Transaction)]
    BY <1>1 DEF DbTypes
  <2> HIDE DEF n
  <2> QED BY <2>1, <2>2 DEF OrNone
<1>6. \A q \in Requests : Open(q)' <=> Open(q)
  BY <1>1, <1>5, NullTransactionAssumption DEF Open
<1>7. DbTypes'
  BY <1>1, <1>3, <1>5 DEF DbTypes
<1>8. Grown(notes, notes')
  BY <1>3 DEF Grown
<1>9. \A c \in Call : c \in Inserts(t.step) => \E i \in ids : notes'[i].user = c.user /\ notes'[i].type = c.type
  <2>1. SUFFICES ASSUME NEW c \in Call, c \in Inserts(t.step)
                 PROVE  \E i \in ids : notes'[i].user = c.user /\ notes'[i].type = c.type
    OBVIOUS
  <2>2. PICK k \in 1..Len(New(r)) : New(r)[k] = c
    BY <1>1, <2>1, NewIs
  <2> QED BY <1>3, <1>4, <2>2
<1>10. Tells(tx'[r], notes')
  <2>1. SUFFICES ASSUME NEW c \in Addressed(t.step)
                 PROVE  \E i \in DOMAIN notes' :
                          /\ notes'[i].state = "committed" \/ i \in ids
                          /\ notes'[i].user = c.user /\ notes'[i].type = c.type
                          /\ notes'[i].at >= t.at - DedupTicks
    BY <1>5 DEF Tells
  <2>2. c \in Call
    BY <1>1 DEF Addressed, Transaction, Operation
  <2>3. CASE Recent(c)
    <3>1. PICK i \in old : /\ notes[i].state = "committed" /\ notes[i].user = c.user
                           /\ notes[i].type = c.type /\ notes[i].at >= now - DedupTicks
      BY <2>3 DEF Recent
    <3>2. notes[i] \in Note
      BY <1>1, ElementOfSeq, LenProperties DEF DbTypes
    <3>3. notes[i].at >= t.at - DedupTicks
      BY <1>2, <3>1, <3>2, DedupAssumption DEF Note
    <3> QED BY <1>3, <1>8, <3>1, <3>3 DEF Grown
  <2>4. CASE ~Recent(c)
    <3>1. c \in Inserts(t.step)
      BY <2>1, <2>4 DEF Inserts
    <3>2. PICK i \in ids : notes'[i].user = c.user /\ notes'[i].type = c.type
      BY <1>9, <2>2, <3>1
    <3>3. i \in DOMAIN notes' \ old /\ notes'[i].at = t.at
      BY <1>3, <1>4, <3>2
    <3>4. t.at >= t.at - DedupTicks
      BY <1>2, DedupAssumption
    <3> QED BY <3>2, <3>3, <3>4
  <2> QED BY <2>3, <2>4
<1>11. Doing'
  <2>1. SUFFICES ASSUME NEW q \in Requests, Open(q)
                 PROVE  /\ tx'[q].at <= now /\ Prepared(tx'[q].step)
                        /\ Holds(tx'[q], notes') /\ Tells(tx'[q], notes')
    BY <1>1, <1>6 DEF Doing
  <2>2. CASE q = r
    <3>1. Holds(tx'[r], notes')
      <4>1. \A i \in ids : /\ i \in DOMAIN notes' /\ notes'[i].state = "pending"
                           /\ \E c \in t.step.calls : notes'[i].user = c.user /\ notes'[i].type = c.type
        BY <1>3, <1>4 DEF Inserts, Addressed
      <4> QED BY <1>5, <4>1 DEF Holds
    <3> QED BY <1>2, <1>5, <1>10, <2>2, <3>1
  <2>3. CASE q # r
    <3>1. tx[q].at <= now /\ Prepared(tx[q].step) /\ Holds(tx[q], notes) /\ Tells(tx[q], notes)
      BY <1>1, <2>1 DEF Doing
    <3>2. Holds(tx[q], notes') /\ Tells(tx[q], notes')
      BY <1>3, <1>8, <3>1 DEF Holds, Tells, Grown
    <3> QED BY <1>5, <2>3, <3>1, <3>2
  <2> QED BY <2>2, <2>3
<1>12. \A q \in Requests : Open(q) => tx[q].notes \subseteq old
  BY <1>1 DEF Doing, Holds
<1>13. Apart'
  <2>1. \A q, v \in Requests : Open(q)' /\ Open(v)' /\ q # v => tx'[q].notes \cap tx'[v].notes = {}
    <3>1. \A q \in Requests \ {r} : Open(q) => tx[q].notes \cap ids = {}
      BY <1>4, <1>12
    <3> QED BY <1>5, <1>6, <3>1 DEF DbInv, Apart
  <2>2. ASSUME NEW i \in DOMAIN notes', notes'[i].state = "pending"
        PROVE  \E q \in Requests : Open(q)' /\ i \in tx'[q].notes
    <3>1. CASE i \in old
      <4>1. PICK q \in Requests : Open(q) /\ i \in tx[q].notes
        BY <1>3, <2>2, <3>1 DEF DbInv, Apart
      <4>2. q # r
        BY <1>1, <1>2, <4>1 DEF Holds
      <4> QED BY <1>5, <1>6, <4>1, <4>2
    <3>2. CASE i \notin old
      BY <1>1, <1>4, <1>5, <1>6, <2>2, <3>2
    <3> QED BY <3>1, <3>2
  <2> QED BY <2>1, <2>2 DEF Apart
<1>14. ASSUME NEW j \in DOMAIN notes' \ old, NEW i \in old, notes[i].state # "gone",
              notes[i].user = notes'[j].user, notes[i].type = notes'[j].type,
              notes[i].type \in StatusTypes
       PROVE  now - notes[i].at > DedupTicks
  <2> DEFINE c == New(r)[j - Len(notes)]
  <2>1. /\ c \in t.step.calls /\ ~Recent(c)
        /\ notes[i].user = c.user /\ notes[i].type = c.type
    BY <1>3, <1>14 DEF Inserts, Addressed
  <2> HIDE DEF c
  <2>2. t.step.kind = "status" /\ FlushedFirst(t.step)
    BY <1>2, <1>14, <2>1 DEF Prepared, FlushedFirst
  <2>3. notes[i].state # "pending"
    <3>1. SUFFICES ASSUME notes[i].state = "pending"
                   PROVE  FALSE
      OBVIOUS
    <3>2. PICK q \in Requests : Open(q) /\ i \in tx[q].notes
      BY <3>1 DEF DbInv, Apart
    <3>3. q # r
      BY <1>1, <1>2, <3>2 DEF Holds
    <3>4. tx[q] \in Transaction /\ Prepared(tx[q].step) /\ Holds(tx[q], notes)
      BY <1>1, <3>2 DEF DbTypes, Doing, Open, OrNone
    <3>5. tx[q].phase = "worked"
      BY <3>2, <3>4 DEF Holds, Transaction
    <3>6. FlushedFirst(tx[q].step)
      BY <1>14, <3>2, <3>4 DEF Holds, Prepared, FlushedFirst
    <3> QED BY <1>1, <2>2, <3>2, <3>3, <3>5, <3>6 DEF Locked
  <2>4. notes[i] \in Note
    BY <1>1, ElementOfSeq, LenProperties DEF DbTypes
  <2>5. notes[i].state = "committed" /\ notes[i].at \in Nat
    BY <1>14, <2>3, <2>4 DEF Note
  <2>6. ~(notes[i].at >= now - DedupTicks)
    BY <2>1, <2>5 DEF Recent
  <2> QED BY <1>2, <2>5, <2>6, DedupAssumption
<1>15. \A i, j \in DOMAIN notes' \ old :
         notes'[i].user = notes'[j].user /\ notes'[i].type = notes'[j].type => i = j
  <2>1. SUFFICES ASSUME NEW i \in DOMAIN notes' \ old, NEW j \in DOMAIN notes' \ old,
                        notes'[i].user = notes'[j].user, notes'[i].type = notes'[j].type
                 PROVE  i = j
    OBVIOUS
  <2> DEFINE k == i - Len(notes)
             l == j - Len(notes)
  <2>2. /\ k \in 1..Len(New(r)) /\ l \in 1..Len(New(r)) /\ New(r)[k] \in Call /\ New(r)[l] \in Call
        /\ New(r)[k].user = New(r)[l].user /\ New(r)[k].type = New(r)[l].type
    BY <1>3, <2>1
  <2>3. New(r)[k] = New(r)[l]
    BY <2>2 DEF Call
  <2>4. k = l
    BY <1>1, <2>2, <2>3, NewIs
  <2> QED BY <1>3, <2>1, <2>4
<1>16. StatusApart'
  <2>1. SUFFICES ASSUME NEW i \in DOMAIN notes', NEW j \in DOMAIN notes', i < j,
                        notes'[i].state # "gone", notes'[j].state # "gone",
                        notes'[i].user = notes'[j].user, notes'[i].type = notes'[j].type,
                        notes'[i].type \in StatusTypes
                 PROVE  notes'[j].checked - notes'[i].at > DedupTicks
    BY DEF StatusApart
  <2>2. CASE j \in old
    <3>1. i \in old
      BY <1>3, <2>1, <2>2
    <3> QED BY <1>3, <2>1, <2>2, <3>1 DEF DbInv, StatusApart
  <2>3. CASE j \notin old /\ i \in old
    <3>1. notes'[i] = notes[i] /\ notes'[j].checked = now
      BY <1>3, <2>3
    <3> QED BY <1>14, <2>1, <2>3, <3>1
  <2>4. CASE j \notin old /\ i \notin old
    <3>1. i = j
      BY <1>15, <2>1, <2>4
    <3>2. i \in Int
      BY <1>3
    <3> QED BY <2>1, <3>1, <3>2
  <2> QED BY <2>2, <2>3, <2>4
<1>17. NothingHidden'
  BY <1>1, <1>8 DEF DbInv, NothingHidden, Grown
<1> QED BY <1>7, <1>8, <1>11, <1>13, <1>16, <1>17 DEF DbInv

\* Conflicts, failing commits and restarts roll transactions back.
LEMMA RolledBackIs ==
  ASSUME DbInv, NEW r \in Requests, Open(r), RolledBack(r), UNCHANGED <<deployment, now>>
  PROVE  Settles({r}, "gone")
<1>1. tx' = [q \in Requests |-> IF q \in {r} THEN None ELSE tx[q]]
  <2>1. tx' = [tx EXCEPT ![r] = None] /\ DOMAIN tx = Requests
    BY DEF RolledBack, DbInv, DbTypes
  <2> QED BY <2>1
<1>2. notes' = [i \in DOMAIN notes |->
                  IF \E q \in {r} : i \in tx[q].notes
                    THEN [notes[i] EXCEPT !.state = "gone"] ELSE notes[i]]
  BY DEF RolledBack
<1> QED BY <1>1, <1>2 DEF Settles

LEMMA RestartIs ==
  ASSUME DbInv, NEW p \in Processes, Restart(p)
  PROVE  /\ \E T : Settles(T, "gone")
         /\ row' = row /\ announced' = announced
<1> DEFINE lost == {r \in Requests : Open(r) /\ tx[r].process = p}
<1>1. /\ tx' = [r \in Requests |-> IF r \in lost THEN None ELSE tx[r]]
      /\ notes' = [i \in DOMAIN notes |->
                     IF i \in UNION {tx[r].notes : r \in lost}
                       THEN [notes[i] EXCEPT !.state = "gone"] ELSE notes[i]]
      /\ UNCHANGED <<deployment, now, row, announced>>
      /\ lost \subseteq {r \in Requests : Open(r)}
  BY DEF Restart
<1> HIDE DEF lost
<1>2. \A i : i \in UNION {tx[r].notes : r \in lost} <=> \E r \in lost : i \in tx[r].notes
  OBVIOUS
<1>3. notes' = [i \in DOMAIN notes |->
                  IF \E r \in lost : i \in tx[r].notes
                    THEN [notes[i] EXCEPT !.state = "gone"] ELSE notes[i]]
  BY <1>1, <1>2
<1>4. Settles(lost, "gone")
  BY <1>1, <1>3 DEF Settles
<1> QED BY <1>1, <1>4

\* Marking notifications as read.
LEMMA ReadIs ==
  ASSUME DbInv, NEW S, UNCHANGED <<deployment, now, row, tx, announced>>,
         notes' = [i \in DOMAIN notes |-> IF i \in S THEN [notes[i] EXCEPT !.read = TRUE] ELSE notes[i]]
  PROVE  Calm /\ DbTypes'
<1>1. /\ notes \in Seq(Note) /\ Len(notes) \in Nat /\ DOMAIN notes = 1..Len(notes)
      /\ \A i \in DOMAIN notes : notes[i] \in Note
  BY ElementOfSeq, LenProperties DEF DbInv, DbTypes
<1>2. \A n \in Note : LET m == [n EXCEPT !.read = TRUE]
                      IN  /\ m \in Note /\ m.user = n.user /\ m.type = n.type /\ m.at = n.at
                          /\ m.checked = n.checked /\ m.from = n.from /\ m.watchers = n.watchers
                          /\ m.state = n.state
  BY DEF Note
<1>3. ASSUME NEW i \in DOMAIN notes
      PROVE  /\ notes'[i] \in Note
             /\ notes'[i].user = notes[i].user /\ notes'[i].type = notes[i].type
             /\ notes'[i].at = notes[i].at /\ notes'[i].checked = notes[i].checked
             /\ notes'[i].from = notes[i].from /\ notes'[i].watchers = notes[i].watchers
             /\ notes'[i].state = notes[i].state
  <2>1. notes'[i] = notes[i] \/ notes'[i] = [notes[i] EXCEPT !.read = TRUE]
    OBVIOUS
  <2> QED BY <1>1, <1>2, <2>1
<1>4. notes' \in [1..Len(notes) -> Note]
  BY <1>1, <1>3
<1>5. notes' \in Seq(Note)
  BY <1>1, <1>4, AsSeq
<1>6. DbTypes'
  BY <1>5 DEF DbInv, DbTypes
<1>7. Calm
  <2>1. now' >= now
    BY DEF DbInv, DbTypes
  <2> QED BY <1>3, <2>1 DEF Calm
<1> QED BY <1>6, <1>7

\* Everything else leaves the database alone.
LEMMA RestIs ==
  ASSUME DbInv, now' \in Nat, now' >= now, UNCHANGED <<deployment, row, notes, tx, announced>>
  PROVE  Calm /\ DbTypes'
BY DEF DbInv, DbTypes, Calm

LEMMA DbStep ==
  ASSUME DbInv, [Next]_vars
  PROVE  DbInv' /\ Grown(notes, notes')
<1>1. now \in Nat /\ now >= now
  BY DEF DbInv, DbTypes
<1>2. ASSUME UNCHANGED <<deployment, now, dbVars, tx>>
      PROVE  DbInv' /\ Grown(notes, notes')
  BY <1>1, <1>2, RestIs, CalmKeeps DEF dbVars
<1>3. ASSUME NEW r \in Requests, Load(r)
      PROVE  DbInv' /\ Grown(notes, notes')
  BY <1>3, LoadKeeps
<1>4. ASSUME NEW r \in Requests, Work(r)
      PROVE  DbInv' /\ Grown(notes, notes')
  BY <1>4, WorkKeeps
<1>5. ASSUME NEW r \in Requests, Commit(r)
      PROVE  DbInv' /\ Grown(notes, notes')
  BY <1>5, CommitKeeps
<1>6. ASSUME NEW r \in Requests, Conflict(r) \/ CommitFails(r)
      PROVE  DbInv' /\ Grown(notes, notes')
  <2>1. Open(r) /\ RolledBack(r) /\ UNCHANGED <<deployment, now, row, announced>>
    BY <1>6 DEF Conflict, CommitFails
  <2> QED BY <2>1, RolledBackIs, GoneKeeps
<1>7. ASSUME NEW p \in Processes, Restart(p)
      PROVE  DbInv' /\ Grown(notes, notes')
  BY <1>7, RestartIs, GoneKeeps
<1>8. ASSUME NEW p \in Api, NEW u \in Users, MarkAllRead(p, u)
      PROVE  DbInv' /\ Grown(notes, notes')
  BY <1>8, ReadIs, CalmKeeps DEF MarkAllRead
<1>9. ASSUME NEW p \in Api, NEW u \in Users, NEW i \in DOMAIN notes, MarkRead(p, u, i)
      PROVE  DbInv' /\ Grown(notes, notes')
  <2>1. notes' = [notes EXCEPT ![i].read = TRUE] /\ UNCHANGED <<deployment, now, row, tx, announced>>
    BY <1>9 DEF MarkRead
  <2>2. notes' = [k \in DOMAIN notes |-> IF k \in {i} THEN [notes[k] EXCEPT !.read = TRUE] ELSE notes[k]]
    BY <2>1
  <2> QED BY <2>1, <2>2, ReadIs, CalmKeeps
<1>10. CASE Tick
  <2>1. now' \in Nat /\ now' >= now
    BY <1>1, <1>10 DEF Tick
  <2> QED BY <1>10, <2>1, RestIs, CalmKeeps DEF Tick, dbVars
<1>11. CASE UNCHANGED vars
  BY <1>2, <1>11 DEF vars, dbVars
<1>12. CASE ReadPushed \/ RedisDown \/ RedisUp
  BY <1>2, <1>12 DEF ReadPushed, RedisDown, RedisUp
<1>13. ASSUME NEW s \in Sockets, Connect(s) \/ Drop(s) \/ Unregister(s)
       PROVE  DbInv' /\ Grown(notes, notes')
  BY <1>2, <1>13 DEF Connect, Drop, Unregister
<1>14. ASSUME NEW p \in Processes, Deliver(p) \/ Listen(p) \/ Rested(p)
       PROVE  DbInv' /\ Grown(notes, notes')
  BY <1>2, <1>14 DEF Deliver, Listen, Rested
<1> QED BY <1>3, <1>4, <1>5, <1>6, <1>7, <1>8, <1>9, <1>10, <1>11, <1>12, <1>13, <1>14 DEF Next

\* In the beginning there is no notification and no transaction.
LEMMA DbInit ==
  ASSUME Init
  PROVE  DbInv
<1>1. DbTypes
  <2>1. <<>> \in Seq(Note)
    BY EmptySeq
  <2>2. deployment.row \in Row
    BY FeedDeploymentsAssumption DEF Init
  <2> QED BY <2>1, <2>2 DEF Init, DbTypes, OrNone
<1>2. Doing /\ Apart /\ StatusApart /\ NothingHidden
  BY DEF Init, Doing, Apart, Open, StatusApart, NothingHidden
<1> QED BY <1>1, <1>2 DEF DbInv

LEMMA DbAlways == Spec => []DbInv
<1>1. DbInv /\ [Next]_vars => DbInv'
  BY DbStep
<1> QED BY <1>1, DbInit, PTL DEF Spec

\* US-33: however requests overlap, fail and restart, nobody gets two notifications of a
\* change of status within the deduplication window.
THEOREM StatusIsAnnouncedOnce == Spec => []StatusAnnouncedOnce
<1>1. DbInv => StatusAnnouncedOnce
  BY DEF DbInv, StatusApart, StatusAnnouncedOnce, StatusTypes
<1> QED BY <1>1, DbAlways, PTL

\* Deduplication hides nothing: whoever was to be told of what was committed has a
\* notification of that type that is not older than the window.
THEOREM NothingIsHidden == Spec => []NothingHidden
<1>1. DbInv => NothingHidden
  BY DEF DbInv
<1> QED BY <1>1, DbAlways, PTL

-----------------------------------------------------------------------------
(***************************************************************************)
(* The invariant of the way to the browser: where a notification is.       *)
(***************************************************************************)
WireTypes ==
  /\ reading \subseteq [process : Processes, user : Users, event : {"read", "read_all"}, id : Nat]
  /\ socket \in [Sockets -> {"unused", "open", "dropped", "closed"}]
  /\ told \in [Sockets -> Seq(Event)]
  /\ loop \in [Processes -> Seq(Event)]
  /\ channel \in [Processes -> Seq(Envelope)]
  /\ listening \subseteq Processes /\ resting \subseteq Processes
  /\ redis \in BOOLEAN
  /\ faults \in Seq({"drop", "redis", "commit", "restart"})

\* A sequence of events shows notification i; it shows none twice.
Shows(q, i) == \E k \in DOMAIN q : q[k].event = "new" /\ q[k].id = i
ShowsOnce(q) ==
  \A k, l \in DOMAIN q : q[k].event = "new" /\ q[l].event = "new" /\ q[k].id = q[l].id => k = l

\* The events in the envelopes of a channel.
Carried(q) == [k \in DOMAIN q |-> q[k].event]

\* Events on a loop were made by its process, those on a channel by the sender, for the user
\* of the notification.
Scheduled(p, q, ns) ==
  \A k \in DOMAIN q : q[k].event = "new" =>
    q[k].id \in DOMAIN ns /\ ns[q[k].id].from = p /\ ns[q[k].id].user = q[k].user
Sent(q, ns) ==
  \A k \in DOMAIN q : q[k].event.event = "new" =>
    /\ q[k].event.id \in DOMAIN ns
    /\ ns[q[k].event.id].from = q[k].origin /\ ns[q[k].event.id].user = q[k].event.user
Tracked ==
  \A p \in Processes :
    /\ Scheduled(p, loop[p], notes) /\ ShowsOnce(loop[p])
    /\ Sent(channel[p], notes) /\ ShowsOnce(Carried(channel[p]))

\* What a page was told is not on its way to it any more.
Done ==
  \A s \in Sockets :
    /\ ShowsOnce(told[s])
    /\ \A i : Shows(told[s], i) =>
         /\ i \in DOMAIN notes
         /\ IF notes[i].from = HeldBy[s] THEN ~Shows(loop[HeldBy[s]], i)
            ELSE ~Shows(Carried(channel[HeldBy[s]]), i)

NoRedisFault == \A k \in DOMAIN faults : faults[k] # "redis"

\* What a page was promised and has not been told is on its way.
Coming(s, i) ==
  \/ Told(s, i)
  \/ notes[i].from = HeldBy[s] /\ Shows(loop[HeldBy[s]], i)
  \/ notes[i].from # HeldBy[s] /\ (NoRedisFault => Shows(Carried(channel[HeldBy[s]]), i))
Promised ==
  \A i \in DOMAIN notes : \A s \in notes[i].watchers :
    /\ notes[i].user = OwnerOf[s] /\ socket[s] # "unused"
    /\ socket[s] = "open" => Coming(s, i)

\* Redis works until it fails, and processes that run listen to it.
Connected ==
  /\ \A s \in Sockets : socket[s] \in {"open", "dropped"} => HeldBy[s] \in Api
  /\ NoRedisFault => redis /\ Api \subseteq listening /\ resting = {}

WireInv == WireTypes /\ Tracked /\ Done /\ Promised /\ Connected

-----------------------------------------------------------------------------
(***************************************************************************)
(* Sequences of events.                                                    *)
(***************************************************************************)
LEMMA TailShows ==
  ASSUME NEW q \in Seq(Event), q # <<>>
  PROVE  /\ Head(q) \in Event /\ Tail(q) \in Seq(Event)
         /\ \A i : Shows(Tail(q), i) => Shows(q, i)
         /\ \A i : Shows(q, i) => Shows(Tail(q), i) \/ (Head(q).event = "new" /\ Head(q).id = i)
         /\ Head(q).event = "new" => Shows(q, Head(q).id)
         /\ ShowsOnce(q) => /\ ShowsOnce(Tail(q))
                            /\ Head(q).event = "new" => ~Shows(Tail(q), Head(q).id)
<1>1. /\ Head(q) \in Event /\ Tail(q) \in Seq(Event) /\ Head(q) = q[1]
      /\ Len(q) \in Nat /\ Len(q) > 0 /\ DOMAIN q = 1..Len(q)
      /\ DOMAIN Tail(q) = 1..Len(q) - 1
      /\ \A k \in 1..Len(q) - 1 : Tail(q)[k] = q[k + 1]
  BY HeadTailProperties, LenProperties, EmptySeq
<1>2. \A i : Shows(Tail(q), i) => Shows(q, i)
  BY <1>1 DEF Shows
<1>3. \A i : Shows(q, i) => Shows(Tail(q), i) \/ (Head(q).event = "new" /\ Head(q).id = i)
  <2>1. SUFFICES ASSUME NEW i, NEW k \in DOMAIN q, q[k].event = "new", q[k].id = i
                 PROVE  Shows(Tail(q), i) \/ (Head(q).event = "new" /\ Head(q).id = i)
    BY DEF Shows
  <2>2. CASE k = 1
    BY <1>1, <2>1, <2>2
  <2>3. CASE k # 1
    <3> DEFINE l == k - 1
    <3>1. l \in DOMAIN Tail(q) /\ Tail(q)[l] = q[k]
      BY <1>1, <2>3
    <3> HIDE DEF l
    <3>2. Shows(Tail(q), i)
      BY <2>1, <3>1 DEF Shows
    <3> QED BY <3>2
  <2> QED BY <2>2, <2>3
<1>4. Head(q).event = "new" => Shows(q, Head(q).id)
  BY <1>1 DEF Shows
<1>5. ShowsOnce(q) => ShowsOnce(Tail(q))
  <2>1. SUFFICES ASSUME ShowsOnce(q), NEW k \in DOMAIN Tail(q), NEW l \in DOMAIN Tail(q),
                        Tail(q)[k].event = "new", Tail(q)[l].event = "new", Tail(q)[k].id = Tail(q)[l].id
                 PROVE  k = l
    BY DEF ShowsOnce
  <2>2. k + 1 \in DOMAIN q /\ l + 1 \in DOMAIN q /\ Tail(q)[k] = q[k + 1] /\ Tail(q)[l] = q[l + 1]
    BY <1>1
  <2>3. k + 1 = l + 1
    BY <2>1, <2>2 DEF ShowsOnce
  <2> QED BY <1>1, <2>3
<1>6. ShowsOnce(q) /\ Head(q).event = "new" => ~Shows(Tail(q), Head(q).id)
  <2>1. SUFFICES ASSUME ShowsOnce(q), Head(q).event = "new",
                        NEW k \in DOMAIN Tail(q), Tail(q)[k].event = "new", Tail(q)[k].id = Head(q).id
                 PROVE  FALSE
    BY DEF Shows
  <2>2. 1 \in DOMAIN q /\ k + 1 \in DOMAIN q /\ Tail(q)[k] = q[k + 1] /\ k + 1 # 1
    BY <1>1
  <2> QED BY <1>1, <2>1, <2>2 DEF ShowsOnce
<1> QED BY <1>1, <1>2, <1>3, <1>4, <1>5, <1>6

LEMMA ConcatShows ==
  ASSUME NEW q \in Seq(Event), NEW m \in Seq(Event)
  PROVE  /\ q \o m \in Seq(Event)
         /\ \A i : Shows(q \o m, i) <=> Shows(q, i) \/ Shows(m, i)
         /\ ShowsOnce(q) /\ ShowsOnce(m) /\ (\A i : ~(Shows(q, i) /\ Shows(m, i))) => ShowsOnce(q \o m)
<1> DEFINE c == q \o m
<1>1. /\ c \in Seq(Event) /\ Len(q) \in Nat /\ Len(m) \in Nat
      /\ DOMAIN q = 1..Len(q) /\ DOMAIN m = 1..Len(m) /\ DOMAIN c = 1..Len(q) + Len(m)
      /\ \A k \in DOMAIN c : c[k] = IF k <= Len(q) THEN q[k] ELSE m[k - Len(q)]
  <2>1. c \in Seq(Event) /\ Len(c) = Len(q) + Len(m)
        /\ \A k \in 1..Len(q) + Len(m) : c[k] = IF k <= Len(q) THEN q[k] ELSE m[k - Len(q)]
    BY ConcatProperties
  <2> HIDE DEF c
  <2> QED BY <2>1, LenProperties
<1> HIDE DEF c
<1>2. /\ \A k \in DOMAIN q : k \in DOMAIN c /\ c[k] = q[k]
      /\ \A k \in DOMAIN m : k + Len(q) \in DOMAIN c /\ c[k + Len(q)] = m[k]
      /\ \A k \in DOMAIN c : \/ k \in DOMAIN q /\ c[k] = q[k]
                             \/ k - Len(q) \in DOMAIN m /\ c[k] = m[k - Len(q)]
  BY <1>1
<1>3. \A i : Shows(c, i) <=> Shows(q, i) \/ Shows(m, i)
  BY <1>2 DEF Shows
<1>4. ASSUME ShowsOnce(q), ShowsOnce(m), \A i : ~(Shows(q, i) /\ Shows(m, i))
      PROVE  ShowsOnce(c)
  <2>1. SUFFICES ASSUME NEW k \in DOMAIN c, NEW l \in DOMAIN c,
                        c[k].event = "new", c[l].event = "new", c[k].id = c[l].id
                 PROVE  k = l
    BY DEF ShowsOnce
  <2>2. CASE k \in DOMAIN q /\ c[k] = q[k] /\ l \in DOMAIN q /\ c[l] = q[l]
    BY <1>4, <2>1, <2>2 DEF ShowsOnce
  <2>3. CASE /\ k - Len(q) \in DOMAIN m /\ c[k] = m[k - Len(q)]
             /\ l - Len(q) \in DOMAIN m /\ c[l] = m[l - Len(q)]
    <3>1. k - Len(q) = l - Len(q)
      BY <1>4, <2>1, <2>3 DEF ShowsOnce
    <3> QED BY <1>1, <3>1
  <2>4. CASE \/ /\ k \in DOMAIN q /\ c[k] = q[k]
                /\ l - Len(q) \in DOMAIN m /\ c[l] = m[l - Len(q)]
             \/ /\ l \in DOMAIN q /\ c[l] = q[l]
                /\ k - Len(q) \in DOMAIN m /\ c[k] = m[k - Len(q)]
    BY <1>4, <2>1, <2>4 DEF Shows
  <2> QED BY <1>2, <2>2, <2>3, <2>4
<1> QED BY <1>1, <1>3, <1>4 DEF c

LEMMA AppendShows ==
  ASSUME NEW q \in Seq(Event), NEW e \in Event
  PROVE  /\ Append(q, e) \in Seq(Event)
         /\ \A i : Shows(Append(q, e), i) <=> Shows(q, i) \/ (e.event = "new" /\ e.id = i)
         /\ ShowsOnce(q) /\ (e.event = "new" => ~Shows(q, e.id)) => ShowsOnce(Append(q, e))
<1> DEFINE m == <<e>>
<1>1. Append(q, e) = q \o m /\ m \in Seq(Event)
  BY AppendIsConcat
<1>2. ShowsOnce(m) /\ \A i : Shows(m, i) <=> e.event = "new" /\ e.id = i
  BY DEF ShowsOnce, Shows
<1> HIDE DEF m
<1>3. /\ q \o m \in Seq(Event)
      /\ \A i : Shows(q \o m, i) <=> Shows(q, i) \/ Shows(m, i)
      /\ ShowsOnce(q) /\ ShowsOnce(m) /\ (\A i : ~(Shows(q, i) /\ Shows(m, i))) => ShowsOnce(q \o m)
  BY <1>1, ConcatShows
<1>4. \A i : Shows(Append(q, e), i) <=> Shows(q, i) \/ (e.event = "new" /\ e.id = i)
  BY <1>1, <1>2, <1>3
<1>5. ASSUME ShowsOnce(q), e.event = "new" => ~Shows(q, e.id)
      PROVE  ShowsOnce(Append(q, e))
  <2>1. \A i : ~(Shows(q, i) /\ Shows(m, i))
    BY <1>2, <1>5
  <2> QED BY <1>1, <1>2, <1>3, <1>5, <2>1
<1> QED BY <1>1, <1>3, <1>4, <1>5

\* What a channel carries, when a message is taken from it and when some are added.
LEMMA CarriedTail ==
  ASSUME NEW q \in Seq(Envelope), q # <<>>
  PROVE  /\ Head(q) \in Envelope /\ Tail(q) \in Seq(Envelope)
         /\ Carried(q) \in Seq(Event) /\ Carried(q) # <<>>
         /\ Head(Carried(q)) = Head(q).event /\ Carried(Tail(q)) = Tail(Carried(q))
<1>1. /\ Head(q) \in Envelope /\ Tail(q) \in Seq(Envelope) /\ Head(q) = q[1]
      /\ Len(q) \in Nat /\ Len(q) > 0 /\ DOMAIN q = 1..Len(q)
      /\ Len(Tail(q)) = Len(q) - 1 /\ DOMAIN Tail(q) = 1..Len(q) - 1
      /\ \A k \in 1..Len(q) - 1 : Tail(q)[k] = q[k + 1]
      /\ \A k \in 1..Len(q) : q[k] \in Envelope
  BY HeadTailProperties, LenProperties, EmptySeq, ElementOfSeq
<1> DEFINE c == Carried(q)
<1>2. c \in [1..Len(q) -> Event] /\ \A k \in 1..Len(q) : c[k] = q[k].event
  BY <1>1 DEF Carried, Envelope
<1>3. c \in Seq(Event) /\ Len(c) = Len(q)
  BY <1>1, <1>2, AsSeq
<1>4. c # <<>>
  BY <1>1, <1>3, EmptySeq
<1> HIDE DEF c
<1>5. /\ Head(c) = c[1] /\ Tail(c) \in Seq(Event) /\ Len(Tail(c)) = Len(c) - 1
      /\ \A k \in 1..Len(c) - 1 : Tail(c)[k] = c[k + 1]
  BY <1>3, <1>4, HeadTailProperties
<1>6. /\ Carried(Tail(q)) \in [1..Len(q) - 1 -> Event]
      /\ \A k \in 1..Len(q) - 1 : Carried(Tail(q))[k] = q[k + 1].event
  BY <1>1 DEF Carried, Envelope
<1>7. Carried(Tail(q)) \in Seq(Event) /\ Len(Carried(Tail(q))) = Len(q) - 1
  <2>1. Len(q) - 1 \in Nat
    BY <1>1
  <2> QED BY <1>6, <2>1, AsSeq
<1>8. \A k \in 1..Len(q) - 1 : Carried(Tail(q))[k] = Tail(c)[k]
  BY <1>1, <1>2, <1>3, <1>5, <1>6
<1>9. Carried(Tail(q)) = Tail(c)
  BY <1>1, <1>3, <1>5, <1>7, <1>8, SeqEqual
<1> QED BY <1>1, <1>2, <1>3, <1>4, <1>5, <1>9 DEF c

LEMMA CarriedConcat ==
  ASSUME NEW q \in Seq(Envelope), NEW events \in Seq(Event), NEW p \in Processes,
         NEW m, m = [k \in DOMAIN events |-> [origin |-> p, event |-> events[k]]]
  PROVE  /\ q \o m \in Seq(Envelope)
         /\ Carried(q) \in Seq(Event) /\ Carried(q \o m) = Carried(q) \o events
<1>1. /\ Len(q) \in Nat /\ DOMAIN q = 1..Len(q) /\ \A k \in 1..Len(q) : q[k] \in Envelope
      /\ Len(events) \in Nat /\ DOMAIN events = 1..Len(events)
      /\ \A k \in 1..Len(events) : events[k] \in Event
  BY LenProperties, ElementOfSeq
<1>2. m \in [1..Len(events) -> Envelope] /\ \A k \in 1..Len(events) : m[k].event = events[k]
  BY <1>1 DEF Envelope
<1>3. m \in Seq(Envelope) /\ Len(m) = Len(events)
  BY <1>1, <1>2, AsSeq
<1> DEFINE c == q \o m
<1>4. /\ c \in Seq(Envelope) /\ Len(c) = Len(q) + Len(events)
      /\ \A k \in 1..Len(q) + Len(events) : c[k] = IF k <= Len(q) THEN q[k] ELSE m[k - Len(q)]
  <2>1. /\ c \in Seq(Envelope) /\ Len(c) = Len(q) + Len(m)
        /\ \A k \in 1..Len(q) + Len(m) : c[k] = IF k <= Len(q) THEN q[k] ELSE m[k - Len(q)]
    BY <1>3, ConcatProperties
  <2> HIDE DEF c
  <2> QED BY <1>3, <2>1
<1> HIDE DEF c
<1>5. DOMAIN c = 1..Len(q) + Len(events) /\ \A k \in 1..Len(q) + Len(events) : c[k] \in Envelope
  BY <1>4, LenProperties, ElementOfSeq
<1>6. /\ Carried(q) \in [1..Len(q) -> Event]
      /\ \A k \in 1..Len(q) : Carried(q)[k] = q[k].event
  BY <1>1 DEF Carried, Envelope
<1>7. Carried(q) \in Seq(Event) /\ Len(Carried(q)) = Len(q)
  BY <1>1, <1>6, AsSeq
<1>8. /\ Carried(c) \in [1..Len(q) + Len(events) -> Event]
      /\ \A k \in 1..Len(q) + Len(events) : Carried(c)[k] = c[k].event
  BY <1>5 DEF Carried, Envelope
<1>9. Carried(c) \in Seq(Event) /\ Len(Carried(c)) = Len(q) + Len(events)
  BY <1>1, <1>8, AsSeq
<1> DEFINE d == Carried(q) \o events
<1>10. /\ d \in Seq(Event) /\ Len(d) = Len(q) + Len(events)
       /\ \A k \in 1..Len(q) + Len(events) :
            d[k] = IF k <= Len(q) THEN Carried(q)[k] ELSE events[k - Len(q)]
  <2>1. /\ d \in Seq(Event) /\ Len(d) = Len(Carried(q)) + Len(events)
        /\ \A k \in 1..Len(Carried(q)) + Len(events) :
             d[k] = IF k <= Len(Carried(q)) THEN Carried(q)[k] ELSE events[k - Len(Carried(q))]
    BY <1>7, ConcatProperties
  <2> HIDE DEF d
  <2> QED BY <1>7, <2>1
<1> HIDE DEF d
<1>11. \A k \in 1..Len(q) + Len(events) : Carried(c)[k] = d[k]
  BY <1>1, <1>2, <1>4, <1>6, <1>8, <1>10
<1>12. Carried(c) = d
  BY <1>9, <1>10, <1>11, SeqEqual
<1> QED BY <1>4, <1>7, <1>12 DEF c, d

-----------------------------------------------------------------------------
(***************************************************************************)
(* Each kind of step keeps the invariant of the way.                       *)
(***************************************************************************)
\* Notifications that only grow leave what was sent as it was.
LEMMA GrownKeeps ==
  ASSUME NEW ns, NEW ms, Grown(ns, ms)
  PROVE  /\ \A p \in Processes : \A q \in Seq(Event) : Scheduled(p, q, ns) => Scheduled(p, q, ms)
         /\ \A q \in Seq(Envelope) : Sent(q, ns) => Sent(q, ms)
BY DEF Grown, Scheduled, Sent

\* A page is never made open again, and becomes open only once.
SocketsMove ==
  \A s \in Sockets : /\ socket'[s] = "open" => socket[s] \in {"unused", "open"}
                     /\ socket'[s] = "unused" => socket[s] = "unused"

\* Nothing is pushed or delivered.
LEMMA StillKeeps ==
  ASSUME WireInv, WireTypes', DbTypes, DbTypes', Grown(notes, notes'), DOMAIN notes' = DOMAIN notes,
         SocketsMove, UNCHANGED <<told, loop, channel>>, NoRedisFault' => NoRedisFault
  PROVE  Tracked' /\ Done' /\ Promised'
<1>1. Tracked'
  <2>1. SUFFICES ASSUME NEW p \in Processes
                 PROVE  /\ Scheduled(p, loop[p], notes') /\ ShowsOnce(loop[p])
                        /\ Sent(channel[p], notes') /\ ShowsOnce(Carried(channel[p]))
    BY DEF Tracked
  <2>2. loop[p] \in Seq(Event) /\ channel[p] \in Seq(Envelope)
    BY DEF WireInv, WireTypes
  <2> QED BY <2>2, GrownKeeps DEF WireInv, Tracked
<1>2. Done'
  <2>1. SUFFICES ASSUME NEW s \in Sockets
                 PROVE  /\ ShowsOnce(told[s])
                        /\ \A i : Shows(told[s], i) =>
                             /\ i \in DOMAIN notes'
                             /\ IF notes'[i].from = HeldBy[s] THEN ~Shows(loop[HeldBy[s]], i)
                                ELSE ~Shows(Carried(channel[HeldBy[s]]), i)
    BY DEF Done
  <2>2. /\ ShowsOnce(told[s])
        /\ \A i : Shows(told[s], i) =>
             /\ i \in DOMAIN notes
             /\ IF notes[i].from = HeldBy[s] THEN ~Shows(loop[HeldBy[s]], i)
                ELSE ~Shows(Carried(channel[HeldBy[s]]), i)
    BY DEF WireInv, Done
  <2>3. \A i \in DOMAIN notes : i \in DOMAIN notes' /\ notes'[i].from = notes[i].from
    BY DEF Grown
  <2> QED BY <2>2, <2>3
<1>3. Promised'
  <2>1. SUFFICES ASSUME NEW i \in DOMAIN notes', NEW s \in notes'[i].watchers
                 PROVE  /\ notes'[i].user = OwnerOf[s] /\ socket'[s] # "unused"
                        /\ socket'[s] = "open" => Coming(s, i)'
    BY DEF Promised
  <2>2. /\ i \in DOMAIN notes /\ s \in notes[i].watchers /\ notes'[i].user = notes[i].user
        /\ notes'[i].from = notes[i].from
    BY DEF Grown
  <2>3. s \in Sockets
    <3>1. notes[i] \in Note
      BY <2>2, ElementOfSeq, LenProperties DEF DbTypes
    <3> QED BY <2>2, <3>1 DEF Note
  <2>4. /\ notes[i].user = OwnerOf[s] /\ socket[s] # "unused"
        /\ socket[s] = "open" => Coming(s, i)
    BY <2>2 DEF WireInv, Promised
  <2>5. Coming(s, i) => Coming(s, i)'
    BY <2>2 DEF Coming, Told
  <2> QED BY <2>2, <2>3, <2>4, <2>5 DEF SocketsMove
<1> QED BY <1>1, <1>2, <1>3

\* What Push schedules and publishes.
LEMMA PushIs ==
  ASSUME WireInv, NEW p \in Processes, NEW events \in Seq(Event), Push(p, events)
  PROVE  /\ loop' \in [Processes -> Seq(Event)] /\ channel' \in [Processes -> Seq(Envelope)]
         /\ resting' \subseteq Processes /\ (redis => resting' = resting)
         /\ \A q \in Processes :
              /\ loop'[q] = IF q = p /\ p # Worker THEN loop[q] \o events ELSE loop[q]
              /\ Carried(channel[q]) \in Seq(Event)
              /\ \/ channel'[q] = channel[q]
                 \/ /\ channel'[q] = channel[q] \o [i \in DOMAIN events |-> [origin |-> p, event |-> events[i]]]
                    /\ Carried(channel'[q]) = Carried(channel[q]) \o events
              /\ redis /\ p \notin resting /\ q \in listening =>
                   Carried(channel'[q]) = Carried(channel[q]) \o events
<1> DEFINE m == [i \in DOMAIN events |-> [origin |-> p, event |-> events[i]]]
<1>1. /\ loop \in [Processes -> Seq(Event)] /\ channel \in [Processes -> Seq(Envelope)]
      /\ resting \subseteq Processes
  BY DEF WireInv, WireTypes
<1>2. loop' = IF p = Worker THEN loop ELSE [loop EXCEPT ![p] = @ \o events]
  BY DEF Push
<1>3. loop[p] \o events \in Seq(Event)
  BY <1>1, ConcatProperties
<1>4. /\ loop' \in [Processes -> Seq(Event)]
      /\ \A q \in Processes : loop'[q] = IF q = p /\ p # Worker THEN loop[q] \o events ELSE loop[q]
  BY <1>1, <1>2, <1>3
<1>5. \A q \in Processes : /\ channel[q] \o m \in Seq(Envelope)
                           /\ Carried(channel[q]) \in Seq(Event)
                           /\ Carried(channel[q] \o m) = Carried(channel[q]) \o events
  BY <1>1, CarriedConcat
<1>6. channel' = IF redis /\ p \notin resting
                   THEN [q \in Processes |-> IF q \in listening THEN channel[q] \o m ELSE channel[q]]
                   ELSE channel
  BY DEF Push, Published
<1> HIDE DEF m
<1>7. channel' \in [Processes -> Seq(Envelope)]
  BY <1>1, <1>5, <1>6
<1>8. \A q \in Processes :
        channel'[q] = IF redis /\ p \notin resting /\ q \in listening THEN channel[q] \o m ELSE channel[q]
  BY <1>6
<1>9. resting' \subseteq Processes /\ (redis => resting' = resting)
  BY <1>1 DEF Push
<1>10. \A q \in Processes :
         /\ \/ channel'[q] = channel[q]
            \/ channel'[q] = channel[q] \o m /\ Carried(channel'[q]) = Carried(channel[q]) \o events
         /\ redis /\ p \notin resting /\ q \in listening =>
              Carried(channel'[q]) = Carried(channel[q]) \o events
  BY <1>5, <1>8
<1> QED BY <1>4, <1>5, <1>7, <1>9, <1>10 DEF m

\* A push of what was not there before.
LEMMA PushKeeps ==
  ASSUME WireInv, DbTypes, DbTypes', Grown(notes, notes'),
         NEW p \in Processes, NEW events \in Seq(Event), Push(p, events),
         UNCHANGED <<deployment, socket, told, listening, redis, faults>>,
         ShowsOnce(events), Scheduled(p, events, notes'),
         \A i : Shows(events, i) => i \notin DOMAIN notes,
         \A i \in DOMAIN notes' \ DOMAIN notes :
           /\ notes'[i].from = p
           /\ \A s \in notes'[i].watchers : /\ notes'[i].user = OwnerOf[s] /\ socket[s] = "open"
                                            /\ Shows(events, i)
  PROVE  Tracked' /\ Done' /\ Promised' /\ Connected'
<1> DEFINE m == [i \in DOMAIN events |-> [origin |-> p, event |-> events[i]]]
<1>1. /\ loop' \in [Processes -> Seq(Event)] /\ channel' \in [Processes -> Seq(Envelope)]
      /\ (redis => resting' = resting)
      /\ \A q \in Processes :
           /\ loop'[q] = IF q = p /\ p # Worker THEN loop[q] \o events ELSE loop[q]
           /\ Carried(channel[q]) \in Seq(Event)
           /\ \/ channel'[q] = channel[q]
              \/ channel'[q] = channel[q] \o m /\ Carried(channel'[q]) = Carried(channel[q]) \o events
           /\ redis /\ p \notin resting /\ q \in listening =>
                Carried(channel'[q]) = Carried(channel[q]) \o events
  BY PushIs
<1>2. /\ loop \in [Processes -> Seq(Event)] /\ channel \in [Processes -> Seq(Envelope)]
      /\ told \in [Sockets -> Seq(Event)]
  BY DEF WireInv, WireTypes
<1>3. \A q \in Processes : /\ Scheduled(q, loop[q], notes') /\ ShowsOnce(loop[q])
                           /\ Sent(channel[q], notes') /\ ShowsOnce(Carried(channel[q]))
                           /\ Scheduled(q, loop[q], notes) /\ Sent(channel[q], notes)
  BY <1>2, GrownKeeps DEF WireInv, Tracked
<1>4. \A q \in Processes : /\ \A i : Shows(loop[q], i) => i \in DOMAIN notes
                           /\ \A i : Shows(Carried(channel[q]), i) => i \in DOMAIN notes
  <2>1. SUFFICES ASSUME NEW q \in Processes
                 PROVE  /\ \A i : Shows(loop[q], i) => i \in DOMAIN notes
                        /\ \A i : Shows(Carried(channel[q]), i) => i \in DOMAIN notes
    OBVIOUS
  <2>2. \A i : Shows(loop[q], i) => i \in DOMAIN notes
    BY <1>3 DEF Scheduled, Shows
  <2>3. \A i : Shows(Carried(channel[q]), i) => i \in DOMAIN notes
    BY <1>3 DEF Sent, Shows, Carried
  <2> QED BY <2>2, <2>3
<1>5. \A q \in Processes :
        /\ loop[q] \o events \in Seq(Event)
        /\ \A i : Shows(loop[q] \o events, i) <=> Shows(loop[q], i) \/ Shows(events, i)
        /\ ShowsOnce(loop[q] \o events)
  <2>1. SUFFICES ASSUME NEW q \in Processes
                 PROVE  /\ loop[q] \o events \in Seq(Event)
                        /\ \A i : Shows(loop[q] \o events, i) <=> Shows(loop[q], i) \/ Shows(events, i)
                        /\ ShowsOnce(loop[q] \o events)
    OBVIOUS
  <2>2. \A i : ~(Shows(loop[q], i) /\ Shows(events, i))
    BY <1>4
  <2>3. loop[q] \in Seq(Event)
    BY <1>2
  <2> QED BY <1>3, <2>2, <2>3, ConcatShows
<1>6. \A q \in Processes :
        /\ \A i : Shows(Carried(channel[q]) \o events, i) <=> Shows(Carried(channel[q]), i) \/ Shows(events, i)
        /\ ShowsOnce(Carried(channel[q]) \o events)
  <2>1. SUFFICES ASSUME NEW q \in Processes
                 PROVE  /\ \A i : Shows(Carried(channel[q]) \o events, i)
                                    <=> Shows(Carried(channel[q]), i) \/ Shows(events, i)
                        /\ ShowsOnce(Carried(channel[q]) \o events)
    OBVIOUS
  <2>2. \A i : ~(Shows(Carried(channel[q]), i) /\ Shows(events, i))
    BY <1>4
  <2>3. Carried(channel[q]) \in Seq(Event)
    BY <1>1
  <2> QED BY <1>3, <2>2, <2>3, ConcatShows
<1>7. Tracked'
  <2>1. SUFFICES ASSUME NEW q \in Processes
                 PROVE  /\ Scheduled(q, loop'[q], notes') /\ ShowsOnce(loop'[q])
                        /\ Sent(channel'[q], notes') /\ ShowsOnce(Carried(channel'[q]))
    BY DEF Tracked
  <2>2. Scheduled(q, loop'[q], notes') /\ ShowsOnce(loop'[q])
    <3>1. CASE loop'[q] = loop[q]
      BY <1>3, <3>1
    <3>2. CASE q = p /\ loop'[q] = loop[q] \o events
      <4>1. Scheduled(p, loop[p], notes') /\ loop[p] \in Seq(Event)
        BY <1>2, <1>3
      <4>2. Scheduled(p, loop[p] \o events, notes')
        BY <4>1, ConcatProperties, LenProperties DEF Scheduled
      <4> QED BY <1>5, <3>2, <4>2
    <3> QED BY <1>1, <3>1, <3>2
  <2>3. Sent(channel'[q], notes') /\ ShowsOnce(Carried(channel'[q]))
    <3>1. CASE channel'[q] = channel[q]
      BY <1>3, <3>1
    <3>2. CASE channel'[q] = channel[q] \o m /\ Carried(channel'[q]) = Carried(channel[q]) \o events
      <4>1. Sent(channel[q], notes') /\ channel[q] \in Seq(Envelope)
        BY <1>2, <1>3
      <4>2. Sent(m, notes')
        BY DEF Scheduled, Sent
      <4>3. m \in Seq(Envelope)
        <5>1. /\ Len(events) \in Nat /\ DOMAIN events = 1..Len(events)
              /\ \A k \in 1..Len(events) : events[k] \in Event
          BY LenProperties, ElementOfSeq
        <5>2. m \in [1..Len(events) -> Envelope]
          BY <5>1 DEF Envelope
        <5> QED BY <5>1, <5>2, AsSeq
      <4> HIDE DEF m
      <4>4. Sent(channel[q] \o m, notes')
        BY <4>1, <4>2, <4>3, ConcatProperties, LenProperties DEF Sent
      <4> QED BY <1>6, <3>2, <4>4
    <3> HIDE DEF m
    <3> QED BY <1>1, <3>1, <3>2
  <2> QED BY <2>2, <2>3
<1> HIDE DEF m
<1>8. \A s \in Sockets : HeldBy[s] \in Processes /\ HeldBy[s] # Worker
  BY ProcessesAssumption
<1>9. \A q \in Processes, i \in DOMAIN notes :
        /\ Shows(loop'[q], i) <=> Shows(loop[q], i)
        /\ Shows(Carried(channel'[q]), i) <=> Shows(Carried(channel[q]), i)
  <2>1. SUFFICES ASSUME NEW q \in Processes, NEW i \in DOMAIN notes
                 PROVE  /\ Shows(loop'[q], i) <=> Shows(loop[q], i)
                        /\ Shows(Carried(channel'[q]), i) <=> Shows(Carried(channel[q]), i)
    OBVIOUS
  <2>2. ~Shows(events, i)
    OBVIOUS
  <2>3. loop'[q] = loop[q] \/ loop'[q] = loop[q] \o events
    BY <1>1
  <2>4. channel'[q] = channel[q] \/ Carried(channel'[q]) = Carried(channel[q]) \o events
    BY <1>1
  <2>5. Shows(loop'[q], i) <=> Shows(loop[q], i)
    BY <1>5, <2>2, <2>3
  <2>6. Shows(Carried(channel'[q]), i) <=> Shows(Carried(channel[q]), i)
    BY <1>6, <2>2, <2>4
  <2> QED BY <2>5, <2>6
<1>10. Done'
  <2>1. SUFFICES ASSUME NEW s \in Sockets
                 PROVE  /\ ShowsOnce(told[s])
                        /\ \A i : Shows(told[s], i) =>
                             /\ i \in DOMAIN notes'
                             /\ IF notes'[i].from = HeldBy[s] THEN ~Shows(loop'[HeldBy[s]], i)
                                ELSE ~Shows(Carried(channel'[HeldBy[s]]), i)
    BY DEF Done
  <2>2. /\ ShowsOnce(told[s])
        /\ \A i : Shows(told[s], i) =>
             /\ i \in DOMAIN notes
             /\ IF notes[i].from = HeldBy[s] THEN ~Shows(loop[HeldBy[s]], i)
                ELSE ~Shows(Carried(channel[HeldBy[s]]), i)
    BY DEF WireInv, Done
  <2>3. \A i \in DOMAIN notes : i \in DOMAIN notes' /\ notes'[i].from = notes[i].from
    BY DEF Grown
  <2> QED BY <1>8, <1>9, <2>2, <2>3
<1>11. Promised'
  <2>1. SUFFICES ASSUME NEW i \in DOMAIN notes', NEW s \in notes'[i].watchers
                 PROVE  /\ notes'[i].user = OwnerOf[s] /\ socket[s] # "unused"
                        /\ socket[s] = "open" => Coming(s, i)'
    BY DEF Promised
  <2>2. s \in Sockets
    <3>1. notes'[i] \in Note
      BY ElementOfSeq, LenProperties DEF DbTypes
    <3> QED BY <3>1 DEF Note
  <2>3. CASE i \in DOMAIN notes
    <3>1. /\ s \in notes[i].watchers /\ notes'[i].user = notes[i].user
          /\ notes'[i].from = notes[i].from
      BY <2>3 DEF Grown
    <3>2. /\ notes[i].user = OwnerOf[s] /\ socket[s] # "unused"
          /\ socket[s] = "open" => Coming(s, i)
      BY <2>3, <3>1 DEF WireInv, Promised
    <3>3. HeldBy[s] \in Processes
      BY <1>8, <2>2
    <3>4. Coming(s, i) => Coming(s, i)'
      BY <1>9, <2>3, <3>1, <3>3 DEF Coming, Told, NoRedisFault
    <3> QED BY <3>1, <3>2, <3>4
  <2>4. CASE i \notin DOMAIN notes
    <3>1. /\ notes'[i].from = p /\ notes'[i].user = OwnerOf[s] /\ socket[s] = "open"
          /\ Shows(events, i)
      BY <2>4
    <3>2. HeldBy[s] = p => Shows(loop'[HeldBy[s]], i)
      <4>1. SUFFICES ASSUME HeldBy[s] = p
                     PROVE  Shows(loop'[p], i)
        OBVIOUS
      <4>2. p # Worker
        BY <1>8, <2>2, <4>1
      <4>3. loop'[p] = loop[p] \o events
        BY <1>1, <4>2
      <4> QED BY <1>5, <3>1, <4>3
    <3>3. NoRedisFault => Shows(Carried(channel'[HeldBy[s]]), i)
      <4>1. SUFFICES ASSUME NoRedisFault
                     PROVE  Shows(Carried(channel'[HeldBy[s]]), i)
        OBVIOUS
      <4>2. redis /\ p \notin resting /\ HeldBy[s] \in listening
        BY <2>2, <3>1, <4>1 DEF WireInv, Connected
      <4>3. Carried(channel'[HeldBy[s]]) = Carried(channel[HeldBy[s]]) \o events
        BY <1>1, <1>8, <2>2, <4>2
      <4> QED BY <1>6, <1>8, <2>2, <3>1, <4>3
    <3>4. Coming(s, i)'
      BY <3>1, <3>2, <3>3 DEF Coming, NoRedisFault
    <3> QED BY <3>1, <3>4
  <2> QED BY <2>3, <2>4
<1>12. Connected'
  BY <1>1 DEF WireInv, Connected, NoRedisFault, Api
<1> QED BY <1>7, <1>10, <1>11, <1>12

\* What _deliver_local writes and closes.
LEMMA DeliverLocalIs ==
  ASSUME WireInv, NEW p \in Processes, NEW e \in Event, DeliverLocal(p, e)
  PROVE  /\ told' \in [Sockets -> Seq(Event)]
         /\ socket' \in [Sockets -> {"unused", "open", "dropped", "closed"}]
         /\ SocketsMove
         /\ \A s \in Sockets :
              /\ told'[s] = IF HeldBy[s] = p /\ OwnerOf[s] = e.user /\ socket[s] = "open"
                              THEN Append(told[s], e) ELSE told[s]
              /\ socket'[s] \in {"open", "dropped"} => socket'[s] = socket[s]
<1>1. /\ told \in [Sockets -> Seq(Event)]
      /\ socket \in [Sockets -> {"unused", "open", "dropped", "closed"}]
  BY DEF WireInv, WireTypes
<1>2. /\ told' = [s \in Sockets |-> IF s \in Registered(p, e.user) /\ socket[s] = "open"
                                      THEN Append(told[s], e) ELSE told[s]]
      /\ socket' = [s \in Sockets |-> IF s \in Registered(p, e.user) /\ socket[s] = "dropped"
                                        THEN "closed" ELSE socket[s]]
  BY DEF DeliverLocal
<1>3. \A s \in Sockets : Append(told[s], e) \in Seq(Event)
  BY <1>1, AppendProperties
<1>4. \A s \in Sockets : s \in Registered(p, e.user) <=>
        socket[s] \in {"open", "dropped"} /\ HeldBy[s] = p /\ OwnerOf[s] = e.user
  BY DEF Registered
<1>5. told' \in [Sockets -> Seq(Event)]
  BY <1>1, <1>2, <1>3
<1>6. \A s \in Sockets : told'[s] = IF HeldBy[s] = p /\ OwnerOf[s] = e.user /\ socket[s] = "open"
                                      THEN Append(told[s], e) ELSE told[s]
  BY <1>2, <1>4
<1>7. /\ socket' \in [Sockets -> {"unused", "open", "dropped", "closed"}]
      /\ \A s \in Sockets : socket'[s] = socket[s] \/ (socket[s] = "dropped" /\ socket'[s] = "closed")
  BY <1>1, <1>2
<1> QED BY <1>1, <1>5, <1>6, <1>7 DEF SocketsMove

\* The loop writes to the pages of its process what the process itself made.
LEMMA DeliverKeeps ==
  ASSUME WireInv, DbTypes, NEW p \in Processes, Deliver(p)
  PROVE  WireInv'
<1> DEFINE q == loop[p]
           e == Head(q)
<1>1. /\ q # <<>> /\ DeliverLocal(p, e) /\ loop' = [loop EXCEPT ![p] = Tail(@)]
      /\ UNCHANGED <<deployment, notes, reading, channel, listening, resting, redis, faults>>
  BY DEF Deliver, dbVars
<1>2. /\ loop \in [Processes -> Seq(Event)] /\ told \in [Sockets -> Seq(Event)]
      /\ q \in Seq(Event) /\ Scheduled(p, q, notes) /\ ShowsOnce(q)
  BY DEF WireInv, WireTypes, Tracked
<1>3. /\ e \in Event /\ Tail(q) \in Seq(Event)
      /\ \A i : Shows(Tail(q), i) => Shows(q, i)
      /\ \A i : Shows(q, i) => Shows(Tail(q), i) \/ (e.event = "new" /\ e.id = i)
      /\ e.event = "new" => Shows(q, e.id)
      /\ ShowsOnce(Tail(q))
      /\ e.event = "new" => ~Shows(Tail(q), e.id)
  BY <1>1, <1>2, TailShows
<1>4. e.event = "new" => e.id \in DOMAIN notes /\ notes[e.id].from = p /\ notes[e.id].user = e.user
  BY <1>1, <1>2, HeadTailProperties, LenProperties, EmptySeq DEF Scheduled
<1>5. Scheduled(p, Tail(q), notes)
  <2>1. /\ Len(q) \in Nat /\ Len(q) > 0 /\ DOMAIN q = 1..Len(q)
        /\ DOMAIN Tail(q) = 1..Len(q) - 1
        /\ \A k \in 1..Len(q) - 1 : Tail(q)[k] = q[k + 1]
    BY <1>1, <1>2, HeadTailProperties, LenProperties, EmptySeq
  <2> HIDE DEF q
  <2>2. \A k \in DOMAIN Tail(q) : k + 1 \in DOMAIN q /\ Tail(q)[k] = q[k + 1]
    BY <2>1
  <2> QED BY <1>2, <2>2 DEF Scheduled
<1>6. /\ told' \in [Sockets -> Seq(Event)]
      /\ socket' \in [Sockets -> {"unused", "open", "dropped", "closed"}]
      /\ SocketsMove
      /\ \A s \in Sockets :
           /\ told'[s] = IF HeldBy[s] = p /\ OwnerOf[s] = e.user /\ socket[s] = "open"
                           THEN Append(told[s], e) ELSE told[s]
           /\ socket'[s] \in {"open", "dropped"} => socket'[s] = socket[s]
  BY <1>1, <1>3, DeliverLocalIs
<1>7. /\ loop' \in [Processes -> Seq(Event)] /\ loop'[p] = Tail(q)
      /\ \A o \in Processes \ {p} : loop'[o] = loop[o]
  BY <1>1, <1>2, <1>3
<1> HIDE DEF e, q
<1>8. WireTypes'
  BY <1>1, <1>6, <1>7 DEF WireInv, WireTypes
<1>9. Tracked'
  <2>1. SUFFICES ASSUME NEW o \in Processes
                 PROVE  /\ Scheduled(o, loop'[o], notes) /\ ShowsOnce(loop'[o])
                        /\ Sent(channel[o], notes) /\ ShowsOnce(Carried(channel[o]))
    BY <1>1 DEF Tracked
  <2> QED BY <1>3, <1>5, <1>7 DEF WireInv, Tracked
<1>10. \A s \in Sockets : HeldBy[s] \in Processes
  BY ProcessesAssumption
<1>11. \A s \in Sockets :
         \/ told'[s] = told[s]
         \/ /\ HeldBy[s] = p /\ socket[s] = "open"
            /\ ShowsOnce(told[s]) /\ (e.event = "new" => ~Shows(told[s], e.id)) => ShowsOnce(told'[s])
            /\ \A i : Shows(told'[s], i) <=> Shows(told[s], i) \/ (e.event = "new" /\ e.id = i)
  <2>1. SUFFICES ASSUME NEW s \in Sockets, HeldBy[s] = p, socket[s] = "open",
                        told'[s] = Append(told[s], e)
                 PROVE  /\ ShowsOnce(told[s]) /\ (e.event = "new" => ~Shows(told[s], e.id))
                             => ShowsOnce(told'[s])
                        /\ \A i : Shows(told'[s], i) <=> Shows(told[s], i) \/ (e.event = "new" /\ e.id = i)
    BY <1>6
  <2>2. told[s] \in Seq(Event)
    BY <1>2
  <2> QED BY <1>3, <2>1, <2>2, AppendShows
<1>12. Done'
  <2>1. SUFFICES ASSUME NEW s \in Sockets
                 PROVE  /\ ShowsOnce(told'[s])
                        /\ \A i : Shows(told'[s], i) =>
                             /\ i \in DOMAIN notes
                             /\ IF notes[i].from = HeldBy[s] THEN ~Shows(loop'[HeldBy[s]], i)
                                ELSE ~Shows(Carried(channel[HeldBy[s]]), i)
    BY <1>1 DEF Done
  <2>2. /\ ShowsOnce(told[s])
        /\ \A i : Shows(told[s], i) =>
             /\ i \in DOMAIN notes
             /\ IF notes[i].from = HeldBy[s] THEN ~Shows(loop[HeldBy[s]], i)
                ELSE ~Shows(Carried(channel[HeldBy[s]]), i)
    BY DEF WireInv, Done
  <2>3. \A i : ~Shows(loop[HeldBy[s]], i) => ~Shows(loop'[HeldBy[s]], i)
    BY <1>3, <1>7, <1>10 DEF q
  <2>4. CASE told'[s] = told[s]
    BY <2>2, <2>3, <2>4
  <2>5. CASE /\ HeldBy[s] = p
             /\ ShowsOnce(told[s]) /\ (e.event = "new" => ~Shows(told[s], e.id)) => ShowsOnce(told'[s])
             /\ \A i : Shows(told'[s], i) <=> Shows(told[s], i) \/ (e.event = "new" /\ e.id = i)
    <3>1. e.event = "new" => ~Shows(told[s], e.id)
      BY <1>3, <1>4, <2>2, <2>5 DEF q
    <3>2. ASSUME NEW i, Shows(told'[s], i)
          PROVE  /\ i \in DOMAIN notes
                 /\ IF notes[i].from = HeldBy[s] THEN ~Shows(loop'[HeldBy[s]], i)
                    ELSE ~Shows(Carried(channel[HeldBy[s]]), i)
      <4>1. CASE Shows(told[s], i)
        BY <2>2, <2>3, <4>1
      <4>2. CASE e.event = "new" /\ e.id = i
        BY <1>3, <1>4, <1>7, <2>5, <4>2
      <4> QED BY <2>5, <3>2, <4>1, <4>2
    <3> QED BY <2>2, <2>5, <3>1, <3>2
  <2> QED BY <1>11, <2>4, <2>5
<1>13. Promised'
  <2>1. SUFFICES ASSUME NEW i \in DOMAIN notes, NEW s \in notes[i].watchers
                 PROVE  /\ notes[i].user = OwnerOf[s] /\ socket'[s] # "unused"
                        /\ socket'[s] = "open" => Coming(s, i)'
    BY <1>1 DEF Promised
  <2>2. s \in Sockets
    <3>1. notes[i] \in Note
      BY ElementOfSeq, LenProperties DEF DbTypes
    <3> QED BY <3>1 DEF Note
  <2>3. /\ notes[i].user = OwnerOf[s] /\ socket[s] # "unused"
        /\ socket[s] = "open" => Coming(s, i)
    BY DEF WireInv, Promised
  <2>4. socket'[s] # "unused" /\ (socket'[s] = "open" => socket[s] = "open")
    BY <1>6, <2>2, <2>3 DEF SocketsMove
  <2>5. Told(s, i) => Told(s, i)'
    BY <1>11, <2>2 DEF Told, Shows
  <2>6. ASSUME socket[s] = "open", notes[i].from = HeldBy[s], Shows(loop[HeldBy[s]], i)
        PROVE  Shows(loop'[HeldBy[s]], i) \/ Told(s, i)'
    <3>1. CASE HeldBy[s] = p /\ e.event = "new" /\ e.id = i
      <4>1. told'[s] = Append(told[s], e)
        BY <1>4, <1>6, <2>2, <2>3, <2>6, <3>1
      <4>2. Shows(told'[s], i)
        BY <1>2, <1>3, <2>2, <3>1, <4>1, AppendShows
      <4> QED BY <4>2 DEF Told, Shows
    <3>2. CASE HeldBy[s] = p /\ ~(e.event = "new" /\ e.id = i)
      BY <1>3, <1>7, <2>6, <3>2 DEF q
    <3>3. CASE HeldBy[s] # p
      BY <1>7, <1>10, <2>2, <2>6, <3>3
    <3> QED BY <3>1, <3>2, <3>3
  <2>7. socket[s] = "open" /\ Coming(s, i) => Coming(s, i)'
    BY <1>1, <2>5, <2>6 DEF Coming, NoRedisFault
  <2> QED BY <2>3, <2>4, <2>7
<1>14. Connected'
  BY <1>1, <1>6 DEF WireInv, Connected, NoRedisFault, Api
<1> QED BY <1>8, <1>9, <1>12, <1>13, <1>14 DEF WireInv

\* The listener writes to them what others made, and drops what is its own.
LEMMA ListenKeeps ==
  ASSUME WireInv, DbTypes, NEW p \in Processes, Listen(p)
  PROVE  WireInv'
<1> DEFINE q == channel[p]
           c == Carried(q)
           e == Head(q).event
           foreign == ~IsOwn(p, Head(q))
<1>1. /\ q # <<>> /\ channel' = [channel EXCEPT ![p] = Tail(@)]
      /\ foreign => DeliverLocal(p, e)
      /\ ~foreign => UNCHANGED <<socket, told>>
      /\ UNCHANGED <<deployment, notes, reading, loop, listening, resting, redis, faults>>
  BY DEF Listen, dbVars
<1>2. /\ channel \in [Processes -> Seq(Envelope)] /\ told \in [Sockets -> Seq(Event)]
      /\ q \in Seq(Envelope) /\ Sent(q, notes) /\ ShowsOnce(c)
  BY DEF WireInv, WireTypes, Tracked
<1>3. /\ Head(q) \in Envelope /\ Tail(q) \in Seq(Envelope) /\ c \in Seq(Event) /\ c # <<>>
      /\ Head(c) = e /\ Carried(Tail(q)) = Tail(c)
  BY <1>1, <1>2, CarriedTail
<1>4. /\ e \in Event
      /\ \A i : Shows(Tail(c), i) => Shows(c, i)
      /\ \A i : Shows(c, i) => Shows(Tail(c), i) \/ (e.event = "new" /\ e.id = i)
      /\ e.event = "new" => Shows(c, e.id)
      /\ ShowsOnce(Tail(c))
      /\ e.event = "new" => ~Shows(Tail(c), e.id)
  <2> HIDE DEF c, e
  <2> QED BY <1>2, <1>3, TailShows
<1>5. e.event = "new" => /\ e.id \in DOMAIN notes /\ notes[e.id].user = e.user
                         /\ foreign <=> notes[e.id].from # p
  <2>1. 1 \in DOMAIN q /\ Head(q) = q[1]
    BY <1>1, <1>2, HeadTailProperties, LenProperties, EmptySeq
  <2> QED BY <1>2, <2>1 DEF Sent, IsOwn
<1>6. Sent(Tail(q), notes)
  <2>1. /\ Len(q) \in Nat /\ Len(q) > 0 /\ DOMAIN q = 1..Len(q)
        /\ DOMAIN Tail(q) = 1..Len(q) - 1
        /\ \A k \in 1..Len(q) - 1 : Tail(q)[k] = q[k + 1]
    BY <1>1, <1>2, HeadTailProperties, LenProperties, EmptySeq
  <2> HIDE DEF q
  <2>2. \A k \in DOMAIN Tail(q) : k + 1 \in DOMAIN q /\ Tail(q)[k] = q[k + 1]
    BY <2>1
  <2> QED BY <1>2, <2>2 DEF Sent
<1>7. /\ told' \in [Sockets -> Seq(Event)]
      /\ socket' \in [Sockets -> {"unused", "open", "dropped", "closed"}]
      /\ SocketsMove
      /\ \A s \in Sockets :
           /\ told'[s] = IF foreign /\ HeldBy[s] = p /\ OwnerOf[s] = e.user /\ socket[s] = "open"
                           THEN Append(told[s], e) ELSE told[s]
           /\ socket'[s] \in {"open", "dropped"} => socket'[s] = socket[s]
  <2>1. CASE foreign
    <3> HIDE DEF e, foreign
    <3> QED BY <1>1, <1>4, <2>1, DeliverLocalIs
  <2>2. CASE ~foreign
    <3> HIDE DEF e, foreign
    <3> QED BY <1>1, <2>2 DEF WireInv, WireTypes, SocketsMove
  <2> QED BY <2>1, <2>2
<1>8. /\ channel' \in [Processes -> Seq(Envelope)] /\ Carried(channel'[p]) = Tail(c)
      /\ channel'[p] = Tail(q)
      /\ \A o \in Processes \ {p} : channel'[o] = channel[o]
  BY <1>1, <1>2, <1>3
<1>9. c = Carried(channel[p])
  OBVIOUS
<1> HIDE DEF e, c, q, foreign
<1>10. WireTypes'
  BY <1>1, <1>7, <1>8 DEF WireInv, WireTypes
<1>11. Tracked'
  <2>1. SUFFICES ASSUME NEW o \in Processes
                 PROVE  /\ Scheduled(o, loop[o], notes) /\ ShowsOnce(loop[o])
                        /\ Sent(channel'[o], notes) /\ ShowsOnce(Carried(channel'[o]))
    BY <1>1 DEF Tracked
  <2> QED BY <1>4, <1>6, <1>8 DEF WireInv, Tracked
<1>12. \A s \in Sockets : HeldBy[s] \in Processes
  BY ProcessesAssumption
<1>13. \A s \in Sockets :
         \/ told'[s] = told[s]
         \/ /\ foreign /\ HeldBy[s] = p /\ socket[s] = "open"
            /\ ShowsOnce(told[s]) /\ (e.event = "new" => ~Shows(told[s], e.id)) => ShowsOnce(told'[s])
            /\ \A i : Shows(told'[s], i) <=> Shows(told[s], i) \/ (e.event = "new" /\ e.id = i)
  <2>1. SUFFICES ASSUME NEW s \in Sockets, foreign, HeldBy[s] = p, socket[s] = "open",
                        told'[s] = Append(told[s], e)
                 PROVE  /\ ShowsOnce(told[s]) /\ (e.event = "new" => ~Shows(told[s], e.id))
                             => ShowsOnce(told'[s])
                        /\ \A i : Shows(told'[s], i) <=> Shows(told[s], i) \/ (e.event = "new" /\ e.id = i)
    BY <1>7
  <2>2. told[s] \in Seq(Event)
    BY <1>2
  <2> QED BY <1>4, <2>1, <2>2, AppendShows
<1>14. Done'
  <2>1. SUFFICES ASSUME NEW s \in Sockets
                 PROVE  /\ ShowsOnce(told'[s])
                        /\ \A i : Shows(told'[s], i) =>
                             /\ i \in DOMAIN notes
                             /\ IF notes[i].from = HeldBy[s] THEN ~Shows(loop[HeldBy[s]], i)
                                ELSE ~Shows(Carried(channel'[HeldBy[s]]), i)
    BY <1>1 DEF Done
  <2>2. /\ ShowsOnce(told[s])
        /\ \A i : Shows(told[s], i) =>
             /\ i \in DOMAIN notes
             /\ IF notes[i].from = HeldBy[s] THEN ~Shows(loop[HeldBy[s]], i)
                ELSE ~Shows(Carried(channel[HeldBy[s]]), i)
    BY DEF WireInv, Done
  <2>3. \A i : ~Shows(Carried(channel[HeldBy[s]]), i) => ~Shows(Carried(channel'[HeldBy[s]]), i)
    BY <1>4, <1>8, <1>9, <1>12
  <2>4. CASE told'[s] = told[s]
    BY <2>2, <2>3, <2>4
  <2>5. CASE /\ foreign /\ HeldBy[s] = p
             /\ ShowsOnce(told[s]) /\ (e.event = "new" => ~Shows(told[s], e.id)) => ShowsOnce(told'[s])
             /\ \A i : Shows(told'[s], i) <=> Shows(told[s], i) \/ (e.event = "new" /\ e.id = i)
    <3>1. e.event = "new" => ~Shows(told[s], e.id)
      BY <1>4, <1>5, <1>9, <2>2, <2>5
    <3>2. ASSUME NEW i, Shows(told'[s], i)
          PROVE  /\ i \in DOMAIN notes
                 /\ IF notes[i].from = HeldBy[s] THEN ~Shows(loop[HeldBy[s]], i)
                    ELSE ~Shows(Carried(channel'[HeldBy[s]]), i)
      <4>1. CASE Shows(told[s], i)
        BY <2>2, <2>3, <4>1
      <4>2. CASE e.event = "new" /\ e.id = i
        BY <1>4, <1>5, <1>8, <2>5, <4>2
      <4> QED BY <2>5, <3>2, <4>1, <4>2
    <3> QED BY <2>2, <2>5, <3>1, <3>2
  <2> QED BY <1>13, <2>4, <2>5
<1>15. Promised'
  <2>1. SUFFICES ASSUME NEW i \in DOMAIN notes, NEW s \in notes[i].watchers
                 PROVE  /\ notes[i].user = OwnerOf[s] /\ socket'[s] # "unused"
                        /\ socket'[s] = "open" => Coming(s, i)'
    BY <1>1 DEF Promised
  <2>2. s \in Sockets
    <3>1. notes[i] \in Note
      BY ElementOfSeq, LenProperties DEF DbTypes
    <3> QED BY <3>1 DEF Note
  <2>3. /\ notes[i].user = OwnerOf[s] /\ socket[s] # "unused"
        /\ socket[s] = "open" => Coming(s, i)
    BY DEF WireInv, Promised
  <2>4. socket'[s] # "unused" /\ (socket'[s] = "open" => socket[s] = "open")
    BY <1>7, <2>2, <2>3 DEF SocketsMove
  <2>5. Told(s, i) => Told(s, i)'
    BY <1>13, <2>2 DEF Told, Shows
  <2>6. ASSUME socket[s] = "open", notes[i].from # HeldBy[s], Shows(Carried(channel[HeldBy[s]]), i)
        PROVE  Shows(Carried(channel'[HeldBy[s]]), i) \/ Told(s, i)'
    <3>1. CASE HeldBy[s] = p /\ e.event = "new" /\ e.id = i
      <4>1. told'[s] = Append(told[s], e)
        BY <1>5, <1>7, <2>2, <2>3, <2>6, <3>1
      <4>2. Shows(told'[s], i)
        BY <1>2, <1>4, <2>2, <3>1, <4>1, AppendShows
      <4> QED BY <4>2 DEF Told, Shows
    <3>2. CASE HeldBy[s] = p /\ ~(e.event = "new" /\ e.id = i)
      BY <1>4, <1>8, <1>9, <2>6, <3>2
    <3>3. CASE HeldBy[s] # p
      BY <1>8, <1>12, <2>2, <2>6, <3>3
    <3> QED BY <3>1, <3>2, <3>3
  <2>7. socket[s] = "open" /\ Coming(s, i) => Coming(s, i)'
    BY <1>1, <2>5, <2>6 DEF Coming, NoRedisFault
  <2> QED BY <2>3, <2>4, <2>7
<1>16. Connected'
  BY <1>1, <1>7 DEF WireInv, Connected, NoRedisFault, Api
<1> QED BY <1>10, <1>11, <1>14, <1>15, <1>16 DEF WireInv

\* Faults are counted, and none is forgotten.
LEMMA FaultIs ==
  ASSUME WireInv, NEW kind \in {"drop", "redis", "commit", "restart"}, Fault(kind)
  PROVE  /\ faults' \in Seq({"drop", "redis", "commit", "restart"})
         /\ NoRedisFault' => NoRedisFault /\ kind # "redis"
<1> DEFINE K == {"drop", "redis", "commit", "restart"}
<1>1. faults \in Seq(K) /\ faults' = Append(faults, kind)
  BY DEF WireInv, WireTypes, Fault
<1> HIDE DEF K
<1>2. /\ faults' \in Seq(K) /\ Len(faults') = Len(faults) + 1
      /\ \A i \in 1..Len(faults) : faults'[i] = faults[i]
      /\ faults'[Len(faults) + 1] = kind
  BY <1>1, AppendProperties DEF K
<1>3. Len(faults) \in Nat /\ DOMAIN faults = 1..Len(faults) /\ DOMAIN faults' = 1..Len(faults) + 1
  BY <1>1, <1>2, LenProperties
<1>4. \A i \in DOMAIN faults : i \in DOMAIN faults' /\ faults'[i] = faults[i]
  BY <1>2, <1>3
<1>5. Len(faults) + 1 \in DOMAIN faults'
  BY <1>3
<1>6. NoRedisFault' => NoRedisFault /\ kind # "redis"
  BY <1>2, <1>4, <1>5 DEF NoRedisFault
<1> QED BY <1>2, <1>6 DEF K

\* A restart closes the pages whose events it loses.
LEMMA RestartKeeps ==
  ASSUME WireInv, DbTypes, Grown(notes, notes'), NEW p \in Processes, Restart(p)
  PROVE  WireInv'
<1>1. /\ p \in Api /\ Fault("restart")
      /\ reading' \subseteq reading
      /\ socket' = [s \in Sockets |-> IF HeldBy[s] = p /\ socket[s] \in {"open", "dropped"}
                                        THEN "closed" ELSE socket[s]]
      /\ loop' = [loop EXCEPT ![p] = <<>>] /\ channel' = [channel EXCEPT ![p] = <<>>]
      /\ listening' = IF redis THEN listening \cup {p} ELSE listening \ {p}
      /\ resting' = resting \ {p}
      /\ UNCHANGED <<deployment, told, redis>>
      /\ DOMAIN notes' = DOMAIN notes
  BY DEF Restart
<1>2. /\ loop \in [Processes -> Seq(Event)] /\ channel \in [Processes -> Seq(Envelope)]
      /\ <<>> \in Seq(Event) /\ <<>> \in Seq(Envelope)
  BY EmptySeq DEF WireInv, WireTypes
<1>3. /\ loop' \in [Processes -> Seq(Event)] /\ loop'[p] = <<>>
      /\ channel' \in [Processes -> Seq(Envelope)] /\ channel'[p] = <<>>
      /\ \A o \in Processes \ {p} : loop'[o] = loop[o] /\ channel'[o] = channel[o]
  BY <1>1, <1>2
<1>4. /\ \A i : ~Shows(<<>>, i) /\ ~Shows(Carried(<<>>), i)
      /\ ShowsOnce(<<>>) /\ ShowsOnce(Carried(<<>>))
      /\ \A o \in Processes : Scheduled(o, <<>>, notes') /\ Sent(<<>>, notes')
  BY DEF Shows, Carried, ShowsOnce, Scheduled, Sent
<1>5. /\ socket' \in [Sockets -> {"unused", "open", "dropped", "closed"}] /\ SocketsMove
      /\ \A s \in Sockets : socket'[s] \in {"open", "dropped"} => socket'[s] = socket[s] /\ HeldBy[s] # p
  BY <1>1 DEF WireInv, WireTypes, SocketsMove
<1>6. /\ faults' \in Seq({"drop", "redis", "commit", "restart"})
      /\ NoRedisFault' => NoRedisFault
  BY <1>1, FaultIs
<1>7. WireTypes'
  BY <1>1, <1>3, <1>5, <1>6 DEF WireInv, WireTypes
<1>8. Tracked'
  <2>1. SUFFICES ASSUME NEW o \in Processes
                 PROVE  /\ Scheduled(o, loop'[o], notes') /\ ShowsOnce(loop'[o])
                        /\ Sent(channel'[o], notes') /\ ShowsOnce(Carried(channel'[o]))
    BY DEF Tracked
  <2>2. CASE o = p
    BY <1>3, <1>4, <2>2
  <2>3. CASE o # p
    BY <1>2, <1>3, <2>3, GrownKeeps DEF WireInv, Tracked
  <2> QED BY <2>2, <2>3
<1>9. \A s \in Sockets : HeldBy[s] \in Processes
  BY ProcessesAssumption
<1>10. \A i \in DOMAIN notes : i \in DOMAIN notes' /\ notes'[i].from = notes[i].from
                               /\ notes'[i].user = notes[i].user /\ notes'[i].watchers = notes[i].watchers
  BY DEF Grown
<1>11. Done'
  <2>1. SUFFICES ASSUME NEW s \in Sockets
                 PROVE  /\ ShowsOnce(told[s])
                        /\ \A i : Shows(told[s], i) =>
                             /\ i \in DOMAIN notes'
                             /\ IF notes'[i].from = HeldBy[s] THEN ~Shows(loop'[HeldBy[s]], i)
                                ELSE ~Shows(Carried(channel'[HeldBy[s]]), i)
    BY <1>1 DEF Done
  <2>2. /\ ShowsOnce(told[s])
        /\ \A i : Shows(told[s], i) =>
             /\ i \in DOMAIN notes
             /\ IF notes[i].from = HeldBy[s] THEN ~Shows(loop[HeldBy[s]], i)
                ELSE ~Shows(Carried(channel[HeldBy[s]]), i)
    BY DEF WireInv, Done
  <2>3. CASE HeldBy[s] = p
    BY <1>3, <1>4, <1>10, <2>2, <2>3
  <2>4. CASE HeldBy[s] # p
    BY <1>3, <1>9, <1>10, <2>2, <2>4
  <2> QED BY <2>3, <2>4
<1>12. Promised'
  <2>1. SUFFICES ASSUME NEW i \in DOMAIN notes, NEW s \in notes[i].watchers
                 PROVE  /\ notes'[i].user = OwnerOf[s] /\ socket'[s] # "unused"
                        /\ socket'[s] = "open" => Coming(s, i)'
    BY <1>1, <1>10 DEF Promised
  <2>2. s \in Sockets
    <3>1. notes[i] \in Note
      BY ElementOfSeq, LenProperties DEF DbTypes
    <3> QED BY <3>1 DEF Note
  <2>3. /\ notes[i].user = OwnerOf[s] /\ socket[s] # "unused"
        /\ socket[s] = "open" => Coming(s, i)
    BY DEF WireInv, Promised
  <2>4. socket'[s] # "unused" /\ (socket'[s] = "open" => socket[s] = "open" /\ HeldBy[s] # p)
    BY <1>5, <2>2, <2>3 DEF SocketsMove
  <2>5. HeldBy[s] # p /\ Coming(s, i) => Coming(s, i)'
    BY <1>1, <1>3, <1>6, <1>9, <1>10, <2>2 DEF Coming, Told
  <2> QED BY <1>10, <2>3, <2>4, <2>5
<1>13. Connected'
  <2>1. \A s \in Sockets : socket'[s] \in {"open", "dropped"} => HeldBy[s] \in Api
    BY <1>5 DEF WireInv, Connected
  <2>2. NoRedisFault' => redis /\ Api \subseteq listening' /\ resting' = {}
    BY <1>1, <1>6 DEF WireInv, Connected
  <2> QED BY <1>1, <2>1, <2>2 DEF Connected, Api
<1> QED BY <1>7, <1>8, <1>11, <1>12, <1>13 DEF WireInv

\* When Redis goes away, what channels carried is lost.
LEMMA RedisDownKeeps ==
  ASSUME WireInv, DbTypes, RedisDown
  PROVE  WireInv'
<1>1. /\ Fault("redis") /\ redis' = FALSE /\ listening' = {}
      /\ channel' = [p \in Processes |-> <<>>]
      /\ UNCHANGED <<deployment, notes, reading, socket, told, loop, resting>>
  BY DEF RedisDown, dbVars
<1>2. <<>> \in Seq(Envelope)
  BY EmptySeq DEF WireInv, WireTypes
<1>3. /\ faults' \in Seq({"drop", "redis", "commit", "restart"})
      /\ ~NoRedisFault'
  BY <1>1, FaultIs
<1>4. /\ channel' \in [Processes -> Seq(Envelope)] /\ \A p \in Processes : channel'[p] = <<>>
  BY <1>1, <1>2
<1>5. /\ \A i : ~Shows(Carried(<<>>), i)
      /\ ShowsOnce(Carried(<<>>)) /\ Sent(<<>>, notes)
  BY DEF Shows, Carried, ShowsOnce, Sent
<1>6. WireTypes'
  BY <1>1, <1>3, <1>4 DEF WireInv, WireTypes
<1>7. Tracked'
  BY <1>1, <1>4, <1>5 DEF WireInv, Tracked
<1>8. \A s \in Sockets : HeldBy[s] \in Processes
  BY ProcessesAssumption
<1>9. Done'
  <2>1. SUFFICES ASSUME NEW s \in Sockets
                 PROVE  /\ ShowsOnce(told[s])
                        /\ \A i : Shows(told[s], i) =>
                             /\ i \in DOMAIN notes
                             /\ IF notes[i].from = HeldBy[s] THEN ~Shows(loop[HeldBy[s]], i)
                                ELSE ~Shows(Carried(channel'[HeldBy[s]]), i)
    BY <1>1 DEF Done
  <2> QED BY <1>4, <1>5, <1>8 DEF WireInv, Done
<1>10. Promised'
  <2>1. SUFFICES ASSUME NEW i \in DOMAIN notes, NEW s \in notes[i].watchers
                 PROVE  /\ notes[i].user = OwnerOf[s] /\ socket[s] # "unused"
                        /\ socket[s] = "open" => Coming(s, i)'
    BY <1>1 DEF Promised
  <2>2. Coming(s, i) => Coming(s, i)'
    BY <1>1, <1>3 DEF Coming, Told
  <2> QED BY <2>2 DEF WireInv, Promised
<1>11. Connected'
  BY <1>1, <1>3 DEF WireInv, Connected, Api
<1> QED BY <1>6, <1>7, <1>9, <1>10, <1>11 DEF WireInv

\* What Work pushes is what it inserts.
LEMMA WorkPushes ==
  ASSUME DbInv, WireInv, NEW r \in Requests, Work(r), DbInv', Grown(notes, notes')
  PROVE  WireInv'
<1> DEFINE p == tx[r].process
           E == NewEvents(r)
<1>1. DbTypes /\ Doing /\ DbTypes' /\ Open(r)
  BY DEF DbInv, Work
<1>2. p \in Processes
  BY <1>1 DEF DbTypes, Open, OrNone, Transaction
<1>3. /\ Push(p, E)
      /\ UNCHANGED <<deployment, reading, socket, told, listening, redis, faults>>
  BY DEF Work
<1>4. /\ Len(notes) \in Nat /\ Len(New(r)) \in Nat
      /\ DOMAIN notes = 1..Len(notes)
      /\ \A i \in DOMAIN notes' \ DOMAIN notes :
           /\ i - Len(notes) \in 1..Len(New(r))
           /\ LET c == New(r)[i - Len(notes)]
              IN  /\ notes'[i].user = c.user
                  /\ notes'[i].watchers = {s \in Sockets : socket[s] = "open" /\ OwnerOf[s] = c.user}
           /\ notes'[i].from = p
      /\ \A k \in 1..Len(New(r)) : /\ Len(notes) + k \in DOMAIN notes' \ DOMAIN notes
                                   /\ (Len(notes) + k) - Len(notes) = k
  BY WorkIs
<1>5. /\ E \in Seq(Event) /\ DOMAIN E = 1..Len(New(r))
      /\ \A k \in 1..Len(New(r)) : /\ E[k].event = "new" /\ E[k].user = New(r)[k].user
                                   /\ E[k].id = Len(notes) + k
  BY <1>1, NewEventsAre
<1> HIDE DEF E, p
<1>6. ShowsOnce(E)
  BY <1>4, <1>5 DEF ShowsOnce
<1>7. Scheduled(p, E, notes')
  <2>1. SUFFICES ASSUME NEW k \in 1..Len(New(r))
                 PROVE  /\ E[k].id \in DOMAIN notes' /\ notes'[E[k].id].from = p
                        /\ notes'[E[k].id].user = E[k].user
    BY <1>5 DEF Scheduled
  <2> DEFINE i == Len(notes) + k
  <2>1a. E[k].id = i /\ i \in DOMAIN notes' \ DOMAIN notes /\ i - Len(notes) = k
    BY <1>4, <1>5
  <2> HIDE DEF i
  <2> QED BY <1>4, <1>5, <2>1a
<1>8. \A i : Shows(E, i) => i \notin DOMAIN notes
  BY <1>4, <1>5 DEF Shows
<1>9. \A i \in DOMAIN notes' \ DOMAIN notes :
         /\ notes'[i].from = p
         /\ \A s \in notes'[i].watchers : /\ notes'[i].user = OwnerOf[s] /\ socket[s] = "open"
                                          /\ Shows(E, i)
  <2>1. SUFFICES ASSUME NEW i \in DOMAIN notes' \ DOMAIN notes
                 PROVE  Shows(E, i)
    BY <1>4
  <2>2. DOMAIN notes' = 1..Len(notes')
    BY <1>1, LenProperties DEF DbTypes
  <2> DEFINE k == i - Len(notes)
  <2>3. k \in 1..Len(New(r)) /\ Len(notes) + k = i
    BY <1>4, <2>2
  <2> HIDE DEF k
  <2> QED BY <1>5, <2>3 DEF Shows
<1>10. Tracked' /\ Done' /\ Promised' /\ Connected'
  BY <1>1, <1>2, <1>3, <1>5, <1>6, <1>7, <1>8, <1>9, PushKeeps
<1>11. WireTypes'
  <2>1. loop' \in [Processes -> Seq(Event)] /\ channel' \in [Processes -> Seq(Envelope)]
        /\ resting' \subseteq Processes
    BY <1>2, <1>3, <1>5, PushIs
  <2> QED BY <1>3, <2>1 DEF WireInv, WireTypes
<1> QED BY <1>10, <1>11 DEF WireInv

\* The push that marking as read owes shows nothing new.
LEMMA ReadPushedKeeps ==
  ASSUME DbInv, WireInv, ReadPushed
  PROVE  WireInv'
<1>1. PICK o \in reading :
        /\ reading' = reading \ {o}
        /\ Push(o.process, <<[event |-> o.event, user |-> o.user, id |-> o.id]>>)
        /\ UNCHANGED <<deployment, now, dbVars, tx, socket, told, listening, redis, faults>>
  BY DEF ReadPushed
<1> DEFINE e == [event |-> o.event, user |-> o.user, id |-> o.id]
           E == <<e>>
           p == o.process
<1>2. /\ p \in Processes /\ e \in Event /\ e.event # "new"
      /\ reading \subseteq [process : Processes, user : Users, event : {"read", "read_all"}, id : Nat]
  BY DEF WireInv, WireTypes, Event
<1> HIDE DEF e
<1>3. E \in Seq(Event) /\ ShowsOnce(E) /\ \A i : ~Shows(E, i)
  BY <1>2 DEF ShowsOnce, Shows
<1>4. Push(p, E) /\ notes' = notes
  BY <1>1 DEF dbVars, e
<1>5. Scheduled(p, E, notes')
  BY <1>2 DEF Scheduled
<1> HIDE DEF E, p
<1>6. DbTypes /\ DbTypes' /\ Grown(notes, notes')
  BY <1>1 DEF DbInv, DbTypes, Grown, dbVars
<1>7. Tracked' /\ Done' /\ Promised' /\ Connected'
  BY <1>1, <1>2, <1>3, <1>4, <1>5, <1>6, PushKeeps
<1>8. WireTypes'
  <2>1. loop' \in [Processes -> Seq(Event)] /\ channel' \in [Processes -> Seq(Envelope)]
        /\ resting' \subseteq Processes
    BY <1>2, <1>3, <1>4, PushIs
  <2> QED BY <1>1, <2>1 DEF WireInv, WireTypes
<1> QED BY <1>7, <1>8 DEF WireInv

\* Steps that neither push nor deliver.
LEMMA StillSteps ==
  ASSUME DbInv, WireInv, DbInv', Grown(notes, notes'), DOMAIN notes' = DOMAIN notes, WireTypes',
         SocketsMove, UNCHANGED <<deployment, told, loop, channel, listening>>,
         NoRedisFault' => NoRedisFault /\ redis' = redis /\ resting' = resting,
         \A s \in Sockets : socket'[s] \in {"open", "dropped"} =>
                               socket[s] \in {"open", "dropped"} \/ s \in deployment.sockets
  PROVE  WireInv'
<1>1. Tracked' /\ Done' /\ Promised'
  BY StillKeeps DEF DbInv
<1>2. Connected'
  <2>1. \A s \in deployment.sockets : s \in Sockets /\ HeldBy[s] \in Api
    <3>1. deployment \in Deployments
      BY DEF DbInv, DbTypes
    <3>2. deployment.sockets \subseteq Sockets /\ \A s \in deployment.sockets : HeldBy[s] \in deployment.processes
      BY <3>1, FeedDeploymentsAssumption, PagesAssumption
    <3> QED BY <3>2, ProcessesAssumption DEF Api
  <2> QED BY <2>1 DEF WireInv, Connected, Api
<1> QED BY <1>1, <1>2 DEF WireInv

LEMMA WireStep ==
  ASSUME DbInv, WireInv, [Next]_vars, DbInv', Grown(notes, notes')
  PROVE  WireInv'
<1> USE DEF WireInv, WireTypes
<1>0. /\ DbTypes
      /\ socket' = socket => SocketsMove
  BY DEF DbInv, SocketsMove
<1>1. ASSUME DOMAIN notes' = DOMAIN notes,
             UNCHANGED <<deployment, socket, told, loop, channel, resting, listening, redis, faults>>,
             reading' \subseteq [process : Processes, user : Users, event : {"read", "read_all"}, id : Nat]
      PROVE  WireInv'
  <2>1. WireTypes'
    BY <1>1
  <2>2. NoRedisFault' => NoRedisFault
    BY <1>1 DEF NoRedisFault
  <2> HIDE DEF WireInv, WireTypes
  <2> QED BY <1>0, <1>1, <2>1, <2>2, StillSteps
<1> HIDE DEF WireInv, WireTypes
<1>2. reading \subseteq [process : Processes, user : Users, event : {"read", "read_all"}, id : Nat]
  BY DEF WireInv, WireTypes
<1>3. ASSUME NEW r \in Requests, Load(r) \/ Conflict(r) \/ Commit(r)
      PROVE  WireInv'
  <2>1. DOMAIN notes' = DOMAIN notes
    BY <1>3 DEF Load, Conflict, Commit, RolledBack, dbVars
  <2>2. UNCHANGED <<deployment, reading, socket, told, loop, channel, resting, listening, redis, faults>>
    BY <1>3 DEF Load, Conflict, Commit, pushVars
  <2> QED BY <1>1, <1>2, <2>1, <2>2
<1>4. ASSUME NEW r \in Requests, CommitFails(r)
      PROVE  WireInv'
  <2>1. /\ DOMAIN notes' = DOMAIN notes /\ Fault("commit")
        /\ UNCHANGED <<deployment, reading, socket, told, loop, channel, resting, listening, redis>>
    BY <1>4 DEF CommitFails, RolledBack, pushVars
  <2>2. WireTypes' /\ (NoRedisFault' => NoRedisFault)
    BY <2>1, FaultIs DEF WireInv, WireTypes
  <2> QED BY <1>0, <2>1, <2>2, StillSteps
<1>5. ASSUME NEW r \in Requests, Work(r)
      PROVE  WireInv'
  BY <1>5, WorkPushes
<1>6. ASSUME NEW p \in Api, NEW u \in Users, NEW i \in Nat, NEW event \in {"read", "read_all"},
             Owe(p, u, event, i), DOMAIN notes' = DOMAIN notes,
             UNCHANGED <<deployment, socket, told, pushVars, listening, redis, faults>>
      PROVE  WireInv'
  <2>1. p \in Processes
    BY FeedDeploymentsAssumption DEF Api, DbInv, DbTypes
  <2>2. reading' \subseteq [process : Processes, user : Users, event : {"read", "read_all"}, id : Nat]
    BY <1>2, <1>6, <2>1 DEF Owe
  <2> QED BY <1>1, <1>6, <2>2 DEF pushVars
<1>7. ASSUME NEW p \in Api, NEW u \in Users, MarkAllRead(p, u)
      PROVE  WireInv'
  <2>1. DOMAIN notes' = DOMAIN notes /\ Owe(p, u, "read_all", 0)
    BY <1>7 DEF MarkAllRead
  <2> QED BY <1>6, <1>7, <2>1 DEF MarkAllRead
<1>8. ASSUME NEW p \in Api, NEW u \in Users, NEW i \in DOMAIN notes, MarkRead(p, u, i)
      PROVE  WireInv'
  <2>1. DOMAIN notes' = DOMAIN notes /\ Owe(p, u, "read", i)
    BY <1>8 DEF MarkRead
  <2>2. i \in Nat
    BY <1>0, LenProperties DEF DbTypes
  <2> QED BY <1>6, <1>8, <2>1, <2>2 DEF MarkRead
<1>9. CASE ReadPushed
  BY <1>9, ReadPushedKeeps
<1>10. ASSUME NEW s \in Sockets, Connect(s) \/ Unregister(s) \/ Drop(s)
       PROVE  WireInv'
  <2>1. /\ UNCHANGED <<deployment, notes, reading, told, loop, channel, resting, listening, redis>>
        /\ \/ s \in deployment.sockets /\ socket[s] = "unused" /\ socket' = [socket EXCEPT ![s] = "open"]
           \/ socket[s] = "dropped" /\ socket' = [socket EXCEPT ![s] = "closed"]
           \/ socket[s] = "open" /\ socket' = [socket EXCEPT ![s] = "dropped"]
    BY <1>10 DEF Connect, Unregister, Drop, dbVars, pushVars
  <2>2. faults' = faults \/ Fault("drop")
    BY <1>10 DEF Connect, Unregister, Drop
  <2>3. faults' \in Seq({"drop", "redis", "commit", "restart"}) /\ (NoRedisFault' => NoRedisFault)
    <3>1. CASE faults' = faults
      BY <3>1 DEF WireInv, WireTypes, NoRedisFault
    <3>2. CASE Fault("drop")
      BY <3>2, FaultIs
    <3> QED BY <2>2, <3>1, <3>2
  <2>4. WireTypes' /\ SocketsMove
    BY <2>1, <2>3 DEF WireInv, WireTypes, SocketsMove
  <2>5. \A o \in Sockets : socket'[o] \in {"open", "dropped"} =>
                              socket[o] \in {"open", "dropped"} \/ o \in deployment.sockets
    BY <2>1 DEF WireInv, WireTypes
  <2> QED BY <2>1, <2>3, <2>4, <2>5, StillSteps
<1>11. ASSUME NEW p \in Processes, Deliver(p)
       PROVE  WireInv'
  BY <1>0, <1>11, DeliverKeeps
<1>12. ASSUME NEW p \in Processes, Listen(p)
       PROVE  WireInv'
  BY <1>0, <1>12, ListenKeeps
<1>13. ASSUME NEW p \in Processes, Rested(p)
       PROVE  WireInv'
  <2>1. /\ p \in resting /\ resting' = resting \ {p}
        /\ UNCHANGED <<deployment, notes, reading, socket, told, loop, channel, listening, redis, faults>>
    BY <1>13 DEF Rested, dbVars
  <2>2. WireTypes' /\ (NoRedisFault' => NoRedisFault /\ FALSE)
    BY <2>1 DEF WireInv, WireTypes, Connected, NoRedisFault
  <2> QED BY <1>0, <2>1, <2>2, StillSteps
<1>14. ASSUME NEW p \in Processes, Restart(p)
       PROVE  WireInv'
  BY <1>0, <1>14, RestartKeeps
<1>15. CASE RedisDown
  BY <1>0, <1>15, RedisDownKeeps
<1>16. CASE RedisUp
  <2>1. /\ ~redis /\ redis' = TRUE
        /\ UNCHANGED <<deployment, notes, reading, socket, told, loop, channel, resting, listening, faults>>
    BY <1>16 DEF RedisUp, dbVars, pushVars
  <2>2. WireTypes' /\ (NoRedisFault' => NoRedisFault /\ FALSE)
    BY <2>1 DEF WireInv, WireTypes, Connected, NoRedisFault
  <2> QED BY <1>0, <2>1, <2>2, StillSteps
<1>17. CASE Tick \/ UNCHANGED vars
  <2>1. UNCHANGED <<deployment, notes, reading, socket, told, loop, channel, resting, listening, redis, faults>>
    BY <1>17 DEF Tick, vars, dbVars, pushVars
  <2> QED BY <1>1, <1>2, <2>1
<1> QED BY <1>3, <1>4, <1>5, <1>7, <1>8, <1>9, <1>10, <1>11, <1>12, <1>13, <1>14, <1>15, <1>16, <1>17
        DEF Next

LEMMA WireInit ==
  ASSUME Init
  PROVE  WireInv
<1>1. deployment \in Deployments /\ deployment.processes \subseteq Processes
  BY FeedDeploymentsAssumption DEF Init
<1>2. WireTypes
  <2>1. <<>> \in Seq(Event) /\ <<>> \in Seq(Envelope) /\ <<>> \in Seq({"drop", "redis", "commit", "restart"})
    BY EmptySeq
  <2> QED BY <1>1, <2>1 DEF Init, WireTypes, Api
<1>3. Tracked
  BY DEF Init, Tracked, Scheduled, Sent, ShowsOnce, Carried
<1>4. Done
  BY DEF Init, Done, ShowsOnce, Shows
<1>5. Promised
  BY DEF Init, Promised
<1>6. Connected
  <2>1. \A s \in Sockets : socket[s] \in {"open", "dropped"} => s \in deployment.sockets
    BY <1>1, PagesAssumption DEF Init
  <2>2. \A s \in Sockets : socket[s] \in {"open", "dropped"} => HeldBy[s] \in Api
    BY <1>1, <2>1, PagesAssumption, ProcessesAssumption DEF Api
  <2> QED BY <2>2 DEF Init, Connected
<1> QED BY <1>2, <1>3, <1>4, <1>5, <1>6 DEF WireInv

LEMMA WireAlways == Spec => []WireInv
<1>1. WireInv /\ DbInv /\ DbInv' /\ [Next]_vars => WireInv'
  BY DbStep, WireStep
<1> QED BY <1>1, WireInit, DbAlways, PTL DEF Spec

\* However its events travel, no page is shown a notification twice.
THEOREM PagesAreToldOnce == Spec => []ToldOnce
<1>1. WireInv => ToldOnce
  BY DEF WireInv, Done, ShowsOnce, ToldOnce
<1> QED BY <1>1, WireAlways, PTL

\* ADR-0009: when everything is delivered, a page that is open has been told of what was
\* committed while it was, wherever it was made; without Redis, when its own process made it.
THEOREM OpenPagesAreAllTold == Spec => []OpenPagesAreTold
<1>1. ASSUME WireInv, DbInv
      PROVE  OpenPagesAreTold
  <2>1. SUFFICES ASSUME Delivered, NEW s \in Sockets, NEW i \in DOMAIN notes, Owed(s, i)
                 PROVE  FALSE
    BY DEF OpenPagesAreTold
  <2>2. s \in notes[i].watchers /\ socket[s] = "open" /\ ~Told(s, i)
        /\ (HeldBy[s] = notes[i].from \/ NoRedisFault)
    BY <2>1 DEF Owed, NoRedisFault
  <2>3. Coming(s, i)
    BY <1>1, <2>2 DEF WireInv, Promised
  <2>4. HeldBy[s] \in Processes
    BY ProcessesAssumption
  <2>5. ~Shows(loop[HeldBy[s]], i) /\ ~Shows(Carried(channel[HeldBy[s]]), i)
    <3>1. loop[HeldBy[s]] = <<>> /\ channel[HeldBy[s]] = <<>>
      BY <2>1, <2>4 DEF Delivered
    <3>2. DOMAIN <<>> = {}
      OBVIOUS
    <3>3. DOMAIN Carried(<<>>) = {}
      BY <3>2 DEF Carried
    <3> QED BY <3>1, <3>2, <3>3 DEF Shows
  <2> QED BY <2>2, <2>3, <2>5 DEF Coming
<1> QED BY <1>1, WireAlways, DbAlways, PTL

-----------------------------------------------------------------------------
(***************************************************************************)
(* What a badge is: patchUnreadCount, event by event.                      *)
(***************************************************************************)
LEMMA AfterIs ==
  ASSUME NEW n \in Nat, NEW e \in Event
  PROVE  /\ AfterEvent(n, e) \in Nat
         /\ e.event = "new" => AfterEvent(n, e) = n + 1
         /\ e.event = "read_all" => AfterEvent(n, e) = 0
         /\ e.event = "read" => AfterEvent(n, e) = IF n = 0 THEN 0 ELSE n - 1
BY DEF AfterEvent, Event

\* What a page shows that was sent the events of q.
Shown(q) == FoldLeft(AfterEvent, 0, q)

\* g counts along the events of q.
Runs(g, q) ==
  /\ g \in [0..Len(q) -> Nat] /\ g[0] = 0
  /\ \A k \in 1..Len(q) : g[k] = AfterEvent(g[k - 1], q[k])

\* h folds the events of q over the sets of positions in D, as FoldLeft does.
FoldsUp(h, q, D) ==
  h = [t \in D |-> IF t = {} THEN 0 ELSE AfterEvent(h[t \ {Max(t)}], q[Max(t)])]

\* Of the natural numbers in a set one is the least.
LEMMA Least ==
  ASSUME NEW B, B \subseteq Nat, B # {}
  PROVE  \E n \in B : \A m \in B : n <= m
<1>1. PICK n \in B : \A m \in B : ~(<<m, n>> \in OpToRel(<, Nat))
  BY WFMin, NatLessThanWellFounded
<1>2. \A m \in B : m < n => <<m, n>> \in OpToRel(<, Nat)
  BY DEF OpToRel
<1>3. \A m \in B : ~(m < n)
  BY <1>1, <1>2, Zenon
<1> QED BY <1>3

\* A set of positions has a greatest.
LEMMA MaxIs ==
  ASSUME NEW n \in Nat, NEW t, t \subseteq 1..n, t # {}
  PROVE  Max(t) \in t
<1> DEFINE B == {b \in Nat : \A x \in t : x <= b}
<1>1. B \subseteq Nat /\ n \in B
  OBVIOUS
<1>2. PICK b \in B : \A m \in B : b <= m
  <2> HIDE DEF B
  <2> QED BY <1>1, Least
<1>3. b \in t
  <2>1. SUFFICES ASSUME b \notin t
                 PROVE  FALSE
    OBVIOUS
  <2>2. b \in Nat /\ b # 0
    <3>1. PICK y \in t : y \in 1..n
      OBVIOUS
    <3> QED BY <3>1
  <2>3. b - 1 \in B
    BY <2>1, <2>2
  <2> QED BY <1>2, <2>2, <2>3
<1>4. \A y \in t : b >= y
  BY <1>2
<1> QED BY <1>3, <1>4 DEF Max

LEMMA FoldExists ==
  ASSUME NEW n \in Nat, NEW q
  PROVE  \E h : FoldsUp(h, q, SUBSET (1..n))
<1> DEFINE S == 1..n
           D(c) == {t \in SUBSET S : Cardinality(t) <= c}
           B == {c \in Nat : ~\E h : FoldsUp(h, q, D(c))}
<1>0. IsFiniteSet(S) /\ \A t \in SUBSET S : IsFiniteSet(t) /\ Cardinality(t) \in Nat
  <2>1. IsFiniteSet(S)
    BY FS_Interval
  <2> QED BY <2>1, FS_Subset, FS_CardinalityType
<1>1. ASSUME NEW c \in B, \A m \in B : c <= m
      PROVE  FALSE
  <2>1. CASE c = 0
    <3>1. \A t \in D(0) : t = {}
      BY <1>0, FS_EmptySet
    <3> DEFINE h == [t \in D(0) |-> 0]
    <3>2. FoldsUp(h, q, D(0))
      BY <3>1 DEF FoldsUp
    <3> QED BY <2>1, <3>2
  <2>2. CASE c # 0
    <3>0. c \in Nat
      OBVIOUS
    <3>1. c - 1 \in Nat /\ c - 1 \notin B
      <4> HIDE DEF B
      <4> QED BY <1>1, <2>2, <3>0
    <3>2. PICK h : FoldsUp(h, q, D(c - 1))
      BY <3>1
    <3> DEFINE v == [t \in D(c) |-> IF t \in D(c - 1) THEN h[t]
                                    ELSE AfterEvent(h[t \ {Max(t)}], q[Max(t)])]
    <3>3. \A t \in D(c) : t # {} => t \ {Max(t)} \in D(c - 1)
      <4>1. SUFFICES ASSUME NEW t \in D(c), t # {}
                     PROVE  t \ {Max(t)} \in D(c - 1)
        OBVIOUS
      <4>2. Cardinality(t \ {Max(t)}) = Cardinality(t) - 1
        BY <1>0, <4>1, MaxIs, FS_RemoveElement
      <4>3. t \ {Max(t)} \in SUBSET S /\ Cardinality(t) \in Nat /\ Cardinality(t) <= c
        BY <1>0
      <4>4. Cardinality(t \ {Max(t)}) <= c - 1
        BY <3>0, <4>2, <4>3
      <4> QED BY <4>3, <4>4
    <3>4. D(c - 1) \subseteq D(c) /\ {} \in D(c - 1)
      BY <1>0, <3>1, FS_EmptySet
    <3> HIDE DEF D
    <3>5. \A t \in D(c - 1) : h[t] = IF t = {} THEN 0 ELSE AfterEvent(h[t \ {Max(t)}], q[Max(t)])
      BY <3>2 DEF FoldsUp
    <3>6. \A t \in D(c) : v[t] = IF t = {} THEN 0 ELSE AfterEvent(v[t \ {Max(t)}], q[Max(t)])
      <4>1. \A t \in D(c) : t # {} => v[t \ {Max(t)}] = h[t \ {Max(t)}]
        BY <3>3, <3>4
      <4>2. \A t \in D(c) : v[t] = IF t \in D(c - 1) THEN h[t]
                                   ELSE AfterEvent(h[t \ {Max(t)}], q[Max(t)])
        OBVIOUS
      <4> HIDE DEF v
      <4>3. ASSUME NEW t \in D(c), t = {}
            PROVE  v[t] = 0
        BY <3>4, <3>5, <4>2, <4>3
      <4>4. ASSUME NEW t \in D(c), t # {}
            PROVE  v[t] = AfterEvent(v[t \ {Max(t)}], q[Max(t)])
        <5>1. v[t] = AfterEvent(h[t \ {Max(t)}], q[Max(t)])
          BY <3>5, <4>2, <4>4
        <5> QED BY <4>1, <4>4, <5>1
      <4> QED BY <4>3, <4>4
    <3>7. FoldsUp(v, q, D(c))
      <4>1. v = [t \in D(c) |-> v[t]]
        OBVIOUS
      <4> HIDE DEF v
      <4> QED BY <3>6, <4>1 DEF FoldsUp
    <3> HIDE DEF v
    <3> QED BY <3>7
  <2> QED BY <2>1, <2>2
<1>2. B = {}
  <2> HIDE DEF B
  <2>1. B \subseteq Nat
    BY DEF B
  <2> QED BY <1>1, <2>1, Least
<1>3. D(Cardinality(S)) = SUBSET S
  BY <1>0, FS_Subset
<1>4. Cardinality(S) \in Nat
  BY <1>0
<1>5. \E h : FoldsUp(h, q, D(Cardinality(S)))
  <2> HIDE DEF D
  <2> QED BY <1>2, <1>4
<1> QED BY <1>3, <1>5, Zenon

\* What a page shows is what counting along its events comes to.
LEMMA BadgeRuns ==
  ASSUME NEW q \in Seq(Event)
  PROVE  \E g : Runs(g, q) /\ Shown(q) = g[Len(q)]
<1> DEFINE n == Len(q)
           H == CHOOSE h : FoldsUp(h, q, SUBSET (1..n))
           g == [k \in 0..n |-> H[1..k]]
<1>1. n \in Nat /\ DOMAIN q = 1..n /\ \A k \in 1..n : q[k] \in Event
  BY LenProperties, ElementOfSeq
<1>2. Shown(q) = H[DOMAIN q]
  BY <1>1 DEF Shown, FoldLeft, MapThenFoldSet, FoldsUp
<1>3. FoldsUp(H, q, SUBSET (1..n))
  BY <1>1, FoldExists
<1> HIDE DEF H
<1>4. H[{}] = 0
  BY <1>3 DEF FoldsUp
<1>5. ASSUME NEW k \in 1..n
      PROVE  H[1..k] = AfterEvent(H[1..k - 1], q[k])
  <2>0. n \in Nat
    BY <1>1
  <2> HIDE DEF n
  <2>1. 1..k \in SUBSET (1..n) /\ 1..k # {}
    <3>1. k \in 1..k /\ \A x \in 1..k : x \in 1..n
      BY <2>0
    <3> QED BY <3>1
  <2>2. Max(1..k) = k
    BY <2>0 DEF Max
  <2>3. (1..k) \ {k} = 1..k - 1
    BY <2>0
  <2>4. H[1..k] = AfterEvent(H[(1..k) \ {Max(1..k)}], q[Max(1..k)])
    BY <1>3, <2>1 DEF FoldsUp
  <2> QED BY <2>2, <2>3, <2>4
<1>6. g[0] = 0
  <2>1. 1..0 = {}
    OBVIOUS
  <2> QED BY <1>1, <1>4, <2>1
<1>7. \A k \in 1..n : g[k] = AfterEvent(g[k - 1], q[k])
  <2>1. ASSUME NEW k \in 1..n
        PROVE  g[k] = H[1..k] /\ g[k - 1] = H[1..k - 1]
    BY <1>1
  <2> HIDE DEF g
  <2> QED BY <1>5, <2>1
<1>8. g[n] = Shown(q)
  BY <1>1, <1>2
<1>9. DOMAIN g = 0..n /\ g = [k \in 0..n |-> g[k]]
  OBVIOUS
<1> HIDE DEF g
<1>10. \A k \in 0..n : g[k] \in Nat
  <2> DEFINE B == {k \in 0..n : g[k] \notin Nat}
  <2>1. B \subseteq Nat
    BY <1>1
  <2>2. ASSUME NEW k \in B, \A m \in B : k <= m
        PROVE  FALSE
    <3>1. k \in 1..n /\ k - 1 \in 0..n /\ k - 1 \notin B
      BY <1>1, <1>6, <2>2
    <3>2. g[k] = AfterEvent(g[k - 1], q[k]) /\ q[k] \in Event /\ g[k - 1] \in Nat
      BY <1>1, <1>7, <3>1
    <3> QED BY <3>2, AfterIs
  <2> HIDE DEF B
  <2>3. B = {}
    BY <2>1, <2>2, Least
  <2> QED BY <2>3 DEF B
<1>11. Runs(g, q)
  BY <1>6, <1>7, <1>9, <1>10 DEF Runs
<1> QED BY <1>8, <1>11

\* Events that are added do not change what was counted before.
LEMMA RunsAgree ==
  ASSUME NEW q, NEW r, Len(q) \in Nat, Len(r) \in Nat, Len(q) <= Len(r), \A k \in 1..Len(q) : r[k] = q[k],
         NEW f, NEW g, Runs(f, q), Runs(g, r)
  PROVE  \A k \in 0..Len(q) : f[k] = g[k]
<1> DEFINE B == {k \in 0..Len(q) : f[k] # g[k]}
<1>1. B \subseteq Nat
  OBVIOUS
<1>2. ASSUME NEW k \in B, \A m \in B : k <= m
      PROVE  FALSE
  <2>1. k \in 1..Len(q) /\ k - 1 \in 0..Len(q) /\ k - 1 \notin B /\ k \in 1..Len(r)
    BY <1>2 DEF Runs
  <2>2. f[k - 1] = g[k - 1] /\ f[k] # g[k]
    BY <2>1
  <2>3. f[k] = AfterEvent(f[k - 1], q[k]) /\ g[k] = AfterEvent(g[k - 1], r[k]) /\ r[k] = q[k]
    BY <2>1 DEF Runs
  <2> QED BY <2>2, <2>3
<1> HIDE DEF B
<1>3. B = {}
  BY <1>1, <1>2, Least
<1> QED BY <1>3 DEF B

\* The badge of a page that was sent nothing, and after one more event.
LEMMA BadgeAfter ==
  ASSUME NEW q \in Seq(Event)
  PROVE  /\ Shown(q) \in Nat
         /\ q = <<>> => Shown(q) = 0
         /\ \A e \in Event :
              Shown(Append(q, e)) = AfterEvent(Shown(q), e)
<1>1. PICK g : Runs(g, q) /\ Shown(q) = g[Len(q)]
  BY BadgeRuns
<1>2. Len(q) \in Nat /\ (q = <<>> => Len(q) = 0)
  BY LenProperties, EmptySeq
<1>3. ASSUME NEW e \in Event
      PROVE  Shown(Append(q, e)) = AfterEvent(g[Len(q)], e)
  <2> DEFINE r == Append(q, e)
  <2>1. /\ r \in Seq(Event) /\ Len(r) = Len(q) + 1
        /\ \A k \in 1..Len(q) : r[k] = q[k]
        /\ r[Len(q) + 1] = e
    BY AppendProperties
  <2> HIDE DEF r
  <2>2. PICK f : Runs(f, r) /\ Shown(r) = f[Len(r)]
    BY <2>1, BadgeRuns
  <2>3. f[Len(q)] = g[Len(q)]
    BY <1>1, <1>2, <2>1, <2>2, RunsAgree
  <2>4. f[Len(q) + 1] = AfterEvent(f[Len(q)], r[Len(q) + 1])
    <3>1. Len(q) + 1 \in 1..Len(r) /\ (Len(q) + 1) - 1 = Len(q)
      BY <1>2, <2>1
    <3>2. f[Len(q) + 1] = AfterEvent(f[(Len(q) + 1) - 1], r[Len(q) + 1])
      BY <2>2, <3>1 DEF Runs
    <3> QED BY <3>1, <3>2
  <2> QED BY <2>1, <2>2, <2>3, <2>4 DEF r
<1>4. g[Len(q)] \in Nat /\ g[0] = 0
  BY <1>1, <1>2 DEF Runs
<1> QED BY <1>1, <1>2, <1>3, <1>4

-----------------------------------------------------------------------------
(***************************************************************************)
(* What a badge will be when the loop has delivered what it has.           *)
(***************************************************************************)
\* From b, g counts along those events of q that are for u.
Counts(g, b, q, u) ==
  /\ g \in [0..Len(q) -> Nat] /\ g[0] = b
  /\ \A k \in 1..Len(q) : g[k] = IF q[k].user = u THEN AfterEvent(g[k - 1], q[k]) ELSE g[k - 1]

\* The first event is delivered.
LEMMA CountsTail ==
  ASSUME NEW q \in Seq(Event), q # <<>>, NEW b, NEW u, NEW g, Counts(g, b, q, u)
  PROVE  \E f : /\ Counts(f, IF Head(q).user = u THEN AfterEvent(b, Head(q)) ELSE b, Tail(q), u)
                /\ f[Len(Tail(q))] = g[Len(q)]
<1> DEFINE f == [k \in 0..Len(Tail(q)) |-> g[k + 1]]
<1>1. /\ Len(q) \in Nat /\ Len(q) > 0 /\ Len(Tail(q)) = Len(q) - 1
      /\ \A k \in 1..Len(Tail(q)) : Tail(q)[k] = q[k + 1]
      /\ Head(q) = q[1]
  BY HeadTailProperties, LenProperties, EmptySeq
<1>2. /\ g \in [0..Len(q) -> Nat] /\ g[0] = b
      /\ \A k \in 1..Len(q) : g[k] = IF q[k].user = u THEN AfterEvent(g[k - 1], q[k]) ELSE g[k - 1]
  BY DEF Counts
<1>3. f \in [0..Len(Tail(q)) -> Nat]
  BY <1>1, <1>2
<1>4. f[0] = IF Head(q).user = u THEN AfterEvent(b, Head(q)) ELSE b
  <2>1. 1 \in 1..Len(q) /\ 1 - 1 = 0 /\ f[0] = g[1]
    BY <1>1
  <2> QED BY <1>1, <1>2, <2>1
<1>5. ASSUME NEW k \in 1..Len(Tail(q))
      PROVE  f[k] = IF Tail(q)[k].user = u THEN AfterEvent(f[k - 1], Tail(q)[k]) ELSE f[k - 1]
  <2>1. k + 1 \in 1..Len(q) /\ (k + 1) - 1 = k /\ f[k] = g[k + 1] /\ f[k - 1] = g[k]
    BY <1>1
  <2>2. g[k + 1] = IF q[k + 1].user = u THEN AfterEvent(g[(k + 1) - 1], q[k + 1]) ELSE g[(k + 1) - 1]
    BY <1>2, <2>1
  <2> HIDE DEF f
  <2> QED BY <1>1, <2>1, <2>2
<1>6. f[Len(Tail(q))] = g[Len(q)]
  BY <1>1
<1> HIDE DEF f
<1> QED BY <1>3, <1>4, <1>5, <1>6 DEF Counts

\* One more event is scheduled.
LEMMA CountsOne ==
  ASSUME NEW q \in Seq(Event), NEW e \in Event, NEW b, NEW u, NEW g, Counts(g, b, q, u)
  PROVE  \E f : /\ Counts(f, b, q \o <<e>>, u)
                /\ f[Len(q \o <<e>>)] = IF e.user = u THEN AfterEvent(g[Len(q)], e) ELSE g[Len(q)]
<1> DEFINE r == q \o <<e>>
           n == Len(q)
           z == IF e.user = u THEN AfterEvent(g[n], e) ELSE g[n]
           f == [k \in 0..n + 1 |-> IF k <= n THEN g[k] ELSE z]
<1>1. /\ n \in Nat /\ Len(r) = n + 1 /\ r[n + 1] = e
      /\ \A k \in 1..n : r[k] = q[k]
  <2>1. <<e>> \in Seq(Event) /\ Len(<<e>>) = 1 /\ <<e>>[1] = e
    OBVIOUS
  <2> QED BY <2>1, LenProperties, ConcatProperties
<1>2. /\ g \in [0..n -> Nat] /\ g[0] = b
      /\ \A k \in 1..n : g[k] = IF q[k].user = u THEN AfterEvent(g[k - 1], q[k]) ELSE g[k - 1]
  BY DEF Counts
<1>3. g[n] \in Nat /\ z \in Nat
  <2>1. n \in 0..n
    BY <1>1
  <2>2. g[n] \in Nat
    BY <1>2, <2>1
  <2>3. AfterEvent(g[n], e) \in Nat
    BY <2>2, AfterIs
  <2> QED BY <2>2, <2>3
<1> HIDE DEF z, n, r
<1>4. f \in [0..n + 1 -> Nat] /\ f[0] = b /\ f[n + 1] = z
  BY <1>1, <1>2, <1>3
<1>5. ASSUME NEW k \in 1..n + 1
      PROVE  f[k] = IF r[k].user = u THEN AfterEvent(f[k - 1], r[k]) ELSE f[k - 1]
  <2>1. CASE k \in 1..n
    <3>1. f[k] = g[k] /\ f[k - 1] = g[k - 1]
      BY <1>1, <2>1
    <3> HIDE DEF f
    <3> QED BY <1>1, <1>2, <2>1, <3>1
  <2>2. CASE k = n + 1
    <3>1. f[k] = z /\ f[k - 1] = g[n]
      BY <1>1, <2>2
    <3> HIDE DEF f
    <3> QED BY <1>1, <2>2, <3>1 DEF z
  <2> QED BY <1>1, <2>1, <2>2
<1> HIDE DEF f
<1> QED BY <1>1, <1>4, <1>5 DEF Counts, z, n, r

\* Those of the notifications after the first n that are u's.
Further(ns, n, m, u) == {i \in n + 1..m : ns[i].user = u}

\* The events of E announce them.
Announces(E, ns, n) == \A k \in 1..Len(E) : E[k].event = "new" /\ E[k].user = ns[n + k].user

\* One more number in an interval.
LEMMA OneMore ==
  ASSUME NEW m \in Nat, NEW j \in Nat, j > 0
  PROVE  m + 1..m + j = (m + 1..m + (j - 1)) \cup {m + j}
<1>1. ASSUME NEW i
      PROVE  i \in m + 1..m + j <=> i \in m + 1..m + (j - 1) \/ i = m + j
  OBVIOUS
<1> QED BY <1>1

\* The events of new notifications are scheduled.
LEMMA CountsNew ==
  ASSUME NEW q \in Seq(Event), NEW E \in Seq(Event), NEW b, NEW u, NEW g, Counts(g, b, q, u),
         NEW ns, NEW m \in Nat, Announces(E, ns, m)
  PROVE  \E f : /\ Counts(f, b, q \o E, u)
                /\ f[Len(q \o E)] = g[Len(q)] + Cardinality(Further(ns, m, m + Len(E), u))
<1> DEFINE r == q \o E
           n == Len(q)
           l == Len(E)
           C(j) == Cardinality(Further(ns, m, m + j, u))
           f == [k \in 0..n + l |-> IF k <= n THEN g[k] ELSE g[n] + C(k - n)]
<1>1. /\ n \in Nat /\ l \in Nat /\ Len(r) = n + l
      /\ \A k \in 1..n : r[k] = q[k]
      /\ \A j \in 1..l : r[n + j] = E[j]
  <2>1. n \in Nat /\ l \in Nat
    BY LenProperties
  <2>2. Len(r) = n + l /\ \A k \in 1..n + l : r[k] = IF k <= n THEN q[k] ELSE E[k - n]
    BY ConcatProperties
  <2> HIDE DEF n, l, r
  <2>3. \A j \in 1..l : n + j \in 1..n + l /\ ~(n + j <= n) /\ (n + j) - n = j
    BY <2>1
  <2>4. \A k \in 1..n : k \in 1..n + l /\ k <= n
    BY <2>1
  <2> QED BY <2>1, <2>2, <2>3, <2>4
<1>2. /\ g \in [0..n -> Nat] /\ g[0] = b
      /\ \A k \in 1..n : g[k] = IF q[k].user = u THEN AfterEvent(g[k - 1], q[k]) ELSE g[k - 1]
  BY DEF Counts
<1>3. C(0) = 0
  <2>1. Further(ns, m, m + 0, u) = {}
    BY DEF Further
  <2> QED BY <2>1, FS_EmptySet
<1>4. ASSUME NEW j \in 1..l
      PROVE  /\ C(j) \in Nat
             /\ C(j) = IF E[j].user = u THEN C(j - 1) + 1 ELSE C(j - 1)
  <2> DEFINE F == Further(ns, m, m + (j - 1), u)
             G == Further(ns, m, m + j, u)
  <2>1. j \in Nat /\ j > 0 /\ m + j \notin F
    BY <1>1 DEF Further
  <2>2. IsFiniteSet(F) /\ IsFiniteSet(G) /\ Cardinality(F) \in Nat /\ Cardinality(G) \in Nat
    <3>1. IsFiniteSet(m + 1..m + (j - 1)) /\ IsFiniteSet(m + 1..m + j)
      BY <2>1, FS_Interval
    <3>2. F \subseteq m + 1..m + (j - 1) /\ G \subseteq m + 1..m + j
      BY DEF Further
    <3> HIDE DEF F, G
    <3> QED BY <3>1, <3>2, FS_Subset, FS_CardinalityType
  <2>3. E[j].user = ns[m + j].user
    BY <1>1 DEF Announces
  <2>4. G = IF E[j].user = u THEN F \cup {m + j} ELSE F
    <3>1. m + 1..m + j = (m + 1..m + (j - 1)) \cup {m + j}
      BY <2>1, OneMore
    <3> DEFINE A == m + 1..m + j
               B == m + 1..m + (j - 1)
    <3>2. G = {i \in A : ns[i].user = u} /\ F = {i \in B : ns[i].user = u}
      BY DEF Further
    <3> HIDE DEF F, G, A, B
    <3>3. \A i : i \in G <=> i \in F \/ (i = m + j /\ ns[m + j].user = u)
      BY <3>1, <3>2 DEF A, B
    <3> QED BY <2>3, <3>3
  <2>5. Cardinality(F \cup {m + j}) = Cardinality(F) + 1
    BY <2>1, <2>2, FS_AddElement
  <2>6. Cardinality(G) = IF E[j].user = u THEN Cardinality(F) + 1 ELSE Cardinality(F)
    <3> HIDE DEF F, G
    <3> QED BY <2>4, <2>5
  <2> QED BY <2>2, <2>6
<1> HIDE DEF C, n, l, r
<1>5. g[n] \in Nat
  BY <1>1, <1>2
<1>6. \A j \in 0..l : C(j) \in Nat
  BY <1>1, <1>3, <1>4
<1>7. /\ f \in [0..n + l -> Nat] /\ f[0] = b /\ f[n + l] = g[n] + C(l)
  <2>1. \A k \in 0..n + l : k <= n \/ k - n \in 0..l
    BY <1>1
  <2>2. \A k \in 0..n + l : f[k] \in Nat
    <3>1. SUFFICES ASSUME NEW k \in 0..n + l
                   PROVE  f[k] \in Nat
      OBVIOUS
    <3>2. CASE k <= n
      BY <1>1, <1>2, <3>2
    <3>3. CASE ~(k <= n)
      <4>1. C(k - n) \in Nat
        BY <1>6, <2>1, <3>3
      <4> QED BY <1>5, <3>3, <4>1
    <3> QED BY <3>2, <3>3
  <2>3. f[0] = b
    BY <1>1, <1>2
  <2>4. f[n + l] = g[n] + C(l)
    <3>1. CASE l = 0
      BY <1>1, <1>3, <1>5, <3>1
    <3>2. CASE l # 0
      <4>1. n + l \in 0..n + l /\ ~(n + l <= n) /\ (n + l) - n = l
        BY <1>1, <3>2
      <4> QED BY <4>1
    <3> QED BY <3>1, <3>2
  <2> QED BY <2>2, <2>3, <2>4
<1>8. ASSUME NEW k \in 1..n + l
      PROVE  f[k] = IF r[k].user = u THEN AfterEvent(f[k - 1], r[k]) ELSE f[k - 1]
  <2>1. CASE k \in 1..n
    <3>1. f[k] = g[k] /\ f[k - 1] = g[k - 1]
      BY <1>1, <2>1
    <3> HIDE DEF f
    <3> QED BY <1>1, <1>2, <2>1, <3>1
  <2>2. CASE k \notin 1..n
    <3> DEFINE j == k - n
    <3>1. j \in 1..l /\ k = n + j /\ j - 1 \in 0..l
      BY <1>1, <2>2
    <3>2. f[k] = g[n] + C(j)
      BY <1>1, <3>1
    <3>3. f[k - 1] = g[n] + C(j - 1)
      <4>1. CASE j = 1
        <5>1. k - 1 = n /\ j - 1 = 0
          BY <1>1, <3>1, <4>1
        <5>2. f[n] = g[n]
          BY <1>1
        <5> HIDE DEF f, j
        <5> QED BY <1>3, <1>5, <5>1, <5>2
      <4>2. CASE j # 1
        <5>1. k - 1 \in 0..n + l /\ ~(k - 1 <= n) /\ (k - 1) - n = j - 1
          BY <1>1, <3>1, <4>2
        <5> HIDE DEF j
        <5> QED BY <5>1
      <4> QED BY <4>1, <4>2
    <3> HIDE DEF f, j
    <3>4. r[k] = E[j] /\ E[j] \in Event /\ E[j].event = "new"
      BY <1>1, <3>1, ElementOfSeq DEF l, Announces
    <3> DEFINE c == C(j)
               d == C(j - 1)
    <3>5. c = IF E[j].user = u THEN d + 1 ELSE d
      BY <1>4, <3>1
    <3>6. d \in Nat /\ f[k - 1] = g[n] + d /\ f[k] = g[n] + c
      BY <1>6, <3>1, <3>2, <3>3
    <3> HIDE DEF c, d
    <3> DEFINE x == f[k - 1]
               y == f[k]
               e == r[k]
    <3>7. e \in Event /\ e.event = "new" /\ x \in Nat /\ x = g[n] + d /\ y = g[n] + c
          /\ c = IF e.user = u THEN d + 1 ELSE d
      BY <1>5, <3>4, <3>5, <3>6
    <3> HIDE DEF x, y, e
    <3>8. AfterEvent(x, e) = x + 1
      BY <3>7, AfterIs
    <3>9. y = IF e.user = u THEN AfterEvent(x, e) ELSE x
      BY <1>5, <3>6, <3>7, <3>8
    <3> QED BY <3>9 DEF x, y, e
  <2> QED BY <2>1, <2>2
<1> HIDE DEF f
<1>9. Counts(f, b, r, u)
  BY <1>1, <1>7, <1>8 DEF Counts
<1>10. f[Len(r)] = g[n] + C(l)
  BY <1>1, <1>7
<1> QED BY <1>9, <1>10 DEF C, n, l, r

-----------------------------------------------------------------------------
(***************************************************************************)
(* The invariant of the badges.                                            *)
(***************************************************************************)
\* The deployments that BadgeRight speaks of.
Watched == deployment.faults = {} /\ Cardinality(Api) = 1 /\ ~Does("scan")

\* The notifications that a badge of u is to count: they are not read, or a push that says
\* so is owed.
Awaited(u) ==
  {i \in DOMAIN notes :
     /\ notes[i].user = u
     /\ notes[i].read => \E o \in reading : o.event = "read" /\ o.id = i}

\* The push that all of them are read is owed, or has been scheduled.
Owing(u) == \E o \in reading : o.event = "read_all" /\ o.user = u
Clears(q, u) == \E k \in DOMAIN q : q[k].event = "read_all" /\ q[k].user = u
Cleared(s, p) ==
  \/ \E k \in DOMAIN told[s] : told[s][k].event = "read_all"
  \/ Clears(loop[p], OwnerOf[s])

\* Everything happens in process p, and nothing fails.
Single(p) ==
  /\ \A r \in Requests : Open(r) => tx[r].process = p /\ tx[r].step.kind # "scan"
  /\ \A o \in reading :
       /\ o.process = p
       /\ o.event = "read" =>
            o.id \in DOMAIN notes /\ notes[o.id].read = TRUE /\ notes[o.id].user = o.user
  /\ \A i \in DOMAIN notes : notes[i].state # "gone"
  /\ \A k \in DOMAIN channel[p] : channel[p][k].origin = p
  /\ \A s \in deployment.open : socket[s] = "open" /\ HeldBy[s] = p

\* What s will show when the loop has delivered what it has.
Tallied(s, p) ==
  \E g : /\ Counts(g, Shown(told[s]), loop[p], OwnerOf[s])
         /\ ~Owing(OwnerOf[s]) =>
              /\ g[Len(loop[p])] <= Cardinality(Awaited(OwnerOf[s]))
              /\ ~Cleared(s, p) => g[Len(loop[p])] = Cardinality(Awaited(OwnerOf[s]))

LEMMA AwaitedFinite ==
  ASSUME DbTypes, NEW u
  PROVE  IsFiniteSet(Awaited(u)) /\ Cardinality(Awaited(u)) \in Nat
<1>1. Len(notes) \in Nat /\ DOMAIN notes = 1..Len(notes)
  BY LenProperties DEF DbTypes
<1>2. IsFiniteSet(DOMAIN notes)
  BY <1>1, FS_Interval
<1>3. Awaited(u) \subseteq DOMAIN notes
  BY DEF Awaited
<1> QED BY <1>2, <1>3, FS_Subset, FS_CardinalityType

\* The pages that watch.
LEMMA PagesAre ==
  ASSUME DbTypes
  PROVE  /\ deployment.open \subseteq Sockets /\ Api \subseteq Processes /\ Worker \notin Api
         /\ \A s \in deployment.open : HeldBy[s] \in Api
<1>1. deployment \in Deployments
  BY DEF DbTypes
<1>2. deployment.open \subseteq Sockets /\ deployment.processes \subseteq Processes
      /\ \A s \in deployment.open : HeldBy[s] \in deployment.processes
  BY <1>1, FeedDeploymentsAssumption, PagesAssumption
<1> QED BY <1>2, ProcessesAssumption DEF Api

\* One process runs.
LEMMA OneApi ==
  ASSUME DbTypes, Cardinality(Api) = 1
  PROVE  \E p \in Api : Api = {p}
<1>1. IsFiniteSet(Api)
  BY PagesAre, ProcessesAssumption, FS_Subset
<1>2. \E p : Api = {p}
  BY <1>1, FS_Singleton
<1> QED BY <1>2

\* Neither the page nor the loop is touched.
LEMMA TallyStays ==
  ASSUME NEW p, NEW s, Tallied(s, p), told'[s] = told[s], loop'[p] = loop[p],
         ~Owing(OwnerOf[s])' => Awaited(OwnerOf[s])' = Awaited(OwnerOf[s]) /\ ~Owing(OwnerOf[s])
  PROVE  Tallied(s, p)'
<1>1. Cleared(s, p)' <=> Cleared(s, p)
  BY DEF Cleared
<1> QED BY <1>1 DEF Tallied

\* Who owns a notification and whether it is read stays as it is.
NotesKept ==
  /\ DOMAIN notes' = DOMAIN notes
  /\ \A i \in DOMAIN notes : /\ notes'[i].user = notes[i].user /\ notes'[i].read = notes[i].read
                             /\ notes'[i].state = "gone" => notes[i].state = "gone"

\* The process p runs alone and all of its pages are tallied.
Watching(p) == Api = {p} /\ Single(p) /\ \A s \in deployment.open : Tallied(s, p)

LEMMA RestStays ==
  ASSUME NEW p, Watching(p), NotesKept, UNCHANGED <<deployment, reading>>,
         \A r \in Requests : Open(r)' => tx'[r].process = p /\ tx'[r].step.kind # "scan",
         loop'[p] = loop[p],
         channel'[p] = channel[p] \/ \A k \in DOMAIN channel'[p] : channel'[p][k].origin = p,
         \A s \in deployment.open : told'[s] = told[s] /\ socket'[s] = socket[s]
  PROVE  Watching(p)'
<1>1. Single(p)'
  BY DEF Watching, Single, NotesKept
<1>2. ASSUME NEW u
      PROVE  Awaited(u)' = Awaited(u) /\ (Owing(u)' <=> Owing(u))
  BY DEF Awaited, Owing, NotesKept
<1>3. \A s \in deployment.open : Tallied(s, p)'
  BY <1>2, TallyStays DEF Watching
<1>4. (Api = {p})'
  BY DEF Watching, Api
<1> QED BY <1>1, <1>3, <1>4 DEF Watching

\* A request of a user is not a scan.
LEMMA StepsKind ==
  ASSUME NEW u, NEW s \in Steps(u)
  PROVE  s.kind # "scan"
<1>1. \A kind, x, calls : Step(u, kind, x, calls).kind = kind
  BY DEF Step
<1>2. \E x, calls : \E kind \in {"assign", "status", "comment"} : s = Step(u, kind, x, calls)
  BY DEF Steps
<1> QED BY <1>1, <1>2

LEMMA LoadWatched ==
  ASSUME NEW p, DbTypes, Watched, Watching(p), NEW r \in Requests, Load(r)
  PROVE  Watching(p)'
<1>1. PICK q \in deployment.processes :
        \E s \in (IF q = Worker THEN (IF Does("scan") /\ ~breached THEN {Scan} ELSE {})
                  ELSE UNION {Steps(u) : u \in deployment.users}) :
          tx' = [tx EXCEPT ![r] = [step |-> s, process |-> q, at |-> now,
                                   phase |-> "loaded", notes |-> {}]]
  BY DEF Load
<1>2. q # Worker
  BY <1>1 DEF Watched
<1>3. q = p
  BY <1>2 DEF Api, Watching
<1>4. PICK s \in UNION {Steps(u) : u \in deployment.users} :
        tx' = [tx EXCEPT ![r] = [step |-> s, process |-> p, at |-> now,
                                 phase |-> "loaded", notes |-> {}]]
  BY <1>1, <1>2, <1>3
<1>5. s.kind # "scan"
  BY StepsKind
<1>6. tx \in [Requests -> OrNone(Transaction)]
  BY DEF DbTypes
<1>7. \A o \in Requests : Open(o)' => tx'[o].process = p /\ tx'[o].step.kind # "scan"
  <2>1. SUFFICES ASSUME NEW o \in Requests, Open(o)'
                 PROVE  tx'[o].process = p /\ tx'[o].step.kind # "scan"
    OBVIOUS
  <2>2. CASE o = r
    BY <1>4, <1>5, <1>6, <2>2
  <2>3. CASE o # r
    BY <1>4, <1>6, <2>1, <2>3 DEF Watching, Single, Open
  <2> QED BY <2>2, <2>3
<1>8. /\ UNCHANGED <<deployment, reading, notes, loop, channel, told, socket>>
      /\ NotesKept
  BY DEF Load, dbVars, pushVars, NotesKept
<1> QED BY <1>7, <1>8, RestStays

\* Without a scan, whoever updates the ticket has waited for it before it inserts: a conflict
\* leaves nothing behind.
LEMMA ConflictWatched ==
  ASSUME NEW p, DbInv, Watching(p), NEW r \in Requests, Conflict(r)
  PROVE  Watching(p)'
<1>1. Open(r) /\ tx[r].step.kind # "scan" /\ tx[r].step.outcome.dirty
  BY DEF Conflict, Watching, Single
<1>2. tx[r].phase = "loaded"
  BY <1>1 DEF Conflict, FlushedFirst
<1>3. tx[r].notes = {}
  BY <1>1, <1>2 DEF DbInv, Doing, Holds
<1>4. NotesKept
  BY <1>3 DEF Conflict, RolledBack, NotesKept
<1>5. \A o \in Requests : Open(o)' => tx'[o].process = p /\ tx'[o].step.kind # "scan"
  <2>1. tx' = [tx EXCEPT ![r] = None] /\ tx \in [Requests -> OrNone(Transaction)]
    BY DEF Conflict, RolledBack, DbInv, DbTypes
  <2> QED BY <2>1 DEF Watching, Single, Open
<1>6. UNCHANGED <<deployment, reading, loop, channel, told, socket>>
  BY DEF Conflict, pushVars
<1> QED BY <1>4, <1>5, <1>6, RestStays

LEMMA CommitWatched ==
  ASSUME NEW p, DbInv, Watching(p), NEW r \in Requests, Commit(r)
  PROVE  Watching(p)'
<1>1. \A o \in Requests : Open(o)' => tx'[o].process = p /\ tx'[o].step.kind # "scan"
  <2>1. tx' = [tx EXCEPT ![r] = None] /\ tx \in [Requests -> OrNone(Transaction)]
    BY DEF Commit, DbInv, DbTypes
  <2> QED BY <2>1 DEF Watching, Single, Open
<1>2. NotesKept
  <2>1. notes' = [i \in DOMAIN notes |->
                    IF i \in tx[r].notes THEN [notes[i] EXCEPT !.state = "committed"] ELSE notes[i]]
    BY DEF Commit
  <2>2. \A i \in DOMAIN notes : notes[i] \in Note
    BY ElementOfSeq, LenProperties DEF DbInv, DbTypes
  <2>3. \A n \in Note : LET m == [n EXCEPT !.state = "committed"]
                        IN  m.user = n.user /\ m.read = n.read /\ m.state = "committed"
    BY DEF Note
  <2>4. ASSUME NEW i \in DOMAIN notes
        PROVE  /\ notes'[i].user = notes[i].user /\ notes'[i].read = notes[i].read
               /\ notes'[i].state = "gone" => notes[i].state = "gone"
    <3>1. notes'[i] = notes[i] \/ notes'[i] = [notes[i] EXCEPT !.state = "committed"]
      BY <2>1
    <3> QED BY <2>2, <2>3, <3>1
  <2> QED BY <2>1, <2>4 DEF NotesKept
<1>3. UNCHANGED <<deployment, reading, loop, channel, told, socket>>
  BY DEF Commit, pushVars
<1> QED BY <1>1, <1>2, <1>3, RestStays

\* Steps that have to do with neither the notifications nor the loop.
LEMMA OtherWatched ==
  ASSUME NEW p, DbTypes, Watching(p), UNCHANGED <<deployment, notes, tx, reading, told>>,
         loop'[p] = loop[p],
         channel'[p] = channel[p] \/ \A k \in DOMAIN channel'[p] : channel'[p][k].origin = p,
         \A s \in deployment.open : socket'[s] = socket[s]
  PROVE  Watching(p)'
<1>1. NotesKept /\ \A r \in Requests : Open(r)' => tx'[r].process = p /\ tx'[r].step.kind # "scan"
  BY DEF NotesKept, Watching, Single, Open
<1> QED BY <1>1, RestStays

\* What process q writes to its own pages does not reach those of p.
LEMMA ElsewhereWatched ==
  ASSUME NEW p, DbTypes, Watching(p), NEW q, q # p, NEW e, DeliverLocal(q, e),
         UNCHANGED <<deployment, notes, tx, reading>>, loop'[p] = loop[p], channel'[p] = channel[p]
  PROVE  Watching(p)'
<1>1. deployment.open \subseteq Sockets /\ \A s \in deployment.open : HeldBy[s] = p
  BY PagesAre DEF Watching, Single
<1>2. \A s \in deployment.open : s \notin Registered(q, e.user)
  BY <1>1 DEF Registered
<1>3. \A s \in deployment.open : told'[s] = told[s] /\ socket'[s] = socket[s]
  BY <1>1, <1>2 DEF DeliverLocal
<1>4. NotesKept /\ \A r \in Requests : Open(r)' => tx'[r].process = p /\ tx'[r].step.kind # "scan"
  BY DEF NotesKept, Watching, Single, Open
<1> QED BY <1>3, <1>4, RestStays

LEMMA ListenWatched ==
  ASSUME NEW p, DbTypes, WireInv, Watching(p), NEW q \in Processes, Listen(q)
  PROVE  Watching(p)'
<1>1. /\ channel[q] # <<>> /\ channel' = [channel EXCEPT ![q] = Tail(@)]
      /\ UNCHANGED <<deployment, notes, tx, reading, loop>>
  BY DEF Listen, dbVars
<1>2. channel \in [Processes -> Seq(Envelope)] /\ p \in Processes
  BY PagesAre DEF WireInv, WireTypes, Watching
<1>3. CASE q # p
  <2>1. channel'[p] = channel[p]
    BY <1>1, <1>2, <1>3
  <2>2. CASE IsOwn(q, Head(channel[q]))
    <3>1. UNCHANGED <<socket, told>>
      BY <2>2 DEF Listen
    <3> QED BY <1>1, <2>1, <3>1, OtherWatched
  <2>3. CASE ~IsOwn(q, Head(channel[q]))
    <3>1. DeliverLocal(q, Head(channel[q]).event)
      BY <2>3 DEF Listen
    <3> QED BY <1>1, <1>3, <2>1, <3>1, ElsewhereWatched
  <2> QED BY <2>2, <2>3
<1>4. CASE q = p
  <2>1. /\ Head(channel[p]) = channel[p][1] /\ 1 \in DOMAIN channel[p]
        /\ DOMAIN Tail(channel[p]) = 1..Len(channel[p]) - 1
        /\ DOMAIN channel[p] = 1..Len(channel[p]) /\ Len(channel[p]) \in Nat
        /\ \A k \in 1..Len(channel[p]) - 1 : Tail(channel[p])[k] = channel[p][k + 1]
    BY <1>1, <1>2, <1>4, HeadTailProperties, LenProperties, EmptySeq
  <2>2. IsOwn(p, Head(channel[p]))
    BY <2>1 DEF IsOwn, Watching, Single
  <2>3. UNCHANGED <<socket, told>>
    BY <1>4, <2>2 DEF Listen
  <2>4. \A k \in DOMAIN channel'[p] : channel'[p][k].origin = p
    <3>1. channel'[p] = Tail(channel[p])
      BY <1>1, <1>2, <1>4
    <3>2. \A k \in 1..Len(channel[p]) - 1 : k + 1 \in DOMAIN channel[p]
      BY <2>1
    <3> QED BY <2>1, <3>1, <3>2 DEF Watching, Single
  <2> QED BY <1>1, <2>3, <2>4, OtherWatched
<1> QED BY <1>3, <1>4

\* mark_read: what was unread is now read, and the push is owed.
LEMMA MarkReadWatched ==
  ASSUME NEW p, DbTypes, Watching(p), NEW q \in Api, NEW u \in Users, NEW i \in DOMAIN notes,
         MarkRead(q, u, i)
  PROVE  Watching(p)'
<1> DEFINE o == [process |-> p, user |-> u, event |-> "read", id |-> i]
<1>1. /\ q = p /\ i \in DOMAIN notes /\ notes[i].user = u
      /\ notes' = [notes EXCEPT ![i].read = TRUE]
      /\ reading' = reading \cup {o}
      /\ UNCHANGED <<deployment, tx, socket, told, loop, channel>>
  BY DEF MarkRead, Owe, Unread, pushVars, Watching
<1>2. \A k \in DOMAIN notes : notes[k] \in Note
  BY ElementOfSeq, LenProperties DEF DbTypes
<1>3. \A n \in Note : LET m == [n EXCEPT !.read = TRUE]
                      IN  m.user = n.user /\ m.read = TRUE /\ m.state = n.state
  BY DEF Note
<1>4. /\ DOMAIN notes' = DOMAIN notes
      /\ \A k \in DOMAIN notes : /\ notes'[k].user = notes[k].user /\ notes'[k].state = notes[k].state
                                 /\ k # i => notes'[k].read = notes[k].read
                                 /\ k = i => notes'[k].read = TRUE
                                 /\ notes[k].read = TRUE => notes'[k].read = TRUE
  <2>1. ASSUME NEW k \in DOMAIN notes
        PROVE  notes'[k] = IF k = i THEN [notes[k] EXCEPT !.read = TRUE] ELSE notes[k]
    BY <1>1
  <2>2. DOMAIN notes' = DOMAIN notes
    BY <1>1
  <2> QED BY <1>2, <1>3, <2>1, <2>2
<1>5. o.process = p /\ o.user = u /\ o.event = "read" /\ o.id = i
  OBVIOUS
<1> HIDE DEF o
<1>6. Single(p)'
  <2>1. ASSUME NEW r \in reading'
        PROVE  /\ r.process = p
               /\ r.event = "read" =>
                    r.id \in DOMAIN notes' /\ notes'[r.id].read = TRUE /\ notes'[r.id].user = r.user
    <3>1. CASE r = o
      BY <1>1, <1>4, <1>5, <3>1
    <3>2. CASE r \in reading
      BY <1>4, <3>2 DEF Watching, Single
    <3> QED BY <1>1, <3>1, <3>2
  <2>2. \A k \in DOMAIN notes' : notes'[k].state # "gone"
    BY <1>4 DEF Watching, Single
  <2>3. \A r \in Requests : Open(r)' => tx'[r].process = p /\ tx'[r].step.kind # "scan"
    BY <1>1 DEF Watching, Single, Open
  <2> QED BY <1>1, <2>1, <2>2, <2>3 DEF Watching, Single
<1>7. ASSUME NEW w
      PROVE  Awaited(w)' = Awaited(w) /\ (Owing(w)' <=> Owing(w))
  <2>1. Owing(w)' <=> Owing(w)
    BY <1>1, <1>5 DEF Owing
  <2>2. ASSUME NEW k \in DOMAIN notes
        PROVE  (notes'[k].read => \E r \in reading' : r.event = "read" /\ r.id = k)
               <=> (notes[k].read => \E r \in reading : r.event = "read" /\ r.id = k)
    <3>1. CASE k = i
      <4>1. \E r \in reading' : r.event = "read" /\ r.id = k
        BY <1>1, <1>5, <3>1
      <4>2. ~notes[k].read
        BY <3>1 DEF MarkRead, Unread
      <4> QED BY <4>1, <4>2
    <3>2. CASE k # i
      <4>1. (\E r \in reading' : r.event = "read" /\ r.id = k) <=> \E r \in reading : r.event = "read" /\ r.id = k
        BY <1>1, <1>5, <3>2
      <4> QED BY <1>4, <3>2, <4>1
    <3> QED BY <3>1, <3>2
  <2>3. Awaited(w)' = Awaited(w)
    BY <1>4, <2>2 DEF Awaited
  <2> QED BY <2>1, <2>3
<1>8. \A s \in deployment.open : Tallied(s, p)'
  BY <1>1, <1>7, TallyStays DEF Watching
<1> QED BY <1>1, <1>6, <1>8 DEF Watching, Api

\* mark_all_read: until the push is scheduled nothing is said of its user's pages.
LEMMA MarkAllReadWatched ==
  ASSUME NEW p, DbTypes, Watching(p), NEW q \in Api, NEW u \in Users, MarkAllRead(q, u)
  PROVE  Watching(p)'
<1> DEFINE o == [process |-> p, user |-> u, event |-> "read_all", id |-> 0]
<1>1. /\ q = p
      /\ notes' = [i \in DOMAIN notes |->
                     IF i \in Unread(u) THEN [notes[i] EXCEPT !.read = TRUE] ELSE notes[i]]
      /\ reading' = reading \cup {o}
      /\ UNCHANGED <<deployment, tx, socket, told, loop, channel>>
  BY DEF MarkAllRead, Owe, pushVars, Watching
<1>2. \A k \in DOMAIN notes : notes[k] \in Note
  BY ElementOfSeq, LenProperties DEF DbTypes
<1>3. \A n \in Note : LET m == [n EXCEPT !.read = TRUE]
                      IN  m.user = n.user /\ m.read = TRUE /\ m.state = n.state
  BY DEF Note
<1>4. /\ DOMAIN notes' = DOMAIN notes
      /\ \A k \in DOMAIN notes : /\ notes'[k].user = notes[k].user /\ notes'[k].state = notes[k].state
                                 /\ notes[k].user # u => notes'[k].read = notes[k].read
                                 /\ notes[k].read = TRUE => notes'[k].read = TRUE
  <2>1. ASSUME NEW k \in DOMAIN notes
        PROVE  \/ notes'[k] = notes[k]
               \/ notes[k].user = u /\ notes'[k] = [notes[k] EXCEPT !.read = TRUE]
    BY <1>1 DEF Unread
  <2>2. DOMAIN notes' = DOMAIN notes
    BY <1>1
  <2> QED BY <1>2, <1>3, <2>1, <2>2
<1>5. o.process = p /\ o.user = u /\ o.event = "read_all"
  OBVIOUS
<1> HIDE DEF o
<1>6. Single(p)'
  <2>1. ASSUME NEW r \in reading'
        PROVE  /\ r.process = p
               /\ r.event = "read" =>
                    r.id \in DOMAIN notes' /\ notes'[r.id].read = TRUE /\ notes'[r.id].user = r.user
    <3>1. CASE r = o
      BY <1>5, <3>1
    <3>2. CASE r \in reading
      BY <1>4, <3>2 DEF Watching, Single
    <3> QED BY <1>1, <3>1, <3>2
  <2>2. \A k \in DOMAIN notes' : notes'[k].state # "gone"
    BY <1>4 DEF Watching, Single
  <2>3. \A r \in Requests : Open(r)' => tx'[r].process = p /\ tx'[r].step.kind # "scan"
    BY <1>1 DEF Watching, Single, Open
  <2> QED BY <1>1, <2>1, <2>2, <2>3 DEF Watching, Single
<1>7. ASSUME NEW w, ~Owing(w)'
      PROVE  Awaited(w)' = Awaited(w) /\ ~Owing(w)
  <2>1. ~Owing(w) /\ w # u
    BY <1>1, <1>5, <1>7 DEF Owing
  <2>2. \A k : (\E r \in reading' : r.event = "read" /\ r.id = k) <=> \E r \in reading : r.event = "read" /\ r.id = k
    BY <1>1, <1>5
  <2>3. Awaited(w)' = Awaited(w)
    BY <1>4, <2>1, <2>2 DEF Awaited
  <2> QED BY <2>1, <2>3
<1>8. \A s \in deployment.open : Tallied(s, p)'
  BY <1>1, <1>7, TallyStays DEF Watching
<1> QED BY <1>1, <1>6, <1>8 DEF Watching, Api

\* The loop writes its next event to the pages of its user.
LEMMA DeliverWatched ==
  ASSUME NEW p, DbTypes, WireInv, Watching(p), NEW q \in Processes, Deliver(q)
  PROVE  Watching(p)'
<1> DEFINE l == loop[q]
           e == Head(l)
<1>1. /\ l # <<>> /\ DeliverLocal(q, e) /\ loop' = [loop EXCEPT ![q] = Tail(@)]
      /\ UNCHANGED <<deployment, notes, tx, reading, channel>>
  BY DEF Deliver, dbVars
<1>2. loop \in [Processes -> Seq(Event)] /\ told \in [Sockets -> Seq(Event)] /\ p \in Processes
  BY PagesAre DEF WireInv, WireTypes, Watching
<1>3. CASE q # p
  <2>1. loop'[p] = loop[p]
    BY <1>1, <1>2, <1>3
  <2> QED BY <1>1, <1>3, <2>1, ElsewhereWatched
<1>4. CASE q = p
  <2>1. /\ l \in Seq(Event) /\ e \in Event /\ l = loop[p] /\ loop'[p] = Tail(l)
        /\ Len(l) \in Nat /\ Len(l) > 0 /\ DOMAIN l = 1..Len(l) /\ e = l[1]
        /\ DOMAIN Tail(l) = 1..Len(l) - 1
        /\ \A k \in 1..Len(l) - 1 : Tail(l)[k] = l[k + 1]
    BY <1>1, <1>2, <1>4, HeadTailProperties, LenProperties, EmptySeq
  <2>2. deployment.open \subseteq Sockets
        /\ \A s \in deployment.open : HeldBy[s] = p /\ socket[s] = "open"
    BY PagesAre DEF Watching, Single
  <2>3. /\ told' = [s \in Sockets |-> IF s \in Registered(p, e.user) /\ socket[s] = "open"
                                        THEN Append(told[s], e) ELSE told[s]]
        /\ socket' = [s \in Sockets |-> IF s \in Registered(p, e.user) /\ socket[s] = "dropped"
                                          THEN "closed" ELSE socket[s]]
    BY <1>1, <1>4 DEF DeliverLocal
  <2> HIDE DEF l, e
  <2>4. ASSUME NEW s \in deployment.open
        PROVE  /\ socket'[s] = "open"
               /\ told'[s] = IF OwnerOf[s] = e.user THEN Append(told[s], e) ELSE told[s]
    <3>1. s \in Registered(p, e.user) <=> OwnerOf[s] = e.user
      BY <2>2 DEF Registered
    <3> QED BY <2>2, <2>3, <3>1
  <2>5. Single(p)'
    <3>1. \A r \in Requests : Open(r)' => tx'[r].process = p /\ tx'[r].step.kind # "scan"
      BY <1>1 DEF Watching, Single, Open
    <3> QED BY <1>1, <2>4, <3>1 DEF Watching, Single
  <2>6. ASSUME NEW s \in deployment.open
        PROVE  Tallied(s, p)'
    <3> DEFINE u == OwnerOf[s]
    <3>1. PICK g : /\ Counts(g, Shown(told[s]), l, u)
                   /\ ~Owing(u) =>
                        /\ g[Len(l)] <= Cardinality(Awaited(u))
                        /\ ~Cleared(s, p) => g[Len(l)] = Cardinality(Awaited(u))
      BY <2>1 DEF Watching, Tallied
    <3>2. told[s] \in Seq(Event)
      BY <1>2, <2>2
    <3>3. Shown(told'[s]) = IF e.user = u THEN AfterEvent(Shown(told[s]), e) ELSE Shown(told[s])
      BY <2>1, <2>4, <3>2, BadgeAfter
    <3>4. PICK f : /\ Counts(f, Shown(told'[s]), Tail(l), u)
                   /\ f[Len(Tail(l))] = g[Len(l)]
      <4>1. \E f : /\ Counts(f, IF e.user = u THEN AfterEvent(Shown(told[s]), e) ELSE Shown(told[s]), Tail(l), u)
                   /\ f[Len(Tail(l))] = g[Len(l)]
        BY <1>1, <2>1, <3>1, CountsTail DEF e, l
      <4> QED BY <3>3, <4>1
    <3>5. Awaited(u)' = Awaited(u) /\ (Owing(u)' <=> Owing(u))
      BY <1>1 DEF Awaited, Owing
    <3>6. Cleared(s, p) => Cleared(s, p)'
      <4>1. ASSUME NEW k \in DOMAIN told[s], told[s][k].event = "read_all"
            PROVE  Cleared(s, p)'
        <5>1. Len(told[s]) \in Nat /\ DOMAIN told[s] = 1..Len(told[s])
          BY <3>2, LenProperties
        <5>2. k \in DOMAIN Append(told[s], e) /\ Append(told[s], e)[k] = told[s][k]
          BY <2>1, <3>2, <5>1, AppendProperties, LenProperties
        <5>3. k \in DOMAIN told'[s] /\ told'[s][k] = told[s][k]
          BY <2>4, <5>2
        <5> QED BY <4>1, <5>3 DEF Cleared
      <4>2. ASSUME NEW k \in DOMAIN l, l[k].event = "read_all", l[k].user = u
            PROVE  Cleared(s, p)'
        <5>1. CASE k = 1
          <6>1. told'[s] = Append(told[s], e) /\ e.event = "read_all"
            BY <2>1, <2>4, <4>2, <5>1
          <6>2. Len(told[s]) + 1 \in DOMAIN Append(told[s], e) /\ Append(told[s], e)[Len(told[s]) + 1] = e
            BY <2>1, <3>2, AppendProperties, LenProperties
          <6> QED BY <6>1, <6>2 DEF Cleared
        <5>2. CASE k # 1
          <6>1. k - 1 \in DOMAIN Tail(l) /\ Tail(l)[k - 1] = l[k]
            BY <2>1, <5>2
          <6> QED BY <2>1, <4>2, <6>1 DEF Cleared, Clears
        <5> QED BY <5>1, <5>2
      <4> QED BY <2>1, <4>1, <4>2 DEF Cleared, Clears
    <3> QED BY <2>1, <3>1, <3>4, <3>5, <3>6 DEF Tallied
  <2> QED BY <1>1, <2>5, <2>6 DEF Watching, Api
<1> QED BY <1>3, <1>4

\* A push of process p goes to the end of its loop, and to others.
LEMMA PushOwn ==
  ASSUME NEW p, DbTypes, WireInv, Watching(p), NEW events \in Seq(Event), Push(p, events)
  PROVE  /\ p \in Processes
         /\ loop[p] \in Seq(Event) /\ loop'[p] = loop[p] \o events
         /\ Len(loop[p]) \in Nat /\ Len(events) \in Nat /\ Len(loop'[p]) = Len(loop[p]) + Len(events)
         /\ \A k \in 1..Len(loop[p]) : loop'[p][k] = loop[p][k]
         /\ \A j \in 1..Len(events) : loop'[p][Len(loop[p]) + j] = events[j]
         /\ DOMAIN loop[p] = 1..Len(loop[p]) /\ DOMAIN loop'[p] = 1..Len(loop[p]) + Len(events)
         /\ \A k \in DOMAIN channel'[p] : channel'[p][k].origin = p
         /\ \A u : Clears(loop[p], u) => Clears(loop'[p], u)
<1>1. p \in Processes /\ p # Worker
  BY PagesAre DEF Watching
<1>2. loop[p] \in Seq(Event) /\ channel[p] \in Seq(Envelope)
  BY <1>1 DEF WireInv, WireTypes
<1>3. loop'[p] = loop[p] \o events
  BY <1>1, PushIs
<1> DEFINE n == Len(loop[p])
           l == Len(events)
<1>4. n \in Nat /\ l \in Nat /\ DOMAIN loop[p] = 1..n
  BY <1>2, LenProperties
<1>5. /\ loop'[p] \in Seq(Event) /\ Len(loop'[p]) = n + l
      /\ \A k \in 1..n + l : loop'[p][k] = IF k <= n THEN loop[p][k] ELSE events[k - n]
  BY <1>2, <1>3, ConcatProperties
<1>6. DOMAIN loop'[p] = 1..n + l
  BY <1>5, LenProperties
<1> HIDE DEF n, l
<1>7. \A k \in 1..n : loop'[p][k] = loop[p][k]
  BY <1>4, <1>5
<1>8. \A j \in 1..l : loop'[p][n + j] = events[j]
  <2>1. \A j \in 1..l : n + j \in 1..n + l /\ ~(n + j <= n) /\ (n + j) - n = j
    BY <1>4
  <2> QED BY <1>5, <2>1
<1>9. \A k \in DOMAIN channel'[p] : channel'[p][k].origin = p
  <2> DEFINE m == [i \in DOMAIN events |-> [origin |-> p, event |-> events[i]]]
             c == channel[p]
  <2>1. channel'[p] = c \/ channel'[p] = c \o m
    BY <1>1, PushIs
  <2>2. DOMAIN events = 1..l /\ \A i \in 1..l : events[i] \in Event
    BY LenProperties, ElementOfSeq DEF l
  <2>3. m \in [1..l -> Envelope] /\ \A i \in 1..l : m[i].origin = p
    BY <1>1, <2>2 DEF Envelope
  <2>4. m \in Seq(Envelope) /\ Len(m) = l
    BY <1>4, <2>3, AsSeq
  <2> HIDE DEF m
  <2>5. Len(c) \in Nat /\ DOMAIN c = 1..Len(c) /\ \A k \in 1..Len(c) : c[k].origin = p
    BY <1>2, LenProperties DEF Watching, Single
  <2>6. /\ Len(c \o m) = Len(c) + l /\ DOMAIN (c \o m) = 1..Len(c) + l
        /\ \A k \in 1..Len(c) + l : (c \o m)[k] = IF k <= Len(c) THEN c[k] ELSE m[k - Len(c)]
    <3>1. /\ c \o m \in Seq(Envelope) /\ Len(c \o m) = Len(c) + l
          /\ \A k \in 1..Len(c) + l : (c \o m)[k] = IF k <= Len(c) THEN c[k] ELSE m[k - Len(c)]
      BY <1>2, <2>4, ConcatProperties
    <3> QED BY <3>1, LenProperties
  <2> HIDE DEF c
  <2>7. ASSUME NEW k \in 1..Len(c) + l
        PROVE  (c \o m)[k].origin = p
    <3>1. CASE k <= Len(c)
      <4>1. k \in 1..Len(c)
        BY <2>5, <3>1
      <4> QED BY <2>5, <2>6, <3>1, <4>1
    <3>2. CASE ~(k <= Len(c))
      <4>1. k - Len(c) \in 1..l
        BY <1>4, <2>5, <3>2
      <4> QED BY <2>3, <2>6, <3>2, <4>1
    <3> QED BY <3>1, <3>2
  <2>8. CASE channel'[p] = c
    BY <2>5, <2>8
  <2>9. CASE channel'[p] = c \o m
    BY <2>6, <2>7, <2>9
  <2> QED BY <2>1, <2>8, <2>9
<1>10. \A u : Clears(loop[p], u) => Clears(loop'[p], u)
  <2>1. \A k \in 1..n : k \in 1..n + l
    BY <1>4
  <2> QED BY <1>4, <1>6, <1>7, <2>1 DEF Clears
<1> QED BY <1>1, <1>2, <1>3, <1>4, <1>5, <1>6, <1>7, <1>8, <1>9, <1>10 DEF n, l

\* Work adds its notifications to those that are awaited, and their events to the loop.
LEMMA WorkWatched ==
  ASSUME NEW p, DbInv, WireInv, Watching(p), NEW r \in Requests, Work(r)
  PROVE  Watching(p)'
<1> DEFINE E == NewEvents(r)
           N == Len(notes)
<1>1. /\ DbTypes /\ Doing /\ Open(r) /\ tx[r].process = p /\ tx[r].step.kind # "scan"
      /\ Push(p, E)
      /\ UNCHANGED <<deployment, reading, socket, told>>
      /\ tx' = [tx EXCEPT ![r] = [@ EXCEPT !.phase = "worked",
                                           !.notes = Len(notes) + 1..Len(notes) + Len(New(r))]]
      /\ tx \in [Requests -> OrNone(Transaction)]
  BY DEF DbInv, DbTypes, Work, Watching, Single
<1>2. /\ N \in Nat /\ Len(New(r)) \in Nat
      /\ DOMAIN notes = 1..N /\ DOMAIN notes' = 1..N + Len(New(r))
      /\ \A i \in DOMAIN notes : notes'[i] = notes[i]
      /\ \A i \in DOMAIN notes' \ DOMAIN notes :
           /\ notes'[i].user = New(r)[i - N].user
           /\ notes'[i].read = FALSE /\ notes'[i].state = "pending"
      /\ \A k \in 1..Len(New(r)) : N + k \in DOMAIN notes' \ DOMAIN notes /\ (N + k) - N = k
  BY WorkIs
<1>3. /\ E \in Seq(Event) /\ Len(E) = Len(New(r))
      /\ \A k \in 1..Len(New(r)) : E[k].event = "new" /\ E[k].user = New(r)[k].user
  BY <1>1, NewEventsAre
<1>4. /\ loop[p] \in Seq(Event) /\ loop'[p] = loop[p] \o E
      /\ DOMAIN loop[p] = 1..Len(loop[p]) /\ Len(loop[p]) \in Nat
      /\ \A k \in DOMAIN channel'[p] : channel'[p][k].origin = p
      /\ \A u : Clears(loop[p], u) => Clears(loop'[p], u)
  BY <1>1, <1>3, PushOwn
<1> HIDE DEF E, N
<1>5. Announces(E, notes', N)
  <2>1. SUFFICES ASSUME NEW k \in 1..Len(New(r))
                 PROVE  E[k].user = notes'[N + k].user
    BY <1>3 DEF Announces
  <2> DEFINE i == N + k
  <2>2. i \in DOMAIN notes' \ DOMAIN notes /\ i - N = k
    BY <1>2
  <2> HIDE DEF i
  <2>3. E[k].user = notes'[i].user
    BY <1>2, <1>3, <2>2
  <2> QED BY <2>3 DEF i
<1>6. \A o \in reading : o.event = "read" => o.id \in DOMAIN notes
  BY DEF Watching, Single
<1>7. Single(p)'
  <2>1. ASSUME NEW q \in Requests, Open(q)'
        PROVE  tx'[q].process = p /\ tx'[q].step.kind # "scan"
    <3>1. CASE q = r
      <4>1. tx[r] \in Transaction
        BY <1>1 DEF Open, OrNone
      <4>2. \A S : \A t \in Transaction :
              LET v == [t EXCEPT !.phase = "worked", !.notes = S]
              IN  v.process = t.process /\ v.step = t.step
        BY DEF Transaction
      <4>3. tx'[r] = [tx[r] EXCEPT !.phase = "worked", !.notes = Len(notes) + 1..Len(notes) + Len(New(r))]
        BY <1>1
      <4>4. tx'[r].process = tx[r].process /\ tx'[r].step = tx[r].step
        BY <4>1, <4>2, <4>3
      <4> QED BY <1>1, <3>1, <4>4
    <3>2. CASE q # r
      BY <1>1, <2>1, <3>2 DEF Watching, Single, Open
    <3> QED BY <3>1, <3>2
  <2>2. \A i \in DOMAIN notes' : notes'[i].state # "gone"
    BY <1>2 DEF Watching, Single
  <2>3. \A o \in reading' :
          /\ o.process = p
          /\ o.event = "read" =>
               o.id \in DOMAIN notes' /\ notes'[o.id].read = TRUE /\ notes'[o.id].user = o.user
    <3>1. \A i \in DOMAIN notes : i \in DOMAIN notes'
      BY <1>2
    <3> QED BY <1>1, <1>2, <3>1 DEF Watching, Single
  <2> QED BY <1>1, <1>4, <2>1, <2>2, <2>3 DEF Watching, Single
<1>8. ASSUME NEW s \in deployment.open
      PROVE  Tallied(s, p)'
  <2> DEFINE u == OwnerOf[s]
             F == Further(notes', N, N + Len(E), u)
  <2>1. PICK g : /\ Counts(g, Shown(told[s]), loop[p], u)
                 /\ ~Owing(u) =>
                      /\ g[Len(loop[p])] <= Cardinality(Awaited(u))
                      /\ ~Cleared(s, p) => g[Len(loop[p])] = Cardinality(Awaited(u))
    BY DEF Watching, Tallied
  <2>2. PICK f : /\ Counts(f, Shown(told[s]), loop[p] \o E, u)
                 /\ f[Len(loop[p] \o E)] = g[Len(loop[p])] + Cardinality(F)
    <3> DEFINE b == Shown(told[s])
               q == loop[p]
               ns == notes'
    <3>1. q \in Seq(Event) /\ E \in Seq(Event) /\ N \in Nat /\ Announces(E, ns, N) /\ Counts(g, b, q, u)
      BY <1>2, <1>3, <1>4, <1>5, <2>1
    <3> HIDE DEF b, q, ns, u
    <3>2. \E f : /\ Counts(f, b, q \o E, u)
                 /\ f[Len(q \o E)] = g[Len(q)] + Cardinality(Further(ns, N, N + Len(E), u))
      BY <3>1, CountsNew
    <3> QED BY <3>2 DEF b, q, ns, u
  <2>3. Awaited(u)' = Awaited(u) \cup F /\ Awaited(u) \cap F = {}
    <3>1. \A i : i \in DOMAIN notes' <=> i \in DOMAIN notes \/ i \in N + 1..N + Len(E)
      BY <1>2, <1>3
    <3>2. \A i : ~(i \in DOMAIN notes /\ i \in N + 1..N + Len(E))
      BY <1>2
    <3>3. \A i : i \in F <=> i \in N + 1..N + Len(E) /\ notes'[i].user = u
      BY DEF Further
    <3> HIDE DEF F
    <3>4. \A i \in DOMAIN notes : i \in Awaited(u)' <=> i \in Awaited(u)
      BY <1>1, <1>2, <3>1 DEF Awaited
    <3>5. \A i \in N + 1..N + Len(E) : i \in Awaited(u)' <=> notes'[i].user = u
      BY <1>2, <3>1, <3>2 DEF Awaited
    <3>6. \A i : i \in Awaited(u)' => i \in DOMAIN notes'
      BY DEF Awaited
    <3>7. \A i : i \in Awaited(u) => i \in DOMAIN notes
      BY DEF Awaited
    <3>8. \A i : i \in Awaited(u)' <=> i \in Awaited(u) \/ i \in F
      BY <3>1, <3>2, <3>3, <3>4, <3>5, <3>6, <3>7
    <3>9. \A i : ~(i \in Awaited(u) /\ i \in F)
      BY <3>2, <3>3, <3>7
    <3> QED BY <3>8, <3>9
  <2>4. IsFiniteSet(Awaited(u)) /\ Cardinality(Awaited(u)) \in Nat
    BY <1>1, AwaitedFinite
  <2>5. IsFiniteSet(F) /\ Cardinality(F) \in Nat
    <3>1. IsFiniteSet(N + 1..N + Len(E))
      BY <1>2, <1>3, FS_Interval
    <3>2. F \subseteq N + 1..N + Len(E)
      BY DEF Further
    <3> QED BY <3>1, <3>2, FS_Subset, FS_CardinalityType
  <2>6. Cardinality(Awaited(u)') = Cardinality(Awaited(u)) + Cardinality(F)
    <3> DEFINE A == Awaited(u)
    <3>1. IsFiniteSet(A) /\ Cardinality(A) \in Nat /\ A \cap F = {} /\ Awaited(u)' = A \cup F
      BY <2>3, <2>4
    <3> HIDE DEF F, A
    <3>2. Cardinality(A \cup F) = Cardinality(A) + Cardinality(F) - Cardinality(A \cap F)
      BY <2>5, <3>1, FS_Union
    <3>3. Cardinality(A \cap F) = 0
      BY <3>1, FS_EmptySet
    <3>4. Cardinality(A \cup F) = Cardinality(A) + Cardinality(F)
      BY <2>5, <3>1, <3>2, <3>3
    <3> QED BY <3>1, <3>4 DEF A
  <2>7. g[Len(loop[p])] \in Nat
    <3> DEFINE n == Len(loop[p])
    <3>1. g \in [0..n -> Nat]
      BY <2>1 DEF Counts
    <3>2. n \in 0..n
      BY <1>4
    <3> HIDE DEF n
    <3>3. g[n] \in Nat
      BY <3>1, <3>2
    <3> QED BY <3>3 DEF n
  <2>8. (Owing(u)' <=> Owing(u)) /\ (Cleared(s, p) => Cleared(s, p)')
    BY <1>1, <1>4 DEF Owing, Cleared
  <2> HIDE DEF F
  <2>9. /\ Counts(f, Shown(told'[s]), loop'[p], u)
        /\ ~Owing(u)' =>
             /\ f[Len(loop'[p])] <= Cardinality(Awaited(u)')
             /\ ~Cleared(s, p)' => f[Len(loop'[p])] = Cardinality(Awaited(u)')
    BY <1>1, <1>4, <2>1, <2>2, <2>4, <2>5, <2>6, <2>7, <2>8
  <2> QED BY <2>9 DEF Tallied
<1> QED BY <1>1, <1>7, <1>8 DEF Watching, Api

\* The push after a commit: what it says of one notification was counted until now.
LEMMA ReadPushedWatched ==
  ASSUME NEW p, DbTypes, WireInv, Watching(p), ReadPushed
  PROVE  Watching(p)'
<1>1. PICK o \in reading :
        /\ reading' = reading \ {o}
        /\ Push(o.process, <<[event |-> o.event, user |-> o.user, id |-> o.id]>>)
        /\ UNCHANGED <<deployment, now, dbVars, tx, socket, told, listening, redis, faults>>
  BY DEF ReadPushed
<1> DEFINE e == [event |-> o.event, user |-> o.user, id |-> o.id]
<1>2. /\ e \in Event /\ e.event \in {"read", "read_all"}
      /\ e.event = o.event /\ e.user = o.user /\ e.id = o.id
      /\ reading \subseteq [process : Processes, user : Users, event : {"read", "read_all"}, id : Nat]
  BY DEF WireInv, WireTypes, Event
<1>3. Push(p, <<e>>) /\ UNCHANGED <<deployment, notes, tx, socket, told>>
  BY <1>1 DEF dbVars, Watching, Single
<1> HIDE DEF e
<1>4. <<e>> \in Seq(Event) /\ Len(<<e>>) = 1 /\ <<e>>[1] = e
  BY <1>2
<1>5. /\ loop[p] \in Seq(Event) /\ loop'[p] = loop[p] \o <<e>> /\ Len(loop[p]) \in Nat
      /\ DOMAIN loop'[p] = 1..Len(loop[p]) + 1 /\ loop'[p][Len(loop[p]) + 1] = e
      /\ \A k \in DOMAIN channel'[p] : channel'[p][k].origin = p
      /\ \A u : Clears(loop[p], u) => Clears(loop'[p], u)
  <2> DEFINE E == <<e>>
  <2>1. E \in Seq(Event) /\ Len(E) = 1 /\ E[1] = e /\ Push(p, E) /\ 1 \in 1..1
    BY <1>3, <1>4
  <2> HIDE DEF E
  <2>2. /\ loop[p] \in Seq(Event) /\ loop'[p] = loop[p] \o E /\ Len(loop[p]) \in Nat
        /\ DOMAIN loop'[p] = 1..Len(loop[p]) + Len(E)
        /\ \A j \in 1..Len(E) : loop'[p][Len(loop[p]) + j] = E[j]
        /\ \A k \in DOMAIN channel'[p] : channel'[p][k].origin = p
        /\ \A u : Clears(loop[p], u) => Clears(loop'[p], u)
    BY <2>1, PushOwn
  <2>3. DOMAIN loop'[p] = 1..Len(loop[p]) + 1 /\ loop'[p][Len(loop[p]) + 1] = e
    BY <2>1, <2>2
  <2> QED BY <2>2, <2>3 DEF E
<1>6. Single(p)'
  BY <1>1, <1>3, <1>5 DEF Watching, Single, Open
<1>7. ASSUME NEW s \in deployment.open
      PROVE  Tallied(s, p)'
  <2> DEFINE u == OwnerOf[s]
             n == Len(loop[p])
             A == Awaited(u)
  <2>1. PICK g : /\ Counts(g, Shown(told[s]), loop[p], u)
                 /\ ~Owing(u) =>
                      /\ g[n] <= Cardinality(A)
                      /\ ~Cleared(s, p) => g[n] = Cardinality(A)
    BY DEF Watching, Tallied
  <2>2. PICK f : /\ Counts(f, Shown(told[s]), loop[p] \o <<e>>, u)
                 /\ f[Len(loop[p] \o <<e>>)] = IF e.user = u THEN AfterEvent(g[n], e) ELSE g[n]
    BY <1>2, <1>5, <2>1, CountsOne
  <2>3. /\ Counts(f, Shown(told'[s]), loop'[p], u)
        /\ f[Len(loop'[p])] = IF e.user = u THEN AfterEvent(g[n], e) ELSE g[n]
    BY <1>3, <1>5, <2>2
  <2>4. g[n] \in Nat
    <3>1. g \in [0..n -> Nat]
      BY <2>1 DEF Counts
    <3>2. n \in 0..n
      BY <1>5
    <3> HIDE DEF n
    <3> QED BY <3>1, <3>2
  <2>5. IsFiniteSet(A) /\ Cardinality(A) \in Nat
    BY AwaitedFinite
  <2>6. Cleared(s, p) => Cleared(s, p)'
    BY <1>3, <1>5 DEF Cleared
  <2>7. \A w : Owing(w)' => Owing(w)
    BY <1>1 DEF Owing
  <2>8. ASSUME ~(o.event = "read_all" /\ o.user = u), Owing(u)
        PROVE  Owing(u)'
    BY <1>1, <2>8 DEF Owing
  <2>9. CASE o.user # u
    <3>1. A' = A
      <4>1. ASSUME NEW i \in DOMAIN notes, notes[i].user = u
            PROVE  (\E r \in reading' : r.event = "read" /\ r.id = i)
                   <=> \E r \in reading : r.event = "read" /\ r.id = i
        <5>1. ~(o.event = "read" /\ o.id = i)
          BY <2>9, <4>1 DEF Watching, Single
        <5> QED BY <1>1, <5>1
      <4> QED BY <1>3, <4>1 DEF Awaited
    <3>2. f[Len(loop'[p])] = g[n] /\ (Owing(u)' <=> Owing(u))
      BY <1>2, <2>3, <2>7, <2>8, <2>9
    <3> QED BY <2>1, <2>3, <2>6, <3>1, <3>2 DEF Tallied
  <2>10. CASE o.user = u /\ o.event = "read"
    <3>1. /\ o.id \in DOMAIN notes /\ notes[o.id].read = TRUE /\ notes[o.id].user = u
          /\ \A r \in reading : r.event = "read" /\ r.id = o.id => r = o
      BY <1>2, <2>10 DEF Watching, Single
    <3>2. o.id \in A /\ A' = A \ {o.id}
      <4>1. o.id \in A
        BY <2>10, <3>1 DEF Awaited
      <4>2. ASSUME NEW i \in DOMAIN notes
            PROVE  i \in A' <=> i \in A /\ i # o.id
        <5>1. CASE i = o.id
          <6>1. ~\E r \in reading' : r.event = "read" /\ r.id = i
            BY <1>1, <3>1, <5>1
          <6> QED BY <1>3, <3>1, <5>1, <6>1 DEF Awaited
        <5>2. CASE i # o.id
          <6>1. (\E r \in reading' : r.event = "read" /\ r.id = i)
                <=> \E r \in reading : r.event = "read" /\ r.id = i
            BY <1>1, <5>2
          <6> QED BY <1>3, <5>2, <6>1 DEF Awaited
        <5> QED BY <5>1, <5>2
      <4>3. \A i : (i \in A' => i \in DOMAIN notes) /\ (i \in A => i \in DOMAIN notes)
        BY <1>3 DEF Awaited
      <4> HIDE DEF A
      <4> QED BY <4>1, <4>2, <4>3
    <3>3. Cardinality(A') = Cardinality(A) - 1
      <4> DEFINE B == A
      <4>1. IsFiniteSet(B) /\ o.id \in B /\ A' = B \ {o.id}
        BY <2>5, <3>2
      <4> HIDE DEF B
      <4>2. Cardinality(B \ {o.id}) = Cardinality(B) - 1
        BY <4>1, FS_RemoveElement
      <4> QED BY <4>1, <4>2 DEF B
    <3>4. Cardinality(A') \in Nat
      <4>1. IsFiniteSet(A \ {o.id})
        BY <2>5, FS_RemoveElement
      <4> QED BY <3>2, <4>1, FS_CardinalityType
    <3>5. f[Len(loop'[p])] = IF g[n] = 0 THEN 0 ELSE g[n] - 1
      BY <1>2, <2>3, <2>4, <2>10, AfterIs
    <3>6. Owing(u)' <=> Owing(u)
      BY <2>7, <2>8, <2>10
    <3> DEFINE c == Cardinality(A)
               z == f[Len(loop'[p])]
               m == g[n]
    <3>7. ~Owing(u)' => z <= Cardinality(A') /\ (~Cleared(s, p)' => z = Cardinality(A'))
      <4>1. c \in Nat /\ c - 1 \in Nat /\ Cardinality(A') = c - 1 /\ m \in Nat
            /\ z = IF m = 0 THEN 0 ELSE m - 1
        BY <2>4, <2>5, <3>3, <3>4, <3>5
      <4>2. ~Owing(u) => m <= c /\ (~Cleared(s, p) => m = c)
        BY <2>1
      <4> HIDE DEF A, c, z, m
      <4> QED BY <2>6, <3>6, <4>1, <4>2
    <3> QED BY <2>3, <3>7 DEF Tallied
  <2>11. CASE o.user = u /\ o.event = "read_all"
    <3>1. f[Len(loop'[p])] = 0
      BY <1>2, <2>3, <2>4, <2>11, AfterIs
    <3>2. Cleared(s, p)'
      <4>1. Len(loop[p]) + 1 \in DOMAIN loop'[p]
        BY <1>5
      <4> QED BY <1>2, <1>5, <2>11, <4>1 DEF Cleared, Clears
    <3>3. Cardinality(A') \in Nat
      <4>1. DbTypes'
        BY <1>1 DEF DbTypes, dbVars
      <4>2. \A w : Cardinality(Awaited(w)') \in Nat
        <5>1. Len(notes) \in Nat /\ DOMAIN notes = 1..Len(notes)
          BY LenProperties DEF DbTypes
        <5>2. IsFiniteSet(DOMAIN notes)
          BY <5>1, FS_Interval
        <5>3. \A w : Awaited(w)' \subseteq DOMAIN notes
          BY <1>3 DEF Awaited
        <5> QED BY <5>2, <5>3, FS_Subset, FS_CardinalityType
      <4> QED BY <4>2
    <3>4. 0 <= Cardinality(A')
      BY <3>3
    <3> QED BY <2>3, <3>1, <3>2, <3>4 DEF Tallied
  <2> QED BY <1>2, <2>9, <2>10, <2>11
<1> QED BY <1>3, <1>6, <1>7 DEF Watching, Api

WatchInv == Watched => \E p \in Api : Watching(p)

LEMMA WatchStep ==
  ASSUME DbInv, WireInv, WatchInv, [Next]_vars
  PROVE  WatchInv'
<1>1. deployment' = deployment
  BY DEF Next, vars, Load, Work, Conflict, Commit, CommitFails, MarkAllRead, MarkRead, ReadPushed,
         Connect, Drop, Unregister, Deliver, Listen, Rested, Restart, RedisDown, RedisUp, Tick
<1>2. SUFFICES ASSUME Watched
               PROVE  \E p \in Api : Watching(p)'
  <2>1. (Watched' <=> Watched) /\ Api' = Api
    BY <1>1 DEF Watched, Api, Does
  <2> QED BY <2>1 DEF WatchInv
<1>3. PICK p \in Api : Watching(p)
  BY <1>2 DEF WatchInv
<1>4. DbTypes
  BY DEF DbInv
<1>5. \A kind : ~Fault(kind)
  BY <1>2 DEF Watched, Fault
<1>6. \A s \in deployment.open : s \in Sockets /\ socket[s] = "open"
  BY <1>3, <1>4, PagesAre DEF Watching, Single
<1>7. socket \in [Sockets -> {"unused", "open", "dropped", "closed"}]
  BY DEF WireInv, WireTypes
<1>8. ASSUME UNCHANGED <<deployment, notes, tx, reading, socket, told, loop, channel>>
      PROVE  Watching(p)'
  BY <1>3, <1>4, <1>8, OtherWatched
<1>9. ASSUME NEW s \in Sockets, Connect(s) \/ Unregister(s)
      PROVE  Watching(p)'
  <2>1. UNCHANGED <<deployment, notes, tx, reading, told, loop, channel>>
    BY <1>9 DEF Connect, Unregister, dbVars, pushVars
  <2>2. \A o \in deployment.open : socket'[o] = socket[o]
    BY <1>6, <1>7, <1>9 DEF Connect, Unregister
  <2> QED BY <1>3, <1>4, <2>1, <2>2, OtherWatched
<1>10. ASSUME NEW r \in Requests, Load(r) \/ Work(r) \/ Conflict(r) \/ Commit(r) \/ CommitFails(r)
       PROVE  Watching(p)'
  <2>1. ~CommitFails(r)
    BY <1>5 DEF CommitFails
  <2>2. CASE Load(r)
    BY <1>2, <1>3, <1>4, <2>2, LoadWatched
  <2>3. CASE Work(r)
    BY <1>3, <2>3, WorkWatched
  <2>4. CASE Conflict(r)
    BY <1>3, <2>4, ConflictWatched
  <2>5. CASE Commit(r)
    BY <1>3, <2>5, CommitWatched
  <2> QED BY <1>10, <2>1, <2>2, <2>3, <2>4, <2>5
<1>11. ASSUME NEW q \in Api, NEW u \in Users, MarkAllRead(q, u)
       PROVE  Watching(p)'
  BY <1>3, <1>4, <1>11, MarkAllReadWatched
<1>12. ASSUME NEW q \in Api, NEW u \in Users, NEW i \in DOMAIN notes, MarkRead(q, u, i)
       PROVE  Watching(p)'
  BY <1>3, <1>4, <1>12, MarkReadWatched
<1>13. CASE ReadPushed
  BY <1>3, <1>4, <1>13, ReadPushedWatched
<1>14. ASSUME NEW q \in Processes, Deliver(q)
       PROVE  Watching(p)'
  BY <1>3, <1>4, <1>14, DeliverWatched
<1>15. ASSUME NEW q \in Processes, Listen(q)
       PROVE  Watching(p)'
  BY <1>3, <1>4, <1>15, ListenWatched
<1>16. ASSUME NEW q \in Processes, Rested(q)
       PROVE  Watching(p)'
  BY <1>8, <1>16 DEF Rested, dbVars
<1>17. CASE RedisUp \/ Tick \/ UNCHANGED vars
  BY <1>8, <1>17 DEF RedisUp, Tick, vars, dbVars, pushVars
<1>18. /\ \A s \in Sockets : ~Drop(s)
       /\ \A q \in Processes : ~Restart(q)
       /\ ~RedisDown
  BY <1>5 DEF Drop, Restart, RedisDown
<1>19. CASE \E r \in Requests : Load(r) \/ Work(r) \/ Conflict(r) \/ Commit(r) \/ CommitFails(r)
  BY <1>10, <1>19
<1>20. CASE \E q \in Api, u \in Users : MarkAllRead(q, u) \/ \E i \in DOMAIN notes : MarkRead(q, u, i)
  BY <1>11, <1>12, <1>20
<1>21. CASE \E s \in Sockets : Connect(s) \/ Drop(s) \/ Unregister(s)
  BY <1>9, <1>18, <1>21
<1>22. CASE \E q \in Processes : Deliver(q) \/ Listen(q) \/ Rested(q) \/ Restart(q)
  BY <1>14, <1>15, <1>16, <1>18, <1>22
<1>23. \/ \E r \in Requests : Load(r) \/ Work(r) \/ Conflict(r) \/ Commit(r) \/ CommitFails(r)
       \/ \E q \in Api, u \in Users : MarkAllRead(q, u) \/ \E i \in DOMAIN notes : MarkRead(q, u, i)
       \/ ReadPushed
       \/ \E s \in Sockets : Connect(s) \/ Drop(s) \/ Unregister(s)
       \/ \E q \in Processes : Deliver(q) \/ Listen(q) \/ Rested(q) \/ Restart(q)
       \/ RedisDown \/ RedisUp \/ Tick \/ UNCHANGED vars
  BY DEF Next
<1> QED BY <1>13, <1>17, <1>18, <1>19, <1>20, <1>21, <1>22, <1>23

LEMMA WatchInit ==
  ASSUME Init
  PROVE  WatchInv
<1>1. DbTypes
  BY DbInit DEF DbInv
<1>2. SUFFICES ASSUME Watched
               PROVE  \E p \in Api : Watching(p)
  BY DEF WatchInv
<1>3. PICK p \in Api : Api = {p}
  BY <1>1, <1>2, OneApi DEF Watched
<1>4. p \in Processes /\ deployment.open \subseteq Sockets /\ \A s \in deployment.open : HeldBy[s] = p
  BY <1>1, <1>3, PagesAre
<1>5. notes = <<>> /\ DOMAIN notes = {} /\ reading = {} /\ loop[p] = <<>> /\ channel[p] = <<>>
      /\ \A s \in Sockets : told[s] = <<>>
  BY <1>4 DEF Init
<1>6. Single(p)
  <2>1. \A s \in deployment.open : socket[s] = "open"
    BY <1>4 DEF Init
  <2>2. \A r \in Requests : ~Open(r)
    BY DEF Init, Open
  <2>3. DOMAIN channel[p] = {}
    BY <1>5
  <2> QED BY <1>4, <1>5, <2>1, <2>2, <2>3 DEF Single
<1>7. ASSUME NEW s \in deployment.open
      PROVE  Tallied(s, p)
  <2> DEFINE g == [k \in 0..0 |-> 0]
  <2>1. <<>> \in Seq(Event) /\ Len(<<>>) = 0
    BY EmptySeq
  <2>2. Shown(told[s]) = 0
    BY <1>4, <1>5, <2>1, BadgeAfter
  <2>3. Counts(g, 0, <<>>, OwnerOf[s])
    BY <2>1 DEF Counts
  <2>4. Awaited(OwnerOf[s]) = {}
    BY <1>5 DEF Awaited
  <2>5. Cardinality(Awaited(OwnerOf[s])) = 0
    BY <2>4, FS_EmptySet
  <2>6. g[Len(<<>>)] = 0
    BY <2>1
  <2> HIDE DEF g
  <2> QED BY <1>5, <2>2, <2>3, <2>5, <2>6 DEF Tallied
<1> QED BY <1>3, <1>6, <1>7 DEF Watching

LEMMA WatchAlways == Spec => []WatchInv
<1>1. WatchInv /\ WireInv /\ DbInv /\ [Next]_vars => WatchInv'
  BY WatchStep
<1> QED BY <1>1, WatchInit, WireAlways, DbAlways, PTL DEF Spec

\* In a deployment of one process, without the worker's scan and without faults, a page that
\* only watches shows what its user has not read, once everything is delivered.
THEOREM BadgesAreRight == Spec => []BadgeRight
<1>1. ASSUME WatchInv, DbInv
      PROVE  BadgeRight
  <2>1. SUFFICES ASSUME Watched, NEW s \in deployment.open, Delivered
                 PROVE  /\ Badge(s) <= Cardinality(Unread(OwnerOf[s]))
                        /\ (\A k \in DOMAIN told[s] : told[s][k].event # "read_all")
                             => Badge(s) = Cardinality(Unread(OwnerOf[s]))
    BY DEF BadgeRight, Watched
  <2>2. PICK p \in Api : Watching(p)
    BY <1>1, <2>1 DEF WatchInv
  <2> DEFINE u == OwnerOf[s]
  <2>3. p \in Processes /\ reading = {} /\ loop[p] = <<>>
        /\ \A r \in Requests : Open(r) => tx[r].phase = "loaded"
    BY <1>1, <2>1, PagesAre DEF Delivered, DbInv
  <2>4. ~Owing(u) /\ ~Clears(loop[p], u)
    <3>1. DOMAIN <<>> = {}
      OBVIOUS
    <3> QED BY <2>3, <3>1 DEF Owing, Clears
  <2>5. \A i \in DOMAIN notes : notes[i].state = "committed"
    <3>1. \A i \in DOMAIN notes : notes[i].state # "pending"
      BY <1>1, <2>3 DEF DbInv, Doing, Holds, Apart
    <3>2. \A i \in DOMAIN notes : notes[i] \in Note
      BY <1>1, ElementOfSeq, LenProperties DEF DbInv, DbTypes
    <3> QED BY <2>2, <3>1, <3>2 DEF Watching, Single, Note
  <2>6. Awaited(u) = Unread(u)
    BY <2>3, <2>5 DEF Awaited, Unread
  <2>7. PICK g : /\ Counts(g, Shown(told[s]), loop[p], u)
                 /\ g[Len(loop[p])] <= Cardinality(Awaited(u))
                 /\ ~Cleared(s, p) => g[Len(loop[p])] = Cardinality(Awaited(u))
    BY <2>2, <2>4 DEF Watching, Tallied
  <2>8. g[Len(loop[p])] = Shown(told[s])
    <3>1. Len(<<>>) = 0
      OBVIOUS
    <3> QED BY <2>3, <2>7, <3>1 DEF Counts
  <2>9. Badge(s) = Shown(told[s])
    BY DEF Badge, Shown
  <2> QED BY <2>4, <2>6, <2>7, <2>8, <2>9 DEF Cleared
<1> QED BY <1>1, WatchAlways, DbAlways, PTL
=============================================================================
