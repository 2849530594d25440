-------------------------------- MODULE Feed --------------------------------
(***************************************************************************)
(* Notifications and their way to the browser: NotificationService, the    *)
(* calls to it in TicketService and in SlaMonitor, and ConnectionManager   *)
(* (core/ws_manager.py), whose every process has an event loop that writes *)
(* to the sockets it holds and a subscription to one Redis channel.        *)
(*                                                                         *)
(* A notification is inserted and pushed by the transaction that causes    *)
(* it, before it commits.  A request is therefore three steps here: _load, *)
(* the work up to commit(), and commit().  In between, others commit,      *)
(* processes restart and Redis goes away.  There is one ticket; what an    *)
(* operation does to it comes from TicketOps.  A browser is what it has    *)
(* been sent: its badge is a fold over that (useNotificationSocket.tsx).   *)
(***************************************************************************)
EXTENDS TicketOps, FiniteSetsExt, SequencesExt

CONSTANTS
  Processes,        \* API processes and the Celery worker
  Worker,           \* the one that has no event loop
  Sockets,          \* WebSocket connections that may be made, each once
  OwnerOf, HeldBy,  \* socket -> its user, and the API process it is made to
  Requests,         \* transactions that may be open at once
  DedupTicks,       \* NOTIFY_DEDUP_MINUTES, 5 minutes in the code
  Deployments       \* choices of the ticket at the start, of the users and processes, of
                    \* the sockets open at the start, of what users and faults may do,
                    \* and of the bounds

ASSUME ProcessesAssumption ==
  IsFiniteSet(Processes) /\ Worker \in Processes /\ HeldBy \in [Sockets -> Processes \ {Worker}]
ASSUME OwnersAssumption == OwnerOf \in [Sockets -> Users]
ASSUME FeedUsersAssumption == IsFiniteSet(Users)
ASSUME DedupAssumption == DedupTicks \in Nat
ASSUME FeedDeploymentsAssumption ==
  Deployments \subseteq
    [row : Row, users : SUBSET Users, processes : SUBSET Processes, sockets : SUBSET Sockets, open : SUBSET Sockets,
     requests : SUBSET Requests, does : SUBSET {"assign", "status", "comment", "scan", "read"},
     faults : SUBSET {"drop", "redis", "commit", "restart"},
     maxNotes : Nat, maxVersion : Nat, maxTime : Nat, maxFaults : Nat]

\* A socket is made to a process that runs.
ASSUME PagesAssumption ==
  \A d \in Deployments : d.open \subseteq d.sockets /\ \A s \in d.sockets : HeldBy[s] \in d.processes

NotificationType ==
  {"TICKET_ASSIGNED", "TICKET_STATUS_CHANGED", "TICKET_COMMENTED", "TICKET_RESOLVED",
   "RATING_REQUESTED", "SLA_BREACHED"}
Call == [user : Users, type : NotificationType]
Note ==
  [user : Users, type : NotificationType, at : Nat, checked : Nat, read : BOOLEAN,
   state : {"pending", "committed", "gone"}, from : Processes, watchers : SUBSET Sockets]
Event    == [event : {"new", "read", "read_all"}, user : Users, id : Nat]
Envelope == [origin : Processes, event : Event]
Operation ==
  [actor : OrNone(Users), kind : {"assign", "status", "comment", "scan"},
   outcome : OutcomeType, calls : SUBSET Call]
Transaction ==
  [step : Operation, process : Processes, at : Nat, phase : {"loaded", "worked"},
   notes : SUBSET Nat]

ASSUME NullTransactionAssumption == None \notin Transaction

VARIABLES
  deployment,  \* one of Deployments, chosen once
  now,
  row,         \* the ticket
  breached,    \* its sla_breached_at is set
  notes,       \* every notification ever inserted, by id, with what became of it
  tx,          \* the open transactions, None where there is none
  reading,     \* the pushes that mark_read and mark_all_read owe after their commit
  socket,      \* socket -> "unused", "open", "dropped" (the server does not know yet), "closed"
  told,        \* socket -> the events that were written to it
  loop,        \* process -> the coroutines scheduled on its event loop, in order
  channel,     \* process -> what Redis has for its subscription, in order
  listening,   \* the processes whose subscription is alive
  resting,     \* the processes that do not try to publish (_pub_retry_after)
  redis,       \* Redis answers
  announced,   \* history: the calls of notify() of committed transactions
  faults       \* the faults that have happened

vars == <<deployment, now, row, breached, notes, tx, reading, socket, told, loop, channel,
          listening, resting, redis, announced, faults>>

dbVars   == <<row, breached, notes, announced>>
pushVars == <<loop, channel, resting>>

Api     == deployment.processes \ {Worker}
Does(a) == a \in deployment.does
Admins  == {u \in Users : Role[u] = "ADMIN"}

-----------------------------------------------------------------------------
(***************************************************************************)
(* Who is told what: the calls of notify() that each operation makes, as   *)
(* pairs of a recipient and a type.                                        *)
(***************************************************************************)
Tell(recipients, type) == {[user |-> u, type |-> type] : u \in recipients \ {None}}

\* Is this the moment to ask for a rating?
JustBecameRateable(old, new) ==
  new = "RESOLVED" \/ (new = "CLOSED" /\ old # "RESOLVED")

\* _notify_status_change.
NotifyStatusChange(x) ==
  LET r == x.new.requester
      a == x.new.assignee
  IN  (IF x.new.status = "RESOLVED"
         THEN Tell({r}, "TICKET_RESOLVED") \cup Tell({a}, "TICKET_STATUS_CHANGED")
         ELSE Tell({r, a}, "TICKET_STATUS_CHANGED"))
      \cup (IF JustBecameRateable(x.base.status, x.new.status)
              THEN Tell({r}, "RATING_REQUESTED") ELSE {})

\* _notify_comment: BR-10 keeps internal comments from the requester.
NotifyComment(x, internal) ==
  Tell({x.new.assignee} \cup (IF internal THEN {} ELSE {x.new.requester}), "TICKET_COMMENTED")

Step(u, kind, x, calls) == [actor |-> u, kind |-> kind, outcome |-> x, calls |-> calls]

\* What a request of u may be, as the ticket is when it loads it.
Steps(u) ==
  (IF Does("assign")
     THEN {Step(u, "assign", x, Tell({x.new.assignee}, "TICKET_ASSIGNED")) :
             x \in Claims(u, row) \cup Assigns(u, row)} ELSE {})
  \cup (IF Does("status")
     THEN {Step(u, "status", x, NotifyStatusChange(x)) : x \in StatusChanges(u, now, row)}
     ELSE {})
  \cup (IF Does("comment") /\ CanView(u, row)
     THEN {LET x == Commented(u, now, row, i)
           IN  Step(u, "comment", x, NotifyComment(x, i /\ Role[u] \in AGENT_ADMIN)) :
             i \in BOOLEAN} ELSE {})

\* SlaMonitor.run on the ticket when it is found breached and was not reported before.
Scan ==
  Step(None, "scan", Outcome(row, row, TRUE, Quiet),
       Tell({row.assignee} \cup Admins, "SLA_BREACHED"))

\* Mutant of Recent: a memory of what was sent, instead of the rows that are visible.
RecentOfAll(call) ==
  \E i \in DOMAIN notes :
    /\ notes[i].user = call.user /\ notes[i].type = call.type
    /\ notes[i].at >= now - DedupTicks

\* Mutant of Recent: nothing is compared.
RecentNever(call) == FALSE

\* exists_recent: READ COMMITTED, so only what others have committed.
Recent(call) ==
  \E i \in DOMAIN notes :
    /\ notes[i].state = "committed"
    /\ notes[i].user = call.user /\ notes[i].type = call.type
    /\ notes[i].at >= now - DedupTicks

\* The calls that insert: not for oneself (BR-18), and no repetition.
Addressed(step) == {c \in step.calls : c.user # step.actor}
Inserts(step)   == {c \in Addressed(step) : ~Recent(c)}

Unread(u) ==
  {i \in DOMAIN notes : notes[i].user = u /\ notes[i].state = "committed" /\ ~notes[i].read}

-----------------------------------------------------------------------------
(***************************************************************************)
(* ConnectionManager.                                                      *)
(***************************************************************************)
Registered(p, u) ==
  {s \in Sockets : socket[s] \in {"open", "dropped"} /\ HeldBy[s] = p /\ OwnerOf[s] = u}

\* What Redis hands on when this process publishes these events.
Published(p, events) ==
  [q \in Processes |->
     IF q \in listening
       THEN channel[q] \o [i \in DOMAIN events |-> [origin |-> p, event |-> events[i]]]
       ELSE channel[q]]

\* Mutant of Push: without an event loop there is nobody to push to.
PushFromLoopOnly(p, events) ==
  IF p = Worker THEN UNCHANGED pushVars
  ELSE /\ loop' = [loop EXCEPT ![p] = @ \o events]
       /\ channel' = IF redis /\ p \notin resting THEN Published(p, events) ELSE channel
       /\ resting' = IF events # <<>> /\ ~redis THEN resting \cup {p} ELSE resting

\* notify_sync, for each event in turn: schedule it on the own loop, if there is one, and
\* publish it for the others.  A publisher that fails rests before it tries again.
Push(p, events) ==
  /\ loop' = IF p = Worker THEN loop ELSE [loop EXCEPT ![p] = @ \o events]
  /\ channel' = IF redis /\ p \notin resting THEN Published(p, events) ELSE channel
  /\ resting' = IF events # <<>> /\ ~redis THEN resting \cup {p} ELSE resting

\* _deliver_local: a socket that cannot be written to is forgotten.
DeliverLocal(p, e) ==
  /\ told' = [s \in Sockets |-> IF s \in Registered(p, e.user) /\ socket[s] = "open"
                                  THEN Append(told[s], e) ELSE told[s]]
  /\ socket' = [s \in Sockets |-> IF s \in Registered(p, e.user) /\ socket[s] = "dropped"
                                    THEN "closed" ELSE socket[s]]

Deliver(p) ==
  /\ loop[p] # <<>>
  /\ DeliverLocal(p, Head(loop[p]))
  /\ loop' = [loop EXCEPT ![p] = Tail(@)]
  /\ UNCHANGED <<deployment, now, dbVars, tx, reading, channel, listening, resting, redis, faults>>

\* Mutant of IsOwn: an envelope says nothing of where it comes from.
IsOwnUnknown(p, envelope) == FALSE

IsOwn(p, envelope) == envelope.origin = p

\* The listener takes the next message; its own it has delivered already.
Listen(p) ==
  /\ channel[p] # <<>>
  /\ IF IsOwn(p, Head(channel[p])) THEN UNCHANGED <<socket, told>>
     ELSE DeliverLocal(p, Head(channel[p]).event)
  /\ channel' = [channel EXCEPT ![p] = Tail(@)]
  /\ UNCHANGED <<deployment, now, dbVars, tx, reading, loop, listening, resting, redis, faults>>

\* The five seconds are over.
Rested(p) ==
  /\ p \in resting
  /\ resting' = resting \ {p}
  /\ UNCHANGED <<deployment, now, dbVars, tx, reading, socket, told, loop, channel, listening,
                 redis, faults>>

\* notifications_ws: accept and register.
Connect(s) ==
  /\ s \in deployment.sockets /\ socket[s] = "unused"
  /\ socket' = [socket EXCEPT ![s] = "open"]
  /\ UNCHANGED <<deployment, now, dbVars, tx, reading, told, pushVars, listening, redis, faults>>

\* WebSocketDisconnect reaches the handler, which unregisters.
Unregister(s) ==
  /\ socket[s] = "dropped"
  /\ socket' = [socket EXCEPT ![s] = "closed"]
  /\ UNCHANGED <<deployment, now, dbVars, tx, reading, told, pushVars, listening, redis, faults>>

-----------------------------------------------------------------------------
(***************************************************************************)
(* Requests and the scan.                                                  *)
(***************************************************************************)
Open(r) == tx[r] # None

\* The notifications that this step and the open transactions may still insert.
Planned(step) ==
  FoldSet(LAMBDA q, n : n + Cardinality(Addressed(tx[q].step)), Cardinality(Addressed(step)),
          {q \in Requests : Open(q) /\ tx[q].phase = "loaded"})

\* _load, and every check that looks at what was loaded.
Load(r) ==
  /\ r \in deployment.requests /\ ~Open(r)
  /\ row.version < deployment.maxVersion
  /\ \E p \in deployment.processes :
       \E s \in (IF p = Worker THEN (IF Does("scan") /\ ~breached THEN {Scan} ELSE {})
                 ELSE UNION {Steps(u) : u \in deployment.users}) :
         /\ Len(notes) + Planned(s) <= deployment.maxNotes
         /\ tx' = [tx EXCEPT ![r] = [step |-> s, process |-> p, at |-> now,
                                     phase |-> "loaded", notes |-> {}]]
  /\ UNCHANGED <<deployment, now, dbVars, reading, socket, told, pushVars, listening, redis, faults>>

\* Mutant of FlushedFirst: notify() leaves the flush to commit().
FlushedNever(step) == FALSE

\* notify() flushes the session before it pushes: the UPDATE of the ticket goes with it and
\* compares versions then.  SlaMonitor changes its ticket only after the call.
FlushedFirst(step) == step.outcome.dirty /\ step.kind # "scan"

\* Another transaction has updated the ticket and is still open: its row lock is waited for.
Locked(r) == \E q \in Requests \ {r} :
               Open(q) /\ tx[q].phase = "worked" /\ FlushedFirst(tx[q].step)

Stale(x) == x.base.version # row.version \/ ~CheckConstraints(x.new)

\* What it inserts, and pushes.
New(r) == SetToSeq(Inserts(tx[r].step))

NewNotes(r) ==
  [i \in DOMAIN New(r) |->
     [user |-> New(r)[i].user, type |-> New(r)[i].type, at |-> tx[r].at, checked |-> now,
      read |-> FALSE, state |-> "pending", from |-> tx[r].process,
      watchers |-> {s \in Sockets : socket[s] = "open" /\ OwnerOf[s] = New(r)[i].user}]]

NewEvents(r) ==
  [i \in DOMAIN New(r) |-> [event |-> "new", user |-> New(r)[i].user, id |-> Len(notes) + i]]

\* The rest of the operation: insert, push, and the row itself.
Work(r) ==
  /\ Open(r) /\ tx[r].phase = "loaded"
  /\ FlushedFirst(tx[r].step) => ~Locked(r) /\ ~Stale(tx[r].step.outcome)
  /\ notes' = notes \o NewNotes(r)
  /\ tx' = [tx EXCEPT ![r] = [@ EXCEPT !.phase = "worked",
                                       !.notes = Len(notes) + 1..Len(notes) + Len(New(r))]]
  /\ Push(tx[r].process, NewEvents(r))
  /\ UNCHANGED <<deployment, now, row, breached, reading, socket, told, listening, redis,
                 announced, faults>>

\* The transaction is rolled back, and what it inserted with it.
RolledBack(r) ==
  /\ tx' = [tx EXCEPT ![r] = None]
  /\ notes' = [i \in DOMAIN notes |->
                 IF i \in tx[r].notes THEN [notes[i] EXCEPT !.state = "gone"] ELSE notes[i]]

\* StaleDataError, or a CHECK constraint: 409, or the scan fails as a whole.
Conflict(r) ==
  /\ Open(r) /\ tx[r].step.outcome.dirty
  /\ tx[r].phase = (IF FlushedFirst(tx[r].step) THEN "loaded" ELSE "worked")
  /\ ~Locked(r) /\ Stale(tx[r].step.outcome)
  /\ RolledBack(r)
  /\ UNCHANGED <<deployment, now, row, breached, reading, socket, told, pushVars, listening, redis,
                 announced, faults>>

Commit(r) ==
  /\ Open(r) /\ tx[r].phase = "worked"
  /\ LET step == tx[r].step
         x    == step.outcome
     IN  /\ x.dirty /\ ~FlushedFirst(step) => ~Locked(r) /\ ~Stale(x)
         /\ row' = IF x.dirty THEN [x.new EXCEPT !.version = @ + 1] ELSE row
         /\ breached' = (breached \/ step.kind = "scan")
         /\ announced' = announced \cup
              {[user |-> c.user, type |-> c.type, since |-> tx[r].at - DedupTicks] :
                 c \in Addressed(step)}
  /\ notes' = [i \in DOMAIN notes |->
                 IF i \in tx[r].notes THEN [notes[i] EXCEPT !.state = "committed"] ELSE notes[i]]
  /\ tx' = [tx EXCEPT ![r] = None]
  /\ UNCHANGED <<deployment, now, reading, socket, told, pushVars, listening, redis, faults>>

-----------------------------------------------------------------------------
(***************************************************************************)
(* Reading.                                                                *)
(***************************************************************************)
Owe(p, u, event, i) == reading' = reading \cup {[process |-> p, user |-> u, event |-> event, id |-> i]}

\* Mutant of MarkRead: pushes even when the UPDATE found nothing unread.
MarkReadAgain(p, u, i) ==
  /\ Does("read") /\ i \in DOMAIN notes /\ notes[i].user = u /\ notes[i].state = "committed"
  /\ notes' = [notes EXCEPT ![i].read = TRUE]
  /\ Owe(p, u, "read", i)
  /\ UNCHANGED <<deployment, now, row, breached, tx, socket, told, pushVars, listening, redis,
                 announced, faults>>

\* mark_read, up to its commit.  One that is read already, or somebody else's, is not found
\* by the UPDATE, and nothing follows.
MarkRead(p, u, i) ==
  /\ Does("read") /\ i \in Unread(u)
  /\ notes' = [notes EXCEPT ![i].read = TRUE]
  /\ Owe(p, u, "read", i)
  /\ UNCHANGED <<deployment, now, row, breached, tx, socket, told, pushVars, listening, redis,
                 announced, faults>>

MarkAllRead(p, u) ==
  /\ Does("read") /\ Unread(u) # {}
  /\ notes' = [i \in DOMAIN notes |->
                 IF i \in Unread(u) THEN [notes[i] EXCEPT !.read = TRUE] ELSE notes[i]]
  /\ Owe(p, u, "read_all", 0)
  /\ UNCHANGED <<deployment, now, row, breached, tx, socket, told, pushVars, listening, redis,
                 announced, faults>>

\* ... and the push after it.
ReadPushed ==
  \E o \in reading :
    /\ reading' = reading \ {o}
    /\ Push(o.process, <<[event |-> o.event, user |-> o.user, id |-> o.id]>>)
    /\ UNCHANGED <<deployment, now, dbVars, tx, socket, told, listening, redis, faults>>

-----------------------------------------------------------------------------
(***************************************************************************)
(* Faults, and time.                                                       *)
(***************************************************************************)
Fault(kind) ==
  /\ kind \in deployment.faults
  /\ Len(faults) < deployment.maxFaults
  /\ faults' = Append(faults, kind)

\* The browser goes away, or its network does.
Drop(s) ==
  /\ Fault("drop") /\ socket[s] = "open"
  /\ socket' = [socket EXCEPT ![s] = "dropped"]
  /\ UNCHANGED <<deployment, now, dbVars, tx, reading, told, pushVars, listening, redis>>

\* Every subscription ends in an exception, and its listener with it: for good.
RedisDown ==
  /\ Fault("redis") /\ redis
  /\ redis' = FALSE
  /\ listening' = {}
  /\ channel' = [p \in Processes |-> <<>>]
  /\ UNCHANGED <<deployment, now, dbVars, tx, reading, socket, told, loop, resting>>

RedisUp ==
  /\ ~redis
  /\ redis' = TRUE
  /\ UNCHANGED <<deployment, now, dbVars, tx, reading, socket, told, pushVars, listening, faults>>

\* COMMIT fails, or the connection does before it.
CommitFails(r) ==
  /\ Fault("commit") /\ Open(r) /\ tx[r].phase = "worked"
  /\ RolledBack(r)
  /\ UNCHANGED <<deployment, now, row, breached, reading, socket, told, pushVars, listening, redis,
                 announced>>

\* An API process dies and starts again: its sockets, its loop and its transactions are gone,
\* and lifespan() tries to subscribe once.
Restart(p) ==
  /\ Fault("restart") /\ p \in Api
  /\ LET lost == {r \in Requests : Open(r) /\ tx[r].process = p}
     IN  /\ tx' = [r \in Requests |-> IF r \in lost THEN None ELSE tx[r]]
         /\ notes' = [i \in DOMAIN notes |->
                        IF i \in UNION {tx[r].notes : r \in lost}
                          THEN [notes[i] EXCEPT !.state = "gone"] ELSE notes[i]]
  /\ reading' = {o \in reading : o.process # p}
  /\ socket' = [s \in Sockets |-> IF HeldBy[s] = p /\ socket[s] \in {"open", "dropped"}
                                    THEN "closed" ELSE socket[s]]
  /\ loop' = [loop EXCEPT ![p] = <<>>]
  /\ channel' = [channel EXCEPT ![p] = <<>>]
  /\ listening' = IF redis THEN listening \cup {p} ELSE listening \ {p}
  /\ resting' = resting \ {p}
  /\ UNCHANGED <<deployment, now, row, breached, told, redis, announced>>

Tick ==
  /\ now < deployment.maxTime
  /\ now' = now + 1
  /\ UNCHANGED <<deployment, dbVars, tx, reading, socket, told, pushVars, listening, redis, faults>>

-----------------------------------------------------------------------------
Init ==
  /\ deployment \in Deployments
  /\ now = 0
  /\ row = deployment.row /\ breached = FALSE
  /\ notes = <<>> /\ announced = {}
  /\ tx = [r \in Requests |-> None]
  /\ reading = {}
  /\ socket = [s \in Sockets |-> IF s \in deployment.open THEN "open" ELSE "unused"]
  /\ told = [s \in Sockets |-> <<>>]
  /\ loop = [p \in Processes |-> <<>>]
  /\ channel = [p \in Processes |-> <<>>]
  /\ listening = Api
  /\ resting = {} /\ redis = TRUE
  /\ faults = <<>>

Next ==
  \/ \E r \in Requests : Load(r) \/ Work(r) \/ Conflict(r) \/ Commit(r) \/ CommitFails(r)
  \/ \E p \in Api, u \in Users : MarkAllRead(p, u) \/ \E i \in DOMAIN notes : MarkRead(p, u, i)
  \/ ReadPushed
  \/ \E s \in Sockets : Connect(s) \/ Drop(s) \/ Unregister(s)
  \/ \E p \in Processes : Deliver(p) \/ Listen(p) \/ Rested(p) \/ Restart(p)
  \/ RedisDown \/ RedisUp
  \/ Tick

Spec == Init /\ [][Next]_vars

-----------------------------------------------------------------------------
Told(s, i) == \E k \in DOMAIN told[s] : told[s][k].event = "new" /\ told[s][k].id = i

\* A browser is written to by its process's loop and by that process's listener, and two
\* paths lead to it: still no notification is shown on it twice.
ToldOnce ==
  \A s \in Sockets : \A k, l \in DOMAIN told[s] :
    told[s][k].event = "new" /\ told[s][l].event = "new" /\ told[s][k].id = told[s][l].id
      => k = l

\* US-33: however requests overlap, nobody gets two notifications of a change of status of
\* one ticket within the deduplication window.  (Two of comments are possible: nothing
\* makes their transactions collide.)
StatusAnnouncedOnce ==
  \A i, j \in DOMAIN notes :
    /\ i < j /\ notes[i].state = "committed" /\ notes[j].state = "committed"
    /\ notes[i].user = notes[j].user /\ notes[i].type = notes[j].type
    /\ notes[i].type \in {"TICKET_STATUS_CHANGED", "TICKET_RESOLVED", "RATING_REQUESTED"}
    => notes[j].checked - notes[i].at > DedupTicks

\* Deduplication hides nothing: whoever was to be told of something that was committed has a
\* notification of that type that is not older than the window.
NothingHidden ==
  \A a \in announced : \E i \in DOMAIN notes :
    /\ notes[i].state = "committed"
    /\ notes[i].user = a.user /\ notes[i].type = a.type
    /\ notes[i].at >= a.since

-----------------------------------------------------------------------------
\* patchUnreadCount: what the badge shows after what the browser was sent.
AfterEvent(count, e) ==
  CASE e.event = "new"      -> count + 1
    [] e.event = "read"     -> IF count = 0 THEN 0 ELSE count - 1
    [] e.event = "read_all" -> 0

Badge(s) == FoldLeft(AfterEvent, 0, told[s])

\* Nothing is on its way.
Delivered ==
  /\ \A r \in Requests : Open(r) => tx[r].phase = "loaded"
  /\ reading = {}
  /\ \A p \in Processes : loop[p] = <<>> /\ channel[p] = <<>>

\* In a deployment of one process, without the worker's scan and without faults, a page that
\* was open all the time and only watches shows the unread notifications of its user: never
\* more than there are, and as many unless somebody has marked all as read, which may hide
\* one that was pushed and not committed then.
BadgeRight ==
  deployment.faults = {} /\ Cardinality(Api) = 1 /\ ~Does("scan") =>
    \A s \in deployment.open : Delivered =>
      /\ Badge(s) <= Cardinality(Unread(OwnerOf[s]))
      /\ (\A k \in DOMAIN told[s] : told[s][k].event # "read_all")
           => Badge(s) = Cardinality(Unread(OwnerOf[s]))

\* Somebody's page was open when this notification was pushed, and has not been told.  Redis
\* is needed only for pages that another process holds.
Owed(s, i) ==
  /\ notes[i].state = "committed" /\ s \in notes[i].watchers
  /\ socket[s] = "open"
  /\ HeldBy[s] = notes[i].from \/ \A k \in DOMAIN faults : faults[k] # "redis"
  /\ ~Told(s, i)

\* ADR-0009: when everything is delivered, a page that is open has been told, wherever the
\* notification was made; without Redis, when its own process made it.
OpenPagesAreTold ==
  Delivered => \A s \in Sockets, i \in DOMAIN notes : ~Owed(s, i)
=============================================================================
