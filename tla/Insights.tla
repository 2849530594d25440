------------------------------ MODULE Insights ------------------------------
(***************************************************************************)
(* What the operations of TicketService look like afterwards: the ratings  *)
(* of US-41, the dashboards of US-37 to US-42 and the suggestion of an     *)
(* assignee (US-20), all computed from the rows and the journal that other *)
(* requests go on writing.                                                 *)
(*                                                                         *)
(* Operations on tickets are one step here (AtomicTickets says why), and   *)
(* the clock ticks in a unit of its own.  The overview is the one report   *)
(* that is a process: six queries, each of which sees what is committed by *)
(* then (READ COMMITTED), and a cache in Redis.  The other reports are     *)
(* operators on the state.                                                 *)
(***************************************************************************)
EXTENDS TicketOps, FiniteSetsExt, SequencesExt

CONSTANTS
  Tickets,
  Deployments,      \* choices of tickets, of who opens and who works on them, of the
                    \* bounds on time and on status changes, and of what else goes on
  SlaTicks,         \* priority -> time to resolution
  Scores,           \* scores given, 1..5 in the code
  EditTicks,        \* RATING_EDIT_WINDOW_HOURS
  AskedWindows,     \* the pairs of from and to (or None) that are asked for
  DefaultWindow,    \* DEFAULT_WINDOW_DAYS
  MonthTicks,       \* a month
  CacheTTL,         \* CACHE_TTL_SECONDS
  Skill,            \* agent -> category -> level of agent_skills, 0 if there is none
  LastLogin,        \* agent -> last_login_at or None
  BusinessTicks,    \* the clock values in business hours, SlaClock's subject
  NameOrder,        \* the accounts by full_name
  SuggestMaxLoad, SuggestTopN, DutyTicks

ASSUME DeploymentsAssumption ==
  Deployments \subseteq [tickets : SUBSET Tickets, requesters : SUBSET Users,
                        staff : SUBSET Users, maxTime : Nat, maxEvents : Nat,
                        pages : SUBSET {"triage", "ratings", "overview", "accounts"}]
ASSUME SettingsAssumption ==
  /\ MonthTicks \in Nat \ {0} /\ CacheTTL \in Nat \ {0} /\ DefaultWindow \in Nat
  /\ SuggestMaxLoad \in Nat \ {0} /\ SuggestTopN \in Nat \ {0}
ASSUME TablesAssumption ==
  IsFiniteSet(Users) /\ IsFiniteSet(Tickets) /\ IsFiniteSet(Categories) /\ IsFiniteSet(Priorities)
ASSUME WindowsAssumption == AskedWindows \subseteq [from : OrNone(Nat), to : OrNone(Nat)]
ASSUME SkillsAssumption == Skill \in [Users -> [Categories -> Nat]]
ASSUME NamesAssumption == \A u \in Users : \E i \in 1..Len(NameOrder) : NameOrder[i] = u

VARIABLES
  deployment,  \* one of Deployments, chosen once
  now,
  rows,        \* the tickets table; None where no ticket has been created
  createdAt,   \* ticket -> created_at
  statusLog,   \* ticket -> its STATUS_CHANGED events, by created_at and id
  active,      \* the accounts that are not locked
  rating,      \* ticket -> its row of ticket_ratings, None without one
  draft,       \* the rating that is being created, None without one
  view,        \* the overview that is being computed, None without one
  cache,       \* the overviews Redis keeps; of their figures nothing is said any more
  waited,      \* history: ticket -> the ticks it has waited for its requester
  resolvers    \* history: ticket -> who had it when it was resolved

vars == <<deployment, now, rows, createdAt, statusLog, active, rating, draft, view, cache,
          waited, resolvers>>

ticketVars == <<rows, createdAt, statusLog, waited, resolvers>>
pageVars   == <<rating, draft, view, cache>>

InUse(page) == page \in deployment.pages
Created(t)  == rows[t] # None
Present     == {t \in Tickets : Created(t)}
OPEN_STATUSES == TicketStatus \ {"RESOLVED", "CLOSED", "CANCELLED"}
Open(t)     == Created(t) /\ rows[t].status \in OPEN_STATUSES
DueAt(t)    == createdAt[t] + SlaTicks[rows[t].slaFor]

-----------------------------------------------------------------------------
(***************************************************************************)
(* The tickets.                                                            *)
(***************************************************************************)
\* The overview at work learns, for the record, which tickets change under it.
Changed(S) ==
  view' = IF view = None THEN None ELSE [view EXCEPT !.changed = @ \cup S]

Create(u, t) ==
  /\ u \in deployment.requesters /\ t \in deployment.tickets /\ ~Created(t)
  /\ \E c \in OrNone(Categories), p \in Priorities :
       rows' = [rows EXCEPT ![t] = NewTicket(u, c, p)]
  /\ createdAt' = [createdAt EXCEPT ![t] = now]
  /\ Changed({t})
  /\ UNCHANGED <<deployment, now, statusLog, active, rating, draft, cache, waited,
                 resolvers>>

\* An outcome of TicketOps is committed: the row, and the STATUS_CHANGED event if any.
Edit(u, t) ==
  /\ u \in deployment.requesters \cup deployment.staff
  /\ Created(t)
  /\ \E x \in (IF InUse("triage") THEN Updates(u, rows[t]) ELSE {})
               \cup Claims(u, rows[t]) \cup Assigns(u, rows[t])
               \cup StatusChanges(u, now, rows[t]) :
       /\ x.dirty /\ CheckConstraints(x.new)
       /\ rows' = [rows EXCEPT ![t] = x.new]
       /\ IF x.events.status = Silent THEN UNCHANGED statusLog
          ELSE /\ Len(statusLog[t]) < deployment.maxEvents
               /\ statusLog' = [statusLog EXCEPT ![t] =
                                  Append(@, [at |-> now, to |-> x.events.status.new])]
       /\ resolvers' = IF x.new.status = "RESOLVED"
                       THEN [resolvers EXCEPT ![t] = @ \cup {x.new.assignee}] ELSE resolvers
  /\ Changed({t})
  /\ UNCHANGED <<deployment, now, createdAt, active, rating, draft, cache, waited>>

\* set_active, of UserAdmin, on those whose accounts matter here.
SetActive(u) ==
  /\ InUse("accounts") /\ Role[u] = "IT_AGENT"
  /\ active' = IF u \in active THEN active \ {u} ELSE active \cup {u}
  /\ UNCHANGED <<deployment, now, ticketVars, pageVars>>

Tick ==
  /\ now < deployment.maxTime
  /\ now' = now + 1
  /\ waited' = [t \in Tickets |->
       IF Created(t) /\ rows[t].status = "PENDING_REQUESTER" THEN waited[t] + 1 ELSE waited[t]]
  /\ cache' = {e \in cache : now' < e.until}
  /\ UNCHANGED <<deployment, rows, createdAt, statusLog, active, rating, draft, view, resolvers>>

-----------------------------------------------------------------------------
(***************************************************************************)
(* Ratings.                                                                *)
(***************************************************************************)
\* create of FeedbackService up to its INSERT: the requester, a ticket that is done
\* and has no rating; the assignee is copied from the row that was read.
RateBegin(u, t, score) ==
  /\ InUse("ratings") /\ draft = None
  /\ Created(t) /\ rows[t].requester = u
  /\ rows[t].status \in {"RESOLVED", "CLOSED"}
  /\ rating[t] = None
  /\ draft' = [ticket |-> t, agent |-> rows[t].assignee, score |-> score]
  /\ UNCHANGED <<deployment, now, ticketVars, active, rating, view, cache>>

\* Its commit, unless the other of two clicks was faster: ticket_id is UNIQUE.
RateCommit ==
  /\ draft # None
  /\ rating' = IF rating[draft.ticket] # None THEN rating
               ELSE [rating EXCEPT ![draft.ticket] =
                       [agent |-> draft.agent, score |-> draft.score, at |-> now]]
  /\ draft' = None
  /\ UNCHANGED <<deployment, now, ticketVars, active, view, cache>>

\* is_editable.
IsEditable(r) == now - r.at < EditTicks

\* update of FeedbackService, in any status of the ticket.
Rerate(u, t, score) ==
  /\ Created(t) /\ rows[t].requester = u
  /\ rating[t] # None /\ IsEditable(rating[t])
  /\ rating' = [rating EXCEPT ![t].score = score]
  /\ UNCHANGED <<deployment, now, ticketVars, active, draft, view, cache>>

-----------------------------------------------------------------------------
(***************************************************************************)
(* The overview and its cache.                                             *)
(***************************************************************************)
Within(at, w) == w.from <= at /\ at <= w.to

\* resolve_window: a reversed pair is turned round.
ResolveWindow(q) ==
  LET end   == IF q.to = None THEN now ELSE q.to
      start == IF q.from = None THEN end - DefaultWindow ELSE q.from
  IN  IF start > end THEN [from |-> end, to |-> start] ELSE [from |-> start, to |-> end]

\* Mutant of WindowKey: only the end of the window is in the key.
WindowKeyEnd(w) == w.to - (w.to % CacheTTL)

\* window_key: both ends rounded down to a multiple of the TTL.
WindowKey(w) == <<w.from - (w.from % CacheTTL), w.to - (w.to % CacheTTL)>>

\* Past its due date and not resolved, or resolved after it.
Late(t, at) ==
  IF rows[t].resolvedAt = None THEN DueAt(t) < at ELSE rows[t].resolvedAt > DueAt(t)

\* Mutant of Unassigned: the tickets nobody has to work on any more are counted too.
UnassignedEver(t) == rows[t].assignee = None

Unassigned(t) == rows[t].assignee = None /\ Open(t)

NumberOf(S) == Cardinality(S)

\* The six queries in the order of the code, each with what it adds to the report.  The
\* database's now() is the begin of the transaction.
Queries == <<"by_status", "by_priority", "by_category", "breached", "unassigned", "daily">>

Answer(query, w, began) ==
  LET S == {t \in Present : Within(createdAt[t], w)}
  IN  CASE query = "by_status"   -> [s \in TicketStatus |-> NumberOf({t \in S : rows[t].status = s})]
        [] query = "by_priority" -> [p \in Priorities |-> NumberOf({t \in S : rows[t].priority = p})]
        [] query = "by_category" -> [c \in OrNone(Categories) |->
                                       NumberOf({t \in S : rows[t].category = c})]
        [] query = "breached"    -> NumberOf({t \in S : Late(t, began)})
        [] query = "unassigned"  -> NumberOf({t \in S : Unassigned(t)})
        [] query = "daily"       -> [d \in 0..deployment.maxTime |->
                                       NumberOf({t \in S : createdAt[t] = d})]

Total(counts, keys) == MapThenSumSet(LAMBDA k : counts[k], keys)

\* GET /reports/overview answers from an entry for its window, if Redis has one.
Hits(q) == {e \in cache : e.key = WindowKey(ResolveWindow(q))}

\* Without an entry, without Redis, or with refresh: the overview is computed.
Overview(q) ==
  /\ InUse("overview") /\ view = None
  /\ view' = [window |-> ResolveWindow(q), began |-> now, answers |-> <<>>, changed |-> {}]
  /\ UNCHANGED <<deployment, now, ticketVars, active, rating, draft, cache>>

Query ==
  /\ view # None /\ Len(view.answers) < Len(Queries)
  /\ view' = [view EXCEPT !.answers =
       Append(@, Answer(Queries[Len(@) + 1], view.window, view.began))]
  /\ UNCHANGED <<deployment, now, ticketVars, active, rating, draft, cache>>

\* Mutant of Entry: entries are kept for ever.
EntryForGood(w) ==
  [key |-> WindowKey(w), window |-> w, generatedAt |-> now, until |-> deployment.maxTime + 1]

\* SETEX.
Entry(w) ==
  [key |-> WindowKey(w), window |-> w, generatedAt |-> now, until |-> now + CacheTTL]

\* The answer, and the cache if Redis can be reached.
OverviewDone ==
  /\ view # None /\ Len(view.answers) = Len(Queries)
  /\ \/ cache' = {e \in cache : e.key # WindowKey(view.window)} \cup {Entry(view.window)}
     \/ UNCHANGED cache
  /\ view' = None
  /\ UNCHANGED <<deployment, now, ticketVars, active, rating, draft>>

-----------------------------------------------------------------------------
(***************************************************************************)
(* The reports that are one look at the database.                          *)
(***************************************************************************)
Pauses(t) == {i \in 1..Len(statusLog[t]) : statusLog[t][i].to = "PENDING_REQUESTER"}

\* Mutant of PauseEnd: a pause that is not over yet is not counted.
PauseEndIfOver(t, i) ==
  IF i < Len(statusLog[t]) THEN statusLog[t][i + 1].at ELSE statusLog[t][i].at

\* LEAD: the next change of status, else now.
PauseEnd(t, i) == IF i < Len(statusLog[t]) THEN statusLog[t][i + 1].at ELSE now

\* _pause_seconds_subquery.
PausedSeconds(t) ==
  Total([i \in Pauses(t) |-> PauseEnd(t, i) - statusLog[t][i].at], Pauses(t))

\* resolution_time, of one ticket.
ResolutionTime(t) ==
  LET seconds == rows[t].resolvedAt - createdAt[t] - PausedSeconds(t)
  IN  IF seconds > 0 THEN seconds ELSE 0

Agents == {u \in active : Role[u] = "IT_AGENT"}

ResolvedWithin(w) ==
  {t \in Present : rows[t].resolvedAt # None /\ Within(rows[t].resolvedAt, w)}

\* The tickets the ratings of which count for an agent.
RatingsOf(a, w) ==
  {t \in Tickets : rating[t] # None /\ rating[t].agent = a /\ Within(rating[t].at, w)}

\* Mutant of MyRatings: the ratings of the tickets an agent has now.
MyRatingsNow(a) == {t \in Tickets : rating[t] # None /\ rows[t].assignee = a}

\* list_my_ratings.
MyRatings(a) == {t \in Tickets : rating[t] # None /\ rating[t].agent = a}

\* agent_workload: what an agent has to do, and did in the window.
AgentWorkload(w) ==
  [a \in Agents |->
     LET mine     == {t \in Present : rows[t].assignee = a}
         resolved == mine \cap ResolvedWithin(w)
     IN  [open     |-> NumberOf({t \in mine : Open(t)}),
          urgent   |-> NumberOf({t \in mine : Open(t) /\ rows[t].priority = "URGENT"}),
          resolved |-> NumberOf(resolved),
          seconds  |-> Total([t \in resolved |-> ResolutionTime(t)], resolved),
          breached |-> NumberOf({t \in resolved : rows[t].resolvedAt > DueAt(t)}),
          ratings  |-> NumberOf(RatingsOf(a, w)),
          score    |-> Total([t \in RatingsOf(a, w) |-> rating[t].score], RatingsOf(a, w))]]

\* SatisfactionService: _closed_tickets_total's tickets, and those with a rating, are put
\* into a bucket for all, one for each agent (of the rating, or the ticket's assignee), for
\* each category the tickets have now, and for each month (of rating, or of resolving).
ClosedTickets(w) == {t \in ResolvedWithin(w) : rows[t].status \in {"RESOLVED", "CLOSED"}}
RatedTickets(w)  == {t \in Tickets : rating[t] # None /\ Within(rating[t].at, w)}

SatisfactionBucket(rated, closed) ==
  [ratings      |-> NumberOf(rated),
   distribution |-> [s \in Scores |-> NumberOf({t \in rated : rating[t].score = s})],
   closed       |-> NumberOf(closed)]

Overall(w) == SatisfactionBucket(RatedTickets(w), ClosedTickets(w))

SatisfactionByAgent(w) ==
  [a \in ({rating[t].agent : t \in RatedTickets(w)} \cup {rows[t].assignee : t \in ClosedTickets(w)})
          \ {None} |->
     SatisfactionBucket(RatingsOf(a, w), {t \in ClosedTickets(w) : rows[t].assignee = a})]

SatisfactionByCategory(w) ==
  [c \in {rows[t].category : t \in RatedTickets(w) \cup ClosedTickets(w)} |->
     SatisfactionBucket({t \in RatedTickets(w) : rows[t].category = c},
                        {t \in ClosedTickets(w) : rows[t].category = c})]

Month(at) == at \div MonthTicks

SatisfactionByMonth(w) ==
  [n \in {Month(rating[t].at) : t \in RatedTickets(w)}
          \cup {Month(rows[t].resolvedAt) : t \in ClosedTickets(w)} |->
     SatisfactionBucket({t \in RatedTickets(w) : Month(rating[t].at) = n},
                        {t \in ClosedTickets(w) : Month(rows[t].resolvedAt) = n})]

-----------------------------------------------------------------------------
(***************************************************************************)
(* Suggestions.                                                            *)
(***************************************************************************)
Weight(t) ==
  CASE rows[t].priority = "URGENT" -> 4
    [] rows[t].priority = "HIGH"   -> 3
    [] rows[t].priority = "MEDIUM" -> 2
    [] OTHER                       -> 1

\* is_on_duty.
IsOnDuty(a) ==
  now \in BusinessTicks /\ LastLogin[a] # None /\ now - LastLogin[a] <= DutyTicks

\* load_snapshots, for the category of a ticket.
Snapshot(a, c) ==
  LET open == {t \in Present : rows[t].assignee = a /\ Open(t)}
  IN  [skill |-> IF c = None THEN 0 ELSE Skill[a][c],
       open  |-> NumberOf(open),
       load  |-> Total([t \in open |-> Weight(t)], open),
       duty  |-> IsOnDuty(a)]

AtMost(n, bound) == IF n < bound THEN n ELSE bound

\* score with its three weights, 0.5, 0.35 and 0.15, as a multiple of 1 / (600 * max_load):
\* the four decimals that are kept tell any two different scores apart.
Score(s) ==
  100 * SuggestMaxLoad * AtMost(s.skill, 3)
    + 210 * (SuggestMaxLoad - AtMost(s.load, SuggestMaxLoad))
    + 9 * SuggestMaxLoad * (IF s.duty THEN 10 ELSE 3)

NameIndex(a) == CHOOSE i \in 1..Len(NameOrder) : NameOrder[i] = a

\* Mutant of Before: agents of the same score come in the order of their names.
BeforeByName(a, b, c) ==
  LET s == Snapshot(a, c)
      r == Snapshot(b, c)
  IN  \/ Score(s) > Score(r)
      \/ Score(s) = Score(r) /\ NameIndex(a) < NameIndex(b)

\* rank: by score, then load, then name.
Before(a, b, c) ==
  LET s == Snapshot(a, c)
      r == Snapshot(b, c)
  IN  \/ Score(s) > Score(r)
      \/ Score(s) = Score(r) /\ s.load < r.load
      \/ Score(s) = Score(r) /\ s.load = r.load /\ NameIndex(a) < NameIndex(b)

\* An agent's place in the sorted list.
Place(a, c) == 1 + Cardinality({b \in Agents : Before(b, a, c)})

Suggest(t) ==
  [i \in 1..AtMost(Cardinality(Agents), SuggestTopN) |->
     CHOOSE a \in Agents : Place(a, rows[t].category) = i]

-----------------------------------------------------------------------------
Init ==
  /\ deployment \in Deployments
  /\ now = 0
  /\ rows = [t \in Tickets |-> None]
  /\ createdAt = [t \in Tickets |-> None]
  /\ statusLog = [t \in Tickets |-> <<>>]
  /\ active = Users
  /\ rating = [t \in Tickets |-> None]
  /\ draft = None /\ view = None /\ cache = {}
  /\ waited = [t \in Tickets |-> 0]
  /\ resolvers = [t \in Tickets |-> {}]

Next ==
  \/ Tick
  \/ \E u \in Users, t \in Tickets : Create(u, t) \/ Edit(u, t)
  \/ \E u \in Users : SetActive(u)
  \/ \E u \in Users, t \in Tickets, s \in Scores : RateBegin(u, t, s) \/ Rerate(u, t, s)
  \/ RateCommit
  \/ \E q \in AskedWindows : Overview(q)
  \/ Query \/ OverviewDone

Spec == Init /\ [][Next]_vars

-----------------------------------------------------------------------------
(***************************************************************************)
(* Properties.                                                             *)
(***************************************************************************)
Ever == [from |-> 0, to |-> deployment.maxTime]

\* US-38, "minus the time in PENDING_REQUESTER": what the journal's events say about the
\* pauses of a ticket is the time it really spent there, after any number of them and
\* while one lasts, and a resolution time is never cut off at 0.
PausesMeasured ==
  \A t \in Present :
    /\ PausedSeconds(t) = waited[t]
    /\ rows[t].resolvedAt # None =>
         ResolutionTime(t) = rows[t].resolvedAt - createdAt[t] - waited[t]

\* "The one who really handled it" (TicketRating.agent_id): a rating counts for somebody
\* who had the ticket when it was resolved, however it was reopened and handed on since;
\* the three pages that show an agent's ratings show the same ones; and the tables of the
\* satisfaction report add up to its total, but for what no agent has.
RatedTheResolver ==
  LET byAgent == SatisfactionByAgent(Ever)
      ratings(table) == Total([k \in DOMAIN table |-> table[k].ratings], DOMAIN table)
      closed(table)  == Total([k \in DOMAIN table |-> table[k].closed], DOMAIN table)
  IN  /\ \A a \in Users :
           /\ \A t \in MyRatings(a) : a \in resolvers[t]
           /\ a \in DOMAIN byAgent \/ MyRatings(a) = {}
           /\ a \in DOMAIN byAgent => byAgent[a].ratings = NumberOf(MyRatings(a))
           /\ a \in Agents => AgentWorkload(Ever)[a].ratings = NumberOf(MyRatings(a))
      /\ \A table \in {SatisfactionByCategory(Ever), SatisfactionByMonth(Ever)} :
           /\ ratings(table) = Overall(Ever).ratings
           /\ closed(table) = Overall(Ever).closed
      /\ ratings(byAgent) = Overall(Ever).ratings
      /\ closed(byAgent) <= Overall(Ever).closed

\* The figures of one overview come from six moments: they contradict each other by no
\* more than the tickets that were created or changed meanwhile.
OverviewCoherent ==
  view # None /\ Len(view.answers) = Len(Queries) =>
    LET x        == view.answers
        n        == NumberOf(view.changed)
        total    == Total(x[1], TicketStatus)
        near(k)  == k - total <= n /\ total - k <= n
    IN  /\ near(Total(x[2], Priorities))
        /\ near(Total(x[3], OrNone(Categories)))
        /\ near(Total(x[6], 0..deployment.maxTime))
        /\ x[4] <= total + n
        /\ x[5] <= Total(x[1], OPEN_STATUSES) + n

\* US-37, "cached for 5 minutes": an overview that is answered was computed less than the
\* TTL ago, and for a window whose ends are less than the TTL from those asked for.
ServedFresh ==
  \A q \in AskedWindows : \A e \in Hits(q) :
    LET near(x, y) == x - y < CacheTTL /\ y - x < CacheTTL
    IN  /\ now - e.generatedAt < CacheTTL
        /\ near(e.window.from, ResolveWindow(q).from)
        /\ near(e.window.to, ResolveWindow(q).to)

\* An agent who is no worse than another in skill, load and duty and better in one of
\* them comes first, also when both have more to do than SUGGEST_MAX_LOAD; and nobody
\* better is left out.
BestAgentsFirst ==
  \A t \in Present :
    LET list == Suggest(t)
        better(a, b) ==
          LET s == Snapshot(a, rows[t].category)
              r == Snapshot(b, rows[t].category)
          IN  /\ AtMost(s.skill, 3) >= AtMost(r.skill, 3) /\ s.load <= r.load
              /\ r.duty => s.duty
              /\ \/ AtMost(s.skill, 3) > AtMost(r.skill, 3)
                 \/ s.load < r.load
                 \/ s.duty # r.duty
    IN  \A i \in 1..Len(list) : \A a \in Agents :
          better(a, list[i]) => \E j \in 1..(i - 1) : list[j] = a
=============================================================================
