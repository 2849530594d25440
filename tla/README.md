# Smart IT Helpdesk: TLA+ models and proofs

This directory holds TLA+ models of the Smart IT Helpdesk back end, the TLC runs that check them on small instances, and TLAPS proofs that carry the most important results over to every size of the system. Paths are relative to the repository; `tickets/…`, `users/…`, `knowledge/…` abbreviate `src/backend/app/modules/…`, `ai/…` and `core/…` abbreviate `src/backend/app/…`.

Contents: [the system](#the-system) · [modules](#modules-and-the-code-they-model) · [runs](#runs) · [bounds](#bounds-and-why-they-are-enough) · [fairness](#fairness) · [proofs](#proofs) · [divergences](#where-the-code-and-its-documentation-disagree) · [not modelled](#what-is-not-modelled) · [plan](#plan)

## The system

A React front end talks to a FastAPI application over REST, server-sent events and a WebSocket. The API processes and the Celery workers share one PostgreSQL database; Redis is the broker, a cache and the pub/sub channel for push messages. LLM and embedding providers are called over HTTP. Requests are transactions at READ COMMITTED, so every handler's *read, decide, write* is spread over time and other transactions commit in between. The only locks taken are those of the UPDATE and DELETE statements themselves; protection comes from version columns, unique constraints, CHECK constraints, and in some places from nothing.

### Inventory

| Component | State it keeps | Operations | Talks to | What is hard | What makes it correct |
|---|---|---|---|---|---|
| Ticket state machine, access policy (`tickets/state_machine.py`, `policies.py`) | none (a table) | `get_rule`, `validate`, `allowed_next`, `can_*` | ticket service | two functions answer almost the same question | only listed transitions, by qualified users |
| Ticket service (`tickets/service.py`) | `tickets`, `ticket_events`, `comments` | create, update, claim, assign, change_status, add_comment, apply_ai_classification, mark_ai_status, auto_close_resolved | classification (queue), notifications, feedback | agents, AI and a nightly job write one row from stale copies | no lost update, a claim takes nothing away, the journal explains the row, timestamps fit the status |
| Asynchronous classification (`tickets/classifier.py`, `tasks.py`) | `ai_status` of a ticket, `ai_classifications` | classify_ticket, reconcile_pending, correction and settlement of records | Celery, LLM, ticket service | at-least-once delivery, lost messages, answers that come late, overlapping runs | every ticket is decided, once; what a person has decided by then stays; accuracy records are true |
| User administration (`users/service.py`) | `users` | create_user, admin_update, set_active, update profile, search | authentication, assignment | a count that another transaction makes untrue | an active admin remains |
| Authentication (`auth/service.py`, `core/rate_limit.py`) | `refresh_tokens`, login counters | register, login, refresh, logout, logout-all, password change, clean-up | users | a revocation cannot see the row of a request at work; check, bcrypt, count | what ends sessions ends them; a token works once |
| Knowledge base and its index (`knowledge/service.py`, `indexing.py`, `tasks.py`) | `kb_articles`, `article_chunks` | create, update, publish, unpublish, reindex, view counting; index_article, reconcile_stale_index | Celery, embedding model, retriever | a run computes embeddings for seconds while the article is edited, withdrawn or indexed by another worker | chunks of one text or none; what is withdrawn leaves the index; "fresh" means fresh; what was published gets indexed |
| SLA calendar and monitor (`tickets/sla.py`, `notifications/sla_monitor.py`) | SLA marks on tickets | due_at, state, scan | notifications | business minutes across weekends, a batch whose members never leave it, a whole batch rolled back | each ticket is warned and reported once, none starves |
| Notifications and push (`notifications/service.py`, `core/ws_manager.py`, `useNotificationSocket.tsx`) | `notifications`, sockets and event loop per process, the browser's badge | notify, mark_read, mark_all_read, publish, subscribe, connect | all writers, Redis pub/sub | pushed before the commit, two paths to one socket, deduplication among committed rows | shown once, nobody untold, nothing hidden |
| Feedback (`feedback/service.py`) | `ticket_ratings` | create, update, list_my_ratings | ticket service | a rating racing another rating or a reassignment | a rating counts for who did the work |
| Reports (`reports/*`) | a cache | overview, resolution time, workload, satisfaction, AI accuracy | all tables | six queries see six moments; a cache key that rounds; pauses reconstructed from a journal | figures that agree with the tickets and each other |
| Assignee suggestions (`tickets/suggestions.py`) | none | suggest | tickets, users | weights, saturation and ties | a better agent comes first |
| Chatbot (`chatbot/service.py`, `router.py`) | `chat_sessions`, `chat_messages`, `chat_citations` | ask (a stream of events) | AI access, retriever | a client that hangs up in mid-stream, half an answer, two asks in one session | what was told is what is stored |
| AI provider access (`ai/failover.py`, `resilience.py`, `cost_guard.py`) | spent budget, per process | complete, embed, stream | LLM APIs | failing over before the first token only, retries, a budget looked at before and charged after | one answer from one provider; the budget holds; an end comes |
| Front end (`src/frontend`) | react-query caches | pages, token refresh, socket | API | one refresh for many waiting requests | – |
| Schema, seeds, deployment | DDL | migrations | – | – | constraints the services rely on |

`PROJECT.json` lists the same components with their status, and under `hazards` what is hard to test, at the line where it bites.

## Modules and the code they model

```
TicketStateMachine ── TicketOps ──┬── TicketLifecycle ── MCTicketLifecycle             TLC
 (the rule table)    (what each   │        │   └─ TicketLifecycleProofs                TLAPS
                      operation   ├── AtomicTickets  (abstract specification)
                      computes)   ├── Insights ── MCInsights, InsightsProofs           TLC, TLAPS
                                  └── Feed ── MCFeed, FeedProofs                       TLC, TLAPS
Classification ── MCClassification, ClassificationProofs                               TLC, TLAPS
UserAdmin ──┬── MCUserAdmin                                                            TLC
            └── Sessions ── MCSessions, SessionsProofs                                 TLC, TLAPS
KnowledgeIndex ── MCKnowledgeIndex, KnowledgeIndexProofs                               TLC, TLAPS
SlaClock ── SlaMonitor ── MCSlaMonitor, SlaMonitorProofs                               TLC, TLAPS
Chat ── MCChat, ChatProofs                                                             TLC, TLAPS
```

Several modules have a variable `deployment`, chosen once from the constant `Deployments`. A deployment is the shape of an instance: how many tickets, workers or processes there are, what people may do, which faults can occur and the bounds. One run then covers a few small shapes, each big in another direction, where one instance that is big in all of them could not be explored.
### TicketStateMachine, TicketOps, TicketLifecycle

`TicketStateMachine` is the rule table `ALLOWED` with `Validate` and `AllowedNext`. `TicketOps` says, as pure operators, what each operation of `TicketService` makes of the row it has read: guards from the code's checks and early returns, the new row, and the events it appends to `ticket_events`. `TicketLifecycle` puts them into time:

| In the model | In the code |
|---|---|
| `rows` | the `tickets` table: status, requester, assignee, category, priority, AI status, whether the resolution note is long enough, timestamps, the priority the SLA dates were computed for, `version` |
| `journal` | what a replay of the ticket's `ticket_events` gives: the last new value per field, or *broken* once an event's old value is not the value reached; and whether a person has classified the ticket (`_nguoi_da_phan_loai`) |
| `tx` | per user the open transaction: the row as loaded (`base`) and the outcome computed from it |
| `job` | the open transaction of `auto_close_resolved`: an outcome per ticket of its batch |
| `today` | the date, as far as the reopening window and the auto-close delay look at it |
| `Update`, `Claim`, `Assign`, `ChangeStatus`, `AddComment` | the request handler up to the commit: load, `_check_version`, compute |
| `Commit` | the flush with `WHERE version = …` (`version_id_col`, `models.py:171`), the CHECK constraints and the commit |
| `Rollback` | 409 from StaleDataError, 500 from a constraint, or a process that dies |
| `ApplyAiClassification`, `MarkAiStatus` | the classifier's writes: `SELECT … FOR UPDATE` holds the row from the check to the commit, so each is one step. The seconds of thinking before are in `Classification` |
| `AutoCloseLoad`, `AutoCloseCommit`, `AutoCloseRollback` | the job: its batch is one transaction, one stale ticket undoes all of it |

The load and the commit are separate steps, everything between them is local to the request. An operation that changes no column writes no UPDATE, so nothing is compared; it can still insert events. That is how `_do_assign` to the present assignee behaves. A request that flushes twice still moves the version in one transaction; the model counts it once and says so at `Bump`.

Dates are abstracted to days, an SLA date to the priority it was computed for, and the resolution note to whether it satisfies its CHECK constraint.

`AtomicTickets` is what the service promises: a table of rows changed by whole operations of `TicketOps`, one at a time, each applied to the row as it is. It has no open transactions and compares no versions; the only trace of the time between reading and committing is that a timestamp may lie in the past. `TicketLifecycle` implements it (`AtomicSpec`) under the mapping that keeps the table and the date and takes from the journal only whether a person has classified the ticket.

### Classification

Tickets, the Celery queue, workers and `ai_classifications`. `Create` may lose its message (`_enqueue_classification` swallows the broker's error). `Start` reads the ticket and checks `PENDING` without a lock (`classifier.py:324`); the LLM is asked; `FinishConfident`, `FinishUnsure` and `FinishFailed` are the one write transaction of `_finish`, with `apply_ai_classification` and the row of `ai_classifications`. `Die` is a worker killed or failing: with `task_acks_late` the message comes again, otherwise it is acknowledged and gone. `Reconcile` is `reconcile_pending`. `Reclassify`, `Reprioritise` and `Close` are people: `_record_ai_correction` and `_settle_ai_accuracy` keep the accuracy record up. `ByCategory`, `Confusion` and `StatusBreakdown` are the queries of the accuracy report.

- What a run may suggest is computed: `Answers` are what the LLM may say, with a field missing, of the wrong type, out of range or at the threshold; `Validated` is `_validate`; `ByKeywords` is the rule table with its dominant rule, its order for ties and its fixed confidence, applied to texts of which only the number of matches per rule is kept; `Fallback` drops a category that is switched off.
- The flush in `_record` inserts an event whose foreign key locks the ticket's row, and with the version check this leaves one committer per version. A person's operation is therefore one step; a run of the classifier has its own begin and finish.
- `created_at` of a record is the start of its transaction, so a record is ordered by when its run began, not by when it was written.
- The ticket's status is OPEN or CLOSED: only closing settles records, and a cancelled ticket is never settled by the code.

### UserAdmin, Sessions

An administrative request is three steps at READ COMMITTED: it loads the target, `_assert_admin_remains` counts the other active admins, and it commits the columns that differ from what was loaded. There is no version column. `skewed` is a history variable: a commit has taken an active admin out while another request, past its count (or in need of none), was set to take something away. `require_admin` reads the actor's row in each request. Profile fields and departments are left out.

`Sessions` extends it with `/auth`. `token` is the table `refresh_tokens`, a token's number its age; its `family` is the login it descends from. `login` and `refresh` are a begin and a commit with bcrypt and two INSERTs between them; `logout_all`, `change_password`, the second use of a token and a lock (in the commit of `set_active`) are one UPDATE that sees the rows committed by then. Which token a client sends is open: two tabs share a cookie, and a lost response leaves the old one with the client. The limiter counts failed logins per account (`raise_if_blocked` first, `record_failure` after the comparison; a success clears it). `late` and `shared` are history variables that only properties read: tokens of requests that were at work when the sessions of their account were ended, and families of which two requests used one token at once.

### KnowledgeIndex

`article` has a status, the time its text was written, `updated_at` and `indexed_at`; `chunks` is the set of rows in `article_chunks`. A request's transaction is `Begin … Commit`, a worker's run is `StartTask` or `StartReconcile`, then `DeleteChunks`, a wait for row locks, `Embedded`, `RemoveFromIndex` or `EmbedFails` per article, and `CommitRun`.

- `now()` in PostgreSQL is the start of the transaction. The model has a clock and each transaction remembers when it began; this is what makes `indexed_at` and `updated_at` interesting.
- A DELETE sees the rows committed when it began, waits for those another transaction is deleting, and finds them gone when that transaction commits. Rows inserted meanwhile are not seen; the insert of the same `(article_id, chunk_index)` then violates the unique constraint and the run fails.
- The text of an article is its writing time and `Pieces` is how many chunks it yields, so a chunk set tells which text it came from.
- `reconcile_stale_index` handles all stale articles in one transaction. An embedding that fails is caught and the loop goes on, with that article's chunks deleted.
- `overlapped` is a history variable: the articles two transactions were open on at once. It is read by properties only.
- A view is a request too: `get_by_slug` counts it and puts back the `updated_at` it has read. The count itself, slugs, categories, search and vectors are left out.

### SlaClock, SlaMonitor

`SlaClock` translates `tickets/sla.py`: `DueAt`, `BusinessMinutesBetween` and `SlaState` on a calendar of days, office hours, workdays and holidays. Its loops are recursive functions of a moment, the one of `due_at` on the moments of office hours (`AtWork`), where its cursor always is; every calculation shifts its arguments from UTC to the local zone and its result back. `Counted` counts business minutes one by one and serves as the reference for both loops.

`SlaMonitor` has the tickets as far as the SLA is concerned (`rows`: creation, priority, due date, open or not, assignee, the two marks, version), the `notifications` table, the monitor's rows in `ticket_events`, and the open scans. A deployment has its priorities, workers, `SLA_MONITOR_BATCH_SIZE`, moments of creation and number of deaths. `Crowded` says of a ticket that the tickets that are late and were never warned fill the batch before it.

| In the model | In the code |
|---|---|
| `Create`, `ChangePriority` | `create`, `update` and `apply_ai_classification` with their `_apply_sla`. The marks of the monitor are not reset |
| `Assign`, `Resolve`, `Reopen` | the requests that change what the monitor looks at. Which status allows which of them is `TicketLifecycle`'s business |
| `StartScan` | `SlaMonitor.run` up to its flush: the batch by due date, and per ticket what there is to report. The open scan is kept as the reports it is going to make, each with the row it was made from |
| `CommitScan` | the flush, with `version_id_col` on every changed row, and the commit: marks, journal, notices |
| `RollbackScan`, `Die` | one stale ticket undoes the whole scan; a killed worker does too |

- The session has `autoflush=False`, but the repository's `add` flushes, so the versions may be compared in the middle of a scan. From then on the rows are locked, so comparing them at the commit is the same.
- The code counts whole minutes and drops seconds at the two ends; the model has no seconds. `paused_seconds` is 0: nothing writes it. The response due date goes the way of the resolution due date and the monitor ignores it.
- The monitor builds its calendar without `BUSINESS_TIMEZONE`; `MonitorZone` and `BusinessZone` are therefore two constants. The run gives them the same value, as the default configuration does.

### Insights

What the other modules' operations look like afterwards. Tickets are edited by the outcomes of `TicketOps`, one step each; `statusLog` is the STATUS_CHANGED part of `ticket_events`; the clock has a unit of its own.

| In the model | In the code |
|---|---|
| `RateBegin`, `RateCommit`, `Rerate` | `FeedbackService.create` (the ticket as read, the assignee copied, then the UNIQUE `ticket_id`) and `update` in its window |
| `Overview`, `Query`, `OverviewDone`, `cache` | `GET /reports/overview`: six queries, each sees what is committed by then, and SETEX under a key whose ends are rounded down |
| `PausedSeconds`, `ResolutionTime` | `_pause_seconds_subquery` with LEAD, `resolution_time` |
| `AgentWorkload`, `Overall`, `SatisfactionByAgent`, `…ByCategory`, `…ByMonth` | `agent_workload`, `SatisfactionService` |
| `Snapshot`, `IsOnDuty`, `Score`, `Before`, `Suggest` | `tickets/suggestions.py`; a score is the multiple that makes its weights integers |

`waited` and `resolvers` are history variables: what the tickets really went through, against which the reports are held. Averages, formatting and CSV are left out. One simplification: an edit and its event have one time; in the code the journal's `created_at` is the start of the transaction.

### Feed

Notifications from the operation that causes them to the badge of a page. A request is `Load`, `Work` (up to `commit()`: insert, flush, push) and `Commit`; `SlaMonitor`'s report of a late ticket is one of them. `NotifyStatusChange`, `NotifyComment` and `Steps` say who is told of what; `Recent` is `exists_recent`, which sees committed rows; `FlushedFirst` says that a flush, and with it the version check, comes before the push, except in a scan.

`Push` is `notify_sync`: schedule on the own process's event loop, if there is one, and publish to Redis; a publisher that fails rests. `Deliver` takes the next coroutine of a loop, `Listen` the next message of a subscription, dropping the process's own (`IsOwn`). Sockets open, drop, and are unregistered when the server notices. Faults: a dropped socket, Redis going away (every listener ends for good, as its exception ends the coroutine) and coming back, a COMMIT that fails after its push, a process that restarts. A browser is the sequence of events it was sent; `Badge` is the fold of `patchUnreadCount` over it.

### Chat

`ChatService.answer` as an async generator, the router's stream around it, and the provider chain below. An ask is at one of the jobs *rewrite, embed, stream, speak, refuse*; `Send`, `Retry`, `FailOver`, `GiveUp` are `FailoverLlmClient` and `FailoverEmbeddingClient` with `with_retry` and `CostGuard.check_budget`; `Rewritten`, `Retrieved`, `Token`, `Finish`, `Break`, `Refuse` are what comes of a call. `DatabaseFails` and `Leave` are the database and the browser. Which article is near enough to a question is open; which articles may be compared at all depends on the model that embedded it.

- The circuit breaker is left out because it has no effect: `get_llm_client` builds it with the client, once per request, and one request has fewer failures than the five that open it.
- Streams are not charged: `CostGuard.record` is called for completions and embeddings only, and `SpendBounded` speaks of those.
- How many providers are configured is part of the deployment. One, the default (`build_llm_client` without `LLM_FALLBACK_API_KEY`), is a bare client: there is nobody to fail over to, and a stream that ends without a word is saved as an empty answer, *citations* and then *done* (`EndsSilently`). With a fallback it is a failure.
- An ask whose browser has left is told apart (`left`) from one that has ended (`ended`), which is told so.

## Runs

| Run | Instance | Checks | Shows |
|---|---|---|---|
| `TicketRaces` | 2 agents, 1 ticket, 2 open transactions, 2 priorities, versions up to 3 | `NoLostUpdate`, `AiLeavesClassified`, `AtomicSpec` | with all operations racing, nobody's update is lost, the AI leaves alone what was classified or changed by a person, and the table changes as if operations ran one at a time |
| `TicketLife` | employee and agent, 1 ticket, 2 open transactions, versions up to 6, 3 days | `RowsConsistent`, `JournalExplainsRow`, `AutoCloseOnlyDue` | a whole life, reopening and the job included |
| `Classify` | 1 ticket and 2 workers with 2 faults, or 2 tickets and 1 worker with 1; 2 active categories, 3 texts; fairness | `AppliedIsRecorded`, `CorrectionsCurrent`, `AccuracyTruthful`, `DecidedOnce`, `EveryTicketDecided` | late, repeated and dying runs decide a ticket once, and in the end; nothing is applied on keywords alone; with one run at a time the report agrees with the tickets |
| `ClassifyRerun` | 1 ticket, 2 workers | `AppliedOnce` violated | see below |
| `Sessions` | sessions of one account, 2 requests at work, 3 tokens; or 3 accounts with all role changes and locks, 2 requests | `SessionsEnd`, `OneSessionPerLogin`, `AttemptsBounded`, `AdminLostOnlyBySkew` | what is to end sessions ends them, but for requests at work; a token used twice in turn ends everything; one request alone never takes the last admin out, whatever else is changed meanwhile |
| `AdminsSkew` | 3 accounts, 2 requests | `AdminRemains` violated | see below |
| `Index` | 1 article, 1 editor, 2 workers, 3 ticks; or 2 articles, 1 worker, 4 ticks; 1 fault; fairness | `ChunksWhole`, `WithdrawnIsForgotten`, `BadgeTruthfulAlone`, `PublishedGetsIndexed` | two runs never mix their chunks; a withdrawn article leaves the index; on an article no two transactions overlapped on "fresh" is true; a published article gets indexed |
| `IndexBadge` | 1 article, 2 editors, 1 worker | `BadgeTruthful` violated | see below |
| `SlaWatch` | 2 tickets, 1 agent, 1 admin, 2 priorities, 3 ticks; 2 workers, a batch of 2 and 1 fault, or 1 worker and a batch of 1; fairness | `BusinessTimeCounted`, `ReportedOnce`, `AdminsToldOfBreach`, `MarksAreDue`, `EveryBreachReported` | due dates agree with counting minutes; a mark is true when it is made, whatever changed since the scan read the ticket; scans that overlap, die or are rolled back report each thing once and to every admin; a late ticket is reported in the end, unless it is crowded out of the batch |
| `Insights` | 1 ticket with 5 changes of status in 3 ticks and ratings; 1 with the overview open; 2 for the loads of 2 agents | `PausesMeasured`, `RatedTheResolver`, `OverviewCoherent`, `ServedFresh`, `BestAgentsFirst` | reports agree with what happened, with each other, and as far as they must when tickets change under them |
| `Feed` | 1 process and a page that watches; 2 processes, worker and Redis with 2 faults; 2 overlapping requests and the deduplication window | `ToldOnce`, `StatusAnnouncedOnce`, `NothingHidden`, `BadgeRight`, `OpenPagesAreTold` | a page shows a notification once; open pages are told; deduplication neither repeats a change of status nor hides a notice |
| `Chat` | 2 asks in 1 or 2 sessions, 2 articles, 1 or 2 providers, 2 attempts, 2 tokens, budget 4, 1 database fault, fairness | `EventsInOrder`, `AnswersKept`, `RestsOnComparable`, `CountTruthful`, `SpendBounded`, `EveryAskEnds` | streams are well formed, what was told is stored and rests on comparable vectors, and every ask ends, with *done* or its error unless its browser has left |

Each property has a mutant in `PROJECT.json`: a plausible slip in the code (a dropped version check, a mark that is not cleared, a batch chosen by the wrong condition) under which the same run finds the property violated. The mutated definitions stand before the ones they replace in the modules.

All runs have `CHECK_DEADLOCK FALSE`. The real system goes on for ever; the bounded one stops where versions, days, ticks, faults or the queue reach their bounds.

Some conditions in properties are admissions about the code, found by TLC when they were left out: `\/ t \in late` in `SessionsEnd`, `shared` in `OneSessionPerLogin`, `overlapped` in `BadgeTruthfulAlone`, `WithdrawnIsForgotten` and `CountTruthful`, `Alone` in `AccuracyTruthful`, the margin of the number of requests in `AttemptsBounded`, the read-all in `BadgeRight`, Redis in `OpenPagesAreTold`, `skewed` in `AdminLostOnlyBySkew`, `Crowded` in `EveryBreachReported`, the one provider in `EventsInOrder` (its answer may be empty). `AiLeavesClassified` speaks of tickets that have a category or that a person has changed, not of a priority given at creation. The sections below say what happens outside them.

### Bounds, and why they are enough

- *Two transactions per ticket.* Every race here is between a reader and one writer that commits in between. A third transaction adds another reader of the same kind, and the proofs cover any number. No request starts on a row whose version has reached `MaxVersion`: 3 leaves room for the creation, a first writer, and a second one whose reading has become old; 6 for a life through RESOLVED, reopened and resolved again. `MaxDay = 2` lets both windows (one day each in the model) be met and missed.
- *One ticket* in most runs: rows of `tickets` are independent but for the job's batch. That a batch fails as a whole with several tickets is part of the proof, which has any set of tickets.
- *Classify.* Two active categories are what correction and choosing the AI's category again need, and one keyword rule (`network`) names a category that is not active. Two workers are what overlapping takes; two faults allow a lost message and a death. `BatchSize = 1` stands for 50: with two tickets the batch is already smaller than the backlog. The threshold is 60 as in the default configuration; confidences are missing, negative, 40, 60 and 101.
- *Sessions.* Two administrative requests are what a skew takes. Three tokens: a login, its refresh, and the use of the old one or a second login. One token expires. Two requests at work are a race; `MaxAttempts = 1` with two requests reaches the limit and passes it. Requests are interchangeable (`SYMMETRY`, no liveness in this run).
- *Index.* In the largest deployment written, published, edited and indexed can all have different times. `MaxQueue` bounds the waiting messages; a step that would exceed it is not taken.
- *The calendar of SlaWatch* has days of four units with two of office hours, a week of three days with one off, a holiday on the second day and a zone one unit ahead of UTC. Where scans overlap, tickets are created at opening time and at closing time, with one or four units of budget: a due date within the day, one over the holiday and the weekend, and one where the rest fits exactly into the day. *Three ticks* go from the opening of the first day past the breach of the short budget into the holiday. *MaxVersion* allows one ticket to be resolved and reopened and the other one change, which is what a scan needs to be overtaken; the monitor may mark a ticket beyond it. A batch of 2 holds all tickets, as 200 holds all open tickets of the company the documentation describes. In the other deployment the batch holds one ticket of two, and budgets of one and two units let both be late on the first day: there the batch is chosen, and one ticket can keep the other out of it.
- *Insights.* Five changes of status are two pauses and a reopening; three ticks let them have lengths and let the windows for editing a rating, reopening and closing be met and missed. `CacheTTL = 2` has windows that share a key and ones that do not; `SuggestMaxLoad = 1` has loads beyond it.
- *Feed.* Three notifications are what being told of two things and reading one takes. Two API processes and the worker are all kinds of sender and receiver; `Overlapping` has the clock for the deduplication window (1 tick) on both sides of it.
- *Chat.* One provider is the default, two are what the code can be given. Two asks are enough to overlap, in one session or two; the budget starts untouched or with one call left; one article was indexed with each provider's model.

### Fairness

- `Classification!FairSpec`: weak fairness on `Age` (time passes), `Reconcile` (Celery beat starts it every few minutes, whatever happened before), `Start(w)` (a worker with a message in the queue takes one) and `Work(w)` (a run ends: calls have timeouts, and `task_time_limit` kills it). None on people, on faults or on a confident answer.
- `KnowledgeIndex!FairSpec`: weak fairness on `Work(w)`, and strong fairness on `StartReconcile`. It is enabled only while a worker is idle, and editors can keep workers busy with index tasks; but beat's message waits in the same first-in first-out queue, so among infinitely many idle moments one is its own.
- `SlaMonitor!FairSpec`: weak fairness on starting a scan by some worker (beat, every five minutes) and, per worker, on its end. None on the clock, on people or on faults; a person can overtake a scan only as often as versions allow.
- `Chat!FairSpec`: weak fairness on `Progress(k)`, the next step of an ask whatever it is: every call has a timeout, so a provider's silence becomes a failure. None on asking, on success or on faults.

Faults are bounded, so liveness is checked for a system that stops failing some time, which is all that a reconcile job can promise. `Sessions`, `Insights` and `Feed` state safety only.
## Proofs

Proofs are about the specifications the runs check, for every value of the constants: any sets of users, tickets, categories and priorities, any windows, and any number of transactions in flight. The assumptions are the named `ASSUME`s of the modules: every user has a role, every category a default priority, windows and settings are naturals, tables and the processes of the server are finite sets where they are counted, a socket is made to a process that runs, and `None` is no user, category, priority, row or journal (nor a run, an article, a transaction or what else it stands beside). TLC evaluates them in every run. Two theorems have hypotheses of their own: `ApplicationsAreRecorded` (a threshold above the confidence of the keyword rules), and what is said of one worker alone (finitely many workers and tickets).

**TicketLifecycleProofs.** `JournalExplainsRow` or `RowsConsistent` alone are not inductive: that a commit keeps them depends on the outcome a request computed some time ago. The inductive invariant

    IInv == TypeOK /\ RowsConsistent /\ JournalExplainsRow /\ VersionDeterminesRow /\ Pending

adds `Pending`: the outcome of every open transaction is one that an operation of its user computes from the row it loaded, on a day up to now, and the job's outcomes are those of rows that were due when it loaded them. With `VersionDeterminesRow` a matching version at commit time then means that the row is the one that was loaded, so the outcome fits it. There is one lemma per action and one step per conjunct. From `IInv` follow the invariants and, step by step, the action properties `NoLostUpdate`, `AutoCloseOnlyDue` and `AiLeavesClassified`, which runs check, and `ClaimTakesNothing`, `OnlyAllowedTransitions` and `FirstResponseOnce`, which are proved only: no run repeats them, as `AtomicSpec` already constrains every step of the table.

The refinement `ImplementsAtomicTickets` follows in the same module from the same invariant: the initial state is initial, a commit that writes is the `Edit` it has computed (on the day it was computed), the job's commit is an `AutoClose` of its batch, the classifier's steps map to their namesakes, and beginning, rolling back or committing without an UPDATE stutters.

**SessionsProofs** first proves `AdminsAreLostOnlyBySkew` of `UserAdmin` for any finite set of accounts, any roles and any number of requests in flight. That an active admin always remains is not a theorem: `AdminsSkew` is the counterexample with two requests. What the count does give is that it takes two, one of them past its count when the other commits. By itself that is not inductive, since what a commit leaves depends on what its count saw. The invariant

    SkewIInv == TypeOK /\ TargetsThere /\ (skewed \/ NoneLost)

says with `NoneLost` that as long as no two requests are skewed, there is an active admin, and every request set to take something away (`Decided`) still has one besides its target. A request of which no count is asked had a target that was no admin when it was loaded; the count of any other found another admin; a commit that takes an admin out spoils this for others only where it skews them, and all other steps add admins or leave them.

It then proves the other three properties of the `Sessions` run for any accounts, requests, tokens and limits. The tokens alone are not inductive: a refresh or login that was at work commits what it found earlier. Two facts about the requests carry it. `Knowing`: a request that is going to issue a token belongs to an account that is active, or whose sessions were ended since it began (then its token is in `late`). `Alone`: in a family of which no token was used by two requests at once, the token a refresh uses is the only one that may be live, and no other request uses a token of the family. `Quiet` summarises the many steps that add neither a token nor a request and end the sessions of whom they lock, so that the invariant is shown for them once. The limiter needs `FS_RemoveElement`: a failure that is counted is one attempt fewer to be counted. `SessionsKeepAdministration` shows that `Sessions` implements `UserAdmin`, and with it `AdminLostOnlyBySkew` carries over (`AdminsBesideSessions`).

**SlaMonitorProofs** is about the clock first. `BusinessTimeIsCounted` says that the two loops of `tickets/sla.py` compute what counting the minutes of office hours one by one gives, for any office hours, workdays, holidays, policies and zones (zones as naturals: not west of UTC). The prover cannot do induction on a recursive function, and need not. That the function exists is shown by naming one: `Worked(cursor, finish)`, the number of minutes of office hours, solves the equation of `Between`, and the moment at which that many minutes have been worked (`Reaches`) solves that of `Advance`. That the loop's value is no other follows from the least argument at which the two would differ (`BetweenIs`, `AdvanceIs`). What the passes of the loops need is that a workday comes (`WorkdayComes`: in a week more than there are holidays, one is free; a pigeonhole argument), that nothing is worked between the end of a day and the next opening (`OpeningIs`, `DayEnds`), and that minutes add up (`WorkedSplits`, `WorkedIdle`, `WorkedAll`).

About the monitor it proves `ReportsAreMadeOnce` and `AdminsAreToldOfBreaches` for any tickets, people and workers and any batch size. A commit writes back rows that were read before; `ScanIsCurrent` says that such a row has an older version than the table's, or is the table's row, and that the report was still missing in it. So a commit that passes the version check marks rows that have no such mark. `AppendKind` and `MarkAgrees` carry the agreement of marks and journal over the step. `MarksAreMadeDue` is an action property: a ticket that gets a mark is open at that moment and late, or in its last quarter, by the due date it has at that moment. The invariant is

    ClockInv == IInv /\ DueIsApplied /\ ScanIsJustified

`DueIsApplied`: a due date is always the one of the present priority. `ScanIsJustified`: what an open scan is going to report was true of the row it read, at the time it read it. The version check makes that row the table's; a late ticket stays late when time passes, and what is left of its business time only shrinks (`CountedLess`).

**ChatProofs** proves all five safety properties of the `Chat` run for any finite set of asks, any sessions, providers (one or more), retries, budgets and faults. The properties speak of asks that have ended and of what they left, so each is strengthened to asks at work: `Sound` says job by job what an ask may have told and quoted so far, `Kept` that an ask at work has left no answer yet, `Counting` what the copy it carries of the session's `message_count` is worth (all of it, as long as no other ask was at work in the session, and never more than the messages there are). Steps are of three kinds, an ask that goes on without writing, one that writes its answer, and a new ask; the invariant is shown for each kind, and every action is brought under its kind. The budget needs a count: a call that is charged is one call fewer that is due (`FS_RemoveElement`).

**ClassificationProofs** proves the four safety properties of the `Classify` run for any tickets, texts, categories, workers and faults. They relate a ticket to the records its runs have left, and `Recorded` is that relation made inductive: the records of a ticket are told apart by the number of their run, an applied one exists only for an APPLIED ticket, one of them carries the category the ticket has until a human changes it, and the latest applied one, which is the one corrections go to, names the category the ticket has if it was corrected. `Numbered` gives every run at work a number no record has yet. `ApplicationsAreRecorded` assumes that the threshold is above the confidence of the keyword rules, because the code needs it (see below). `AppliedOnceWhenAlone` is the counterpart of the violation in `ClassifyRerun`: with one worker, however often a task is delivered, a ticket gets one applied record, because a ticket the worker has in hand stays PENDING (`Singly`). `ReportIsAccurate` adds `Judged`: such a record is corrected just when the ticket has another category than it chose. The tables of US-22 then agree because the applied runs correspond one to one to the APPLIED tickets.

**KnowledgeIndexProofs** proves the three safety properties of the `Index` run for any articles, requests, workers and faults. `ChunksWhole` speaks of tables; what makes it inductive is about the runs that have not committed. Each deletes something whole and inserts something whole (`Sound`), and one that inserts has found nothing beside what it deletes (`Settled`): the UNIQUE index refuses it otherwise, as any two texts share the chunk 0, and after that the lock on the article's row keeps others from inserting until the commit. Nothing in the invariant needs the locks of the DELETE. For the other two properties `Undisturbed` says of an article no two transactions ever worked on at once that the one at work, if there is one, still sees row and chunks as they are, and that chunks left of a withdrawn article have a task on its way to them. Steps that only move a run forward are shown to keep the invariant once (`GoesOnKeeps`).

**FeedProofs** proves the five properties of the `Feed` run for any users, processes, sockets, deduplication window and number of open transactions, with every fault. `DbInv` is about the table. That two requests never announce a change of status twice in a window depends on transactions that have inserted and not committed: `StatusApart` is the property with the pending notifications counted in, and it is kept because a flush waits for whoever has flushed a change of the ticket and then sees what that transaction left (`WorkKeeps`). `NothingHidden` needs `Tells`: whomever an open transaction addresses has a committed notification in the window, which cannot be undone, or one of its own. `WireInv` is about the way to the browser: the events on a loop were made by its process and those of a channel by others than it delivers them for (`Tracked`), what a page was told is not on the path by which it came any more (`Done`), and what it was promised is told or on that path (`Promised`), the paths being intact until Redis fails (`Connected`). `ToldOnce` and `OpenPagesAreTold` follow when the paths are empty. `WatchInv` is about the badge, for `BadgeRight`. A page folds everything it was sent with `patchUnreadCount`; that this fold takes one step per event (`BadgeAfter`), and the same steps on a longer sequence (`RunsAgree`), is shown by a smallest counterexample, and `CountsNew` says what the events of one commit add. The invariant says of a process that runs alone (`Single`) that a page, once the loop has delivered what is scheduled, will count the notifications of its user that are not read or whose push as read is owed (`Tallied`, `Awaited`): as many, or no more if a read-all cleared the badge meanwhile, and nothing is said while the push of a read-all is owed. It needs to know that a notification is inserted unread, which `WorkIs` and `NewNotesAre` say.

**InsightsProofs** proves the five properties of the `Insights` run for any tickets, accounts, categories, windows and settings. Four of them compare sums and counts, and what the prover knows of `MapThenSumSet` is a recursive function on sets; its first part therefore proves what is needed of sums from their definition: they do not depend on the order, they split over a partition, the sizes of the classes of a finite set add up to its size. The induction over data behind that is done by a smallest counterexample (`WFMin`), which needs no operator parameter. `PausesAreMeasured`: `Measured` says of every ticket that its row has the status the journal ends with, and that it cannot have waited longer than it has existed, or than until it was resolved; an operation then adds at most one pause, open or closed (`Moves`). `ResolverIsRated`: who has a ticket that is done has resolved it (`Handled`), so the assignee a rating copies is in `resolvers` when the row is read, and stays so (`RatingInv`); the tables add up because each is a partition of the same ratings or tickets (`Tabulates`). `CacheIsFresh`: an entry was computed from the window of its key, which is rounded down by less than the TTL (`CacheInv`). `OverviewsAreCoherent`: after each of the six queries the figures so far are those of the tickets now, but for those `changed` since the first (`ViewInv`: `Figured`, `CountsNearly`, `CountsAtMost`). `BestAgentsComeFirst`: the ranking is a strict total order, so that places are a permutation and a better score, a lighter load or an earlier name decides.

Every invariant and every action property of a passing run is a theorem, and so is the refinement of `AtomicSpec`; `TypeOK` of `TicketLifecycle` is a theorem (`TypeCorrectness`) and needs no run. Model-checked only is what is claimed under fairness (`EveryTicketDecided`, `PublishedGetsIndexed`, `EveryBreachReported`, `EveryAskEnds`): the prover cannot treat ENABLED.

## Where the code and its documentation disagree

Kept as runs that find the violation:

- **`ClassifyRerun`** `tickets/classifier.py:546`. The second of two overlapping runs finds `APPLIED`, gets `APPLIED` back and records `was_applied` for its own suggestion; `tasks.py:49` says running again is safe.
- **`AdminsSkew`** `users/service.py:212`. Two admins who take each other out at the same time each count the other one.
- **`IndexBadge`** `knowledge/indexing.py:111`. An edit that commits while an index run computes embeddings ends with `indexed_at = updated_at` and the old text in the index; nothing selects it again.

Seen while modelling, without a run:

- `tickets/service.py:573`. The AI overwrites a priority that a person gave at creation, if no category was given with it: `category_id` is NULL, and `_nguoi_da_phan_loai` (754-776) counts events of a change, of which a creation leaves none. BR-13, at 564-567, counts the priority as part of what the AI never overrides. `AiLeavesClassified` says what the guard does protect.
- A provider that is configured alone and ends its stream without a word leaves an empty answer that is told *done*; `failover.py:101-104` calls that a failure, but is not in the way then.
- `tickets/service.py:333`. Assigning to the present assignee changes no column, so no version is compared, but an ASSIGNED event is written. After a reassignment in between, the journal ends with somebody who is not the assignee; `models.py:252` calls the journal the source of truth. (`JournalExplainsRow` does not speak of the assignee for this reason.)
- `allowed_next` (`state_machine.py:127`) offers ASSIGNED for a ticket without an assignee and reopening after the window, which `change_status` then refuses.
- A resolution note shorter than ten characters sent with RESOLVED to CLOSED replaces the good one and meets the CHECK constraint: 500, not 422. The model has it as an outcome that fails its CHECK and is rolled back.
- A record stays at `was_accepted` NULL when the ticket was closed while its classification was running, or its category was put back after closing (`service.py:682`).
- An `AI_CONFIDENCE_THRESHOLD` below 0.4 lets suggestions of the keyword rules be applied, whose confidence is fixed at 0.4 in order never to be (`classifier.py`). `AppliedIsRecorded` is violated with `Threshold = 30`.
- The version of an article is compared in Python and `kb_articles` has no `version_id_col`: two edits of one version both pass, the later text wins.
- The chunks of an archived article stay when its removal task is lost (reconcile selects PUBLISHED only); the retriever filters by status.
- `sla_monitor.py:136`: a ticket that was late before it was ever warned, as after an outage of the job, is marked late only; its `sla_warned_at` stays NULL, so it stays a candidate, ordered first. With as many of these as `SLA_MONITOR_BATCH_SIZE`, every scan reads the same batch and nothing else is reported while they are open, although `config.py:141-143` says that what is left over waits for the next round, five minutes at most. Without `Crowded`, TLC finds `EveryBreachReported` violated by the deployment of `SlaWatch` whose batch is 1.
- `sla_monitor.py:154` builds the calendar without the time zone, which `tickets/service.py:964` says must be passed.
- A ticket at risk without an assignee is marked as warned although nobody was told. The marks stay when the priority changes: a ticket reported late and then given more time is not reported again.
- `reindex_all`: one database error makes the session useless for the rest of the batch although the comment (`indexing.py:148`) says one article's failure does not stop the others.
- A refresh or login that read its token or account before `change_password`, `logout_all` or a lock issues a working token after it (`auth/service.py:181`). Two refreshes of one token at the same time both succeed, and the login goes on as two sessions.
- The limiter is asked before the password is compared and counts after it: as many attempts as arrive together pass it.
- A notification is pushed before its transaction commits. When the COMMIT fails, or a scan finds a stale ticket after it has pushed, pages show a notification that does not exist; a read-all between push and commit clears a badge whose row is still unread; across processes `read` may arrive before `new`. The badge is not fetched again when the socket reconnects.
- The Redis listener of a process ends for good when Redis has gone away once (`core/ws_manager.py`): from then on its pages are told only of what the process does itself.
- Two comments at the same time may both notify: their transactions touch no common row.
- The circuit breaker never opens: it lives as long as the client, which is built per request, although `resilience.py:63` speaks of a provider being left alone for a while. The retry's list of errors does not hold the exceptions of `httpx`.
- Streams are not charged to the budget, which `cost_guard.py:3` calls a hard limit.
- Two asks in one session write over each other's `message_count`. A stream whose connection closes without `[DONE]` counts as an answer in full. What a browser has been shown is not kept when it leaves.
- `response_rate` can exceed 1 (`satisfaction.py:50`): ratings are counted by when they were given, tickets by when they were resolved. A slow overview can overwrite a cache entry that was computed later.

## What is not modelled

- *Comments' editing and deleting, attachments of events, profile fields, slugs, categories of articles*: data without a decision of another component behind it.
- *BR-02 against a deactivation*: the accounts are constant in `TicketLifecycle` and the tickets are absent from `UserAdmin`; a composition of both has too many states beside what it would show, which is that nothing re-checks the assignee at the commit.
- *Text*: prompts, chunk contents, embeddings, the ranking of search results, formats of provider requests and prices.
- *Authorisation beyond the ticket policy, `require_admin` and account status*; password hashing, the contents of access tokens.
- *Formatting of reports*, averages, exports. Averages are quotients of the counts that are modelled.
- *Front-end rendering*, the client's refresh queue (one shared promise), migrations, seeds, Docker and Nginx configuration.
- *Crashes of PostgreSQL itself*: a commit is durable and atomic.
- *Response due dates, changes of policies and holidays, who is an admin while a scan runs.*

## Plan

The plan of this project was to model the most important behaviour first: the ticket service with its abstract specification and refinement, classification, user administration, the knowledge index, SLA; then sessions, reports and ratings, notifications and the assistant. All of these are here. What would come next:

1. **Assignment against UserAdmin**, if the two modules can be cut down to what BR-02 needs.
2. **Comments** edited and deleted against the closing of a ticket.

Runs stay few: one per question. A small component is checked in one run with its safety and liveness together.
