--------------------------- MODULE Classification ---------------------------
(***************************************************************************)
(* The asynchronous classification of a ticket (US-19 to US-22): POST      *)
(* /tickets puts a message on a Celery queue after its commit, a worker    *)
(* reads the ticket, asks the LLM for seconds, and only then locks the row *)
(* and writes what it got.  Messages get lost, workers die, and            *)
(* reconcile_pending queues a ticket again that may already be in work.    *)
(* Every run leaves a row in ai_classifications, from which US-22 counts   *)
(* how often the AI was right.                                             *)
(*                                                                         *)
(* The users' two operations that touch those rows, update and the closing *)
(* change_status, are one step each: TicketLifecycle has their concurrency *)
(* on the ticket row, and the INSERT of their event keeps a classifier's   *)
(* SELECT ... FOR UPDATE waiting until they have committed.                *)
(***************************************************************************)
EXTENDS Integers, Sequences, FiniteSets

CONSTANTS
  Tickets, Workers,
  Categories,       \* the slugs of the active categories
  Texts,            \* what tickets say: rule -> how many of its keywords are in the text
  Threshold,        \* AI_CONFIDENCE_THRESHOLD, in percent
  Deployments,      \* choices of tickets and workers, and of the two bounds below
  BatchSize,        \* RECONCILE_BATCH_SIZE, 50 in the code
  None              \* NULL

\* maxQueue bounds the messages that wait, maxFaults the lost messages and dying workers.
ASSUME BatchAssumption == BatchSize \in Nat \ {0}
ASSUME DeploymentsAssumption ==
  Deployments \subseteq [tickets : SUBSET Tickets, workers : SUBSET Workers,
                        maxQueue : Nat, maxFaults : Nat]
\* A row of tickets, as far as the classifier is concerned.
TicketRow == [status : {"OPEN", "CLOSED"}, category : Categories \cup {None}, human : BOOLEAN,
              ai : {"PENDING", "APPLIED", "LOW_CONFIDENCE", "FAILED", "SKIPPED"}]

ASSUME NoneAssumption ==
  None \notin Categories /\ None \notin Tickets /\ None \notin BOOLEAN /\ None \notin TicketRow

ASSUME TextsAssumption == \A x \in Texts : x \in [1..7 -> Nat]
ASSUME ThresholdAssumption == Threshold \in 0..100

VARIABLES
  deployment, \* one of Deployments, chosen once
  ticket,     \* ticket -> its row, None before it is created
  created,    \* the tickets in the order of created_at
  stale,      \* how many of them are older than AI_CLASSIFY_STALE_MINUTES
  queue,      \* the messages of the queue "ai", oldest first
  worker,     \* what each worker is doing: None, or a run
  started,    \* how many runs have begun; a run's number is its created_at
  records,    \* ticket -> its rows in ai_classifications
  faults      \* faults so far

vars == <<deployment, ticket, created, stale, queue, worker, started, records, faults>>

Exists(t)  == ticket[t] # None
Pending(t) == Exists(t) /\ ticket[t].ai = "PENDING"

Faulty == faults < deployment.maxFaults /\ faults' = faults + 1

-----------------------------------------------------------------------------
(***************************************************************************)
(* Getting on the queue.                                                   *)
(***************************************************************************)
Enqueue(messages) ==
  /\ Len(queue) + Len(messages) <= deployment.maxQueue
  /\ queue' = queue \o messages

\* create and, after its commit, _enqueue_classification: a broker that cannot be
\* reached loses the message and not the ticket.
Create(t, c) ==
  /\ t \in deployment.tickets /\ ~Exists(t)
  /\ ticket' = [ticket EXCEPT ![t] =
       [status |-> "OPEN", category |-> c, human |-> FALSE, ai |-> "PENDING"]]
  /\ created' = Append(created, t)
  /\ \/ Enqueue(<<t>>) /\ UNCHANGED faults
     \/ Faulty /\ UNCHANGED queue
  /\ UNCHANGED <<deployment, stale, worker, started, records>>

\* The clock passes the cutoff of one more ticket.
Age ==
  /\ stale < Len(created)
  /\ stale' = stale + 1
  /\ UNCHANGED <<deployment, ticket, created, queue, worker, started, records, faults>>

\* Mutant of StaleTickets: the decided ones are not filtered out.
StaleTicketsAll == SubSeq(created, 1, stale)

\* reconcile_pending: the oldest stale tickets that are still PENDING, as many as a
\* batch holds.
StaleTickets == SelectSeq(SubSeq(created, 1, stale), Pending)

Batch == SubSeq(StaleTickets, 1, IF Len(StaleTickets) < BatchSize
                                 THEN Len(StaleTickets) ELSE BatchSize)

Reconcile ==
  /\ Batch # <<>>
  /\ Enqueue(Batch)
  /\ UNCHANGED <<deployment, ticket, created, stale, worker, started, records, faults>>

-----------------------------------------------------------------------------
(***************************************************************************)
(* What the classifier makes of an answer of the LLM, or of a text without *)
(* one.  (A suggestion's priority is left to TicketLifecycle.)             *)
(***************************************************************************)
\* The order decides between rules that match equally well.
KEYWORD_RULES ==
  LET rule(slug, dominant) == [slug |-> slug, dominant |-> dominant]
  IN  <<rule("security", TRUE), rule("network", FALSE), rule("account", FALSE),
        rule("email", FALSE), rule("access", FALSE), rule("hardware", FALSE),
        rule("software", FALSE)>>

RULE_CONFIDENCE == 40

Suggestion(c, confidence) == [category |-> c, confidence |-> confidence]

\* classify of RuleBasedClassifier: a rule that wins against every other.
Wins(x, i, j) ==
  LET r == KEYWORD_RULES[i]
      q == KEYWORD_RULES[j]
  IN  \/ x[j] = 0
      \/ r.dominant /\ ~q.dominant
      \/ r.dominant = q.dominant /\ (x[i] > x[j] \/ (x[i] = x[j] /\ i <= j))

ByKeywords(x) ==
  IF \A i \in DOMAIN x : x[i] = 0 THEN None
  ELSE LET best == CHOOSE i \in DOMAIN x : x[i] > 0 /\ \A j \in DOMAIN x : Wins(x, i, j)
       IN  Suggestion(KEYWORD_RULES[best].slug, RULE_CONFIDENCE)

\* _fallback: not to a category that has been switched off.
Fallback(x) ==
  LET s == ByKeywords(x)
  IN  IF s # None /\ s.category \in Categories THEN s ELSE None

\* What the LLM may come up with, None for no answer after three attempts or for one that
\* is no JSON object, and a field None for what is missing or of another type.
Answers ==
  {None} \cup [category : Categories \cup {None, "nonsense"}, priority : {None, "HIGH"},
              confidence : {None, -1, RULE_CONFIDENCE, Threshold, 101}]

\* _validate: its category exists, its priority too, and its confidence is one.
Validated(answer) ==
  IF /\ answer # None
     /\ answer.category \in Categories
     /\ answer.priority # None
     /\ answer.confidence # None /\ answer.confidence \in 0..100
  THEN Suggestion(answer.category, answer.confidence) ELSE None

Suggested(answer, x) == IF Validated(answer) # None THEN Validated(answer) ELSE Fallback(x)

Suggestions == {Suggested(answer, x) : answer \in Answers, x \in Texts}

\* A row of ai_classifications as INSERTed.
Record(n, s, applied) ==
  [createdAt |-> n, applied |-> applied, accepted |-> None, corrected |-> None,
   suggested  |-> IF s = None THEN None ELSE s.category,
   confidence |-> IF s = None THEN None ELSE s.confidence]

-----------------------------------------------------------------------------
(***************************************************************************)
(* A worker: TicketClassifier.classify.                                    *)
(***************************************************************************)
\* Mutant of ToClassify: the ticket's status is not looked at.
ToClassifyAny(t) == Exists(t)

\* The first look at the ticket, if there is one, and at its ai_status, without a lock.
ToClassify(t) == t \in Tickets /\ Pending(t)

\* It takes the oldest message and reads the ticket.  One that is not PENDING any more
\* is left alone; for the others the LLM is asked, with no lock held.
Start(w) ==
  /\ w \in deployment.workers /\ worker[w] = None
  /\ queue # <<>>
  /\ queue' = Tail(queue)
  /\ LET t == Head(queue)
     IN  IF ToClassify(t)
         THEN /\ worker' = [worker EXCEPT ![w] = [ticket |-> t, number |-> started + 1]]
              /\ started' = started + 1
         ELSE UNCHANGED <<worker, started>>
  /\ UNCHANGED <<deployment, ticket, created, stale, records, faults>>

\* apply_ai_classification on the locked row: the status it returns.
ApplyResult(row) ==
  CASE row.ai # "PENDING"                                      -> row.ai
    [] row.ai = "PENDING" /\ (row.category # None \/ row.human) -> "SKIPPED"
    [] OTHER                                                   -> "APPLIED"

\* Mutant of Applied: the category is written before the status is looked at again.
AppliedUnchecked(row, c) == [row EXCEPT !.ai = "APPLIED", !.category = c]

\* Mutant of Applied: a person's choice keeps the category but not the status.
AppliedOverHuman(row, c) ==
  CASE row.ai # "PENDING"           -> row
    [] ApplyResult(row) = "SKIPPED" -> [row EXCEPT !.ai = "APPLIED"]
    [] OTHER                        -> [row EXCEPT !.ai = "APPLIED", !.category = c]

Applied(row, c) ==
  CASE row.ai # "PENDING"           -> row
    [] ApplyResult(row) = "SKIPPED" -> [row EXCEPT !.ai = "SKIPPED"]
    [] OTHER                        -> [row EXCEPT !.ai = "APPLIED", !.category = c]

\* mark_ai_status on the locked row.
Marked(row, s) == IF row.ai = "PENDING" THEN [row EXCEPT !.ai = s] ELSE row

\* _finish: the row of ai_classifications and the ticket in one transaction.
Finish(w, row, s, applied) ==
  LET run == worker[w]
  IN  /\ ticket' = [ticket EXCEPT ![run.ticket] = row]
      /\ records' = [records EXCEPT ![run.ticket] = @ \cup {Record(run.number, s, applied)}]
      /\ worker' = [worker EXCEPT ![w] = None]
      /\ UNCHANGED <<deployment, created, stale, queue, started, faults>>

\* A suggestion with enough confidence ...
FinishConfident(w, s) ==
  /\ worker[w] # None
  /\ s # None /\ s.confidence >= Threshold
  /\ LET row == ticket[worker[w].ticket]
     IN  Finish(w, Applied(row, s.category), s, ApplyResult(row) = "APPLIED")

\* ... with less than AI_CONFIDENCE_THRESHOLD (BR-14) ...
FinishUnsure(w, s) ==
  /\ worker[w] # None
  /\ s # None /\ s.confidence < Threshold
  /\ Finish(w, Marked(ticket[worker[w].ticket], "LOW_CONFIDENCE"), s, FALSE)

\* ... or none, neither from the LLM nor from the keyword rules.
FinishFailed(w) ==
  /\ worker[w] # None
  /\ Finish(w, Marked(ticket[worker[w].ticket], "FAILED"), None, FALSE)

\* The worker dies and, acks_late, its message is delivered again; or the task raises
\* or exceeds its time limit and the message is acknowledged: gone.  Its transaction
\* is rolled back.
Die(w) ==
  /\ worker[w] # None
  /\ Faulty
  /\ \/ Enqueue(<<worker[w].ticket>>)
     \/ UNCHANGED queue
  /\ worker' = [worker EXCEPT ![w] = None]
  /\ UNCHANGED <<deployment, ticket, created, stale, started, records>>

-----------------------------------------------------------------------------
(***************************************************************************)
(* The users.                                                              *)
(***************************************************************************)
AppliedRecords(t) == {r \in records[t] : r.applied}

\* ORDER BY created_at DESC LIMIT 1.
LatestApplied(t) ==
  CHOOSE r \in AppliedRecords(t) : \A q \in AppliedRecords(t) : q.createdAt <= r.createdAt

\* Mutant of Corrected: choosing the AI's category again does not undo the correction.
CorrectedForGood(r, c) == [r EXCEPT !.accepted = FALSE, !.corrected = c]

\* _record_ai_correction, for the new category c.
Corrected(r, c) ==
  IF r.suggested = c
  THEN [r EXCEPT !.accepted = None, !.corrected = None]
  ELSE [r EXCEPT !.accepted = FALSE, !.corrected = c]

RecordAiCorrection(t, c) ==
  IF AppliedRecords(t) = {} THEN records[t]
  ELSE (records[t] \ {LatestApplied(t)}) \cup {Corrected(LatestApplied(t), c)}

\* update of the category, by an agent or an admin, whatever the ticket's status.
Reclassify(t, c) ==
  /\ Exists(t)
  /\ ticket[t].category # c
  /\ ticket' = [ticket EXCEPT ![t].category = c, ![t].human = TRUE]
  /\ records' = [records EXCEPT ![t] = RecordAiCorrection(t, c)]
  /\ UNCHANGED <<deployment, created, stale, queue, worker, started, faults>>

\* update of the priority alone.
Reprioritise(t) ==
  /\ Exists(t)
  /\ ticket' = [ticket EXCEPT ![t].human = TRUE]
  /\ UNCHANGED <<deployment, created, stale, queue, worker, started, records, faults>>

\* Mutant of Settled: the records of corrected suggestions are settled too.
SettledAll(r) == IF r.applied THEN [r EXCEPT !.accepted = TRUE] ELSE r

\* _settle_ai_accuracy.
Settled(r) == IF r.applied /\ r.accepted = None THEN [r EXCEPT !.accepted = TRUE] ELSE r

\* The change_status to CLOSED, and auto_close_resolved.
Close(t) ==
  /\ Exists(t)
  /\ ticket[t].status = "OPEN"
  /\ ticket' = [ticket EXCEPT ![t].status = "CLOSED"]
  /\ records' = [records EXCEPT ![t] = {Settled(r) : r \in @}]
  /\ UNCHANGED <<deployment, created, stale, queue, worker, started, faults>>

-----------------------------------------------------------------------------
(***************************************************************************)
(* The accuracy report (US-22) over the runs after run n.                  *)
(***************************************************************************)
RunsSince(n) ==
  UNION {{[ticket |-> t, record |-> r] : r \in {q \in records[t] : q.createdAt > n}} : t \in Tickets}

\* A Bucket: what became of these runs.
Bucket(runs) ==
  [applied   |-> Cardinality({x \in runs : x.record.applied}),
   accepted  |-> Cardinality({x \in runs : x.record.accepted = TRUE}),
   corrected |-> Cardinality({x \in runs : x.record.accepted = FALSE})]

ByCategory(n) ==
  [c \in Categories |->
     Bucket({x \in RunsSince(n) : x.record.applied /\ x.record.suggested = c})]

\* What the AI chose, and what the ticket has now.
Confusion(n) ==
  [c \in Categories |-> [d \in Categories \cup {None} |->
     Cardinality({x \in RunsSince(n) :
       x.record.applied /\ x.record.suggested = c /\ ticket[x.ticket].category = d})]]

\* From the tickets: one may have had several runs.
StatusBreakdown ==
  LET statuses == {ticket[t].ai : t \in {x \in Tickets : Exists(x)}}
  IN  [s \in statuses |-> Cardinality({t \in Tickets : Exists(t) /\ ticket[t].ai = s})]

-----------------------------------------------------------------------------
Init ==
  /\ deployment \in Deployments
  /\ ticket = [t \in Tickets |-> None]
  /\ created = <<>>
  /\ stale = 0
  /\ queue = <<>>
  /\ worker = [w \in Workers |-> None]
  /\ started = 0
  /\ records = [t \in Tickets |-> {}]
  /\ faults = 0

Work(w) ==
  \/ \E s \in Suggestions : FinishConfident(w, s) \/ FinishUnsure(w, s)
  \/ FinishFailed(w)

Next ==
  \/ \E t \in Tickets, c \in Categories \cup {None} : Create(t, c)
  \/ Age
  \/ Reconcile
  \/ \E w \in Workers : Start(w) \/ Work(w) \/ Die(w)
  \/ \E t \in Tickets, c \in Categories : Reclassify(t, c)
  \/ \E t \in Tickets : Reprioritise(t) \/ Close(t)

Spec == Init /\ [][Next]_vars

(***************************************************************************)
(* The beat keeps running and time passes; a worker that is idle takes the *)
(* next message; the LLM call ends (it has a timeout and three attempts).  *)
(* Nothing is assumed of the users or of the first message.                *)
(***************************************************************************)
Fairness ==
  /\ WF_vars(Age)
  /\ WF_vars(Reconcile)
  /\ \A w \in Workers : WF_vars(Start(w)) /\ WF_vars(Work(w))

FairSpec == Spec /\ Fairness

-----------------------------------------------------------------------------
(***************************************************************************)
(* Properties.                                                             *)
(***************************************************************************)
\* A ticket is decided once: whatever runs are still on their way when it leaves
\* PENDING, and however late they finish, ai_status and the AI's choice stay.
DecidedOnce ==
  [][\A t \in Tickets : Exists(t) /\ ~Pending(t) =>
       /\ ticket'[t].ai = ticket[t].ai
       /\ ticket'[t].category # ticket[t].category => ticket'[t].human
     ]_vars

\* What the AI did to a ticket is on record: a ticket marked APPLIED has a record that
\* says so, and while no person has touched it that record names its category.  No such
\* record rests on keywords alone, or on an answer below the threshold (BR-14).
AppliedIsRecorded ==
  \A t \in Tickets :
    /\ Exists(t) /\ ticket[t].ai = "APPLIED" =>
         \E r \in AppliedRecords(t) : ticket[t].human \/ r.suggested = ticket[t].category
    /\ \A r \in AppliedRecords(t) : r.confidence > RULE_CONFIDENCE /\ r.confidence >= Threshold

\* A correction on the record that counts names the category the ticket has, also when
\* the category was changed several times and further runs finished meanwhile.
CorrectionsCurrent ==
  \A t \in Tickets : AppliedRecords(t) # {} =>
    LET r == LatestApplied(t)
    IN  r.accepted = FALSE => /\ r.corrected = ticket[t].category
                              /\ r.suggested # ticket[t].category

\* One worker does the runs one after the other.
Alone == Cardinality(deployment.workers) = 1

\* US-21/US-22: with one run at a time, the report's tables agree with the tickets and with
\* each other: for every category, the runs counted as wrong are those off the diagonal of
\* the confusion matrix (those applied less those on it), whatever was corrected, taken back
\* and closed in which order; and the AI handled as many tickets as have a run that was
\* applied.
AccuracyTruthful ==
  Alone =>
    /\ \A n \in 0..started : \A c \in Categories :
         /\ ByCategory(n)[c].corrected = ByCategory(n)[c].applied - Confusion(n)[c][c]
         /\ ByCategory(n)[c].accepted <= Confusion(n)[c][c]
    /\ Bucket(RunsSince(0)).applied =
         IF "APPLIED" \in DOMAIN StatusBreakdown THEN StatusBreakdown["APPLIED"] ELSE 0

\* Running the task again is safe (classify_ticket): one classification at most is
\* recorded as the one that was applied.
AppliedOnce == \A t \in Tickets : Cardinality(AppliedRecords(t)) <= 1

\* ADR-0007: no ticket stays PENDING for ever, although the message may be lost and
\* workers may die.
EveryTicketDecided == \A t \in Tickets : Exists(t) ~> ~Pending(t)
=============================================================================
