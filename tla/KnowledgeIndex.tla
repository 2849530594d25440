--------------------------- MODULE KnowledgeIndex ---------------------------
(***************************************************************************)
(* Articles of the knowledge base and the chunks the chatbot answers from  *)
(* (US-28, US-29).  An admin's request commits and then queues a task; a   *)
(* worker reads the article, deletes its chunks, waits for the embedding   *)
(* service and inserts new ones, all in one READ COMMITTED transaction.    *)
(* The hourly reconcile_stale_index does the same for every PUBLISHED      *)
(* article whose indexed_at is missing or older than its updated_at.       *)
(*                                                                         *)
(* func.now() is the START of the transaction, and every UPDATE of an      *)
(* article sets updated_at to it, the one that sets indexed_at included.   *)
(* The clock ticks when a writing request begins; an index run takes the   *)
(* tick it finds, which says which of those requests began before it.      *)
(***************************************************************************)
EXTENDS Integers, FiniteSets

CONSTANTS
  Articles, Requests, Workers,
  Deployments,      \* choices of articles and workers, and of maxTime, the bound on the
                    \* writing requests
  MaxQueue,         \* bound on the waiting tasks of one article
  MaxFaults,        \* bound on lost tasks, failing embeddings and dying workers
  None              \* NULL

ASSUME BoundsAssumption == MaxQueue \in Nat /\ MaxFaults \in Nat
ASSUME DeploymentsAssumption ==
  Deployments \subseteq [articles : SUBSET Articles, workers : SUBSET Workers, maxTime : Nat]
\* A row of kb_articles.
ArticleRow ==
  [status : {"DRAFT", "PUBLISHED", "ARCHIVED"}, content : Nat, version : Nat,
   updatedAt : Nat, indexedAt : Nat \cup {None}]

\* A row of article_chunks.
Chunk == [index : 0..2, content : Nat]

\* What a run has done to an article, and the run.
Done == [gone : SUBSET Chunk, added : SUBSET Chunk, mark : {"none", "cleared", "set"}]

RunRow == [task : BOOLEAN, at : Nat, seen : UNION {[S -> ArticleRow] : S \in SUBSET Articles},
           left : SUBSET Articles, current : Articles \cup {None}, snapshot : SUBSET Chunk,
           holds : BOOLEAN, done : UNION {[S -> Done] : S \in SUBSET Articles}]

ASSUME NoneAssumption ==
  None \notin Articles \cup Nat /\ None \notin ArticleRow /\ None \notin RunRow

VARIABLES
  deployment,  \* one of Deployments, chosen once
  article,     \* article -> its row, None before it is created
  chunks,      \* article -> its rows in article_chunks
  request,     \* what each API request is doing: None, or its transaction
  queued,      \* article -> its waiting index_article tasks
  worker,      \* what each worker is doing: None, or a run
  now,         \* the clock
  faults,      \* faults so far
  overlapped   \* history: the articles two transactions have ever worked on at once

vars == <<deployment, article, chunks, request, queued, worker, now, faults, overlapped>>

\* The text of an article is represented by the time it was written at.  Texts give one,
\* two or three chunks.
Pieces(content) == {[index |-> i, content |-> content] : i \in 0..(content % 3)}

Indexes(rows) == {c.index : c \in rows}

Exists(a)    == article[a] # None
Published(a) == Exists(a) /\ article[a].status = "PUBLISHED"

\* Mutant of IsIndexStale: an article that was never indexed does not count.
IsIndexStaleOnceIndexed(row) == row.indexedAt # None /\ row.indexedAt < row.updatedAt

\* is_index_stale, and the condition of reconcile_stale_index.
IsIndexStale(row) == row.indexedAt = None \/ row.indexedAt < row.updatedAt

Faulty == faults < MaxFaults /\ faults' = faults + 1

-----------------------------------------------------------------------------
(***************************************************************************)
(* Transactions at work on an article, and what they keep locked.          *)
(***************************************************************************)
Busy(a) ==
  \/ \E r \in Requests : request[r] # None /\ request[r].article = a
  \/ \E w \in Workers : worker[w] # None /\ a \in DOMAIN worker[w].seen

Overlap(S) == overlapped' = overlapped \cup {a \in S : Busy(a)}

Others(w) == {v \in Workers \ {w} : worker[v] # None}

\* The chunks of a that the run v has deleted and not committed.
Deleting(v, a) ==
  IF a \in DOMAIN worker[v].done THEN worker[v].done[a].gone
  ELSE IF worker[v].current = a /\ worker[v].holds THEN worker[v].snapshot ELSE {}

\* A DELETE of these rows does not wait.
Unlocked(w, a, rows) == \A v \in Others(w) : Deleting(v, a) \cap rows = {}

\* The run v has updated the row of a and not committed.
HoldsRow(v, a) ==
  worker[v] # None /\ a \in DOMAIN worker[v].done /\ worker[v].done[a].mark # "none"

\* An UPDATE of a, and an INSERT of its chunks, do not wait.
RowFree(w, a) == \A v \in Others(w) : ~HoldsRow(v, a)

-----------------------------------------------------------------------------
(***************************************************************************)
(* The API.                                                                *)
(***************************************************************************)
Create(a) ==
  /\ a \in deployment.articles /\ ~Exists(a)
  /\ now < deployment.maxTime
  /\ now' = now + 1
  /\ article' = [article EXCEPT ![a] =
       [status |-> "DRAFT", content |-> now + 1, version |-> 1,
        updatedAt |-> now + 1, indexedAt |-> None]]
  /\ UNCHANGED <<deployment, chunks, request, queued, worker, faults, overlapped>>

\* The checks of update, publish and unpublish, on the row as loaded.  update has the
\* version the admin's page shows, one of those the article has had.
Accepts(op, row, sent) ==
  CASE op = "update"    -> row.version = sent
    [] op = "publish"   -> row.status # "PUBLISHED"
    [] op = "unpublish" -> row.status = "PUBLISHED"
    [] op = "view"      -> row.status = "PUBLISHED"

\* A request begins and reads the article; get_by_slug, which counts a view, has
\* nothing to write that the clock matters for.
Begin(r, op, a) ==
  /\ request[r] = None /\ Exists(a)
  /\ \E sent \in 1..article[a].version : Accepts(op, article[a], sent)
  /\ IF op = "view" THEN UNCHANGED now ELSE now < deployment.maxTime /\ now' = now + 1
  /\ request' = [request EXCEPT ![r] =
       [op |-> op, article |-> a, seen |-> article[a], at |-> now']]
  /\ Overlap({a})
  /\ UNCHANGED <<deployment, article, chunks, queued, worker, faults>>

\* Mutant of Stored: the text is changed by a statement that leaves updated_at alone.
StoredUntouched(q, row) ==
  CASE q.op = "update" -> [row EXCEPT !.content = q.at, !.version = q.seen.version + 1]
    [] q.op = "view"   -> [row EXCEPT !.updatedAt = q.seen.updatedAt]
    [] OTHER           -> [row EXCEPT !.status = IF q.op = "publish" THEN "PUBLISHED"
                                                 ELSE "ARCHIVED",
                                      !.version = q.seen.version + 1, !.updatedAt = q.at]

\* The UPDATE of a request: the columns it has changed, the version counted in Python
\* from the one it read, and updated_at; increment_view puts back what it read.
Stored(q, row) ==
  CASE q.op = "update"    -> [row EXCEPT !.content = q.at, !.version = q.seen.version + 1,
                                         !.updatedAt = q.at]
    [] q.op = "publish"   -> [row EXCEPT !.status = "PUBLISHED",
                                         !.version = q.seen.version + 1, !.updatedAt = q.at]
    [] q.op = "unpublish" -> [row EXCEPT !.status = "ARCHIVED",
                                         !.version = q.seen.version + 1, !.updatedAt = q.at]
    [] q.op = "view"      -> [row EXCEPT !.updatedAt = q.seen.updatedAt]

\* Mutant of Schedules: withdrawing an article leaves its chunks to the retriever.
SchedulesPublished(q) ==
  q.op = "publish" \/ (q.op = "update" /\ q.seen.status = "PUBLISHED")

\* Which requests queue a task; update looks at the status it read.
Schedules(q) ==
  q.op \in {"publish", "unpublish"} \/ (q.op = "update" /\ q.seen.status = "PUBLISHED")

\* _schedule_index: a broker that cannot be reached loses the task.
ScheduleIndex(a) ==
  \/ /\ queued[a] < MaxQueue
     /\ queued' = [queued EXCEPT ![a] = @ + 1]
     /\ UNCHANGED faults
  \/ Faulty /\ UNCHANGED queued

Commit(r) ==
  /\ request[r] # None
  /\ LET q == request[r]
     IN  /\ \A w \in Workers : ~HoldsRow(w, q.article)
         /\ article' = [article EXCEPT ![q.article] = Stored(q, @)]
         /\ IF Schedules(q) THEN ScheduleIndex(q.article) ELSE UNCHANGED <<queued, faults>>
  /\ request' = [request EXCEPT ![r] = None]
  /\ UNCHANGED <<deployment, chunks, worker, now, overlapped>>

RequestReindex(a) ==
  /\ Exists(a)
  /\ ScheduleIndex(a)
  /\ UNCHANGED <<deployment, article, chunks, request, worker, now, overlapped>>

-----------------------------------------------------------------------------
(***************************************************************************)
(* The workers.                                                            *)
(***************************************************************************)
Run(task, S) ==
  [task |-> task, at |-> now, seen |-> [a \in S |-> article[a]], left |-> S,
   current |-> None, snapshot |-> {}, holds |-> FALSE, done |-> <<>>]

\* The task index_article reads its article ...
StartTask(w, a) ==
  /\ w \in deployment.workers /\ worker[w] = None /\ queued[a] > 0
  /\ queued' = [queued EXCEPT ![a] = @ - 1]
  /\ worker' = [worker EXCEPT ![w] = Run(TRUE, {a})]
  /\ Overlap({a})
  /\ UNCHANGED <<deployment, article, chunks, request, now, faults>>

\* ... and reconcile_stale_index all the articles it is going to index: session.get
\* finds them in the session afterwards and does not read them again.
StaleArticles == {a \in Articles : Published(a) /\ IsIndexStale(article[a])}

StartReconcile(w) ==
  /\ w \in deployment.workers /\ worker[w] = None /\ StaleArticles # {}
  /\ worker' = [worker EXCEPT ![w] = Run(FALSE, StaleArticles)]
  /\ Overlap(StaleArticles)
  /\ UNCHANGED <<deployment, article, chunks, request, queued, now, faults>>

\* _delete_chunks deletes the rows its statement sees, when it has locked them.
DeleteChunks(w, a) ==
  /\ worker[w] # None /\ a \in worker[w].left /\ worker[w].current = None
  /\ worker' = [worker EXCEPT
       ![w].left = @ \ {a}, ![w].current = a, ![w].snapshot = chunks[a],
       ![w].holds = Unlocked(w, a, chunks[a])]
  /\ UNCHANGED <<deployment, article, chunks, request, queued, now, faults, overlapped>>

Working(w) == worker[w] # None /\ worker[w].current # None

GetLock(w) ==
  /\ Working(w) /\ ~worker[w].holds
  /\ Unlocked(w, worker[w].current, worker[w].snapshot)
  /\ worker' = [worker EXCEPT ![w].holds = TRUE]
  /\ UNCHANGED <<deployment, article, chunks, request, queued, now, faults, overlapped>>

Indexing(w, b) ==
  /\ Working(w) /\ worker[w].holds
  /\ (worker[w].seen[worker[w].current].status = "PUBLISHED") = b

\* The article is dealt with: what the run has done to it so far.
NextArticle(w, added, mark) ==
  LET run == worker[w]
      new == [gone |-> run.snapshot, added |-> added, mark |-> mark]
  IN  [run EXCEPT !.current = None, !.snapshot = {}, !.holds = FALSE,
         !.done = [a \in DOMAIN @ \cup {run.current} |-> IF a = run.current THEN new ELSE @[a]]]

\* An article that is not PUBLISHED keeps no chunks; a NULL indexed_at is not written
\* again.
RemoveFromIndex(w) ==
  /\ Indexing(w, FALSE)
  /\ RowFree(w, worker[w].current)
  /\ worker' = [worker EXCEPT ![w] = NextArticle(w, {},
       IF @.seen[@.current].indexedAt = None THEN "none" ELSE "cleared")]
  /\ UNCHANGED <<deployment, article, chunks, request, queued, now, faults, overlapped>>

\* Mutant of Collides: article_chunks has no UNIQUE (article_id, chunk_index).
CollidesNever(rows, added) == FALSE

\* UNIQUE (article_id, chunk_index).
Collides(rows, added) == Indexes(rows) \cap Indexes(added) # {}

\* The embeddings are here: INSERT the chunks, UPDATE indexed_at.
Embedded(w) ==
  /\ Indexing(w, TRUE)
  /\ LET run   == worker[w]
         a     == run.current
         added == Pieces(run.seen[a].content)
     IN  /\ RowFree(w, a)
         \* An IntegrityError ends the run, also a reconcile: its session is of no use any
         \* more.  Nothing retries it.
         /\ worker' = [worker EXCEPT ![w] =
              IF Collides(chunks[a] \ run.snapshot, added) THEN None
              ELSE NextArticle(w, added, "set")]
  /\ UNCHANGED <<deployment, article, chunks, request, queued, now, faults, overlapped>>

\* The task's message comes again (acks_late, autoretry_for) or not.
EndRun(w) ==
  /\ worker' = [worker EXCEPT ![w] = None]
  /\ LET S == IF worker[w].task THEN DOMAIN worker[w].seen ELSE {}
     IN  \/ UNCHANGED queued
         \/ \E a \in S : queued[a] < MaxQueue /\ queued' = [queued EXCEPT ![a] = @ + 1]

\* embed() raises.  A task is rolled back; reindex_all catches it and goes on, the
\* chunks of that article deleted.
EmbedFails(w) ==
  /\ Indexing(w, TRUE)
  /\ Faulty
  /\ IF worker[w].task
     THEN EndRun(w)
     ELSE worker' = [worker EXCEPT ![w] = NextArticle(w, {}, "none")] /\ UNCHANGED queued
  /\ UNCHANGED <<deployment, article, chunks, request, now, overlapped>>

Die(w) ==
  /\ worker[w] # None
  /\ Faulty
  /\ EndRun(w)
  /\ UNCHANGED <<deployment, article, chunks, request, now, overlapped>>

Marked(row, mark, at) ==
  CASE mark = "none"    -> row
    [] mark = "cleared" -> [row EXCEPT !.indexedAt = None, !.updatedAt = at]
    [] mark = "set"     -> [row EXCEPT !.indexedAt = at, !.updatedAt = at]

\* The commit of session_scope.  Rows that were deleted are no longer there for the
\* statements that wait for them.
CommitRun(w) ==
  /\ worker[w] # None /\ worker[w].left = {} /\ worker[w].current = None
  /\ LET run  == worker[w]
         done == run.done
     IN  /\ chunks' = [a \in Articles |->
              IF a \in DOMAIN done THEN (chunks[a] \ done[a].gone) \cup done[a].added
              ELSE chunks[a]]
         /\ article' = [a \in Articles |->
              IF a \in DOMAIN done THEN Marked(article[a], done[a].mark, run.at)
              ELSE article[a]]
         /\ worker' = [v \in Workers |->
              CASE v = w -> None
                [] v # w /\ Working(v) /\ worker[v].current \in DOMAIN done ->
                     [worker[v] EXCEPT !.snapshot = @ \ done[worker[v].current].gone]
                [] OTHER -> worker[v]]
  /\ UNCHANGED <<deployment, request, queued, now, faults, overlapped>>

-----------------------------------------------------------------------------
Init ==
  /\ deployment \in Deployments
  /\ article = [a \in Articles |-> None]
  /\ chunks = [a \in Articles |-> {}]
  /\ request = [r \in Requests |-> None]
  /\ queued = [a \in Articles |-> 0]
  /\ worker = [w \in Workers |-> None]
  /\ now = 0 /\ faults = 0 /\ overlapped = {}

Work(w) ==
  \/ \E a \in Articles : DeleteChunks(w, a)
  \/ GetLock(w) \/ RemoveFromIndex(w) \/ Embedded(w) \/ CommitRun(w)

Next ==
  \/ \E a \in Articles : Create(a) \/ RequestReindex(a)
  \/ \E r \in Requests, a \in Articles :
       \E op \in {"update", "publish", "unpublish", "view"} : Begin(r, op, a)
  \/ \E r \in Requests : Commit(r)
  \/ \E w \in Workers, a \in Articles : StartTask(w, a)
  \/ \E w \in Workers : StartReconcile(w) \/ Work(w) \/ EmbedFails(w) \/ Die(w)

Spec == Init /\ [][Next]_vars

(***************************************************************************)
(* A run that has begun goes on: the embedding call ends, locks are given  *)
(* up.  The beat puts a reconcile on the same first-in-first-out queue the *)
(* tasks are on, every hour, so that again and again one gets its turn.    *)
(***************************************************************************)
FairSpec ==
  /\ Spec
  /\ \A w \in Workers : WF_vars(Work(w))
  /\ SF_vars(\E w \in Workers : StartReconcile(w))

-----------------------------------------------------------------------------
(***************************************************************************)
(* Properties.                                                             *)
(***************************************************************************)
\* "Delete all, then create": whatever runs overlap, die or fail, an article's chunks
\* are none or all those of one text, never a mixture of two runs.
ChunksWhole ==
  \A a \in Articles : chunks[a] # {} =>
    \E c \in chunks[a] : chunks[a] = Pieces(c.content)

\* What the editor's badge says (is_index_stale): an article that does not count as
\* stale is answered from its present text.
BadgeTrue(a) ==
  Published(a) /\ ~IsIndexStale(article[a]) => chunks[a] = Pieces(article[a].content)

\* It holds of every article no two transactions have worked on at the same time,
\* whatever was lost, died or failed.
BadgeTruthfulAlone == \A a \in Articles \ overlapped : BadgeTrue(a)

\* It should hold of every article when its requests and tasks are done: otherwise
\* reconcile_stale_index will never look at it again.
BadgeTruthful == \A a \in Articles : queued[a] = 0 /\ ~Busy(a) => BadgeTrue(a)

\* BR-11, BR-12: an article that was withdrawn has left the index when its tasks are
\* done, unless a fault lost one or transactions overlapped.
WithdrawnIsForgotten ==
  \A a \in Articles \ overlapped :
    /\ Exists(a) /\ ~Published(a)
    /\ queued[a] = 0 /\ ~Busy(a) /\ faults = 0
    => chunks[a] = {}

\* ADR-0007: an article that is published and was never indexed gets indexed, although
\* its task may be lost and runs may fail, die and collide.
PublishedGetsIndexed ==
  \A a \in Articles :
    (Published(a) /\ article[a].indexedAt = None)
      ~> (~Published(a) \/ article[a].indexedAt # None)
=============================================================================
