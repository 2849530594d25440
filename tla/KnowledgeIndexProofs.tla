------------------------ MODULE KnowledgeIndexProofs ------------------------
(***************************************************************************)
(* The index of the knowledge base, for any articles, requests, workers,   *)
(* tasks and faults.                                                       *)
(*                                                                         *)
(* ChunksWhole holds of every article: what a run deletes and what it      *)
(* inserts is whole, and a run that inserts has found nothing left beside  *)
(* what it deletes (Settled), which the UNIQUE index and the lock on the   *)
(* article's row keep true until it commits.  The two properties of        *)
(* articles that were never worked on twice at once need to know that the  *)
(* one transaction at work still sees the article as it is (Undisturbed).  *)
(***************************************************************************)
EXTENDS KnowledgeIndex, TLAPS

RequestRow == [op : {"update", "publish", "unpublish", "view"}, article : Articles,
               seen : ArticleRow, at : Nat]

Types ==
  /\ deployment \in Deployments
  /\ article \in [Articles -> ArticleRow \cup {None}]
  /\ chunks \in [Articles -> SUBSET Chunk]
  /\ request \in [Requests -> RequestRow \cup {None}]
  /\ queued \in [Articles -> Nat]
  /\ worker \in [Workers -> RunRow \cup {None}]
  /\ now \in Nat /\ faults \in Nat /\ overlapped \subseteq Articles

Whole(rows) == rows = {} \/ \E c \in Nat : rows = Pieces(c)

\* What a run has done to an article it saw as row.
Fair(d, row, task) ==
  /\ Whole(d.gone)
  /\ d.mark = "set" => row.status = "PUBLISHED" /\ d.added = Pieces(row.content)
  /\ d.mark # "set" => d.added = {}
  /\ d.mark = "none" /\ row.status = "PUBLISHED" => ~task

Sound(run) ==
  /\ run.left \subseteq DOMAIN run.seen /\ DOMAIN run.done \subseteq DOMAIN run.seen
  /\ run.current # None => run.current \in DOMAIN run.seen
  /\ DOMAIN run.seen \subseteq run.left \cup DOMAIN run.done \cup {run.current}
  /\ Whole(run.snapshot)
  /\ \A a \in DOMAIN run.done : Fair(run.done[a], run.seen[a], run.task)
  /\ run.task => \E a \in Articles : DOMAIN run.seen = {a}
  /\ ~run.task => \A a \in DOMAIN run.seen :
       run.seen[a].status = "PUBLISHED" /\ IsIndexStale(run.seen[a])

\* An article with these chunks is going to have those of the run alone.
Settled(run, a, rows) ==
  a \in DOMAIN run.done /\ run.done[a].mark = "set" => rows \subseteq run.done[a].gone

\* The article and its chunks are as the run has seen them.
Fresh(run, a, row, rows) ==
  /\ run.seen[a] = row
  /\ run.current = a => run.snapshot = rows
  /\ a \in DOMAIN run.done => run.done[a].gone = rows

\* The article is as the request has seen it.
FreshRequest(q, row) ==
  q.seen = row /\ (q.op # "view" => row.indexedAt = None \/ row.indexedAt < q.at)

\* A request, or a run, at work on the article.
For(q, a)  == q # None /\ q.article = a
On(run, a) == run # None /\ a \in DOMAIN run.seen

Existing ==
  /\ \A a \in Articles : queued[a] > 0 => Exists(a)
  /\ \A a \in Articles : ~Exists(a) => chunks[a] = {}
  /\ \A r \in Requests : request[r] # None => Exists(request[r].article)
  /\ \A w \in Workers : worker[w] # None => \A a \in DOMAIN worker[w].seen : Exists(a)

Past ==
  /\ \A a \in Articles : Exists(a) => article[a].indexedAt \in (0..now) \cup {None}
  /\ \A w \in Workers : worker[w] # None => worker[w].at <= now

Runs ==
  /\ \A w \in Workers : worker[w] # None =>
       Sound(worker[w]) /\ \A a \in Articles : Settled(worker[w], a, chunks[a])
  /\ \A v, w \in Workers, a \in Articles : HoldsRow(v, a) /\ HoldsRow(w, a) => v = w
  /\ \A a \in Articles : Whole(chunks[a])

\* One transaction at most is at work on the article, ...
OneAtWork(a) ==
  /\ \A r, q \in Requests : For(request[r], a) /\ For(request[q], a) => r = q
  /\ \A v, w \in Workers : On(worker[v], a) /\ On(worker[w], a) => v = w
  /\ \A r \in Requests, w \in Workers : ~(For(request[r], a) /\ On(worker[w], a))

\* ... it sees it as it is, ...
AsSeen(a) ==
  /\ \A r \in Requests : For(request[r], a) => FreshRequest(request[r], article[a])
  /\ \A w \in Workers : On(worker[w], a) => Fresh(worker[w], a, article[a], chunks[a])

\* ... and what is left of a withdrawn one will go.
Leaving(a) ==
  faults = 0 /\ Exists(a) /\ ~Published(a) /\ chunks[a] # {} =>
    queued[a] > 0 \/ \E w \in Workers : On(worker[w], a) /\ worker[w].task

Undisturbed ==
  \A a \in Articles \ overlapped : OneAtWork(a) /\ AsSeen(a) /\ BadgeTrue(a) /\ Leaving(a)

IInv == Types /\ Existing /\ Past /\ Runs /\ Undisturbed

-----------------------------------------------------------------------------
(***************************************************************************)
(* Chunks.                                                                 *)
(***************************************************************************)
LEMMA PieceFacts ==
  ASSUME NEW c \in Nat
  PROVE  /\ Pieces(c) \subseteq Chunk /\ Pieces(c) # {}
         /\ 0 \in Indexes(Pieces(c))
         /\ \A p \in Pieces(c) : p.content = c
<1>1. c % 3 \in 0..2
  OBVIOUS
<1>2. [index |-> 0, content |-> c] \in Pieces(c)
  BY <1>1 DEF Pieces
<1>3. \A p \in Pieces(c) : p \in Chunk /\ p.content = c
  BY <1>1 DEF Pieces, Chunk
<1> QED BY <1>2, <1>3 DEF Indexes

LEMMA WholeMinus ==
  ASSUME NEW S, NEW T, Whole(S), Whole(T)
  PROVE  Whole(S \ T) /\ (S \ T # {} => S \ T = S)
<1>1. CASE S \ T = {}
  BY <1>1 DEF Whole
<1>2. CASE S \ T # {}
  <2>1. PICK c \in Nat : S = Pieces(c)
    BY <1>2 DEF Whole
  <2>2. CASE T = {}
    BY <2>2
  <2>3. ASSUME NEW d \in Nat, T = Pieces(d)  PROVE S \ T = S
    <3>1. c # d
      BY <1>2, <2>1, <2>3
    <3>2. \A p \in S : p \notin T
      BY <2>1, <2>3, <3>1, PieceFacts
    <3> QED BY <3>2
  <2> QED BY <2>2, <2>3 DEF Whole
<1> QED BY <1>1, <1>2

\* Two texts cannot both have chunks: each has a first one.
LEMMA WholesCollide ==
  ASSUME NEW S, NEW T, Whole(S), Whole(T), NEW c \in Nat, ~Collides(S \ T, Pieces(c))
  PROVE  S \subseteq T
<1> SUFFICES ASSUME S \ T # {}  PROVE FALSE
  OBVIOUS
<1>1. PICK d \in Nat : S \ T = Pieces(d)
  BY WholeMinus DEF Whole
<1> QED BY <1>1, PieceFacts DEF Collides

-----------------------------------------------------------------------------
(***************************************************************************)
(* What becomes of one run.                                                *)
(***************************************************************************)
LEMMA RunIsSound ==
  ASSUME Types, Past, NEW task \in BOOLEAN, NEW S \in SUBSET Articles,
         \A a \in S : Exists(a),
         task => \E a \in Articles : S = {a},
         ~task => \A a \in S : Published(a) /\ IsIndexStale(article[a])
  PROVE  LET run == Run(task, S)
         IN  /\ run \in RunRow /\ Sound(run)
             /\ run.task = task /\ run.at = now /\ DOMAIN run.seen = S /\ DOMAIN run.done = {}
             /\ run.current = None /\ \A a \in S : run.seen[a] = article[a]
<1> DEFINE run == Run(task, S)
           seen == [a \in S |-> article[a]]
<1>1. seen \in [S -> ArticleRow]
  BY DEF Types, Exists
<1>2. <<>> \in [{} -> Done]
  OBVIOUS
<1>3. /\ seen \in UNION {[R -> ArticleRow] : R \in SUBSET Articles}
      /\ <<>> \in UNION {[R -> Done] : R \in SUBSET Articles}
      /\ DOMAIN <<>> = {}
  BY <1>1, <1>2
<1>4. run = [task |-> task, at |-> now, seen |-> seen, left |-> S, current |-> None,
             snapshot |-> {}, holds |-> FALSE, done |-> <<>>]
  BY DEF Run
<1>5. run \in RunRow
  <2> DEFINE none == <<>>
             Views == UNION {[R -> ArticleRow] : R \in SUBSET Articles}
             Dones == UNION {[R -> Done] : R \in SUBSET Articles}
  <2>1. seen \in Views /\ none \in Dones /\ now \in Nat
    BY <1>3 DEF Types
  <2>2. run = [task |-> task, at |-> now, seen |-> seen, left |-> S, current |-> None,
               snapshot |-> {}, holds |-> FALSE, done |-> none]
    BY <1>4
  <2>3. RunRow = [task : BOOLEAN, at : Nat, seen : Views, left : SUBSET Articles,
                  current : Articles \cup {None}, snapshot : SUBSET Chunk,
                  holds : BOOLEAN, done : Dones]
    BY DEF RunRow
  <2> HIDE DEF none, Views, Dones, seen, run
  <2> QED BY <2>1, <2>2, <2>3
<1>6. /\ run.task = task /\ run.at = now /\ run.seen = seen /\ run.left = S
      /\ run.current = None /\ run.snapshot = {} /\ run.done = <<>>
  BY <1>4
<1>7. DOMAIN seen = S /\ \A a \in S : seen[a] = article[a]
  OBVIOUS
<1> HIDE DEF run, seen
<1>8. Sound(run)
  <2>1. \A a \in DOMAIN run.done : Fair(run.done[a], run.seen[a], run.task)
    BY <1>3, <1>6
  <2>2. ~run.task => \A a \in DOMAIN run.seen :
          run.seen[a].status = "PUBLISHED" /\ IsIndexStale(run.seen[a])
    BY <1>6, <1>7 DEF Published
  <2> QED BY <1>3, <1>6, <1>7, <2>1, <2>2 DEF Sound, Whole
<1> QED BY <1>3, <1>5, <1>6, <1>7, <1>8 DEF run

\* An article is dealt with.
LEMMA NextArticleIsSound ==
  ASSUME Types, NEW w \in Workers, worker[w] # None, Sound(worker[w]),
         worker[w].current # None, NEW added \in SUBSET Chunk,
         NEW mark \in {"none", "cleared", "set"},
         Fair([gone |-> worker[w].snapshot, added |-> added, mark |-> mark],
              worker[w].seen[worker[w].current], worker[w].task)
  PROVE  LET run == worker[w]
             new == NextArticle(w, added, mark)
         IN  /\ new \in RunRow /\ Sound(new)
             /\ new.task = run.task /\ new.at = run.at /\ new.seen = run.seen
             /\ new.current = None
             /\ DOMAIN new.done = DOMAIN run.done \cup {run.current}
             /\ \A a \in DOMAIN new.done :
                  new.done[a] = IF a = run.current
                                THEN [gone |-> run.snapshot, added |-> added, mark |-> mark]
                                ELSE run.done[a]
<1> DEFINE run == worker[w]
           d == [gone |-> run.snapshot, added |-> added, mark |-> mark]
           done == [a \in DOMAIN run.done \cup {run.current} |->
                      IF a = run.current THEN d ELSE run.done[a]]
           new == NextArticle(w, added, mark)
<1>1. run \in RunRow /\ run.current \in Articles
  BY DEF Types, RunRow
<1>2. d \in Done
  BY <1>1 DEF Done, RunRow
<1>3. PICK S \in SUBSET Articles : run.done \in [S -> Done]
  BY <1>1 DEF RunRow
<1> DEFINE T == S \cup {run.current}
<1>4. T \in SUBSET Articles /\ done \in [T -> Done]
  BY <1>1, <1>2, <1>3
<1>5. done \in UNION {[R -> Done] : R \in SUBSET Articles}
  BY <1>4
<1>6. new = [[[[run EXCEPT !.current = None] EXCEPT !.snapshot = {}] EXCEPT !.holds = FALSE]
             EXCEPT !.done = done]
  BY DEF NextArticle
<1>7. /\ DOMAIN done = DOMAIN run.done \cup {run.current}
      /\ \A a \in DOMAIN done : done[a] = IF a = run.current THEN d ELSE run.done[a]
  OBVIOUS
<1> HIDE DEF done, d, new
<1>8. /\ new \in RunRow
      /\ new.task = run.task /\ new.at = run.at /\ new.seen = run.seen /\ new.left = run.left
      /\ new.current = None /\ new.snapshot = {} /\ new.done = done
  BY <1>1, <1>5, <1>6 DEF RunRow
<1>9. Fair(d, run.seen[run.current], run.task)
  BY DEF d
<1>10. \A a \in DOMAIN done : Fair(done[a], run.seen[a], run.task)
  BY <1>7, <1>9 DEF Sound
<1>11. Sound(new)
  BY <1>7, <1>8, <1>10 DEF Sound, Whole
<1> QED BY <1>7, <1>8, <1>11 DEF d, new

-----------------------------------------------------------------------------
(***************************************************************************)
(* Steps of a run before its commit, and its end without one.              *)
(***************************************************************************)
\* The run of w goes on as new.
GoesOn(w, new) ==
  /\ worker' = [worker EXCEPT ![w] = new]
  /\ UNCHANGED <<deployment, article, chunks, request, queued, now, overlapped>>

LEMMA GoesOnKeeps ==
  ASSUME IInv, NEW w \in Workers, worker[w] # None, NEW new \in RunRow, GoesOn(w, new),
         faults' \in Nat, faults' = 0 => faults = 0,
         Sound(new), new.task = worker[w].task, new.at = worker[w].at, new.seen = worker[w].seen,
         \A a \in Articles : Settled(new, a, chunks[a]),
         \A a \in Articles : a \in DOMAIN new.done /\ new.done[a].mark # "none" =>
            \A v \in Workers \ {w} : ~HoldsRow(v, a),
         \A a \in Articles \ overlapped : On(worker[w], a) => Fresh(new, a, article[a], chunks[a])
  PROVE  IInv'
<1>1. /\ worker'[w] = new /\ \A v \in Workers : v # w => worker'[v] = worker[v]
      /\ UNCHANGED <<deployment, article, chunks, request, queued, now, overlapped>>
  BY DEF GoesOn, IInv, Types
<1>2. Types'
  BY DEF GoesOn, IInv, Types
<1>3. Existing'
  BY <1>1 DEF IInv, Existing, Exists
<1>4. Past'
  BY <1>1 DEF IInv, Past, Exists
<1>5. Runs'
  <2>1. ASSUME NEW v \in Workers, worker'[v] # None
        PROVE  Sound(worker'[v]) /\ \A a \in Articles : Settled(worker'[v], a, chunks'[a])
    BY <1>1, <2>1 DEF IInv, Runs
  <2>2. ASSUME NEW u \in Workers, NEW v \in Workers, NEW a \in Articles,
               HoldsRow(u, a)', HoldsRow(v, a)'
        PROVE  u = v
    BY <1>1, <2>2 DEF IInv, Runs, HoldsRow
  <2> QED BY <1>1, <2>1, <2>2 DEF IInv, Runs
<1>6. Undisturbed'
  <2> SUFFICES ASSUME NEW a \in Articles \ overlapped
               PROVE  OneAtWork(a)' /\ AsSeen(a)' /\ BadgeTrue(a)' /\ Leaving(a)'
    BY <1>1 DEF Undisturbed
  <2>0. OneAtWork(a) /\ AsSeen(a) /\ BadgeTrue(a) /\ Leaving(a)
    BY DEF IInv, Undisturbed
  <2>1. \A r \in Requests : For(request'[r], a) <=> For(request[r], a)
    BY <1>1 DEF For
  <2>2. \A v \in Workers : /\ On(worker'[v], a) <=> On(worker[v], a)
                           /\ worker[v] # None => worker'[v].task = worker[v].task
    BY <1>1, NoneAssumption DEF On
  <2>3. OneAtWork(a)'
    BY <2>0, <2>1, <2>2 DEF OneAtWork
  <2>4. ASSUME NEW v \in Workers, On(worker[v], a)
        PROVE  Fresh(worker'[v], a, article[a], chunks[a])
    <3>1. CASE v = w
      BY <1>1, <2>4, <3>1
    <3>2. CASE v # w
      BY <1>1, <2>0, <2>4, <3>2 DEF AsSeen
    <3> QED BY <3>1, <3>2
  <2>5. AsSeen(a)'
    BY <1>1, <2>0, <2>1, <2>2, <2>4 DEF AsSeen
  <2>6. BadgeTrue(a)'
    BY <1>1, <2>0 DEF BadgeTrue, Published, Exists
  <2>7. Leaving(a)'
    <3>1. ASSUME NEW v \in Workers, On(worker[v], a), worker[v].task
          PROVE  On(worker'[v], a) /\ worker'[v].task
      <4>1. worker'[v] # None /\ a \in DOMAIN worker'[v].seen /\ worker'[v].task = worker[v].task
        BY <2>2, <3>1 DEF On
      <4>2. worker'[v].task
        BY <3>1, <4>1, Zenon
      <4> QED BY <4>1, <4>2 DEF On
    <3> QED BY <1>1, <2>0, <3>1 DEF Leaving, Published, Exists
  <2> QED BY <2>3, <2>5, <2>6, <2>7
<1> QED BY <1>2, <1>3, <1>4, <1>5, <1>6 DEF IInv

\* The run of w ends without a commit; tasks may be queued again.
LEMMA EndKeeps ==
  ASSUME IInv, NEW w \in Workers, worker[w] # None,
         worker' = [worker EXCEPT ![w] = None],
         UNCHANGED <<deployment, article, chunks, request, now, overlapped>>,
         queued' \in [Articles -> Nat],
         \A a \in Articles : queued'[a] >= queued[a],
         \A a \in Articles : queued'[a] # queued[a] => Exists(a),
         faults' \in Nat,
         \/ faults' # 0
         \/ faults' = faults /\ (worker[w].task => \A a \in DOMAIN worker[w].seen \ overlapped : Published(a))
  PROVE  IInv'
<1>1. /\ worker'[w] = None /\ \A v \in Workers : v # w => worker'[v] = worker[v]
      /\ UNCHANGED <<deployment, article, chunks, request, now, overlapped>>
  BY DEF IInv, Types
<1>2. Types'
  BY DEF IInv, Types
<1>3. Existing'
  <2>1. \A a \in Articles : queued'[a] > 0 => Exists(a)
    BY DEF IInv, Existing, Types
  <2> QED BY <1>1, <2>1 DEF IInv, Existing, Exists
<1>4. Past'
  BY <1>1 DEF IInv, Past, Exists
<1>5. Runs'
  <2>1. ASSUME NEW u \in Workers, NEW v \in Workers, NEW a \in Articles,
               HoldsRow(u, a)', HoldsRow(v, a)'
        PROVE  u = v
    BY <1>1, <2>1 DEF IInv, Runs, HoldsRow
  <2> QED BY <1>1, <2>1 DEF IInv, Runs
<1>6. Undisturbed'
  <2> SUFFICES ASSUME NEW a \in Articles \ overlapped
               PROVE  OneAtWork(a)' /\ AsSeen(a)' /\ BadgeTrue(a)' /\ Leaving(a)'
    BY <1>1 DEF Undisturbed
  <2>0. OneAtWork(a) /\ AsSeen(a) /\ BadgeTrue(a) /\ Leaving(a)
    BY DEF IInv, Undisturbed
  <2>1. \A r \in Requests : For(request'[r], a) <=> For(request[r], a)
    BY <1>1 DEF For
  <2>2. \A v \in Workers : /\ On(worker'[v], a) => v # w /\ On(worker[v], a)
                           /\ v # w => (On(worker'[v], a) <=> On(worker[v], a))
    BY <1>1 DEF On
  <2>3. OneAtWork(a)'
    BY <2>0, <2>1, <2>2 DEF OneAtWork
  <2>4. AsSeen(a)'
    BY <1>1, <2>0, <2>1, <2>2 DEF AsSeen
  <2>5. BadgeTrue(a)'
    BY <1>1, <2>0 DEF BadgeTrue, Published, Exists
  <2>6. Leaving(a)'
    <3> SUFFICES ASSUME faults' = 0, Exists(a), ~Published(a), chunks[a] # {}
                 PROVE  queued'[a] > 0 \/ \E v \in Workers : On(worker'[v], a) /\ worker'[v].task
      BY <1>1 DEF Leaving, Published, Exists
    <3>1. faults = 0 /\ (worker[w].task => ~On(worker[w], a))
      BY DEF On
    <3>2. CASE queued[a] > 0
      BY <3>2 DEF IInv, Types
    <3>3. ASSUME NEW v \in Workers, On(worker[v], a), worker[v].task
          PROVE  On(worker'[v], a) /\ worker'[v].task
      <4>1. v # w
        BY <3>1, <3>3
      <4> QED BY <1>1, <2>2, <3>3, <4>1 DEF On
    <3> QED BY <2>0, <3>1, <3>2, <3>3 DEF Leaving
  <2> QED BY <2>3, <2>4, <2>5, <2>6
<1> QED BY <1>2, <1>3, <1>4, <1>5, <1>6 DEF IInv

LEMMA DeleteChunksKeeps ==
  ASSUME IInv, NEW w \in Workers, NEW a \in Articles, DeleteChunks(w, a)
  PROVE  IInv'
<1> DEFINE run == worker[w]
           holds == Unlocked(w, a, chunks[a])
           new == [run EXCEPT !.left = @ \ {a}, !.current = a, !.snapshot = chunks[a],
                              !.holds = holds]
<1>1. /\ run # None /\ run \in RunRow /\ Sound(run) /\ a \in run.left /\ run.current = None
      /\ chunks[a] \in SUBSET Chunk /\ Whole(chunks[a]) /\ holds \in BOOLEAN
  BY DEF DeleteChunks, IInv, Types, Runs, Unlocked
<1>2. GoesOn(w, new) /\ faults' = faults
  <2>1. /\ worker' = [worker EXCEPT
             ![w].left = @ \ {a}, ![w].current = a, ![w].snapshot = chunks[a], ![w].holds = holds]
        /\ worker \in [Workers -> RunRow \cup {None}]
    BY DEF DeleteChunks, IInv, Types
  <2> HIDE DEF holds
  <2>2. worker'[w] = new /\ DOMAIN worker' = Workers
    BY <1>1, <2>1 DEF RunRow
  <2>3. \A v \in Workers \ {w} : worker'[v] = worker[v]
    BY <2>1
  <2>4. worker' = [v \in Workers |-> worker'[v]]
    BY <2>1
  <2> HIDE DEF new
  <2>5. worker' = [worker EXCEPT ![w] = new]
    BY <2>1, <2>2, <2>3, <2>4
  <2> QED BY <2>5 DEF GoesOn, DeleteChunks
<1> HIDE DEF new, holds
<1>3. /\ new \in RunRow /\ Sound(new)
      /\ new.task = run.task /\ new.at = run.at /\ new.seen = run.seen
      /\ new.done = run.done /\ new.current = a /\ new.snapshot = chunks[a]
  <2>1. run.left \ {a} \in SUBSET Articles /\ DOMAIN run.seen \subseteq Articles
    BY <1>1 DEF RunRow
  <2>2. /\ new \in RunRow
        /\ new.task = run.task /\ new.at = run.at /\ new.seen = run.seen
        /\ new.done = run.done
        /\ new.left = run.left \ {a} /\ new.current = a /\ new.snapshot = chunks[a]
    BY <1>1, <2>1 DEF new, RunRow
  <2>3. \A b \in DOMAIN new.done : Fair(new.done[b], new.seen[b], new.task)
    BY <1>1, <2>2 DEF Sound
  <2>4. /\ new.left \subseteq DOMAIN new.seen /\ DOMAIN new.done \subseteq DOMAIN new.seen
        /\ new.current \in DOMAIN new.seen
        /\ DOMAIN new.seen \subseteq new.left \cup DOMAIN new.done \cup {new.current}
    BY <1>1, <2>1, <2>2, NoneAssumption DEF Sound
  <2>5. /\ new.task => \E b \in Articles : DOMAIN new.seen = {b}
        /\ ~new.task => \A b \in DOMAIN new.seen :
             new.seen[b].status = "PUBLISHED" /\ IsIndexStale(new.seen[b])
    BY <1>1, <2>2 DEF Sound
  <2>6. Whole(new.snapshot)
    BY <1>1, <2>2
  <2> QED BY <2>2, <2>3, <2>4, <2>5, <2>6 DEF Sound
<1>4. \A b \in Articles : Settled(new, b, chunks[b])
  BY <1>1, <1>3 DEF Settled, IInv, Runs
<1>5. \A b \in Articles : b \in DOMAIN new.done /\ new.done[b].mark # "none" =>
        \A v \in Workers \ {w} : ~HoldsRow(v, b)
  BY <1>1, <1>3 DEF HoldsRow, IInv, Runs
<1>6. \A b \in Articles \ overlapped : On(run, b) => Fresh(new, b, article[b], chunks[b])
  BY <1>3 DEF Fresh, IInv, Undisturbed, AsSeen
<1> QED BY <1>1, <1>2, <1>3, <1>4, <1>5, <1>6, GoesOnKeeps DEF IInv, Types

LEMMA GetLockKeeps ==
  ASSUME IInv, NEW w \in Workers, GetLock(w)
  PROVE  IInv'
<1> DEFINE run == worker[w]
           new == [run EXCEPT !.holds = TRUE]
<1>1. run # None /\ run \in RunRow /\ Sound(run)
  BY DEF GetLock, Working, IInv, Types, Runs
<1>2. GoesOn(w, new) /\ faults' = faults
  BY <1>1 DEF GetLock, GoesOn
<1>3. /\ new \in RunRow
      /\ new.task = run.task /\ new.at = run.at /\ new.seen = run.seen /\ new.left = run.left
      /\ new.done = run.done /\ new.current = run.current /\ new.snapshot = run.snapshot
  BY <1>1 DEF RunRow
<1> HIDE DEF new
<1>4. Sound(new)
  BY <1>1, <1>3 DEF Sound
<1>5. \A b \in Articles : Settled(new, b, chunks[b])
  BY <1>1, <1>3 DEF Settled, IInv, Runs
<1>6. \A b \in Articles : b \in DOMAIN new.done /\ new.done[b].mark # "none" =>
        \A v \in Workers \ {w} : ~HoldsRow(v, b)
  BY <1>1, <1>3 DEF HoldsRow, IInv, Runs
<1>7. \A b \in Articles \ overlapped : On(run, b) => Fresh(new, b, article[b], chunks[b])
  BY <1>3 DEF Fresh, IInv, Undisturbed, AsSeen
<1> QED BY <1>1, <1>2, <1>3, <1>4, <1>5, <1>6, <1>7, GoesOnKeeps DEF IInv, Types

\* remove_from_index and the end of an index_article, inside the run's transaction.
LEMMA NextArticleKeeps ==
  ASSUME IInv, NEW w \in Workers, Working(w),
         NEW added \in SUBSET Chunk, NEW mark \in {"none", "cleared", "set"},
         Fair([gone |-> worker[w].snapshot, added |-> added, mark |-> mark],
              worker[w].seen[worker[w].current], worker[w].task),
         mark # "none" => RowFree(w, worker[w].current),
         mark = "set" => chunks[worker[w].current] \subseteq worker[w].snapshot,
         GoesOn(w, NextArticle(w, added, mark)),
         faults' \in Nat, faults' = 0 => faults = 0
  PROVE  IInv'
<1> DEFINE run == worker[w]
           new == NextArticle(w, added, mark)
           d == [gone |-> run.snapshot, added |-> added, mark |-> mark]
<1>1. /\ run # None /\ run \in RunRow /\ Sound(run) /\ run.current # None
      /\ run.current \in Articles
  BY DEF Working, IInv, Types, Runs, RunRow
<1>2. /\ new \in RunRow /\ Sound(new)
      /\ new.task = run.task /\ new.at = run.at /\ new.seen = run.seen
      /\ new.current = None
      /\ DOMAIN new.done = DOMAIN run.done \cup {run.current}
      /\ \A a \in DOMAIN new.done :
           new.done[a] = IF a = run.current THEN d ELSE run.done[a]
  BY <1>1, NextArticleIsSound DEF IInv
<1> HIDE DEF new
<1>3. \A a \in Articles : Settled(new, a, chunks[a])
  <2>1. ASSUME NEW a \in Articles  PROVE Settled(new, a, chunks[a])
    <3>1. CASE a = run.current
      BY <1>2, <3>1 DEF Settled
    <3>2. CASE a # run.current
      BY <1>1, <1>2, <3>2 DEF Settled, IInv, Runs
    <3> QED BY <3>1, <3>2
  <2> QED BY <2>1
<1>4. \A a \in Articles : a \in DOMAIN new.done /\ new.done[a].mark # "none" =>
        \A v \in Workers \ {w} : ~HoldsRow(v, a)
  <2> SUFFICES ASSUME NEW a \in DOMAIN new.done, a \in Articles, new.done[a].mark # "none",
                      NEW v \in Workers \ {w}
               PROVE  ~HoldsRow(v, a)
    OBVIOUS
  <2>1. CASE a = run.current
    BY <1>2, <2>1 DEF RowFree, Others, HoldsRow
  <2>2. CASE a # run.current
    BY <1>1, <1>2, <2>2 DEF HoldsRow, IInv, Runs
  <2> QED BY <2>1, <2>2
<1>5. ASSUME NEW a \in Articles \ overlapped, On(run, a)
      PROVE  Fresh(new, a, article[a], chunks[a])
  <2>1. Fresh(run, a, article[a], chunks[a])
    BY <1>5 DEF IInv, Undisturbed, AsSeen
  <2> QED BY <1>2, <2>1, NoneAssumption DEF Fresh
<1>6. GoesOn(w, new)
  BY DEF new
<1> QED BY <1>1, <1>2, <1>3, <1>4, <1>5, <1>6, GoesOnKeeps

LEMMA RunAtWork ==
  ASSUME IInv, NEW w \in Workers, Working(w)
  PROVE  LET run == worker[w]
         IN  /\ run # None /\ run \in RunRow /\ Sound(run)
             /\ run.current \in Articles /\ run.current \in DOMAIN run.seen
             /\ run.seen[run.current] \in ArticleRow /\ run.snapshot \in SUBSET Chunk
<1> DEFINE run == worker[w]
<1>1. /\ run # None /\ run \in RunRow /\ Sound(run) /\ run.current # None
  BY DEF Working, IInv, Types, Runs
<1>2. run.current \in Articles /\ run.current \in DOMAIN run.seen
  BY <1>1 DEF RunRow, Sound
<1>3. PICK S \in SUBSET Articles : run.seen \in [S -> ArticleRow]
  BY <1>1 DEF RunRow
<1>4. run.seen[run.current] \in ArticleRow
  BY <1>2, <1>3
<1>5. run.snapshot \in SUBSET Chunk
  BY <1>1 DEF RunRow
<1> QED BY <1>1, <1>2, <1>4, <1>5

LEMMA RemoveFromIndexKeeps ==
  ASSUME IInv, NEW w \in Workers, RemoveFromIndex(w)
  PROVE  IInv'
<1> DEFINE run == worker[w]
           mark == IF run.seen[run.current].indexedAt = None THEN "none" ELSE "cleared"
<1>1. /\ Working(w) /\ run.seen[run.current].status # "PUBLISHED"
      /\ RowFree(w, run.current)
  BY DEF RemoveFromIndex, Indexing
<1>2. run # None /\ run \in RunRow /\ Sound(run)
  BY <1>1, RunAtWork
<1>3. GoesOn(w, NextArticle(w, {}, mark)) /\ faults' = faults
  BY <1>2 DEF RemoveFromIndex, GoesOn, IInv, Types
<1>4. mark \in {"none", "cleared", "set"} /\ mark # "set"
  OBVIOUS
<1> HIDE DEF mark
<1>5. Fair([gone |-> run.snapshot, added |-> {}, mark |-> mark], run.seen[run.current], run.task)
  BY <1>1, <1>2, <1>4 DEF Fair, Sound
<1> QED BY <1>1, <1>3, <1>4, <1>5, NextArticleKeeps DEF IInv, Types

LEMMA EmbeddedKeeps ==
  ASSUME IInv, NEW w \in Workers, Embedded(w)
  PROVE  IInv'
<1> DEFINE run == worker[w]
           a == run.current
           added == Pieces(run.seen[a].content)
<1>1. /\ Working(w) /\ run.seen[a].status = "PUBLISHED"
      /\ RowFree(w, a)
      /\ UNCHANGED <<deployment, article, chunks, request, queued, now, faults, overlapped>>
  BY DEF Embedded, Indexing
<1>2. /\ run # None /\ run \in RunRow /\ Sound(run) /\ a \in Articles /\ a \in DOMAIN run.seen
      /\ run.seen[a].content \in Nat
  BY <1>1, RunAtWork DEF ArticleRow
<1>3. Whole(chunks[a]) /\ Whole(run.snapshot)
  BY <1>2 DEF IInv, Runs, Sound
<1>4. CASE ~Collides(chunks[a] \ run.snapshot, added)
  <2>1. chunks[a] \subseteq run.snapshot
    BY <1>2, <1>3, <1>4, WholesCollide
  <2>2. added \in SUBSET Chunk
    BY <1>2, PieceFacts
  <2>3. GoesOn(w, NextArticle(w, added, "set"))
    BY <1>1, <1>4 DEF Embedded, GoesOn
  <2>4. Fair([gone |-> run.snapshot, added |-> added, mark |-> "set"], run.seen[a], run.task)
    BY <1>1, <1>3 DEF Fair
  <2> QED BY <1>1, <2>1, <2>2, <2>3, <2>4, NextArticleKeeps DEF IInv, Types
<1>5. CASE Collides(chunks[a] \ run.snapshot, added)
  <2>1. worker' = [worker EXCEPT ![w] = None]
    BY <1>5 DEF Embedded
  <2>2. ASSUME run.task, NEW b \in DOMAIN run.seen \ overlapped  PROVE Published(b)
    <3>1. b = a /\ b \in Articles
      BY <1>2, <2>2 DEF Sound
    <3>2. Fresh(run, b, article[b], chunks[b])
      BY <1>2, <2>2, <3>1 DEF IInv, Undisturbed, AsSeen, On
    <3>3. article[b] = run.seen[b] /\ Exists(b)
      BY <1>2, <2>2, <3>2 DEF Fresh, IInv, Existing
    <3> QED BY <1>1, <3>1, <3>3 DEF Published, Exists
  <2>3. worker[w].task => \A b \in DOMAIN worker[w].seen \ overlapped : Published(b)
    BY <2>2
  <2>4. /\ queued' \in [Articles -> Nat] /\ \A b \in Articles : queued'[b] >= queued[b]
        /\ \A b \in Articles : queued'[b] # queued[b] => Exists(b)
        /\ faults' \in Nat /\ faults' = faults
    BY <1>1 DEF IInv, Types
  <2> QED BY <1>1, <1>2, <2>1, <2>3, <2>4, EndKeeps
<1> QED BY <1>4, <1>5

LEMMA EndRunKeeps ==
  ASSUME IInv, NEW w \in Workers, worker[w] # None, Faulty, EndRun(w),
         UNCHANGED <<deployment, article, chunks, request, now, overlapped>>
  PROVE  IInv'
<1>1. worker' = [worker EXCEPT ![w] = None]
  BY DEF EndRun
<1>2. faults' \in Nat /\ faults' # 0
  BY DEF Faulty, IInv, Types
<1>3. \/ queued' = queued
      \/ \E a \in Articles : Exists(a) /\ queued' = [queued EXCEPT ![a] = @ + 1]
  <2>1. worker[w] \in RunRow
    BY DEF IInv, Types
  <2>2. DOMAIN worker[w].seen \subseteq Articles
    BY <2>1 DEF RunRow
  <2> QED BY <2>2 DEF EndRun, IInv, Existing
<1>4. /\ queued' \in [Articles -> Nat]
      /\ \A a \in Articles : queued'[a] >= queued[a]
      /\ \A a \in Articles : queued'[a] # queued[a] => Exists(a)
  BY <1>3 DEF IInv, Types
<1> QED BY <1>1, <1>2, <1>4, EndKeeps

LEMMA EmbedFailsKeeps ==
  ASSUME IInv, NEW w \in Workers, EmbedFails(w)
  PROVE  IInv'
<1> DEFINE run == worker[w]
<1>1. Working(w) /\ Faulty
  BY DEF EmbedFails, Indexing
<1>2. run # None /\ run \in RunRow /\ Sound(run)
  BY <1>1, RunAtWork
<1>3. CASE run.task
  BY <1>1, <1>2, <1>3, EndRunKeeps DEF EmbedFails
<1>4. CASE ~run.task
  <2>1. GoesOn(w, NextArticle(w, {}, "none"))
    BY <1>4 DEF EmbedFails, GoesOn
  <2>2. Fair([gone |-> run.snapshot, added |-> {}, mark |-> "none"], run.seen[run.current], run.task)
    BY <1>2, <1>4 DEF Fair, Sound
  <2>3. faults' \in Nat /\ faults' # 0
    BY <1>1 DEF Faulty, IInv, Types
  <2> QED BY <1>1, <2>1, <2>2, <2>3, NextArticleKeeps
<1> QED BY <1>3, <1>4

LEMMA DieKeeps ==
  ASSUME IInv, NEW w \in Workers, Die(w)
  PROVE  IInv'
BY EndRunKeeps DEF Die

-----------------------------------------------------------------------------
(***************************************************************************)
(* Runs and requests begin.                                                *)
(***************************************************************************)
LEMMA BusyMeans ==
  ASSUME NEW a
  PROVE  Busy(a) <=> \/ \E r \in Requests : For(request[r], a)
                     \/ \E w \in Workers : On(worker[w], a)
BY DEF Busy, For, On

LEMMA RunBeginsKeeps ==
  ASSUME IInv, NEW w \in Workers, worker[w] = None,
         NEW task \in BOOLEAN, NEW S \in SUBSET Articles,
         \A a \in S : Exists(a),
         task => \E a \in Articles : S = {a},
         ~task => \A a \in S : Published(a) /\ IsIndexStale(article[a]),
         worker' = [worker EXCEPT ![w] = Run(task, S)],
         Overlap(S),
         UNCHANGED <<deployment, article, chunks, request, now, faults>>,
         queued' \in [Articles -> Nat],
         \A a \in Articles : queued'[a] > 0 => queued[a] > 0,
         \A a \in Articles : queued'[a] = queued[a] \/ (task /\ a \in S)
  PROVE  IInv'
<1> DEFINE new == Run(task, S)
<1>1. /\ new \in RunRow /\ Sound(new)
      /\ new.task = task /\ new.at = now /\ DOMAIN new.seen = S /\ DOMAIN new.done = {}
      /\ new.current = None /\ \A a \in S : new.seen[a] = article[a]
  BY RunIsSound DEF IInv
<1>2. worker' = [worker EXCEPT ![w] = new]
  OBVIOUS
<1> HIDE DEF new
<1>3. /\ worker'[w] = new /\ \A v \in Workers : v # w => worker'[v] = worker[v]
      /\ UNCHANGED <<deployment, article, chunks, request, now, faults>>
      /\ new # None
  BY <1>1, <1>2, NoneAssumption DEF IInv, Types
<1>4. overlapped' = overlapped \cup {a \in S : Busy(a)}
  BY DEF Overlap
<1>5. Types'
  BY <1>1, <1>2, <1>4 DEF IInv, Types
<1>6. Existing'
  BY <1>1, <1>3 DEF IInv, Existing, Exists
<1>7. Past'
  BY <1>1, <1>3 DEF IInv, Past, Exists, Types
<1>8. Runs'
  <2>1. \A a \in Articles : Settled(new, a, chunks[a])
    BY <1>1 DEF Settled
  <2>2. ASSUME NEW v \in Workers, worker'[v] # None
        PROVE  Sound(worker'[v]) /\ \A a \in Articles : Settled(worker'[v], a, chunks[a])
    BY <1>1, <1>3, <2>1, <2>2 DEF IInv, Runs
  <2>3. ASSUME NEW u \in Workers, NEW v \in Workers, NEW a \in Articles,
               HoldsRow(u, a)', HoldsRow(v, a)'
        PROVE  u = v
    <3>1. u # w /\ v # w
      BY <1>1, <1>3, <2>3 DEF HoldsRow
    <3> QED BY <1>3, <2>3, <3>1 DEF IInv, Runs, HoldsRow
  <2> QED BY <1>3, <2>2, <2>3 DEF IInv, Runs
<1>9. Undisturbed'
  <2> SUFFICES ASSUME NEW a \in Articles, a \notin overlapped'
               PROVE  OneAtWork(a)' /\ AsSeen(a)' /\ BadgeTrue(a)' /\ Leaving(a)'
    BY DEF Undisturbed
  <2>0. a \notin overlapped /\ OneAtWork(a) /\ AsSeen(a) /\ BadgeTrue(a) /\ Leaving(a)
    BY <1>4 DEF IInv, Undisturbed
  <2>1. a \in S => (\A r \in Requests : ~For(request[r], a)) /\ (\A v \in Workers : ~On(worker[v], a))
    BY <1>4, BusyMeans
  <2>2. /\ \A v \in Workers : v # w => worker'[v] = worker[v]
        /\ On(worker'[w], a) <=> a \in S
        /\ request' = request
    BY <1>1, <1>3 DEF On
  <2>3. OneAtWork(a)'
    <3>1. \A u, v \in Workers : On(worker'[u], a) /\ On(worker'[v], a) => u = v
      BY <2>0, <2>1, <2>2 DEF OneAtWork
    <3>2. \A r \in Requests, v \in Workers : ~(For(request[r], a) /\ On(worker'[v], a))
      BY <2>0, <2>1, <2>2 DEF OneAtWork
    <3> QED BY <2>0, <2>2, <3>1, <3>2 DEF OneAtWork
  <2>4. AsSeen(a)'
    <3>1. a \in S => Fresh(new, a, article[a], chunks[a])
      BY <1>1, NoneAssumption DEF Fresh
    <3>2. \A v \in Workers : On(worker'[v], a) => Fresh(worker'[v], a, article[a], chunks[a])
      BY <1>3, <2>0, <2>2, <3>1 DEF AsSeen
    <3> QED BY <1>3, <2>0, <3>2 DEF AsSeen
  <2>5. BadgeTrue(a)'
    BY <1>3, <2>0 DEF BadgeTrue, Published, Exists
  <2>6. Leaving(a)'
    <3> SUFFICES ASSUME faults = 0, Exists(a), ~Published(a), chunks[a] # {}
                 PROVE  queued'[a] > 0 \/ \E v \in Workers : On(worker'[v], a) /\ worker'[v].task
      BY <1>3 DEF Leaving, Published, Exists
    <3>1. CASE task /\ a \in S
      BY <1>1, <1>3, <2>2, <3>1
    <3>2. CASE ~(task /\ a \in S)
      <4>1. queued'[a] = queued[a]
        BY <3>2
      <4>2. ASSUME NEW v \in Workers, On(worker[v], a), worker[v].task
            PROVE  On(worker'[v], a) /\ worker'[v].task
        <5>1. v # w
          BY <4>2 DEF On
        <5> QED BY <2>2, <4>2, <5>1
      <4> QED BY <2>0, <4>1, <4>2 DEF Leaving
    <3> QED BY <3>1, <3>2
  <2> QED BY <2>3, <2>4, <2>5, <2>6
<1> QED BY <1>5, <1>6, <1>7, <1>8, <1>9 DEF IInv

LEMMA StartTaskKeeps ==
  ASSUME IInv, NEW w \in Workers, NEW a \in Articles, StartTask(w, a)
  PROVE  IInv'
<1>1. Exists(a) /\ queued[a] \in Nat /\ queued[a] > 0
  BY DEF StartTask, IInv, Existing, Types
<1>2. /\ queued' \in [Articles -> Nat]
      /\ \A b \in Articles : queued'[b] > 0 => queued[b] > 0
      /\ \A b \in Articles : queued'[b] = queued[b] \/ b \in {a}
  BY <1>1 DEF StartTask, IInv, Types
<1>3. /\ worker[w] = None /\ worker' = [worker EXCEPT ![w] = Run(TRUE, {a})] /\ Overlap({a})
      /\ UNCHANGED <<deployment, article, chunks, request, now, faults>>
  BY DEF StartTask
<1> QED BY <1>1, <1>2, <1>3, RunBeginsKeeps

LEMMA StartReconcileKeeps ==
  ASSUME IInv, NEW w \in Workers, StartReconcile(w)
  PROVE  IInv'
<1>1. \A a \in StaleArticles : Exists(a) /\ Published(a) /\ IsIndexStale(article[a])
  BY DEF StaleArticles, Published
<1>2. StaleArticles \in SUBSET Articles
  BY DEF StaleArticles
<1>3. /\ worker[w] = None /\ worker' = [worker EXCEPT ![w] = Run(FALSE, StaleArticles)]
      /\ Overlap(StaleArticles)
      /\ UNCHANGED <<deployment, article, chunks, request, now, faults, queued>>
  BY DEF StartReconcile
<1>4. queued' \in [Articles -> Nat] /\ queued' = queued
  BY <1>3 DEF IInv, Types
<1> QED BY <1>1, <1>2, <1>3, <1>4, RunBeginsKeeps

LEMMA BeginKeeps ==
  ASSUME IInv, NEW r \in Requests, NEW a \in Articles,
         NEW op \in {"update", "publish", "unpublish", "view"}, Begin(r, op, a)
  PROVE  IInv'
<1> DEFINE q == [op |-> op, article |-> a, seen |-> article[a], at |-> now']
<1>1. /\ request[r] = None /\ Exists(a) /\ article[a] \in ArticleRow
      /\ request' = [request EXCEPT ![r] = q]
      /\ overlapped' = overlapped \cup {b \in {a} : Busy(b)}
      /\ UNCHANGED <<deployment, article, chunks, queued, worker, faults>>
  BY DEF Begin, Overlap, IInv, Types, Exists
<1>2. now' \in Nat /\ now' >= now /\ (op # "view" => now' = now + 1)
  BY DEF Begin, IInv, Types
<1>3. /\ q \in RequestRow
      /\ q.op = op /\ q.article = a /\ q.seen = article[a] /\ q.at = now'
  BY <1>1, <1>2 DEF RequestRow
<1> HIDE DEF q
<1>4. request'[r] = q /\ \A x \in Requests : x # r => request'[x] = request[x]
  BY <1>1 DEF IInv, Types
<1>5. Types'
  BY <1>1, <1>2, <1>3 DEF IInv, Types
<1>6. Existing'
  BY <1>1, <1>3, <1>4 DEF IInv, Existing, Exists
<1>7. Past'
  <2>1. now \in Nat /\ \A w \in Workers : worker[w] # None => worker[w].at \in Nat
    BY DEF IInv, Types, RunRow
  <2> QED BY <1>1, <1>2, <2>1 DEF IInv, Past, Exists
<1>8. Runs'
  <2>1. \A v \in Workers, b \in Articles : HoldsRow(v, b)' <=> HoldsRow(v, b)
    BY <1>1 DEF HoldsRow
  <2> QED BY <1>1 DEF IInv, Runs, HoldsRow
<1>9. Undisturbed'
  <2> SUFFICES ASSUME NEW b \in Articles, b \notin overlapped'
               PROVE  OneAtWork(b)' /\ AsSeen(b)' /\ BadgeTrue(b)' /\ Leaving(b)'
    BY DEF Undisturbed
  <2>0. b \notin overlapped /\ OneAtWork(b) /\ AsSeen(b) /\ BadgeTrue(b) /\ Leaving(b)
    BY <1>1 DEF IInv, Undisturbed
  <2>1. b = a => (\A x \in Requests : ~For(request[x], b)) /\ (\A v \in Workers : ~On(worker[v], b))
    BY <1>1, BusyMeans
  <2>2. /\ For(request'[r], b) => b = a
        /\ \A x \in Requests : x # r => request'[x] = request[x]
        /\ worker' = worker
    BY <1>1, <1>3, <1>4 DEF For
  <2>3. OneAtWork(b)'
    <3>1. \A x, y \in Requests : For(request'[x], b) /\ For(request'[y], b) => x = y
      BY <2>0, <2>1, <2>2 DEF OneAtWork
    <3>2. \A x \in Requests, v \in Workers : ~(For(request'[x], b) /\ On(worker[v], b))
      BY <2>0, <2>1, <2>2 DEF OneAtWork
    <3> QED BY <2>0, <2>2, <3>1, <3>2 DEF OneAtWork
  <2>4. AsSeen(b)'
    <3>1. FreshRequest(q, article[a])
      <4>1. now \in Nat /\ article[a].indexedAt \in (0..now) \cup {None}
        BY <1>1 DEF IInv, Types, Past
      <4> QED BY <1>2, <1>3, <4>1 DEF FreshRequest
    <3>2. \A x \in Requests : For(request'[x], b) => FreshRequest(request'[x], article[b])
      BY <1>4, <2>0, <2>2, <3>1 DEF AsSeen
    <3> QED BY <1>1, <2>0, <3>2 DEF AsSeen
  <2>5. BadgeTrue(b)' /\ Leaving(b)'
    BY <1>1, <2>0 DEF BadgeTrue, Leaving, Published, Exists
  <2> QED BY <2>3, <2>4, <2>5
<1> QED BY <1>5, <1>6, <1>7, <1>8, <1>9 DEF IInv

-----------------------------------------------------------------------------
(***************************************************************************)
(* Requests commit.                                                        *)
(***************************************************************************)
LEMMA ScheduleFacts ==
  ASSUME IInv, NEW a \in Articles, ScheduleIndex(a)
  PROVE  /\ queued' \in [Articles -> Nat] /\ faults' \in Nat
         /\ \A b \in Articles : queued'[b] >= queued[b] /\ (b # a => queued'[b] = queued[b])
         /\ faults' = 0 => faults = 0 /\ queued'[a] > 0
<1>1. queued \in [Articles -> Nat] /\ faults \in Nat
  BY DEF IInv, Types
<1> QED BY <1>1 DEF ScheduleIndex, Faulty

LEMMA CreateKeeps ==
  ASSUME IInv, NEW a \in Articles, Create(a)
  PROVE  IInv'
<1> DEFINE new == [status |-> "DRAFT", content |-> now + 1, version |-> 1,
                   updatedAt |-> now + 1, indexedAt |-> None]
<1>1. /\ article[a] = None /\ now \in Nat /\ now' = now + 1
      /\ article' = [article EXCEPT ![a] = new]
      /\ UNCHANGED <<deployment, chunks, request, queued, worker, faults, overlapped>>
  BY DEF Create, Exists, IInv, Types
<1>2. new \in ArticleRow /\ new.indexedAt = None
  BY <1>1 DEF ArticleRow
<1> HIDE DEF new
<1>3. /\ article'[a] = new /\ new # None
      /\ \A b \in Articles : b # a => article'[b] = article[b]
  BY <1>1, <1>2, NoneAssumption DEF IInv, Types
<1>4. /\ chunks[a] = {}
      /\ \A r \in Requests : ~For(request[r], a)
      /\ \A w \in Workers : ~On(worker[w], a)
  BY <1>1 DEF IInv, Existing, Exists, For, On
<1>5. Types'
  BY <1>1, <1>2 DEF IInv, Types
<1>6. \A b \in Articles : article[b] # None => article'[b] # None
  BY <1>3
<1>7. Existing'
  <2>1. \A r \in Requests : request[r] # None => request[r].article \in Articles
    BY DEF IInv, Types, RequestRow
  <2>2. \A w \in Workers : worker[w] # None => DOMAIN worker[w].seen \subseteq Articles
    BY DEF IInv, Types, RunRow
  <2> QED BY <1>1, <1>3, <1>6, <2>1, <2>2 DEF IInv, Existing, Exists
<1>8. Past'
  <2>1. ASSUME NEW b \in Articles, article'[b] # None
        PROVE  article'[b].indexedAt \in (0..now') \cup {None}
    <3>1. CASE b = a
      BY <1>2, <1>3, <3>1
    <3>2. CASE b # a
      BY <1>1, <1>3, <2>1, <3>2 DEF IInv, Past, Exists
    <3> QED BY <3>1, <3>2
  <2>2. \A w \in Workers : worker[w] # None => worker[w].at \in Nat /\ worker[w].at <= now
    BY DEF IInv, Past, Types, RunRow
  <2> QED BY <1>1, <2>1, <2>2 DEF Past, Exists
<1>9. Runs'
  BY <1>1 DEF IInv, Runs, HoldsRow
<1>10. Undisturbed'
  <2> SUFFICES ASSUME NEW b \in Articles \ overlapped
               PROVE  OneAtWork(b)' /\ AsSeen(b)' /\ BadgeTrue(b)' /\ Leaving(b)'
    BY <1>1 DEF Undisturbed
  <2>0. OneAtWork(b) /\ AsSeen(b) /\ BadgeTrue(b) /\ Leaving(b)
    BY DEF IInv, Undisturbed
  <2>1. CASE b = a
    <3>1. OneAtWork(b)'
      BY <1>1, <2>0 DEF OneAtWork
    <3>2. AsSeen(b)'
      BY <1>1, <1>4, <2>1 DEF AsSeen
    <3>3. BadgeTrue(b)'
      BY <1>3, <2>1 DEF BadgeTrue, Published, new
    <3>4. Leaving(b)'
      BY <1>1, <1>4, <2>1 DEF Leaving
    <3> QED BY <3>1, <3>2, <3>3, <3>4
  <2>2. CASE b # a
    <3>1. article'[b] = article[b]
      BY <1>3, <2>2
    <3> QED BY <1>1, <2>0, <3>1 DEF OneAtWork, AsSeen, BadgeTrue, Leaving, Published, Exists
  <2> QED BY <2>1, <2>2
<1> QED BY <1>5, <1>7, <1>8, <1>9, <1>10 DEF IInv

LEMMA RequestReindexKeeps ==
  ASSUME IInv, NEW a \in Articles, RequestReindex(a)
  PROVE  IInv'
<1>1. /\ Exists(a) /\ UNCHANGED <<deployment, article, chunks, request, worker, now, overlapped>>
      /\ queued' \in [Articles -> Nat] /\ faults' \in Nat
      /\ \A b \in Articles : queued'[b] >= queued[b] /\ (b # a => queued'[b] = queued[b])
      /\ faults' = 0 => faults = 0
  BY ScheduleFacts DEF RequestReindex
<1>2. Types'
  BY <1>1 DEF IInv, Types
<1>3. Existing'
  BY <1>1 DEF IInv, Existing, Exists
<1>4. Past' /\ Runs'
  BY <1>1 DEF IInv, Past, Runs, HoldsRow, Exists
<1>5. Undisturbed'
  <2> SUFFICES ASSUME NEW b \in Articles \ overlapped
               PROVE  OneAtWork(b)' /\ AsSeen(b)' /\ BadgeTrue(b)' /\ Leaving(b)'
    BY <1>1 DEF Undisturbed
  <2>1. OneAtWork(b) /\ AsSeen(b) /\ BadgeTrue(b) /\ Leaving(b)
    BY DEF IInv, Undisturbed
  <2>2. queued[b] > 0 => queued'[b] > 0
    BY <1>1 DEF IInv, Types
  <2> QED BY <1>1, <2>1, <2>2 DEF OneAtWork, AsSeen, BadgeTrue, Leaving, Published, Exists
<1> QED BY <1>2, <1>3, <1>4, <1>5 DEF IInv

LEMMA StoredFacts ==
  ASSUME NEW q \in RequestRow, NEW row \in ArticleRow
  PROVE  LET new == Stored(q, row)
         IN  /\ new \in ArticleRow /\ new.indexedAt = row.indexedAt
             /\ FreshRequest(q, row) =>
                  /\ IsIndexStale(new) \/ new.status # "PUBLISHED" \/ new = row
                  /\ ~Schedules(q) => new.status = row.status
<1>1. /\ q.seen \in ArticleRow /\ q.at \in Nat /\ q.seen.version + 1 \in Nat
      /\ q.seen.updatedAt \in Nat
  BY DEF RequestRow, ArticleRow
<1>2. CASE q.op = "update"
  <2>1. Stored(q, row) = [row EXCEPT !.content = q.at, !.version = q.seen.version + 1,
                                     !.updatedAt = q.at]
    BY <1>2 DEF Stored
  <2> QED BY <1>1, <1>2, <2>1 DEF ArticleRow, FreshRequest, IsIndexStale
<1>3. CASE q.op = "publish"
  <2>1. Stored(q, row) = [row EXCEPT !.status = "PUBLISHED",
                                     !.version = q.seen.version + 1, !.updatedAt = q.at]
    BY <1>3 DEF Stored
  <2> QED BY <1>1, <1>3, <2>1 DEF ArticleRow, FreshRequest, IsIndexStale, Schedules
<1>4. CASE q.op = "unpublish"
  <2>1. Stored(q, row) = [row EXCEPT !.status = "ARCHIVED",
                                     !.version = q.seen.version + 1, !.updatedAt = q.at]
    BY <1>4 DEF Stored
  <2> QED BY <1>1, <1>4, <2>1 DEF ArticleRow, Schedules
<1>5. CASE q.op = "view"
  <2>1. Stored(q, row) = [row EXCEPT !.updatedAt = q.seen.updatedAt]
    BY <1>5 DEF Stored
  <2>2. q.seen = row => Stored(q, row) = row
    BY <2>1 DEF ArticleRow
  <2> QED BY <1>1, <1>5, <2>1, <2>2 DEF ArticleRow, FreshRequest
<1> QED BY <1>2, <1>3, <1>4, <1>5 DEF RequestRow

LEMMA CommitKeeps ==
  ASSUME IInv, NEW r \in Requests, Commit(r)
  PROVE  IInv'
<1> DEFINE q == request[r]
           a == q.article
           row == article[a]
           new == Stored(q, row)
<1>1. q # None /\ q \in RequestRow /\ a \in Articles /\ Exists(a) /\ row \in ArticleRow
  <2>1. q # None
    BY DEF Commit
  <2>2. q \in RequestRow /\ a \in Articles /\ Exists(a)
    BY <2>1 DEF IInv, Types, Existing, RequestRow
  <2> QED BY <2>1, <2>2 DEF IInv, Types, Exists
<1>2. /\ new \in ArticleRow /\ new.indexedAt = row.indexedAt
      /\ FreshRequest(q, row) =>
           /\ IsIndexStale(new) \/ new.status # "PUBLISHED" \/ new = row
           /\ ~Schedules(q) => new.status = row.status
  BY <1>1, StoredFacts
<1>3. /\ article' = [article EXCEPT ![a] = new] /\ request' = [request EXCEPT ![r] = None]
      /\ IF Schedules(q) THEN ScheduleIndex(a) ELSE UNCHANGED <<queued, faults>>
      /\ UNCHANGED <<deployment, chunks, worker, now, overlapped>>
  BY DEF Commit
<1> HIDE DEF new
<1>4. /\ queued' \in [Articles -> Nat] /\ faults' \in Nat
      /\ \A b \in Articles : queued'[b] >= queued[b] /\ (b # a => queued'[b] = queued[b])
      /\ faults' = 0 => faults = 0 /\ (Schedules(q) => queued'[a] > 0)
  <2>1. CASE Schedules(q)
    BY <1>1, <1>3, <2>1, ScheduleFacts
  <2>2. CASE ~Schedules(q)
    BY <1>3, <2>2 DEF IInv, Types
  <2> QED BY <2>1, <2>2
<1>5. /\ article'[a] = new /\ new # None
      /\ \A b \in Articles : b # a => article'[b] = article[b]
      /\ request'[r] = None /\ \A x \in Requests : x # r => request'[x] = request[x]
  BY <1>1, <1>2, <1>3, NoneAssumption DEF IInv, Types
<1>6. Types'
  BY <1>1, <1>2, <1>3, <1>4 DEF IInv, Types
<1>7. \A b \in Articles : article[b] # None <=> article'[b] # None
  BY <1>1, <1>5 DEF Exists
<1>8. Existing'
  <2>1. \A x \in Requests : request[x] # None => request[x].article \in Articles
    BY DEF IInv, Types, RequestRow
  <2>2. \A w \in Workers : worker[w] # None => DOMAIN worker[w].seen \subseteq Articles
    BY DEF IInv, Types, RunRow
  <2>3. \A b \in Articles : queued'[b] > 0 => article'[b] # None
    BY <1>1, <1>4, <1>7 DEF IInv, Existing, Exists
  <2>4. \A x \in Requests : request'[x] # None => x # r
    BY <1>5
  <2> QED BY <1>3, <1>5, <1>7, <2>1, <2>2, <2>3, <2>4 DEF IInv, Existing, Exists
<1>9. Past'
  BY <1>1, <1>2, <1>3, <1>5, <1>7 DEF IInv, Past, Exists
<1>10. Runs'
  BY <1>3 DEF IInv, Runs, HoldsRow
<1>11. Undisturbed'
  <2> SUFFICES ASSUME NEW b \in Articles \ overlapped
               PROVE  OneAtWork(b)' /\ AsSeen(b)' /\ BadgeTrue(b)' /\ Leaving(b)'
    BY <1>3 DEF Undisturbed
  <2>0. OneAtWork(b) /\ AsSeen(b) /\ BadgeTrue(b) /\ Leaving(b)
    BY DEF IInv, Undisturbed
  <2>1. \A x \in Requests : For(request'[x], b) => x # r /\ For(request[x], b) /\ request'[x] = request[x]
    BY <1>5 DEF For
  <2>2. OneAtWork(b)'
    BY <1>3, <2>0, <2>1 DEF OneAtWork
  <2>3. CASE b = a
    <3>1. For(q, b) /\ FreshRequest(q, row)
      BY <1>1, <2>0, <2>3 DEF For, AsSeen
    <3>2. /\ \A x \in Requests : ~For(request'[x], b)
          /\ \A w \in Workers : ~On(worker[w], b)
      BY <2>0, <2>1, <3>1 DEF OneAtWork
    <3>3. AsSeen(b)'
      BY <1>3, <3>2 DEF AsSeen
    <3>4. BadgeTrue(b)'
      BY <1>1, <1>2, <1>3, <1>5, <2>0, <2>3, <3>1 DEF BadgeTrue, Published, Exists
    <3>5. Leaving(b)'
      <4> SUFFICES ASSUME faults' = 0, new.status # "PUBLISHED", chunks[b] # {}
                   PROVE  queued'[b] > 0
        BY <1>3, <1>5, <2>3 DEF Leaving, Published, Exists
      <4>1. CASE Schedules(q)
        BY <1>4, <2>3, <4>1
      <4>2. CASE ~Schedules(q)
        <5>1. ~Published(b)
          BY <1>2, <2>3, <3>1, <4>2 DEF Published
        <5>2. queued[b] > 0
          BY <1>1, <1>4, <2>0, <2>3, <3>2, <5>1 DEF Leaving
        <5> QED BY <1>4, <5>2 DEF IInv, Types
      <4> QED BY <4>1, <4>2
    <3> QED BY <2>2, <3>3, <3>4, <3>5
  <2>4. CASE b # a
    <3>1. article'[b] = article[b] /\ queued'[b] = queued[b]
      BY <1>4, <1>5, <2>4
    <3>2. AsSeen(b)'
      BY <1>3, <2>0, <2>1, <3>1 DEF AsSeen
    <3>3. BadgeTrue(b)' /\ Leaving(b)'
      BY <1>3, <1>4, <2>0, <3>1 DEF BadgeTrue, Leaving, Published, Exists
    <3> QED BY <2>2, <3>2, <3>3
  <2> QED BY <2>3, <2>4
<1> QED BY <1>6, <1>8, <1>9, <1>10, <1>11 DEF IInv

-----------------------------------------------------------------------------
(***************************************************************************)
(* A run commits.                                                          *)
(***************************************************************************)
\* What the commit does to an article and to its chunks.
LEMMA CommittedArticle ==
  ASSUME IInv, NEW w \in Workers, CommitRun(w), NEW a \in Articles
  PROVE  LET run == worker[w]
             d   == run.done[a]
         IN  /\ a \notin DOMAIN run.done => article'[a] = article[a] /\ chunks'[a] = chunks[a]
             /\ a \in DOMAIN run.done =>
                  /\ a \in DOMAIN run.seen /\ run.seen[a] \in ArticleRow /\ run.at \in 0..now
                  /\ Exists(a) /\ article[a] \in ArticleRow
                  /\ d \in Done /\ Fair(d, run.seen[a], run.task) /\ Settled(run, a, chunks[a])
                  /\ article'[a] = Marked(article[a], d.mark, run.at)
                  /\ chunks'[a] = (chunks[a] \ d.gone) \cup d.added
<1> DEFINE run == worker[w]
           d   == run.done[a]
<1>1. run # None /\ run \in RunRow /\ Sound(run) /\ Settled(run, a, chunks[a])
  BY DEF CommitRun, IInv, Types, Runs
<1>2. /\ article'[a] = IF a \in DOMAIN run.done THEN Marked(article[a], d.mark, run.at)
                       ELSE article[a]
      /\ chunks'[a] = IF a \in DOMAIN run.done THEN (chunks[a] \ d.gone) \cup d.added
                      ELSE chunks[a]
  BY DEF CommitRun
<1>3. ASSUME a \in DOMAIN run.done
      PROVE  /\ a \in DOMAIN run.seen /\ run.seen[a] \in ArticleRow /\ run.at \in 0..now
             /\ Exists(a) /\ article[a] \in ArticleRow
             /\ d \in Done /\ Fair(d, run.seen[a], run.task)
  <2>1. a \in DOMAIN run.seen /\ Fair(d, run.seen[a], run.task)
    BY <1>1, <1>3 DEF Sound
  <2>2. PICK S \in SUBSET Articles : run.seen \in [S -> ArticleRow]
    BY <1>1 DEF RunRow
  <2>3. PICK T \in SUBSET Articles : run.done \in [T -> Done]
    BY <1>1 DEF RunRow
  <2>4. run.seen[a] \in ArticleRow /\ d \in Done
    BY <1>3, <2>1, <2>2, <2>3
  <2>5. run.at \in 0..now
    BY <1>1 DEF IInv, Types, Past, RunRow
  <2>6. Exists(a) /\ article[a] \in ArticleRow
    BY <1>1, <2>1 DEF IInv, Types, Existing, Exists
  <2> QED BY <2>1, <2>4, <2>5, <2>6
<1> QED BY <1>1, <1>2, <1>3

\* The same for an article the run has dealt with.
LEMMA DealtWith ==
  ASSUME IInv, NEW w \in Workers, CommitRun(w), NEW a \in DOMAIN worker[w].done,
         NEW run, run = worker[w], NEW d, d = run.done[a]
  PROVE  /\ a \in DOMAIN run.seen /\ run.seen[a] \in ArticleRow /\ run.at \in Nat
         /\ article[a] \in ArticleRow /\ Exists(a)
         /\ d.gone \subseteq Chunk /\ d.added \subseteq Chunk
         /\ d.mark \in {"none", "cleared", "set"} /\ Fair(d, run.seen[a], run.task)
         /\ article'[a] = Marked(article[a], d.mark, run.at)
         /\ article'[a] \in ArticleRow
         /\ chunks'[a] = (chunks[a] \ d.gone) \cup d.added
<1>1. a \in Articles
  BY DEF CommitRun, IInv, Types, Runs, Sound, RunRow
<1>2. /\ a \in DOMAIN run.seen /\ run.seen[a] \in ArticleRow /\ run.at \in 0..now
      /\ Exists(a) /\ article[a] \in ArticleRow
      /\ d \in Done /\ Fair(d, run.seen[a], run.task)
      /\ article'[a] = Marked(article[a], d.mark, run.at)
      /\ chunks'[a] = (chunks[a] \ d.gone) \cup d.added
  BY <1>1, CommittedArticle
<1>3. /\ run.at \in Nat /\ d.mark \in {"none", "cleared", "set"}
      /\ d.gone \subseteq Chunk /\ d.added \subseteq Chunk
  BY <1>2 DEF Done, IInv, Types
<1>4. article'[a] \in ArticleRow
  BY <1>2, <1>3 DEF Marked, ArticleRow
<1> QED BY <1>2, <1>3, <1>4

\* ... and to the other runs.
LEMMA OtherRuns ==
  ASSUME IInv, NEW w \in Workers, CommitRun(w), NEW v \in Workers, worker'[v] # None
  PROVE  /\ v # w /\ worker[v] # None
         /\ worker'[v] \in RunRow /\ Sound(worker'[v])
         /\ worker'[v].task = worker[v].task /\ worker'[v].at = worker[v].at
         /\ worker'[v].seen = worker[v].seen /\ worker'[v].current = worker[v].current
         /\ worker'[v].done = worker[v].done
         /\ worker[v].current \notin DOMAIN worker[w].done =>
              worker'[v].snapshot = worker[v].snapshot
<1> DEFINE old == worker[v]
           gone == worker[w].done[old.current].gone
           new == [old EXCEPT !.snapshot = @ \ gone]
<1>1. /\ v # w
      /\ worker'[v] = IF Working(v) /\ old.current \in DOMAIN worker[w].done THEN new ELSE old
  BY DEF CommitRun
<1>2. old # None /\ old \in RunRow /\ Sound(old)
  BY <1>1 DEF Working, IInv, Types, Runs
<1>3. ASSUME Working(v), old.current \in DOMAIN worker[w].done
      PROVE  /\ new \in RunRow /\ Sound(new)
             /\ new.task = old.task /\ new.at = old.at /\ new.seen = old.seen
             /\ new.current = old.current /\ new.done = old.done
  <2>1. old.current \in Articles
    BY <1>3, RunAtWork
  <2>2. Whole(gone)
    BY <1>3, <2>1, CommittedArticle DEF Fair
  <2>3. Whole(old.snapshot \ gone) /\ old.snapshot \ gone \in SUBSET Chunk
    BY <1>2, <2>2, WholeMinus DEF Sound, RunRow
  <2> HIDE DEF gone
  <2>4. /\ new \in RunRow
        /\ new.task = old.task /\ new.at = old.at /\ new.seen = old.seen /\ new.left = old.left
        /\ new.current = old.current /\ new.done = old.done
        /\ new.snapshot = old.snapshot \ gone
    BY <1>2, <2>3 DEF RunRow
  <2> HIDE DEF new
  <2>5. Sound(new)
    BY <1>2, <2>3, <2>4 DEF Sound
  <2> QED BY <2>4, <2>5
<1> HIDE DEF new
<1> QED BY <1>1, <1>2, <1>3

LEMMA CommitRunKeeps ==
  ASSUME IInv, NEW w \in Workers, CommitRun(w)
  PROVE  IInv'
<1> DEFINE run == worker[w]
<1>1. /\ run # None /\ run \in RunRow /\ Sound(run) /\ run.left = {} /\ run.current = None
      /\ UNCHANGED <<deployment, request, queued, now, faults, overlapped>>
      /\ worker'[w] = None
  BY DEF CommitRun, IInv, Types, Runs
<1>2. \A a \in Articles : /\ article[a] # None <=> article'[a] # None
                          /\ article'[a] \in ArticleRow \cup {None}
                          /\ chunks'[a] \in SUBSET Chunk
  <2>1. ASSUME NEW a \in Articles, a \in DOMAIN run.done
        PROVE  article'[a] \in ArticleRow /\ chunks'[a] \in SUBSET Chunk /\ article[a] # None
    <3>1. /\ article'[a] \in ArticleRow /\ Exists(a)
          /\ run.done[a].gone \subseteq Chunk /\ run.done[a].added \subseteq Chunk
          /\ chunks'[a] = (chunks[a] \ run.done[a].gone) \cup run.done[a].added
      BY <2>1, DealtWith
    <3> QED BY <3>1 DEF Exists, IInv, Types
  <2>2. ASSUME NEW a \in Articles, a \notin DOMAIN run.done
        PROVE  article'[a] = article[a] /\ chunks'[a] = chunks[a]
    BY <2>2, CommittedArticle
  <2> QED BY <2>1, <2>2, NoneAssumption DEF IInv, Types
<1>3. Types'
  <2>1. article' \in [Articles -> ArticleRow \cup {None}] /\ chunks' \in [Articles -> SUBSET Chunk]
    BY <1>2 DEF CommitRun
  <2>2. worker' \in [Workers -> RunRow \cup {None}]
    <3>1. \A v \in Workers : worker'[v] \in RunRow \cup {None}
      BY OtherRuns
    <3>2. worker' = [v \in Workers |-> worker'[v]]
      BY DEF CommitRun
    <3> QED BY <3>1, <3>2
  <2> QED BY <1>1, <2>1, <2>2 DEF IInv, Types
<1>4. Existing'
  <2>1. \A x \in Requests : request[x] # None => request[x].article \in Articles
    BY DEF IInv, Types, RequestRow
  <2>2. \A v \in Workers : worker[v] # None => DOMAIN worker[v].seen \subseteq Articles
    BY DEF IInv, Types, RunRow
  <2>3. \A a \in Articles : article'[a] = None => chunks'[a] = {}
    BY <1>2, CommittedArticle DEF IInv, Existing, Exists
  <2>4. \A v \in Workers : worker'[v] # None => worker[v] # None /\ worker'[v].seen = worker[v].seen
    BY OtherRuns
  <2> QED BY <1>1, <1>2, <2>1, <2>2, <2>3, <2>4 DEF IInv, Existing, Exists
<1>5. Past'
  <2>1. ASSUME NEW a \in Articles, article'[a] # None
        PROVE  article'[a].indexedAt \in (0..now) \cup {None}
    <3>1. article[a] # None /\ article[a].indexedAt \in (0..now) \cup {None}
      BY <1>2, <2>1 DEF IInv, Past, Exists
    <3>2. CASE a \notin DOMAIN run.done
      BY <3>1, <3>2, CommittedArticle
    <3>3. CASE a \in DOMAIN run.done
      <4>1. /\ article[a] \in ArticleRow /\ run.at \in 0..now
            /\ run.done[a].mark \in {"none", "cleared", "set"}
            /\ article'[a] = Marked(article[a], run.done[a].mark, run.at)
        BY <3>3, CommittedArticle DEF Done
      <4> QED BY <3>1, <4>1 DEF Marked, ArticleRow
    <3> QED BY <3>2, <3>3
  <2>2. \A v \in Workers : worker'[v] # None => worker'[v].at <= now
    BY OtherRuns DEF IInv, Past
  <2> QED BY <1>1, <2>1, <2>2 DEF Past, Exists
<1>6. Runs'
  <2>1. ASSUME NEW a \in Articles  PROVE Whole(chunks'[a])
    <3>1. Whole(chunks[a])
      BY DEF IInv, Runs
    <3>2. CASE a \notin DOMAIN run.done
      BY <3>1, <3>2, CommittedArticle
    <3>3. CASE a \in DOMAIN run.done /\ run.done[a].mark = "set"
      <4>1. chunks'[a] = Pieces(run.seen[a].content) /\ run.seen[a].content \in Nat
        <5>1. /\ run.seen[a] \in ArticleRow /\ Fair(run.done[a], run.seen[a], run.task)
              /\ chunks'[a] = (chunks[a] \ run.done[a].gone) \cup run.done[a].added
          BY <3>3, DealtWith
        <5>2. chunks[a] \subseteq run.done[a].gone
          BY <1>1, <3>3 DEF Settled, IInv, Runs
        <5>3. run.done[a].added = Pieces(run.seen[a].content)
          BY <3>3, <5>1 DEF Fair
        <5>4. run.seen[a].content \in Nat
          BY <5>1 DEF ArticleRow
        <5> QED BY <5>1, <5>2, <5>3, <5>4
      <4> QED BY <4>1 DEF Whole
    <3>4. CASE a \in DOMAIN run.done /\ run.done[a].mark # "set"
      <4>1. chunks'[a] = chunks[a] \ run.done[a].gone /\ Whole(run.done[a].gone)
        BY <3>4, CommittedArticle DEF Fair
      <4> QED BY <3>1, <4>1, WholeMinus
    <3> QED BY <3>2, <3>3, <3>4
  <2>2. ASSUME NEW v \in Workers, worker'[v] # None, NEW a \in Articles
        PROVE  Settled(worker'[v], a, chunks'[a])
    <3> SUFFICES ASSUME a \in DOMAIN worker[v].done, worker[v].done[a].mark = "set"
                 PROVE  chunks'[a] \subseteq worker[v].done[a].gone
      BY <2>2, OtherRuns DEF Settled
    <3>1. v # w /\ worker[v] # None /\ chunks[a] \subseteq worker[v].done[a].gone
      BY <2>2, OtherRuns DEF IInv, Runs, Settled
    <3>2. ~HoldsRow(w, a)
      BY <3>1 DEF HoldsRow, IInv, Runs
    <3>3. chunks'[a] \subseteq chunks[a]
      <4>1. CASE a \notin DOMAIN run.done
        BY <4>1, CommittedArticle
      <4>2. CASE a \in DOMAIN run.done
        <5>1. run.done[a].mark = "none"
          BY <1>1, <3>2, <4>2 DEF HoldsRow
        <5> QED BY <4>2, <5>1, CommittedArticle DEF Fair
      <4> QED BY <4>1, <4>2
    <3> QED BY <3>1, <3>3
  <2>3. ASSUME NEW u \in Workers, NEW v \in Workers, NEW a \in Articles,
               HoldsRow(u, a)', HoldsRow(v, a)'
        PROVE  u = v
    <3>1. worker'[u] # None /\ worker'[v] # None
      BY <2>3 DEF HoldsRow
    <3>2. HoldsRow(u, a) /\ HoldsRow(v, a)
      BY <2>3, <3>1, OtherRuns DEF HoldsRow
    <3> QED BY <3>2 DEF IInv, Runs
  <2> QED BY <2>1, <2>2, <2>3, OtherRuns DEF Runs
<1>7. Undisturbed'
  <2> SUFFICES ASSUME NEW a \in Articles \ overlapped
               PROVE  OneAtWork(a)' /\ AsSeen(a)' /\ BadgeTrue(a)' /\ Leaving(a)'
    BY <1>1 DEF Undisturbed
  <2>0. OneAtWork(a) /\ AsSeen(a) /\ BadgeTrue(a) /\ Leaving(a)
    BY DEF IInv, Undisturbed
  <2>1. \A v \in Workers : On(worker'[v], a) => v # w /\ On(worker[v], a)
    BY OtherRuns DEF On
  <2>2. OneAtWork(a)'
    BY <1>1, <2>0, <2>1 DEF OneAtWork
  <2>3. CASE a \notin DOMAIN run.seen
    <3>1. a \notin DOMAIN run.done
      BY <1>1, <2>3 DEF Sound
    <3>2. article'[a] = article[a] /\ chunks'[a] = chunks[a]
      BY <3>1, CommittedArticle
    <3>3. ASSUME NEW v \in Workers, On(worker'[v], a)
          PROVE  Fresh(worker'[v], a, article[a], chunks[a])
      <4>1. Fresh(worker[v], a, article[a], chunks[a])
        BY <2>0, <2>1, <3>3 DEF AsSeen
      <4>2. worker'[v] # None
        BY <3>3 DEF On
      <4> QED BY <3>1, <4>1, <4>2, OtherRuns DEF Fresh
    <3>4. AsSeen(a)'
      BY <1>1, <2>0, <3>2, <3>3 DEF AsSeen
    <3>5. ASSUME NEW v \in Workers, On(worker[v], a), worker[v].task
          PROVE  On(worker'[v], a) /\ worker'[v].task
      <4>1. v # w /\ worker[v] # None
        BY <2>3, <3>5 DEF On
      <4>2. worker'[v] # None /\ worker'[v].seen = worker[v].seen /\ worker'[v].task
        <5>1. CASE worker'[v] = worker[v]
          BY <3>5, <4>1, <5>1
        <5>2. ASSUME worker'[v] # worker[v]
              PROVE  /\ worker'[v] # None
                     /\ worker'[v].seen = worker[v].seen /\ worker'[v].task
          <6>1. worker[v].snapshot \ worker[w].done[worker[v].current].gone \in SUBSET Chunk
            BY <4>1 DEF IInv, Types, RunRow
          <6>2. worker'[v] = [worker[v] EXCEPT !.snapshot =
                                @ \ worker[w].done[worker[v].current].gone]
            BY <4>1, <5>2 DEF CommitRun
          <6>3. worker'[v] \in RunRow /\ worker'[v].seen = worker[v].seen
                /\ worker'[v].task = worker[v].task
            BY <4>1, <6>1, <6>2 DEF IInv, Types, RunRow
          <6> QED BY <3>5, <6>3, NoneAssumption
        <5> QED BY <5>1, <5>2
      <4> QED BY <3>5, <4>2 DEF On
    <3>6. BadgeTrue(a)'
      BY <2>0, <3>2 DEF BadgeTrue, Published, Exists
    <3>7. Leaving(a)'
      BY <1>1, <2>0, <3>2, <3>5 DEF Leaving, Published, Exists
    <3> QED BY <2>2, <3>4, <3>6, <3>7
  <2>4. CASE a \in DOMAIN run.seen
    <3>1. a \in DOMAIN run.done
      BY <1>1, <2>4, NoneAssumption DEF Sound
    <3>2. On(run, a) /\ Fresh(run, a, article[a], chunks[a])
      BY <1>1, <2>0, <2>4 DEF On, AsSeen
    <3>3. /\ \A r \in Requests : ~For(request[r], a)
          /\ \A v \in Workers : ~On(worker'[v], a)
      BY <2>0, <2>1, <3>2 DEF OneAtWork
    <3>4. AsSeen(a)'
      BY <1>1, <3>3 DEF AsSeen
    <3> DEFINE d == run.done[a]
               row == article[a]
    <3>5. /\ row = run.seen[a] /\ row \in ArticleRow /\ run.at \in Nat
          /\ chunks'[a] = d.added
          /\ article'[a] = Marked(row, d.mark, run.at)
          /\ Fair(d, row, run.task) /\ d.mark \in {"none", "cleared", "set"}
      <4>1. /\ run.at \in Nat /\ article[a] \in ArticleRow
            /\ d.mark \in {"none", "cleared", "set"} /\ Fair(d, run.seen[a], run.task)
            /\ article'[a] = Marked(article[a], d.mark, run.at)
            /\ chunks'[a] = (chunks[a] \ d.gone) \cup d.added
        BY <3>1, DealtWith
      <4>2. row = run.seen[a] /\ d.gone = chunks[a]
        BY <3>1, <3>2 DEF Fresh
      <4> QED BY <4>1, <4>2
    <3>6. CASE d.mark = "set"
      <4>1. /\ article'[a] = [row EXCEPT !.indexedAt = run.at, !.updatedAt = run.at]
            /\ row.status = "PUBLISHED" /\ chunks'[a] = Pieces(row.content)
        BY <3>5, <3>6 DEF Marked, Fair
      <4>2. article'[a].status = "PUBLISHED" /\ article'[a].content = row.content
        BY <3>5, <4>1 DEF ArticleRow
      <4> QED BY <1>2, <1>1, <2>2, <3>4, <4>1, <4>2, <3>5, NoneAssumption
              DEF BadgeTrue, Leaving, Published, Exists
    <3>7. CASE d.mark = "cleared"
      <4>1. /\ article'[a] = [row EXCEPT !.indexedAt = None, !.updatedAt = run.at]
            /\ chunks'[a] = {}
        BY <3>5, <3>7 DEF Marked, Fair
      <4>2. article'[a].indexedAt = None
        BY <3>5, <4>1 DEF ArticleRow
      <4> QED BY <2>2, <3>4, <4>1, <4>2 DEF BadgeTrue, Leaving, IsIndexStale
    <3>8. CASE d.mark = "none"
      <4>1. article'[a] = row /\ chunks'[a] = {}
        BY <3>5, <3>8 DEF Marked, Fair
      <4>2. row.status = "PUBLISHED" => IsIndexStale(row)
        BY <1>1, <2>4, <3>5, <3>8 DEF Fair, Sound
      <4> QED BY <2>2, <3>4, <4>1, <4>2 DEF BadgeTrue, Leaving, Published
    <3> QED BY <3>5, <3>6, <3>7, <3>8
  <2> QED BY <2>3, <2>4
<1> QED BY <1>3, <1>4, <1>5, <1>6, <1>7 DEF IInv

-----------------------------------------------------------------------------
(***************************************************************************)
(* The properties.                                                         *)
(***************************************************************************)
\* The invariant holds of all that requests, tasks, reconciles and faults do.
THEOREM Induction ==
  Spec => []IInv
<1>1. Init => IInv
  <2> SUFFICES ASSUME Init  PROVE IInv
    OBVIOUS
  <2>1. Types
    BY DEF Init, Types
  <2>2. Existing /\ Past
    BY DEF Init, Existing, Past, Exists
  <2>3. Runs
    BY DEF Init, Runs, HoldsRow, Whole
  <2>4. Undisturbed
    BY DEF Init, Undisturbed, OneAtWork, AsSeen, BadgeTrue, Leaving, Published, Exists, For, On
  <2> QED BY <2>1, <2>2, <2>3, <2>4 DEF IInv
<1>2. IInv /\ [Next]_vars => IInv'
  <2> SUFFICES ASSUME IInv, [Next]_vars  PROVE IInv'
    OBVIOUS
  <2>1. CASE \E a \in Articles : Create(a) \/ RequestReindex(a)
    BY <2>1, CreateKeeps, RequestReindexKeeps
  <2>2. CASE \E r \in Requests, a \in Articles :
               \E op \in {"update", "publish", "unpublish", "view"} : Begin(r, op, a)
    BY <2>2, BeginKeeps
  <2>3. CASE \E r \in Requests : Commit(r)
    BY <2>3, CommitKeeps
  <2>4. CASE \E w \in Workers, a \in Articles : StartTask(w, a)
    BY <2>4, StartTaskKeeps
  <2>5. CASE \E w \in Workers : StartReconcile(w) \/ EmbedFails(w) \/ Die(w)
    BY <2>5, StartReconcileKeeps, EmbedFailsKeeps, DieKeeps
  <2>6. CASE \E w \in Workers : Work(w)
    BY <2>6, DeleteChunksKeeps, GetLockKeeps, RemoveFromIndexKeeps, EmbeddedKeeps,
       CommitRunKeeps DEF Work
  <2>7. CASE UNCHANGED vars
    <3>1. Types' /\ Existing' /\ Past' /\ Runs'
      BY <2>7 DEF vars, IInv, Types, Existing, Past, Runs, Exists, HoldsRow
    <3>2. Undisturbed'
      BY <2>7 DEF vars, IInv, Undisturbed, OneAtWork, AsSeen, BadgeTrue, Leaving, Published, Exists
    <3> QED BY <3>1, <3>2 DEF IInv
  <2> QED BY <2>1, <2>2, <2>3, <2>4, <2>5, <2>6, <2>7 DEF Next
<1> QED BY <1>1, <1>2, PTL DEF Spec

\* Whatever runs overlap, die or fail, the chunks of an article are none or all those of one
\* text (index_article, _delete_chunks, UNIQUE (article_id, chunk_index)).
THEOREM ChunksStayWhole ==
  Spec => []ChunksWhole
<1>1. IInv => ChunksWhole
  <2> SUFFICES ASSUME IInv, NEW a \in Articles, chunks[a] # {}
               PROVE  \E c \in chunks[a] : chunks[a] = Pieces(c.content)
    BY DEF ChunksWhole
  <2>1. PICK n \in Nat : chunks[a] = Pieces(n)
    BY DEF IInv, Runs, Whole
  <2>2. \A c \in chunks[a] : c.content = n
    BY <2>1, PieceFacts
  <2> QED BY <2>1, <2>2
<1> QED BY <1>1, Induction, PTL

\* The editor's badge (is_index_stale) says what is true of every article no two
\* transactions have worked on at the same time.
THEOREM BadgeIsTruthful ==
  Spec => []BadgeTruthfulAlone
<1>1. IInv => BadgeTruthfulAlone
  BY DEF IInv, Undisturbed, BadgeTruthfulAlone
<1> QED BY <1>1, Induction, PTL

\* An article that was withdrawn has left the index when its tasks are done (unpublish,
\* remove_from_index), unless a fault lost one or transactions overlapped.
THEOREM WithdrawnLeaves ==
  Spec => []WithdrawnIsForgotten
<1>1. IInv => WithdrawnIsForgotten
  <2> SUFFICES ASSUME IInv, NEW a \in Articles \ overlapped, Exists(a), ~Published(a),
                      queued[a] = 0, ~Busy(a), faults = 0
               PROVE  chunks[a] = {}
    BY DEF WithdrawnIsForgotten
  <2>1. Leaving(a)
    BY DEF IInv, Undisturbed
  <2>2. \A w \in Workers : ~On(worker[w], a)
    BY BusyMeans
  <2> QED BY <2>1, <2>2 DEF Leaving
<1> QED BY <1>1, Induction, PTL
=============================================================================
