------------------------ MODULE ClassificationProofs ------------------------
(***************************************************************************)
(* What the classification leaves behind, for any tickets, workers, texts, *)
(* categories and faults.                                                  *)
(*                                                                         *)
(* The properties relate a ticket to the rows in ai_classifications that   *)
(* its runs have left; Recorded says of the two what every step keeps.     *)
(***************************************************************************)
EXTENDS Classification, FiniteSetTheorems, TLAPS

RecordRow ==
  [createdAt : Nat, applied : BOOLEAN, accepted : BOOLEAN \cup {None},
   corrected : Categories \cup {None}, suggested : Categories \cup {None},
   confidence : (0..100) \cup {None}]

Types ==
  /\ deployment \in Deployments
  /\ ticket \in [Tickets -> TicketRow \cup {None}]
  /\ started \in Nat
  /\ worker \in [Workers -> [ticket : Tickets, number : Nat] \cup {None}]
  /\ records \in [Tickets -> SUBSET RecordRow]

\* r is the last record of R that says it was applied.
Latest(r, R) == r \in R /\ r.applied /\ \A q \in R : q.applied => q.createdAt <= r.createdAt

\* A ticket's row and the records of its runs.
Recorded(row, R) ==
  /\ \A r, q \in R : r.createdAt = q.createdAt => r = q
  /\ \A r \in R : r.applied =>
       row.ai = "APPLIED" /\ r.confidence \in 0..100 /\ r.confidence >= Threshold
  /\ row.ai = "APPLIED" => \E r \in R : r.applied /\ (row.human \/ r.suggested = row.category)
  /\ (\E r \in R : r.applied) => \E r \in R : Latest(r, R)
  /\ \A r \in R : Latest(r, R) /\ r.accepted = FALSE =>
       r.corrected = row.category /\ r.suggested # row.category

OnRecord ==
  \A t \in Tickets : IF Exists(t) THEN Recorded(ticket[t], records[t]) ELSE records[t] = {}

\* The runs at work have tickets, and numbers of their own.
Numbered ==
  /\ \A w \in Workers : worker[w] # None =>
       /\ w \in deployment.workers
       /\ Exists(worker[w].ticket) /\ worker[w].number \in 1..started
       /\ \A v \in Workers : worker[v] # None /\ worker[v].number = worker[w].number => v = w
       /\ \A t \in Tickets : \A r \in records[t] : r.createdAt # worker[w].number
  /\ \A t \in Tickets : \A r \in records[t] : r.createdAt \in 1..started

\* While there is one worker, a ticket it has in hand is not decided meanwhile, and at most
\* one run of each ticket was applied.
Singly ==
  Alone =>
    /\ \A w \in Workers : worker[w] # None => ticket[worker[w].ticket].ai = "PENDING"
    /\ \A t \in Tickets : \A r, q \in records[t] : r.applied /\ q.applied => r = q

\* And a run that was applied is corrected just when the ticket has another category than it
\* chose, closed or not.
Judged ==
  Alone =>
    \A t \in Tickets : \A r \in records[t] : r.applied =>
      (r.accepted = FALSE <=> r.suggested # ticket[t].category)

IInv == Types /\ OnRecord /\ Numbered

-----------------------------------------------------------------------------
(***************************************************************************)
(* One ticket and its records.                                             *)
(***************************************************************************)
\* A run leaves its record.
LEMMA AddKeeps ==
  ASSUME NEW R \in SUBSET RecordRow, NEW row \in TicketRow, Recorded(row, R),
         NEW new \in TicketRow, NEW r \in RecordRow,
         \A q \in R : q.createdAt # r.createdAt,
         r.accepted = None,
         r.applied => /\ new.ai = "APPLIED"
                      /\ r.confidence \in 0..100 /\ r.confidence >= Threshold,
         row.ai # "PENDING" => new = row,
         row.ai = "PENDING" /\ new.ai = "APPLIED" => r.applied /\ r.suggested = new.category
  PROVE  Recorded(new, R \cup {r})
<1> DEFINE S == R \cup {r}
<1>1. \A p, q \in S : p.createdAt = q.createdAt => p = q
  BY DEF Recorded
<1>2. \A q \in R : q.applied => row = new /\ row.ai = "APPLIED"
  BY DEF Recorded
<1>3. \A q \in S : q.applied =>
        new.ai = "APPLIED" /\ q.confidence \in 0..100 /\ q.confidence >= Threshold
  BY <1>2 DEF Recorded
<1>4. new.ai = "APPLIED" => \E q \in S : q.applied /\ (new.human \/ q.suggested = new.category)
  <2>1. CASE row.ai = "PENDING"
    BY <2>1
  <2>2. CASE row.ai # "PENDING"
    BY <2>2 DEF Recorded
  <2> QED BY <2>1, <2>2
<1>5. (\E q \in S : q.applied) => \E q \in S : Latest(q, S)
  <2>1. CASE \E q \in R : q.applied
    <3>1. PICK q \in R : Latest(q, R)
      BY <2>1 DEF Recorded
    <3>2. q.createdAt \in Nat /\ r.createdAt \in Nat /\ \A p \in R : p.createdAt \in Nat
      BY DEF RecordRow
    <3>3. CASE r.applied /\ r.createdAt > q.createdAt
      <4>1. \A p \in R : p.applied => p.createdAt <= r.createdAt
        BY <3>1, <3>2, <3>3 DEF Latest
      <4> QED BY <3>2, <3>3, <4>1 DEF Latest
    <3>4. CASE ~(r.applied /\ r.createdAt > q.createdAt)
      BY <3>1, <3>2, <3>4 DEF Latest
    <3> QED BY <3>3, <3>4
  <2>2. CASE ~\E q \in R : q.applied
    <3>1. r.createdAt \in Nat
      BY DEF RecordRow
    <3> QED BY <2>2, <3>1 DEF Latest
  <2> QED BY <2>1, <2>2
<1>6. \A q \in S : Latest(q, S) /\ q.accepted = FALSE =>
        q.corrected = new.category /\ q.suggested # new.category
  <2>1. ASSUME NEW q \in S, Latest(q, S), q.accepted = FALSE
        PROVE  q.corrected = new.category /\ q.suggested # new.category
    <3>1. q \in R
      BY <2>1, NoneAssumption
    <3>2. Latest(q, R) /\ row = new
      BY <1>2, <2>1, <3>1 DEF Latest
    <3> QED BY <2>1, <3>1, <3>2 DEF Recorded
  <2> QED BY <2>1
<1> QED BY <1>1, <1>3, <1>4, <1>5, <1>6 DEF Recorded

\* The ticket is closed.
LEMMA SettleKeeps ==
  ASSUME NEW R \in SUBSET RecordRow, NEW row \in TicketRow, Recorded(row, R),
         NEW new \in TicketRow, new = [row EXCEPT !.status = "CLOSED"]
  PROVE  /\ Recorded(new, {Settled(r) : r \in R})
         /\ {Settled(r) : r \in R} \subseteq RecordRow
<1> DEFINE S == {Settled(r) : r \in R}
<1>1. \A r \in R : /\ Settled(r) \in RecordRow /\ Settled(r) \in S
                   /\ Settled(r).createdAt = r.createdAt /\ Settled(r).applied = r.applied
                   /\ Settled(r).confidence = r.confidence
                   /\ Settled(r).suggested = r.suggested
                   /\ Settled(r).corrected = r.corrected
                   /\ Settled(r).accepted = FALSE => r.accepted = FALSE
  BY DEF Settled, RecordRow
<1>2. new.ai = row.ai /\ new.human = row.human /\ new.category = row.category
  BY DEF TicketRow
<1>3. \A r \in R : Latest(Settled(r), S) <=> Latest(r, R)
  BY <1>1 DEF Latest
<1>4. \A p \in S : \E r \in R : p = Settled(r)
  OBVIOUS
<1> HIDE DEF S
<1>5. \A p, q \in S : p.createdAt = q.createdAt => p = q
  BY <1>1, <1>4 DEF Recorded
<1>6. \A p \in S : p.applied =>
        new.ai = "APPLIED" /\ p.confidence \in 0..100 /\ p.confidence >= Threshold
  BY <1>1, <1>2, <1>4 DEF Recorded
<1>7. new.ai = "APPLIED" => \E p \in S : p.applied /\ (new.human \/ p.suggested = new.category)
  BY <1>1, <1>2 DEF Recorded
<1>8. (\E p \in S : p.applied) => \E p \in S : Latest(p, S)
  BY <1>1, <1>3, <1>4 DEF Recorded
<1>9. \A p \in S : Latest(p, S) /\ p.accepted = FALSE =>
        p.corrected = new.category /\ p.suggested # new.category
  BY <1>1, <1>2, <1>3, <1>4 DEF Recorded
<1>10. S \subseteq RecordRow
  BY <1>1, <1>4
<1>11. Recorded(new, S)
  BY <1>5, <1>6, <1>7, <1>8, <1>9 DEF Recorded
<1> QED BY <1>10, <1>11 DEF S

\* Somebody chooses another category.
LEMMA CorrectKeeps ==
  ASSUME NEW t \in Tickets, NEW c \in Categories,
         NEW row \in TicketRow, NEW new \in TicketRow,
         records[t] \in SUBSET RecordRow, Recorded(row, records[t]), row.category # c,
         new = [[row EXCEPT !.category = c] EXCEPT !.human = TRUE]
  PROVE  /\ Recorded(new, RecordAiCorrection(t, c))
         /\ RecordAiCorrection(t, c) \subseteq RecordRow
         /\ \A p \in RecordAiCorrection(t, c) :
              \E r \in records[t] : p.createdAt = r.createdAt /\ p.applied = r.applied
<1> DEFINE R == records[t]
<1>1. new.ai = row.ai /\ new.human = TRUE /\ new.category = c
  BY DEF TicketRow
<1>2. CASE ~\E r \in R : r.applied
  <2>1. RecordAiCorrection(t, c) = R
    BY <1>2 DEF RecordAiCorrection, AppliedRecords
  <2>2. Recorded(new, R)
    BY <1>1, <1>2 DEF Recorded, Latest
  <2> QED BY <2>1, <2>2
<1>3. CASE \E r \in R : r.applied
  <2> DEFINE last == LatestApplied(t)
             next == Corrected(last, c)
             S == (R \ {last}) \cup {next}
  <2>1. Latest(last, R)
    <3>1. PICK r \in R : Latest(r, R)
      BY <1>3 DEF Recorded
    <3>2. r \in AppliedRecords(t) /\ \A q \in AppliedRecords(t) : q.createdAt <= r.createdAt
      BY <3>1 DEF Latest, AppliedRecords
    <3>3. /\ LatestApplied(t) \in AppliedRecords(t)
          /\ \A q \in AppliedRecords(t) : q.createdAt <= LatestApplied(t).createdAt
      BY <3>2 DEF LatestApplied
    <3> QED BY <3>3 DEF Latest, AppliedRecords
  <2>2. RecordAiCorrection(t, c) = S
    BY <1>3 DEF RecordAiCorrection, AppliedRecords
  <2> HIDE DEF last
  <2>3. last \in RecordRow /\ last \in R /\ last.applied
    BY <2>1 DEF Latest
  <2>4. /\ next \in RecordRow
        /\ next.createdAt = last.createdAt /\ next.applied = last.applied
        /\ next.confidence = last.confidence /\ next.suggested = last.suggested
        /\ next.accepted = FALSE => next.corrected = c /\ next.suggested # c
    BY <2>3, NoneAssumption DEF Corrected, RecordRow
  <2> HIDE DEF next
  <2>5. \A p, q \in S : p.createdAt = q.createdAt => p = q
    BY <2>3, <2>4 DEF Recorded
  <2>6. \A p \in S : p.applied =>
          new.ai = "APPLIED" /\ p.confidence \in 0..100 /\ p.confidence >= Threshold
    BY <1>1, <2>3, <2>4 DEF Recorded
  <2>7. next \in S /\ next.applied
    BY <2>3, <2>4
  <2>8. Latest(next, S)
    BY <2>1, <2>3, <2>4, <2>7 DEF Latest, RecordRow
  <2>9. \A p \in S : Latest(p, S) => p = next
    <3>1. \A p \in S : p.createdAt \in Nat
      BY <2>4 DEF RecordRow
    <3> QED BY <2>5, <2>7, <2>8, <3>1 DEF Latest
  <2>10. Recorded(new, S)
    <3>1. \A p \in S : Latest(p, S) /\ p.accepted = FALSE =>
            p.corrected = new.category /\ p.suggested # new.category
      BY <1>1, <2>4, <2>9
    <3> HIDE DEF S
    <3> QED BY <1>1, <2>5, <2>6, <2>7, <2>8, <3>1 DEF Recorded
  <2>11. S \subseteq RecordRow
    BY <2>4
  <2>12. \A p \in S : \E r \in R : p.createdAt = r.createdAt /\ p.applied = r.applied
    BY <2>3, <2>4
  <2> QED BY <2>2, <2>10, <2>11, <2>12
<1> QED BY <1>2, <1>3

-----------------------------------------------------------------------------
(***************************************************************************)
(* The steps.                                                              *)
(***************************************************************************)
LEMMA SuggestionsAreSound ==
  ASSUME NEW s \in Suggestions, s # None
  PROVE  s.category \in Categories /\ s.confidence \in 0..100
<1>1. PICK answer \in Answers, x \in Texts : s = Suggested(answer, x)
  BY DEF Suggestions
<1>2. CASE Validated(answer) # None
  BY <1>1, <1>2 DEF Suggested, Validated, Suggestion
<1>3. CASE Validated(answer) = None
  <2>1. s = Fallback(x)
    BY <1>1, <1>3 DEF Suggested
  <2>2. s = ByKeywords(x) /\ s.category \in Categories
    BY <2>1 DEF Fallback
  <2>3. s.confidence = RULE_CONFIDENCE
    BY <2>2 DEF ByKeywords, Suggestion
  <2> QED BY <2>2, <2>3 DEF RULE_CONFIDENCE
<1> QED BY <1>2, <1>3

\* A run ends: what it makes of the row goes with what it puts on record.
Fits(row, new, s, applied) ==
  /\ new \in TicketRow
  /\ applied => new.ai = "APPLIED" /\ s # None /\ s.confidence >= Threshold
  /\ row.ai # "PENDING" => new = row
  /\ row.ai = "PENDING" /\ new.ai = "APPLIED" => applied /\ s.category = new.category

LEMMA WorkFits ==
  ASSUME IInv, NEW w \in Workers, Work(w)
  PROVE  /\ worker[w] # None
         /\ \E s \in Suggestions \cup {None}, new \in TicketRow, applied \in BOOLEAN :
              /\ Fits(ticket[worker[w].ticket], new, s, applied)
              /\ Finish(w, new, s, applied)
<1> DEFINE row == ticket[worker[w].ticket]
<1>1. worker[w] # None
  BY DEF Work, FinishConfident, FinishUnsure, FinishFailed
<1>2. row \in TicketRow
  BY <1>1 DEF IInv, Types, Numbered, Exists
<1>3. ASSUME NEW s \in Suggestions, FinishConfident(w, s)
      PROVE  LET new == Applied(row, s.category)
             IN  /\ Fits(row, new, s, ApplyResult(row) = "APPLIED")
                 /\ Finish(w, new, s, ApplyResult(row) = "APPLIED")
  <2>1. s # None /\ s.confidence >= Threshold /\ s.category \in Categories
    BY <1>3, SuggestionsAreSound DEF FinishConfident
  <2>2. Applied(row, s.category) \in TicketRow
    BY <1>2, <2>1 DEF Applied, TicketRow
  <2>3. Fits(row, Applied(row, s.category), s, ApplyResult(row) = "APPLIED")
    BY <1>2, <2>1, <2>2 DEF Fits, Applied, ApplyResult, TicketRow
  <2> QED BY <1>3, <2>3 DEF FinishConfident
<1>4. ASSUME NEW s \in Suggestions, FinishUnsure(w, s)
      PROVE  LET new == Marked(row, "LOW_CONFIDENCE")
             IN  Fits(row, new, s, FALSE) /\ Finish(w, new, s, FALSE)
  BY <1>2, <1>4 DEF FinishUnsure, Fits, Marked, TicketRow
<1>5. ASSUME FinishFailed(w)
      PROVE  LET new == Marked(row, "FAILED")
             IN  Fits(row, new, None, FALSE) /\ Finish(w, new, None, FALSE)
  BY <1>2, <1>5 DEF FinishFailed, Fits, Marked, TicketRow
<1>6. CASE \E s \in Suggestions : FinishConfident(w, s)
  BY <1>1, <1>3, <1>6 DEF Fits
<1>7. CASE \E s \in Suggestions : FinishUnsure(w, s)
  BY <1>1, <1>4, <1>7 DEF Fits
<1>8. CASE FinishFailed(w)
  BY <1>1, <1>5, <1>8 DEF Fits
<1> QED BY <1>6, <1>7, <1>8 DEF Work

LEMMA WorkKeeps ==
  ASSUME IInv, NEW w \in Workers, Work(w)
  PROVE  IInv'
<1>1. PICK s \in Suggestions \cup {None}, new \in TicketRow, applied \in BOOLEAN :
        /\ Fits(ticket[worker[w].ticket], new, s, applied)
        /\ Finish(w, new, s, applied)
  BY WorkFits
<1> DEFINE t == worker[w].ticket
           n == worker[w].number
           r == Record(n, s, applied)
<1>2. /\ worker[w] # None /\ t \in Tickets /\ n \in Nat /\ n \in 1..started
      /\ ticket[t] \in TicketRow /\ ticket[t] # None
  BY WorkFits DEF IInv, Types, Numbered, Exists
<1>3. /\ ticket' = [ticket EXCEPT ![t] = new]
      /\ records' = [records EXCEPT ![t] = @ \cup {r}]
      /\ worker' = [worker EXCEPT ![w] = None]
      /\ started' = started /\ deployment' = deployment
  BY <1>1 DEF Finish
<1>4. /\ r \in RecordRow /\ r.createdAt = n /\ r.applied = applied /\ r.accepted = None
      /\ s # None => r.suggested = s.category /\ r.confidence = s.confidence
      /\ s # None => s.confidence \in 0..100
  BY <1>2, SuggestionsAreSound DEF Record, RecordRow
<1> HIDE DEF r
<1>5. Types'
  BY <1>2, <1>3, <1>4 DEF IInv, Types
<1>6. OnRecord'
  <2>1. \A q \in records[t] : q.createdAt # r.createdAt
    BY <1>2, <1>4 DEF IInv, Numbered
  <2>2. records[t] \in SUBSET RecordRow /\ Recorded(ticket[t], records[t])
    BY <1>2 DEF IInv, OnRecord, Exists, Types
  <2>3. r.applied => /\ new.ai = "APPLIED"
                     /\ r.confidence \in 0..100 /\ r.confidence >= Threshold
    BY <1>1, <1>4 DEF Fits
  <2>4. /\ ticket[t].ai # "PENDING" => new = ticket[t]
        /\ ticket[t].ai = "PENDING" /\ new.ai = "APPLIED" =>
             r.applied /\ r.suggested = new.category
    BY <1>1, <1>4 DEF Fits
  <2>5. Recorded(new, records[t] \cup {r})
    BY <1>2, <1>4, <2>1, <2>2, <2>3, <2>4, AddKeeps
  <2>6. new # None
    BY NoneAssumption
  <2>7. ASSUME NEW x \in Tickets
        PROVE  IF ticket'[x] # None THEN Recorded(ticket'[x], records'[x]) ELSE records'[x] = {}
    <3>1. CASE x = t
      BY <1>2, <1>3, <2>5, <2>6, <3>1 DEF IInv, Types
    <3>2. CASE x # t
      <4>1. ticket'[x] = ticket[x] /\ records'[x] = records[x]
        BY <1>3, <3>2 DEF IInv, Types
      <4> QED BY <4>1 DEF IInv, OnRecord, Exists
    <3> QED BY <3>1, <3>2
  <2> QED BY <2>7 DEF OnRecord, Exists
<1>7. Numbered'
  <2>1. \A v \in Workers : worker'[v] # None => v # w /\ worker'[v] = worker[v]
    BY <1>3 DEF IInv, Types
  <2>2. \A x \in Tickets : ticket[x] # None => ticket'[x] # None
    BY <1>3, NoneAssumption DEF IInv, Types
  <2>3. \A x \in Tickets : \A q \in records'[x] : q \in records[x] \/ q.createdAt = n
    BY <1>3, <1>4 DEF IInv, Types
  <2>4. \A v \in Workers : worker'[v] # None => worker[v].number # n /\ worker[v].ticket \in Tickets
    BY <1>2, <2>1 DEF IInv, Numbered, Types
  <2> QED BY <1>2, <1>3, <2>1, <2>2, <2>3, <2>4 DEF IInv, Numbered, Exists
<1> QED BY <1>5, <1>6, <1>7 DEF IInv

\* A step of a user, on one ticket.
LEMMA UserStepKeeps ==
  ASSUME IInv, NEW t \in Tickets, NEW new \in TicketRow, NEW R \in SUBSET RecordRow,
         ticket[t] # None, Recorded(new, R),
         \A p \in R : \E r \in records[t] : p.createdAt = r.createdAt,
         ticket' = [ticket EXCEPT ![t] = new],
         records' = [records EXCEPT ![t] = R],
         UNCHANGED <<deployment, started, worker>>
  PROVE  IInv'
<1>1. Types'
  BY DEF IInv, Types
<1>2. ASSUME NEW x \in Tickets
      PROVE  IF ticket'[x] # None THEN Recorded(ticket'[x], records'[x]) ELSE records'[x] = {}
  <2>1. CASE x = t
    BY <2>1, NoneAssumption DEF IInv, Types
  <2>2. CASE x # t
    <3>1. ticket'[x] = ticket[x] /\ records'[x] = records[x]
      BY <2>2 DEF IInv, Types
    <3> QED BY <3>1 DEF IInv, OnRecord, Exists
  <2> QED BY <2>1, <2>2
<1>3. Numbered'
  <2>1. \A x \in Tickets : ticket[x] # None => ticket'[x] # None
    BY NoneAssumption DEF IInv, Types
  <2>2. \A x \in Tickets : \A p \in records'[x] : \E r \in records[x] : p.createdAt = r.createdAt
    BY DEF IInv, Types
  <2>3. \A w \in Workers : worker[w] # None => worker[w].ticket \in Tickets
    BY DEF IInv, Types
  <2>4. ASSUME NEW w \in Workers, worker[w] # None, NEW x \in Tickets, NEW p \in records'[x]
        PROVE  p.createdAt # worker[w].number
    <3>1. PICK r \in records[x] : p.createdAt = r.createdAt
      BY <2>2
    <3> QED BY <2>4, <3>1 DEF IInv, Numbered
  <2>5. \A x \in Tickets : \A p \in records'[x] : p.createdAt \in 1..started
    BY <2>2 DEF IInv, Numbered
  <2> QED BY <2>1, <2>3, <2>4, <2>5 DEF IInv, Numbered, Exists
<1> QED BY <1>1, <1>2, <1>3 DEF IInv, OnRecord, Exists

LEMMA ReclassifyKeeps ==
  ASSUME IInv, NEW t \in Tickets, NEW c \in Categories, Reclassify(t, c)
  PROVE  IInv'
<1> DEFINE new == [[ticket[t] EXCEPT !.category = c] EXCEPT !.human = TRUE]
           R   == RecordAiCorrection(t, c)
<1>1. /\ ticket[t] # None /\ ticket[t] \in TicketRow /\ records[t] \in SUBSET RecordRow
      /\ Recorded(ticket[t], records[t]) /\ ticket[t].category # c
  BY DEF Reclassify, Exists, IInv, Types, OnRecord
<1>2. new \in TicketRow
  BY <1>1 DEF TicketRow
<1>3. /\ Recorded(new, R) /\ R \subseteq RecordRow
      /\ \A p \in R : \E r \in records[t] : p.createdAt = r.createdAt /\ p.applied = r.applied
  BY <1>1, <1>2, CorrectKeeps
<1>4. /\ ticket' = [ticket EXCEPT ![t] = new] /\ records' = [records EXCEPT ![t] = R]
      /\ UNCHANGED <<deployment, started, worker>>
  BY DEF Reclassify, IInv, Types
<1> HIDE DEF new, R
<1>5. R \in SUBSET RecordRow /\ \A p \in R : \E r \in records[t] : p.createdAt = r.createdAt
  BY <1>3
<1> QED BY <1>1, <1>2, <1>3, <1>4, <1>5, UserStepKeeps

LEMMA ReprioritiseKeeps ==
  ASSUME IInv, NEW t \in Tickets, Reprioritise(t)
  PROVE  IInv'
<1> DEFINE new == [ticket[t] EXCEPT !.human = TRUE]
<1>1. /\ ticket[t] # None /\ ticket[t] \in TicketRow /\ records[t] \in SUBSET RecordRow
      /\ Recorded(ticket[t], records[t])
  BY DEF Reprioritise, Exists, IInv, Types, OnRecord
<1>2. /\ new \in TicketRow /\ new.ai = ticket[t].ai /\ new.human = TRUE
      /\ new.category = ticket[t].category
  BY <1>1 DEF TicketRow
<1>3. /\ ticket' = [ticket EXCEPT ![t] = new]
      /\ records' = [records EXCEPT ![t] = records[t]]
      /\ UNCHANGED <<deployment, started, worker>>
  BY DEF Reprioritise, IInv, Types
<1> HIDE DEF new
<1>4. Recorded(new, records[t])
  BY <1>1, <1>2 DEF Recorded
<1> QED BY <1>1, <1>2, <1>3, <1>4, UserStepKeeps

LEMMA CloseKeeps ==
  ASSUME IInv, NEW t \in Tickets, Close(t)
  PROVE  IInv'
<1> DEFINE new == [ticket[t] EXCEPT !.status = "CLOSED"]
           R   == {Settled(r) : r \in records[t]}
<1>1. /\ ticket[t] # None /\ ticket[t] \in TicketRow /\ records[t] \in SUBSET RecordRow
      /\ Recorded(ticket[t], records[t])
  BY DEF Close, Exists, IInv, Types, OnRecord
<1>2. new \in TicketRow
  BY <1>1 DEF TicketRow
<1>3. Recorded(new, R) /\ R \subseteq RecordRow
  BY <1>1, <1>2, SettleKeeps
<1>4. \A p \in R : \E r \in records[t] : p.createdAt = r.createdAt
  BY <1>1 DEF Settled, RecordRow
<1>5. /\ ticket' = [ticket EXCEPT ![t] = new] /\ records' = [records EXCEPT ![t] = R]
      /\ UNCHANGED <<deployment, started, worker>>
  BY DEF Close, IInv, Types
<1> HIDE DEF new, R
<1> QED BY <1>1, <1>2, <1>3, <1>4, <1>5, UserStepKeeps

LEMMA CreateKeeps ==
  ASSUME IInv, NEW t \in Tickets, NEW c \in Categories \cup {None}, Create(t, c)
  PROVE  IInv'
<1> DEFINE new == [status |-> "OPEN", category |-> c, human |-> FALSE, ai |-> "PENDING"]
<1>0. new \in TicketRow
  BY DEF TicketRow
<1>1. new \in TicketRow /\ new # None /\ new.ai = "PENDING"
  BY <1>0, NoneAssumption
<1>2. /\ ticket[t] = None /\ records[t] = {}
      /\ ticket' = [ticket EXCEPT ![t] = new]
      /\ UNCHANGED <<deployment, started, worker, records>>
  BY DEF Create, Exists, IInv, OnRecord
<1> HIDE DEF new
<1>3. Types'
  BY <1>1, <1>2 DEF IInv, Types
<1>4. \A x \in Tickets : ticket[x] # None => ticket'[x] = ticket[x] /\ ticket[x] # None
  BY <1>2 DEF IInv, Types
<1>5. Recorded(new, {})
  BY <1>1 DEF Recorded
<1>6. OnRecord'
  <2>1. ASSUME NEW x \in Tickets
        PROVE  IF ticket'[x] # None THEN Recorded(ticket'[x], records[x]) ELSE records[x] = {}
    <3>1. CASE x = t
      BY <1>1, <1>2, <1>5, <3>1 DEF IInv, Types
    <3>2. CASE x # t
      <4>1. ticket'[x] = ticket[x]
        BY <1>2, <3>2 DEF IInv, Types
      <4> QED BY <4>1 DEF IInv, OnRecord, Exists
    <3> QED BY <3>1, <3>2
  <2> QED BY <1>2, <2>1 DEF OnRecord, Exists
<1>7. \A w \in Workers : worker[w] # None => worker[w].ticket \in Tickets
  BY DEF IInv, Types
<1>8. Numbered'
  BY <1>2, <1>4, <1>7 DEF IInv, Numbered, Exists
<1> QED BY <1>3, <1>6, <1>8 DEF IInv

LEMMA StartKeeps ==
  ASSUME IInv, NEW w \in Workers, Start(w)
  PROVE  IInv'
<1> DEFINE t == Head(queue)
           run == [ticket |-> t, number |-> started + 1]
<1>1. /\ w \in deployment.workers /\ worker[w] = None
      /\ UNCHANGED <<deployment, ticket, records>>
  BY DEF Start
<1>2. CASE ToClassify(t)
  <2>1. t \in Tickets /\ ticket[t] # None
    BY <1>2 DEF ToClassify, Pending, Exists
  <2>2. worker' = [worker EXCEPT ![w] = run] /\ started' = started + 1
    BY <1>2 DEF Start
  <2>3. /\ run \in [ticket : Tickets, number : Nat]
        /\ run.ticket = t /\ run.number = started + 1
    BY <2>1 DEF IInv, Types
  <2> HIDE DEF run
  <2>4. Types'
    BY <1>1, <2>2, <2>3 DEF IInv, Types
  <2>5. OnRecord'
    BY <1>1 DEF IInv, OnRecord, Exists
  <2>6. /\ \A v \in Workers : v # w => worker'[v] = worker[v]
        /\ worker'[w] = run /\ started \in Nat
        /\ \A v \in Workers : worker[v] # None => worker[v].number \in Nat
        /\ \A x \in Tickets : \A r \in records[x] : r.createdAt \in Nat
    BY <2>2 DEF IInv, Types, RecordRow
  <2>7. Numbered'
    BY <1>1, <2>1, <2>2, <2>3, <2>6 DEF IInv, Numbered, Exists
  <2> QED BY <2>4, <2>5, <2>7 DEF IInv
<1>3. CASE ~ToClassify(t)
  BY <1>1, <1>3 DEF Start, IInv, Types, OnRecord, Numbered, Exists
<1> QED BY <1>2, <1>3

LEMMA DieKeeps ==
  ASSUME IInv, NEW w \in Workers, Die(w)
  PROVE  IInv'
<1>1. worker' = [worker EXCEPT ![w] = None] /\ UNCHANGED <<deployment, ticket, started, records>>
  BY DEF Die
<1>2. \A v \in Workers : worker'[v] # None => worker'[v] = worker[v]
  BY <1>1 DEF IInv, Types
<1>3. Types' /\ OnRecord'
  BY <1>1 DEF IInv, Types, OnRecord, Exists
<1>4. Numbered'
  BY <1>1, <1>2 DEF IInv, Numbered, Exists
<1> QED BY <1>3, <1>4 DEF IInv

\* The invariant holds of all that the API, the workers, the beat and the faults do.
THEOREM Induction ==
  Spec => []IInv
<1>1. Init => IInv
  BY DEF Init, IInv, Types, OnRecord, Numbered, Exists
<1>2. IInv /\ [Next]_vars => IInv'
  <2> SUFFICES ASSUME IInv, [Next]_vars  PROVE IInv'
    OBVIOUS
  <2>1. CASE \E t \in Tickets, c \in Categories \cup {None} : Create(t, c)
    BY <2>1, CreateKeeps
  <2>2. CASE Age \/ Reconcile
    BY <2>2 DEF Age, Reconcile, IInv, Types, OnRecord, Numbered, Exists
  <2>3. CASE \E w \in Workers : Start(w) \/ Work(w) \/ Die(w)
    BY <2>3, StartKeeps, WorkKeeps, DieKeeps
  <2>4. CASE \E t \in Tickets, c \in Categories : Reclassify(t, c)
    BY <2>4, ReclassifyKeeps
  <2>5. CASE \E t \in Tickets : Reprioritise(t) \/ Close(t)
    BY <2>5, ReprioritiseKeeps, CloseKeeps
  <2>6. CASE UNCHANGED vars
    BY <2>6 DEF vars, IInv, Types, OnRecord, Numbered, Exists
  <2> QED BY <2>1, <2>2, <2>3, <2>4, <2>5, <2>6 DEF Next
<1> QED BY <1>1, <1>2, PTL DEF Spec

-----------------------------------------------------------------------------
(***************************************************************************)
(* The properties.                                                         *)
(***************************************************************************)
\* Whatever runs are still on their way when a ticket leaves PENDING, and however late they
\* finish, ai_status and the AI's choice stay (apply_ai_classification, mark_ai_status).
THEOREM DecisionsStand ==
  Spec => DecidedOnce
<1>1. IInv /\ [Next]_vars =>
        [\A t \in Tickets : Exists(t) /\ ~Pending(t) =>
           /\ ticket'[t].ai = ticket[t].ai
           /\ ticket'[t].category # ticket[t].category => ticket'[t].human]_vars
  <2> SUFFICES ASSUME IInv, Next, NEW t \in Tickets, Exists(t), ~Pending(t)
               PROVE  /\ ticket'[t].ai = ticket[t].ai
                      /\ ticket'[t].category # ticket[t].category => ticket'[t].human
    OBVIOUS
  <2>1. ticket[t] \in TicketRow /\ ticket[t].ai # "PENDING"
    BY DEF Exists, Pending, IInv, Types
  <2>2. ASSUME NEW w \in Workers, Work(w)
        PROVE  ticket'[t] = ticket[t]
    <3>1. PICK s \in Suggestions \cup {None}, new \in TicketRow, applied \in BOOLEAN :
            /\ Fits(ticket[worker[w].ticket], new, s, applied)
            /\ Finish(w, new, s, applied)
      BY <2>2, WorkFits
    <3>2. ticket' = [ticket EXCEPT ![worker[w].ticket] = new]
      BY <3>1 DEF Finish
    <3>3. worker[w].ticket = t => new = ticket[t]
      BY <2>1, <3>1 DEF Fits
    <3> QED BY <3>2, <3>3 DEF IInv, Types
  <2>3. ASSUME NEW x \in Tickets, NEW c \in Categories, Reclassify(x, c)
        PROVE  ticket'[t].ai = ticket[t].ai /\ (ticket'[t] = ticket[t] \/ ticket'[t].human)
    <3>1. CASE x = t
      BY <2>1, <2>3, <3>1 DEF Reclassify, IInv, Types, TicketRow
    <3>2. CASE x # t
      BY <2>3, <3>2 DEF Reclassify, IInv, Types
    <3> QED BY <3>1, <3>2
  <2>4. ASSUME NEW x \in Tickets, Reprioritise(x) \/ Close(x)
        PROVE  ticket'[t].ai = ticket[t].ai /\ ticket'[t].category = ticket[t].category
    <3>1. CASE x = t
      BY <2>1, <2>4, <3>1 DEF Reprioritise, Close, IInv, Types, TicketRow
    <3>2. CASE x # t
      BY <2>4, <3>2 DEF Reprioritise, Close, IInv, Types
    <3> QED BY <3>1, <3>2
  <2>5. ASSUME NEW x \in Tickets, NEW c \in Categories \cup {None}, Create(x, c)
        PROVE  ticket'[t] = ticket[t]
    BY <2>5 DEF Create, Exists, IInv, Types
  <2>6. CASE Age \/ Reconcile \/ \E w \in Workers : Start(w) \/ Die(w)
    BY <2>6 DEF Age, Reconcile, Start, Die
  <2> QED BY <2>2, <2>3, <2>4, <2>5, <2>6 DEF Next
<1> QED BY <1>1, Induction, PTL DEF Spec, DecidedOnce

\* What the AI did is on record, and with a threshold above the confidence of the keyword
\* rules it never rests on keywords alone (_finish, BR-14).
THEOREM ApplicationsAreRecorded ==
  ASSUME Threshold > RULE_CONFIDENCE
  PROVE  Spec => []AppliedIsRecorded
<1>1. IInv => AppliedIsRecorded
  <2> SUFFICES ASSUME IInv, NEW t \in Tickets
               PROVE  /\ Exists(t) /\ ticket[t].ai = "APPLIED" =>
                           \E r \in AppliedRecords(t) :
                             ticket[t].human \/ r.suggested = ticket[t].category
                      /\ \A r \in AppliedRecords(t) :
                           r.confidence > RULE_CONFIDENCE /\ r.confidence >= Threshold
    BY DEF AppliedIsRecorded
  <2>1. CASE Exists(t)
    <3>1. Recorded(ticket[t], records[t])
      BY <2>1 DEF IInv, OnRecord
    <3> QED BY <2>1, <3>1, ThresholdAssumption DEF Recorded, AppliedRecords, RULE_CONFIDENCE
  <2>2. CASE ~Exists(t)
    BY <2>2 DEF IInv, OnRecord, AppliedRecords
  <2> QED BY <2>1, <2>2
<1> QED BY <1>1, Induction, PTL

\* A correction on the record that counts names the category the ticket has, however often
\* the category was changed and whatever runs finished meanwhile (_record_ai_correction).
THEOREM CorrectionsStayCurrent ==
  Spec => []CorrectionsCurrent
<1>1. IInv => CorrectionsCurrent
  <2> SUFFICES ASSUME IInv, NEW t \in Tickets, AppliedRecords(t) # {},
                      LatestApplied(t).accepted = FALSE
               PROVE  /\ LatestApplied(t).corrected = ticket[t].category
                      /\ LatestApplied(t).suggested # ticket[t].category
    BY DEF CorrectionsCurrent
  <2>1. Recorded(ticket[t], records[t])
    BY DEF IInv, OnRecord, AppliedRecords
  <2>2. PICK r \in records[t] : Latest(r, records[t])
    BY <2>1 DEF Recorded, AppliedRecords
  <2>3. r \in AppliedRecords(t) /\ \A q \in AppliedRecords(t) : q.createdAt <= r.createdAt
    BY <2>2 DEF Latest, AppliedRecords
  <2>4. /\ LatestApplied(t) \in AppliedRecords(t)
        /\ \A q \in AppliedRecords(t) : q.createdAt <= LatestApplied(t).createdAt
    BY <2>3 DEF LatestApplied
  <2>5. LatestApplied(t) \in records[t] /\ Latest(LatestApplied(t), records[t])
    BY <2>4 DEF Latest, AppliedRecords
  <2> QED BY <2>1, <2>5 DEF Recorded
<1> QED BY <1>1, Induction, PTL

-----------------------------------------------------------------------------
(***************************************************************************)
(* One worker.                                                             *)
(***************************************************************************)
LEMMA SinglyKept ==
  ASSUME IsFiniteSet(Workers), IInv, Singly, [Next]_vars
  PROVE  Singly'
<1>1. deployment' = deployment
  BY DEF Next, vars, Create, Age, Reconcile, Start, Work, FinishConfident, FinishUnsure,
         FinishFailed, Finish, Die, Reclassify, Reprioritise, Close
<1> SUFFICES ASSUME Alone
             PROVE  /\ \A w \in Workers : worker'[w] # None =>
                         ticket'[worker'[w].ticket].ai = "PENDING"
                    /\ \A t \in Tickets : \A r, q \in records'[t] :
                         r.applied /\ q.applied => r = q
  BY <1>1 DEF Singly, Alone
<1>2. PICK only : deployment.workers = {only}
  <2>1. IsFiniteSet(deployment.workers)
    BY FS_Subset, DeploymentsAssumption DEF IInv, Types
  <2> QED BY <2>1, FS_Singleton DEF Alone
<1>3. /\ \A w \in Workers : worker[w] # None =>
           /\ w = only /\ worker[w].ticket \in Tickets
           /\ ticket[worker[w].ticket] # None /\ ticket[worker[w].ticket].ai = "PENDING"
           /\ ticket[worker[w].ticket] \in TicketRow
      /\ \A t \in Tickets : \A r, q \in records[t] : r.applied /\ q.applied => r = q
  BY <1>2 DEF Singly, IInv, Numbered, Types, Pending, Exists
<1>4. ASSUME NEW t \in Tickets, NEW c \in Categories \cup {None}, Create(t, c)
      PROVE  /\ worker' = worker /\ records' = records
             /\ \A x \in Tickets : ticket[x] # None => ticket'[x] = ticket[x]
  BY <1>4 DEF Create, Exists, IInv, Types
<1>5. ASSUME NEW w \in Workers, Start(w)
      PROVE  /\ records' = records /\ ticket' = ticket
             /\ \A v \in Workers : worker'[v] # None =>
                  worker'[v] = worker[v] \/ ticket[worker'[v].ticket].ai = "PENDING"
  BY <1>5 DEF Start, ToClassify, Pending, IInv, Types
<1>6. ASSUME NEW w \in Workers, Work(w)
      PROVE  /\ \A v \in Workers : worker'[v] = None
             /\ \A t \in Tickets : \A r, q \in records'[t] : r.applied /\ q.applied => r = q
  <2>1. PICK s \in Suggestions \cup {None}, new \in TicketRow, applied \in BOOLEAN :
          /\ Fits(ticket[worker[w].ticket], new, s, applied)
          /\ Finish(w, new, s, applied)
    BY <1>6, WorkFits
  <2>2. worker[w] # None
    BY <1>6, WorkFits
  <2> DEFINE t == worker[w].ticket
             rec == Record(worker[w].number, s, applied)
  <2>3. /\ worker' = [worker EXCEPT ![w] = None]
        /\ records' = [records EXCEPT ![t] = @ \cup {rec}]
    BY <2>1 DEF Finish
  <2>4. \A v \in Workers : worker'[v] = None
    BY <1>3, <2>2, <2>3 DEF IInv, Types
  <2>5. \A r \in records[t] : ~r.applied
    BY <1>3, <2>2 DEF IInv, OnRecord, Exists, Recorded
  <2> HIDE DEF rec
  <2>6. \A x \in Tickets : records'[x] = records[x] \/ (x = t /\ records'[x] = records[x] \cup {rec})
    BY <2>3 DEF IInv, Types
  <2> QED BY <1>3, <2>4, <2>5, <2>6
<1>7. ASSUME NEW w \in Workers, Die(w)
      PROVE  /\ records' = records /\ ticket' = ticket
             /\ \A v \in Workers : worker'[v] # None => worker'[v] = worker[v]
  BY <1>7 DEF Die, IInv, Types
<1>8. ASSUME NEW t \in Tickets, NEW c \in Categories, Reclassify(t, c)
      PROVE  /\ worker' = worker
             /\ \A x \in Tickets : ticket[x] # None =>
                  ticket'[x].ai = ticket[x].ai
             /\ \A x \in Tickets : \A r, q \in records'[x] : r.applied /\ q.applied => r = q
  <2> DEFINE new == [[ticket[t] EXCEPT !.category = c] EXCEPT !.human = TRUE]
             R   == RecordAiCorrection(t, c)
  <2>1. /\ ticket[t] # None /\ ticket[t] \in TicketRow /\ records[t] \in SUBSET RecordRow
        /\ Recorded(ticket[t], records[t]) /\ ticket[t].category # c
    BY <1>8 DEF Reclassify, Exists, IInv, Types, OnRecord
  <2>2. new \in TicketRow /\ new.ai = ticket[t].ai
    BY <2>1 DEF TicketRow
  <2>3. /\ Recorded(new, R)
        /\ \A p \in R : \E r \in records[t] : p.createdAt = r.createdAt /\ p.applied = r.applied
    BY <2>1, <2>2, CorrectKeeps
  <2>4. /\ ticket' = [ticket EXCEPT ![t] = new] /\ records' = [records EXCEPT ![t] = R]
        /\ worker' = worker
    BY <1>8 DEF Reclassify, IInv, Types
  <2> HIDE DEF new, R
  <2>5. \A p, q \in R : p.applied /\ q.applied => p = q
    <3>1. \A p, q \in R : p.createdAt = q.createdAt => p = q
      BY <2>3 DEF Recorded
    <3> QED BY <1>3, <2>3, <3>1
  <2>6. new # None
    BY <2>2, NoneAssumption
  <2> QED BY <1>3, <2>2, <2>4, <2>5, <2>6 DEF IInv, Types
<1>9. ASSUME NEW t \in Tickets, Reprioritise(t) \/ Close(t)
      PROVE  /\ worker' = worker
             /\ \A x \in Tickets : ticket[x] # None =>
                  ticket'[x].ai = ticket[x].ai
             /\ \A x \in Tickets : \A r, q \in records'[x] : r.applied /\ q.applied => r = q
  <2>1. ticket[t] # None /\ ticket[t] \in TicketRow
    BY <1>9 DEF Reprioritise, Close, Exists, IInv, Types
  <2>2. PICK new \in TicketRow : new.ai = ticket[t].ai /\ ticket' = [ticket EXCEPT ![t] = new]
    <3>1. /\ [ticket[t] EXCEPT !.human = TRUE] \in TicketRow
          /\ [ticket[t] EXCEPT !.human = TRUE].ai = ticket[t].ai
          /\ [ticket[t] EXCEPT !.status = "CLOSED"] \in TicketRow
          /\ [ticket[t] EXCEPT !.status = "CLOSED"].ai = ticket[t].ai
      BY <2>1 DEF TicketRow
    <3> QED BY <1>9, <3>1 DEF Reprioritise, Close, IInv, Types
  <2>3. new # None
    BY NoneAssumption
  <2>4. worker' = worker
    BY <1>9 DEF Reprioritise, Close
  <2>5. \A x \in Tickets : records'[x] = records[x] \/ records'[x] = {Settled(r) : r \in records[x]}
    BY <1>9 DEF Reprioritise, Close, IInv, Types
  <2>6. \A r \in RecordRow : Settled(r).applied = r.applied
    BY DEF Settled, RecordRow
  <2>7. \A x \in Tickets : records[x] \subseteq RecordRow
    BY DEF IInv, Types
  <2>8. \A x \in Tickets : \A r, q \in records'[x] : r.applied /\ q.applied => r = q
    BY <1>3, <2>5, <2>6, <2>7
  <2> QED BY <2>2, <2>3, <2>4, <2>8 DEF IInv, Types
<1>10. CASE \E t \in Tickets, c \in Categories \cup {None} : Create(t, c)
  BY <1>3, <1>4, <1>10
<1>11. CASE \E w \in Workers : Start(w)
  BY <1>3, <1>5, <1>11
<1>12. CASE \E w \in Workers : Work(w)
  BY <1>6, <1>12
<1>13. CASE \E w \in Workers : Die(w)
  BY <1>3, <1>7, <1>13
<1>14. CASE \E t \in Tickets, c \in Categories : Reclassify(t, c)
  BY <1>3, <1>8, <1>14
<1>15. CASE \E t \in Tickets : Reprioritise(t) \/ Close(t)
  BY <1>3, <1>9, <1>15
<1>16. CASE Age \/ Reconcile \/ UNCHANGED vars
  BY <1>3, <1>16 DEF Age, Reconcile, vars
<1> QED BY <1>10, <1>11, <1>12, <1>13, <1>14, <1>15, <1>16 DEF Next

\* Running the task again is safe as long as one worker does the runs one after the other:
\* then the re-check on the locked row never finds what another run has applied.  (The run
\* ClassifyRerun shows what happens with two.)
THEOREM AppliedOnceWhenAlone ==
  ASSUME IsFiniteSet(Workers)
  PROVE  Spec => [](Alone => AppliedOnce)
<1>1. Init => Singly
  BY DEF Init, Singly
<1>2. IInv /\ Singly /\ [Next]_vars => Singly'
  BY SinglyKept
<1>3. IInv /\ Singly => (Alone => AppliedOnce)
  <2> SUFFICES ASSUME Singly, Alone, NEW t \in Tickets
               PROVE  Cardinality(AppliedRecords(t)) <= 1
    BY DEF AppliedOnce
  <2>1. \A r, q \in AppliedRecords(t) : r = q
    BY DEF Singly, AppliedRecords
  <2>2. CASE AppliedRecords(t) = {}
    BY <2>2, FS_EmptySet
  <2>3. CASE AppliedRecords(t) # {}
    <3>1. PICK r : AppliedRecords(t) = {r}
      BY <2>1, <2>3
    <3> QED BY <3>1, FS_Singleton
  <2> QED BY <2>2, <2>3
<1> QED BY <1>1, <1>2, <1>3, Induction, PTL DEF Spec

\* Corrections, their revocation and closing keep what is on record true to the ticket.
LEMMA JudgedKept ==
  ASSUME IInv, Singly, Judged, [Next]_vars
  PROVE  Judged'
<1>1. deployment' = deployment
  BY DEF Next, vars, Create, Age, Reconcile, Start, Work, FinishConfident, FinishUnsure,
         FinishFailed, Finish, Die, Reclassify, Reprioritise, Close
<1> SUFFICES ASSUME Alone, NEW x \in Tickets, NEW p \in records'[x], p.applied
             PROVE  p.accepted = FALSE <=> p.suggested # ticket'[x].category
  BY <1>1 DEF Judged, Alone
<1>2. \A r \in records[x] : r.applied =>
        /\ ticket[x] # None /\ ticket[x] \in TicketRow /\ ticket[x].ai = "APPLIED"
        /\ r.accepted = FALSE <=> r.suggested # ticket[x].category
        /\ \A q \in records[x] : q.applied => r = q
        /\ r \in RecordRow
  BY DEF IInv, Types, OnRecord, Recorded, Exists, Singly, Judged
<1>3. ASSUME records'[x] = records[x], ticket[x] # None => ticket'[x] = ticket[x]
      PROVE  p.accepted = FALSE <=> p.suggested # ticket'[x].category
  BY <1>2, <1>3
<1>4. ASSUME NEW t \in Tickets, NEW c \in Categories \cup {None}, Create(t, c)
      PROVE  records'[x] = records[x] /\ (ticket[x] # None => ticket'[x] = ticket[x])
  BY <1>4 DEF Create, Exists, IInv, Types
<1>5. ASSUME NEW w \in Workers, Work(w)
      PROVE  p.accepted = FALSE <=> p.suggested # ticket'[x].category
  <2>1. PICK s \in Suggestions \cup {None}, new \in TicketRow, applied \in BOOLEAN :
          /\ Fits(ticket[worker[w].ticket], new, s, applied)
          /\ Finish(w, new, s, applied)
    BY <1>5, WorkFits
  <2> DEFINE t == worker[w].ticket
             rec == Record(worker[w].number, s, applied)
  <2>2. /\ ticket' = [ticket EXCEPT ![t] = new]
        /\ records' = [records EXCEPT ![t] = @ \cup {rec}]
        /\ worker[w] # None /\ t \in Tickets
    BY <1>5, <2>1, WorkFits DEF Finish, IInv, Types
  <2>3. ticket[t].ai = "PENDING"
    BY <2>2 DEF Singly
  <2>4. /\ rec.applied = applied /\ rec.accepted = None
        /\ s # None => rec.suggested = s.category
    BY DEF Record
  <2> HIDE DEF rec
  <2>5. CASE x # t
    BY <1>3, <2>2, <2>5 DEF IInv, Types
  <2>6. CASE x = t
    <3>1. p = rec
      BY <1>2, <2>2, <2>3, <2>6 DEF IInv, Types
    <3>2. new.ai = "APPLIED" /\ s # None /\ s.category = new.category
      BY <2>1, <2>3, <2>4, <3>1 DEF Fits
    <3>3. ticket'[x] = new
      BY <2>2, <2>6 DEF IInv, Types
    <3> QED BY <2>4, <3>1, <3>2, <3>3, NoneAssumption
  <2> QED BY <2>5, <2>6
<1>6. ASSUME NEW t \in Tickets, NEW c \in Categories, Reclassify(t, c)
      PROVE  p.accepted = FALSE <=> p.suggested # ticket'[x].category
  <2>1. /\ records' = [records EXCEPT ![t] = RecordAiCorrection(t, c)]
        /\ ticket' = [ticket EXCEPT ![t].category = c, ![t].human = TRUE]
    BY <1>6 DEF Reclassify
  <2>2. CASE x # t
    BY <1>3, <2>1, <2>2 DEF IInv, Types
  <2>3. CASE x = t
    <3> DEFINE last == LatestApplied(x)
    <3>1. records'[x] = RecordAiCorrection(x, c)
      BY <2>1, <2>3 DEF IInv, Types
    <3>2. AppliedRecords(x) # {}
      BY <3>1 DEF RecordAiCorrection, AppliedRecords
    <3>3. PICK r \in records[x] : r.applied
      BY <3>2 DEF AppliedRecords
    <3>4. /\ AppliedRecords(x) = {r} /\ r \in RecordRow
          /\ ticket[x] # None /\ ticket[x] \in TicketRow
      BY <1>2, <3>3 DEF AppliedRecords
    <3>5. r.createdAt <= r.createdAt
      BY <3>4 DEF RecordRow
    <3>6. last = r
      BY <3>4, <3>5 DEF LatestApplied
    <3>7. records'[x] = (records[x] \ {r}) \cup {Corrected(r, c)}
      BY <3>1, <3>2, <3>6 DEF RecordAiCorrection
    <3> HIDE DEF last
    <3>8. p = Corrected(r, c)
      BY <1>2, <3>3, <3>7
    <3>9. p.accepted = FALSE <=> r.suggested # c
      BY <3>4, <3>8, NoneAssumption DEF Corrected, RecordRow
    <3>10. p.suggested = r.suggested
      BY <3>4, <3>8 DEF Corrected, RecordRow
    <3>11. ticket'[x].category = c
      BY <2>1, <2>3, <3>4 DEF IInv, Types, TicketRow
    <3> QED BY <3>9, <3>10, <3>11
  <2> QED BY <2>2, <2>3
<1>7. ASSUME NEW t \in Tickets, Reprioritise(t) \/ Close(t)
      PROVE  p.accepted = FALSE <=> p.suggested # ticket'[x].category
  <2>1. ticket[t] # None /\ ticket[t] \in TicketRow
    BY <1>7 DEF Reprioritise, Close, Exists, IInv, Types
  <2>2. ticket'[x].category = ticket[x].category
    BY <1>7, <2>1 DEF Reprioritise, Close, IInv, Types, TicketRow
  <2>3. \/ records'[x] = records[x]
        \/ records'[x] = {Settled(r) : r \in records[x]}
    BY <1>7 DEF Reprioritise, Close, IInv, Types
  <2>4. PICK r \in records[x] : p = r \/ p = Settled(r)
    BY <2>3
  <2>5. r \in RecordRow
    BY DEF IInv, Types
  <2>6. r.applied /\ p.suggested = r.suggested /\ (p.accepted = FALSE <=> r.accepted = FALSE)
    BY <2>4, <2>5, NoneAssumption DEF Settled, RecordRow
  <2> QED BY <1>2, <2>2, <2>6
<1>8. CASE \E t \in Tickets, c \in Categories \cup {None} : Create(t, c)
  BY <1>3, <1>4, <1>8
<1>9. CASE \E w \in Workers : Work(w)
  BY <1>5, <1>9
<1>10. CASE \E t \in Tickets, c \in Categories : Reclassify(t, c)
  BY <1>6, <1>10
<1>11. CASE \E t \in Tickets : Reprioritise(t) \/ Close(t)
  BY <1>7, <1>11
<1>12. CASE Age \/ Reconcile \/ UNCHANGED vars \/ \E w \in Workers : Start(w) \/ Die(w)
  BY <1>3, <1>12 DEF Age, Reconcile, vars, Start, Die
<1> QED BY <1>8, <1>9, <1>10, <1>11, <1>12 DEF Next

\* The applied runs are one for each ticket that is APPLIED.
LEMMA AppliedRuns ==
  ASSUME IInv, Singly, Alone, IsFiniteSet(Tickets)
  PROVE  LET A == {x \in RunsSince(0) : x.record.applied}
             T == {t \in Tickets : Exists(t) /\ ticket[t].ai = "APPLIED"}
         IN  IsFiniteSet(A) /\ IsFiniteSet(T) /\ Cardinality(A) = Cardinality(T)
<1> DEFINE A == {x \in RunsSince(0) : x.record.applied}
           T == {t \in Tickets : Exists(t) /\ ticket[t].ai = "APPLIED"}
           f == [x \in A |-> x.ticket]
<1>1. ASSUME NEW x \in A
      PROVE  /\ x.ticket \in T /\ x.record \in records[x.ticket] /\ x.record.applied
             /\ x = [ticket |-> x.ticket, record |-> x.record]
  <2>1. PICK t \in Tickets : \E r \in records[t] : x = [ticket |-> t, record |-> r]
    BY DEF RunsSince
  <2> QED BY <2>1 DEF IInv, OnRecord, Recorded
<1>2. ASSUME NEW t \in T
      PROVE  \E x \in A : x.ticket = t
  <2>1. PICK r \in records[t] : r.applied
    BY DEF IInv, OnRecord, Recorded
  <2>2. r.createdAt > 0
    BY DEF IInv, Numbered
  <2>3. [ticket |-> t, record |-> r] \in RunsSince(0)
    BY <2>2 DEF RunsSince
  <2> DEFINE x == [ticket |-> t, record |-> r]
  <2>4. x \in A /\ x.ticket = t
    BY <2>1, <2>3
  <2> QED BY <2>4
<1>3. \A x, y \in A : x.ticket = y.ticket => x = y
  <2>1. SUFFICES ASSUME NEW x \in A, NEW y \in A, x.ticket = y.ticket  PROVE x = y
    OBVIOUS
  <2>2. x.record = y.record
    BY <1>1, <2>1 DEF Singly
  <2> QED BY <1>1, <2>1, <2>2
<1> HIDE DEF A, T
<1>4. f \in Injection(A, T) /\ f \in Surjection(A, T)
  BY <1>1, <1>2, <1>3 DEF Injection, IsInjective, Surjection
<1>5. IsFiniteSet(T)
  BY FS_Subset DEF T
<1> QED BY <1>4, <1>5, FS_Injection DEF A, T

\* With one run at a time the accuracy report agrees with the tickets, whatever was
\* corrected, taken back and closed in which order (classification_accuracy).
THEOREM ReportIsAccurate ==
  ASSUME IsFiniteSet(Workers), IsFiniteSet(Tickets)
  PROVE  Spec => []AccuracyTruthful
<1>1. Init => Singly /\ Judged
  BY DEF Init, Singly, Judged
<1>2. IInv /\ Singly /\ Judged /\ [Next]_vars => Singly' /\ Judged'
  BY SinglyKept, JudgedKept
<1>3. IInv /\ Singly /\ Judged => AccuracyTruthful
  <2> SUFFICES ASSUME IInv, Singly, Judged, Alone  PROVE AccuracyTruthful
    BY DEF AccuracyTruthful
  <2> DEFINE A == {x \in RunsSince(0) : x.record.applied}
             T == {t \in Tickets : Exists(t) /\ ticket[t].ai = "APPLIED"}
  <2>1. IsFiniteSet(A) /\ IsFiniteSet(T) /\ Cardinality(A) = Cardinality(T)
    BY AppliedRuns
  <2>2. ASSUME NEW n \in 0..started, NEW c \in Categories
        PROVE  /\ ByCategory(n)[c].corrected = ByCategory(n)[c].applied - Confusion(n)[c][c]
               /\ ByCategory(n)[c].accepted <= Confusion(n)[c][c]
    <3> DEFINE B == {x \in RunsSince(n) : x.record.applied /\ x.record.suggested = c}
               D == {x \in RunsSince(n) :
                       x.record.applied /\ x.record.suggested = c /\ ticket[x.ticket].category = c}
               all   == {x \in B : x.record.applied}
               wrong == {x \in B : x.record.accepted = FALSE}
               right == {x \in B : x.record.accepted = TRUE}
    <3>1. \A x \in B : x.record.accepted = FALSE <=> ticket[x.ticket].category # c
      <4>1. SUFFICES ASSUME NEW x \in B
                     PROVE  x.record.accepted = FALSE <=> ticket[x.ticket].category # c
        OBVIOUS
      <4>2. PICK t \in Tickets : \E r \in records[t] : x = [ticket |-> t, record |-> r]
        BY DEF RunsSince
      <4> QED BY <4>2 DEF Judged
    <3>2. B \subseteq A
      <4>1. \A t \in Tickets : \A r \in records[t] : r.createdAt > 0
        BY DEF IInv, Numbered
      <4> QED BY <4>1 DEF RunsSince
    <3>3. /\ D \subseteq B /\ wrong = B \ D /\ right \subseteq D /\ B \cap D = D
          /\ all = B
      BY <3>1
    <3>4. IsFiniteSet(B) /\ IsFiniteSet(D)
      BY <2>1, <3>2, <3>3, FS_Subset
    <3>5. ByCategory(n)[c] = [applied |-> Cardinality(all),
                              accepted |-> Cardinality(right), corrected |-> Cardinality(wrong)]
      BY DEF ByCategory, Bucket
    <3>6. Confusion(n)[c][c] = Cardinality(D)
      BY DEF Confusion
    <3> HIDE DEF B, D, all, right, wrong
    <3>7. Cardinality(wrong) = Cardinality(B) - Cardinality(D)
      <4>1. Cardinality(B \ D) = Cardinality(B) - Cardinality(B \cap D)
        BY <3>4, FS_Difference
      <4> QED BY <3>3, <4>1, Zenon
    <3>8. Cardinality(right) <= Cardinality(D)
      BY <3>3, <3>4, FS_Subset
    <3>9. /\ ByCategory(n)[c].applied = Cardinality(B)
          /\ ByCategory(n)[c].corrected = Cardinality(wrong)
          /\ ByCategory(n)[c].accepted = Cardinality(right)
      BY <3>3, <3>5
    <3> QED BY <3>6, <3>7, <3>8, <3>9
  <2>3. Bucket(RunsSince(0)).applied = Cardinality(A)
    BY DEF Bucket
  <2>4. CASE T = {}
    <3>1. "APPLIED" \notin DOMAIN StatusBreakdown
      BY <2>4 DEF StatusBreakdown
    <3> QED BY <2>1, <2>2, <2>3, <2>4, <3>1, FS_EmptySet DEF AccuracyTruthful
  <2>5. CASE T # {}
    <3>1. "APPLIED" \in DOMAIN StatusBreakdown
      BY <2>5 DEF StatusBreakdown
    <3>2. StatusBreakdown["APPLIED"] = Cardinality(T)
      BY <3>1 DEF StatusBreakdown
    <3> QED BY <2>1, <2>2, <2>3, <3>1, <3>2 DEF AccuracyTruthful
  <2> QED BY <2>4, <2>5
<1> QED BY <1>1, <1>2, <1>3, Induction, PTL DEF Spec
=============================================================================
