--------------------------- MODULE InsightsProofs ---------------------------
(***************************************************************************)
(* The reports, ratings and suggestions of Insights are true for any       *)
(* tickets, accounts, windows and settings.                                *)
(*                                                                         *)
(* Most of them are sums, which the prover knows as recursive functions    *)
(* on sets.  The first part says of Total what the others need: it does    *)
(* not depend on the order, it grows by what is added, and the sizes of    *)
(* the classes of a set add up to its size.                                *)
(***************************************************************************)
EXTENDS Insights, FiniteSetTheorems, SequenceTheorems, WellFoundedInduction, TLAPS

\* Among finite sets there is a smallest one.
FiniteFamily(F, S) == \A T \in F : T \subseteq S /\ IsFiniteSet(T)
IsSmallest(T, F)   == T \in F /\ \A U \in F : ~(U \subseteq T /\ U # T)

LEMMA Smallest ==
  ASSUME NEW S, NEW F, F # {}, FiniteFamily(F, S)
  PROVE  \E T : IsSmallest(T, F)
<1>1. F \subseteq FiniteSubsetsOf(S)
  BY DEF FiniteSubsetsOf, FiniteFamily
<1>2. PICK T \in F : \A U \in F : ~(<<U, T>> \in StrictSubsetOrdering(S))
  BY <1>1, WFMin, FS_StrictSubsetOrderingWellFounded
<1>3. \A U \in F : U \subseteq T /\ U # T => <<U, T>> \in StrictSubsetOrdering(S)
  <2>1. SUFFICES ASSUME NEW U \in F, U \subseteq T, U # T
                 PROVE  <<U, T>> \in StrictSubsetOrdering(S)
    OBVIOUS
  <2>2. U \in SUBSET S /\ T \in SUBSET S
    BY <1>2, <2>1 DEF FiniteFamily
  <2> QED BY <2>1, <2>2 DEF StrictSubsetOrdering
<1>4. \A U \in F : ~(U \subseteq T /\ U # T)
  BY <1>2, <1>3
<1> QED BY <1>2, <1>4 DEF IsSmallest

\* The element that MapThenSumSet takes first.
AnyOf(s) == CHOOSE x \in s : TRUE

\* h adds up f over the subsets of D, element by element, as MapThenSumSet does.
AddsUp(h, f, D) ==
  h = [s \in D |-> IF s = {} THEN 0 ELSE f[AnyOf(s)] + h[s \ {AnyOf(s)}]]

LEMMA AnyIs ==
  ASSUME NEW s, s # {}
  PROVE  AnyOf(s) \in s
BY DEF AnyOf

\* Of the natural numbers in a set one is the least.
LEMMA Least ==
  ASSUME NEW B, B \subseteq Nat, B # {}
  PROVE  \E n \in B : \A m \in B : n <= m
<1>1. PICK n \in B : \A m \in B : ~(<<m, n>> \in OpToRel(<, Nat))
  BY WFMin, NatLessThanWellFounded
<1>2. \A m \in B : m < n => <<m, n>> \in OpToRel(<, Nat)
  BY DEF OpToRel
<1>3. \A m \in B : ~(m < n)
  BY <1>1, <1>2, Zenon
<1> QED BY <1>3

LEMMA SumExists ==
  ASSUME NEW S, IsFiniteSet(S), NEW f
  PROVE  \E h : AddsUp(h, f, SUBSET S)
<1> DEFINE D(n) == {s \in SUBSET S : Cardinality(s) <= n}
           B == {n \in Nat : ~\E h : AddsUp(h, f, D(n))}
<1>0. \A s \in SUBSET S : IsFiniteSet(s) /\ Cardinality(s) \in Nat
  BY FS_Subset, FS_CardinalityType
<1>1. ASSUME NEW n \in B, \A m \in B : n <= m
      PROVE  FALSE
  <2>1. CASE n = 0
    <3>1. \A s \in D(0) : s = {}
      BY <1>0, FS_EmptySet
    <3> DEFINE h == [s \in D(0) |-> 0]
    <3>2. AddsUp(h, f, D(0))
      BY <3>1 DEF AddsUp
    <3> QED BY <2>1, <3>2
  <2>2. CASE n # 0
    <3>0. n \in Nat
      OBVIOUS
    <3>1. n - 1 \in Nat /\ n - 1 \notin B
      <4> HIDE DEF B
      <4> QED BY <1>1, <2>2, <3>0
    <3>2. PICK h : AddsUp(h, f, D(n - 1))
      BY <3>1
    <3> DEFINE v == [s \in D(n) |-> IF s \in D(n - 1) THEN h[s] ELSE f[AnyOf(s)] + h[s \ {AnyOf(s)}]]
    <3>3. \A s \in D(n) : s # {} => s \ {AnyOf(s)} \in D(n - 1)
      <4>1. SUFFICES ASSUME NEW s \in D(n), s # {}
                     PROVE  s \ {AnyOf(s)} \in D(n - 1)
        OBVIOUS
      <4>2. Cardinality(s \ {AnyOf(s)}) = Cardinality(s) - 1
        BY <1>0, <4>1, AnyIs, FS_RemoveElement
      <4> QED BY <1>0, <4>2
    <3>4. D(n - 1) \subseteq D(n) /\ {} \in D(n - 1)
      BY <1>0, <3>1, FS_EmptySet
    <3> HIDE DEF D
    <3>5. \A s \in D(n - 1) : h[s] = IF s = {} THEN 0 ELSE f[AnyOf(s)] + h[s \ {AnyOf(s)}]
      BY <3>2 DEF AddsUp
    <3>6. \A s \in D(n) : v[s] = IF s = {} THEN 0 ELSE f[AnyOf(s)] + v[s \ {AnyOf(s)}]
      BY <3>3, <3>4, <3>5
    <3>7. AddsUp(v, f, D(n))
      <4>1. v = [s \in D(n) |-> v[s]]
        OBVIOUS
      <4> HIDE DEF v
      <4> QED BY <3>6, <4>1 DEF AddsUp
    <3> HIDE DEF v
    <3> QED BY <3>7
  <2> QED BY <2>1, <2>2
<1>2. B = {}
  <2> HIDE DEF B
  <2>1. B \subseteq Nat
    BY DEF B
  <2> QED BY <1>1, <2>1, Least
<1>3. D(Cardinality(S)) = SUBSET S
  BY FS_Subset, FS_CardinalityType
<1>4. Cardinality(S) \in Nat
  BY FS_CardinalityType
<1> HIDE DEF D
<1> QED BY <1>2, <1>3, <1>4

\* Total is such a sum.
LEMMA TotalIs ==
  ASSUME NEW S, IsFiniteSet(S), NEW f
  PROVE  \E h : AddsUp(h, f, SUBSET S) /\ Total(f, S) = h[S]
<1> DEFINE H == CHOOSE h : AddsUp(h, f, SUBSET S)
<1>1. AddsUp(H, f, SUBSET S)
  BY SumExists
<1>2. Total(f, S) = H[S]
  BY DEF Total, MapThenSumSet, MapThenFoldSet, AddsUp, AnyOf
<1> QED BY <1>1, <1>2

\* Whatever element is taken first.
LEMMA AnyOrder ==
  ASSUME NEW S, IsFiniteSet(S), NEW f, \A x \in S : f[x] \in Int,
         NEW h, AddsUp(h, f, SUBSET S)
  PROVE  \A s \in SUBSET S : h[s] \in Int /\ \A x \in s : h[s] = f[x] + h[s \ {x}]
<1> DEFINE P(s) == h[s] \in Int /\ \A x \in s : h[s] = f[x] + h[s \ {x}]
           F == {s \in SUBSET S : ~P(s)}
<1>1. SUFFICES ASSUME NEW T, IsSmallest(T, F)
               PROVE  FALSE
  <2>1. F # {} => \E V : IsSmallest(V, F)
    <3>1. FiniteFamily(F, S)
      BY FS_Subset DEF FiniteFamily
    <3> HIDE DEF F
    <3> QED BY <3>1, Smallest
  <2> QED BY <1>1, <2>1
<1>2. T \in SUBSET S /\ \A U \in SUBSET T : U # T => P(U)
  BY <1>1 DEF IsSmallest
<1> HIDE DEF P
<1>3. \A s \in SUBSET S : h[s] = IF s = {} THEN 0 ELSE f[AnyOf(s)] + h[s \ {AnyOf(s)}]
  BY DEF AddsUp
<1>4. T # {} /\ T \in SUBSET S
  <2>1. {} \in SUBSET S
    OBVIOUS
  <2>2. h[{}] = 0
    BY <1>3, <2>1
  <2>3. P({})
    BY <2>2 DEF P
  <2> QED BY <1>1, <1>2, <2>3 DEF IsSmallest
<1> DEFINE y == AnyOf(T)
<1>5. y \in T /\ h[T] = f[y] + h[T \ {y}]
  BY <1>3, <1>4, AnyIs
<1> HIDE DEF y
<1>6. \A x \in T : P(T \ {x})
  BY <1>2
<1>7. h[T] \in Int
  <2>1. y \in S
    BY <1>4, <1>5
  <2>2. f[y] \in Int /\ h[T \ {y}] \in Int
    BY <1>5, <1>6, <2>1 DEF P
  <2> QED BY <1>5, <2>2
<1>8. ASSUME NEW x \in T, x # y
      PROVE  h[T] = f[x] + h[T \ {x}]
  <2>1. h[T \ {y}] = f[x] + h[(T \ {y}) \ {x}] /\ h[T \ {x}] = f[y] + h[(T \ {x}) \ {y}]
    BY <1>5, <1>6, <1>8 DEF P
  <2>2. (T \ {y}) \ {x} = (T \ {x}) \ {y}
    OBVIOUS
  <2>3. h[(T \ {x}) \ {y}] \in Int
    BY <1>2, <1>4, <1>5, <1>8 DEF P
  <2>4. f[x] \in Int /\ f[y] \in Int
    BY <1>4, <1>5, <1>8
  <2> HIDE DEF F
  <2> DEFINE c == h[(T \ {x}) \ {y}]
  <2>5. h[T] = f[y] + (f[x] + c) /\ h[T \ {x}] = f[y] + c /\ c \in Int
    BY <1>5, <2>1, <2>2, <2>3
  <2> HIDE DEF c
  <2> QED BY <2>4, <2>5
<1>9. P(T)
  BY <1>5, <1>7, <1>8 DEF P
<1> QED BY <1>1, <1>9 DEF IsSmallest

\* Only the values of what is summed up matter.
Agree(f, g, T) == \A x \in T : f[x] = g[x]

LEMMA SameSum ==
  ASSUME NEW S, NEW T, IsFiniteSet(T), NEW f, NEW g, NEW h, NEW k, T \subseteq S,
         AddsUp(h, f, SUBSET S), AddsUp(k, g, SUBSET T), Agree(f, g, T)
  PROVE  h[T] = k[T]
<1> DEFINE F == {s \in SUBSET T : h[s] # k[s]}
<1>1. SUFFICES ASSUME NEW U, IsSmallest(U, F)
               PROVE  FALSE
  <2>1. F # {} => \E V : IsSmallest(V, F)
    <3>1. FiniteFamily(F, T)
      BY FS_Subset DEF FiniteFamily
    <3> HIDE DEF F
    <3> QED BY <3>1, Smallest
  <2> QED BY <1>1, <2>1
<1>2. h[U] = (IF U = {} THEN 0 ELSE f[AnyOf(U)] + h[U \ {AnyOf(U)}])
      /\ k[U] = (IF U = {} THEN 0 ELSE g[AnyOf(U)] + k[U \ {AnyOf(U)}])
  BY <1>1 DEF AddsUp, IsSmallest
<1>3. U # {}
  BY <1>1, <1>2 DEF IsSmallest
<1>4. AnyOf(U) \in U
  BY <1>3, AnyIs
<1>5. h[U \ {AnyOf(U)}] = k[U \ {AnyOf(U)}]
  BY <1>1, <1>4 DEF IsSmallest
<1>6. f[AnyOf(U)] = g[AnyOf(U)]
  BY <1>1, <1>4 DEF IsSmallest, Agree
<1> QED BY <1>1, <1>2, <1>3, <1>5, <1>6 DEF IsSmallest

\* Three facts that say what Total is.
LEMMA TotalOfNone ==
  ASSUME NEW f
  PROVE  Total(f, {}) = 0
<1>1. PICK h : AddsUp(h, f, SUBSET {}) /\ Total(f, {}) = h[{}]
  BY TotalIs, FS_EmptySet
<1> QED BY <1>1 DEF AddsUp

LEMMA TotalSplits ==
  ASSUME NEW S, IsFiniteSet(S), NEW f, \A x \in S : f[x] \in Int, NEW x \in S
  PROVE  Total(f, S) = f[x] + Total(f, S \ {x})
<1>1. PICK h : AddsUp(h, f, SUBSET S) /\ Total(f, S) = h[S]
  BY TotalIs
<1>2. IsFiniteSet(S \ {x})
  BY FS_RemoveElement
<1>3. PICK k : AddsUp(k, f, SUBSET (S \ {x})) /\ Total(f, S \ {x}) = k[S \ {x}]
  BY <1>2, TotalIs
<1> DEFINE T == S \ {x}
<1>4. h[T] = k[T]
  <2>1. T \subseteq S /\ AddsUp(k, f, SUBSET T) /\ IsFiniteSet(T) /\ Agree(f, f, T)
    BY <1>2, <1>3 DEF Agree
  <2> HIDE DEF T
  <2> QED BY <1>1, <2>1, SameSum
<1>5. h[S] = f[x] + h[S \ {x}]
  <2>1. \A s \in SUBSET S : h[s] \in Int /\ \A y \in s : h[s] = f[y] + h[s \ {y}]
    BY <1>1, AnyOrder
  <2> QED BY <2>1
<1> QED BY <1>1, <1>3, <1>4, <1>5

LEMMA TotalType ==
  ASSUME NEW S, IsFiniteSet(S), NEW f, \A x \in S : f[x] \in Int
  PROVE  Total(f, S) \in Int
<1>1. PICK h : AddsUp(h, f, SUBSET S) /\ Total(f, S) = h[S]
  BY TotalIs
<1>2. \A s \in SUBSET S : h[s] \in Int /\ \A y \in s : h[s] = f[y] + h[s \ {y}]
  BY <1>1, AnyOrder
<1> QED BY <1>1, <1>2

LEMMA TotalSame ==
  ASSUME NEW S, IsFiniteSet(S), NEW f, NEW g, \A x \in S : f[x] = g[x]
  PROVE  Total(f, S) = Total(g, S)
<1>1. PICK h : AddsUp(h, f, SUBSET S) /\ Total(f, S) = h[S]
  BY TotalIs
<1>2. PICK k : AddsUp(k, g, SUBSET S) /\ Total(g, S) = k[S]
  BY TotalIs
<1> DEFINE T == S
<1>3. T \subseteq S /\ IsFiniteSet(T) /\ AddsUp(k, g, SUBSET T) /\ Agree(f, g, T)
  BY <1>2 DEF Agree
<1>4. h[T] = k[T]
  <2> HIDE DEF T
  <2> QED BY <1>1, <1>3, SameSum
<1> QED BY <1>1, <1>2, <1>4

\* Sets that are counted by what a key says of their members add up to the whole.
Counts(f, K, S, key) == \A k \in K : f[k] = Cardinality({x \in S : key[x] = k})

LEMMA TotalCounts ==
  ASSUME NEW S, IsFiniteSet(S), NEW K, IsFiniteSet(K), NEW key, NEW f, Counts(f, K, S, key)
  PROVE  Total(f, K) = Cardinality({x \in S : key[x] \in K})
<1> DEFINE Of(T) == {x \in S : key[x] \in T}
           F == {T \in SUBSET K : Total(f, T) # Cardinality(Of(T))}
<1>0. \A T \in SUBSET K : IsFiniteSet(Of(T)) /\ Cardinality(Of(T)) \in Nat
  BY FS_Subset, FS_CardinalityType
<1>1. SUFFICES ASSUME NEW T, IsSmallest(T, F)
               PROVE  FALSE
  <2>1. F # {} => \E V : IsSmallest(V, F)
    <3>1. FiniteFamily(F, K)
      BY FS_Subset DEF FiniteFamily
    <3> HIDE DEF F
    <3> QED BY <3>1, Smallest
  <2>2. F = {} => Total(f, K) = Cardinality({x \in S : key[x] \in K})
    OBVIOUS
  <2> QED BY <1>1, <2>1, <2>2
<1>2. T \in SUBSET K /\ Total(f, T) # Cardinality(Of(T))
      /\ \A U \in SUBSET T : U # T => Total(f, U) = Cardinality(Of(U))
  BY <1>1 DEF IsSmallest
<1> HIDE DEF F
<1>3. CASE T = {}
  <2>1. Of({}) = {}
    OBVIOUS
  <2> QED BY <1>2, <1>3, <2>1, TotalOfNone, FS_EmptySet
<1>4. CASE T # {}
  <2>1. PICK k \in T : TRUE
    BY <1>4
  <2>21. \A x \in K : Of({x}) = {y \in S : key[y] = x} /\ f[x] = Cardinality({y \in S : key[y] = x})
    BY DEF Counts
  <2>22. T \ {k} \in SUBSET K /\ k \in K /\ T \ {k} \in SUBSET T /\ T \ {k} # T /\ {k} \in SUBSET K
    BY <1>2, <2>1
  <2>4. Total(f, T \ {k}) = Cardinality(Of(T \ {k}))
    BY <1>2, <2>22
  <2>6. Of(T) = Of({k}) \cup Of(T \ {k}) /\ Of({k}) \cap Of(T \ {k}) = {}
    BY <2>1
  <2> HIDE DEF Of
  <2>5. \A x \in K : f[x] = Cardinality(Of({x})) /\ {x} \in SUBSET K
    BY <2>21
  <2>23. \A x \in K : f[x] \in Int
    <3>1. SUFFICES ASSUME NEW x \in K
                   PROVE  f[x] \in Int
      OBVIOUS
    <3>2. f[x] = Cardinality(Of({x})) /\ {x} \in SUBSET K
      BY <2>5
    <3>3. Cardinality(Of({x})) \in Nat
      BY <1>0, <3>2
    <3> QED BY <3>2, <3>3
  <2>2. IsFiniteSet(T) /\ \A x \in T : f[x] \in Int
    BY <1>2, <2>23, FS_Subset
  <2>3. Total(f, T) = f[k] + Total(f, T \ {k})
    BY <2>1, <2>2, TotalSplits
  <2>7. IsFiniteSet(Of({k})) /\ IsFiniteSet(Of(T \ {k}))
        /\ Cardinality(Of({k})) \in Nat /\ Cardinality(Of(T \ {k})) \in Nat
    BY <1>0, <2>22
  <2> DEFINE A == Of({k})
             B == Of(T \ {k})
  <2>8. Cardinality(A \cup B) = Cardinality(A) + Cardinality(B) - Cardinality(A \cap B)
    <3> HIDE DEF A, B
    <3>1. IsFiniteSet(A) /\ IsFiniteSet(B)
      BY <2>7 DEF A, B
    <3> QED BY <3>1, FS_Union
  <2>9. Cardinality({}) = 0
    BY FS_EmptySet
  <2>24. Cardinality(Of(T)) = Cardinality(Of({k})) + Cardinality(Of(T \ {k}))
    <3>1. A \cap B = {} /\ A \cup B = Of(T)
      BY <2>6
    <3>2. Cardinality(A \cap B) = 0 /\ Cardinality(A \cup B) = Cardinality(Of(T))
      BY <2>9, <3>1
    <3>3. Cardinality(A) \in Nat /\ Cardinality(B) \in Nat
      BY <2>7
    <3>4. Cardinality(Of(T)) = Cardinality(A) + Cardinality(B)
      <4> HIDE DEF A, B
      <4> QED BY <2>8, <3>2, <3>3
    <3> QED BY <3>4
  <2>25. f[k] = Cardinality(Of({k}))
    BY <2>5, <2>22
  <2> QED BY <1>2, <2>3, <2>4, <2>24, <2>25
<1> QED BY <1>3, <1>4

-----------------------------------------------------------------------------
(***************************************************************************)
(* The invariant of the tickets.                                           *)
(***************************************************************************)
LogEntry == [at : Nat, to : TicketStatus]

TicketTypes ==
  /\ deployment \in Deployments /\ now \in Nat /\ now <= deployment.maxTime
  /\ rows \in [Tickets -> OrNone(Row)]
  /\ \A t \in Tickets : Created(t) => createdAt[t] \in 0..now
  /\ DOMAIN createdAt = Tickets
  /\ statusLog \in [Tickets -> Seq(LogEntry)]
  /\ waited \in [Tickets -> Nat]
  /\ resolvers \in [Tickets -> SUBSET Users]
  /\ active \subseteq Users

LastStatus(log) == IF log = <<>> THEN "NEW" ELSE log[Len(log)].to

\* What the journal, the row and the history say of one ticket agree.
Measured(t) ==
  IF Created(t)
  THEN /\ rows[t].status = LastStatus(statusLog[t])
       /\ PausedSeconds(t) = waited[t]
       /\ waited[t] <= now - createdAt[t]
       /\ rows[t].resolvedAt # None =>
            rows[t].status \in {"RESOLVED", "CLOSED"} /\ waited[t] <= rows[t].resolvedAt - createdAt[t]
  ELSE statusLog[t] = <<>> /\ waited[t] = 0

\* Whoever has a ticket that is done has resolved it.
Handled(t) ==
  Created(t) /\ rows[t].status \in {"RESOLVED", "CLOSED"} => rows[t].assignee \in resolvers[t]

TicketInv == TicketTypes /\ \A t \in Tickets : Measured(t) /\ Handled(t)

\* What an operation does to a row, as far as the reports can tell.
Moves(old, new, moment) ==
  /\ new \in Row /\ CheckConstraints(new)
  /\ new.resolvedAt = old.resolvedAt \/ new.resolvedAt = None \/ new.resolvedAt = moment
  /\ (old.resolvedAt # None => old.status \in {"RESOLVED", "CLOSED"}) =>
       (new.resolvedAt # None => new.status \in {"RESOLVED", "CLOSED"})
  /\ new.status = "CLOSED" => old.status \in {"RESOLVED", "CLOSED"} /\ new.assignee = old.assignee

LEMMA EditMoves ==
  ASSUME NEW u \in Users, NEW old \in Row, NEW moment \in Nat,
         NEW x \in Updates(u, old) \cup Claims(u, old) \cup Assigns(u, old)
                     \cup StatusChanges(u, moment, old),
         CheckConstraints(x.new)
  PROVE  /\ Moves(old, x.new, moment)
         /\ IF x.events.status = Silent THEN x.new.status = old.status
            ELSE x.events.status.new = x.new.status
<1>1. CASE x \in Updates(u, old)
  <2>1. PICK q \in UpdateTicketRequest :
               x = Outcome(old, Updated(old, q), TRUE, UpdateEvents(old, q))
    BY <1>1 DEF Updates
  <2>2. q.category \in OrNone(Categories) /\ q.priority \in OrNone(Priorities)
    BY DEF UpdateTicketRequest
  <2>3. x.new = Updated(old, q) /\ x.events = UpdateEvents(old, q)
    BY <2>1 DEF Outcome
  <2>4. x.new \in Row /\ x.new.status = old.status /\ x.new.resolvedAt = old.resolvedAt
        /\ x.new.assignee = old.assignee
    BY <2>2, <2>3 DEF Updated, Reclassifies, Reprioritises, Row, OrNone
  <2>5. x.events.status = Silent
    BY <2>3 DEF UpdateEvents, Quiet
  <2> QED BY <2>4, <2>5 DEF Moves
<1>2. CASE x \in Claims(u, old) \cup Assigns(u, old)
  <2>1. PICK a \in Users : x = DoAssign(old, a) /\ GetRule(old.status, "ASSIGNED", Role[u]) # {}
    BY <1>2 DEF Claims, Assigns, CanMoveToAssigned
  <2>2. old.status \in {"NEW", "ASSIGNED", "IN_PROGRESS"}
    BY <2>1 DEF GetRule, ALLOWED, TransitionRule
  <2>3. x.new = [old EXCEPT !.assignee = a, !.status = "ASSIGNED"]
        /\ x.events.status = IF old.status # "ASSIGNED" THEN Change(old.status, "ASSIGNED") ELSE Silent
    BY <2>1 DEF DoAssign, Outcome, Quiet
  <2>4. x.new \in Row /\ x.new.status = "ASSIGNED" /\ x.new.resolvedAt = old.resolvedAt
    BY <2>3 DEF Row, OrNone, TicketStatus
  <2>5. old.status \in TicketStatus /\ None \notin TicketStatus
    BY NoneAssumption DEF Row
  <2>6. IF x.events.status = Silent THEN x.new.status = old.status
        ELSE x.events.status.new = x.new.status
    BY <2>3, <2>4, <2>5 DEF Change, Silent
  <2> QED BY <2>2, <2>4, <2>6 DEF Moves
<1>3. CASE x \in StatusChanges(u, moment, old)
  <2>1. PICK q \in ChangeStatusRequest :
               /\ CanChangeStatus(u, moment, old, q)
               /\ x = Outcome(old, StatusChanged(u, moment, old, q), TRUE,
                              [Quiet EXCEPT !.status = Change(old.status, q.status)])
    BY <1>3 DEF StatusChanges
  <2>2. q.status \in TicketStatus /\ NoteAfter(old, q) \in BOOLEAN
    BY DEF ChangeStatusRequest, NoteAfter, Row
  <2>3. FirstResponse(u, moment, old) \in OrNone(Nat)
    BY DEF FirstResponse, Row, OrNone
  <2>4. ResolvedAtAfter(moment, old, q.status) \in OrNone(Nat)
    BY DEF ResolvedAtAfter, Row, OrNone
  <2>5. x.new = StatusChanged(u, moment, old, q) /\ x.events.status = Change(old.status, q.status)
    BY <2>1 DEF Outcome, Quiet
  <2>6. x.new \in Row
    BY <2>2, <2>3, <2>4, <2>5 DEF StatusChanged, Row, OrNone
  <2>7. x.new.status = q.status /\ x.new.assignee = old.assignee
        /\ x.new.resolvedAt = ResolvedAtAfter(moment, old, q.status)
    BY <2>5 DEF StatusChanged, Row
  <2>8. \E r \in ALLOWED : r.from = old.status /\ r.to = q.status
    BY <2>1 DEF CanChangeStatus, Validate, GetRule
  <2>9. /\ q.status = "CLOSED" => old.status = "RESOLVED"
        /\ old.status # "CLOSED"
    BY <2>8 DEF ALLOWED, TransitionRule
  <2>10. x.events.status # Silent /\ x.events.status.new = x.new.status
    BY <2>2, <2>5, <2>7, NoneAssumption DEF Change, Silent
  <2>11. /\ x.new.resolvedAt \in {old.resolvedAt, None, moment}
         /\ (old.resolvedAt # None => old.status \in {"RESOLVED", "CLOSED"}) =>
              (x.new.resolvedAt # None => x.new.status \in {"RESOLVED", "CLOSED"})
    BY <2>7, <2>9 DEF ResolvedAtAfter
  <2> QED BY <2>6, <2>7, <2>9, <2>10, <2>11 DEF Moves
<1> QED BY <1>1, <1>2, <1>3

-----------------------------------------------------------------------------
(***************************************************************************)
(* Pauses: the sum over a journal, as the clock ticks and as it grows.     *)
(***************************************************************************)
PausesIn(log) == {i \in 1..Len(log) : log[i].to = "PENDING_REQUESTER"}
Span(log, moment, i) == (IF i < Len(log) THEN log[i + 1].at ELSE moment) - log[i].at
Spans(log, moment) == [i \in PausesIn(log) |-> Span(log, moment, i)]
PauseSum(log, moment) == Total(Spans(log, moment), PausesIn(log))

LEMMA SpansType ==
  ASSUME NEW log \in Seq(LogEntry), NEW moment \in Nat
  PROVE  /\ IsFiniteSet(PausesIn(log))
         /\ \A i \in PausesIn(log) : Span(log, moment, i) \in Int
<1>1. IsFiniteSet(1..Len(log))
  BY FS_Interval
<1>2. PausesIn(log) \in SUBSET (1..Len(log))
  BY DEF PausesIn
<1>3. \A i \in 1..Len(log) : log[i].at \in Nat
  <2>1. \A i \in 1..Len(log) : log[i] \in LogEntry
    OBVIOUS
  <2> QED BY <2>1 DEF LogEntry
<1>4. \A i \in PausesIn(log) : Span(log, moment, i) \in Int
  BY <1>2, <1>3 DEF Span
<1> QED BY <1>1, <1>2, <1>4, FS_Subset

\* With a tick only the pause grows that is not over.
LEMMA TickAdds ==
  ASSUME NEW log \in Seq(LogEntry), NEW moment \in Nat
  PROVE  PauseSum(log, moment + 1)
           = PauseSum(log, moment) + (IF LastStatus(log) = "PENDING_REQUESTER" THEN 1 ELSE 0)
<1> DEFINE P == PausesIn(log)
           f == Spans(log, moment)
           g == Spans(log, moment + 1)
           n == Len(log)
<1>1. IsFiniteSet(P) /\ (\A i \in P : f[i] \in Int) /\ (\A i \in P : g[i] \in Int)
  BY SpansType DEF Spans
<1>2. \A i \in P : i # n => f[i] = g[i]
  BY DEF Spans, Span, PausesIn
<1>3. LastStatus(log) = "PENDING_REQUESTER" <=> n \in P
  <2>1. CASE log = <<>>
    <3>1. Len(log) = 0
      BY <2>1
    <3>2. LastStatus(log) = "NEW" /\ n \notin P
      BY <2>1, <3>1 DEF LastStatus, PausesIn
    <3> QED BY <3>2
  <2>2. CASE log # <<>>
    <3>1. n \in 1..Len(log)
      BY <2>2, EmptySeq
    <3> QED BY <2>2, <3>1 DEF LastStatus, PausesIn
  <2> QED BY <2>1, <2>2
<1>4. n \in P => g[n] = f[n] + 1
  <2>1. SUFFICES ASSUME n \in P  PROVE g[n] = f[n] + 1
    OBVIOUS
  <2>2. n \in 1..Len(log) /\ log[n].at \in Nat
    <3>1. n \in 1..Len(log)
      BY <2>1 DEF PausesIn
    <3>2. log[n] \in LogEntry
      BY <3>1
    <3> QED BY <3>1, <3>2 DEF LogEntry
  <2>3. f[n] = moment - log[n].at /\ g[n] = (moment + 1) - log[n].at
    BY <2>1, <2>2 DEF Spans, Span
  <2> QED BY <2>2, <2>3
<1>5. PauseSum(log, moment) = Total(f, P) /\ PauseSum(log, moment + 1) = Total(g, P)
  BY DEF PauseSum
<1>6. Total(f, P) \in Int
  <2> HIDE DEF P, f
  <2> QED BY <1>1, TotalType
<1> HIDE DEF P, f, g, n
<1>7. CASE n \in P
  <2>1. Total(f, P) = f[n] + Total(f, P \ {n}) /\ Total(g, P) = g[n] + Total(g, P \ {n})
    BY <1>1, <1>7, TotalSplits
  <2>2. IsFiniteSet(P \ {n}) /\ \A i \in P \ {n} : f[i] \in Int /\ f[i] = g[i]
    BY <1>1, <1>2, FS_RemoveElement
  <2> DEFINE Q == P \ {n}
  <2>3. Total(f, Q) = Total(g, Q) /\ Total(f, Q) \in Int
    <3>1. IsFiniteSet(Q) /\ (\A i \in Q : f[i] = g[i]) /\ (\A i \in Q : f[i] \in Int)
      BY <2>2
    <3> HIDE DEF Q
    <3> QED BY <3>1, TotalSame, TotalType
  <2>4. f[n] \in Int
    BY <1>1, <1>7
  <2> HIDE DEF Q
  <2>5. Total(g, P) = Total(f, P) + 1
    BY <1>4, <1>7, <2>1, <2>3, <2>4 DEF Q
  <2> QED BY <1>3, <1>5, <1>7, <2>5
<1>8. CASE n \notin P
  <2>1. \A i \in P : f[i] = g[i]
    BY <1>2, <1>8
  <2>2. Total(f, P) = Total(g, P)
    BY <1>1, <2>1, TotalSame
  <2> QED BY <1>3, <1>5, <1>6, <1>8, <2>2
<1> QED BY <1>7, <1>8

\* An event of this moment ends a pause where it stood, and begins one of no length.
LEMMA EventAddsNothing ==
  ASSUME NEW log \in Seq(LogEntry), NEW moment \in Nat, NEW to \in TicketStatus
  PROVE  PauseSum(Append(log, [at |-> moment, to |-> to]), moment) = PauseSum(log, moment)
<1> DEFINE e == [at |-> moment, to |-> to]
           new == Append(log, e)
           n == Len(log) + 1
           P == PausesIn(log)
           Q == PausesIn(new)
           f == Spans(log, moment)
           g == Spans(new, moment)
<1>1. e \in LogEntry
  BY DEF LogEntry
<1>2. new \in Seq(LogEntry) /\ Len(new) = n /\ new[n] = e /\ \A i \in 1..Len(log) : new[i] = log[i]
  <2> HIDE DEF e
  <2> QED BY <1>1, AppendProperties
<1>3. IsFiniteSet(P) /\ IsFiniteSet(Q) /\ (\A i \in P : f[i] \in Int) /\ (\A i \in Q : g[i] \in Int)
  <2> HIDE DEF new
  <2> QED BY <1>2, SpansType DEF Spans
<1>4. Q = IF to = "PENDING_REQUESTER" THEN P \cup {n} ELSE P
  <2>1. \A i : i \in Q <=> i \in 1..n /\ new[i].to = "PENDING_REQUESTER"
    <3> HIDE DEF new, n
    <3>1. 1..Len(new) = 1..n
      BY <1>2
    <3> QED BY <3>1 DEF PausesIn
  <2>2. \A i : i \in P <=> i \in 1..Len(log) /\ log[i].to = "PENDING_REQUESTER"
    BY DEF PausesIn
  <2>3. new[n].to = to
    BY <1>2
  <2>4. \A i : i \in 1..n <=> i \in 1..Len(log) \/ i = n
    OBVIOUS
  <2> HIDE DEF new, n, P, Q
  <2>5. \A i : i \in Q <=> (i \in P \/ (i = n /\ to = "PENDING_REQUESTER"))
    BY <1>2, <2>1, <2>2, <2>3, <2>4
  <2> QED BY <2>5
<1>5. n \notin P
  BY DEF PausesIn
<1>6. \A i \in P : i \in Q => g[i] = f[i]
  <2>1. SUFFICES ASSUME NEW i \in P, i \in Q
                 PROVE  g[i] = f[i]
    OBVIOUS
  <2>2. i \in 1..Len(log) /\ new[i] = log[i]
    BY <1>2, <2>1 DEF PausesIn
  <2>3. i < Len(log) => new[i + 1] = log[i + 1]
    BY <1>2, <2>2
  <2>4. i = Len(log) => new[i + 1] = e
    BY <1>2
  <2>5. g[i] = Span(new, moment, i) /\ f[i] = Span(log, moment, i)
    BY <2>1 DEF Spans
  <2>6. Len(new) = Len(log) + 1 /\ e.at = moment
    BY <1>2
  <2> HIDE DEF new, e, f, g
  <2> QED BY <2>2, <2>3, <2>4, <2>5, <2>6 DEF Span
<1>7. n \in Q => g[n] = 0
  <2>1. new[n].at = moment /\ Len(new) = n
    BY <1>2
  <2>2. n \in Q => g[n] = Span(new, moment, n)
    BY DEF Spans
  <2> HIDE DEF new, g
  <2> QED BY <2>1, <2>2 DEF Span
<1>8. PauseSum(log, moment) = Total(f, P) /\ PauseSum(new, moment) = Total(g, Q)
  BY DEF PauseSum
<1>9. Total(f, P) \in Int
  <2> HIDE DEF P, f
  <2> QED BY <1>3, TotalType
<1> HIDE DEF new, n, P, Q, f, g
<1>10. CASE to = "PENDING_REQUESTER"
  <2>1. n \in Q /\ Q \ {n} = P
    BY <1>4, <1>5, <1>10
  <2>2. Total(g, Q) = g[n] + Total(g, P)
    BY <1>3, <2>1, TotalSplits
  <2>3. \A i \in P : g[i] = f[i]
    BY <1>6, <2>1
  <2>4. Total(g, P) = Total(f, P)
    BY <1>3, <2>3, TotalSame
  <2> QED BY <1>7, <1>8, <1>9, <2>1, <2>2, <2>4 DEF new
<1>11. CASE to # "PENDING_REQUESTER"
  <2>1. Q = P /\ \A i \in P : g[i] = f[i]
    BY <1>4, <1>6, <1>11
  <2>2. Total(g, P) = Total(f, P)
    BY <1>3, <2>1, TotalSame
  <2> QED BY <1>8, <2>1, <2>2 DEF new
<1> QED BY <1>10, <1>11

-----------------------------------------------------------------------------
(***************************************************************************)
(* The steps of the tickets.                                               *)
(***************************************************************************)
LEMMA PausedIs ==
  ASSUME NEW t
  PROVE  PausedSeconds(t) = PauseSum(statusLog[t], now)
BY DEF PausedSeconds, Pauses, PauseEnd, PauseSum, PausesIn, Spans, Span

LEMMA PausedIsThen ==
  ASSUME NEW t
  PROVE  PausedSeconds(t)' = PauseSum(statusLog'[t], now')
BY DEF PausedSeconds, Pauses, PauseEnd, PauseSum, PausesIn, Spans, Span

\* Only the accounts, or nothing, have changed.
LEMMA RestKeepsTickets ==
  ASSUME TicketInv, UNCHANGED <<deployment, now, ticketVars>>, active' \subseteq Users
  PROVE  TicketInv'
<1>1. TicketTypes'
  BY DEF TicketInv, TicketTypes, ticketVars, Created
<1>2. \A t \in Tickets : PausedSeconds(t)' = PausedSeconds(t)
  BY PausedIs, PausedIsThen DEF ticketVars
<1>3. ASSUME NEW t \in Tickets  PROVE (Measured(t) /\ Handled(t))'
  BY <1>2, <1>3 DEF TicketInv, Measured, Handled, ticketVars, Created
<1> QED BY <1>1, <1>3 DEF TicketInv

LEMMA TickKeepsTickets ==
  ASSUME TicketInv, Tick
  PROVE  TicketInv'
<1>1. now' = now + 1 /\ now < deployment.maxTime /\ now \in Nat /\ deployment.maxTime \in Nat
      /\ UNCHANGED <<deployment, rows, createdAt, statusLog, active, resolvers>>
  BY DeploymentsAssumption DEF Tick, TicketInv, TicketTypes
<1>2. \A t \in Tickets : waited[t] \in Nat
        /\ waited'[t] = IF Created(t) /\ rows[t].status = "PENDING_REQUESTER"
                        THEN waited[t] + 1 ELSE waited[t]
  BY DEF Tick, TicketInv, TicketTypes
<1>3. waited' \in [Tickets -> Nat]
  BY DEF Tick, TicketInv, TicketTypes
<1>4. TicketTypes'
  <2>1. \A t \in Tickets : Created(t) => createdAt[t] \in 0..(now + 1)
    BY <1>1 DEF TicketInv, TicketTypes
  <2> QED BY <1>1, <1>3, <2>1 DEF TicketInv, TicketTypes, Created
<1>5. ASSUME NEW t \in Tickets  PROVE Measured(t)'
  <2>1. CASE Created(t)
    <3>1. PausedSeconds(t)' = PauseSum(statusLog[t], now + 1) /\ PausedSeconds(t) = PauseSum(statusLog[t], now)
      BY <1>1, PausedIs, PausedIsThen
    <3>2. statusLog[t] \in Seq(LogEntry) /\ rows[t].status = LastStatus(statusLog[t])
          /\ createdAt[t] \in 0..now /\ PausedSeconds(t) = waited[t] /\ waited[t] <= now - createdAt[t]
          /\ (rows[t].resolvedAt # None =>
                rows[t].status \in {"RESOLVED", "CLOSED"} /\ waited[t] <= rows[t].resolvedAt - createdAt[t])
      BY <1>5, <2>1 DEF TicketInv, TicketTypes, Measured
    <3>3. PausedSeconds(t)' = waited'[t] /\ waited'[t] <= (now + 1) - createdAt[t]
      <4>1. PauseSum(statusLog[t], now + 1) = PauseSum(statusLog[t], now)
              + (IF rows[t].status = "PENDING_REQUESTER" THEN 1 ELSE 0)
        BY <1>1, <3>2, TickAdds
      <4>2. waited'[t] = waited[t] + (IF rows[t].status = "PENDING_REQUESTER" THEN 1 ELSE 0)
        BY <1>2, <2>1
      <4>3. createdAt[t] \in Int /\ waited[t] \in Nat
        BY <1>2, <3>2
      <4> QED BY <1>1, <3>1, <3>2, <4>1, <4>2, <4>3
    <3>4. rows[t].resolvedAt # None => waited'[t] = waited[t]
      BY <1>2, <3>2
    <3> QED BY <1>1, <2>1, <3>2, <3>3, <3>4 DEF Measured, Created
  <2>2. CASE ~Created(t)
    BY <1>1, <1>2, <1>5, <2>2 DEF TicketInv, Measured, Created
  <2> QED BY <2>1, <2>2
<1>6. ASSUME NEW t \in Tickets  PROVE Handled(t)'
  BY <1>1, <1>6 DEF TicketInv, Handled, Created
<1> QED BY <1>4, <1>5, <1>6 DEF TicketInv

LEMMA CreateKeepsTickets ==
  ASSUME TicketInv, NEW u \in Users, NEW t \in Tickets, Create(u, t)
  PROVE  TicketInv'
<1>1. PICK c \in OrNone(Categories), p \in Priorities : rows' = [rows EXCEPT ![t] = NewTicket(u, c, p)]
  BY DEF Create
<1> DEFINE new == NewTicket(u, c, p)
<1>2. new \in Row /\ new.status = "NEW" /\ new.resolvedAt = None
  <2>1. p # None
    BY NoneAssumption
  <2> QED BY <2>1 DEF NewTicket, Row, OrNone, TicketStatus, AiStatus
<1> HIDE DEF new
<1>3. /\ ~Created(t) /\ createdAt' = [createdAt EXCEPT ![t] = now]
      /\ UNCHANGED <<deployment, now, statusLog, active, waited, resolvers>>
  BY DEF Create
<1>4. rows' \in [Tickets -> OrNone(Row)] /\ rows'[t] = new /\ new # None
      /\ \A s \in Tickets \ {t} : rows'[s] = rows[s] /\ createdAt'[s] = createdAt[s]
  BY <1>1, <1>2, <1>3, NullRowAssumption DEF TicketInv, TicketTypes, OrNone, new
<1>5. createdAt'[t] = now /\ DOMAIN createdAt' = Tickets
  BY <1>3 DEF TicketInv, TicketTypes
<1>6. TicketTypes'
  <2>1. ASSUME NEW s \in Tickets, Created(s)'  PROVE createdAt'[s] \in 0..now
    BY <1>3, <1>4, <1>5, <2>1 DEF TicketInv, TicketTypes, Created
  <2> QED BY <1>3, <1>4, <1>5, <2>1 DEF TicketInv, TicketTypes
<1>7. ASSUME NEW s \in Tickets, s # t  PROVE (Measured(s) /\ Handled(s))'
  <2>1. PausedSeconds(s)' = PausedSeconds(s)
    BY <1>3, PausedIs, PausedIsThen
  <2> QED BY <1>3, <1>4, <1>7, <2>1 DEF TicketInv, Measured, Handled, Created
<1>8. (Measured(t) /\ Handled(t))'
  <2>1. statusLog[t] = <<>> /\ waited[t] = 0
    BY <1>3 DEF TicketInv, Measured
  <2>2. PausedSeconds(t)' = 0
    <3>1. PausesIn(<<>>) = {}
      BY DEF PausesIn
    <3>2. PausedSeconds(t)' = PauseSum(<<>>, now)
      BY <1>3, <2>1, PausedIsThen
    <3> QED BY <3>1, <3>2, TotalOfNone DEF PauseSum
  <2>3. now \in Nat
    BY DEF TicketInv, TicketTypes
  <2> QED BY <1>2, <1>3, <1>4, <1>5, <2>1, <2>2, <2>3 DEF Measured, Handled, Created, LastStatus
<1> QED BY <1>6, <1>7, <1>8 DEF TicketInv

\* A committed operation, as far as the reports can tell.
EditDoes(t, new) ==
  /\ Created(t)
  /\ rows' = [rows EXCEPT ![t] = new]
  /\ Moves(rows[t], new, now)
  /\ \/ statusLog' = statusLog /\ new.status = rows[t].status
     \/ statusLog' = [statusLog EXCEPT ![t] = Append(@, [at |-> now, to |-> new.status])]
  /\ resolvers' = IF new.status = "RESOLVED"
                  THEN [resolvers EXCEPT ![t] = @ \cup {new.assignee}] ELSE resolvers
  /\ Changed({t})
  /\ UNCHANGED <<deployment, now, createdAt, active, rating, draft, cache, waited>>

LEMMA EditIs ==
  ASSUME TicketInv, NEW u \in Users, NEW t \in Tickets, Edit(u, t)
  PROVE  \E new : EditDoes(t, new)
<1>1. PICK x \in Updates(u, rows[t]) \cup Claims(u, rows[t]) \cup Assigns(u, rows[t])
                   \cup StatusChanges(u, now, rows[t]) :
        /\ CheckConstraints(x.new)
        /\ rows' = [rows EXCEPT ![t] = x.new]
        /\ IF x.events.status = Silent THEN UNCHANGED statusLog
           ELSE statusLog' = [statusLog EXCEPT ![t] = Append(@, [at |-> now, to |-> x.events.status.new])]
        /\ resolvers' = IF x.new.status = "RESOLVED"
                        THEN [resolvers EXCEPT ![t] = @ \cup {x.new.assignee}] ELSE resolvers
  BY DEF Edit
<1>2. rows[t] \in Row /\ now \in Nat /\ Created(t)
  BY DEF TicketInv, TicketTypes, Edit, Created, OrNone
<1>3. /\ Moves(rows[t], x.new, now)
      /\ IF x.events.status = Silent THEN x.new.status = rows[t].status
         ELSE x.events.status.new = x.new.status
  BY <1>1, <1>2, EditMoves
<1>4. Changed({t}) /\ UNCHANGED <<deployment, now, createdAt, active, rating, draft, cache, waited>>
  BY DEF Edit
<1>5. EditDoes(t, x.new)
  BY <1>1, <1>2, <1>3, <1>4 DEF EditDoes
<1> QED BY <1>5

LEMMA EditKeepsTickets ==
  ASSUME TicketInv, NEW t \in Tickets, NEW new, EditDoes(t, new)
  PROVE  TicketInv'
<1>0. now \in Nat /\ rows[t] \in Row /\ Created(t) /\ new \in Row /\ new # None
      /\ createdAt[t] \in 0..now /\ waited[t] \in Nat
  BY NullRowAssumption DEF EditDoes, Moves, TicketInv, TicketTypes, OrNone, Created
<1>1. UNCHANGED <<deployment, now, createdAt, active, waited>>
  BY DEF EditDoes
<1>2. rows' \in [Tickets -> OrNone(Row)] /\ rows'[t] = new /\ \A s \in Tickets \ {t} : rows'[s] = rows[s]
  BY <1>0 DEF EditDoes, TicketInv, TicketTypes, OrNone
<1>3. /\ statusLog' \in [Tickets -> Seq(LogEntry)]
      /\ \A s \in Tickets \ {t} : statusLog'[s] = statusLog[s]
      /\ LastStatus(statusLog'[t]) = new.status
      /\ PausedSeconds(t)' = PausedSeconds(t)
  <2>0. statusLog[t] \in Seq(LogEntry) /\ rows[t].status = LastStatus(statusLog[t])
        /\ PausedSeconds(t)' = PauseSum(statusLog'[t], now) /\ PausedSeconds(t) = PauseSum(statusLog[t], now)
    BY <1>0, <1>1, PausedIs, PausedIsThen DEF TicketInv, TicketTypes, Measured
  <2>1. CASE statusLog' = statusLog /\ new.status = rows[t].status
    BY <2>0, <2>1 DEF TicketInv, TicketTypes
  <2>2. CASE statusLog' = [statusLog EXCEPT ![t] = Append(@, [at |-> now, to |-> new.status])]
    <3> DEFINE e == [at |-> now, to |-> new.status]
               log == Append(statusLog[t], e)
    <3>1. e \in LogEntry /\ new.status \in TicketStatus
      BY <1>0 DEF LogEntry, Row
    <3>2. log \in Seq(LogEntry) /\ Len(log) = Len(statusLog[t]) + 1 /\ log[Len(statusLog[t]) + 1] = e
      <4> HIDE DEF e
      <4> QED BY <2>0, <3>1, AppendProperties
    <3>3. PauseSum(log, now) = PauseSum(statusLog[t], now)
      BY <1>0, <2>0, <3>1, EventAddsNothing
    <3>4. statusLog'[t] = log /\ \A s \in Tickets \ {t} : statusLog'[s] = statusLog[s]
      BY <2>2 DEF TicketInv, TicketTypes
    <3>5. statusLog' \in [Tickets -> Seq(LogEntry)]
      <4> HIDE DEF log
      <4>1. statusLog' = [statusLog EXCEPT ![t] = log]
        BY <2>2 DEF log
      <4> QED BY <3>2, <4>1 DEF TicketInv, TicketTypes
    <3>6. LastStatus(log) = new.status
      <4>1. log # <<>>
        BY <2>0, <3>1
      <4>2. e.to = new.status
        OBVIOUS
      <4> HIDE DEF log, e
      <4> QED BY <3>2, <4>1, <4>2 DEF LastStatus
    <3> QED BY <2>0, <3>3, <3>4, <3>5, <3>6
  <2> QED BY <2>1, <2>2 DEF EditDoes
<1>4. resolvers' \in [Tickets -> SUBSET Users] /\ \A s \in Tickets : resolvers[s] \subseteq resolvers'[s]
  <2>1. new.status = "RESOLVED" => new.assignee \in Users
    BY <1>0 DEF EditDoes, Moves, CheckConstraints, Row, OrNone
  <2> QED BY <2>1 DEF EditDoes, TicketInv, TicketTypes
<1>5. TicketTypes'
  <2>1. \A s \in Tickets : Created(s)' => Created(s)
    BY <1>0, <1>2 DEF Created
  <2> QED BY <1>1, <1>2, <1>3, <1>4, <2>1 DEF TicketInv, TicketTypes
<1>6. ASSUME NEW s \in Tickets, s # t  PROVE (Measured(s) /\ Handled(s))'
  <2>1. PausedSeconds(s)' = PausedSeconds(s)
    BY <1>1, <1>3, <1>6, PausedIs, PausedIsThen
  <2> QED BY <1>1, <1>2, <1>3, <1>4, <1>6, <2>1 DEF TicketInv, Measured, Handled, Created
<1>7. Measured(t)'
  <2>1. PausedSeconds(t) = waited[t] /\ waited[t] <= now - createdAt[t]
        /\ (rows[t].resolvedAt # None =>
              rows[t].status \in {"RESOLVED", "CLOSED"} /\ waited[t] <= rows[t].resolvedAt - createdAt[t])
    BY <1>0 DEF TicketInv, Measured
  <2>2. new.resolvedAt # None => new.status \in {"RESOLVED", "CLOSED"}
        /\ (new.resolvedAt = rows[t].resolvedAt \/ new.resolvedAt = now)
    BY <2>1 DEF EditDoes, Moves
  <2>3. new.resolvedAt # None => waited[t] <= new.resolvedAt - createdAt[t]
    BY <2>1, <2>2
  <2> QED BY <1>0, <1>1, <1>2, <1>3, <2>1, <2>2, <2>3 DEF Measured, Created
<1>8. Handled(t)'
  <2>1. CASE new.status = "RESOLVED"
    <3>1. new.assignee \in resolvers'[t]
      BY <2>1 DEF EditDoes, TicketInv, TicketTypes
    <3> QED BY <1>2, <3>1 DEF Handled
  <2>2. CASE new.status = "CLOSED"
    <3>1. rows[t].status \in {"RESOLVED", "CLOSED"} /\ new.assignee = rows[t].assignee
      BY <2>2 DEF EditDoes, Moves
    <3>2. rows[t].assignee \in resolvers[t]
      BY <1>0, <3>1 DEF TicketInv, Handled
    <3> QED BY <1>2, <1>4, <3>1, <3>2 DEF Handled
  <2>3. CASE new.status \notin {"RESOLVED", "CLOSED"}
    BY <1>2, <2>3 DEF Handled
  <2> QED BY <2>1, <2>2, <2>3
<1> QED BY <1>5, <1>6, <1>7, <1>8 DEF TicketInv

LEMMA TicketInit ==
  ASSUME Init
  PROVE  TicketInv
<1>1. deployment.maxTime \in Nat /\ <<>> \in Seq(LogEntry)
  BY DeploymentsAssumption DEF Init
<1>2. \A t \in Tickets : ~Created(t)
  BY DEF Init, Created
<1>3. TicketTypes
  BY <1>1, <1>2 DEF Init, TicketTypes, OrNone
<1> QED BY <1>2, <1>3 DEF Init, TicketInv, Measured, Handled

LEMMA TicketStep ==
  ASSUME TicketInv, [Next]_vars
  PROVE  TicketInv'
<1>1. CASE Tick
  BY <1>1, TickKeepsTickets
<1>2. ASSUME NEW u \in Users, NEW t \in Tickets, Create(u, t)  PROVE TicketInv'
  BY <1>2, CreateKeepsTickets
<1>3. ASSUME NEW u \in Users, NEW t \in Tickets, Edit(u, t)  PROVE TicketInv'
  BY <1>3, EditIs, EditKeepsTickets
<1>4. ASSUME NEW u \in Users, SetActive(u)  PROVE TicketInv'
  <2>1. active' \subseteq Users
    BY <1>4 DEF SetActive, TicketInv, TicketTypes
  <2> QED BY <1>4, <2>1, RestKeepsTickets DEF SetActive
<1>5. ASSUME UNCHANGED <<deployment, now, ticketVars, active>>  PROVE TicketInv'
  <2>1. active' \subseteq Users
    BY <1>5 DEF TicketInv, TicketTypes
  <2> QED BY <1>5, <2>1, RestKeepsTickets
<1>6. ASSUME NEW u \in Users, NEW t \in Tickets, NEW s \in Scores, RateBegin(u, t, s) \/ Rerate(u, t, s)
      PROVE  TicketInv'
  BY <1>5, <1>6 DEF RateBegin, Rerate
<1>7. CASE RateCommit \/ Query \/ OverviewDone
  BY <1>5, <1>7 DEF RateCommit, Query, OverviewDone
<1>8. ASSUME NEW q \in AskedWindows, Overview(q)  PROVE TicketInv'
  BY <1>5, <1>8 DEF Overview
<1>9. CASE UNCHANGED vars
  BY <1>5, <1>9 DEF vars, ticketVars
<1> QED BY <1>1, <1>2, <1>3, <1>4, <1>6, <1>7, <1>8, <1>9 DEF Next

LEMMA TicketAlways == Spec => []TicketInv
BY TicketInit, TicketStep, PTL DEF Spec

\* US-38: what the journal says of the pauses of a ticket is the time it waited for its
\* requester, and a resolution time is never cut off at 0.
THEOREM PausesAreMeasured == Spec => []PausesMeasured
<1>1. ASSUME TicketInv  PROVE PausesMeasured
  <2>1. SUFFICES ASSUME NEW t \in Present
                 PROVE  /\ PausedSeconds(t) = waited[t]
                        /\ rows[t].resolvedAt # None =>
                             ResolutionTime(t) = rows[t].resolvedAt - createdAt[t] - waited[t]
    BY DEF PausesMeasured
  <2>2. t \in Tickets /\ Created(t)
    BY DEF Present
  <2>3. PausedSeconds(t) = waited[t] /\ waited[t] \in Nat /\ createdAt[t] \in Nat /\ rows[t] \in Row
        /\ (rows[t].resolvedAt # None => waited[t] <= rows[t].resolvedAt - createdAt[t])
    BY <1>1, <2>2 DEF TicketInv, TicketTypes, Measured, OrNone, Created
  <2>4. ASSUME rows[t].resolvedAt # None
        PROVE  ResolutionTime(t) = rows[t].resolvedAt - createdAt[t] - waited[t]
    <3>1. rows[t].resolvedAt \in Nat
      BY <2>3, <2>4 DEF Row, OrNone
    <3>2. rows[t].resolvedAt - createdAt[t] - waited[t] >= 0
      BY <2>3, <2>4, <3>1
    <3> QED BY <2>3, <3>1, <3>2 DEF ResolutionTime
  <2> QED BY <2>3, <2>4
<1> QED BY <1>1, TicketAlways, PTL

-----------------------------------------------------------------------------
(***************************************************************************)
(* Ratings.                                                                *)
(***************************************************************************)
Rating == [agent : Users, score : Scores, at : Nat]

\* A rating, and one that is being created, is of a ticket that is there and counts for
\* somebody who resolved it.
RatingInv ==
  /\ DOMAIN rating = Tickets
  /\ \A t \in Tickets : rating[t] # None =>
       /\ rating[t] \in Rating /\ rating[t].at <= now
       /\ Created(t) /\ rating[t].agent \in resolvers[t]
  /\ draft # None =>
       /\ draft.ticket \in Tickets /\ draft.score \in Scores
       /\ Created(draft.ticket) /\ draft.agent \in resolvers[draft.ticket]

\* Tickets do not vanish, nor does the memory of who resolved them.
LEMMA TicketsGrow ==
  ASSUME TicketInv, [Next]_vars
  PROVE  /\ now' \in Nat /\ now <= now' /\ now \in Nat
         /\ \A t \in Tickets : Created(t) => Created(t)'
         /\ \A t \in Tickets : resolvers[t] \subseteq resolvers'[t]
<1>0. now \in Nat
  BY DEF TicketInv, TicketTypes
<1>1. CASE Tick
  BY <1>0, <1>1 DEF Tick, Created
<1>2. ASSUME NEW u \in Users, NEW t \in Tickets, Create(u, t)
      PROVE  /\ UNCHANGED <<now, resolvers>>
             /\ \A s \in Tickets : Created(s) => Created(s)'
  <2>1. UNCHANGED <<now, resolvers>> /\ ~Created(t)
        /\ \A s \in Tickets : s # t => rows'[s] = rows[s]
    BY <1>2 DEF Create, TicketInv, TicketTypes
  <2> QED BY <2>1 DEF Created
<1>3. ASSUME NEW u \in Users, NEW t \in Tickets, Edit(u, t)
      PROVE  /\ now' = now
             /\ \A s \in Tickets : Created(s) => Created(s)'
             /\ \A s \in Tickets : resolvers[s] \subseteq resolvers'[s]
  <2>1. PICK new : EditDoes(t, new)
    BY <1>3, EditIs
  <2>2. new # None
    BY <2>1, NullRowAssumption DEF EditDoes, Moves
  <2>3. now' = now /\ \A s \in Tickets : resolvers[s] \subseteq resolvers'[s]
    BY <2>1 DEF EditDoes, TicketInv, TicketTypes
  <2>4. \A s \in Tickets : Created(s) => Created(s)'
    BY <2>1, <2>2 DEF EditDoes, TicketInv, TicketTypes, Created
  <2> QED BY <2>3, <2>4
<1>4. ASSUME UNCHANGED <<now, rows, resolvers>>
      PROVE  /\ now' = now
             /\ \A s \in Tickets : Created(s) => Created(s)'
             /\ \A s \in Tickets : resolvers[s] \subseteq resolvers'[s]
  BY <1>4 DEF Created
<1>5. (\E u \in Users : SetActive(u)) \/ (\E u \in Users, t \in Tickets, s \in Scores : RateBegin(u, t, s) \/ Rerate(u, t, s))
      \/ RateCommit \/ (\E q \in AskedWindows : Overview(q)) \/ Query \/ OverviewDone \/ UNCHANGED vars
      => UNCHANGED <<now, rows, resolvers>>
  BY DEF SetActive, RateBegin, Rerate, RateCommit, Overview, Query, OverviewDone, vars, ticketVars
<1> QED BY <1>0, <1>1, <1>2, <1>3, <1>4, <1>5 DEF Next

LEMMA RatingsKeep ==
  ASSUME TicketInv, [Next]_vars, RatingInv, UNCHANGED <<rating, draft>>
  PROVE  RatingInv'
<1>1. ASSUME NEW t \in Tickets, rating[t] # None
      PROVE  /\ rating[t] \in Rating /\ rating[t].at <= now'
             /\ Created(t)' /\ rating[t].agent \in resolvers'[t]
  <2>1. rating[t] \in Rating /\ rating[t].at <= now /\ Created(t) /\ rating[t].agent \in resolvers[t]
    BY <1>1 DEF RatingInv
  <2>2. rating[t].at \in Nat
    BY <2>1 DEF Rating
  <2> QED BY <2>1, <2>2, TicketsGrow
<1>2. ASSUME draft # None
      PROVE  /\ draft.ticket \in Tickets /\ draft.score \in Scores
             /\ Created(draft.ticket)' /\ draft.agent \in resolvers'[draft.ticket]
  BY <1>2, TicketsGrow DEF RatingInv
<1> QED BY <1>1, <1>2 DEF RatingInv, Created

LEMMA RatingStep ==
  ASSUME TicketInv, RatingInv, [Next]_vars
  PROVE  RatingInv'
<1>1. ASSUME NEW u \in Users, NEW t \in Tickets, NEW s \in Scores, RateBegin(u, t, s)
      PROVE  RatingInv'
  <2>1. Created(t) /\ rows[t].status \in {"RESOLVED", "CLOSED"} /\ UNCHANGED <<now, rows, resolvers, rating>>
        /\ draft' = [ticket |-> t, agent |-> rows[t].assignee, score |-> s]
    BY <1>1 DEF RateBegin, ticketVars
  <2>2. rows[t].assignee \in resolvers[t]
    BY <2>1 DEF TicketInv, Handled
  <2> QED BY <2>1, <2>2 DEF RatingInv, Created
<1>2. CASE RateCommit
  <2> DEFINE t == draft.ticket
             r == [agent |-> draft.agent, score |-> draft.score, at |-> now]
  <2>1. /\ draft # None /\ draft' = None /\ UNCHANGED <<now, rows, resolvers>>
        /\ rating' = IF rating[t] # None THEN rating ELSE [rating EXCEPT ![t] = r]
    BY <1>2 DEF RateCommit, ticketVars
  <2>2. t \in Tickets /\ draft.score \in Scores /\ Created(t) /\ draft.agent \in resolvers[t]
    BY <2>1 DEF RatingInv
  <2>3. draft.agent \in Users /\ now \in Nat
    BY <2>2 DEF TicketInv, TicketTypes
  <2>4. r \in Rating /\ r.at <= now /\ r.agent \in resolvers[t]
    BY <2>2, <2>3 DEF Rating
  <2> HIDE DEF t, r
  <2>5. DOMAIN rating' = Tickets /\ \A s \in Tickets : rating'[s] = rating[s] \/ (s = t /\ rating'[s] = r)
    BY <2>1, <2>2 DEF RatingInv
  <2> QED BY <2>1, <2>2, <2>4, <2>5 DEF RatingInv, Created
<1>3. ASSUME NEW u \in Users, NEW t \in Tickets, NEW s \in Scores, Rerate(u, t, s)
      PROVE  RatingInv'
  <2>1. rating[t] # None /\ UNCHANGED <<now, rows, resolvers, draft>>
        /\ rating' = [rating EXCEPT ![t].score = s]
    BY <1>3 DEF Rerate, ticketVars
  <2>2. rating[t] \in Rating /\ rating[t].at <= now /\ Created(t) /\ rating[t].agent \in resolvers[t]
    BY <2>1 DEF RatingInv
  <2> DEFINE r == [rating[t] EXCEPT !.score = s]
  <2>3. r \in Rating /\ r.at = rating[t].at /\ r.agent = rating[t].agent
    BY <2>2 DEF Rating
  <2>4. DOMAIN rating' = Tickets /\ rating'[t] = r /\ \A q \in Tickets : q # t => rating'[q] = rating[q]
    BY <2>1 DEF RatingInv
  <2> HIDE DEF r
  <2> QED BY <2>1, <2>2, <2>3, <2>4 DEF RatingInv, Created
<1>4. CASE Tick
  BY <1>4, RatingsKeep DEF Tick
<1>5. ASSUME NEW u \in Users, NEW t \in Tickets, Create(u, t) \/ Edit(u, t)  PROVE RatingInv'
  BY <1>5, RatingsKeep DEF Create, Edit
<1>6. ASSUME NEW u \in Users, SetActive(u)  PROVE RatingInv'
  BY <1>6, RatingsKeep DEF SetActive, pageVars
<1>7. ASSUME NEW q \in AskedWindows, Overview(q)  PROVE RatingInv'
  BY <1>7, RatingsKeep DEF Overview
<1>8. CASE Query \/ OverviewDone \/ UNCHANGED vars
  BY <1>8, RatingsKeep DEF Query, OverviewDone, vars
<1> QED BY <1>1, <1>2, <1>3, <1>4, <1>5, <1>6, <1>7, <1>8 DEF Next

LEMMA RatingAlways == Spec => []RatingInv
<1>1. Init => RatingInv
  BY DEF Init, RatingInv
<1> QED BY <1>1, RatingStep, TicketAlways, PTL DEF Spec

\* The values of a function on a finite set are finitely many.
LEMMA ImageFinite ==
  ASSUME NEW S, IsFiniteSet(S), NEW f
  PROVE  IsFiniteSet({f[x] : x \in S})
<1> DEFINE T == {f[x] : x \in S}
           g == [x \in S |-> f[x]]
<1>1. g \in Surjection(S, T)
  BY DEF Surjection
<1> HIDE DEF g, T
<1>2. IsFiniteSet(T)
  BY <1>1, FS_Surjection
<1> QED BY <1>2 DEF T

\* A table of buckets adds up to the tickets whose key it has.
Tabulates(table, K, S, key, D, other) ==
  /\ DOMAIN table = K
  /\ \A k \in K : /\ table[k].ratings = Cardinality({t \in S : key[t] = k})
                  /\ table[k].closed = Cardinality({t \in D : other[t] = k})

RatingsIn(table) == Total([k \in DOMAIN table |-> table[k].ratings], DOMAIN table)
ClosedIn(table)  == Total([k \in DOMAIN table |-> table[k].closed], DOMAIN table)
Having(S, key, K) == {t \in S : key[t] \in K}

LEMMA TableAddsUp ==
  ASSUME NEW S, NEW D, IsFiniteSet(S), IsFiniteSet(D), NEW K, IsFiniteSet(K),
         NEW key, NEW other, NEW table, Tabulates(table, K, S, key, D, other)
  PROVE  /\ RatingsIn(table) = Cardinality(Having(S, key, K))
         /\ ClosedIn(table) = Cardinality(Having(D, other, K))
<1> DEFINE f == [k \in DOMAIN table |-> table[k].ratings]
           g == [k \in DOMAIN table |-> table[k].closed]
<1>1. Counts(f, K, S, key)
  BY DEF Tabulates, Counts
<1>2. Counts(g, K, D, other)
  BY DEF Tabulates, Counts
<1>3. DOMAIN table = K
  BY DEF Tabulates
<1> HIDE DEF f, g
<1>4. Total(f, K) = Cardinality({t \in S : key[t] \in K})
  BY <1>1, TotalCounts
<1>5. Total(g, K) = Cardinality({t \in D : other[t] \in K})
  BY <1>2, TotalCounts
<1> QED BY <1>3, <1>4, <1>5 DEF f, g, RatingsIn, ClosedIn, Having

\* What the tables of the satisfaction report are made of.
LEMMA SatisfactionSets ==
  ASSUME TicketInv, RatingInv, NEW w
  PROVE  /\ RatedTickets(w) \subseteq Tickets /\ ClosedTickets(w) \subseteq Tickets
         /\ IsFiniteSet(RatedTickets(w)) /\ IsFiniteSet(ClosedTickets(w))
         /\ Overall(w).ratings = Cardinality(RatedTickets(w))
         /\ Overall(w).closed = Cardinality(ClosedTickets(w))
<1>1. RatedTickets(w) \subseteq Tickets /\ ClosedTickets(w) \subseteq Tickets
  BY DEF RatedTickets, ClosedTickets, ResolvedWithin, Present
<1>2. IsFiniteSet(RatedTickets(w)) /\ IsFiniteSet(ClosedTickets(w))
  BY <1>1, TablesAssumption, FS_Subset
<1> QED BY <1>1, <1>2 DEF Overall, SatisfactionBucket, NumberOf

LEMMA CategoriesAddUp ==
  ASSUME TicketInv, RatingInv, NEW w, NEW table, table = SatisfactionByCategory(w)
  PROVE  /\ RatingsIn(table) = Overall(w).ratings
         /\ ClosedIn(table) = Overall(w).closed
<1> DEFINE S == RatedTickets(w)
           D == ClosedTickets(w)
           key == [t \in Tickets |-> rows[t].category]
           K == {key[t] : t \in S \cup D}
<1>1. S \subseteq Tickets /\ D \subseteq Tickets /\ IsFiniteSet(S) /\ IsFiniteSet(D) /\ IsFiniteSet(S \cup D)
      /\ Overall(w).ratings = Cardinality(S) /\ Overall(w).closed = Cardinality(D)
  BY SatisfactionSets, FS_Union
<1>2. IsFiniteSet(K)
  <2> HIDE DEF S, D, key
  <2> QED BY <1>1, ImageFinite
<1>3. K = {rows[t].category : t \in S \cup D}
  BY <1>1
<1>4. DOMAIN table = K
  BY <1>3 DEF SatisfactionByCategory
<1>5. \A k \in K : /\ table[k].ratings = Cardinality({t \in S : rows[t].category = k})
                   /\ table[k].closed = Cardinality({t \in D : rows[t].category = k})
  BY <1>3 DEF SatisfactionByCategory, SatisfactionBucket, NumberOf
<1>6. \A k : {t \in S : rows[t].category = k} = {t \in S : key[t] = k}
             /\ {t \in D : rows[t].category = k} = {t \in D : key[t] = k}
  BY <1>1
<1>7. Having(S, key, K) = S /\ Having(D, key, K) = D
  BY DEF Having
<1> HIDE DEF S, D, key, K
<1>8. Tabulates(table, K, S, key, D, key)
  BY <1>4, <1>5, <1>6 DEF Tabulates
<1> QED BY <1>1, <1>2, <1>4, <1>7, <1>8, TableAddsUp

LEMMA MonthsAddUp ==
  ASSUME TicketInv, RatingInv, NEW w, NEW table, table = SatisfactionByMonth(w)
  PROVE  /\ RatingsIn(table) = Overall(w).ratings
         /\ ClosedIn(table) = Overall(w).closed
<1> DEFINE S == RatedTickets(w)
           D == ClosedTickets(w)
           key == [t \in Tickets |-> Month(rating[t].at)]
           other == [t \in Tickets |-> Month(rows[t].resolvedAt)]
           A == {key[t] : t \in S}
           B == {other[t] : t \in D}
           K == A \cup B
<1>1. S \subseteq Tickets /\ D \subseteq Tickets /\ IsFiniteSet(S) /\ IsFiniteSet(D)
      /\ Overall(w).ratings = Cardinality(S) /\ Overall(w).closed = Cardinality(D)
  BY SatisfactionSets
<1>2. IsFiniteSet(K)
  <2>1. IsFiniteSet(A) /\ IsFiniteSet(B)
    <3> HIDE DEF S, D, key, other
    <3> QED BY <1>1, ImageFinite
  <2> HIDE DEF A, B
  <2> QED BY <2>1, FS_Union
<1>3. A = {Month(rating[t].at) : t \in S} /\ B = {Month(rows[t].resolvedAt) : t \in D}
  BY <1>1
<1>4. DOMAIN table = K
  BY <1>3 DEF SatisfactionByMonth
<1>5. \A k \in K : /\ table[k].ratings = Cardinality({t \in S : Month(rating[t].at) = k})
                   /\ table[k].closed = Cardinality({t \in D : Month(rows[t].resolvedAt) = k})
  BY <1>3 DEF SatisfactionByMonth, SatisfactionBucket, NumberOf
<1>6. \A k : {t \in S : Month(rating[t].at) = k} = {t \in S : key[t] = k}
             /\ {t \in D : Month(rows[t].resolvedAt) = k} = {t \in D : other[t] = k}
  BY <1>1
<1>7. Having(S, key, K) = S /\ Having(D, other, K) = D
  BY DEF Having
<1> HIDE DEF S, D, key, other, K
<1>8. Tabulates(table, K, S, key, D, other)
  BY <1>4, <1>5, <1>6 DEF Tabulates
<1> QED BY <1>1, <1>2, <1>4, <1>7, <1>8, TableAddsUp

\* The table by agent has all ratings: each has an agent.
LEMMA AgentsAddUp ==
  ASSUME TicketInv, RatingInv, NEW w, NEW table, table = SatisfactionByAgent(w)
  PROVE  /\ \A a \in Users : a \in DOMAIN table \/ RatingsOf(a, w) = {}
         /\ \A a \in DOMAIN table : table[a].ratings = Cardinality(RatingsOf(a, w))
         /\ RatingsIn(table) = Overall(w).ratings
         /\ ClosedIn(table) <= Overall(w).closed
<1> DEFINE S == RatedTickets(w)
           D == ClosedTickets(w)
           key == [t \in Tickets |-> rating[t].agent]
           other == [t \in Tickets |-> rows[t].assignee]
           A == {key[t] : t \in S}
           B == {other[t] : t \in D}
           K == (A \cup B) \ {None}
<1>1. S \subseteq Tickets /\ D \subseteq Tickets /\ IsFiniteSet(S) /\ IsFiniteSet(D)
      /\ Overall(w).ratings = Cardinality(S) /\ Overall(w).closed = Cardinality(D)
  BY SatisfactionSets
<1>2. IsFiniteSet(K)
  <2>1. IsFiniteSet(A) /\ IsFiniteSet(B)
    <3> HIDE DEF S, D, key, other
    <3> QED BY <1>1, ImageFinite
  <2> HIDE DEF A, B
  <2> QED BY <2>1, FS_Union, FS_RemoveElement
<1>3. A = {rating[t].agent : t \in S} /\ B = {rows[t].assignee : t \in D}
  BY <1>1
<1>4. DOMAIN table = K
  BY <1>3 DEF SatisfactionByAgent
<1>5. \A k : RatingsOf(k, w) = {t \in S : key[t] = k}
             /\ {t \in D : rows[t].assignee = k} = {t \in D : other[t] = k}
  BY <1>1 DEF RatingsOf, RatedTickets
<1>6. \A k \in K : /\ table[k].ratings = Cardinality(RatingsOf(k, w))
                   /\ table[k].closed = Cardinality({t \in D : rows[t].assignee = k})
  BY <1>3 DEF SatisfactionByAgent, SatisfactionBucket, NumberOf
<1>7. \A t \in S : key[t] \in Users /\ key[t] # None
  <2>1. \A t \in S : t \in Tickets /\ rating[t] # None
    BY DEF RatedTickets
  <2>2. None \notin Users
    BY NoneAssumption
  <2> QED BY <2>1, <2>2 DEF RatingInv, Rating
<1>8. Having(S, key, K) = S
  BY <1>7 DEF Having
<1>9. Having(D, other, K) \subseteq D
  BY DEF Having
<1>10. \A a \in Users : a \in DOMAIN table \/ RatingsOf(a, w) = {}
  <2>1. SUFFICES ASSUME NEW a \in Users, RatingsOf(a, w) # {}
                 PROVE  a \in K
    BY <1>4
  <2>2. PICK t \in S : key[t] = a
    BY <1>5, <2>1
  <2> QED BY <1>7, <2>2
<1> HIDE DEF S, D, key, other, K
<1>11. Tabulates(table, K, S, key, D, other)
  BY <1>4, <1>5, <1>6 DEF Tabulates
<1>12. /\ RatingsIn(table) = Cardinality(Having(S, key, K))
       /\ ClosedIn(table) = Cardinality(Having(D, other, K))
  BY <1>1, <1>2, <1>4, <1>11, TableAddsUp
<1>13. Cardinality(Having(D, other, K)) <= Cardinality(D)
  BY <1>1, <1>9, FS_Subset
<1> QED BY <1>1, <1>4, <1>6, <1>8, <1>10, <1>12, <1>13

\* A rating counts for somebody who resolved the ticket; the pages agree on an agent's
\* ratings; and the tables of the satisfaction report add up.
THEOREM ResolverIsRated == Spec => []RatedTheResolver
<1>1. ASSUME TicketInv, RatingInv
      PROVE  RatedTheResolver
  <2> DEFINE byAgent == SatisfactionByAgent(Ever)
  <2>1. \A a \in Users : RatingsOf(a, Ever) = MyRatings(a)
    <3>1. \A t \in Tickets : rating[t] # None => Within(rating[t].at, Ever)
      <4>1. ASSUME NEW t \in Tickets, rating[t] # None
            PROVE  Within(rating[t].at, Ever)
        <5>1. rating[t].at \in Nat /\ rating[t].at <= now
          BY <1>1, <4>1 DEF RatingInv, Rating
        <5>2. now \in Nat /\ now <= deployment.maxTime /\ deployment.maxTime \in Nat
          BY <1>1, DeploymentsAssumption DEF TicketInv, TicketTypes
        <5> QED BY <5>1, <5>2 DEF Within, Ever
      <4> QED BY <4>1
    <3> QED BY <3>1 DEF RatingsOf, MyRatings
  <2>2. \A a \in Users : \A t \in MyRatings(a) : a \in resolvers[t]
    BY <1>1 DEF RatingInv, MyRatings
  <2>3. /\ \A a \in Users : a \in DOMAIN byAgent \/ RatingsOf(a, Ever) = {}
        /\ \A a \in DOMAIN byAgent : byAgent[a].ratings = Cardinality(RatingsOf(a, Ever))
        /\ RatingsIn(byAgent) = Overall(Ever).ratings
        /\ ClosedIn(byAgent) <= Overall(Ever).closed
    <3> HIDE DEF byAgent
    <3>1. byAgent = SatisfactionByAgent(Ever)
      BY DEF byAgent
    <3> QED BY <1>1, <3>1, AgentsAddUp
  <2>4. \A a \in Agents : AgentWorkload(Ever)[a].ratings = NumberOf(RatingsOf(a, Ever)) /\ a \in Users
    <3>1. Agents \subseteq Users
      BY <1>1 DEF Agents, TicketInv, TicketTypes
    <3> QED BY <3>1 DEF AgentWorkload
  <2>5. \A table \in {SatisfactionByCategory(Ever), SatisfactionByMonth(Ever)} :
          RatingsIn(table) = Overall(Ever).ratings /\ ClosedIn(table) = Overall(Ever).closed
    BY <1>1, CategoriesAddUp, MonthsAddUp
  <2> HIDE DEF byAgent
  <2>6. \A a \in Users :
          /\ \A t \in MyRatings(a) : a \in resolvers[t]
          /\ a \in DOMAIN byAgent \/ MyRatings(a) = {}
          /\ a \in DOMAIN byAgent => byAgent[a].ratings = NumberOf(MyRatings(a))
          /\ a \in Agents => AgentWorkload(Ever)[a].ratings = NumberOf(MyRatings(a))
    BY <2>1, <2>2, <2>3, <2>4 DEF NumberOf
  <2> QED BY <2>3, <2>5, <2>6 DEF RatedTheResolver, RatingsIn, ClosedIn, byAgent
<1> QED BY <1>1, TicketAlways, RatingAlways, PTL

-----------------------------------------------------------------------------
(***************************************************************************)
(* The cache of the overview.                                              *)
(***************************************************************************)
Window  == [from : Int, to : Int]
Figures == Nat \cup [TicketStatus -> Nat] \cup [Priorities -> Nat] \cup [OrNone(Categories) -> Nat]
             \cup UNION {[0..n -> Nat] : n \in Nat}
View    == [window : Window, began : Nat, answers : Seq(Figures), changed : SUBSET Tickets]

\* An entry is kept no longer than the TTL, under the key of its window.
CacheInv ==
  /\ view # None => view \in View
  /\ \A e \in cache :
       /\ e.window \in Window /\ e.key = WindowKey(e.window)
       /\ e.generatedAt \in Nat /\ e.generatedAt <= now
       /\ e.until = e.generatedAt + CacheTTL /\ now < e.until

LEMMA WindowType ==
  ASSUME TicketInv, NEW q \in AskedWindows
  PROVE  ResolveWindow(q) \in Window
<1>1. q.from \in OrNone(Nat) /\ q.to \in OrNone(Nat)
  BY WindowsAssumption
<1>2. now \in Nat /\ DefaultWindow \in Nat
  BY SettingsAssumption DEF TicketInv, TicketTypes
<1> DEFINE end   == IF q.to = None THEN now ELSE q.to
           start == IF q.from = None THEN end - DefaultWindow ELSE q.from
<1>3. end \in Int
  BY <1>1, <1>2 DEF OrNone
<1>4. start \in Int
  BY <1>1, <1>2, <1>3 DEF OrNone
<1>5. ResolveWindow(q) = IF start > end THEN [from |-> end, to |-> start] ELSE [from |-> start, to |-> end]
  BY DEF ResolveWindow
<1> HIDE DEF end, start
<1> QED BY <1>3, <1>4, <1>5 DEF Window

\* Times that are rounded down to the same multiple of the TTL are less than it apart.
LEMMA SameMultiple ==
  ASSUME NEW x \in Int, NEW y \in Int, x - (x % CacheTTL) = y - (y % CacheTTL)
  PROVE  x - y < CacheTTL /\ y - x < CacheTTL
<1>1. CacheTTL \in Nat \ {0}
  BY SettingsAssumption
<1>2. x % CacheTTL \in 0..(CacheTTL - 1) /\ y % CacheTTL \in 0..(CacheTTL - 1)
  BY <1>1
<1> DEFINE r == x % CacheTTL
           s == y % CacheTTL
<1>3. r \in Int /\ s \in Int /\ 0 <= r /\ r < CacheTTL /\ 0 <= s /\ s < CacheTTL /\ x - r = y - s
  BY <1>1, <1>2
<1> HIDE DEF r, s
<1> QED BY <1>1, <1>3

\* Each query answers with a number or with one for each of some keys.
LEMMA AnswerType ==
  ASSUME TicketInv, NEW query \in {Queries[i] : i \in 1..Len(Queries)}, NEW w, NEW began
  PROVE  Answer(query, w, began) \in Figures
<1> DEFINE S == {t \in Present : Within(createdAt[t], w)}
<1>1. \A T : T \subseteq S => NumberOf(T) \in Nat
  <2>1. SUFFICES ASSUME NEW T, T \subseteq S  PROVE NumberOf(T) \in Nat
    OBVIOUS
  <2>2. T \subseteq Tickets
    BY <2>1 DEF Present
  <2>3. IsFiniteSet(T)
    BY <2>2, TablesAssumption, FS_Subset
  <2> QED BY <2>3, FS_CardinalityType DEF NumberOf
<1>2. query \in {"by_status", "by_priority", "by_category", "breached", "unassigned", "daily"}
  BY DEF Queries
<1>3. deployment.maxTime \in Nat
  BY DeploymentsAssumption DEF TicketInv, TicketTypes
<1> HIDE DEF S
<1>4. CASE query = "by_status"
  <2>1. Answer(query, w, began) = [s \in TicketStatus |-> NumberOf({t \in S : rows[t].status = s})]
    BY <1>4 DEF Answer, S
  <2>2. Answer(query, w, began) \in [TicketStatus -> Nat]
    BY <1>1, <2>1
  <2> QED BY <2>2 DEF Figures
<1>5. CASE query = "by_priority"
  <2>1. Answer(query, w, began) = [p \in Priorities |-> NumberOf({t \in S : rows[t].priority = p})]
    BY <1>5 DEF Answer, S
  <2>2. Answer(query, w, began) \in [Priorities -> Nat]
    BY <1>1, <2>1
  <2> QED BY <2>2 DEF Figures
<1>6. CASE query = "by_category"
  <2>1. Answer(query, w, began) = [c \in OrNone(Categories) |-> NumberOf({t \in S : rows[t].category = c})]
    BY <1>6 DEF Answer, S
  <2>2. Answer(query, w, began) \in [OrNone(Categories) -> Nat]
    BY <1>1, <2>1
  <2> QED BY <2>2 DEF Figures
<1>7. CASE query = "breached"
  <2>1. Answer(query, w, began) = NumberOf({t \in S : Late(t, began)})
    BY <1>7 DEF Answer, S
  <2>2. Answer(query, w, began) \in Nat
    BY <1>1, <2>1
  <2> QED BY <2>2 DEF Figures
<1>8. CASE query = "unassigned"
  <2>1. Answer(query, w, began) = NumberOf({t \in S : Unassigned(t)})
    BY <1>8 DEF Answer, S
  <2>2. Answer(query, w, began) \in Nat
    BY <1>1, <2>1
  <2> QED BY <2>2 DEF Figures
<1>9. CASE query = "daily"
  <2>1. Answer(query, w, began) = [d \in 0..deployment.maxTime |-> NumberOf({t \in S : createdAt[t] = d})]
    BY <1>9 DEF Answer, S
  <2>2. Answer(query, w, began) \in [0..deployment.maxTime -> Nat]
    BY <1>1, <2>1
  <2> QED BY <1>3, <2>2 DEF Figures
<1> QED BY <1>2, <1>4, <1>5, <1>6, <1>7, <1>8, <1>9

\* What Query does to the overview.
LEMMA QueryIs ==
  ASSUME TicketInv, CacheInv, Query
  PROVE  /\ view \in View /\ view' \in View /\ Len(view.answers) \in 0..5
         /\ view'.window = view.window /\ view'.changed = view.changed
         /\ view'.answers = Append(view.answers, Answer(Queries[Len(view.answers) + 1], view.window, view.began))
<1> DEFINE a == view.answers
           x == Answer(Queries[Len(a) + 1], view.window, view.began)
<1>1. view # None /\ Len(a) < Len(Queries) /\ view' = [view EXCEPT !.answers = Append(a, x)]
  BY DEF Query
<1>2. view \in View
  BY <1>1 DEF CacheInv
<1>3. a \in Seq(Figures)
  BY <1>2 DEF View
<1>31. Len(Queries) = 6
  BY DEF Queries
<1> DEFINE n == Len(a)
<1>32. n < Len(Queries) /\ n \in Nat
  <2> HIDE DEF a
  <2>1. Len(a) \in Nat
    BY <1>3
  <2> QED BY <1>1, <2>1
<1>4. n \in 0..5 /\ n + 1 \in 1..6
  <2> HIDE DEF n
  <2>1. n < 6
    BY <1>31, <1>32, Zenon
  <2> QED BY <1>32, <2>1
<1>5. Queries[n + 1] \in {Queries[i] : i \in 1..Len(Queries)}
  <2> HIDE DEF n
  <2>1. n + 1 \in 1..Len(Queries)
    BY <1>31, <1>4, Zenon
  <2> QED BY <2>1
<1>6. x \in Figures
  BY <1>5, AnswerType
<1> HIDE DEF a, x
<1>7. Append(a, x) \in Seq(Figures)
  BY <1>3, <1>6
<1>8. view' \in View /\ view'.window = view.window /\ view'.changed = view.changed /\ view'.answers = Append(a, x)
  BY <1>1, <1>2, <1>7 DEF View
<1> QED BY <1>2, <1>4, <1>8 DEF a, x

LEMMA CacheStep ==
  ASSUME TicketInv, CacheInv, [Next]_vars
  PROVE  CacheInv'
<1>0. now \in Nat /\ CacheTTL \in Nat \ {0}
  BY SettingsAssumption DEF TicketInv, TicketTypes
<1>1. CASE Tick
  <2>1. now' = now + 1 /\ view' = view /\ cache' = {e \in cache : now' < e.until}
    BY <1>1 DEF Tick
  <2> QED BY <1>0, <2>1 DEF CacheInv
<1>2. ASSUME UNCHANGED <<now, cache>>, view' # None => view' \in View
      PROVE  CacheInv'
  BY <1>2 DEF CacheInv
<1>3. ASSUME NEW t \in Tickets, Changed({t}), UNCHANGED <<now, cache>>
      PROVE  CacheInv'
  <2>1. view' # None => view # None /\ view' = [view EXCEPT !.changed = @ \cup {t}]
    BY <1>3 DEF Changed
  <2>2. view' # None => view' \in View
    BY <2>1 DEF CacheInv, View
  <2> QED BY <1>2, <1>3, <2>1, <2>2
<1>4. ASSUME NEW u \in Users, NEW t \in Tickets, Create(u, t) \/ Edit(u, t)  PROVE CacheInv'
  BY <1>3, <1>4 DEF Create, Edit
<1>5. ASSUME NEW u \in Users, SetActive(u)  PROVE CacheInv'
  BY <1>2, <1>5 DEF SetActive, pageVars, CacheInv
<1>6. ASSUME NEW u \in Users, NEW t \in Tickets, NEW s \in Scores, RateBegin(u, t, s) \/ Rerate(u, t, s)
      PROVE  CacheInv'
  BY <1>2, <1>6 DEF RateBegin, Rerate, CacheInv
<1>7. CASE RateCommit
  BY <1>2, <1>7 DEF RateCommit, CacheInv
<1>8. ASSUME NEW q \in AskedWindows, Overview(q)  PROVE CacheInv'
  <2>1. view' = [window |-> ResolveWindow(q), began |-> now, answers |-> <<>>, changed |-> {}]
    BY <1>8 DEF Overview
  <2>2. UNCHANGED <<now, cache>>
    BY <1>8 DEF Overview
  <2>3. view' \in View
    BY <1>0, <2>1, WindowType DEF View
  <2> QED BY <1>2, <2>2, <2>3
<1>9. CASE Query
  <2>1. UNCHANGED <<now, cache>>
    BY <1>9 DEF Query
  <2> QED BY <1>2, <1>9, <2>1, QueryIs
<1>10. CASE OverviewDone
  <2>1. view # None /\ view' = None /\ now' = now /\ cache' \subseteq cache \cup {Entry(view.window)}
    BY <1>10 DEF OverviewDone
  <2> DEFINE e == Entry(view.window)
  <2>2. e.window = view.window /\ e.key = WindowKey(view.window) /\ e.generatedAt = now
        /\ e.until = now + CacheTTL
    BY DEF Entry
  <2>3. view.window \in Window
    BY <2>1 DEF CacheInv, View
  <2> HIDE DEF e
  <2>4. cache' \subseteq cache \cup {e}
    BY <2>1 DEF e
  <2>5. /\ e.window \in Window /\ e.key = WindowKey(e.window)
        /\ e.generatedAt \in Nat /\ e.generatedAt <= now
        /\ e.until = e.generatedAt + CacheTTL /\ now < e.until
    BY <1>0, <2>2, <2>3
  <2> QED BY <2>1, <2>4, <2>5 DEF CacheInv
<1>11. CASE UNCHANGED vars
  BY <1>2, <1>11 DEF vars, CacheInv
<1> QED BY <1>1, <1>4, <1>5, <1>6, <1>7, <1>8, <1>9, <1>10, <1>11 DEF Next

LEMMA CacheAlways == Spec => []CacheInv
<1>1. Init => CacheInv
  BY DEF Init, CacheInv
<1> QED BY <1>1, CacheStep, TicketAlways, PTL DEF Spec

\* US-37: an overview that is answered from the cache was computed less than the TTL ago,
\* for a window whose ends are less than the TTL from those asked for.
THEOREM CacheIsFresh == Spec => []ServedFresh
<1>1. ASSUME TicketInv, CacheInv
      PROVE  ServedFresh
  <2>1. SUFFICES ASSUME NEW q \in AskedWindows, NEW e \in Hits(q)
                 PROVE  LET near(x, y) == x - y < CacheTTL /\ y - x < CacheTTL
                        IN  /\ now - e.generatedAt < CacheTTL
                            /\ near(e.window.from, ResolveWindow(q).from)
                            /\ near(e.window.to, ResolveWindow(q).to)
    BY DEF ServedFresh
  <2> DEFINE w == ResolveWindow(q)
             v == e.window
  <2>2. e \in cache /\ e.key = WindowKey(w)
    BY DEF Hits
  <2>3. w \in Window /\ v \in Window
    BY <1>1, <2>2, WindowType DEF CacheInv
  <2>4. WindowKey(v) = WindowKey(w)
    BY <1>1, <2>2 DEF CacheInv
  <2>5. now - e.generatedAt < CacheTTL
    <3>1. e.generatedAt \in Nat /\ e.until = e.generatedAt + CacheTTL /\ now < e.until
      BY <1>1, <2>2 DEF CacheInv
    <3>2. now \in Nat /\ CacheTTL \in Nat
      BY <1>1, SettingsAssumption DEF TicketInv, TicketTypes
    <3> QED BY <3>1, <3>2
  <2> HIDE DEF w, v
  <2>6. v.from \in Int /\ w.from \in Int /\ v.to \in Int /\ w.to \in Int
    BY <2>3 DEF Window
  <2>7. v.from - (v.from % CacheTTL) = w.from - (w.from % CacheTTL)
        /\ v.to - (v.to % CacheTTL) = w.to - (w.to % CacheTTL)
    BY <2>4 DEF WindowKey
  <2>8. v.from - w.from < CacheTTL /\ w.from - v.from < CacheTTL
    BY <2>6, <2>7, SameMultiple
  <2>9. v.to - w.to < CacheTTL /\ w.to - v.to < CacheTTL
    BY <2>6, <2>7, SameMultiple
  <2> QED BY <2>5, <2>8, <2>9 DEF w, v
<1> QED BY <1>1, TicketAlways, CacheAlways, PTL

-----------------------------------------------------------------------------
(***************************************************************************)
(* The figures of one overview.                                            *)
(***************************************************************************)
InWindow(w)     == {t \in Present : Within(createdAt[t], w)}
OpenInWindow(w) == {t \in InWindow(w) : rows[t].status \in OPEN_STATUSES}

\* The number of the tickets of T, or of some of them, but for those that have changed.
CountsNearly(n, T, changed) ==
  \E A \in SUBSET Tickets : n = Cardinality(A) /\ A \ changed = T \ changed
CountsAtMost(n, T, changed) ==
  \E A \in SUBSET Tickets : n = Cardinality(A) /\ A \ changed \subseteq T

\* What the answer x of the i-th query says of the tickets S in the window and the open
\* ones O among them, as they are now.
Figured(i, x, S, O, changed, maxTime) ==
  /\ i = 1 => /\ CountsNearly(Total(x, TicketStatus), S, changed)
              /\ CountsNearly(Total(x, OPEN_STATUSES), O, changed)
  /\ i = 2 => CountsNearly(Total(x, Priorities), S, changed)
  /\ i = 3 => CountsNearly(Total(x, OrNone(Categories)), S, changed)
  /\ i = 4 => CountsAtMost(x, S, changed)
  /\ i = 5 => CountsAtMost(x, O, changed)
  /\ i = 6 => CountsNearly(Total(x, 0..maxTime), S, changed)

ViewInv ==
  view # None =>
    \A i \in 1..Len(view.answers) :
      Figured(i, view.answers[i], InWindow(view.window), OpenInWindow(view.window),
              view.changed, deployment.maxTime)

LEMMA StatusesFinite == IsFiniteSet(TicketStatus) /\ IsFiniteSet(OPEN_STATUSES)
<1> DEFINE f == [i \in 1..7 |-> CASE i = 1 -> "NEW" [] i = 2 -> "ASSIGNED" [] i = 3 -> "IN_PROGRESS"
                                  [] i = 4 -> "PENDING_REQUESTER" [] i = 5 -> "RESOLVED"
                                  [] i = 6 -> "CLOSED" [] OTHER -> "CANCELLED"]
<1>1. IsFiniteSet(1..7)
  <2>1. \A n \in Nat : IsFiniteSet(1..n)
    BY FS_Interval
  <2> QED BY <2>1
<1>2. \A i \in 1..7 : i = 1 \/ i = 2 \/ i = 3 \/ i = 4 \/ i = 5 \/ i = 6 \/ i = 7
  OBVIOUS
<1>3. {f[i] : i \in 1..7} = TicketStatus
  <2>1. /\ f[1] = "NEW" /\ f[2] = "ASSIGNED" /\ f[3] = "IN_PROGRESS" /\ f[4] = "PENDING_REQUESTER"
        /\ f[5] = "RESOLVED" /\ f[6] = "CLOSED" /\ f[7] = "CANCELLED"
    OBVIOUS
  <2>2. 1 \in 1..7 /\ 2 \in 1..7 /\ 3 \in 1..7 /\ 4 \in 1..7 /\ 5 \in 1..7 /\ 6 \in 1..7 /\ 7 \in 1..7
    OBVIOUS
  <2> HIDE DEF f
  <2>3. \A s \in TicketStatus : s \in {f[i] : i \in 1..7}
    BY <2>1, <2>2 DEF TicketStatus
  <2>4. \A i \in 1..7 : f[i] \in TicketStatus
    BY <1>2, <2>1 DEF TicketStatus
  <2> QED BY <2>3, <2>4
<1> HIDE DEF f
<1>4. IsFiniteSet({f[i] : i \in 1..7})
  BY <1>1, ImageFinite
<1>5. IsFiniteSet(TicketStatus) /\ OPEN_STATUSES \in SUBSET TicketStatus
  BY <1>3, <1>4 DEF OPEN_STATUSES
<1> QED BY <1>5, FS_Subset

\* As tickets change, the figures go on holding but for those.
LEMMA FiguredKeeps ==
  ASSUME NEW i, NEW x, NEW S, NEW O, NEW ch, NEW m, Figured(i, x, S, O, ch, m),
         NEW U, NEW P, NEW dh, ch \subseteq dh, S \ dh = U \ dh, O \ dh = P \ dh
  PROVE  Figured(i, x, U, P, dh, m)
<1>1. \A n : /\ CountsNearly(n, S, ch) => CountsNearly(n, U, dh)
             /\ CountsNearly(n, O, ch) => CountsNearly(n, P, dh)
  <2>1. \A A \in SUBSET Tickets : /\ A \ ch = S \ ch => A \ dh = U \ dh
                                  /\ A \ ch = O \ ch => A \ dh = P \ dh
    OBVIOUS
  <2> QED BY <2>1 DEF CountsNearly
<1>2. \A n : /\ CountsAtMost(n, S, ch) => CountsAtMost(n, U, dh)
             /\ CountsAtMost(n, O, ch) => CountsAtMost(n, P, dh)
  <2>1. \A A \in SUBSET Tickets : /\ A \ ch \subseteq S => A \ dh \subseteq U
                                  /\ A \ ch \subseteq O => A \ dh \subseteq P
    OBVIOUS
  <2> QED BY <2>1 DEF CountsAtMost
<1> QED BY <1>1, <1>2 DEF Figured

\* When it is given, an answer holds.
LEMMA AnswerFigures ==
  ASSUME TicketInv, NEW i \in 1..6, NEW w, NEW began, NEW changed
  PROVE  Figured(i, Answer(Queries[i], w, began), InWindow(w), OpenInWindow(w), changed,
                 deployment.maxTime)
<1> DEFINE S == InWindow(w)
           O == OpenInWindow(w)
           x == Answer(Queries[i], w, began)
<1>1. S \in SUBSET Tickets /\ O \in SUBSET Tickets
  BY DEF InWindow, OpenInWindow, Present
<1>2. IsFiniteSet(S) /\ IsFiniteSet(O)
  BY <1>1, TablesAssumption, FS_Subset
<1>3. \A n : /\ n = Cardinality(S) => CountsNearly(n, S, changed)
             /\ n = Cardinality(O) => CountsNearly(n, O, changed)
  BY <1>1 DEF CountsNearly
<1>4. \A T : /\ T \subseteq S => CountsAtMost(Cardinality(T), S, changed)
             /\ T \subseteq O => CountsAtMost(Cardinality(T), O, changed)
  <2>1. \A T : T \subseteq S \/ T \subseteq O => T \in SUBSET Tickets
    BY <1>1
  <2> QED BY <2>1 DEF CountsAtMost
<1>5. \A t \in S : /\ t \in Tickets /\ rows[t] \in Row
                   /\ createdAt[t] \in 0..deployment.maxTime
  <2>1. SUFFICES ASSUME NEW t \in S
                 PROVE  t \in Tickets /\ rows[t] \in Row /\ createdAt[t] \in 0..deployment.maxTime
    OBVIOUS
  <2>2. t \in Tickets /\ Created(t)
    BY DEF InWindow, Present
  <2>3. createdAt[t] \in 0..now /\ now \in Nat /\ now <= deployment.maxTime /\ rows[t] \in OrNone(Row)
    BY <2>2 DEF TicketInv, TicketTypes
  <2>4. deployment.maxTime \in Nat
    BY DeploymentsAssumption DEF TicketInv, TicketTypes
  <2> QED BY <2>2, <2>3, <2>4 DEF OrNone, Created
<1>6. CASE i = 1
  <2> DEFINE key == [t \in Tickets |-> rows[t].status]
  <2>1. x = [s \in TicketStatus |-> NumberOf({t \in S : rows[t].status = s})]
    BY <1>6 DEF Answer, Queries, InWindow
  <2>2. Counts(x, TicketStatus, S, key) /\ Counts(x, OPEN_STATUSES, S, key)
    <3>1. \A s : {t \in S : rows[t].status = s} = {t \in S : key[t] = s}
      BY <1>5
    <3>2. OPEN_STATUSES \subseteq TicketStatus
      BY DEF OPEN_STATUSES
    <3> HIDE DEF key, S, x
    <3> QED BY <2>1, <3>1, <3>2 DEF Counts, NumberOf
  <2>3. {t \in S : key[t] \in TicketStatus} = S /\ {t \in S : key[t] \in OPEN_STATUSES} = O
    <3>1. \A t \in S : key[t] = rows[t].status /\ rows[t].status \in TicketStatus
      BY <1>5 DEF Row
    <3> HIDE DEF key
    <3> QED BY <3>1 DEF OpenInWindow
  <2> HIDE DEF key, S, O, x
  <2>4. Total(x, TicketStatus) = Cardinality({t \in S : key[t] \in TicketStatus})
    BY <1>2, <2>2, StatusesFinite, TotalCounts
  <2>5. Total(x, OPEN_STATUSES) = Cardinality({t \in S : key[t] \in OPEN_STATUSES})
    BY <1>2, <2>2, StatusesFinite, TotalCounts
  <2>6. Figured(i, x, S, O, changed, deployment.maxTime)
    BY <1>3, <1>6, <2>3, <2>4, <2>5 DEF Figured
  <2> QED BY <2>6 DEF x, S, O
<1>7. CASE i = 2
  <2> DEFINE key == [t \in Tickets |-> rows[t].priority]
  <2>1. x = [p \in Priorities |-> NumberOf({t \in S : rows[t].priority = p})]
    BY <1>7 DEF Answer, Queries, InWindow
  <2>2. Counts(x, Priorities, S, key)
    <3>1. \A s : {t \in S : rows[t].priority = s} = {t \in S : key[t] = s}
      BY <1>5
    <3> HIDE DEF key, S, x
    <3> QED BY <2>1, <3>1 DEF Counts, NumberOf
  <2>3. {t \in S : key[t] \in Priorities} = S
    <3>1. \A t \in S : key[t] = rows[t].priority /\ rows[t].priority \in Priorities
      BY <1>5 DEF Row
    <3> HIDE DEF key
    <3> QED BY <3>1
  <2> HIDE DEF key, S, O, x
  <2>4. Total(x, Priorities) = Cardinality({t \in S : key[t] \in Priorities})
    BY <1>2, <2>2, TablesAssumption, TotalCounts
  <2>5. Figured(i, x, S, O, changed, deployment.maxTime)
    BY <1>3, <1>7, <2>3, <2>4 DEF Figured
  <2> QED BY <2>5 DEF x, S, O
<1>8. CASE i = 3
  <2> DEFINE key == [t \in Tickets |-> rows[t].category]
             K == OrNone(Categories)
  <2>1. x = [c \in K |-> NumberOf({t \in S : rows[t].category = c})]
    BY <1>8 DEF Answer, Queries, InWindow
  <2>2. Counts(x, K, S, key)
    <3>1. \A s : {t \in S : rows[t].category = s} = {t \in S : key[t] = s}
      BY <1>5
    <3> HIDE DEF key, S, x, K
    <3> QED BY <2>1, <3>1 DEF Counts, NumberOf
  <2>3. {t \in S : key[t] \in K} = S
    <3>1. \A t \in S : key[t] = rows[t].category /\ rows[t].category \in K
      BY <1>5 DEF Row
    <3> HIDE DEF key, K
    <3> QED BY <3>1
  <2>6. IsFiniteSet(K)
    BY TablesAssumption, FS_AddElement DEF OrNone
  <2> HIDE DEF key, S, O, x, K
  <2>4. Total(x, K) = Cardinality({t \in S : key[t] \in K})
    BY <1>2, <2>2, <2>6, TotalCounts
  <2>5. Figured(i, x, S, O, changed, deployment.maxTime)
    BY <1>3, <1>8, <2>3, <2>4 DEF Figured, K
  <2> QED BY <2>5 DEF x, S, O
<1>9. CASE i = 4
  <2>1. x = Cardinality({t \in S : Late(t, began)})
    BY <1>9 DEF Answer, Queries, InWindow, NumberOf
  <2>2. CountsAtMost(x, S, changed)
    <3> HIDE DEF S, x, O
    <3> QED BY <1>4, <2>1
  <2> QED BY <1>9, <2>2 DEF Figured
<1>10. CASE i = 5
  <2>1. x = Cardinality({t \in S : Unassigned(t)})
    BY <1>10 DEF Answer, Queries, InWindow, NumberOf
  <2>2. {t \in S : Unassigned(t)} \subseteq O
    BY DEF Unassigned, Open, OpenInWindow
  <2>3. CountsAtMost(x, O, changed)
    <3> HIDE DEF S, x, O
    <3> QED BY <1>4, <2>1, <2>2
  <2> QED BY <1>10, <2>3 DEF Figured
<1>11. CASE i = 6
  <2> DEFINE key == [t \in Tickets |-> createdAt[t]]
             K == 0..deployment.maxTime
  <2>1. x = [d \in K |-> NumberOf({t \in S : createdAt[t] = d})]
    BY <1>11 DEF Answer, Queries, InWindow
  <2>2. Counts(x, K, S, key)
    <3>1. \A s : {t \in S : createdAt[t] = s} = {t \in S : key[t] = s}
      BY <1>5
    <3> HIDE DEF key, S, x, K
    <3> QED BY <2>1, <3>1 DEF Counts, NumberOf
  <2>3. {t \in S : key[t] \in K} = S
    <3>1. \A t \in S : key[t] = createdAt[t] /\ createdAt[t] \in K
      BY <1>5
    <3> HIDE DEF key, K
    <3> QED BY <3>1
  <2>6. IsFiniteSet(K)
    <3>1. deployment.maxTime \in Nat
      BY DeploymentsAssumption DEF TicketInv, TicketTypes
    <3> QED BY <3>1, FS_Interval
  <2> HIDE DEF key, S, O, x, K
  <2>4. Total(x, K) = Cardinality({t \in S : key[t] \in K})
    BY <1>2, <2>2, <2>6, TotalCounts
  <2>5. Figured(i, x, S, O, changed, deployment.maxTime)
    BY <1>3, <1>11, <2>3, <2>4 DEF Figured, K
  <2> QED BY <2>5 DEF x, S, O
<1> QED BY <1>6, <1>7, <1>8, <1>9, <1>10, <1>11

\* A step that changes no ticket but those the overview is told of leaves the figures.
LEMMA ViewKeeps ==
  ASSUME TicketInv, ViewInv, deployment' = deployment, view # None, view \in View, view' \in View,
         view'.answers = view.answers, view'.window = view.window,
         view.changed \subseteq view'.changed,
         \A t \in Tickets \ view'.changed : rows'[t] = rows[t] /\ createdAt'[t] = createdAt[t]
  PROVE  ViewInv'
<1> DEFINE w == view.window
           ch == view.changed
           dh == view'.changed
<1>1. w' = w
  OBVIOUS
<1>2. InWindow(w) \ dh = InWindow(w)' \ dh
  <2>1. \A t \in Tickets \ dh : Created(t)' <=> Created(t)
    BY DEF Created
  <2>2. \A t \in Tickets \ dh : t \in InWindow(w)' <=> t \in InWindow(w)
    BY <1>1, <2>1 DEF InWindow, Present, Within
  <2>3. InWindow(w) \subseteq Tickets /\ InWindow(w)' \subseteq Tickets
    BY DEF InWindow, Present
  <2> QED BY <2>2, <2>3
<1>3. OpenInWindow(w) \ dh = OpenInWindow(w)' \ dh
  <2>1. \A t : t \in InWindow(w) \ dh => t \in Tickets \ dh
    BY DEF InWindow, Present
  <2> QED BY <1>2, <2>1 DEF OpenInWindow
<1>4. ASSUME NEW i \in 1..Len(view.answers)
      PROVE  Figured(i, view.answers[i], InWindow(w)', OpenInWindow(w)', dh, deployment.maxTime)
  <2>1. Figured(i, view.answers[i], InWindow(w), OpenInWindow(w), ch, deployment.maxTime)
    BY <1>4 DEF ViewInv
  <2>2. ch \subseteq dh
    OBVIOUS
  <2> DEFINE S == InWindow(w)
             O == OpenInWindow(w)
             x == view.answers[i]
             m == deployment.maxTime
             U == InWindow(w)'
             P == OpenInWindow(w)'
  <2>3. Figured(i, x, S, O, ch, m) /\ S \ dh = U \ dh /\ O \ dh = P \ dh
    BY <1>2, <1>3, <2>1
  <2>4. Figured(i, x, U, P, dh, m)
    <3> HIDE DEF S, O, x, U, P, m, ch, dh
    <3> QED BY <2>2, <2>3, FiguredKeeps
  <2> QED BY <2>4
<1> QED BY <1>1, <1>4 DEF ViewInv

LEMMA ViewStep ==
  ASSUME TicketInv, CacheInv, ViewInv, [Next]_vars
  PROVE  ViewInv'
<1>0. (view # None => view \in View) /\ (view' # None => view' \in View)
  BY CacheStep DEF CacheInv
<1>1. ASSUME UNCHANGED <<deployment, view, rows, createdAt>>
      PROVE  ViewInv'
  BY <1>0, <1>1, ViewKeeps DEF ViewInv
<1>2. ASSUME NEW t \in Tickets, Changed({t}), deployment' = deployment,
             \A s \in Tickets : s # t => rows'[s] = rows[s] /\ createdAt'[s] = createdAt[s]
      PROVE  ViewInv'
  <2>1. CASE view = None
    BY <1>2, <2>1 DEF Changed, ViewInv
  <2>2. CASE view # None
    <3>1. view \in View /\ view' = [view EXCEPT !.changed = @ \cup {t}]
      BY <1>0, <1>2, <2>2 DEF Changed
    <3>2. view' \in View /\ view'.answers = view.answers /\ view'.window = view.window
          /\ view'.changed = view.changed \cup {t}
      BY <3>1 DEF View
    <3>3. view.changed \subseteq view'.changed
          /\ \A s \in Tickets \ view'.changed : rows'[s] = rows[s] /\ createdAt'[s] = createdAt[s]
      BY <1>2, <3>2
    <3> QED BY <1>2, <2>2, <3>1, <3>2, <3>3, ViewKeeps
  <2> QED BY <2>1, <2>2
<1>3. ASSUME NEW u \in Users, NEW t \in Tickets, Create(u, t)  PROVE ViewInv'
  <2>1. Changed({t}) /\ deployment' = deployment
        /\ \A s \in Tickets : s # t => rows'[s] = rows[s] /\ createdAt'[s] = createdAt[s]
    BY <1>3 DEF Create, TicketInv, TicketTypes
  <2> QED BY <1>2, <2>1
<1>4. ASSUME NEW u \in Users, NEW t \in Tickets, Edit(u, t)  PROVE ViewInv'
  <2>1. Changed({t}) /\ deployment' = deployment
        /\ \A s \in Tickets : s # t => rows'[s] = rows[s] /\ createdAt'[s] = createdAt[s]
    BY <1>4 DEF Edit, TicketInv, TicketTypes
  <2> QED BY <1>2, <2>1
<1>5. CASE Tick
  BY <1>1, <1>5 DEF Tick
<1>6. ASSUME NEW u \in Users, SetActive(u)  PROVE ViewInv'
  BY <1>1, <1>6 DEF SetActive, pageVars, ticketVars
<1>7. ASSUME NEW u \in Users, NEW t \in Tickets, NEW s \in Scores, RateBegin(u, t, s) \/ Rerate(u, t, s)
      PROVE  ViewInv'
  BY <1>1, <1>7 DEF RateBegin, Rerate, ticketVars
<1>8. CASE RateCommit
  BY <1>1, <1>8 DEF RateCommit, ticketVars
<1>9. ASSUME NEW q \in AskedWindows, Overview(q)  PROVE ViewInv'
  <2>1. view'.answers = <<>>
    BY <1>9 DEF Overview
  <2>2. 1..Len(view'.answers) = {}
    BY <2>1
  <2> QED BY <2>2 DEF ViewInv
<1>10. CASE Query
  <2> DEFINE a == view.answers
             n == Len(a)
             w == view.window
             x == Answer(Queries[n + 1], w, view.began)
             Fits(i, y) == Figured(i, y, InWindow(w), OpenInWindow(w), view.changed, deployment.maxTime)
  <2>1. /\ view \in View /\ n \in 0..5 /\ view'.window = w /\ view'.changed = view.changed
        /\ view'.answers = Append(a, x)
    BY <1>10, QueryIs
  <2>2. deployment' = deployment /\ rows' = rows /\ createdAt' = createdAt /\ view # None
    BY <1>10 DEF Query, ticketVars
  <2>3. Fits(n + 1, x)
    <3>1. n + 1 \in 1..6
      <4> HIDE DEF n
      <4> QED BY <2>1
    <3> HIDE DEF n
    <3> QED BY <3>1, AnswerFigures
  <2>4. \A i \in 1..n : Fits(i, a[i])
    BY <2>2 DEF ViewInv
  <2>5. a \in Seq(Figures) /\ n = Len(a)
    BY <2>1 DEF View
  <2>6. x \in Figures
    <3>1. n + 1 \in 1..6
      <4> HIDE DEF n
      <4> QED BY <2>1
    <3> HIDE DEF n
    <3>2. Queries[n + 1] \in {Queries[i] : i \in 1..Len(Queries)}
      <4>1. Len(Queries) = 6
        BY DEF Queries
      <4>2. n + 1 \in 1..Len(Queries)
        BY <3>1, <4>1, Zenon
      <4> QED BY <4>2
    <3> QED BY <3>2, AnswerType
  <2>7. \A i \in 1..Len(Append(a, x)) : Fits(i, Append(a, x)[i])
    <3> HIDE DEF a, n, x, Fits
    <3>1. Len(Append(a, x)) = n + 1 /\ n \in Nat
          /\ \A i \in 1..(n + 1) : Append(a, x)[i] = IF i = n + 1 THEN x ELSE a[i]
      BY <2>5, <2>6
    <3> QED BY <2>3, <2>4, <3>1
  <2>8. /\ InWindow(w)' = InWindow(w) /\ OpenInWindow(w)' = OpenInWindow(w)
        /\ view'.window = w /\ deployment'.maxTime = deployment.maxTime
    BY <2>1, <2>2 DEF InWindow, OpenInWindow, Present, Created
  <2> HIDE DEF x
  <2>9. \A i \in 1..Len(view'.answers) : Fits(i, view'.answers[i])
    BY <2>1, <2>7
  <2> QED BY <2>1, <2>8, <2>9 DEF ViewInv
<1>11. CASE OverviewDone
  BY <1>11 DEF OverviewDone, ViewInv
<1>12. CASE UNCHANGED vars
  BY <1>1, <1>12 DEF vars, ticketVars
<1> QED BY <1>3, <1>4, <1>5, <1>6, <1>7, <1>8, <1>9, <1>10, <1>11, <1>12 DEF Next

LEMMA ViewAlways == Spec => []ViewInv
<1>1. Init => ViewInv
  BY DEF Init, ViewInv
<1> QED BY <1>1, ViewStep, TicketAlways, CacheAlways, PTL DEF Spec

\* Sets that agree but for those of changed differ by no more than these.
LEMMA NearlyAll ==
  ASSUME NEW A \in SUBSET Tickets, NEW B \in SUBSET Tickets, NEW changed \in SUBSET Tickets,
         A \ changed \subseteq B
  PROVE  Cardinality(A) <= Cardinality(B) + Cardinality(changed)
<1>1. IsFiniteSet(A) /\ IsFiniteSet(B) /\ IsFiniteSet(changed)
  BY TablesAssumption, FS_Subset
<1> DEFINE C == B \cup changed
<1>2. A \subseteq C
  OBVIOUS
<1>3. IsFiniteSet(C) /\ Cardinality(C) = Cardinality(B) + Cardinality(changed) - Cardinality(B \cap changed)
  BY <1>1, FS_Union
<1>4. IsFiniteSet(B \cap changed)
  BY <1>1, FS_Intersection
<1> HIDE DEF C
<1>5. Cardinality(A) <= Cardinality(C)
  BY <1>2, <1>3, FS_Subset
<1>6. /\ Cardinality(A) \in Nat /\ Cardinality(B) \in Nat /\ Cardinality(C) \in Nat
      /\ Cardinality(changed) \in Nat /\ Cardinality(B \cap changed) \in Nat
  BY <1>1, <1>3, <1>4, FS_CardinalityType
<1> QED BY <1>3, <1>5, <1>6

\* The figures of one overview contradict each other by no more than the tickets that were
\* created or changed while it was computed.
THEOREM OverviewsAreCoherent == Spec => []OverviewCoherent
<1>1. ASSUME TicketInv, CacheInv, ViewInv
      PROVE  OverviewCoherent
  <2>1. SUFFICES ASSUME view # None, Len(view.answers) = Len(Queries)
                 PROVE  LET x        == view.answers
                            n        == NumberOf(view.changed)
                            total    == Total(x[1], TicketStatus)
                            near(k)  == k - total <= n /\ total - k <= n
                        IN  /\ near(Total(x[2], Priorities))
                            /\ near(Total(x[3], OrNone(Categories)))
                            /\ near(Total(x[6], 0..deployment.maxTime))
                            /\ x[4] <= total + n
                            /\ x[5] <= Total(x[1], OPEN_STATUSES) + n
    BY DEF OverviewCoherent
  <2> DEFINE x     == view.answers
             ch    == view.changed
             n     == Cardinality(ch)
             total == Total(x[1], TicketStatus)
             open  == Total(x[1], OPEN_STATUSES)
             S     == InWindow(view.window)
             O     == OpenInWindow(view.window)
             m     == deployment.maxTime
  <2>2. ch \in SUBSET Tickets
    BY <1>1, <2>1 DEF CacheInv, View
  <2>3. \A i \in 1..6 : Figured(i, x[i], S, O, ch, m)
    <3>1. Len(Queries) = 6
      BY DEF Queries
    <3>2. Len(x) = 6
      BY <2>1, <3>1, Zenon
    <3> QED BY <1>1, <2>1, <3>2 DEF ViewInv
  <2>4. n \in Nat
    BY <2>2, TablesAssumption, FS_Subset, FS_CardinalityType
  <2> HIDE DEF x, ch, S, O, m
  <2>5. 1 \in 1..6 /\ 2 \in 1..6 /\ 3 \in 1..6 /\ 4 \in 1..6 /\ 5 \in 1..6 /\ 6 \in 1..6
    OBVIOUS
  <2>6. CountsNearly(total, S, ch) /\ CountsNearly(open, O, ch)
    BY <2>3, <2>5 DEF Figured
  <2>7. /\ CountsNearly(Total(x[2], Priorities), S, ch)
        /\ CountsNearly(Total(x[3], OrNone(Categories)), S, ch)
        /\ CountsNearly(Total(x[6], 0..m), S, ch)
    BY <2>3, <2>5 DEF Figured
  <2>8. CountsAtMost(x[4], S, ch) /\ CountsAtMost(x[5], O, ch)
    BY <2>3, <2>5 DEF Figured
  <2> HIDE DEF total, open, n
  <2>9. ASSUME NEW k, NEW j, NEW T, CountsAtMost(k, T, ch), CountsNearly(j, T, ch)
        PROVE  k <= j + n /\ k \in Nat /\ j \in Nat
    <3>1. PICK A \in SUBSET Tickets : k = Cardinality(A) /\ A \ ch \subseteq T
      BY <2>9 DEF CountsAtMost
    <3>2. PICK B \in SUBSET Tickets : j = Cardinality(B) /\ B \ ch = T \ ch
      BY <2>9 DEF CountsNearly
    <3>3. A \ ch \subseteq B
      BY <3>1, <3>2
    <3>4. Cardinality(A) <= Cardinality(B) + Cardinality(ch)
      BY <2>2, <3>3, NearlyAll
    <3>5. Cardinality(A) \in Nat /\ Cardinality(B) \in Nat
      BY TablesAssumption, FS_Subset, FS_CardinalityType
    <3> QED BY <3>1, <3>2, <3>4, <3>5 DEF n
  <2>10. ASSUME NEW k, CountsNearly(k, S, ch)
         PROVE  k - total <= n /\ total - k <= n
    <3>1. CountsAtMost(k, S, ch) /\ CountsAtMost(total, S, ch)
      BY <2>6, <2>10 DEF CountsNearly, CountsAtMost
    <3>2. k <= total + n /\ total <= k + n /\ k \in Nat /\ total \in Nat
      BY <2>6, <2>9, <2>10, <3>1
    <3> QED BY <2>4, <3>2
  <2>11. x[4] <= total + n /\ x[5] <= open + n
    BY <2>6, <2>8, <2>9
  <2> QED BY <2>7, <2>10, <2>11 DEF x, ch, n, total, open, m, NumberOf
<1> QED BY <1>1, TicketAlways, CacheAlways, ViewAlways, PTL

-----------------------------------------------------------------------------
(***************************************************************************)
(* Suggestions.                                                            *)
(***************************************************************************)
LEMMA AgentsFinite ==
  ASSUME TicketInv
  PROVE  Agents \subseteq Users /\ IsFiniteSet(Agents)
<1>1. Agents \in SUBSET Users
  BY DEF Agents, TicketInv, TicketTypes
<1> QED BY <1>1, TablesAssumption, FS_Subset

LEMMA SnapshotType ==
  ASSUME TicketInv, NEW a \in Users, NEW c \in OrNone(Categories)
  PROVE  Snapshot(a, c).skill \in Nat /\ Snapshot(a, c).load \in Int /\ Snapshot(a, c).duty \in BOOLEAN
<1> DEFINE open == {t \in Present : rows[t].assignee = a /\ Open(t)}
           f == [t \in open |-> Weight(t)]
<1>1. IsFiniteSet(open)
  <2>1. open \in SUBSET Tickets
    BY DEF Present
  <2> HIDE DEF open
  <2> QED BY <2>1, TablesAssumption, FS_Subset
<1>2. \A t \in open : f[t] \in Int
  <2>1. \A t : Weight(t) \in Int
    BY DEF Weight
  <2> HIDE DEF open
  <2> QED BY <2>1
<1>3. Total(f, open) \in Int
  <2> HIDE DEF open, f
  <2> QED BY <1>1, <1>2, TotalType
<1>4. (IF c = None THEN 0 ELSE Skill[a][c]) \in Nat
  BY SkillsAssumption DEF OrNone
<1>5. IsOnDuty(a) \in BOOLEAN
  BY DEF IsOnDuty
<1>6. /\ Snapshot(a, c).skill = IF c = None THEN 0 ELSE Skill[a][c]
      /\ Snapshot(a, c).load = Total(f, open)
      /\ Snapshot(a, c).duty = IsOnDuty(a)
  BY DEF Snapshot
<1> HIDE DEF f, open
<1> QED BY <1>3, <1>4, <1>5, <1>6

\* The score is a number, the larger the better in skill, load and duty.
LEMMA ScoreRises ==
  ASSUME NEW s, s.skill \in Nat, s.load \in Int, s.duty \in BOOLEAN,
         NEW r, r.skill \in Nat, r.load \in Int, r.duty \in BOOLEAN
  PROVE  /\ Score(s) \in Int /\ Score(r) \in Int
         /\ AtMost(s.skill, 3) >= AtMost(r.skill, 3) /\ s.load <= r.load /\ (r.duty => s.duty) =>
              /\ Score(s) >= Score(r)
              /\ AtMost(s.skill, 3) > AtMost(r.skill, 3) \/ s.duty # r.duty => Score(s) > Score(r)
<1> DEFINE M == SuggestMaxLoad
           k(q) == AtMost(q.skill, 3)
           l(q) == M - AtMost(q.load, M)
           d(q) == IF q.duty THEN 10 ELSE 3
<1>1. M \in Nat /\ M > 0
  BY SettingsAssumption
<1>2. k(s) \in 0..3 /\ k(r) \in 0..3
  BY DEF AtMost
<1>3. l(s) \in Int /\ l(r) \in Int /\ (s.load <= r.load => l(s) >= l(r))
  BY <1>1 DEF AtMost
<1>4. Score(s) = 100 * M * k(s) + 210 * l(s) + 9 * M * d(s)
      /\ Score(r) = 100 * M * k(r) + 210 * l(r) + 9 * M * d(r)
  BY DEF Score
<1> DEFINE p(q) == 100 * M * k(q)
           e(q) == 9 * M * d(q)
<1> HIDE DEF k, l
<1>5. p(s) \in Int /\ p(r) \in Int /\ (k(s) >= k(r) => p(s) >= p(r)) /\ (k(s) > k(r) => p(s) > p(r))
  <2>1. \A i \in 0..3 : i = 0 \/ i = 1 \/ i = 2 \/ i = 3
    OBVIOUS
  <2>2. /\ k(s) = 0 \/ k(s) = 1 \/ k(s) = 2 \/ k(s) = 3
        /\ k(r) = 0 \/ k(r) = 1 \/ k(r) = 2 \/ k(r) = 3
    BY <1>2, <2>1
  <2>3. 100 * M * 0 = 0 /\ 100 * M * 1 = 100 * M /\ 100 * M * 2 = 200 * M /\ 100 * M * 3 = 300 * M
    BY <1>1
  <2> HIDE DEF M
  <2> QED BY <1>1, <2>2, <2>3
<1>6. e(s) \in Int /\ e(r) \in Int
      /\ ((r.duty => s.duty) => e(s) >= e(r) /\ (s.duty # r.duty => e(s) > e(r)))
  <2>1. 9 * M * 10 = 90 * M /\ 9 * M * 3 = 27 * M
    BY <1>1
  <2>2. e(s) = (IF s.duty THEN 90 * M ELSE 27 * M) /\ e(r) = (IF r.duty THEN 90 * M ELSE 27 * M)
    BY <2>1
  <2> HIDE DEF e, M
  <2> QED BY <1>1, <2>2
<1>7. Score(s) = p(s) + 210 * l(s) + e(s) /\ Score(r) = p(r) + 210 * l(r) + e(r)
  BY <1>4
<1> HIDE DEF p, e, M
<1>8. Score(s) \in Int /\ Score(r) \in Int
  BY <1>3, <1>5, <1>6, <1>7
<1>9. ASSUME k(s) >= k(r), s.load <= r.load, r.duty => s.duty
      PROVE  Score(s) >= Score(r) /\ (k(s) > k(r) \/ s.duty # r.duty => Score(s) > Score(r))
  BY <1>3, <1>5, <1>6, <1>7, <1>9
<1> QED BY <1>8, <1>9 DEF k

LEMMA NameIndexIs ==
  ASSUME NEW a \in Users, NEW b \in Users
  PROVE  /\ NameIndex(a) \in Int /\ NameIndex(b) \in Int
         /\ NameIndex(a) = NameIndex(b) => a = b
<1>1. ASSUME NEW u \in Users  PROVE NameIndex(u) \in 1..Len(NameOrder) /\ NameOrder[NameIndex(u)] = u
  BY NamesAssumption DEF NameIndex
<1> QED BY <1>1

\* The order of the agents is a strict total one.
LEMMA BeforeIsOrder ==
  ASSUME TicketInv, NEW c \in OrNone(Categories)
  PROVE  /\ \A a \in Agents : ~Before(a, a, c)
         /\ \A a, b \in Agents : a = b \/ Before(a, b, c) \/ Before(b, a, c)
         /\ \A a, b, d \in Agents : Before(a, b, c) /\ Before(b, d, c) => Before(a, d, c)
<1> DEFINE sc(a) == Score(Snapshot(a, c))
           ld(a) == Snapshot(a, c).load
<1>1. ASSUME NEW a \in Agents
      PROVE  a \in Users /\ sc(a) \in Int /\ ld(a) \in Int /\ NameIndex(a) \in Int
  <2>1. a \in Users
    BY AgentsFinite
  <2> DEFINE s == Snapshot(a, c)
  <2>2. s.skill \in Nat /\ s.load \in Int /\ s.duty \in BOOLEAN
    BY <2>1, SnapshotType
  <2>3. Score(s) \in Int
    <3> HIDE DEF s
    <3> QED BY <2>2, ScoreRises
  <2> QED BY <2>1, <2>2, <2>3, NameIndexIs
<1>2. \A a, b : Before(a, b, c) <=> \/ sc(a) > sc(b)
                                    \/ sc(a) = sc(b) /\ ld(a) < ld(b)
                                    \/ sc(a) = sc(b) /\ ld(a) = ld(b) /\ NameIndex(a) < NameIndex(b)
  BY DEF Before
<1> HIDE DEF sc, ld
<1>3. ASSUME NEW a \in Agents  PROVE ~Before(a, a, c)
  BY <1>1, <1>2
<1>4. ASSUME NEW a \in Agents, NEW b \in Agents
      PROVE  a = b \/ Before(a, b, c) \/ Before(b, a, c)
  <2>1. NameIndex(a) = NameIndex(b) => a = b
    BY <1>1, NameIndexIs
  <2> QED BY <1>1, <1>2, <2>1
<1>5. ASSUME NEW a \in Agents, NEW b \in Agents, NEW d \in Agents, Before(a, b, c), Before(b, d, c)
      PROVE  Before(a, d, c)
  <2>1. /\ sc(a) \in Int /\ ld(a) \in Int /\ NameIndex(a) \in Int
        /\ sc(b) \in Int /\ ld(b) \in Int /\ NameIndex(b) \in Int
        /\ sc(d) \in Int /\ ld(d) \in Int /\ NameIndex(d) \in Int
    BY <1>1
  <2> QED BY <1>2, <1>5, <2>1
<1> QED BY <1>3, <1>4, <1>5

\* Whoever comes before another has an earlier place, and every place has its agent.
LEMMA Places ==
  ASSUME TicketInv, NEW c \in OrNone(Categories)
  PROVE  /\ Cardinality(Agents) \in Nat
         /\ \A a \in Agents : Place(a, c) \in 1..Cardinality(Agents)
         /\ \A a, b \in Agents : Before(a, b, c) => Place(a, c) < Place(b, c)
         /\ \A a, b \in Agents : Place(a, c) = Place(b, c) => a = b
         /\ \A i \in 1..Cardinality(Agents) : \E a \in Agents : Place(a, c) = i
<1> DEFINE Ahead(a) == {b \in Agents : Before(b, a, c)}
           n == Cardinality(Agents)
<1>0. IsFiniteSet(Agents) /\ n \in Nat
  BY AgentsFinite, FS_CardinalityType
<1>1. ASSUME NEW a \in Agents
      PROVE  /\ Ahead(a) \subseteq Agents /\ a \notin Ahead(a) /\ Ahead(a) # Agents
             /\ IsFiniteSet(Ahead(a)) /\ Cardinality(Ahead(a)) \in Nat
             /\ Cardinality(Ahead(a)) < n /\ Place(a, c) = 1 + Cardinality(Ahead(a))
  <2>1. Ahead(a) \subseteq Agents /\ a \notin Ahead(a)
    BY BeforeIsOrder
  <2>2. Ahead(a) # Agents
    BY <2>1
  <2>3. Place(a, c) = 1 + Cardinality(Ahead(a))
    BY DEF Place
  <2> HIDE DEF Ahead
  <2>4. IsFiniteSet(Ahead(a)) /\ Cardinality(Ahead(a)) \in Nat /\ Cardinality(Ahead(a)) <= n
        /\ Cardinality(Ahead(a)) # n
    BY <1>0, <2>1, <2>2, FS_Subset, FS_CardinalityType
  <2> HIDE DEF n
  <2>5. Cardinality(Ahead(a)) < n
    BY <1>0, <2>4
  <2> QED BY <2>1, <2>2, <2>3, <2>4, <2>5
<1>2. ASSUME NEW a \in Agents, NEW b \in Agents, Before(a, b, c)
      PROVE  Place(a, c) < Place(b, c)
  <2>1. Ahead(a) \subseteq Ahead(b) /\ a \in Ahead(b) /\ a \notin Ahead(a)
    BY <1>1, <1>2, BeforeIsOrder
  <2>2. /\ Cardinality(Ahead(a)) \in Nat /\ Cardinality(Ahead(b)) \in Nat
        /\ IsFiniteSet(Ahead(b))
        /\ Place(a, c) = 1 + Cardinality(Ahead(a)) /\ Place(b, c) = 1 + Cardinality(Ahead(b))
    BY <1>1
  <2> HIDE DEF Ahead
  <2>3. Cardinality(Ahead(a)) <= Cardinality(Ahead(b)) /\ Cardinality(Ahead(a)) # Cardinality(Ahead(b))
    BY <2>1, <2>2, FS_Subset
  <2> QED BY <2>2, <2>3
<1>3. ASSUME NEW a \in Agents  PROVE Place(a, c) \in 1..n
  <2> HIDE DEF n, Ahead
  <2> QED BY <1>0, <1>1
<1>4. ASSUME NEW a \in Agents, NEW b \in Agents, Place(a, c) = Place(b, c)
      PROVE  a = b
  <2>1. Place(a, c) \in Int /\ Place(b, c) \in Int
    BY <1>3
  <2>2. ~Before(a, b, c) /\ ~Before(b, a, c)
    BY <1>2, <1>4, <2>1
  <2> QED BY <2>2, BeforeIsOrder
<1>5. \A i \in 1..n : \E a \in Agents : Place(a, c) = i
  <2> DEFINE f == [a \in Agents |-> Place(a, c)]
             T == 1..n
  <2>1. f \in Injection(Agents, T)
    <3>1. \A a \in Agents : f[a] = Place(a, c) /\ f[a] \in T
      BY <1>3
    <3>2. \A a, b \in Agents : f[a] = f[b] => a = b
      BY <1>4
    <3>3. f = [a \in Agents |-> f[a]]
      OBVIOUS
    <3> HIDE DEF f, T
    <3> QED BY <3>1, <3>2, <3>3 DEF Injection, IsInjective
  <2>2. IsFiniteSet(T) /\ Cardinality(T) = n
    <3> HIDE DEF n
    <3>1. \A k \in Nat : IsFiniteSet(1..k) /\ Cardinality(1..k) = k
      <4>1. SUFFICES ASSUME NEW k \in Nat  PROVE IsFiniteSet(1..k) /\ Cardinality(1..k) = k
        OBVIOUS
      <4> QED BY FS_Interval
    <3> QED BY <1>0, <3>1
  <2> HIDE DEF T
  <2>3. \A i \in T : \E a \in Agents : f[a] = i
    <3> HIDE DEF f
    <3>1. f \in Surjection(Agents, T)
      BY <2>1, <2>2, FS_Injection
    <3> QED BY <3>1 DEF Surjection
  <2> QED BY <2>3 DEF T
<1> QED BY <1>0, <1>2, <1>3, <1>4, <1>5

\* An agent who is no worse than another and better in skill, load or duty comes first,
\* and nobody better is left out.
THEOREM BestAgentsComeFirst == Spec => []BestAgentsFirst
<1> DEFINE c(t) == rows[t].category
           Better(a, b, t) ==
             LET s == Snapshot(a, c(t))
                 r == Snapshot(b, c(t))
             IN  /\ AtMost(s.skill, 3) >= AtMost(r.skill, 3) /\ s.load <= r.load
                 /\ r.duty => s.duty
                 /\ \/ AtMost(s.skill, 3) > AtMost(r.skill, 3)
                    \/ s.load < r.load
                    \/ s.duty # r.duty
<1>1. ASSUME TicketInv, NEW t \in Present, NEW i \in 1..Len(Suggest(t)), NEW a \in Agents,
             Better(a, Suggest(t)[i], t)
      PROVE  \E j \in 1..(i - 1) : Suggest(t)[j] = a
  <2> DEFINE n == Cardinality(Agents)
             m == AtMost(n, SuggestTopN)
             list == Suggest(t)
             g == c(t)
  <2>0. g \in OrNone(Categories)
    <3>1. t \in Tickets /\ Created(t)
      BY DEF Present
    <3>2. rows[t] \in Row
      BY <1>1, <3>1 DEF TicketInv, TicketTypes, OrNone, Created
    <3> QED BY <3>2 DEF Row
  <2>1. n \in Nat /\ m \in Nat /\ m <= n
    <3>1. n \in Nat
      BY <1>1, <2>0, Places
    <3> HIDE DEF n
    <3> QED BY <3>1, SettingsAssumption DEF AtMost
  <2>2. list = [k \in 1..m |-> CHOOSE b \in Agents : Place(b, g) = k]
    BY DEF Suggest
  <2>3. Len(list) = m
    <3> HIDE DEF m, n, g
    <3> QED BY <2>1, <2>2
  <2>4. \A k \in 1..m : list[k] \in Agents /\ Place(list[k], g) = k
    <3>1. SUFFICES ASSUME NEW k \in 1..m  PROVE list[k] \in Agents /\ Place(list[k], g) = k
      OBVIOUS
    <3>2. k \in 1..n
      <4> HIDE DEF m, n
      <4> QED BY <2>1
    <3>3. \E b \in Agents : Place(b, g) = k
      BY <1>1, <2>0, <3>2, Places
    <3>4. list[k] = CHOOSE b \in Agents : Place(b, g) = k
      BY <2>2
    <3> HIDE DEF list, g
    <3> QED BY <3>3, <3>4
  <2> DEFINE b == list[i]
             s == Snapshot(a, g)
             r == Snapshot(b, g)
  <2>5. i \in 1..m /\ b \in Agents /\ Place(b, g) = i
    <3>1. i \in 1..m
      BY <2>3
    <3> QED BY <2>4, <3>1
  <2>6. a \in Users /\ b \in Users
    BY <1>1, <2>5, AgentsFinite
  <2>7. s.skill \in Nat /\ s.load \in Int /\ s.duty \in BOOLEAN
        /\ r.skill \in Nat /\ r.load \in Int /\ r.duty \in BOOLEAN
    <3> HIDE DEF b, g
    <3> QED BY <1>1, <2>0, <2>6, SnapshotType
  <2>8. /\ AtMost(s.skill, 3) >= AtMost(r.skill, 3) /\ s.load <= r.load
        /\ r.duty => s.duty
        /\ \/ AtMost(s.skill, 3) > AtMost(r.skill, 3)
           \/ s.load < r.load
           \/ s.duty # r.duty
    BY <1>1
  <2>9. Before(a, b, g)
    <3>1. Score(s) > Score(r) \/ (Score(s) = Score(r) /\ s.load < r.load)
      <4> HIDE DEF s, r
      <4>1. /\ Score(s) \in Int /\ Score(r) \in Int /\ Score(s) >= Score(r)
            /\ AtMost(s.skill, 3) > AtMost(r.skill, 3) \/ s.duty # r.duty => Score(s) > Score(r)
        BY <2>7, <2>8, ScoreRises
      <4> QED BY <2>8, <4>1
    <3> QED BY <3>1 DEF Before
  <2> DEFINE j == Place(a, g)
  <2>10. j \in 1..n /\ j < i
    <3> HIDE DEF b, g
    <3> QED BY <1>1, <2>0, <2>5, <2>9, Places
  <2>11. j \in 1..m /\ j \in 1..(i - 1)
    <3> HIDE DEF j, m, n, b
    <3> QED BY <2>1, <2>5, <2>10
  <2>12. list[j] \in Agents /\ Place(list[j], g) = Place(a, g)
    BY <2>4, <2>11
  <2>13. list[j] = a
    <3> HIDE DEF list, g, j
    <3> QED BY <1>1, <2>0, <2>12, Places
  <2> QED BY <2>11, <2>13
<1>2. ASSUME TicketInv  PROVE BestAgentsFirst
  BY <1>1, <1>2 DEF BestAgentsFirst
<1> QED BY <1>2, TicketAlways, PTL
=============================================================================
