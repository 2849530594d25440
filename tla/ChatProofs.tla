----------------------------- MODULE ChatProofs -----------------------------
(***************************************************************************)
(* What the assistant tells and keeps, for any asks, sessions, providers   *)
(* and faults.                                                             *)
(*                                                                         *)
(* The properties speak of asks that have ended and of what they left;     *)
(* Sound says, job by job, what an ask may have told and said so far, Kept *)
(* that an ask at work has left no answer yet, and Counting what its copy  *)
(* of the session's counter is worth.                                      *)
(***************************************************************************)
EXTENDS Chat, FiniteSetTheorems, TLAPS

Types ==
  /\ deployment \in Deployments
  /\ messages \in Seq(MessageRow)
  /\ messageCount \in [ChatSessions -> Nat]
  /\ asks \in [Asks -> AskRow \cup {None}]
  /\ spent \in Nat /\ overlapped \subseteq ChatSessions /\ faults \in Nat

\* An ask, where d is the deployment.
InOrder(a, d) ==
  /\ \A i \in DOMAIN a.events :
       /\ a.events[i] = "citations" <=> (i = 1 /\ a.events[i] # "error")
       /\ a.events[i] \in {"done", "error"} => (i = Len(a.events) /\ a.job = "ended")
       /\ a.events[i] = "done" /\ d.providers > 1 => i > 2
  /\ a.job = "ended" => LastEvent(a) \in {"done", "error"}

OneVoice(a) == \A m, n \in DOMAIN a.parts : a.parts[m] = a.parts[n]

Sound(a, d) ==
  /\ InOrder(a, d) /\ OneVoice(a)
  /\ a.job \in {"rewrite", "embed"} => a.events = <<>> /\ a.cites = {}
  /\ a.job = "stream" => Len(a.events) >= 1 /\ a.cites # {}
  /\ a.job = "refuse" => Len(a.events) >= 2 /\ a.cites = {}
  /\ a.job = "speak" => /\ Len(a.events) >= 2 /\ a.cites # {}
                        /\ \A m \in DOMAIN a.parts : a.parts[m] = a.provider
  /\ a.job \in {"rewrite", "embed", "stream", "refuse"} => a.parts = <<>>
  /\ a.parts # <<>> => a.cites # {}
  /\ \A x \in a.cites : d.indexedWith[x] = a.vector

Told == \A k \in Asks : Begun(k) => Sound(asks[k], deployment)

Kept ==
  /\ \A k \in Asks : ~Begun(k) \/ AtWork(k) => AnswersTo(k) = {}
  /\ AnswersKept

\* How many messages each session has.
Size == [s \in ChatSessions |-> Cardinality(MessagesOf(s))]

Counting ==
  /\ CountTruthful
  /\ \A k \in Asks : AtWork(k) =>
       LET s == asks[k].session
       IN  /\ asks[k].count <= Size[s]
           /\ s \notin overlapped =>
                /\ asks[k].count = messageCount[s]
                /\ \A j \in Asks : AtWork(j) /\ asks[j].session = s => j = k

ChatInv == Types /\ Told /\ Kept /\ Counting

-----------------------------------------------------------------------------
(***************************************************************************)
(* What becomes of one ask.                                                *)
(***************************************************************************)
LEMMA TellIsSound ==
  ASSUME NEW a \in AskRow, NEW d, Sound(a, d), a.job # "ended",
         Len(a.events) >= 1
  PROVE  /\ Tell(a, <<"token">>) \in AskRow
         /\ Tell(a, <<"token">>).events = Append(a.events, "token")
         /\ InOrder(Tell(a, <<"token">>), d)
<1> DEFINE b == Tell(a, <<"token">>)
           e == a.events
<1>1. e \in Seq({"citations", "token", "done", "error"})
  BY DEF AskRow
<1>2. /\ e \o <<"token">> = Append(e, "token")
      /\ Append(e, "token") \in Seq({"citations", "token", "done", "error"})
  BY <1>1
<1>3. b = [a EXCEPT !.events = Append(e, "token")]
  BY <1>2 DEF Tell
<1>4. b \in AskRow /\ b.events = Append(e, "token") /\ b.job = a.job
  BY <1>2, <1>3 DEF AskRow
<1>5. InOrder(b, d)
  <2>1. \A i \in DOMAIN e :
          /\ e[i] = "citations" <=> (i = 1 /\ e[i] # "error")
          /\ e[i] \notin {"done", "error"}
    BY DEF Sound, InOrder
  <2>2. /\ DOMAIN Append(e, "token") = 1 .. Len(e) + 1
        /\ Append(e, "token")[Len(e) + 1] = "token"
        /\ \A i \in 1 .. Len(e) : Append(e, "token")[i] = e[i]
        /\ DOMAIN e = 1 .. Len(e) /\ Len(e) \in Nat
    BY <1>1
  <2>3. ASSUME NEW i \in DOMAIN b.events
        PROVE  /\ b.events[i] = "citations" <=> (i = 1 /\ b.events[i] # "error")
               /\ b.events[i] \notin {"done", "error"}
    <3>1. CASE i \in 1 .. Len(e)
      BY <1>4, <2>1, <2>2, <3>1
    <3>2. CASE i = Len(e) + 1
      BY <1>4, <2>2, <3>2
    <3> QED BY <1>4, <2>2, <2>3, <3>1, <3>2
  <2> QED BY <1>4, <2>3 DEF InOrder
<1> QED BY <1>4, <1>5

\* The end of an ask that is told so.
LEMMA EndIsSound ==
  ASSUME NEW a \in AskRow, NEW d, Sound(a, d), a.job # "ended",
         NEW event \in {"done", "error"}, event = "done" /\ d.providers > 1 => Len(a.events) >= 2,
         event = "done" => Len(a.events) >= 1
  PROVE  /\ End(a, event) \in AskRow /\ Sound(End(a, event), d)
         /\ End(a, event).job = "ended" /\ LastEvent(End(a, event)) = event
         /\ End(a, event).session = a.session /\ End(a, event).count = a.count
         /\ End(a, event).parts = a.parts /\ End(a, event).cites = a.cites
         /\ End(a, event).tries = a.tries
<1> DEFINE b == End(a, event)
           e == a.events
<1>1. e \in Seq({"citations", "token", "done", "error"})
  BY DEF AskRow
<1>2. /\ e \o <<event>> = Append(e, event)
      /\ Append(e, event) \in Seq({"citations", "token", "done", "error"})
  BY <1>1
<1>3. b = [[a EXCEPT !.events = Append(e, event)] EXCEPT !.job = "ended"]
  BY <1>2 DEF End, Tell
<1>4. /\ b \in AskRow /\ b.events = Append(e, event) /\ b.job = "ended"
      /\ b.session = a.session /\ b.count = a.count /\ b.parts = a.parts
      /\ b.cites = a.cites /\ b.vector = a.vector /\ b.tries = a.tries
  BY <1>2, <1>3 DEF AskRow
<1>5. /\ DOMAIN Append(e, event) = 1 .. Len(e) + 1
      /\ Append(e, event)[Len(e) + 1] = event /\ Len(Append(e, event)) = Len(e) + 1
      /\ \A i \in 1 .. Len(e) : Append(e, event)[i] = e[i]
      /\ DOMAIN e = 1 .. Len(e) /\ Len(e) \in Nat
  BY <1>1
<1>6. LastEvent(b) = event
  <2>1. b.events # <<>>
    BY <1>4, <1>5
  <2>2. b.events[Len(b.events)] = event
    BY <1>4, <1>5
  <2> QED BY <2>1, <2>2 DEF LastEvent
<1>7. InOrder(b, d)
  <2>1. \A i \in DOMAIN e :
          /\ e[i] = "citations" <=> (i = 1 /\ e[i] # "error")
          /\ e[i] \notin {"done", "error"}
    BY DEF Sound, InOrder
  <2>2. ASSUME NEW i \in DOMAIN b.events
        PROVE  /\ b.events[i] = "citations" <=> (i = 1 /\ b.events[i] # "error")
               /\ b.events[i] \in {"done", "error"} => (i = Len(b.events) /\ b.job = "ended")
               /\ b.events[i] = "done" /\ d.providers > 1 => i > 2
    <3>1. CASE i \in 1 .. Len(e)
      BY <1>4, <1>5, <2>1, <3>1
    <3>2. CASE i = Len(e) + 1
      BY <1>4, <1>5, <3>2
    <3> QED BY <1>4, <1>5, <2>2, <3>1, <3>2
  <2> QED BY <1>6, <2>2 DEF InOrder
<1>8. Sound(b, d)
  BY <1>4, <1>7 DEF Sound, OneVoice
<1> QED BY <1>4, <1>6, <1>8

\* Another token, by the provider that said the first.
LEMMA SaidIsSound ==
  ASSUME NEW a \in AskRow, NEW d, Sound(a, d), a.job \in {"stream", "speak"}
  PROVE  /\ Said(a) \in AskRow /\ Sound(Said(a), d)
         /\ Said(a).job = "speak" /\ Said(a).session = a.session /\ Said(a).count = a.count
<1> DEFINE t == Tell(a, <<"token">>)
           b == Said(a)
<1>1. /\ t \in AskRow /\ t.events = Append(a.events, "token") /\ InOrder(t, d)
      /\ t.parts = a.parts /\ t.provider = a.provider /\ t.session = a.session
      /\ t.count = a.count /\ t.cites = a.cites /\ t.vector = a.vector /\ t.job = a.job
  <2>1. a.job # "ended" /\ Len(a.events) >= 1
    BY DEF Sound, AskRow
  <2>2. t \in AskRow /\ t.events = Append(a.events, "token") /\ InOrder(t, d)
    BY <2>1, TellIsSound
  <2>3. t = [a EXCEPT !.events = a.events \o <<"token">>]
    BY DEF Tell
  <2> HIDE DEF t
  <2>4. /\ t.parts = a.parts /\ t.provider = a.provider /\ t.session = a.session
        /\ t.count = a.count /\ t.cites = a.cites /\ t.vector = a.vector /\ t.job = a.job
    BY <2>3 DEF AskRow
  <2> QED BY <2>2, <2>4
<1>2. b = [t EXCEPT !.parts = Append(a.parts, a.provider), !.job = "speak"]
  BY <1>1 DEF Said
<1>3. Append(a.parts, a.provider) \in Seq(Nat) /\ a.provider \in Nat /\ a.parts \in Seq(Nat)
  BY DEF AskRow
<1> HIDE DEF t
<1>4. /\ b \in AskRow /\ b.events = t.events /\ b.parts = Append(a.parts, a.provider)
      /\ b.job = "speak" /\ b.provider = a.provider /\ b.session = a.session
      /\ b.count = a.count /\ b.cites = a.cites /\ b.vector = a.vector
  BY <1>1, <1>2, <1>3 DEF AskRow
<1>5. \A m \in DOMAIN b.parts : b.parts[m] = b.provider
  <2>1. \A m \in DOMAIN a.parts : a.parts[m] = a.provider
    BY DEF Sound
  <2>2. /\ DOMAIN b.parts = 1 .. Len(a.parts) + 1 /\ DOMAIN a.parts = 1 .. Len(a.parts)
        /\ b.parts[Len(a.parts) + 1] = a.provider /\ Len(a.parts) \in Nat
        /\ \A m \in 1 .. Len(a.parts) : b.parts[m] = a.parts[m]
    BY <1>3, <1>4
  <2>3. ASSUME NEW m \in DOMAIN b.parts  PROVE b.parts[m] = a.provider
    <3>1. m \in 1 .. Len(a.parts) \/ m = Len(a.parts) + 1
      BY <2>2
    <3> QED BY <2>1, <2>2, <3>1
  <2> QED BY <1>4, <2>3
<1>6. InOrder(b, d) /\ Len(b.events) >= 2
  <2>1. a.events \in Seq({"citations", "token", "done", "error"}) /\ Len(a.events) >= 1
    BY DEF AskRow, Sound
  <2>2. Len(b.events) >= 2
    BY <1>1, <1>4, <2>1
  <2>3. \A i \in DOMAIN t.events : t.events[i] \notin {"done", "error"}
    BY <1>1 DEF InOrder
  <2> QED BY <1>1, <1>4, <2>2, <2>3 DEF InOrder
<1>7. OneVoice(b)
  BY <1>5 DEF OneVoice
<1>8. b.cites # {} /\ \A x \in b.cites : d.indexedWith[x] = b.vector
  BY <1>4 DEF Sound
<1> QED BY <1>4, <1>5, <1>6, <1>7, <1>8 DEF Sound

-----------------------------------------------------------------------------
(***************************************************************************)
(* What becomes of the tables.                                             *)
(***************************************************************************)
LEMMA AppendedMessage ==
  ASSUME messages \in Seq(MessageRow), NEW m \in MessageRow, messages' = Append(messages, m)
  PROVE  /\ messages' \in Seq(MessageRow)
         /\ Len(messages) + 1 \notin DOMAIN messages
         /\ DOMAIN messages' = DOMAIN messages \cup {Len(messages) + 1}
         /\ messages'[Len(messages) + 1] = m
         /\ \A i \in DOMAIN messages : messages'[i] = messages[i]
BY SMT

LEMMA MessagesAreFinite ==
  ASSUME messages \in Seq(MessageRow), NEW s
  PROVE  IsFiniteSet(MessagesOf(s)) /\ Cardinality(MessagesOf(s)) \in Nat
<1>1. MessagesOf(s) \subseteq 1 .. Len(messages) /\ Len(messages) \in Nat
  BY DEF MessagesOf
<1>2. IsFiniteSet(1 .. Len(messages))
  BY <1>1, FS_Interval
<1> QED BY <1>1, <1>2, FS_Subset, FS_CardinalityType

LEMMA SizeCounts ==
  \A s \in ChatSessions : /\ Size[s] = Cardinality(MessagesOf(s))
                          /\ Size'[s] = Cardinality(MessagesOf(s)')
BY DEF Size

LEMMA CountedMessage ==
  ASSUME messages \in Seq(MessageRow), NEW m \in MessageRow, messages' = Append(messages, m)
  PROVE  \A s \in ChatSessions :
           Size[s] \in Nat /\ Size'[s] = Size[s] + (IF s = m.session THEN 1 ELSE 0)
<1>1. ASSUME NEW s \in ChatSessions
      PROVE  Size[s] \in Nat /\ Size'[s] = Size[s] + (IF s = m.session THEN 1 ELSE 0)
  <2>1. /\ IsFiniteSet(MessagesOf(s)) /\ Cardinality(MessagesOf(s)) \in Nat
        /\ Len(messages) + 1 \notin MessagesOf(s)
    BY AppendedMessage, MessagesAreFinite DEF MessagesOf
  <2>2. CASE s = m.session
    <3>1. MessagesOf(s)' = MessagesOf(s) \cup {Len(messages) + 1}
      BY AppendedMessage, <2>2 DEF MessagesOf
    <3> QED BY <2>1, <2>2, <3>1, FS_AddElement, SizeCounts
  <2>3. CASE s # m.session
    <3>1. MessagesOf(s)' = MessagesOf(s)
      BY AppendedMessage, <2>3 DEF MessagesOf
    <3> QED BY <2>1, <2>3, <3>1, SizeCounts
  <2> QED BY <2>2, <2>3
<1> QED BY <1>1

-----------------------------------------------------------------------------
(***************************************************************************)
(* The three kinds of steps: an ask goes on, it leaves an answer and ends, *)
(* or it begins.                                                           *)
(***************************************************************************)
GoesOn(k, b) ==
  /\ AtWork(k) /\ asks' = [asks EXCEPT ![k] = b]
  /\ b \in AskRow /\ Sound(b, deployment)
  /\ b.session = asks[k].session /\ b.count = asks[k].count
  /\ messages' = messages /\ messageCount' = messageCount /\ deployment' = deployment
  /\ overlapped' = overlapped /\ faults' \in Nat /\ spent' \in Nat
  /\ faults <= faults'
  /\ b.job = "ended" =>
       LastEvent(b) # "done" /\ (LastEvent(b) = "error" /\ b.parts # <<>> => faults' # 0)

Answers(k, b) ==
  /\ AtWork(k) /\ asks' = [asks EXCEPT ![k] = b]
  /\ b \in AskRow /\ Sound(b, deployment)
  /\ b.session = asks[k].session
  /\ \E m \in MessageRow :
       /\ messages' = Append(messages, m)
       /\ m.session = b.session /\ m.ask = k /\ m.role = "ASSISTANT" /\ m.parts = b.parts
       /\ LastEvent(b) = "done" => m.cites = b.cites
  /\ messageCount' = [messageCount EXCEPT ![b.session] = asks[k].count + 1]
  /\ deployment' = deployment /\ overlapped' = overlapped /\ faults' = faults /\ spent' = spent
  /\ b.job = "ended" /\ LastEvent(b) \in {"done", "error"}

LEMMA AskRowIsBegun == \A b \in AskRow : b # None
BY NoneAssumption

\* An ask at work has told neither done nor error, so it owes no answer.
LEMMA AtWorkOwesNothing ==
  ASSUME NEW a \in AskRow, NEW d, Sound(a, d), a.job # "ended"
  PROVE  LastEvent(a) \notin {"done", "error"}
<1>1. CASE a.events = <<>>
  BY <1>1, NoneAssumption DEF LastEvent
<1>2. CASE a.events # <<>>
  <2>1. Len(a.events) \in DOMAIN a.events
    BY <1>2 DEF AskRow
  <2> QED BY <1>2, <2>1 DEF LastEvent, Sound, InOrder
<1> QED BY <1>1, <1>2

\* What AnswersKept says of one ask.
Owed(k) ==
  /\ Cardinality(AnswersTo(k)) <= 1
  /\ AnswersTo(k) # {} => LastEvent(asks[k]) \in {"done", "error"}
  /\ LastEvent(asks[k]) = "done" =>
       \E i \in AnswersTo(k) : messages[i].parts = asks[k].parts
                              /\ messages[i].cites = asks[k].cites
  /\ LastEvent(asks[k]) = "error" /\ asks[k].parts # <<>> /\ faults = 0 =>
       \E i \in AnswersTo(k) : messages[i].parts = asks[k].parts

LEMMA NoAnswerNothingOwed ==
  ASSUME NEW k \in Asks, AnswersTo(k) = {}, LastEvent(asks[k]) # "done",
         LastEvent(asks[k]) = "error" /\ asks[k].parts # <<>> => faults # 0
  PROVE  Owed(k)
BY FS_EmptySet DEF Owed

LEMMA GoingOnKeeps ==
  ASSUME ChatInv, NEW k \in Asks, NEW b, GoesOn(k, b)
  PROVE  ChatInv'
<1>1. /\ asks' = [asks EXCEPT ![k] = b] /\ b \in AskRow /\ asks \in [Asks -> AskRow \cup {None}]
      /\ b # None /\ AtWork(k)
      /\ messages' = messages /\ messageCount' = messageCount /\ deployment' = deployment
      /\ overlapped' = overlapped
  BY AskRowIsBegun DEF GoesOn, ChatInv, Types
<1>2. \A j \in Asks : asks'[j] = IF j = k THEN b ELSE asks[j]
  BY <1>1
<1>3. Types'
  BY <1>1 DEF GoesOn, ChatInv, Types
<1>4. Told'
  BY <1>1, <1>2 DEF GoesOn, ChatInv, Told, Begun
<1>5. Kept'
  <2>1. \A j \in Asks : AnswersTo(j)' = AnswersTo(j)
    BY <1>1 DEF AnswersTo
  <2>2. AnswersTo(k) = {}
    BY <1>1 DEF ChatInv, Kept
  <2>3. \A j \in Asks : (~Begun(j) \/ AtWork(j))' => AnswersTo(j)' = {}
    BY <1>2, <2>1, <2>2 DEF ChatInv, Kept, Begun, AtWork
  <2>4. ASSUME NEW j \in Asks, Begun(j)'  PROVE Owed(j)'
    <3>1. CASE j = k
      <4>1. asks'[k] = b /\ AnswersTo(k)' = {}
        BY <1>2, <2>1, <2>2
      <4>2. LastEvent(b) # "done" /\ (LastEvent(b) = "error" /\ b.parts # <<>> => faults' # 0)
        <5>1. CASE b.job = "ended"
          BY <5>1 DEF GoesOn
        <5>2. CASE b.job # "ended"
          BY <1>1, <5>2, AtWorkOwesNothing DEF GoesOn
        <5> QED BY <5>1, <5>2
      <4> QED BY <3>1, <4>1, <4>2, FS_EmptySet DEF Owed
    <3>2. CASE j # k
      <4>1. asks'[j] = asks[j] /\ Begun(j)
        BY <1>2, <2>4, <3>2 DEF Begun
      <4>2. Owed(j)
        BY <4>1 DEF ChatInv, Kept, AnswersKept, Owed
      <4>3. faults' = 0 => faults = 0
        BY DEF GoesOn, ChatInv, Types
      <4> QED BY <1>1, <2>1, <4>1, <4>2, <4>3 DEF Owed
    <3> QED BY <3>1, <3>2
  <2>5. \A i \in DOMAIN messages' : \A m, n \in DOMAIN messages'[i].parts :
          messages'[i].parts[m] = messages'[i].parts[n]
    BY <1>1 DEF ChatInv, Kept, AnswersKept
  <2> QED BY <2>3, <2>4, <2>5 DEF Kept, AnswersKept, Owed
<1>6. Counting'
  <2>1. Size' = Size
    BY <1>1 DEF Size, MessagesOf
  <2>2. CountTruthful'
    BY <1>1 DEF ChatInv, Counting, CountTruthful, MessagesOf
  <2>3. \A j \in Asks : AtWork(j)' =>
          /\ AtWork(j) /\ asks'[j].session = asks[j].session /\ asks'[j].count = asks[j].count
    BY <1>1, <1>2 DEF GoesOn, AtWork, Begun
  <2>4. ASSUME NEW j \in Asks, AtWork(j)'
        PROVE  /\ asks'[j].count <= Size[asks[j].session]
               /\ asks[j].session \notin overlapped =>
                    /\ asks'[j].count = messageCount[asks[j].session]
                    /\ \A h \in Asks : AtWork(h)' /\ asks'[h].session = asks[j].session => h = j
    BY <2>3, <2>4 DEF ChatInv, Counting
  <2> QED BY <1>1, <2>1, <2>2, <2>3, <2>4 DEF Counting
<1> QED BY <1>3, <1>4, <1>5, <1>6 DEF ChatInv

LEMMA AnsweringKeeps ==
  ASSUME ChatInv, NEW k \in Asks, NEW b, Answers(k, b)
  PROVE  ChatInv'
<1>1. /\ asks' = [asks EXCEPT ![k] = b] /\ b \in AskRow /\ asks \in [Asks -> AskRow \cup {None}]
      /\ b # None /\ AtWork(k) /\ b.job = "ended" /\ messages \in Seq(MessageRow)
      /\ b.session = asks[k].session
      /\ deployment' = deployment /\ overlapped' = overlapped /\ faults' = faults
  BY AskRowIsBegun DEF Answers, ChatInv, Types
<1>2. PICK m \in MessageRow :
        /\ messages' = Append(messages, m)
        /\ m.session = b.session /\ m.ask = k /\ m.role = "ASSISTANT" /\ m.parts = b.parts
        /\ LastEvent(b) = "done" => m.cites = b.cites
  BY DEF Answers
<1>3. /\ messages' \in Seq(MessageRow)
      /\ Len(messages) + 1 \notin DOMAIN messages
      /\ DOMAIN messages' = DOMAIN messages \cup {Len(messages) + 1}
      /\ messages'[Len(messages) + 1] = m
      /\ \A i \in DOMAIN messages : messages'[i] = messages[i]
  BY <1>1, <1>2, AppendedMessage
<1>4. \A j \in Asks : asks'[j] = IF j = k THEN b ELSE asks[j]
  BY <1>1
<1>5. b.session \in ChatSessions
  BY <1>1 DEF AskRow
<1>6. Types'
  <2>1. messageCount' \in [ChatSessions -> Nat]
    BY <1>1 DEF Answers, ChatInv, Types, AtWork, Begun, AskRow
  <2> QED BY <1>1, <1>3, <2>1 DEF Answers, ChatInv, Types
<1>7. Told'
  BY <1>1, <1>4 DEF Answers, ChatInv, Told, Begun
<1>8. Kept'
  <2>1. AnswersTo(k) = {}
    BY <1>1 DEF ChatInv, Kept
  <2>2. AnswersTo(k)' = {Len(messages) + 1}
    BY <1>2, <1>3, <2>1 DEF AnswersTo
  <2>3. \A j \in Asks \ {k} : AnswersTo(j)' = AnswersTo(j)
    BY <1>2, <1>3 DEF AnswersTo
  <2>4. \A j \in Asks : (~Begun(j) \/ AtWork(j))' => AnswersTo(j)' = {}
    BY <1>1, <1>4, <2>3 DEF ChatInv, Kept, Begun, AtWork
  <2>5. ASSUME NEW j \in Asks, Begun(j)'  PROVE Owed(j)'
    <3>1. CASE j = k
      <4>1. Cardinality(AnswersTo(k)') = 1
        BY <2>2, FS_Singleton
      <4>2. asks'[k] = b /\ LastEvent(b) \in {"done", "error"}
        BY <1>4 DEF Answers
      <4>3. Cardinality(AnswersTo(k)') <= 1 /\ AnswersTo(k)' # {}
        BY <2>2, <4>1
      <4>4. \E i \in AnswersTo(k)' : /\ messages'[i].parts = asks'[k].parts
                                     /\ LastEvent(b) = "done" => messages'[i].cites = asks'[k].cites
        BY <1>2, <1>3, <2>2, <4>2
      <4> QED BY <3>1, <4>2, <4>3, <4>4 DEF Owed
    <3>2. CASE j # k
      <4>1. asks'[j] = asks[j] /\ Begun(j)
        BY <1>4, <2>5, <3>2 DEF Begun
      <4>2. Owed(j)
        BY <4>1 DEF ChatInv, Kept, AnswersKept, Owed
      <4>3. AnswersTo(j)' = AnswersTo(j) /\ \A i \in AnswersTo(j) : messages'[i] = messages[i]
        BY <1>3, <2>3, <3>2 DEF AnswersTo
      <4> QED BY <1>1, <4>1, <4>2, <4>3 DEF Owed
    <3> QED BY <3>1, <3>2
  <2>6. ASSUME NEW i \in DOMAIN messages'  PROVE OneVoice(messages'[i])
    <3>1. CASE i = Len(messages) + 1
      <4>1. OneVoice(b)
        BY DEF Answers, Sound
      <4> QED BY <1>2, <1>3, <3>1, <4>1 DEF OneVoice
    <3>2. CASE i \in DOMAIN messages
      BY <1>3, <3>2 DEF ChatInv, Kept, AnswersKept, OneVoice
    <3> QED BY <1>3, <2>6, <3>1, <3>2
  <2> QED BY <2>4, <2>5, <2>6 DEF Kept, AnswersKept, Owed, OneVoice
<1>9. Counting'
  <2> DEFINE v == b.session
  <2>1. \A s \in ChatSessions : /\ Size[s] \in Nat
                                /\ Size'[s] = Size[s] + (IF s = v THEN 1 ELSE 0)
    BY <1>1, <1>2, CountedMessage
  <2>2. \A s \in ChatSessions : /\ messageCount[s] \in Nat
                                /\ messageCount'[s] = IF s = v THEN asks[k].count + 1
                                                      ELSE messageCount[s]
    BY <1>5 DEF Answers, ChatInv, Types
  <2>3. /\ asks[k].count \in Nat /\ asks[k].count <= Size[v]
        /\ v \notin overlapped =>
             /\ asks[k].count = messageCount[v]
             /\ \A j \in Asks : AtWork(j) /\ asks[j].session = v => j = k
    BY <1>1 DEF ChatInv, Counting, Types, AtWork, Begun, AskRow
  <2>4. CountTruthful'
    <3>1. ASSUME NEW s \in ChatSessions
          PROVE  /\ messageCount'[s] <= Size'[s]
                 /\ s \notin overlapped => messageCount'[s] = Size'[s]
      <4>1. /\ messageCount[s] <= Size[s]
            /\ s \notin overlapped => messageCount[s] = Size[s]
        BY SizeCounts DEF ChatInv, Counting, CountTruthful
      <4>2. CASE s = v
        BY <2>1, <2>2, <2>3, <4>1, <4>2
      <4>3. CASE s # v
        BY <2>1, <2>2, <4>1, <4>3
      <4> QED BY <4>2, <4>3
    <3> QED BY <1>1, <3>1, SizeCounts DEF CountTruthful
  <2>5. \A j \in Asks : AtWork(j)' => AtWork(j) /\ j # k /\ asks'[j] = asks[j]
    BY <1>1, <1>4 DEF AtWork, Begun
  <2>6. ASSUME NEW j \in Asks, AtWork(j)'
        PROVE  /\ asks[j].count <= Size'[asks[j].session]
               /\ asks[j].session \notin overlapped =>
                    /\ asks[j].count = messageCount'[asks[j].session]
                    /\ \A h \in Asks : AtWork(h)' /\ asks'[h].session = asks[j].session => h = j
    <3>1. /\ AtWork(j) /\ j # k /\ asks[j].session \in ChatSessions /\ asks[j].count \in Nat
          /\ asks[j].count <= Size[asks[j].session]
          /\ asks[j].session \notin overlapped =>
               /\ asks[j].count = messageCount[asks[j].session]
               /\ \A h \in Asks : AtWork(h) /\ asks[h].session = asks[j].session => h = j
      BY <2>5, <2>6 DEF ChatInv, Counting, Types, AtWork, Begun, AskRow
    <3>2. asks[j].session \notin overlapped => asks[j].session # v
      BY <2>3, <3>1
    <3>3. asks[j].count <= Size'[asks[j].session]
      BY <2>1, <3>1
    <3> QED BY <2>2, <2>5, <3>1, <3>2, <3>3
  <2> QED BY <1>1, <2>4, <2>5, <2>6 DEF Counting
<1> QED BY <1>6, <1>7, <1>8, <1>9 DEF ChatInv

\* An ask that begins is alone in its session, or the session is overlapped from then on.
LEMMA AskingKeeps ==
  ASSUME ChatInv, NEW k \in Asks, NEW s \in ChatSessions, Ask(k, s)
  PROVE  ChatInv'
<1> DEFINE a == NewAsk(s)
           b == Counted(a)
           m == [session |-> a.session, ask |-> k, role |-> "USER", parts |-> a.parts, cites |-> {}]
<1>1. /\ a \in AskRow /\ a.session = s /\ a.parts = <<>> /\ a.cites = {} /\ a.events = <<>>
      /\ a.job \in {"rewrite", "embed"} /\ a.count = messageCount[s]
  BY DEF NewAsk, AskRow, ChatInv, Types
<1>2. /\ b \in AskRow /\ b.session = s /\ b.parts = <<>> /\ b.cites = {} /\ b.events = <<>>
      /\ b.job \in {"rewrite", "embed"} /\ b.count = messageCount[s] + 1
  BY <1>1 DEF Counted, AskRow
<1>3. m \in MessageRow /\ m.session = s /\ m.parts = <<>> /\ m.role = "USER"
  BY <1>1 DEF MessageRow
<1>4. /\ ~Begun(k) /\ messages' = Append(messages, m) /\ asks' = [asks EXCEPT ![k] = b]
      /\ messageCount' = [messageCount EXCEPT ![s] = messageCount[s] + 1]
      /\ overlapped' = IF \E j \in Asks : AtWork(j) /\ asks[j].session = s
                       THEN overlapped \cup {s} ELSE overlapped
      /\ deployment' = deployment /\ spent' = spent /\ faults' = faults
  BY <1>1, <1>2 DEF Ask, Save, Becomes
<1> HIDE DEF a, b, m
<1>5. /\ messages \in Seq(MessageRow) /\ messages' \in Seq(MessageRow)
      /\ Len(messages) + 1 \notin DOMAIN messages
      /\ DOMAIN messages' = DOMAIN messages \cup {Len(messages) + 1}
      /\ messages'[Len(messages) + 1] = m
      /\ \A i \in DOMAIN messages : messages'[i] = messages[i]
  BY <1>3, <1>4, AppendedMessage DEF ChatInv, Types
<1>6. \A j \in Asks : asks'[j] = IF j = k THEN b ELSE asks[j]
  BY <1>4 DEF ChatInv, Types
<1>7. Types'
  BY <1>2, <1>4, <1>5 DEF ChatInv, Types
<1>8. Told'
  <2>1. Sound(b, deployment)
    BY <1>2 DEF Sound, InOrder, OneVoice
  <2> QED BY <1>4, <1>6, <2>1 DEF ChatInv, Told, Begun
<1>9. Kept'
  <2>1. \A j \in Asks : /\ AnswersTo(j)' = AnswersTo(j)
                        /\ \A i \in AnswersTo(j) : messages'[i] = messages[i]
    BY <1>3, <1>5 DEF AnswersTo
  <2>2. \A j \in Asks : (~Begun(j) \/ AtWork(j))' => AnswersTo(j)' = {}
    BY <1>4, <1>6, <2>1 DEF ChatInv, Kept, Begun, AtWork
  <2>3. ASSUME NEW j \in Asks, Begun(j)'  PROVE Owed(j)'
    <3>1. CASE j = k
      <4>1. AnswersTo(k)' = {} /\ asks'[k] = b
        BY <1>4, <1>6, <2>1 DEF ChatInv, Kept
      <4>2. LastEvent(b) \notin {"done", "error"}
        BY <1>2, NoneAssumption DEF LastEvent
      <4> QED BY <3>1, <4>1, <4>2, FS_EmptySet DEF Owed
    <3>2. CASE j # k
      <4>1. asks'[j] = asks[j] /\ Begun(j)
        BY <1>6, <2>3, <3>2 DEF Begun
      <4>2. Owed(j)
        BY <4>1 DEF ChatInv, Kept, AnswersKept, Owed
      <4> QED BY <1>4, <2>1, <4>1, <4>2 DEF Owed
    <3> QED BY <3>1, <3>2
  <2>4. ASSUME NEW i \in DOMAIN messages'  PROVE OneVoice(messages'[i])
    <3>1. CASE i = Len(messages) + 1
      BY <1>3, <1>5, <3>1 DEF OneVoice
    <3>2. CASE i \in DOMAIN messages
      BY <1>5, <3>2 DEF ChatInv, Kept, AnswersKept, OneVoice
    <3> QED BY <1>5, <2>4, <3>1, <3>2
  <2> QED BY <2>2, <2>3, <2>4 DEF Kept, AnswersKept, Owed, OneVoice
<1>10. Counting'
  <2>1. \A r \in ChatSessions : /\ Size[r] \in Nat
                                /\ Size'[r] = Size[r] + (IF r = s THEN 1 ELSE 0)
    BY <1>3, <1>4, <1>5, CountedMessage
  <2>2. \A r \in ChatSessions : /\ messageCount[r] \in Nat
                                /\ messageCount'[r] = IF r = s THEN messageCount[s] + 1
                                                      ELSE messageCount[r]
    BY <1>4 DEF ChatInv, Types
  <2>3. overlapped \subseteq overlapped'
    BY <1>4
  <2>4. CountTruthful'
    <3>1. ASSUME NEW r \in ChatSessions
          PROVE  /\ messageCount'[r] <= Size'[r]
                 /\ r \notin overlapped' => messageCount'[r] = Size'[r]
      <4>1. /\ messageCount[r] <= Size[r]
            /\ r \notin overlapped => messageCount[r] = Size[r]
        BY SizeCounts DEF ChatInv, Counting, CountTruthful
      <4> QED BY <2>1, <2>2, <2>3, <4>1
    <3> QED BY <3>1, SizeCounts DEF CountTruthful
  <2>5. \A j \in Asks : AtWork(j)' => j = k \/ (AtWork(j) /\ asks'[j] = asks[j])
    BY <1>6 DEF AtWork, Begun
  <2>6. s \notin overlapped' => \A j \in Asks : AtWork(j) => asks[j].session # s
    BY <1>4
  <2>7. ASSUME NEW j \in Asks, AtWork(j)'
        PROVE  /\ asks'[j].count <= Size'[asks'[j].session]
               /\ asks'[j].session \notin overlapped' =>
                    /\ asks'[j].count = messageCount'[asks'[j].session]
                    /\ \A h \in Asks : AtWork(h)' /\ asks'[h].session = asks'[j].session => h = j
    <3>1. CASE j = k
      <4>1. asks'[j] = b
        BY <1>6, <3>1
      <4>2. messageCount[s] <= Size[s]
        BY SizeCounts DEF ChatInv, Counting, CountTruthful
      <4>3. b.count <= Size'[s]
        BY <1>2, <2>1, <2>2, <4>2
      <4> QED BY <1>2, <2>2, <2>5, <2>6, <3>1, <4>1, <4>3
    <3>2. CASE j # k
      <4>1. AtWork(j) /\ asks'[j] = asks[j]
        BY <2>5, <2>7, <3>2
      <4>2. /\ asks[j].session \in ChatSessions /\ asks[j].count \in Nat
            /\ asks[j].count <= Size[asks[j].session]
            /\ asks[j].session \notin overlapped =>
                 /\ asks[j].count = messageCount[asks[j].session]
                 /\ \A h \in Asks : AtWork(h) /\ asks[h].session = asks[j].session => h = j
        BY <4>1 DEF ChatInv, Counting, Types, AtWork, Begun, AskRow
      <4>3. asks[j].count <= Size'[asks[j].session]
        BY <2>1, <4>2
      <4>4. asks[j].session \notin overlapped' => asks[j].session # s
        BY <2>6, <4>1
      <4>5. asks'[k].session = s
        BY <1>2, <1>6
      <4> QED BY <2>2, <2>3, <2>5, <4>1, <4>2, <4>3, <4>4, <4>5
    <3> QED BY <3>1, <3>2
  <2> QED BY <2>4, <2>7 DEF Counting
<1> QED BY <1>7, <1>8, <1>9, <1>10 DEF ChatInv

-----------------------------------------------------------------------------
(***************************************************************************)
(* Each step is of one of these kinds.                                     *)
(***************************************************************************)
LEMMA WhoIsAtWork ==
  ASSUME ChatInv, NEW k \in Asks, AtWork(k)
  PROVE  /\ asks[k] \in AskRow /\ Sound(asks[k], deployment)
         /\ asks[k].job # "ended" /\ spent \in Nat /\ faults \in Nat
         /\ asks \in [Asks -> AskRow \cup {None}]
BY DEF ChatInv, Types, Told, AtWork, Begun

\* Calls change what the providers do, and nothing that is told.
LEMMA CallingGoesOn ==
  ASSUME ChatInv, NEW k \in Asks, Send(k) \/ Retry(k) \/ FailOver(k)
  PROVE  \E b : GoesOn(k, b)
<1> DEFINE a == asks[k]
<1>1. AtWork(k) /\ a.job \in Calling
  BY DEF Send, Retry, FailOver, Pending, Waiting
<1>2. /\ a \in AskRow /\ Sound(a, deployment) /\ a.job # "ended" /\ faults \in Nat
      /\ spent \in Nat
  BY <1>1, WhoIsAtWork
<1>3. PICK provider \in Nat, tries \in Nat :
        asks' = [asks EXCEPT ![k] = [a EXCEPT !.provider = provider, !.tries = tries]]
  <2>1. a.provider \in Nat /\ a.tries \in Nat
    BY <1>2 DEF AskRow
  <2>2. CASE Send(k)
    <3>1. [a EXCEPT !.tries = 1] = [a EXCEPT !.provider = a.provider, !.tries = 1]
      BY <1>2 DEF AskRow
    <3> QED BY <2>1, <2>2, <3>1 DEF Send, Becomes
  <2>3. CASE Retry(k)
    <3>1. [a EXCEPT !.tries = a.tries + 1]
            = [a EXCEPT !.provider = a.provider, !.tries = a.tries + 1]
      BY <1>2 DEF AskRow
    <3>2. asks' = [asks EXCEPT ![k] = [a EXCEPT !.tries = a.tries + 1]]
      BY <2>3 DEF Retry, Becomes
    <3>3. a.tries + 1 \in Nat
      BY <2>1
    <3> QED BY <2>1, <3>1, <3>2, <3>3
  <2>4. CASE FailOver(k)
    <3>1. asks' = [asks EXCEPT ![k] = [a EXCEPT !.provider = a.provider + 1, !.tries = 0]]
      BY <2>4 DEF FailOver, Becomes
    <3>2. a.provider + 1 \in Nat /\ 0 \in Nat
      BY <2>1
    <3> QED BY <3>1, <3>2
  <2> QED BY <2>2, <2>3, <2>4
<1> DEFINE b == [a EXCEPT !.provider = provider, !.tries = tries]
<1>4. /\ b \in AskRow /\ b.session = a.session /\ b.count = a.count /\ b.job = a.job
      /\ b.events = a.events /\ b.parts = a.parts /\ b.cites = a.cites /\ b.vector = a.vector
  BY <1>2 DEF AskRow
<1> HIDE DEF b
<1>5. Sound(b, deployment)
  BY <1>1, <1>2, <1>4 DEF Sound, InOrder, OneVoice, Calling
<1>6. asks' = [asks EXCEPT ![k] = b]
  BY <1>3 DEF b
<1>7. GoesOn(k, b)
  BY <1>1, <1>2, <1>4, <1>5, <1>6 DEF GoesOn, Send, Retry, FailOver
<1> QED BY <1>7

LEMMA StartIsSound ==
  ASSUME NEW a \in AskRow, NEW d, Sound(a, d), a.job = "rewrite"
  PROVE  /\ Start(a, "embed") \in AskRow /\ Sound(Start(a, "embed"), d)
         /\ Start(a, "embed").session = a.session /\ Start(a, "embed").count = a.count
         /\ Start(a, "embed").job = "embed" /\ Start(a, "embed").tries = 0
<1> DEFINE b == Start(a, "embed")
<1>1. /\ b \in AskRow /\ b.session = a.session /\ b.count = a.count /\ b.job = "embed"
      /\ b.events = a.events /\ b.parts = a.parts /\ b.cites = a.cites /\ b.vector = a.vector
      /\ b.tries = 0
  BY DEF Start, AskRow
<1> HIDE DEF b
<1>2. Sound(b, d)
  BY <1>1 DEF Sound, InOrder, OneVoice
<1> QED BY <1>1, <1>2 DEF b

\* Told an error; it has said nothing, or the database is to blame.
LEMMA FailingGoesOn ==
  ASSUME ChatInv, NEW k \in Asks, AtWork(k), Becomes(k, End(asks[k], "error")),
         messages' = messages, messageCount' = messageCount, deployment' = deployment,
         overlapped' = overlapped, spent' = spent, faults' \in Nat, faults <= faults',
         asks[k].parts = <<>> \/ faults' # 0
  PROVE  \E b : GoesOn(k, b)
<1> DEFINE a == asks[k]
           b == End(a, "error")
<1>1. a \in AskRow /\ Sound(a, deployment) /\ a.job # "ended" /\ spent \in Nat
  BY WhoIsAtWork
<1>2. /\ b \in AskRow /\ Sound(b, deployment)
      /\ b.job = "ended" /\ LastEvent(b) = "error"
      /\ b.session = a.session /\ b.count = a.count /\ b.parts = a.parts
  BY <1>1, EndIsSound
<1>3. GoesOn(k, b)
  BY <1>1, <1>2 DEF GoesOn, Becomes
<1> QED BY <1>3

LEMMA GivingUpGoesOn ==
  ASSUME ChatInv, NEW k \in Asks, GiveUp(k) \/ Rewritten(k)
  PROVE  \E b : GoesOn(k, b)
<1> DEFINE a == asks[k]
<1>1. AtWork(k) /\ a.job \in Calling
  BY DEF GiveUp, Rewritten, Pending, Waiting
<1>2. a \in AskRow /\ Sound(a, deployment) /\ spent \in Nat /\ faults \in Nat
  BY <1>1, WhoIsAtWork
<1>3. CASE a.job = "rewrite"
  <2> DEFINE b == Start(a, "embed")
  <2>1. /\ b \in AskRow /\ Sound(b, deployment)
        /\ b.session = a.session /\ b.count = a.count /\ b.job = "embed"
    BY <1>2, <1>3, StartIsSound
  <2>2. /\ asks' = [asks EXCEPT ![k] = b]
        /\ messages' = messages /\ messageCount' = messageCount /\ deployment' = deployment
        /\ overlapped' = overlapped /\ spent' \in Nat /\ faults' = faults
    BY <1>2, <1>3 DEF GiveUp, Rewritten, Becomes
  <2> HIDE DEF b
  <2>3. GoesOn(k, b)
    BY <1>1, <1>2, <2>1, <2>2 DEF GoesOn
  <2> QED BY <2>3
<1>4. CASE a.job # "rewrite"
  <2>1. GiveUp(k) /\ a.parts = <<>>
    BY <1>1, <1>2, <1>4 DEF Rewritten, Calling, Sound
  <2> QED BY <1>1, <1>2, <1>4, <2>1, FailingGoesOn DEF GiveUp
<1> QED BY <1>3, <1>4

\* Only articles of the model that embedded the question are found.
LEMMA RetrievingGoesOn ==
  ASSUME ChatInv, NEW k \in Asks, Retrieved(k)
  PROVE  \E b : GoesOn(k, b) /\ b.tries = 0
<1> DEFINE a == asks[k]
<1>1. AtWork(k) /\ a.job = "embed"
  BY DEF Retrieved, Waiting
<1>2. a \in AskRow /\ Sound(a, deployment) /\ spent \in Nat /\ faults \in Nat
  BY <1>1, WhoIsAtWork
<1>3. a.events = <<>> /\ a.parts = <<>>
  BY <1>1, <1>2 DEF Sound
<1>4. PICK found \in SUBSET {x \in Articles : deployment.indexedWith[x] = ModelName(a)} :
        LET c == [a EXCEPT !.cites = found, !.vector = a.provider]
        IN  Becomes(k, IF found = {} THEN Start(Tell(c, <<"citations", "token">>), "refuse")
                       ELSE Start(Tell(c, <<"citations">>), "stream"))
  BY DEF Retrieved
<1> DEFINE c == [a EXCEPT !.cites = found, !.vector = a.provider]
           told == IF found = {} THEN <<"citations", "token">> ELSE <<"citations">>
           job == IF found = {} THEN "refuse" ELSE "stream"
           b == Start(Tell(c, told), job)
<1>5. asks' = [asks EXCEPT ![k] = b]
  BY <1>4 DEF Becomes
<1>6. /\ c \in AskRow /\ c.events = <<>> /\ c.parts = <<>> /\ c.cites = found
      /\ c.vector = a.provider /\ c.session = a.session /\ c.count = a.count
  BY <1>2, <1>3 DEF AskRow
<1>7. told \in Seq({"citations", "token", "done", "error"}) /\ c.events \o told = told
  <2>1. told \in Seq({"citations", "token", "done", "error"})
    <3>1. <<"citations", "token">> \in Seq({"citations", "token", "done", "error"})
      OBVIOUS
    <3>2. <<"citations">> \in Seq({"citations", "token", "done", "error"})
      OBVIOUS
    <3> QED BY <3>1, <3>2
  <2> HIDE DEF told
  <2> QED BY <1>6, <2>1
<1>8. job \in {"refuse", "stream"} /\ (job = "refuse" <=> found = {})
  OBVIOUS
<1> HIDE DEF c, job
<1>9. /\ b \in AskRow /\ b.events = told /\ b.parts = <<>> /\ b.cites = found
      /\ b.vector = a.provider /\ b.session = a.session /\ b.count = a.count
      /\ b.job = job /\ b.tries = 0
  <2> HIDE DEF told
  <2> QED BY <1>6, <1>7, <1>8 DEF Start, Tell, AskRow
<1> HIDE DEF b
<1>10. Sound(b, deployment)
  <2>1. InOrder(b, deployment)
    BY <1>8, <1>9 DEF InOrder
  <2>2. OneVoice(b)
    BY <1>9 DEF OneVoice
  <2>3. \A x \in b.cites : deployment.indexedWith[x] = b.vector
    BY <1>9 DEF ModelName
  <2>4. Len(told) >= 1 /\ (found = {} => Len(told) >= 2)
    OBVIOUS
  <2> HIDE DEF told
  <2> QED BY <1>8, <1>9, <2>1, <2>2, <2>3, <2>4 DEF Sound
<1>11. GoesOn(k, b)
  BY <1>1, <1>2, <1>5, <1>8, <1>9, <1>10 DEF GoesOn, Retrieved
<1> QED BY <1>9, <1>11

LEMMA SpeakingGoesOn ==
  ASSUME ChatInv, NEW k \in Asks, Token(k)
  PROVE  \E b : GoesOn(k, b) /\ b.job = "speak"
<1> DEFINE a == asks[k]
           b == Said(a)
<1>1. AtWork(k) /\ a.job \in {"stream", "speak"}
  BY DEF Token
<1>2. a \in AskRow /\ Sound(a, deployment) /\ spent \in Nat /\ faults \in Nat
  BY <1>1, WhoIsAtWork
<1>3. /\ b \in AskRow /\ Sound(b, deployment)
      /\ b.job = "speak" /\ b.session = a.session /\ b.count = a.count
  BY <1>1, <1>2, SaidIsSound
<1>4. GoesOn(k, b)
  BY <1>1, <1>2, <1>3 DEF GoesOn, Token, Becomes
<1> QED BY <1>3, <1>4

LEMMA LeavingGoesOn ==
  ASSUME ChatInv, NEW k \in Asks, Leave(k)
  PROVE  \E b : GoesOn(k, b)
<1> DEFINE a == asks[k]
           b == [a EXCEPT !.job = "left"]
<1>1. AtWork(k)
  BY DEF Leave
<1>2. /\ a \in AskRow /\ Sound(a, deployment) /\ a.job # "ended"
      /\ spent \in Nat /\ faults \in Nat
  BY <1>1, WhoIsAtWork
<1>3. /\ b \in AskRow /\ b.job = "left" /\ b.session = a.session /\ b.count = a.count
      /\ b.events = a.events /\ b.parts = a.parts /\ b.cites = a.cites /\ b.vector = a.vector
  BY <1>2 DEF AskRow
<1>4. asks' = [asks EXCEPT ![k] = b]
  BY DEF Leave, Becomes
<1>5. LastEvent(b) \notin {"done", "error"}
  BY <1>2, <1>3, AtWorkOwesNothing DEF LastEvent
<1> HIDE DEF b
<1>6. Sound(b, deployment)
  BY <1>2, <1>3 DEF Sound, InOrder, OneVoice
<1>7. GoesOn(k, b)
  BY <1>1, <1>2, <1>3, <1>4, <1>5, <1>6 DEF GoesOn, Leave
<1> QED BY <1>7

\* What is saved before the last event is what was said, and for done what it rests on.
LEMMA AnswerIsKept ==
  ASSUME ChatInv, NEW k \in Asks, AtWork(k), NEW cites \in SUBSET Articles,
         NEW event \in {"done", "error"},
         event = "done" => Len(asks[k].events) >= 1 /\ cites = asks[k].cites,
         event = "done" /\ deployment.providers > 1 => Len(asks[k].events) >= 2,
         Save(k, asks[k], "ASSISTANT", cites),
         Becomes(k, End(Counted(asks[k]), event)),
         deployment' = deployment, overlapped' = overlapped, faults' = faults, spent' = spent
  PROVE  \E b : Answers(k, b)
<1> DEFINE a == asks[k]
           c == Counted(a)
           b == End(c, event)
           m == [session |-> a.session, ask |-> k, role |-> "ASSISTANT", parts |-> a.parts,
                 cites |-> cites]
<1>1. a \in AskRow /\ Sound(a, deployment) /\ a.job # "ended"
  BY WhoIsAtWork
<1>2. /\ c \in AskRow /\ c.job = a.job /\ c.session = a.session /\ c.count = a.count + 1
      /\ c.events = a.events /\ c.parts = a.parts /\ c.cites = a.cites /\ c.vector = a.vector
      /\ c.provider = a.provider
  <2>1. a.count + 1 \in Nat /\ c = [a EXCEPT !.count = a.count + 1]
    BY <1>1 DEF Counted, AskRow
  <2> HIDE DEF c
  <2> QED BY <1>1, <2>1 DEF AskRow
<1>3. /\ asks' = [asks EXCEPT ![k] = b] /\ messages' = Append(messages, m)
      /\ messageCount' = [messageCount EXCEPT ![a.session] = c.count]
  BY DEF Save, Becomes
<1>4. m \in MessageRow
  BY <1>1 DEF MessageRow, AskRow
<1> HIDE DEF c
<1>5. Sound(c, deployment)
  BY <1>1, <1>2 DEF Sound, InOrder, OneVoice
<1>6. /\ b \in AskRow /\ Sound(b, deployment)
      /\ b.job = "ended" /\ LastEvent(b) = event
      /\ b.session = c.session /\ b.parts = c.parts /\ b.cites = c.cites
  BY <1>1, <1>2, <1>5, EndIsSound
<1> HIDE DEF b
<1>7. Answers(k, b)
  BY <1>2, <1>3, <1>4, <1>6 DEF Answers
<1> QED BY <1>7

LEMMA EndingAnswers ==
  ASSUME ChatInv, NEW k \in Asks, Refuse(k) \/ Finish(k) \/ Break(k)
  PROVE  \E b : Answers(k, b)
<1>1. AtWork(k)
  BY DEF Refuse, Finish, Break
<1>2. asks[k] \in AskRow /\ Sound(asks[k], deployment)
  BY <1>1, WhoIsAtWork
<1>3. asks[k].cites \in SUBSET Articles
  BY <1>2 DEF AskRow
<1>4. CASE Refuse(k)
  <2>1. Len(asks[k].events) >= 2 /\ asks[k].cites = {}
    BY <1>2, <1>4 DEF Refuse, Sound
  <2>2. Len(asks[k].events) >= 1
    BY <1>2, <2>1 DEF AskRow
  <2> QED BY <1>1, <1>3, <1>4, <2>1, <2>2, AnswerIsKept DEF Refuse
<1>5. CASE Finish(k)
  <2>1. /\ asks[k].job = "speak" \/ (asks[k].job = "stream" /\ deployment.providers = 1)
        /\ asks[k] \in AskRow
    BY <1>2, <1>5 DEF Finish, EndsSilently
  <2>2. Len(asks[k].events) >= 1 /\ (deployment.providers > 1 => Len(asks[k].events) >= 2)
    <3>1. CASE asks[k].job = "speak"
      <4>1. Len(asks[k].events) >= 2 /\ Len(asks[k].events) \in Nat
        BY <1>2, <2>1, <3>1 DEF Sound, AskRow
      <4> QED BY <4>1
    <3>2. CASE asks[k].job = "stream" /\ deployment.providers = 1
      BY <1>2, <3>2 DEF Sound
    <3> QED BY <2>1, <3>1, <3>2
  <2> QED BY <1>1, <1>3, <1>5, <2>2, AnswerIsKept DEF Finish
<1>6. CASE Break(k)
  BY <1>1, <1>6, AnswerIsKept DEF Break
<1> QED BY <1>4, <1>5, <1>6

-----------------------------------------------------------------------------
(***************************************************************************)
(* The budget, and the calls that are still to be charged.                 *)
(***************************************************************************)
Charged == {k \in Asks : Waiting(k) /\ asks[k].job # "stream"}
Started == {k \in Asks : Begun(k)}

LEMMA AsksAreFinite ==
  /\ IsFiniteSet(Charged) /\ Cardinality(Charged) \in Nat
  /\ IsFiniteSet(Started) /\ Cardinality(Started) \in Nat
  /\ Cardinality(Charged) <= Cardinality(Started)
<1>1. Charged \subseteq Started /\ Started \subseteq Asks
  BY DEF Charged, Started, Waiting, AtWork
<1> QED BY <1>1, AsksAssumption, FS_Subset, FS_CardinalityType

\* A step that neither charges nor makes another charge due.
LEMMA NothingDueKeeps ==
  ASSUME spent \in Nat, SpendBounded, spent' = spent, Charged' \subseteq Charged,
         Started \subseteq Started', Started' \subseteq Asks
  PROVE  SpendBounded'
<1>1. spent + Cardinality(Charged) < Budget + Cardinality(Started)
  BY DEF SpendBounded, Charged, Started
<1>2. /\ Cardinality(Charged') <= Cardinality(Charged) /\ Cardinality(Charged') \in Nat
      /\ Cardinality(Started) <= Cardinality(Started') /\ Cardinality(Started') \in Nat
  BY AsksAreFinite, AsksAssumption, FS_Subset, FS_CardinalityType
<1>3. spent' + Cardinality(Charged') < Budget + Cardinality(Started')
  BY <1>1, <1>2, AsksAreFinite, BudgetAssumption
<1> QED BY <1>3 DEF SpendBounded, Charged, Started

\* One ask goes on, and is not begun nor charged twice.
LEMMA OneAskMoves ==
  ASSUME Types, NEW k \in Asks, NEW b \in AskRow, Begun(k), asks' = [asks EXCEPT ![k] = b]
  PROVE  /\ Started' = Started
         /\ \A j \in Asks \ {k} : j \in Charged' <=> j \in Charged
         /\ k \in Charged' => b.job \in {"rewrite", "embed"} /\ b.tries > 0
<1>1. \A j \in Asks : asks'[j] = IF j = k THEN b ELSE asks[j]
  BY DEF Types
<1>2. b # None
  BY NoneAssumption
<1>3. Started' = Started
  BY <1>1, <1>2 DEF Started, Begun
<1>4. \A j \in Asks \ {k} : j \in Charged' <=> j \in Charged
  BY <1>1 DEF Charged, Waiting, AtWork, Begun
<1>5. k \in Charged' => b.job \in {"rewrite", "embed"} /\ b.tries > 0
  BY <1>1 DEF Charged, Waiting, Calling
<1> QED BY <1>3, <1>4, <1>5

\* check_budget looks while the call is not yet under way.
LEMMA SendSpends ==
  ASSUME Types, SpendBounded, NEW k \in Asks, NEW b \in AskRow, Send(k),
         asks' = [asks EXCEPT ![k] = b]
  PROVE  SpendBounded'
<1>1. spent' = spent /\ spent \in Nat /\ spent < Budget /\ Started' = Started
  BY OneAskMoves DEF Send, Pending, AtWork, CheckBudget, Types
<1>2. Charged' \subseteq Started'
  BY DEF Charged, Started, Waiting, AtWork
<1>3. Cardinality(Charged') <= Cardinality(Started) /\ Cardinality(Charged') \in Nat
  BY <1>1, <1>2, AsksAreFinite, FS_Subset, FS_CardinalityType
<1>4. spent' + Cardinality(Charged') < Budget + Cardinality(Started')
  BY <1>1, <1>3, AsksAreFinite, BudgetAssumption
<1> QED BY <1>4 DEF SpendBounded, Charged, Started

\* What is charged is no longer due.
LEMMA ChargeSpends ==
  ASSUME Types, SpendBounded, NEW k \in Asks, NEW b \in AskRow, asks' = [asks EXCEPT ![k] = b],
         k \in Charged, b.tries = 0, spent' = spent + 1
  PROVE  SpendBounded'
<1>1. Begun(k)
  BY DEF Charged, Waiting, AtWork
<1>2. Started' = Started /\ Charged' = Charged \ {k}
  <2>1. /\ Started' = Started
        /\ \A j \in Asks \ {k} : j \in Charged' <=> j \in Charged
        /\ k \in Charged' => b.tries > 0
    BY <1>1, OneAskMoves
  <2>2. Charged' \subseteq Asks /\ Charged \subseteq Asks
    BY DEF Charged
  <2>3. ~(b.tries > 0)
    OBVIOUS
  <2> QED BY <2>1, <2>2, <2>3
<1>3. Cardinality(Charged') = Cardinality(Charged) - 1
  BY <1>2, AsksAreFinite, FS_RemoveElement
<1>4. spent + Cardinality(Charged) < Budget + Cardinality(Started) /\ spent \in Nat
  BY DEF SpendBounded, Charged, Started, Types
<1>5. spent' + Cardinality(Charged') < Budget + Cardinality(Started')
  BY <1>2, <1>3, <1>4, AsksAreFinite, BudgetAssumption
<1> QED BY <1>5 DEF SpendBounded, Charged, Started

\* Every other step of an ask.
LEMMA OthersSpendNothing ==
  ASSUME Types, SpendBounded, NEW k \in Asks, NEW b \in AskRow, Begun(k),
         asks' = [asks EXCEPT ![k] = b], spent' = spent,
         b.job \in {"rewrite", "embed"} /\ b.tries > 0 => k \in Charged
  PROVE  SpendBounded'
<1>1. Started' = Started /\ Charged' \subseteq Charged
  <2>1. /\ Started' = Started
        /\ \A j \in Asks \ {k} : j \in Charged' <=> j \in Charged
        /\ k \in Charged' => k \in Charged
    BY OneAskMoves
  <2>2. Charged' \subseteq Asks
    BY DEF Charged
  <2> QED BY <2>1, <2>2
<1>2. Started \subseteq Asks /\ spent \in Nat
  BY DEF Started, Types
<1> QED BY <1>1, <1>2, NothingDueKeeps

LEMMA AskSpendsNothing ==
  ASSUME Types, SpendBounded, NEW k \in Asks, NEW s \in ChatSessions, Ask(k, s)
  PROVE  SpendBounded'
<1> DEFINE b == Counted(NewAsk(s))
<1>1. /\ asks' = [asks EXCEPT ![k] = b] /\ ~Begun(k) /\ spent' = spent /\ spent \in Nat
      /\ b.tries = 0
  BY DEF Ask, Becomes, Types, Counted, NewAsk
<1>2. \A j \in Asks : asks'[j] = IF j = k THEN b ELSE asks[j]
  BY <1>1 DEF Types
<1> HIDE DEF b
<1>3. Charged' \subseteq Charged
  BY <1>1, <1>2 DEF Charged, Waiting, AtWork, Begun
<1>4. Started \subseteq Started' /\ Started' \subseteq Asks
  BY <1>1, <1>2 DEF Started, Begun
<1> QED BY <1>1, <1>3, <1>4, NothingDueKeeps

-----------------------------------------------------------------------------
(***************************************************************************)
(* The invariant, for every step.                                          *)
(***************************************************************************)
ChatIInv == ChatInv /\ SpendBounded

LEMMA ChatInitInv == Init => ChatIInv
<1> SUFFICES ASSUME Init  PROVE ChatIInv
  OBVIOUS
<1>1. /\ deployment \in Deployments /\ messages = <<>>
      /\ messageCount = [s \in ChatSessions |-> 0] /\ asks = [k \in Asks |-> None]
      /\ spent = deployment.spent /\ overlapped = {} /\ faults = 0
  BY DEF Init
<1>2. spent \in 0 .. Budget - 1
  BY <1>1, ChatDeploymentsAssumption
<1>3. spent \in Nat /\ spent < Budget
  BY <1>2, BudgetAssumption
<1>4. Types
  BY <1>1, <1>3 DEF Types
<1>5. \A k \in Asks : ~Begun(k) /\ ~AtWork(k)
  BY <1>1 DEF Begun, AtWork
<1>6. \A k \in Asks : AnswersTo(k) = {}
  BY <1>1 DEF AnswersTo
<1>7. Told /\ Kept
  BY <1>1, <1>5, <1>6 DEF Told, Kept, AnswersKept
<1>8. \A s \in ChatSessions : Cardinality(MessagesOf(s)) = 0 /\ messageCount[s] = 0
  <2>1. \A s \in ChatSessions : MessagesOf(s) = {}
    BY <1>1 DEF MessagesOf
  <2> QED BY <1>1, <2>1, FS_EmptySet
<1>9. Counting
  BY <1>5, <1>8 DEF Counting, CountTruthful
<1>10. SpendBounded
  <2>1. Charged = {}
    BY <1>5 DEF Charged, Waiting
  <2>2. Cardinality(Charged) = 0
    BY <2>1, FS_EmptySet
  <2>3. spent + Cardinality(Charged) < Budget + Cardinality(Started)
    BY <1>3, <2>2, AsksAreFinite, BudgetAssumption
  <2> QED BY <2>3 DEF SpendBounded, Charged, Started
<1> QED BY <1>4, <1>7, <1>9, <1>10 DEF ChatIInv, ChatInv

LEMMA ChatStep ==
  ASSUME ChatIInv, Next \/ UNCHANGED vars
  PROVE  ChatIInv'
<1>0. ChatInv /\ SpendBounded /\ Types
  BY DEF ChatIInv, ChatInv
<1>1. ASSUME NEW k \in Asks, NEW b, GoesOn(k, b)
      PROVE  /\ ChatInv' /\ b \in AskRow /\ Begun(k) /\ asks' = [asks EXCEPT ![k] = b]
             /\ asks'[k] = b
  <2>1. ChatInv'
    BY <1>0, <1>1, GoingOnKeeps
  <2> QED BY <1>0, <1>1, <2>1 DEF GoesOn, AtWork, Types
<1>2. ASSUME NEW k \in Asks, Send(k)  PROVE ChatIInv'
  <2>1. PICK b : GoesOn(k, b)
    BY <1>0, <1>2, CallingGoesOn
  <2> QED BY <1>0, <1>1, <1>2, <2>1, SendSpends DEF ChatIInv
<1>3. ASSUME NEW k \in Asks, Retry(k)  PROVE ChatIInv'
  <2>1. PICK b : GoesOn(k, b)
    BY <1>0, <1>3, CallingGoesOn
  <2>2. k \in Charged /\ spent' = spent
    BY <1>3 DEF Retry, Charged
  <2> QED BY <1>0, <1>1, <2>1, <2>2, OthersSpendNothing DEF ChatIInv
<1>4. ASSUME NEW k \in Asks, FailOver(k)  PROVE ChatIInv'
  <2>1. PICK b : GoesOn(k, b)
    BY <1>0, <1>4, CallingGoesOn
  <2>2. b = [asks[k] EXCEPT !.provider = @ + 1, !.tries = 0] /\ spent' = spent
    BY <1>0, <1>4, <2>1 DEF FailOver, Becomes, GoesOn, Types
  <2>3. asks[k] \in AskRow
    BY <1>0, <1>4, WhoIsAtWork DEF FailOver, Waiting
  <2>4. ~(b.tries > 0)
    BY <2>2, <2>3 DEF AskRow
  <2> QED BY <1>0, <1>1, <2>1, <2>2, <2>4, OthersSpendNothing DEF ChatIInv
<1>5. ASSUME NEW k \in Asks, GiveUp(k)  PROVE ChatIInv'
  <2>1. PICK b : GoesOn(k, b)
    BY <1>0, <1>5, GivingUpGoesOn
  <2>2. /\ asks[k] \in AskRow /\ Sound(asks[k], deployment) /\ asks[k].job # "ended"
        /\ spent' = spent
    BY <1>0, <1>5, WhoIsAtWork DEF GiveUp, Pending
  <2>3. b = IF asks[k].job = "rewrite" THEN Start(asks[k], "embed") ELSE End(asks[k], "error")
    BY <1>0, <1>5, <2>1 DEF GiveUp, Becomes, GoesOn, Types
  <2>4. b.tries = 0 \/ b.job = "ended"
    BY <2>2, <2>3, StartIsSound, EndIsSound
  <2>5. ~(b.job \in {"rewrite", "embed"} /\ b.tries > 0)
    BY <2>4
  <2> QED BY <1>0, <1>1, <2>1, <2>2, <2>5, OthersSpendNothing DEF ChatIInv
<1>6. ASSUME NEW k \in Asks, Rewritten(k)  PROVE ChatIInv'
  <2>1. PICK b : GoesOn(k, b)
    BY <1>0, <1>6, GivingUpGoesOn
  <2>2. /\ asks[k] \in AskRow /\ Sound(asks[k], deployment)
        /\ asks[k].job = "rewrite" /\ k \in Charged /\ spent' = spent + 1
    BY <1>0, <1>6, WhoIsAtWork DEF Rewritten, Waiting, Charged
  <2>3. b = Start(asks[k], "embed")
    BY <1>0, <1>6, <2>1 DEF Rewritten, Becomes, GoesOn, Types
  <2>4. b.tries = 0
    BY <2>2, <2>3, StartIsSound
  <2> QED BY <1>0, <1>1, <2>1, <2>2, <2>4, ChargeSpends DEF ChatIInv
<1>7. ASSUME NEW k \in Asks, Retrieved(k)  PROVE ChatIInv'
  <2>1. PICK b : GoesOn(k, b) /\ b.tries = 0
    BY <1>0, <1>7, RetrievingGoesOn
  <2>2. k \in Charged /\ spent' = spent + 1
    BY <1>7 DEF Retrieved, Charged
  <2> QED BY <1>0, <1>1, <2>1, <2>2, ChargeSpends DEF ChatIInv
<1>8. ASSUME NEW k \in Asks, Token(k)  PROVE ChatIInv'
  <2>1. PICK b : GoesOn(k, b) /\ b.job = "speak"
    BY <1>0, <1>8, SpeakingGoesOn
  <2>2. spent' = spent
    BY <1>8 DEF Token
  <2> QED BY <1>0, <1>1, <2>1, <2>2, OthersSpendNothing DEF ChatIInv
<1>9. ASSUME NEW k \in Asks, Refuse(k) \/ Finish(k) \/ Break(k)  PROVE ChatIInv'
  <2>1. PICK b : Answers(k, b)
    BY <1>0, <1>9, EndingAnswers
  <2>2. ChatInv'
    BY <1>0, <2>1, AnsweringKeeps
  <2>3. /\ b \in AskRow /\ Begun(k) /\ asks' = [asks EXCEPT ![k] = b] /\ b.job = "ended"
        /\ spent' = spent
    BY <2>1 DEF Answers, AtWork
  <2> QED BY <1>0, <2>2, <2>3, OthersSpendNothing DEF ChatIInv
<1>10. ASSUME NEW k \in Asks, DatabaseFails(k)  PROVE ChatIInv'
  <2>1. faults' = faults + 1 /\ faults \in Nat /\ spent' = spent
    BY <1>0, <1>10 DEF DatabaseFails, Types
  <2>2. PICK b : GoesOn(k, b)
    BY <1>0, <1>10, <2>1, FailingGoesOn DEF DatabaseFails
  <2>3. asks[k] \in AskRow /\ Sound(asks[k], deployment) /\ asks[k].job # "ended"
    BY <1>0, <1>10, WhoIsAtWork DEF DatabaseFails
  <2>4. b = End(asks[k], "error")
    BY <1>0, <1>10, <2>2 DEF DatabaseFails, Becomes, GoesOn, Types
  <2>5. b.job = "ended"
    BY <2>3, <2>4, EndIsSound
  <2> QED BY <1>0, <1>1, <2>1, <2>2, <2>5, OthersSpendNothing DEF ChatIInv
<1>11. ASSUME NEW k \in Asks, Leave(k)  PROVE ChatIInv'
  <2>1. PICK b : GoesOn(k, b)
    BY <1>0, <1>11, LeavingGoesOn
  <2>2. b = [asks[k] EXCEPT !.job = "left"] /\ spent' = spent /\ asks[k] \in AskRow
    BY <1>0, <1>11, <2>1, WhoIsAtWork DEF Leave, Becomes, GoesOn, Types
  <2>3. b.job = "left"
    BY <2>2 DEF AskRow
  <2> QED BY <1>0, <1>1, <2>1, <2>2, <2>3, OthersSpendNothing DEF ChatIInv
<1>12. ASSUME NEW k \in Asks, NEW s \in ChatSessions, Ask(k, s)  PROVE ChatIInv'
  BY <1>0, <1>12, AskingKeeps, AskSpendsNothing DEF ChatIInv
<1>13. CASE UNCHANGED vars
  <2>1. /\ deployment' = deployment /\ messages' = messages /\ messageCount' = messageCount
        /\ asks' = asks /\ spent' = spent /\ overlapped' = overlapped /\ faults' = faults
    BY <1>13 DEF vars
  <2>2. Types' /\ Told'
    BY <1>0, <2>1 DEF ChatInv, Types, Told, Begun
  <2>3. Kept'
    <3>1. \A k \in Asks : AnswersTo(k)' = AnswersTo(k)
      BY <2>1 DEF AnswersTo
    <3>2. \A k \in Asks : (Begun(k)' <=> Begun(k)) /\ (AtWork(k)' <=> AtWork(k))
      BY <2>1 DEF Begun, AtWork
    <3>3. \A k \in Asks : Owed(k)' <=> Owed(k)
      BY <2>1, <3>1 DEF Owed, LastEvent
    <3>4. Kept <=> /\ \A k \in Asks : ~Begun(k) \/ AtWork(k) => AnswersTo(k) = {}
                   /\ \A k \in Asks : Begun(k) => Owed(k)
                   /\ \A i \in DOMAIN messages : OneVoice(messages[i])
      BY DEF Kept, AnswersKept, Owed, OneVoice
    <3>5. Kept' <=> /\ \A k \in Asks : (~Begun(k) \/ AtWork(k))' => AnswersTo(k)' = {}
                    /\ \A k \in Asks : Begun(k)' => Owed(k)'
                    /\ \A i \in DOMAIN messages' : OneVoice(messages'[i])
      BY DEF Kept, AnswersKept, Owed, OneVoice
    <3> QED BY <1>0, <2>1, <3>1, <3>2, <3>3, <3>4, <3>5 DEF ChatInv
  <2>4. Counting'
    <3>1. \A k \in Asks : AtWork(k)' <=> AtWork(k)
      BY <2>1 DEF AtWork, Begun
    <3>2. CountTruthful' /\ Size' = Size
      BY <1>0, <2>1 DEF ChatInv, Counting, CountTruthful, Size, MessagesOf
    <3> QED BY <1>0, <2>1, <3>1, <3>2 DEF ChatInv, Counting
  <2>5. SpendBounded'
    BY <1>0, <2>1 DEF SpendBounded, Waiting, AtWork, Begun
  <2> QED BY <2>2, <2>3, <2>4, <2>5 DEF ChatIInv, ChatInv
<1>14. CASE Next
  BY <1>2, <1>3, <1>4, <1>5, <1>6, <1>7, <1>8, <1>9, <1>10, <1>11, <1>12, <1>14
     DEF Next, Progress
<1> QED BY <1>13, <1>14

\* What has been told and said, saved, counted and spent fits together at every moment.
THEOREM ChatInvariant == Spec => []ChatIInv
<1>1. ChatIInv /\ [Next]_vars => ChatIInv'
  BY ChatStep
<1> QED BY <1>1, ChatInitInv, PTL DEF Spec

\* The stream that the router promises: citations, tokens, done, or an error, and nothing
\* after either; and one of the two whenever the browser has not left.
THEOREM EventsAreInOrder == Spec => []EventsInOrder
<1>1. ChatIInv => EventsInOrder
  BY DEF ChatIInv, ChatInv, Told, Sound, InOrder, EventsInOrder
<1> QED BY <1>1, ChatInvariant, PTL

\* What answer() has told to be an answer is stored, once, as it was told.
THEOREM AnswersAreKept == Spec => []AnswersKept
<1>1. ChatIInv => AnswersKept
  BY DEF ChatIInv, ChatInv, Kept
<1> QED BY <1>1, ChatInvariant, PTL

\* retriever.py compares vectors of one model only, whichever provider served.
THEOREM AnswersRestOnComparable == Spec => []RestsOnComparable
<1>1. ChatIInv => RestsOnComparable
  BY DEF ChatIInv, ChatInv, Told, Sound, RestsOnComparable
<1> QED BY <1>1, ChatInvariant, PTL

\* message_count is never too high, and right where no two asks overlapped.
THEOREM CountIsTruthful == Spec => []CountTruthful
<1>1. ChatIInv => CountTruthful
  BY DEF ChatIInv, ChatInv, Counting
<1> QED BY <1>1, ChatInvariant, PTL

\* CostGuard is overdrawn by no more than the asks there are, for any budget.
THEOREM SpendingIsBounded == Spec => []SpendBounded
<1>1. ChatIInv => SpendBounded
  BY DEF ChatIInv
<1> QED BY <1>1, ChatInvariant, PTL
=============================================================================
