-------------------------------- MODULE Chat --------------------------------
(***************************************************************************)
(* The assistant (US-23, US-24): ChatService.answer as the async generator *)
(* it is, the SSE stream that the router makes of it, and below it the     *)
(* chain of AI providers with its retries, its fail-over and CostGuard.    *)
(*                                                                         *)
(* Between two awaits an ask is atomic in its process; at an await any     *)
(* other ask goes on, the browser may leave, and a provider may answer, be *)
(* silent or fail.  A deployment is one process: its asks share the        *)
(* database and the CostGuard.  Every ask builds clients of its own, so    *)
(* their circuit breakers never count more than one ask's failures, which  *)
(* are fewer than the five that open one: there is no breaker here.        *)
(***************************************************************************)
EXTENDS Integers, Sequences, FiniteSets

CONSTANTS
  Asks, ChatSessions, Articles,
  Providers,      \* how many there may be, the primary first: 2 in the code
  MaxAttempts,    \* of with_retry, 3 in the code
  Budget,         \* AI_MONTHLY_BUDGET_USD, in calls
  MaxTokens,      \* bound on the tokens of an answer
  Deployments,    \* choices of the asks, of the sessions, of how many providers are
                  \* configured, of which of them each article was indexed with, of what
                  \* was spent, and of the bound on faults
  None

ASSUME ProvidersAssumption == Providers \in Nat \ {0} /\ MaxAttempts \in Nat \ {0}
ASSUME BudgetAssumption == Budget \in Nat \ {0}
ASSUME ChatDeploymentsAssumption ==
  Deployments \subseteq
    [asks : SUBSET Asks, sessions : SUBSET ChatSessions, providers : 1..Providers,
     indexedWith : [Articles -> 1..Providers], spent : 0..Budget - 1, maxFaults : Nat]

\* Where an ask is: "ended" is the end of answer() or of the router's generator, "left" the
\* browser's going away.  What answer() knows while it runs: the providers whose tokens were
\* shown, the articles cited, the provider that embedded the question, and what was told to
\* the browser.
AskRow ==
  [session : ChatSessions,
   job : {"rewrite", "embed", "stream", "speak", "refuse", "ended", "left"},
   provider : Nat, tries : Nat, count : Nat, parts : Seq(Nat), cites : SUBSET Articles,
   vector : Nat, events : Seq({"citations", "token", "done", "error"})]

\* A row of chat_messages with its citations.
MessageRow ==
  [session : ChatSessions, ask : Asks, role : {"USER", "ASSISTANT"}, parts : Seq(Nat),
   cites : SUBSET Articles]

ASSUME AsksAssumption == IsFiniteSet(Asks)
ASSUME NoneAssumption == None \notin AskRow /\ None \notin {"done", "error"}

VARIABLES
  deployment,   \* one of Deployments, chosen once
  messages,     \* chat_messages with their citations, in the order of their commits
  messageCount, \* chat_sessions.message_count
  asks,         \* ask -> where answer() is, None before it
  spent,        \* CostGuard._spent, in calls
  overlapped,   \* history: the sessions in which two asks were ever at work together
  faults        \* how often the database has failed

vars == <<deployment, messages, messageCount, asks, spent, overlapped, faults>>

Begun(k)  == asks[k] # None
AtWork(k) == Begun(k) /\ asks[k].job \notin {"ended", "left"}
MessagesOf(s) == {i \in DOMAIN messages : messages[i].session = s}

\* The ask k goes on as a; and what it may go on to.
Becomes(k, a)    == asks' = [asks EXCEPT ![k] = a]
Start(a, job)    == [a EXCEPT !.job = job, !.provider = 1, !.tries = 0]
Tell(a, events)  == [a EXCEPT !.events = @ \o events]

End(a, event) == [Tell(a, <<event>>) EXCEPT !.job = "ended"]

-----------------------------------------------------------------------------
(***************************************************************************)
(* The tables.                                                             *)
(***************************************************************************)
\* Mutant of Counted: the answers are not counted.
CountedQuestions(a) == IF a.events = <<>> THEN [a EXCEPT !.count = @ + 1] ELSE a

\* The session's row was loaded when the ask began and does not expire on commit:
\* message_count is increased in that copy, and written from it.
Counted(a) == [a EXCEPT !.count = @ + 1]

\* _save_message and _save_citations, with the commit.
Save(k, a, role, cites) ==
  /\ messages' = Append(messages, [session |-> a.session, ask |-> k, role |-> role,
                                   parts |-> a.parts, cites |-> cites])
  /\ messageCount' = [messageCount EXCEPT ![a.session] = Counted(a).count]

-----------------------------------------------------------------------------
(***************************************************************************)
(* An ask begins: the router has checked the session's owner and the       *)
(* limit (Sessions has the limiter); the question is committed and the     *)
(* history read.                                                           *)
(***************************************************************************)
\* needs_rewrite: there is a message besides the question just saved.
NeedsRewrite(s) == MessagesOf(s) # {}

NewAsk(s) ==
  [session |-> s, job |-> (IF NeedsRewrite(s) THEN "rewrite" ELSE "embed"),
   provider |-> 1, tries |-> 0, count |-> messageCount[s], parts |-> <<>>, cites |-> {},
   vector |-> 0, events |-> <<>>]

Ask(k, s) ==
  /\ k \in deployment.asks /\ s \in deployment.sessions /\ ~Begun(k)
  /\ Save(k, NewAsk(s), "USER", {})
  /\ Becomes(k, Counted(NewAsk(s)))
  /\ overlapped' = IF \E j \in Asks : AtWork(j) /\ asks[j].session = s
                   THEN overlapped \cup {s} ELSE overlapped
  /\ UNCHANGED <<deployment, spent, faults>>

-----------------------------------------------------------------------------
(***************************************************************************)
(* Calls of the providers.  tries = 0 says that the call to this provider  *)
(* has still to be made.                                                   *)
(***************************************************************************)
Calling == {"rewrite", "embed", "stream"}
Pending(k) == AtWork(k) /\ asks[k].job \in Calling /\ asks[k].tries = 0
Waiting(k) == AtWork(k) /\ asks[k].job \in Calling /\ asks[k].tries > 0

\* Mutant of CheckBudget: nobody looks.
CheckBudgetNever == TRUE

\* check_budget: what others have under way is not counted.
CheckBudget == spent < Budget

Send(k) ==
  /\ Pending(k) /\ asks[k].provider <= deployment.providers /\ CheckBudget
  /\ Becomes(k, [asks[k] EXCEPT !.tries = 1])
  /\ UNCHANGED <<deployment, messages, messageCount, spent, overlapped, faults>>

\* with_retry, after a 5xx.  Streams are not retried.
Retry(k) ==
  /\ Waiting(k) /\ asks[k].job # "stream" /\ asks[k].tries < MaxAttempts
  /\ Becomes(k, [asks[k] EXCEPT !.tries = @ + 1])
  /\ UNCHANGED <<deployment, messages, messageCount, spent, overlapped, faults>>

\* Mutant of FailOver: after the last provider comes the first.
FailOverInTurn(k) ==
  /\ Waiting(k)
  /\ Becomes(k, [asks[k] EXCEPT !.tries = 0,
                   !.provider = IF @ = deployment.providers THEN 1 ELSE @ + 1])
  /\ UNCHANGED <<deployment, messages, messageCount, spent, overlapped, faults>>

\* FailoverLlmClient and FailoverEmbeddingClient: this provider is out of attempts, has
\* refused, is not to be reached, or has begun a stream and said nothing.  Without a fallback
\* there is no such client, and nobody to go on to (GiveUp).
FailOver(k) ==
  /\ Waiting(k)
  /\ Becomes(k, [asks[k] EXCEPT !.provider = @ + 1, !.tries = 0])
  /\ UNCHANGED <<deployment, messages, messageCount, spent, overlapped, faults>>

\* Mutant of GiveUp: the generator returns and forgets to say so.
GiveUpSilently(k) ==
  /\ Pending(k)
  /\ asks[k].provider > deployment.providers \/ ~CheckBudget
  /\ Becomes(k, IF asks[k].job = "rewrite" THEN Start(asks[k], "embed")
                 ELSE [asks[k] EXCEPT !.job = "ended"])
  /\ UNCHANGED <<deployment, messages, messageCount, spent, overlapped, faults>>

\* No provider is left, or no money: without a rewritten question the original will do,
\* anything else is an error.
GiveUp(k) ==
  /\ Pending(k)
  /\ asks[k].provider > deployment.providers \/ ~CheckBudget
  /\ Becomes(k, IF asks[k].job = "rewrite" THEN Start(asks[k], "embed")
                 ELSE End(asks[k], "error"))
  /\ UNCHANGED <<deployment, messages, messageCount, spent, overlapped, faults>>

Rewritten(k) ==
  /\ Waiting(k) /\ asks[k].job = "rewrite"
  /\ spent' = spent + 1
  /\ Becomes(k, Start(asks[k], "embed"))
  /\ UNCHANGED <<deployment, messages, messageCount, overlapped, faults>>

\* Mutant of ModelName: the name is that of the primary.
ModelNameOfPrimary(a) == 1

\* The model_name of the embedding chain: of the provider that served it.
ModelName(a) == a.provider

\* Retriever.retrieve, the question being embedded: vectors of one model only are compared,
\* and any of those articles may be near enough.  Then the citations are sent, with the
\* refusal if there are none.
Retrieved(k) ==
  /\ Waiting(k) /\ asks[k].job = "embed"
  /\ spent' = spent + 1
  /\ \E found \in SUBSET {x \in Articles : deployment.indexedWith[x] = ModelName(asks[k])} :
       LET a == [asks[k] EXCEPT !.cites = found, !.vector = asks[k].provider]
       IN  Becomes(k, IF found = {} THEN Start(Tell(a, <<"citations", "token">>), "refuse")
                      ELSE Start(Tell(a, <<"citations">>), "stream"))
  /\ UNCHANGED <<deployment, messages, messageCount, overlapped, faults>>

-----------------------------------------------------------------------------
(***************************************************************************)
(* The answer.                                                             *)
(***************************************************************************)
\* NO_CONTEXT_ANSWER is saved, without a call to the LLM.
Refuse(k) ==
  /\ AtWork(k) /\ asks[k].job = "refuse"
  /\ Save(k, asks[k], "ASSISTANT", {})
  /\ Becomes(k, End(Counted(asks[k]), "done"))
  /\ UNCHANGED <<deployment, spent, overlapped, faults>>

Said(a) == [Tell(a, <<"token">>) EXCEPT !.parts = Append(@, a.provider), !.job = "speak"]

\* The first token, and so the provider, of the answer; and every further one.
Token(k) ==
  /\ AtWork(k) /\ asks[k].job \in {"stream", "speak"}
  /\ asks[k].job = "stream" => Waiting(k)
  /\ Len(asks[k].parts) < MaxTokens
  /\ Becomes(k, Said(asks[k]))
  /\ UNCHANGED <<deployment, messages, messageCount, spent, overlapped, faults>>

\* The stream is over without a word.  That is a failure to FailoverLlmClient; the client of
\* a provider that is alone takes it for an answer.
EndsSilently(k) == Waiting(k) /\ asks[k].job = "stream" /\ deployment.providers = 1

\* The stream ends: after [DONE], or because the connection has closed quietly.
Finish(k) ==
  /\ AtWork(k)
  /\ asks[k].job = "speak" \/ EndsSilently(k)
  /\ Save(k, asks[k], "ASSISTANT", asks[k].cites)
  /\ Becomes(k, End(Counted(asks[k]), "done"))
  /\ UNCHANGED <<deployment, spent, overlapped, faults>>

\* Mutant of Break: the next provider starts over.
BreakToNext(k) ==
  /\ AtWork(k) /\ asks[k].job = "speak" /\ asks[k].provider < deployment.providers
  /\ Becomes(k, [asks[k] EXCEPT !.job = "stream", !.provider = @ + 1, !.tries = 0])
  /\ UNCHANGED <<deployment, messages, messageCount, spent, overlapped, faults>>

\* The stream breaks off: what was said is kept, without citations.
Break(k) ==
  /\ AtWork(k) /\ asks[k].job = "speak"
  /\ Save(k, asks[k], "ASSISTANT", {})
  /\ Becomes(k, End(Counted(asks[k]), "error"))
  /\ UNCHANGED <<deployment, spent, overlapped, faults>>

\* The database fails where it is needed next: the router has the last word.
DatabaseFails(k) ==
  /\ AtWork(k) /\ asks[k].job \in {"embed", "refuse", "speak"}
  /\ asks[k].job = "embed" => Waiting(k)
  /\ faults < deployment.maxFaults
  /\ faults' = faults + 1
  /\ Becomes(k, End(asks[k], "error"))
  /\ UNCHANGED <<deployment, messages, messageCount, spent, overlapped>>

\* The browser goes away: the generator stops at the await it is at.
Leave(k) ==
  /\ AtWork(k)
  /\ Becomes(k, [asks[k] EXCEPT !.job = "left"])
  /\ UNCHANGED <<deployment, messages, messageCount, spent, overlapped, faults>>

-----------------------------------------------------------------------------
Init ==
  /\ deployment \in Deployments
  /\ messages = <<>>
  /\ messageCount = [s \in ChatSessions |-> 0]
  /\ asks = [k \in Asks |-> None]
  /\ spent = deployment.spent
  /\ overlapped = {} /\ faults = 0

\* What an ask does next, or what the providers do to it.
Progress(k) ==
  \/ Send(k) \/ Retry(k) \/ FailOver(k) \/ GiveUp(k) \/ Rewritten(k) \/ Retrieved(k)
  \/ Refuse(k) \/ Token(k) \/ Finish(k) \/ Break(k)

Next ==
  \E k \in Asks : \/ \E s \in ChatSessions : Ask(k, s)
                 \/ Progress(k)
                 \/ DatabaseFails(k)
                 \/ Leave(k)

\* Every call has a timeout, so something becomes of it; nobody has to ask or to leave.
Spec     == Init /\ [][Next]_vars
FairSpec == Spec /\ \A k \in Asks : WF_vars(Progress(k))

-----------------------------------------------------------------------------
AnswersTo(k) == {i \in DOMAIN messages : messages[i].ask = k /\ messages[i].role = "ASSISTANT"}
LastEvent(a) == IF a.events = <<>> THEN None ELSE a.events[Len(a.events)]

\* service.py:15-16 and the router promise citations, then tokens, then done, or an error
\* wherever it comes, and nothing after either; and whatever fails, an ask that its browser
\* does not leave ends with one of the two.  With a fallback an answer is never empty
\* (failover.py:101-104); alone, a provider that says nothing is citations and done.
EventsInOrder ==
  \A k \in Asks : Begun(k) =>
    LET e == asks[k].events
    IN  /\ \A i \in DOMAIN e :
             /\ e[i] = "citations" <=> (i = 1 /\ e[i] # "error")
             /\ e[i] \in {"done", "error"} => (i = Len(e) /\ asks[k].job = "ended")
             /\ e[i] = "done" /\ deployment.providers > 1 => i > 2
        /\ asks[k].job = "ended" => LastEvent(asks[k]) \in {"done", "error"}

\* What was told to have been answered is in the database, once: all that was said, and what
\* it rests on.  What was said before an error is there too, unless the database has failed;
\* nothing else is.  And an answer is never begun again by another provider (failover.py).
AnswersKept ==
  /\ \A k \in Asks : Begun(k) =>
       /\ Cardinality(AnswersTo(k)) <= 1
       /\ AnswersTo(k) # {} => LastEvent(asks[k]) \in {"done", "error"}
       /\ LastEvent(asks[k]) = "done" =>
            \E i \in AnswersTo(k) : messages[i].parts = asks[k].parts
                                   /\ messages[i].cites = asks[k].cites
       /\ LastEvent(asks[k]) = "error" /\ asks[k].parts # <<>> /\ faults = 0 =>
            \E i \in AnswersTo(k) : messages[i].parts = asks[k].parts
  /\ \A i \in DOMAIN messages : \A m, n \in DOMAIN messages[i].parts :
       messages[i].parts[m] = messages[i].parts[n]

\* retriever.py: the LLM speaks only from articles that were found, and only among vectors
\* of the model that embedded the question, also when that was the fallback's.
RestsOnComparable ==
  \A k \in Asks : Begun(k) =>
    /\ asks[k].parts # <<>> => asks[k].cites # {}
    /\ \A x \in asks[k].cites : deployment.indexedWith[x] = asks[k].vector

\* message_count never exceeds the messages, and is their number in a session in which no
\* two asks were ever at work together.  (When they are, one writes over the other.)
CountTruthful ==
  \A s \in ChatSessions :
    /\ messageCount[s] <= Cardinality(MessagesOf(s))
    /\ s \notin overlapped => messageCount[s] = Cardinality(MessagesOf(s))

\* The budget holds, but for the calls under way when it runs out: an ask has one at most.
SpendBounded ==
  spent + Cardinality({k \in Asks : Waiting(k) /\ asks[k].job # "stream"})
    < Budget + Cardinality({k \in Asks : Begun(k)})

\* However the providers fail, the browser is told how its ask has ended, or has left.
EveryAskEnds ==
  \A k \in Asks : Begun(k) ~> /\ Begun(k)
                              /\ \/ asks[k].job = "left"
                                 \/ LastEvent(asks[k]) \in {"done", "error"}
=============================================================================
