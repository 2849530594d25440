-------------------------- MODULE MCKnowledgeIndex --------------------------
(***************************************************************************)
(* KnowledgeIndex on small instances.                                      *)
(***************************************************************************)
EXTENDS KnowledgeIndex

CONSTANTS a1, a2, r1, r2, w1, w2

\* One article and two workers; two articles, which one worker indexes in one batch.
SmallDeployments ==
  {[articles |-> {a1}, workers |-> {w1, w2}, maxTime |-> 3],
   [articles |-> {a1, a2}, workers |-> {w1}, maxTime |-> 4]}

OneWorker == {[articles |-> {a1}, workers |-> {w1}, maxTime |-> 3]}
=============================================================================
