---------------------------- MODULE MCSlaMonitor ----------------------------
(***************************************************************************)
(* SlaMonitor on a small calendar: days of four units, two of them office  *)
(* hours, weeks of three days with one or two days off.                    *)
(***************************************************************************)
EXTENDS SlaMonitor

CONSTANTS t1, t2, w1, w2, a1, m1

MCPolicy == [p \in Priorities |->
  [minutes |-> CASE p = "URGENT" -> 1 [] p = "HIGH" -> 2 [] OTHER -> 4,
   businessHoursOnly |-> TRUE]]

\* Two scans that overlap and may die, each with every ticket; and one scan that takes one
\* ticket of two, which are due on the same day.
SmallDeployments ==
  {[priorities |-> {"URGENT", "LOW"}, workers |-> {w1, w2}, batchSize |-> 2,
    creationTimes |-> {0, 2}, maxFaults |-> 1],
   [priorities |-> {"URGENT", "HIGH"}, workers |-> {w1}, batchSize |-> 1,
    creationTimes |-> {0}, maxFaults |-> 0]}

\* One ticket can be resolved and reopened, the other changed once.
MCMaxVersion == [t \in Tickets |-> IF t = t1 THEN 3 ELSE 2]
=============================================================================
