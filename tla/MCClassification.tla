-------------------------- MODULE MCClassification --------------------------
(***************************************************************************)
(* Classification on small instances.                                      *)
(***************************************************************************)
EXTENDS Classification

CONSTANTS t1, t2, w1, w2

\* No keyword; a laptop with a virus; a category that is switched off.
SmallTexts ==
  LET text(security, network, hardware) ==
        [i \in 1..7 |-> CASE i = 1 -> security [] i = 2 -> network [] i = 6 -> hardware
                         [] OTHER -> 0]
  IN  {text(0, 0, 0), text(1, 0, 2), text(0, 1, 0)}

\* One ticket in the hands of two workers, with two faults; and two tickets, of which one
\* waits behind the other.
TwoWorkers == [tickets |-> {t1}, workers |-> {w1, w2}, maxQueue |-> 2, maxFaults |-> 2]
OneWorker  == [tickets |-> {t1, t2}, workers |-> {w1}, maxQueue |-> 1, maxFaults |-> 1]

EitherDeployment == {TwoWorkers, OneWorker}
OnlyTwoWorkers   == {TwoWorkers}
=============================================================================
