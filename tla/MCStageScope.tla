---------------------------- MODULE MCStageScope ----------------------------
(* Small instances of one Stage scope. *)
EXTENDS StageScope
CONSTANTS h1, h2, t1, w1

\* What the first handle may have, and what the other may.
TwoOnFirst  == [h \in Handles |-> IF h = h1 THEN 2 ELSE 0]
OneOnFirst  == [h \in Handles |-> IF h = h1 THEN 1 ELSE 0]
OneOnSecond == [h \in Handles |-> IF h = h1 THEN 0 ELSE 1]
NoneEach    == [h \in Handles |-> 0]
=============================================================================
