------------------------------ MODULE MCTunnel ------------------------------
(* Small instances of a Tunnel: readers a and b are asynchronous, c is not. *)
EXTENDS Tunnel
CONSTANTS s1, s2, a, b, c, m1, m2

\* A sync and an async reader share a subscription; b has one of its own.
MixedSub == [r \in {a, b, c} |-> IF r = b THEN s2 ELSE s1]

\* Single wake-ups of readers on two loops, grouped ones of two on one loop.
TwoLoops == [r \in {a, b} |-> IF r = a THEN m1 ELSE m2]
OneLoop  == [r \in {a, b} |-> m1]
BothModes == {[grouped |-> FALSE, loopOf |-> TwoLoops], [grouped |-> TRUE, loopOf |-> OneLoop]}
=============================================================================
