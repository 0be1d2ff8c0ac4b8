----------------------------- MODULE ReplayLog -----------------------------
(***************************************************************************)
(* What a Tunnel promises to the subscriptions that read it, with no       *)
(* threads, waiters or buffer: an append-only log of accepted values, a    *)
(* terminal state that ends it once, and cursors that see every value from *)
(* their start, in order and once, until they end for a stated reason.     *)
(* The value of a put is its sequence number.                              *)
(***************************************************************************)
EXTENDS Integers, Sequences

CONSTANTS Subscriptions, MaxHistory   \* MaxHistory = 0: unbounded retention

VARIABLES
    count,     \* values accepted so far
    terminal,  \* "open", "closed", "failed"
    start,     \* first sequence a subscription asked for; -1: not subscribed
    out,       \* values delivered on a subscription
    why        \* "no" while it is live, else why it ended

vars == <<count, terminal, start, out, why>>

Position(s) == start[s] + Len(out[s])
Dropped(s)  == MaxHistory > 0 /\ Position(s) < count - MaxHistory

Init ==
    /\ count = 0
    /\ terminal = "open"
    /\ start = [s \in Subscriptions |-> -1]
    /\ out = [s \in Subscriptions |-> <<>>]
    /\ why = [s \in Subscriptions |-> "no"]

Accept ==
    /\ terminal = "open"
    /\ count' = count + 1
    /\ UNCHANGED <<terminal, start, out, why>>

Terminate ==
    /\ terminal = "open"
    /\ terminal' \in {"closed", "failed"}
    /\ UNCHANGED <<count, start, out, why>>

Subscribe(s) ==
    /\ start[s] = -1
    /\ \E n \in 0..count : start' = [start EXCEPT ![s] = n]
    /\ UNCHANGED <<count, terminal, out, why>>

Deliver(s) ==
    /\ start[s] >= 0 /\ why[s] = "no"
    /\ ~Dropped(s) /\ Position(s) < count
    /\ out' = [out EXCEPT ![s] = Append(@, Position(s))]
    /\ UNCHANGED <<count, terminal, start, why>>

\* A reader is told the end only when it has seen everything that was accepted,
\* and of a lag only when a value it needs is gone.  It may give up at any time.
End(s) ==
    /\ start[s] >= 0 /\ why[s] = "no"
    /\ \/ Position(s) = count /\ terminal = "closed" /\ why' = [why EXCEPT ![s] = "eof"]
       \/ Position(s) = count /\ terminal = "failed" /\ why' = [why EXCEPT ![s] = "failure"]
       \/ Dropped(s) /\ why' = [why EXCEPT ![s] = "lag"]
       \/ why' = [why EXCEPT ![s] = "timeout"]
       \/ why' = [why EXCEPT ![s] = "closed"]
    /\ UNCHANGED <<count, terminal, start, out>>

Next ==
    \/ Accept
    \/ Terminate
    \/ \E s \in Subscriptions : Subscribe(s) \/ Deliver(s) \/ End(s)

Spec == Init /\ [][Next]_vars
=============================================================================
