------------------------------- MODULE Tunnel -------------------------------
(***************************************************************************)
(* The replayable channel between threads and event loops                  *)
(* (src/agently_stage/Tunnel.py).  Producers and readers meet under one    *)
(* condition variable; each of its critical sections is one action.        *)
(* Synchronous readers wait on the condition.  An asynchronous reader      *)
(* leaves a future in _async_waiters and is resumed by a callback that the *)
(* waking thread posts to the reader's own loop, so a wake-up takes three  *)
(* steps and can meet a timeout, a cancellation or a closed loop on its    *)
(* way.  Several readers may share a subscription.                         *)
(*                                                                         *)
(* A value is its sequence number: the n-th accepted put carries n.        *)
(***************************************************************************)
EXTENDS Integers, Sequences, FiniteSets

CONSTANTS
    Subscriptions,
    SyncReaders, AsyncReaders,
    SubOf,       \* the subscription each reader iterates
    Loops,       \* event loops
    Settings,    \* wake_mode and the loop of each async reader: see Init
    MaxHistory,  \* max_history; 0 stands for None
    Timed,       \* subscriptions with a timeout
    MaxPuts      \* bound on puts

Readers == SyncReaders \cup AsyncReaders

ASSUME TunnelAssumption ==
    /\ SyncReaders \cap AsyncReaders = {}
    /\ SubOf \in [Readers -> Subscriptions]
    /\ Settings \subseteq [grouped : BOOLEAN, loopOf : [AsyncReaders -> Loops]]
    /\ MaxHistory \in Nat /\ MaxPuts \in Nat
    /\ Timed \subseteq Subscriptions

VARIABLES
    setting,   \* .grouped: wake_mode = "grouped"; .loopOf: where readers run
    items,     \* Tunnel._items
    base,      \* Tunnel._base_sequence
    next,      \* Tunnel._next_sequence
    terminal,  \* "open", "closed" (_closed) or "failed" (_failure is set)
    start,     \* the cursor a subscription was created with; -1: not created
    cursor,    \* TunnelSubscription._cursor
    why,       \* "no" while not _terminated, else what terminated it
    out,       \* values returned by the subscription so far
    pc,        \* where each reader is
    waiters,   \* Tunnel._async_waiters, by reader
    callbacks, \* posted _resolve_waiter/_resolve_group calls: sets of readers
    loopOpen

chanVars == <<items, base, next, terminal>>
subVars  == <<start, cursor, why, out>>
wakeVars == <<pc, waiters, callbacks, loopOpen, setting>>
vars == <<chanVars, subVars, wakeVars>>

\* idle: between two calls; waiting: in condition.wait; woken: notified;
\* expired: its deadline has passed; awaiting: on its future; resolved: the
\* future is done; ended: it was told the iteration is over; dead: loop closed.
ReaderStates == {"idle", "waiting", "woken", "expired",
                 "awaiting", "resolved", "ended", "dead"}
Reasons == {"no", "eof", "failure", "lag", "timeout", "closed"}

LoopOf(r) == setting.loopOf[r]

Init ==
    /\ setting \in Settings
    /\ items = <<>> /\ base = 0 /\ next = 0 /\ terminal = "open"
    /\ start = [s \in Subscriptions |-> -1]
    /\ cursor = [s \in Subscriptions |-> 0]
    /\ why = [s \in Subscriptions |-> "no"]
    /\ out = [s \in Subscriptions |-> <<>>]
    /\ pc = [r \in Readers |-> "idle"]
    /\ waiters = {} /\ callbacks = {}
    /\ loopOpen = [l \in Loops |-> TRUE]

-----------------------------------------------------------------------------
(***************************************************************************)
(* _wake_waiters_locked: notify_all, then empty _async_waiters and post    *)
(* one callback per waiter, or per loop when grouped.  Posting to a closed *)
(* loop raises; the error is swallowed and the others are still woken.     *)
(***************************************************************************)
Posts_StopAtClosedLoop ==
    IF \A r \in waiters : loopOpen[LoopOf(r)] THEN {{r} : r \in waiters} ELSE {}
Posts ==
    LET live == {r \in waiters : loopOpen[LoopOf(r)]}
    IN IF setting.grouped
       THEN {{r \in live : LoopOf(r) = l} : l \in {LoopOf(r) : r \in live}}
       ELSE {{r} : r \in live}

WakeWaiters ==
    /\ pc' = [r \in Readers |-> IF pc[r] = "waiting" THEN "woken" ELSE pc[r]]
    /\ callbacks' = callbacks \cup Posts
    /\ waiters' = {}
    /\ UNCHANGED <<loopOpen, setting>>

-----------------------------------------------------------------------------
(* Producers                                                               *)

Overflow_Late == MaxHistory > 0 /\ Len(items) > MaxHistory
Overflow == MaxHistory > 0 /\ Len(items) >= MaxHistory

BaseAfterPut_Kept == base
BaseAfterPut == IF Overflow THEN base + 1 ELSE base

Put ==
    /\ terminal = "open" /\ next < MaxPuts
    /\ items' = Append(IF Overflow THEN Tail(items) ELSE items, next)
    /\ base' = BaseAfterPut
    /\ next' = next + 1
    /\ WakeWaiters
    /\ UNCHANGED <<terminal, subVars>>

Close ==
    /\ terminal = "open"
    /\ terminal' = "closed"
    /\ WakeWaiters
    /\ UNCHANGED <<items, base, next, subVars>>

Fail ==
    /\ terminal = "open"
    /\ terminal' = "failed"
    /\ WakeWaiters
    /\ UNCHANGED <<items, base, next, subVars>>

-----------------------------------------------------------------------------
(* Subscriptions                                                           *)

\* subscribe(start): "earliest" is base, "latest" is next, or a checkpoint,
\* which may already be older than what is retained.
StartChoices == 0..next

Subscribe(s) ==
    /\ start[s] = -1
    /\ \E n \in StartChoices :
          /\ start' = [start EXCEPT ![s] = n]
          /\ cursor' = [cursor EXCEPT ![s] = n]
    /\ UNCHANGED <<chanVars, why, out, wakeVars>>

SubscriptionClose(s) ==
    /\ start[s] >= 0
    /\ why[s] = "no"
    /\ why' = [why EXCEPT ![s] = "closed"]
    /\ WakeWaiters
    /\ UNCHANGED <<chanVars, start, cursor, out>>

-----------------------------------------------------------------------------
(* Readers: the critical section of __next__ and of __anext__              *)

AtCheck(r) == start[SubOf[r]] >= 0 /\ pc[r] \in {"idle", "woken", "expired", "resolved"}
Lags(s)     == cursor[s] < base
HasItem(s)  == cursor[s] >= base /\ cursor[s] - base < Len(items)

\* The terminal state shows only behind the last item ...
Drained_Ignored(s) == TRUE
Drained(s)  == cursor[s] >= base /\ cursor[s] - base >= Len(items)

\* ... and a deadline only behind the terminal state.
GivesUp_First(r) == pc[r] = "expired"
GivesUp(r) == Drained(SubOf[r]) /\ terminal = "open" /\ pc[r] = "expired"

\* The check finds an item.
Take(r) ==
    LET s == SubOf[r] IN
    /\ AtCheck(r) /\ why[s] = "no" /\ HasItem(s)
    /\ out' = [out EXCEPT ![s] = Append(@, items[cursor[s] - base + 1])]
    /\ cursor' = [cursor EXCEPT ![s] = @ + 1]
    /\ pc' = [pc EXCEPT ![r] = "idle"]
    /\ UNCHANGED <<chanVars, start, why, waiters, callbacks, loopOpen, setting>>

\* The subscription is over, or this check ends it.
Stop(r) ==
    LET s == SubOf[r] IN
    /\ AtCheck(r)
    /\ \/ why[s] # "no" /\ UNCHANGED why
       \/ why[s] = "no" /\ Lags(s) /\ why' = [why EXCEPT ![s] = "lag"]
       \/ why[s] = "no" /\ Drained(s) /\ terminal = "failed" /\ why' = [why EXCEPT ![s] = "failure"]
       \/ why[s] = "no" /\ Drained(s) /\ terminal = "closed" /\ why' = [why EXCEPT ![s] = "eof"]
       \/ why[s] = "no" /\ GivesUp(r) /\ why' = [why EXCEPT ![s] = "timeout"]
    /\ pc' = [pc EXCEPT ![r] = "ended"]
    /\ UNCHANGED <<chanVars, start, cursor, out, waiters, callbacks, loopOpen, setting>>

\* Nothing to return yet: condition.wait, or a new future in _async_waiters.
Block(r) ==
    LET s == SubOf[r] IN
    /\ AtCheck(r) /\ why[s] = "no" /\ Drained(s) /\ terminal = "open"
    /\ pc[r] # "expired"
    /\ IF r \in SyncReaders
       THEN /\ pc' = [pc EXCEPT ![r] = "waiting"]
            /\ UNCHANGED waiters
       ELSE /\ pc' = [pc EXCEPT ![r] = "awaiting"]
            /\ waiters' = waiters \cup {r}
    /\ UNCHANGED <<chanVars, subVars, callbacks, loopOpen, setting>>

\* The deadline of a sync reader passes; it still checks once more.
SyncTimeout(r) ==
    /\ r \in SyncReaders /\ SubOf[r] \in Timed
    /\ pc[r] \in {"waiting", "woken"}
    /\ pc' = [pc EXCEPT ![r] = "expired"]
    /\ UNCHANGED <<chanVars, subVars, waiters, callbacks, loopOpen, setting>>

\* Readers of callbacks that are now of no effect on r's next wait.
Forget(r) == {cb \ {r} : cb \in callbacks} \ {{}}

\* wait_for expires: the subscription ends without another check.
AsyncTimeout(r) ==
    LET s == SubOf[r] IN
    /\ r \in AsyncReaders /\ s \in Timed
    /\ pc[r] \in {"awaiting", "resolved"}
    /\ why' = [why EXCEPT ![s] = IF @ = "no" THEN "timeout" ELSE @]
    /\ pc' = [pc EXCEPT ![r] = "ended"]
    /\ waiters' = waiters \ {r}
    /\ callbacks' = Forget(r)
    /\ UNCHANGED <<chanVars, start, cursor, out, loopOpen, setting>>

\* The reading task is cancelled in its await; it may iterate again later.
CancelRead(r) ==
    /\ pc[r] \in {"awaiting", "resolved"}
    /\ pc' = [pc EXCEPT ![r] = "idle"]
    /\ waiters' = waiters \ {r}
    /\ callbacks' = Forget(r)
    /\ UNCHANGED <<chanVars, subVars, loopOpen, setting>>

\* _resolve_waiter / _resolve_group on the readers' loop
Resolve_FirstOnly(cb) ==
    /\ cb \in callbacks
    /\ \E first \in cb :
          /\ loopOpen[LoopOf(first)]
          /\ pc' = [pc EXCEPT ![first] = IF @ = "awaiting" THEN "resolved" ELSE @]
    /\ callbacks' = callbacks \ {cb}
    /\ UNCHANGED <<chanVars, subVars, waiters, loopOpen, setting>>

Resolve(cb) ==
    /\ cb \in callbacks
    /\ \A r \in cb : loopOpen[LoopOf(r)]
    /\ pc' = [r \in Readers |-> IF r \in cb /\ pc[r] = "awaiting" THEN "resolved" ELSE pc[r]]
    /\ callbacks' = callbacks \ {cb}
    /\ UNCHANGED <<chanVars, subVars, waiters, loopOpen, setting>>

\* A reader's loop is closed by its owner: its tasks never run again.
LoopCloses(l) ==
    /\ loopOpen[l]
    /\ loopOpen' = [loopOpen EXCEPT ![l] = FALSE]
    /\ pc' = [r \in Readers |-> IF r \in AsyncReaders /\ LoopOf(r) = l THEN "dead" ELSE pc[r]]
    /\ callbacks' = {cb \in callbacks : \A r \in cb : LoopOf(r) # l}
    /\ UNCHANGED <<chanVars, subVars, waiters, setting>>

-----------------------------------------------------------------------------
ProducerStep == Put \/ Close \/ Fail
SubscriptionStep == \E s \in Subscriptions : Subscribe(s) \/ SubscriptionClose(s)
ReaderStep ==
    \E r \in Readers : Take(r) \/ Stop(r) \/ Block(r)
                       \/ SyncTimeout(r) \/ AsyncTimeout(r) \/ CancelRead(r)
LoopStep ==
    \/ \E cb \in callbacks : Resolve(cb)
    \/ \E l \in Loops : LoopCloses(l)

Next == ProducerStep \/ SubscriptionStep \/ ReaderStep \/ LoopStep

Spec == Init /\ [][Next]_vars

(***************************************************************************)
(* Fairness: posted callbacks run, and a reader that was resumed checks    *)
(* again.  Nobody has to put, close, time out or start reading.            *)
(***************************************************************************)
Fairness ==
    /\ WF_vars(\E cb \in callbacks : Resolve(cb))
    /\ \A r \in Readers :
          WF_vars(/\ pc[r] \in {"woken", "expired", "resolved"}
                  /\ Take(r) \/ Stop(r) \/ Block(r))

FairSpec == Spec /\ Fairness

-----------------------------------------------------------------------------
(* Properties                                                              *)

\* Type invariant.
TypeOK ==
    /\ setting \in Settings
    /\ items \in Seq(Nat) /\ base \in Nat /\ next \in Nat
    /\ terminal \in {"open", "closed", "failed"}
    /\ start \in [Subscriptions -> Nat \cup {-1}]
    /\ cursor \in [Subscriptions -> Nat]
    /\ why \in [Subscriptions -> Reasons]
    /\ out \in [Subscriptions -> Seq(Nat)]
    /\ pc \in [Readers -> ReaderStates]
    /\ waiters \subseteq AsyncReaders
    /\ callbacks \subseteq SUBSET AsyncReaders
    /\ loopOpen \in [Loops -> BOOLEAN]

(***************************************************************************)
(* The buffer is the contiguous suffix base..next-1 of what was accepted,  *)
(* and no longer than max_history.                                         *)
(***************************************************************************)
BufferIsSuffix ==
    /\ next = base + Len(items)
    /\ \A i \in 1..Len(items) : items[i] = base + i - 1
    /\ MaxHistory > 0 => Len(items) <= MaxHistory

(***************************************************************************)
(* A subscription has returned exactly the values from its start up to its *)
(* cursor, in order and each once, however many readers shared it and      *)
(* whatever was evicted, cancelled or timed out meanwhile.                 *)
(***************************************************************************)
DeliveredInOrder ==
    \A s \in Subscriptions : start[s] >= 0 =>
        /\ cursor[s] <= next
        /\ cursor[s] = start[s] + Len(out[s])
        /\ \A i \in 1..Len(out[s]) : out[s][i] = start[s] + i - 1

Parked(r) == pc[r] \in {"waiting", "awaiting"}
Posted(r) == \E cb \in callbacks : r \in cb

(***************************************************************************)
(* No lost wake-up: a parked reader with no wake-up on its way has nothing *)
(* to be woken for, and an async one is registered so that the next put,   *)
(* close or fail will find it.                                             *)
(***************************************************************************)
NoLostWakeup ==
    \A r \in Readers : Parked(r) /\ ~Posted(r) =>
        /\ terminal = "open"
        /\ cursor[SubOf[r]] = next
        /\ why[SubOf[r]] \in {"no", "timeout"}
        /\ r \in AsyncReaders => r \in waiters

(***************************************************************************)
(* A sync reader gives up only when its last check found nothing, even if  *)
(* its deadline passed while a put or a close was waking it, or an async   *)
(* reader of the same subscription advanced the cursor.                    *)
(***************************************************************************)
SyncTimeoutFindsNothing ==
    [][\A r \in SyncReaders :
          LET s == SubOf[r] IN
          pc[r] = "expired" /\ pc'[r] = "ended" /\ why[s] = "no" /\ why'[s] = "timeout"
             => cursor[s] = next /\ terminal = "open"]_vars

\* A reader parked while there is something for it is eventually resumed.
ParkedReadersResume ==
    \A r \in Readers :
        (Parked(r) /\ (cursor[SubOf[r]] < next \/ terminal # "open")) ~> ~Parked(r)

(***************************************************************************)
(* The Tunnel implements the replay log.                                   *)
(***************************************************************************)
Log == INSTANCE ReplayLog WITH count <- next
LogSpec == Log!Spec
=============================================================================
