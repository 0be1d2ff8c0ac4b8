----------------------------- MODULE StageStream -----------------------------
(***************************************************************************)
(* A generator run by a Stage scope and read through a Tunnel              *)
(* (src/agently_stage/StageStream.py, Stage._go_stream), under the scope's *)
(* idle clock.  Three components meet here: the scope's idle timeout       *)
(* (IdleTimeout), the Tunnel, of which readers and source only see the     *)
(* replay log it implements (ReplayLog), and the stream itself: lazy       *)
(* start, the consumer of the source, cancellation and close().            *)
(*                                                                         *)
(* An asynchronous source is consumed by the handle's body on the loop; a  *)
(* synchronous one by a blocking worker the body waits for.                *)
(*                                                                         *)
(* The source has several runs only if registering the early callbacks     *)
(* raises: the handle of that run is then dropped, and the next caller     *)
(* starts the source again, on the same Tunnel.                            *)
(***************************************************************************)
EXTENDS IdleTimeout, Sequences

CONSTANTS
    MaxStarts, \* bound on how often the source is started
    Readers,   \* iterators over the stream
    Closers,   \* threads that close the stream
    MaxItems,  \* bound on items of the source
    MaxActs    \* bound on starts, cancel() and close() timeouts of the user and
               \* acts of other work

\* The runs of the source, numbered as they start; the rest of Work is other work.
Runs == 1..MaxStarts
Others == Work \ Runs

\* Who may start the source, holding _start_lock: code of the scope, any other
\* thread, or a close().
Starters == {"owned", "thread"} \cup Closers

ASSUME StreamAssumption ==
    /\ MaxStarts \in Nat \ {0} /\ Runs \subseteq Work
    /\ MaxItems \in Nat /\ MaxActs \in Nat
    /\ Closers \cap {"no", "yes", "owned", "thread"} = {}

VARIABLES
    count, terminal, start, out, why,  \* the Tunnel, as a ReplayLog
    source,     \* "async" or "sync"
    lazyCb,     \* a callback in _pending_callbacks
    started,    \* history: how often start() was called, the latest run
    raised,     \* history: how often registering the callbacks raised
    bound,      \* _handle is set ("yes") or not, or who is setting it
    handle,     \* the body of each run: see HandleStates
    consumer,   \* the code that iterates the source: see ConsumerStates
    ending,     \* how the consumer is going to end
    outcome,    \* how the body ended
    cancelAsked,\* a cancellation is on its way to the body
    stop,       \* source_stop is set
    closed,     \* StageStream._closed
    closer,     \* progress of each close()
    acts

logVars    == <<count, terminal, start, out, why>>
sourceVars == <<source, consumer, ending>>
startVars  == <<lazyCb, started, raised, bound>>
bodyVars   == <<handle, outcome, cancelAsked>>
closeVars  == <<stop, closed, closer>>
vars == <<idleVars, logVars, sourceVars, startVars, bodyVars, closeVars, acts>>

Log == INSTANCE ReplayLog WITH Subscriptions <- Readers, MaxHistory <- 0

\* gated: submitted, the body has not begun or waits for its permit;
\* shielded: cancelled, but it waits for its blocking worker first.
HandleStates == {"none", "gated", "running", "shielded", "done", "settled"}

\* unmade: the generator does not exist; broken: its factory raised;
\* fetching: in next() or __anext__(); closing: in the generator's close().
ConsumerStates == {"unmade", "broken", "fetching", "closing", "over"}

Init ==
    /\ IdleInit
    /\ Log!Init
    /\ source \in {"async", "sync"}
    /\ lazyCb = FALSE /\ started = 0 /\ raised = 0 /\ bound = "no"
    /\ handle = [i \in Runs |-> "none"] /\ outcome = [i \in Runs |-> "none"]
    /\ cancelAsked = [i \in Runs |-> FALSE]
    /\ consumer = [i \in Runs |-> "unmade"] /\ ending = [i \in Runs |-> "none"]
    /\ stop = FALSE /\ closed = FALSE
    /\ closer = [c \in Closers |-> "idle"]
    /\ acts = 0

\* put, close and fail on a Tunnel that has ended do nothing or raise.
Accept == Log!Accept
Terminate(how) ==
    IF terminal = "open" THEN Log!Terminate /\ terminal' = how ELSE UNCHANGED logVars

HandleTo(i, state) == handle' = [handle EXCEPT ![i] = state]
ConsumerTo(i, state) == consumer' = [consumer EXCEPT ![i] = state]
EndsAs(i, how) == ending' = [ending EXCEPT ![i] = how]
CancelTaken(i) == cancelAsked' = [cancelAsked EXCEPT ![i] = FALSE]

-----------------------------------------------------------------------------
(* Starting                                                                *)

Counted == started + acts < MaxActs /\ acts' = acts + 1

\* Work the scope has had may have left code behind that still counts as its own.
HasHadWork == started + acts > 0
OwnedCode == active # {} \/ HasHadWork

\* A closer that found _handle unset starts the source.
WantsStart(by) ==
    /\ by \in Closers => closer[by] \in {"first", "again"}
    /\ IF by = "owned" THEN OwnedCode ELSE ~sealed

MayStart_Again == bound \notin Starters
MayStart == bound = "no"

\* _ensure_started, under _start_lock: start() has Stage.go admit the handle ...
StartSource(by) ==
    /\ MayStart /\ started < MaxStarts /\ started + acts < MaxActs
    /\ WantsStart(by)
    /\ Admit(started + 1)
    /\ started' = started + 1
    /\ HandleTo(started + 1, "gated")
    /\ bound' = IF lazyCb THEN by ELSE "yes"
    /\ UNCHANGED <<logVars, sourceVars, lazyCb, raised, outcome, cancelAsked, closeVars, acts>>

\* ... and the callbacks that waited for it are registered.  A handle that has
\* settled meanwhile becomes active again to run them.
BindHandle ==
    /\ bound \in Starters /\ (bound = "owned" \/ ~sealed)
    /\ bound' = "yes" /\ lazyCb' = FALSE
    /\ IF handle[started] = "settled"
         THEN Revive(started) /\ HandleTo(started, "done")
         ELSE UNCHANGED <<idleVars, handle>>
    /\ UNCHANGED <<logVars, sourceVars, started, raised, outcome, cancelAsked, closeVars, acts>>

\* A scope sealed in between refuses them, and so does one whose active backend
\* is another than that of a handle that has ended, or whose loop is gone; the
\* refused drain may leave the handle among the active ones.  _handle stays
\* unset while the source runs, and the callbacks keep waiting for it.
Refused ==
    \/ bound # "owned" /\ sealed /\ UNCHANGED idleVars
    \/ handle[started] \in {"done", "settled"} /\ UNCHANGED idleVars
    \/ handle[started] = "settled" /\ Revive(started)
BindRaises ==
    /\ bound \in Starters
    /\ Refused
    /\ bound' = "no" /\ raised' = raised + 1
    /\ closer' = IF bound \in Closers THEN [closer EXCEPT ![bound] = "idle"] ELSE closer
    /\ UNCHANGED <<logVars, sourceVars, lazyCb, started, bodyVars, stop, closed, acts>>

\* on_success and the like, before the first reader
RegisterEarly ==
    /\ bound = "no" /\ ~lazyCb
    /\ lazyCb' = TRUE
    /\ UNCHANGED <<idleVars, logVars, sourceVars, started, raised, bound, bodyVars, closeVars, acts>>

-----------------------------------------------------------------------------
(* The body of run i and its consumer of the source                        *)

\* The body begins, or gets its permit, and calls the generator function.
BodyBegins(i) ==
    /\ handle[i] = "gated"
    /\ HandleTo(i, "running")
    /\ \/ ConsumerTo(i, "broken") /\ EndsAs(i, "error") /\ UNCHANGED logVars
       \/ ~stop /\ ConsumerTo(i, "fetching") /\ UNCHANGED <<ending, logVars>>
       \/ stop /\ Terminate("closed") /\ ConsumerTo(i, "closing") /\ EndsAs(i, "ok")
    /\ UNCHANGED <<idleVars, source, startVars, outcome, cancelAsked, closeVars, acts>>

BodyDone(i, how) ==
    /\ HandleTo(i, "done")
    /\ outcome' = [outcome EXCEPT ![i] = how]
    /\ Activity

\* The cancellation arrives while the body waits for its permit.
CancelledAtGate(i) ==
    /\ handle[i] = "gated" /\ cancelAsked[i]
    /\ BodyDone(i, "cancelled") /\ CancelTaken(i)
    /\ UNCHANGED <<logVars, sourceVars, startVars, closeVars, acts>>

(***************************************************************************)
(* The source yields.  The asynchronous loop looks at source_stop between  *)
(* the item and its put; the synchronous one only before it fetches.       *)
(* Every put is followed by tick().  A put on a Tunnel that another run    *)
(* has ended raises (SourceRaises).                                        *)
(***************************************************************************)
DropsItem == source = "async" /\ stop
Yields(i) ==
    /\ consumer[i] = "fetching" /\ ~DropsItem /\ count < MaxItems
    /\ Accept
    /\ ConsumerTo(i, IF stop THEN "closing" ELSE "fetching")
    /\ EndsAs(i, IF stop THEN "ok" ELSE ending[i])
    /\ IF sealed \/ active = {} THEN UNCHANGED idleVars ELSE Activity
    /\ UNCHANGED <<source, startVars, bodyVars, closeVars, acts>>

\* The source is exhausted, or an item meets source_stop.
Exhausted(i) ==
    /\ consumer[i] = "fetching"
    /\ ConsumerTo(i, "closing") /\ EndsAs(i, "ok")
    /\ UNCHANGED <<idleVars, logVars, source, startVars, bodyVars, closeVars, acts>>

SourceRaises(i) ==
    /\ consumer[i] = "fetching"
    /\ Terminate("failed")
    /\ ConsumerTo(i, "closing") /\ EndsAs(i, "error")
    /\ UNCHANGED <<idleVars, source, startVars, bodyVars, closeVars, acts>>

\* A cancellation reaches the asynchronous consumer in its await: the Tunnel
\* is closed, and an aclose() that is interrupted fails it.
CancelEnds_Silently(i) == UNCHANGED logVars
CancelEnds(i) == Terminate(IF consumer[i] = "fetching" THEN "closed" ELSE "failed")
CancelArrives(i) ==
    /\ handle[i] = "running" /\ source = "async" /\ cancelAsked[i]
    /\ consumer[i] \in {"fetching", "closing"}
    /\ CancelEnds(i)
    /\ ConsumerTo(i, IF consumer[i] = "fetching" THEN "closing" ELSE "over")
    /\ EndsAs(i, "cancelled")
    /\ CancelTaken(i)
    /\ UNCHANGED <<idleVars, source, startVars, handle, outcome, closeVars, acts>>

\* It reaches the body that awaits a blocking worker: the first one waits for
\* the worker, a second one abandons it.
CancelReachesWaiting(i) ==
    /\ handle[i] = "running" /\ source = "sync" /\ cancelAsked[i]
    /\ consumer[i] \in {"fetching", "closing", "broken"}
    /\ CancelTaken(i)
    /\ UNCHANGED <<logVars, sourceVars, startVars, closeVars, acts>>
CancelShielded_NoWait(i) == CancelReachesWaiting(i) /\ BodyDone(i, "cancelled")
CancelShielded(i) ==
    /\ CancelReachesWaiting(i)
    /\ HandleTo(i, "shielded")
    /\ UNCHANGED <<idleVars, outcome>>
CancelAbandons(i) ==
    /\ handle[i] = "shielded" /\ cancelAsked[i]
    /\ consumer[i] \in {"fetching", "closing"}
    /\ BodyDone(i, "abandoned") /\ CancelTaken(i)
    /\ UNCHANGED <<logVars, sourceVars, startVars, closeVars, acts>>

(***************************************************************************)
(* The generator's close() returns or raises; then the end is published.   *)
(***************************************************************************)
PublishEnd(i, ok) ==
    IF ~ok THEN Terminate("failed")
    ELSE IF ending[i] = "ok" THEN Terminate("closed") ELSE UNCHANGED logVars
SourceClosed(i, ok) ==
    /\ consumer[i] = "closing"
    /\ PublishEnd(i, ok)
    /\ ConsumerTo(i, "over")
    /\ EndsAs(i, IF ok THEN ending[i] ELSE "error")
    /\ UNCHANGED <<idleVars, source, startVars, bodyVars, closeVars, acts>>

\* The body ends with its consumer, and tells the idle clock.
BodyEnds(i) ==
    /\ handle[i] \in {"running", "shielded"}
    /\ consumer[i] \in {"over", "broken"}
    /\ BodyDone(i, IF handle[i] = "shielded" /\ ending[i] = "ok" THEN "cancelled" ELSE ending[i])
    /\ CancelTaken(i)
    /\ UNCHANGED <<logVars, sourceVars, startVars, closeVars, acts>>

\* Callbacks have run and the handle leaves the scope.
HandleSettles(i) ==
    /\ handle[i] = "done"
    /\ Settle(i)
    /\ HandleTo(i, "settled")
    /\ UNCHANGED <<logVars, sourceVars, startVars, outcome, cancelAsked, closeVars, acts>>

\* StageHandle.cancel
Cancellable == {"gated", "running", "shielded"}
AskCancel(i) == cancelAsked' = [cancelAsked EXCEPT ![i] = @ \/ handle[i] \in Cancellable]

-----------------------------------------------------------------------------
(* Readers                                                                 *)

\* iter(stream) or aiter(stream): replay from the first item
Iterate(r) ==
    /\ bound = "yes"
    /\ Log!Subscribe(r) /\ start'[r] = 0
    /\ UNCHANGED <<idleVars, sourceVars, startVars, bodyVars, closeVars, acts>>

Reads(r) ==
    /\ Log!Deliver(r) \/ (Log!End(r) /\ why'[r] \in {"eof", "failure"})
    /\ UNCHANGED <<idleVars, sourceVars, startVars, bodyVars, closeVars, acts>>

-----------------------------------------------------------------------------
(* close()                                                                 *)

CloserTo(c, state) == closer' = [closer EXCEPT ![c] = state]

CloseBegins(c) ==
    /\ closer[c] = "idle" /\ bound \in {"no", "yes"}
    /\ CloserTo(c, IF closed THEN "again" ELSE "first")
    /\ closed' = TRUE /\ stop' = TRUE
    /\ UNCHANGED <<idleVars, logVars, sourceVars, startVars, bodyVars, acts>>

\* The first request cancels the body; both then wait for settlement.
CloseCancels(c) ==
    /\ bound = "yes"
    /\ closer[c] \in {"first", "again"}
    /\ CloserTo(c, "waiting")
    /\ IF closer[c] = "first" THEN AskCancel(started) ELSE UNCHANGED cancelAsked
    /\ UNCHANGED <<idleVars, logVars, sourceVars, startVars, handle, outcome, stop, closed, acts>>

\* _ensure_started raises: the scope is sealed, or has no loop for the handle.
CloseRaises(c) ==
    /\ closer[c] \in {"first", "again"} /\ bound = "no"
    /\ CloserTo(c, "idle")
    /\ UNCHANGED <<idleVars, logVars, sourceVars, startVars, bodyVars, stop, closed, acts>>

CloseReturns(c) ==
    /\ closer[c] = "waiting" /\ handle[started] = "settled"
    /\ CloserTo(c, "returned")
    /\ UNCHANGED <<idleVars, logVars, sourceVars, startVars, bodyVars, stop, closed, acts>>

\* wait_settled(timeout) gives up; close may be called again.
CloseTimesOut(c) ==
    /\ closer[c] = "waiting" /\ handle[started] # "settled"
    /\ CloserTo(c, "idle") /\ Counted
    /\ UNCHANGED <<idleVars, logVars, sourceVars, startVars, bodyVars, stop, closed>>

-----------------------------------------------------------------------------
(* The rest of the scope                                                   *)

Rest == UNCHANGED <<logVars, sourceVars, startVars, bodyVars, closeVars>>

OtherAdmitted(w) == w \in Others /\ (~sealed \/ OwnedCode) /\ Admit(w) /\ Rest /\ Counted
OtherRevived(w)  == w \in Others /\ (~sealed \/ OwnedCode) /\ Revive(w) /\ Rest /\ Counted
\* a handle, or an adopted task
OtherDone(w)     == w \in Others /\ (Settle(w) \/ AdoptedDone(w)) /\ Rest /\ UNCHANGED acts
OtherTicks == StageTick /\ Rest /\ Counted
ScopeSealed == Seal /\ Rest /\ UNCHANGED acts

\* The user, or cancel_and_wait_settled, cancels the handle.
HandleCancelled(i) ==
    /\ handle[i] \in Cancellable
    /\ AskCancel(i) /\ Counted
    /\ UNCHANGED <<idleVars, logVars, sourceVars, startVars, handle, outcome, closeVars>>

Clock == ClockTick /\ Rest /\ UNCHANGED acts
Deadline == (DeadlineReached \/ StaleDeadline) /\ Rest /\ UNCHANGED acts
DeadlineCancels(w) ==
    /\ CancelDoomed(w)
    /\ IF w \in Runs THEN AskCancel(w) ELSE UNCHANGED cancelAsked
    /\ UNCHANGED <<logVars, sourceVars, startVars, handle, outcome, closeVars, acts>>

-----------------------------------------------------------------------------
BodySteps(i) == \/ BodyBegins(i) \/ CancelledAtGate(i) \/ CancelArrives(i) \/ CancelShielded(i)
                \/ CancelAbandons(i) \/ BodyEnds(i) \/ HandleSettles(i)
SourceSteps(i) == Yields(i) \/ Exhausted(i) \/ SourceRaises(i)
CloseSteps(c) == CloseCancels(c) \/ CloseRaises(c) \/ CloseReturns(c)

Next ==
    \/ \E by \in Starters : StartSource(by)
    \/ BindHandle \/ BindRaises \/ RegisterEarly
    \/ \E i \in Runs : BodySteps(i) \/ SourceSteps(i) \/ HandleCancelled(i)
    \/ \E i \in Runs, ok \in BOOLEAN : SourceClosed(i, ok)
    \/ \E r \in Readers : Iterate(r) \/ Reads(r)
    \/ \E c \in Closers : CloseBegins(c) \/ CloseSteps(c) \/ CloseTimesOut(c)
    \/ \E w \in Work : OtherAdmitted(w) \/ OtherRevived(w) \/ OtherDone(w) \/ DeadlineCancels(w)
    \/ OtherTicks \/ ScopeSealed
    \/ Clock \/ Deadline

Spec == Init /\ [][Next]_vars

(***************************************************************************)
(* Time passes, due timers get the lock, posted cancellations reach their  *)
(* task, the generator's close() returns and readers read.  The source     *)
(* itself owes nothing: it may never yield again.                          *)
(***************************************************************************)
FairSpec ==
    /\ Spec
    /\ WF_vars(Clock) /\ WF_vars(Deadline)
    /\ \A w \in Work : WF_vars(DeadlineCancels(w))
    /\ \A i \in Runs : /\ WF_vars(BodySteps(i))
                       /\ WF_vars(\E ok \in BOOLEAN : SourceClosed(i, ok))
    /\ \A r \in Readers : WF_vars(Reads(r))

-----------------------------------------------------------------------------
(* Properties                                                              *)

\* Type invariant.
TypeOK ==
    /\ IdleTypeOK
    /\ count \in 0..MaxItems
    /\ source \in {"async", "sync"}
    /\ lazyCb \in BOOLEAN /\ bound \in {"no", "yes"} \cup Starters
    /\ started \in 0..MaxStarts /\ raised \in 0..MaxStarts
    /\ handle \in [Runs -> HandleStates] /\ consumer \in [Runs -> ConsumerStates]
    /\ ending \in [Runs -> {"none", "ok", "error", "cancelled"}]
    /\ outcome \in [Runs -> {"none", "ok", "error", "cancelled", "abandoned"}]
    /\ cancelAsked \in [Runs -> BOOLEAN] /\ stop \in BOOLEAN /\ closed \in BOOLEAN
    /\ closer \in [Closers -> {"idle", "first", "again", "waiting", "returned"}]
    /\ acts \in 0..MaxActs

(***************************************************************************)
(* The idle timeout strikes only after a whole idle_timeout without any    *)
(* activity in an epoch that has lasted that long: a timer left over from  *)
(* an earlier epoch, or one that fires while work arrives, does not seal   *)
(* and cancel the scope (_idle_deadline_reached).                          *)
(***************************************************************************)
NoPrematureTimeout ==
    [][timedOut' # timedOut => calm = Timeout /\ active # {}]_vars

(***************************************************************************)
(* A body that has ended has published it: readers get the end of stream   *)
(* after a result, and the end or the failure after an error or a          *)
(* cancellation (consume_async_source, consume_sync_source).  Of several   *)
(* runs the first to end decides: a result may then meet a Tunnel that     *)
(* another run has failed.  Left out is a source that was never made,      *)
(* because its factory raised or the body was cancelled at its admission   *)
(* gate: then the Tunnel stays open.                                       *)
(***************************************************************************)
EndIsPublished ==
    \A i \in Runs :
        handle[i] \in {"done", "settled"} /\ consumer[i] \notin {"unmade", "broken"} =>
            /\ outcome[i] = "ok" => terminal = "closed" \/ (started > 1 /\ terminal = "failed")
            /\ outcome[i] \in {"error", "cancelled"} => terminal # "open"

(***************************************************************************)
(* README.md, streams: a close() that has returned waited for settlement:  *)
(* the run that _handle stands for has closed its source and publishes     *)
(* nothing more.  Exempt is a blocking source whose body was cancelled     *)
(* twice (see CancelAbandons).  A run whose callbacks were refused is not  *)
(* waited for by anybody, and may go on (see BindRaises).                  *)
(***************************************************************************)
QuietAfterClose ==
    \A c \in Closers :
        closer[c] = "returned" /\ outcome[started] # "abandoned" =>
            consumer[started] \in {"unmade", "broken", "over"}

(***************************************************************************)
(* The source is started once, however many readers, closers and callbacks *)
(* ask for it, and once more each time the registration of the callbacks   *)
(* that waited for it raised (_ensure_started).                            *)
(***************************************************************************)
StartedOnce == started <= 1 + raised

(***************************************************************************)
(* With an idle_timeout every reader of an asynchronous source ends, even  *)
(* if the source never yields again: the deadline cancels the body and the *)
(* Tunnel is closed.  This needs a scope with a deadline: seal() drops it, *)
(* and so does the deadline's own epoch for code that outlives it.  And it *)
(* needs a source that was made, and a body that reaches its loop.         *)
(***************************************************************************)
ReadersEnd ==
    \A r \in Readers :
        (start[r] = 0 /\ source = "async") ~>
            \/ why[r] # "no"
            \/ sealed /\ ~cancelling /\ active # {}
            \/ \E i \in Runs : /\ i = started /\ handle[i] \in {"done", "settled"}
                             /\ consumer[i] \in {"unmade", "broken"}
=============================================================================
