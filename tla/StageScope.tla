----------------------------- MODULE StageScope -----------------------------
(***************************************************************************)
(* One Stage scope and its handles: admission of go(), settlement of each  *)
(* handle's retained work, callbacks, cancellation and the barriers        *)
(* wait_settled, cancel_and_wait_settled and close                         *)
(* (src/agently_stage/Stage.py and StageHandle.py).                        *)
(*                                                                         *)
(* Two locks matter: the scope lock of the Stage and the state lock of     *)
(* each handle.  A critical section is one action; in particular the       *)
(* release that makes a handle quiescent and the scope's reaction to it    *)
(* (_handle_quiescent) are two, because the code drops the state lock      *)
(* before it takes the scope lock.                                         *)
(***************************************************************************)
EXTENDS Integers, Sequences, FiniteSets

CONSTANTS
    Handles,        \* calls of go()
    Tasks,          \* native tasks given to create_task() or adopt()
    Waiters,        \* threads that call a barrier
    Backends,       \* where an epoch of this scope may run: the carrier ("stage"),
                    \* the caller's loop ("caller"), or either (loop="auto")
    MaxCallbacks,   \* bound on the callbacks of each handle
    MaxKids,        \* bound on the live spawned tasks of each handle
    LateCallbacks,  \* callbacks registered after the body completed: "never",
                    \* "any", or only "outsideWindow", see RegisterLate
    Lingers,        \* may code of a handle spawn tasks after its body is over?
    Strays,         \* may code of a handle outlive its retained work?
    LoopPauses,     \* may the caller's loop stop running between two runs?
    Cancels,        \* may a handle be cancelled?
    Cancellers,     \* threads that may call cancel_and_wait_settled()
    Timeouts,       \* may a barrier time out?
    Failing         \* what tasks and callbacks may do: {FALSE}, or fail as well

ASSUME ScopeAssumption ==
    /\ Handles \cap Tasks = {} /\ "none" \notin Handles
    /\ Backends \subseteq {"stage", "caller"} /\ Backends # {}
    /\ MaxCallbacks \in [Handles -> Nat] /\ MaxKids \in [Handles -> Nat]
    /\ LateCallbacks \in {"never", "outsideWindow", "any"}
    /\ Cancellers \subseteq Waiters
    /\ {Lingers, Strays, LoopPauses, Cancels, Timeouts} \subseteq BOOLEAN
    /\ Failing \subseteq BOOLEAN

VARIABLES
    sealed, closeCompleted, cancelling,
    active,      \* Stage._active_handles
    adopted,     \* Stage._adopted_tasks
    epoch,       \* Stage._active_backend, "none" between epochs; a carrier is leased
    scopeErrors, \* Stage._scope_settlement_errors is not empty
    kind,        \* StageHandle._backend_kind
    body,        \* where go()'s body is, per handle
    pending,     \* StageHandle._pending_work
    kids,        \* retained tasks the body or a callback spawned
    cancelReq,   \* StageHandle._cancel_requested
    goCancel,    \* go() saw _cancelling and has still to cancel the handle
    quiescing,   \* threads between the release to zero and _handle_quiescent
    errors,      \* handles with a settlement error the scope has not seen
    failed,      \* handles that ever recorded one (history)
    callbacks,   \* StageHandle._callbacks, by order of registration
    registered,  \* callbacks registered so far
    ran,         \* callbacks that were executed
    drain,       \* the active callback drain
    current,     \* the callback it is executing; 0: none
    exiting,     \* drains that found the queue empty and have still to release
    wpc, todo,   \* barrier calls; handles a cancelling barrier has to cancel
    closer,      \* holders of _close_operation_lock
    outer,       \* the handle on which the runner of a nested go() is retained
    nested,      \* runners retained on each handle, besides its own tasks
    stray        \* code with this scope's context has outlived its retained work

scopeVars  == <<sealed, closeCompleted, cancelling, active, adopted, epoch, scopeErrors>>
bodyVars   == <<kind, body, pending, kids, cancelReq, goCancel, quiescing, errors, failed>>
cbVars     == <<callbacks, registered, ran, drain, current, exiting>>
waitVars   == <<wpc, todo, closer>>
lineage    == <<outer, nested, stray>>
vars == <<scopeVars, bodyVars, cbVars, waitVars, lineage>>

\* admitted: in _active_handles, not yet submitted; done: outcome set, its
\* retained runner has still to release; lost: cancelled before its first step.
BodyStates == {"none", "admitted", "refused", "scheduled", "running", "done", "released", "lost"}
BodyHolds  == {"scheduled", "running", "done", "lost"}
BodyOver   == {"done", "released"}
\* settled: close() has waited and has still to set _close_completed.
WaiterStates == {"idle", "cancelling", "checking", "waiting", "settled", "returned"}

Init ==
    /\ sealed = FALSE /\ closeCompleted = FALSE /\ cancelling = FALSE
    /\ active = {} /\ adopted = {} /\ epoch = "none" /\ scopeErrors = FALSE
    /\ body = [h \in Handles |-> "none"]
    /\ kind = [h \in Handles |-> "none"]
    /\ pending = [h \in Handles |-> 0]
    /\ kids = [h \in Handles |-> 0]
    /\ cancelReq = [h \in Handles |-> FALSE]
    /\ goCancel = {}
    /\ quiescing = [h \in Handles |-> 0]
    /\ errors = {} /\ failed = {}
    /\ callbacks = [h \in Handles |-> <<>>]
    /\ registered = [h \in Handles |-> 0]
    /\ ran = [h \in Handles |-> <<>>]
    /\ drain = [h \in Handles |-> "none"]
    /\ current = [h \in Handles |-> 0]
    /\ exiting = [h \in Handles |-> 0]
    /\ wpc = [w \in Waiters |-> "idle"]
    /\ todo = [w \in Waiters |-> {}]
    /\ closer = {}
    /\ outer = [h \in Handles |-> "none"]
    /\ nested = [h \in Handles |-> 0]
    /\ stray = FALSE

-----------------------------------------------------------------------------
(* Retained work of a handle                                               *)

Retain_Forgotten(h) == UNCHANGED pending
Retain(h) == pending' = [pending EXCEPT ![h] = @ + 1]

\* _release_work: the thread that brings it to zero must tell the scope.
Release(h) ==
    /\ pending' = [pending EXCEPT ![h] = @ - 1]
    /\ quiescing' = [quiescing EXCEPT ![h] = IF pending[h] = 1 THEN @ + 1 ELSE @]

\* Retained work of this scope is executing code.
CodeRuns(h) == body[h] = "running" \/ current[h] # 0 \/ kids[h] > 0
OwnedWorkRuns == adopted # {} \/ \E h \in Handles : CodeRuns(h)

HasActiveWork == active # {} \/ adopted # {}

\* _active_stage.get() is self in retained code, and in whatever took a copy of
\* its context: a raw task on the caller's loop, a timer, a worker thread that a
\* second cancellation abandoned.  Nothing bounds the life of those.
LeavesBehind ==
    /\ Strays /\ ~stray
    /\ OwnedWorkRuns
    /\ stray' = TRUE
    /\ UNCHANGED <<scopeVars, bodyVars, cbVars, waitVars, outer, nested>>

\* The runner of h is retained on the handle whose code called go().
Nested(h) == outer[h] \in Handles

\* notify_all on the scope condition
Notify == wpc' = [w \in Waiters |-> IF wpc[w] = "waiting" THEN "checking" ELSE wpc[w]]

\* _release_backend_if_quiescent_locked, and the notification that goes with it
Quiesce_Silent(handles, tasks) ==
    IF handles # {} \/ tasks # {} THEN UNCHANGED <<epoch, cancelling, wpc>>
    ELSE epoch' = "none" /\ cancelling' = FALSE /\ UNCHANGED wpc

Quiesce_Eager(handles, tasks) ==
    IF handles # {} \/ tasks # {} THEN epoch' = "none" /\ UNCHANGED <<cancelling, wpc>>
    ELSE epoch' = "none" /\ cancelling' = FALSE /\ Notify

Quiesce(handles, tasks) ==
    IF handles # {} \/ tasks # {} THEN UNCHANGED <<epoch, cancelling, wpc>>
    ELSE epoch' = "none" /\ cancelling' = FALSE /\ Notify

-----------------------------------------------------------------------------
(* go()                                                                    *)

\* _resolve_backend_locked: the first work of an epoch selects the backend (and
\* leases a generation on the carrier); later work joins it.
JoinEpoch(b) ==
    /\ epoch \in {"none", b}
    /\ epoch' = b

\* Not sealed, or the caller has the context of this scope.
MayGo_WhenSealed == TRUE
MayGo == ~sealed \/ OwnedWorkRuns \/ stray

\* The task factory will retain the runner on the handle whose code calls go() on
\* the carrier; "none" for a call from anywhere else.
Callers(b) ==
    {"none"} \cup
    {o \in Handles : b = "stage" /\ kind[o] = "stage"
                        /\ (CodeRuns(o) \/ (stray /\ body[o] \in BodyOver))}

\* Under the scope lock: select or join the epoch, create the handle, register
\* n initial callbacks, and note whether the scope is being cancelled.
SeesFence_No == FALSE
SeesFence == cancelling

Go(h, n) ==
    /\ body[h] = "none"
    /\ MayGo
    /\ active' = active \cup {h}
    /\ \E b \in Backends :
          /\ JoinEpoch(b)
          /\ kind' = [kind EXCEPT ![h] = b]
          /\ \E o \in Callers(b) : outer' = [outer EXCEPT ![h] = o]
    /\ body' = [body EXCEPT ![h] = "admitted"]
    /\ callbacks' = [callbacks EXCEPT ![h] = [i \in 1..n |-> i]]
    /\ registered' = [registered EXCEPT ![h] = n]
    /\ goCancel' = IF SeesFence THEN goCancel \cup {h} ELSE goCancel
    /\ UNCHANGED <<sealed, closeCompleted, cancelling, adopted, scopeErrors, pending, kids,
                   cancelReq, quiescing, errors, failed, ran, drain, current, exiting, waitVars,
                   nested, stray>>

\* Outside it: hand the body to the carrier or to the caller's loop.
GoSubmit(h) ==
    /\ body[h] = "admitted"
    /\ Retain(h)
    /\ body' = [body EXCEPT ![h] = "scheduled"]
    /\ UNCHANGED <<scopeVars, kind, kids, cancelReq, goCancel, quiescing, errors, failed, cbVars, waitVars, lineage>>

\* The submission raises: work was retained and is released again.
GoRefused(h) ==
    /\ body[h] = "admitted"
    /\ body' = [body EXCEPT ![h] = "refused"]
    /\ quiescing' = [quiescing EXCEPT ![h] = @ + 1]
    /\ goCancel' = goCancel \ {h}
    /\ UNCHANGED <<scopeVars, kind, pending, kids, cancelReq, errors, failed, cbVars, waitVars, lineage>>

\* StageHandle.cancel has an effect until the body is over and its tasks gone.
CancelCounts(h) == body[h] \notin BodyOver \/ kids[h] > 0 \/ nested[h] > 0

\* ... and the handle is cancelled if the scope was being cancelled.
GoCancels(h) ==
    /\ h \in goCancel /\ body[h] # "admitted"
    /\ goCancel' = goCancel \ {h}
    /\ cancelReq' = [cancelReq EXCEPT ![h] = @ \/ CancelCounts(h)]
    /\ UNCHANGED <<scopeVars, kind, body, pending, kids, quiescing, errors, failed, cbVars, waitVars, lineage>>

-----------------------------------------------------------------------------
(* The body and its spawned tasks                                          *)

(***************************************************************************)
(* The task of the body is created and makes its first step.               *)
(*   - On the caller's loop start() registers the new task first; if a     *)
(*     cancel was asked for, the task ends before its first step.          *)
(*   - On the carrier the task registers itself in its first step, and a   *)
(*     cancel asked for before is delivered inside the guarded part.  But  *)
(*     the task factory retains it on the handle whose code submitted it,  *)
(*     and cancels it at once if that handle is cancelled (unless that     *)
(*     code is a callback, which cancel() leaves alone).  The submitting   *)
(*     code may also belong to a cancelled handle of another Stage.        *)
(* A task that ends before its first step sets no outcome and releases no  *)
(* work: the body is lost.                                                 *)
(***************************************************************************)
Forsaken(h) == IF Nested(h) THEN cancelReq[outer[h]] ELSE Cancels

Starts(h) ==
    IF kind[h] = "caller" /\ cancelReq[h] THEN {"lost"}
    ELSE {"running"} \cup {b \in {"lost"} : kind[h] = "stage" /\ Forsaken(h)}

\* It runs on the loop thread, so not inside that thread's _handle_quiescent.
StartBody(h) ==
    /\ body[h] = "scheduled"
    /\ \E b \in Starts(h) : body' = [body EXCEPT ![h] = b]
    /\ IF Nested(h)
       THEN /\ quiescing[outer[h]] = 0
            /\ nested' = [nested EXCEPT ![outer[h]] = @ + 1]
            /\ Retain(outer[h])
       ELSE UNCHANGED <<nested, pending>>
    /\ UNCHANGED <<scopeVars, kind, kids, cancelReq, goCancel, quiescing, errors, failed, cbVars, waitVars,
                   outer, stray>>

\* _descendant_done of a runner, after its finally block or if it never started.
\* (nested[outer[h]] > 0 always holds then.)
RunnerGone(h) ==
    /\ Nested(h) /\ nested[outer[h]] > 0
    /\ body[h] \in {"released", "lost"}
    /\ outer' = [outer EXCEPT ![h] = "none"]
    /\ nested' = [nested EXCEPT ![outer[h]] = @ - 1]
    /\ Release(outer[h])
    /\ UNCHANGED <<scopeVars, kind, body, kids, cancelReq, goCancel, errors, failed, cbVars, waitVars, stray>>

SpawnKid(h) ==
    /\ kind[h] = "stage"
    /\ body[h] = "running" \/ kids[h] > 0 \/ current[h] # 0
    /\ kids[h] < MaxKids[h]
    /\ kids' = [kids EXCEPT ![h] = @ + 1]
    /\ Retain(h)
    /\ UNCHANGED <<scopeVars, kind, body, cancelReq, goCancel, quiescing, errors, failed, cbVars, waitVars, lineage>>

\* The same from a timer or a nested submission that the body left behind: it
\* carries the handle's lineage, whether or not the handle has settled since.
\* It runs on the loop thread, so not inside that thread's _handle_quiescent.
SpawnLate(h) ==
    /\ kind[h] = "stage" /\ Lingers
    /\ epoch = "stage" /\ quiescing[h] = 0
    /\ body[h] \in BodyOver
    /\ kids[h] < MaxKids[h]
    /\ kids' = [kids EXCEPT ![h] = @ + 1]
    /\ Retain(h)
    /\ UNCHANGED <<scopeVars, kind, body, cancelReq, goCancel, quiescing, errors, failed, cbVars, waitVars, lineage>>

\* _record_settlement_error
RecordError(h, bad) ==
    /\ errors' = IF bad THEN errors \cup {h} ELSE errors
    /\ failed' = IF bad THEN failed \cup {h} ELSE failed

\* _descendant_done; a task that failed leaves a settlement error.
KidDone(h, bad) ==
    /\ kids[h] > 0
    /\ kids' = [kids EXCEPT ![h] = @ - 1]
    /\ RecordError(h, bad)
    /\ Release(h)
    /\ UNCHANGED <<scopeVars, kind, body, cancelReq, goCancel, cbVars, waitVars, lineage>>

\* _activate_callback_drain_locked
DrainIdle(h) == drain[h] = "none"
Activates(h) == callbacks[h] # <<>> /\ DrainIdle(h)

\* _start_callback_drain_from_owner: the drain is a task that retains work of
\* its own, in the settlement phase, so that cancel() does not reach it.
StartDrain(h) ==
    /\ drain' = [drain EXCEPT ![h] = "scheduled"]
    /\ Retain(h)

\* _set_body_result / _set_body_exception / _set_body_cancelled, and the drain
\* they start.
BodyDone(h) ==
    /\ body[h] = "running"
    /\ body' = [body EXCEPT ![h] = "done"]
    /\ IF Activates(h)
       THEN StartDrain(h)
       ELSE UNCHANGED <<drain, pending>>
    /\ UNCHANGED <<scopeVars, kind, kids, cancelReq, goCancel, quiescing, errors, failed,
                   callbacks, registered, ran, current, exiting, waitVars, lineage>>

BodyReleases(h) ==
    /\ body[h] = "done"
    /\ body' = [body EXCEPT ![h] = "released"]
    /\ Release(h)
    /\ UNCHANGED <<scopeVars, kind, kids, cancelReq, goCancel, errors, failed, cbVars, waitVars, lineage>>

-----------------------------------------------------------------------------
(* Callbacks                                                               *)

\* _register_callback on a handle whose body is not over: it only queues.
RegisterCallback(h) ==
    /\ MayGo
    /\ body[h] \in {"scheduled", "running", "lost"}
    /\ registered[h] < MaxCallbacks[h]
    /\ registered' = [registered EXCEPT ![h] = @ + 1]
    /\ callbacks' = [callbacks EXCEPT ![h] = Append(@, registered[h] + 1)]
    /\ UNCHANGED <<scopeVars, bodyVars, ran, drain, current, exiting, waitVars, lineage>>

(***************************************************************************)
(* ... whose body is over: unless a drain is active it submits one, and    *)
(* puts the handle back among the active ones, possibly in a new epoch.    *)
(* The window is the time between the release that made the handle         *)
(* quiescent and _handle_quiescent, which does not look again.             *)
(***************************************************************************)
MayRegisterLate(h) ==
    /\ MayGo
    /\ body[h] \in BodyOver
    /\ registered[h] < MaxCallbacks[h]
    /\ \/ LateCallbacks = "any"
       \/ LateCallbacks = "outsideWindow" /\ quiescing[h] = 0

Reactivated(h) == active \cup {h}

RegisterLate(h) ==
    /\ MayRegisterLate(h)
    /\ registered' = [registered EXCEPT ![h] = @ + 1]
    /\ callbacks' = [callbacks EXCEPT ![h] = Append(@, registered[h] + 1)]
    /\ IF DrainIdle(h)
       THEN /\ active' = Reactivated(h)
            /\ JoinEpoch(kind[h])
            /\ StartDrain(h)
       ELSE UNCHANGED <<drain, active, epoch, pending>>
    /\ UNCHANGED <<sealed, closeCompleted, cancelling, adopted, scopeErrors, kind, body, kids, cancelReq,
                   goCancel, quiescing, errors, failed, ran, current, exiting, waitVars, lineage>>

(***************************************************************************)
(* The caller's loop is not running: the registration raises and takes the *)
(* callback back.  In an epoch that is still open the handle has been put  *)
(* among the active ones by then, and stays there.  (A registration that   *)
(* raises because the epoch is on another backend leaves no trace.)        *)
(***************************************************************************)
RegisterLateRefused(h) ==
    /\ LoopPauses /\ kind[h] = "caller" /\ epoch = "caller"
    /\ MayRegisterLate(h) /\ DrainIdle(h)
    /\ active' = Reactivated(h)
    /\ UNCHANGED <<sealed, closeCompleted, cancelling, adopted, epoch, scopeErrors, bodyVars, cbVars, waitVars, lineage>>

\* _drain_callbacks takes the next callback ...
DrainTakes_Last(h) == callbacks[h][Len(callbacks[h])]
DrainTakes(h) == Head(callbacks[h])

DrainNext(h) ==
    /\ drain[h] \in {"scheduled", "running"} /\ current[h] = 0
    /\ callbacks[h] # <<>>
    /\ drain' = [drain EXCEPT ![h] = "running"]
    /\ current' = [current EXCEPT ![h] = DrainTakes(h)]
    /\ callbacks' = [callbacks EXCEPT ![h] = Tail(@)]
    /\ UNCHANGED <<scopeVars, bodyVars, registered, ran, exiting, waitVars, lineage>>

\* ... executes it; a failure becomes a settlement error ...
DrainRuns(h, bad) ==
    /\ current[h] # 0
    /\ ran' = [ran EXCEPT ![h] = Append(@, current[h])]
    /\ current' = [current EXCEPT ![h] = 0]
    /\ RecordError(h, bad)
    /\ UNCHANGED <<scopeVars, kind, body, pending, kids, cancelReq, goCancel, quiescing,
                   callbacks, registered, drain, exiting, waitVars, lineage>>

\* ... and gives up its role when the queue is empty, then its work.
MayEnd_Always(h) == TRUE
MayEnd(h) == callbacks[h] = <<>>

DrainEnds(h) ==
    /\ drain[h] \in {"scheduled", "running"} /\ current[h] = 0
    /\ MayEnd(h)
    /\ drain' = [drain EXCEPT ![h] = "none"]
    /\ exiting' = [exiting EXCEPT ![h] = @ + 1]
    /\ UNCHANGED <<scopeVars, bodyVars, callbacks, registered, ran, current, waitVars, lineage>>

DrainReleases(h) ==
    /\ exiting[h] > 0
    /\ exiting' = [exiting EXCEPT ![h] = @ - 1]
    /\ Release(h)
    /\ UNCHANGED <<scopeVars, kind, body, kids, cancelReq, goCancel, errors, failed,
                   callbacks, registered, ran, drain, current, waitVars, lineage>>

-----------------------------------------------------------------------------
(* Scope settlement                                                        *)

\* _handle_quiescent.  Taking the errors and storing them are two critical
\* sections of one thread; the handle stays active in between.
Reported_None(h) == FALSE
Reported(h) == h \in errors

HandleQuiescent(h) ==
    /\ quiescing[h] > 0
    /\ quiescing' = [quiescing EXCEPT ![h] = @ - 1]
    /\ scopeErrors' = (scopeErrors \/ Reported(h))
    /\ errors' = errors \ {h}
    /\ active' = active \ {h}
    /\ Quiesce(active \ {h}, adopted)
    /\ UNCHANGED <<sealed, closeCompleted, adopted, kind, body, pending, kids, cancelReq, goCancel,
                   failed, cbVars, todo, closer, lineage>>

\* create_task() / adopt() on the caller's loop, and the task's end
Adopt(t) ==
    /\ "caller" \in Backends
    /\ MayGo
    /\ t \notin adopted
    /\ adopted' = adopted \cup {t}
    /\ JoinEpoch("caller")
    /\ UNCHANGED <<sealed, closeCompleted, cancelling, active, scopeErrors, bodyVars, cbVars, waitVars, lineage>>

AdoptedDone(t) ==
    /\ t \in adopted
    /\ adopted' = adopted \ {t}
    /\ Quiesce(active, adopted \ {t})
    /\ UNCHANGED <<sealed, closeCompleted, active, scopeErrors, bodyVars, cbVars, todo, closer, lineage>>

Seal ==
    /\ ~sealed
    /\ sealed' = TRUE
    /\ UNCHANGED <<closeCompleted, cancelling, active, adopted, epoch, scopeErrors, bodyVars, cbVars, waitVars, lineage>>

-----------------------------------------------------------------------------
(* Cancellation                                                            *)

HandleCancel(h) ==
    /\ Cancels
    /\ body[h] \notin {"none", "admitted", "refused"} /\ ~cancelReq[h]
    /\ CancelCounts(h)
    /\ cancelReq' = [cancelReq EXCEPT ![h] = TRUE]
    /\ UNCHANGED <<scopeVars, kind, body, pending, kids, goCancel, quiescing, errors, failed, cbVars, waitVars, lineage>>

\* cancel_and_wait_settled: raise the fence over a snapshot of the handles ...
ScopeCancel(w) ==
    /\ w \in Cancellers
    /\ wpc[w] = "idle" /\ HasActiveWork
    /\ cancelling' = TRUE
    /\ todo' = [todo EXCEPT ![w] = active]
    /\ wpc' = [wpc EXCEPT ![w] = "cancelling"]
    /\ UNCHANGED <<sealed, closeCompleted, active, adopted, epoch, scopeErrors, bodyVars, cbVars, closer, lineage>>

\* ... cancel them one by one ...
ScopeCancelOne(w, h) ==
    /\ wpc[w] = "cancelling" /\ h \in todo[w]
    /\ todo' = [todo EXCEPT ![w] = @ \ {h}]
    /\ cancelReq' = [cancelReq EXCEPT ![h] = @ \/ CancelCounts(h)]
    /\ UNCHANGED <<scopeVars, kind, body, pending, kids, goCancel, quiescing, errors, failed, cbVars, wpc, closer, lineage>>

\* ... and wait.
ScopeCancelWaits(w) ==
    /\ wpc[w] = "cancelling" /\ todo[w] = {}
    /\ wpc' = [wpc EXCEPT ![w] = "checking"]
    /\ UNCHANGED <<scopeVars, bodyVars, cbVars, todo, closer, lineage>>

-----------------------------------------------------------------------------
(* Barriers                                                                *)

\* wait_settled(), by a thread that is not work of this scope and does not run
\* its loop: the code refuses the others.
WaitSettled(w) ==
    /\ wpc[w] = "idle"
    /\ wpc' = [wpc EXCEPT ![w] = "checking"]
    /\ UNCHANGED <<scopeVars, bodyVars, cbVars, todo, closer, lineage>>

\* close() takes its operation lock, returns if it was completed before, and
\* otherwise seals and waits.
CloseBegins(w) ==
    /\ wpc[w] = "idle" /\ closer = {}
    /\ IF closeCompleted
       THEN /\ wpc' = [wpc EXCEPT ![w] = "returned"]
            /\ UNCHANGED <<sealed, closer>>
       ELSE /\ wpc' = [wpc EXCEPT ![w] = "checking"]
            /\ sealed' = TRUE
            /\ closer' = {w}
    /\ UNCHANGED <<closeCompleted, cancelling, active, adopted, epoch, scopeErrors, bodyVars, cbVars, todo, lineage>>

MustWait_HandlesOnly == active # {}
MustWait == HasActiveWork

\* The loop of wait_settled: wait while there is active work ...
BarrierWaits(w) ==
    /\ wpc[w] = "checking" /\ MustWait
    /\ wpc' = [wpc EXCEPT ![w] = "waiting"]
    /\ UNCHANGED <<scopeVars, bodyVars, cbVars, todo, closer, lineage>>

\* ... else return (raising the scope's errors, if any).
BarrierReturns(w) ==
    /\ wpc[w] = "checking" /\ ~MustWait
    /\ wpc' = [wpc EXCEPT ![w] = IF w \in closer THEN "settled" ELSE "returned"]
    /\ UNCHANGED <<scopeVars, bodyVars, cbVars, todo, closer, lineage>>

\* close() takes the scope lock again to set _close_completed, without looking.
CloseCompletes(w) ==
    /\ wpc[w] = "settled"
    /\ wpc' = [wpc EXCEPT ![w] = "returned"]
    /\ closeCompleted' = TRUE
    /\ closer' = closer \ {w}
    /\ UNCHANGED <<sealed, cancelling, active, adopted, epoch, scopeErrors, bodyVars, cbVars, todo, lineage>>

\* TimeoutError: a close stays incomplete and may be called again.
BarrierTimesOut(w) ==
    /\ Timeouts
    /\ wpc[w] = "waiting"
    /\ wpc' = [wpc EXCEPT ![w] = "idle"]
    /\ closer' = closer \ {w}
    /\ UNCHANGED <<scopeVars, bodyVars, cbVars, todo, lineage>>

-----------------------------------------------------------------------------
BodyStep ==
    \E h \in Handles :
        \/ \E n \in 0..MaxCallbacks[h] : Go(h, n)
        \/ GoSubmit(h) \/ GoRefused(h) \/ GoCancels(h) \/ StartBody(h) \/ RunnerGone(h)
        \/ SpawnKid(h) \/ SpawnLate(h) \/ BodyDone(h) \/ BodyReleases(h)
        \/ \E bad \in Failing : KidDone(h, bad)

CallbackStep ==
    \E h \in Handles :
        \/ RegisterCallback(h) \/ RegisterLate(h) \/ RegisterLateRefused(h)
        \/ DrainNext(h) \/ DrainEnds(h) \/ DrainReleases(h)
        \/ \E bad \in Failing : DrainRuns(h, bad)

ScopeStep ==
    \/ \E h \in Handles : HandleQuiescent(h) \/ HandleCancel(h)
    \/ \E t \in Tasks : Adopt(t) \/ AdoptedDone(t)
    \/ Seal \/ LeavesBehind

WaiterStep ==
    \E w \in Waiters :
        \/ ScopeCancel(w) \/ ScopeCancelWaits(w)
        \/ \E h \in Handles : ScopeCancelOne(w, h)
        \/ WaitSettled(w) \/ CloseBegins(w)
        \/ BarrierWaits(w) \/ BarrierReturns(w) \/ BarrierTimesOut(w) \/ CloseCompletes(w)

Next == BodyStep \/ CallbackStep \/ ScopeStep \/ WaiterStep

Spec == Init /\ [][Next]_vars

(***************************************************************************)
(* Fairness: a call under way proceeds, loops run what is scheduled, and   *)
(* bodies, spawned tasks, adopted tasks and callbacks end.  Nobody has to  *)
(* call go(), register, cancel or start waiting.                           *)
(***************************************************************************)
Fairness ==
    /\ \A h \in Handles :
          /\ WF_vars(GoSubmit(h) \/ GoRefused(h)) /\ WF_vars(GoCancels(h))
          /\ SF_vars(StartBody(h)) /\ WF_vars(BodyDone(h)) /\ WF_vars(BodyReleases(h))
          /\ WF_vars(RunnerGone(h))
          /\ WF_vars(\E bad \in Failing : KidDone(h, bad))
          /\ WF_vars(DrainNext(h) \/ (\E bad \in Failing : DrainRuns(h, bad)) \/ DrainEnds(h))
          /\ WF_vars(DrainReleases(h)) /\ WF_vars(HandleQuiescent(h))
    /\ \A t \in Tasks : WF_vars(AdoptedDone(t))
    /\ \A w \in Waiters :
          /\ WF_vars(\E h \in Handles : ScopeCancelOne(w, h)) /\ WF_vars(ScopeCancelWaits(w))
          /\ WF_vars(BarrierWaits(w) \/ BarrierReturns(w)) /\ WF_vars(CloseCompletes(w))

FairSpec == Spec /\ Fairness

-----------------------------------------------------------------------------
(* Properties                                                              *)

\* Type invariant.
TypeOK ==
    /\ {sealed, closeCompleted, cancelling, scopeErrors, stray} \subseteq BOOLEAN
    /\ active \subseteq Handles /\ adopted \subseteq Tasks
    /\ goCancel \subseteq Handles /\ errors \subseteq failed /\ failed \subseteq Handles
    /\ epoch \in Backends \cup {"none"} /\ kind \in [Handles -> Backends \cup {"none"}]
    /\ body \in [Handles -> BodyStates]
    /\ pending \in [Handles -> Nat] /\ kids \in [Handles -> Nat]
    /\ quiescing \in [Handles -> Nat] /\ exiting \in [Handles -> Nat]
    /\ cancelReq \in [Handles -> BOOLEAN]
    /\ callbacks \in [Handles -> Seq(Nat)] /\ ran \in [Handles -> Seq(Nat)]
    /\ registered \in [Handles -> Nat] /\ current \in [Handles -> Nat]
    /\ drain \in [Handles -> {"none", "scheduled", "running"}]
    /\ wpc \in [Waiters -> WaiterStates]
    /\ todo \in [Waiters -> SUBSET Handles]
    /\ closer \subseteq Waiters
    /\ outer \in [Handles -> Handles \cup {"none"}] /\ nested \in [Handles -> Nat]

(***************************************************************************)
(* Accounting: the work count of a handle is one for an unreleased body,   *)
(* one per retained task and per runner of a nested go(), one for the      *)
(* active drain and one for each drain on its way out; so settlement       *)
(* (count zero) means that all are over.                                   *)
(***************************************************************************)
WorkCounted ==
    \A h \in Handles :
        pending[h] = (IF body[h] \in BodyHolds THEN 1 ELSE 0) + kids[h] + nested[h]
                     + (IF drain[h] # "none" THEN 1 ELSE 0) + exiting[h]

(***************************************************************************)
(* The scope's inventory covers all unsettled work: a handle with work of  *)
(* its own is among the active ones, so no barrier can overlook it         *)
(* (README: wait_settled waits for Stage-retained work, callbacks and      *)
(* finalizers).  What may be retained elsewhere is the runner of a nested  *)
(* go() that started after its caller had settled; the nested handle is    *)
(* active itself.                                                          *)
(***************************************************************************)
Unsettled(h) == pending[h] > nested[h]
UnsettledIsActive == \A h \in Handles : Unsettled(h) => h \in active

(***************************************************************************)
(* A barrier that returns leaves nothing behind: no body, task or callback *)
(* (at most a nested runner reporting its end), and no settlement error    *)
(* that it could not have raised (README.md: wait_settled() waits for      *)
(* Stage-retained work, callbacks and finalizers; descendant failures are  *)
(* reported by it).                                                        *)
(***************************************************************************)
BarrierIsComplete ==
    [][\A w \in Waiters : wpc[w] = "checking" /\ wpc'[w] \in {"settled", "returned"} =>
          /\ \A h \in Handles : ~Unsettled(h)
          /\ adopted = {}
          /\ failed # {} => scopeErrors]_vars

(***************************************************************************)
(* Nothing starts in a scope whose close() has completed, or is about to   *)
(* between its two critical sections: the code that may still be admitted  *)
(* is retained work, for which close() waits, whatever interleaves.        *)
(* Admission asks only for the context, so this is lost (and the close     *)
(* completes over running work) once code has outlived its handle.         *)
(***************************************************************************)
Closing == closeCompleted \/ \E w \in Waiters : wpc[w] = "settled"

ClosedIsFinal ==
    Closing /\ ~stray => /\ sealed /\ ~HasActiveWork
                         /\ \A h \in Handles : ~Unsettled(h) /\ body[h] # "admitted"

(***************************************************************************)
(* An admitted handle keeps the epoch: between the scope lock and the      *)
(* submission, which reads the lease without it, nobody gives the lease    *)
(* back, and no other backend takes its place.                             *)
(***************************************************************************)
EpochCoversAdmitted ==
    \A h \in Handles : body[h] \in {"admitted", "scheduled", "running"} => epoch = kind[h] /\ h \in active

(***************************************************************************)
(* Callbacks run in order of registration, none twice and none skipped,    *)
(* also when they are registered while a drain is ending.                  *)
(***************************************************************************)
CallbacksInOrder ==
    \A h \in Handles :
        ran[h] \o (IF current[h] = 0 THEN <<>> ELSE <<current[h]>>) \o callbacks[h]
            = [i \in 1..registered[h] |-> i]

(***************************************************************************)
(* A callback waits only for the body or behind an active drain: no        *)
(* registration falls between a drain that ends and the next.              *)
(***************************************************************************)
NoStrandedCallback ==
    \A h \in Handles : callbacks[h] # <<>> /\ body[h] \in BodyOver => drain[h] # "none"

(***************************************************************************)
(* The cancellation fence: while the scope is cancelling, every active     *)
(* handle whose body is not over has been asked to stop, or somebody is    *)
(* about to ask it, also if go() admitted it after the snapshot.           *)
(***************************************************************************)
CancelFence ==
    cancelling => \A h \in active : body[h] \in {"admitted", "scheduled", "running"} =>
        cancelReq[h] \/ h \in goCancel \/ (\E w \in Waiters : h \in todo[w])

\* No lost notification: a barrier sleeps only while there is active work.
SleepersHaveWork == \A w \in Waiters : wpc[w] = "waiting" => HasActiveWork

(***************************************************************************)
(* Every barrier call ends once the admitted work has ended.               *)
(***************************************************************************)
EveryBarrierReturns ==
    \A w \in Waiters : wpc[w] \in {"cancelling", "checking"} ~> wpc[w] \in {"returned", "idle"}

(***************************************************************************)
(* ... which fails for a body that was lost, and only for that: nested     *)
(* submissions, callbacks that are registered at any moment and            *)
(* cancellation do not make a barrier sleep for ever.                      *)
(***************************************************************************)
SomeLost == \E h \in Handles : body[h] = "lost"

BarriersReturn ==
    \A w \in Waiters :
        wpc[w] \in {"cancelling", "checking"} ~> wpc[w] \in {"returned", "idle"} \/ SomeLost

(***************************************************************************)
(* Every callback registered on a handle whose body was scheduled is       *)
(* executed, unless the body is lost.                                      *)
(***************************************************************************)
CallbacksRun ==
    \A h \in Handles : \A n \in 1..MaxCallbacks[h] :
        registered[h] >= n /\ body[h] \in {"scheduled", "running"} \cup BodyOver
            ~> Len(ran[h]) >= n \/ body[h] = "lost"

(***************************************************************************)
(* The scope keeps the promise its clients are written against: admission, *)
(* outcome, settlement, sealing and completion of close() happen only as   *)
(* ScopeContract allows, under every interleaving of handles, callbacks,   *)
(* cancellation and barriers.                                              *)
(***************************************************************************)
Unfinished == {h \in active : body[h] \in {"admitted", "scheduled", "running", "lost"}}

Contract == INSTANCE ScopeContract WITH
    Scopes <- {"scope"},
    Work <- Handles \cup Tasks,
    scope <- [s \in {"scope"} |->
                 [sealed |-> sealed, closed |-> closeCompleted, failed |-> scopeErrors,
                  work |-> active \cup adopted, running |-> Unfinished, stray |-> stray]]

ContractSpec == Contract!ContractSpec
=============================================================================
