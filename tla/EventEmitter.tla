---------------------------- MODULE EventEmitter ----------------------------
(***************************************************************************)
(* Listener fan-out over one Stage scope (src/agently_stage/               *)
(* EventEmitter.py), for one event name: the registry of each is separate. *)
(*                                                                         *)
(* The registry is guarded by one lock.  emit() holds it from its look at  *)
(* the registry to its last submission, so it takes several steps: the     *)
(* listeners it has submitted run already, and a thread that registers,    *)
(* removes or closes waits for it.                                         *)
(***************************************************************************)
EXTENDS Integers, Sequences, SequencesExt, ScopeContract

CONSTANTS
    Listeners,
    Emits,            \* calls of emit() or async_emit()
    EmitterClosers,   \* calls of close() or async_close()
    EmitterScope,     \* EventEmitter._stage
    NoEmit,
    MaxRegistrations  \* bound on calls that change the registry

ASSUME EmitterAssumption ==
    /\ NoEmit \notin Emits
    /\ EmitterScope \in Scopes /\ MaxRegistrations \in Nat

VARIABLES
    listeners, once,  \* EventEmitter._listeners[event], _once[event]
    registryLock,     \* the emit() that holds _registry_lock
    emitterClosed,    \* EventEmitter._closed
    emitPc,           \* "idle", "submitting", "waiting", "returned", "raised", "cut"
    toSubmit,         \* listeners emit() has still to submit
    handles,          \* listeners it has submitted: <<e, i>> is the i-th handle
    ecloserPc,        \* "idle", "closing", "returned", "raised"
    registrations,    \* calls that changed the registry (bounded)
    onceBalance       \* once-registrations minus their submissions and removals

registryVars == <<listeners, once, registrations, onceBalance>>
emitVars     == <<registryLock, emitPc, toSubmit, handles>>
emitterVars  == <<registryVars, emitVars, emitterClosed, ecloserPc>>

EmitterInit ==
    /\ listeners = <<>> /\ once = <<>>
    /\ registrations = 0 /\ onceBalance = 0
    /\ registryLock = NoEmit /\ emitterClosed = FALSE
    /\ emitPc = [e \in Emits |-> "idle"]
    /\ toSubmit = [e \in Emits |-> <<>>]
    /\ handles = [e \in Emits |-> <<>>]
    /\ ecloserPc = [k \in EmitterClosers |-> "idle"]

-----------------------------------------------------------------------------
(* The registry                                                            *)

Registers ==
    /\ registryLock = NoEmit /\ ~emitterClosed
    /\ registrations < MaxRegistrations
    /\ registrations' = registrations + 1

\* A listener that is in the once-list may be added here as well, and is then
\* in both; the other way round it is not.
AddListener(l) ==
    /\ Registers
    /\ ~Contains(listeners, l)
    /\ listeners' = Append(listeners, l)
    /\ UNCHANGED <<once, onceBalance, emitVars, emitterClosed, ecloserPc, scope>>

AddOnceListener(l) ==
    /\ Registers
    /\ ~Contains(listeners, l) /\ ~Contains(once, l)
    /\ once' = Append(once, l)
    /\ onceBalance' = onceBalance + 1
    /\ UNCHANGED <<listeners, emitVars, emitterClosed, ecloserPc, scope>>

\* remove_listener, remove_all_listeners: a closed emitter accepts them.
RemoveListener(l) ==
    /\ registryLock = NoEmit
    /\ Contains(listeners, l) \/ Contains(once, l)
    /\ listeners' = RemoveFirst(listeners, l)
    /\ once' = RemoveFirst(once, l)
    /\ onceBalance' = onceBalance - (IF Contains(once, l) THEN 1 ELSE 0)
    /\ UNCHANGED <<registrations, emitVars, emitterClosed, ecloserPc, scope>>

RemoveAllListeners ==
    /\ registryLock = NoEmit /\ listeners \o once # <<>>
    /\ listeners' = <<>> /\ once' = <<>>
    /\ onceBalance' = onceBalance - Len(once)
    /\ UNCHANGED <<registrations, emitVars, emitterClosed, ecloserPc, scope>>

-----------------------------------------------------------------------------
(* emit                                                                    *)

\* Under the lock: a snapshot of the listeners, and the once-list popped ...
OnceAfterEmit_Kept == once
OnceAfterEmit == <<>>

Emit(e) ==
    /\ emitPc[e] = "idle" /\ registryLock = NoEmit /\ ~emitterClosed
    /\ registryLock' = e
    /\ emitPc' = [emitPc EXCEPT ![e] = "submitting"]
    /\ toSubmit' = [toSubmit EXCEPT ![e] = listeners \o once]
    /\ once' = OnceAfterEmit
    /\ onceBalance' = onceBalance - Len(once)
    /\ UNCHANGED <<listeners, registrations, handles, emitterClosed, ecloserPc, scope>>

\* ... and one go() after the other ...
EmitGo(e) ==
    /\ emitPc[e] = "submitting" /\ toSubmit[e] # <<>>
    /\ Open(EmitterScope)
    /\ Admit(EmitterScope, <<e, Len(handles[e]) + 1>>, TRUE)
    /\ handles' = [handles EXCEPT ![e] = Append(@, Head(toSubmit[e]))]
    /\ toSubmit' = [toSubmit EXCEPT ![e] = Tail(@)]
    /\ UNCHANGED <<registryVars, registryLock, emitPc, emitterClosed, ecloserPc>>

\* ... until one raises: the handles made so far are dropped, the listeners
\* behind it are not called, and those of the once-list are gone.  go() refuses
\* what is no function, work whose loop has stopped or whose carrier is being
\* sealed ("raised"), and everything once the scope is sealed ("cut").
EmitRaises(e) ==
    /\ emitPc[e] = "submitting" /\ toSubmit[e] # <<>>
    /\ registryLock' = NoEmit
    /\ emitPc' = [emitPc EXCEPT ![e] = IF Open(EmitterScope) THEN "raised" ELSE "cut"]
    /\ UNCHANGED <<registryVars, toSubmit, handles, emitterClosed, ecloserPc, scope>>

\* The lock is released; wait=True goes on to _wait_handles.
EmitEnds(e) ==
    /\ emitPc[e] = "submitting" /\ toSubmit[e] = <<>>
    /\ registryLock' = NoEmit
    /\ \E wait \in BOOLEAN :
          emitPc' = [emitPc EXCEPT ![e] = IF wait THEN "waiting" ELSE "returned"]
    /\ UNCHANGED <<registryVars, toSubmit, handles, emitterClosed, ecloserPc, scope>>

HandlesOf(e) == {<<e, i>> : i \in 1..Len(handles[e])}

\* Each handle is read and then waited for, errors of both being dropped.
WaitHandles(e) ==
    /\ emitPc[e] = "waiting"
    /\ HandlesOf(e) \cap scope[EmitterScope].work = {}
    /\ emitPc' = [emitPc EXCEPT ![e] = "returned"]
    /\ UNCHANGED <<registryVars, registryLock, toSubmit, handles, emitterClosed, ecloserPc, scope>>

-----------------------------------------------------------------------------
(* close                                                                   *)

MayCloseEmitter_Unlocked == TRUE
MayCloseEmitter == registryLock = NoEmit

(***************************************************************************)
(* The first call marks the emitter closed, and closes the scope.  That    *)
(* raises at once when the caller is a listener, or runs the loop that the *)
(* listeners are on (misplaced): the scope is then not even sealed.  It is *)
(* sealed outside the lock; no emit can be under way by then.              *)
(***************************************************************************)
CloseEmitter(k, misplaced) ==
    /\ ecloserPc[k] = "idle" /\ MayCloseEmitter
    /\ ~emitterClosed
    /\ misplaced => scope[EmitterScope].work # {}
    /\ emitterClosed' = TRUE
    /\ IF misplaced
       THEN /\ ecloserPc' = [ecloserPc EXCEPT ![k] = "raised"]
            /\ UNCHANGED scope
       ELSE /\ ecloserPc' = [ecloserPc EXCEPT ![k] = "closing"]
            /\ SealScope(EmitterScope)
    /\ UNCHANGED <<registryVars, emitVars>>

\* Any later call returns at once.
CloseEmitterAgain(k) ==
    /\ ecloserPc[k] = "idle" /\ MayCloseEmitter
    /\ emitterClosed
    /\ ecloserPc' = [ecloserPc EXCEPT ![k] = "returned"]
    /\ UNCHANGED <<registryVars, emitVars, emitterClosed, scope>>

\* Stage.close() completes, raising the listeners' settlement errors if any.
EmitterCloses(k) ==
    /\ ecloserPc[k] = "closing"
    /\ Complete(EmitterScope)
    /\ ecloserPc' = [ecloserPc EXCEPT ![k] = IF scope[EmitterScope].failed THEN "raised" ELSE "returned"]
    /\ UNCHANGED <<registryVars, emitVars, emitterClosed>>
=============================================================================
