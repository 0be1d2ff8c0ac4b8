--------------------------- MODULE StageCallBridge ---------------------------
(***************************************************************************)
(* The call-shape bridge (src/agently_stage/StageCallBridge.py): as_sync() *)
(* calls whose function returns an awaitable, submit(), and the close that *)
(* may be retried after a timeout.                                         *)
(*                                                                         *)
(* An as_sync() call resolves its awaitable on the shared carrier scope    *)
(* or, where waiting for that could block its own carrier or loop, in a    *)
(* routed scope made for the call.  Which of the two is decided by where   *)
(* the caller runs (CarrierPool), and open here.  The check that the       *)
(* bridge is open, the user's function and the submission are separate     *)
(* steps, between which the bridge may be closed.                          *)
(***************************************************************************)
EXTENDS Integers, Sequences, SequencesExt, ScopeContract

CONSTANTS
    Calls,          \* calls of a function made by as_sync(); a call's routed
                    \* scope, and its work in whichever scope, bear its name
    Managed,        \* those with managed=True
    Submits,        \* calls of submit()
    BridgeClosers,  \* threads that call close()
    CarrierScope,   \* StageCallBridge._carrier_stage
    SubmitScope     \* StageCallBridge._submit_stage

ASSUME BridgeAssumption ==
    /\ Managed \subseteq Calls
    /\ Calls \cup {CarrierScope, SubmitScope} \subseteq Scopes
    /\ {CarrierScope, SubmitScope} \cap Calls = {}

VARIABLES
    ownsSubmit,     \* no Stage was given to the constructor
    closing,        \* StageCallBridge._closing
    bridgeClosed,   \* StageCallBridge._closed
    routed,         \* StageCallBridge._routed_stages
    callPc, submitPc,
    bcloserPc,      \* "idle", "called", "closing", "returned", "raised"
    closeLock,      \* holders of _close_operation_lock
    toClose         \* scopes a close has still to close, in order

callVars    == <<callPc, submitPc>>
closeVars   == <<bcloserPc, closeLock, toClose>>
bridgeVars  == <<ownsSubmit, closing, bridgeClosed, routed, callVars, closeVars>>

CallOver == {"idle", "returned", "raised"}

BridgeInit ==
    /\ ownsSubmit \in BOOLEAN
    /\ closing = FALSE /\ bridgeClosed = FALSE /\ routed = {}
    /\ callPc = [c \in Calls |-> "idle"]
    /\ submitPc = [u \in Submits |-> "idle"]
    /\ bcloserPc = [k \in BridgeClosers |-> "idle"]
    /\ closeLock = {}
    /\ toClose = [k \in BridgeClosers |-> <<>>]

CallGoes(c, to) == callPc' = [callPc EXCEPT ![c] = to]

-----------------------------------------------------------------------------
(* as_sync                                                                 *)

\* _ensure_open(), then the function itself, which returns an awaitable.
CallBegins(c) ==
    /\ callPc[c] = "idle"
    /\ CallGoes(c, IF closing THEN "raised" ELSE "checked")
    /\ UNCHANGED <<ownsSubmit, closing, bridgeClosed, routed, submitPc, closeVars, scope>>

\* _resolve_awaitable_sync on the shared scope; a sealed one raises.
LightGo(c) ==
    /\ callPc[c] = "checked"
    /\ IF Open(CarrierScope)
       THEN Admit(CarrierScope, c, TRUE) /\ CallGoes(c, "light")
       ELSE CallGoes(c, "raised") /\ UNCHANGED scope
    /\ UNCHANGED <<ownsSubmit, closing, bridgeClosed, routed, submitPc, closeVars>>

\* handle.result(); a managed call goes on to handle.wait_settled().
LightResult(c) ==
    /\ callPc[c] = "light" /\ c \notin scope[CarrierScope].running
    /\ CallGoes(c, IF c \in Managed THEN "settling" ELSE "returned")
    /\ UNCHANGED <<ownsSubmit, closing, bridgeClosed, routed, submitPc, closeVars, scope>>

LightSettled(c) ==
    /\ callPc[c] = "settling" /\ c \notin scope[CarrierScope].work
    /\ CallGoes(c, "returned")
    /\ UNCHANGED <<ownsSubmit, closing, bridgeClosed, routed, submitPc, closeVars, scope>>

\* _resolve_awaitable_in_routed_scope looks again, under the lock under which
\* it registers the scope.
MayRoute == ~closing

RegisterRouted(c) ==
    /\ callPc[c] = "checked"
    /\ IF MayRoute
       THEN routed' = routed \cup {c} /\ CallGoes(c, "registered")
       ELSE CallGoes(c, "raised") /\ UNCHANGED routed
    /\ UNCHANGED <<ownsSubmit, closing, bridgeClosed, submitPc, closeVars, scope>>

\* __enter__ raises if close() came first; the finally clause then closes the
\* empty scope.
EnterRouted(c) ==
    /\ callPc[c] = "registered"
    /\ IF Open(c)
       THEN CallGoes(c, "entered") /\ UNCHANGED scope
       ELSE CallGoes(c, "leaving") /\ Complete(c)
    /\ UNCHANGED <<ownsSubmit, closing, bridgeClosed, routed, submitPc, closeVars>>

GoRouted(c) ==
    /\ callPc[c] = "entered"
    /\ IF Open(c)
       THEN Admit(c, c, TRUE) /\ CallGoes(c, "awaiting")
       ELSE CallGoes(c, "leaving") /\ UNCHANGED scope
    /\ UNCHANGED <<ownsSubmit, closing, bridgeClosed, routed, submitPc, closeVars>>

\* handle.result(), stage.seal(), and stage.close() if managed ...
RoutedResult(c) ==
    /\ callPc[c] = "awaiting" /\ c \notin scope[c].running
    /\ CallGoes(c, IF c \in Managed THEN "draining" ELSE "leaving")
    /\ SealScope(c)
    /\ UNCHANGED <<ownsSubmit, closing, bridgeClosed, routed, submitPc, closeVars>>

RoutedCloses(c) ==
    /\ callPc[c] = "draining"
    /\ Complete(c)
    /\ CallGoes(c, "leaving")
    /\ UNCHANGED <<ownsSubmit, closing, bridgeClosed, routed, submitPc, closeVars>>

\* ... and the finally clause: a scope that still has work stays registered.
Forgets_Always(c) == TRUE
Forgets(c) == c \in Managed \/ scope[c].work = {}

LeaveRouted(c) ==
    /\ callPc[c] = "leaving"
    /\ routed' = IF Forgets(c) THEN routed \ {c} ELSE routed
    /\ CallGoes(c, "returned")
    /\ UNCHANGED <<ownsSubmit, closing, bridgeClosed, submitPc, closeVars, scope>>

-----------------------------------------------------------------------------
(* submit                                                                  *)

SubmitBegins(u) ==
    /\ submitPc[u] = "idle"
    /\ submitPc' = [submitPc EXCEPT ![u] = IF closing THEN "raised" ELSE "checked"]
    /\ UNCHANGED <<ownsSubmit, closing, bridgeClosed, routed, callPc, closeVars, scope>>

SubmitGo(u) ==
    /\ submitPc[u] = "checked"
    /\ IF Open(SubmitScope)
       THEN Admit(SubmitScope, u, TRUE) /\ submitPc' = [submitPc EXCEPT ![u] = "returned"]
       ELSE submitPc' = [submitPc EXCEPT ![u] = "raised"] /\ UNCHANGED scope
    /\ UNCHANGED <<ownsSubmit, closing, bridgeClosed, routed, callPc, closeVars>>

-----------------------------------------------------------------------------
(* close                                                                   *)

CloseCalled(k) ==
    /\ bcloserPc[k] = "idle"
    /\ bcloserPc' = [bcloserPc EXCEPT ![k] = "called"]
    /\ UNCHANGED <<ownsSubmit, closing, bridgeClosed, routed, callVars, closeLock, toClose, scope>>

\* Under both locks: nothing left to do, or no more calls and a snapshot of
\* the routed scopes.
CloseBegins(k) ==
    /\ bcloserPc[k] = "called" /\ closeLock = {}
    /\ IF bridgeClosed
       THEN /\ bcloserPc' = [bcloserPc EXCEPT ![k] = "returned"]
            /\ UNCHANGED <<closing, closeLock, toClose>>
       ELSE /\ bcloserPc' = [bcloserPc EXCEPT ![k] = "closing"]
            /\ closing' = TRUE
            /\ closeLock' = {k}
            /\ toClose' = [toClose EXCEPT ![k] =
                  SetToSeq(routed) \o <<CarrierScope>> \o (IF ownsSubmit THEN <<SubmitScope>> ELSE <<>>)]
    /\ UNCHANGED <<ownsSubmit, bridgeClosed, routed, callVars, scope>>

\* Stage.close() of the next scope refuses a caller that is work of that scope,
\* own, before it does anything.  The bridge may be closed again.
CloseRefused(k, own) ==
    /\ bcloserPc[k] = "closing" /\ toClose[k] # <<>>
    /\ Head(toClose[k]) = own
    /\ bcloserPc' = [bcloserPc EXCEPT ![k] = "idle"]
    /\ closeLock' = {}
    /\ toClose' = [toClose EXCEPT ![k] = <<>>]
    /\ UNCHANGED <<ownsSubmit, closing, bridgeClosed, routed, callVars, scope>>

\* Otherwise it seals the scope ...
CloseSeals(k, own) ==
    /\ bcloserPc[k] = "closing" /\ toClose[k] # <<>>
    /\ Head(toClose[k]) # own /\ Open(Head(toClose[k]))
    /\ SealScope(Head(toClose[k]))
    /\ UNCHANGED bridgeVars

\* ... waits, completes, and raises its settlement errors, which ends the close.
\* The next one meets the same errors.
CloseOne(k, own) ==
    /\ bcloserPc[k] = "closing" /\ toClose[k] # <<>>
    /\ Head(toClose[k]) # own
    /\ LET s == Head(toClose[k])
       IN /\ Complete(s)
          /\ IF scope[s].failed
             THEN /\ bcloserPc' = [bcloserPc EXCEPT ![k] = "raised"]
                  /\ closeLock' = {}
                  /\ toClose' = [toClose EXCEPT ![k] = <<>>]
             ELSE /\ toClose' = [toClose EXCEPT ![k] = Tail(@)]
                  /\ UNCHANGED <<bcloserPc, closeLock>>
    /\ UNCHANGED <<ownsSubmit, closing, bridgeClosed, routed, callVars>>

\* TimeoutError, or the refusal of a caller on the loop that runs the scope's
\* work, which comes before the seal.
LockAfterGiveUp_Kept == closeLock
LockAfterGiveUp == {}

CloseGivesUp(k) ==
    /\ bcloserPc[k] = "closing" /\ toClose[k] # <<>>
    /\ scope[Head(toClose[k])].work # {}
    /\ bcloserPc' = [bcloserPc EXCEPT ![k] = "idle"]
    /\ closeLock' = LockAfterGiveUp
    /\ toClose' = [toClose EXCEPT ![k] = <<>>]
    /\ UNCHANGED <<ownsSubmit, closing, bridgeClosed, routed, callVars, scope>>

CloseEnds(k) ==
    /\ bcloserPc[k] = "closing" /\ toClose[k] = <<>>
    /\ bridgeClosed' = TRUE
    /\ routed' = {}
    /\ closeLock' = {}
    /\ bcloserPc' = [bcloserPc EXCEPT ![k] = "returned"]
    /\ UNCHANGED <<ownsSubmit, closing, callVars, toClose, scope>>

CallProceeds(c) ==
    \/ LightGo(c) \/ LightResult(c) \/ LightSettled(c)
    \/ RegisterRouted(c) \/ EnterRouted(c) \/ GoRouted(c) \/ RoutedResult(c)
    \/ RoutedCloses(c) \/ LeaveRouted(c)

CloseProceeds(k, own) ==
    CloseBegins(k) \/ CloseRefused(k, own) \/ CloseSeals(k, own) \/ CloseOne(k, own) \/ CloseEnds(k)
=============================================================================
