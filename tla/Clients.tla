------------------------------ MODULE Clients ------------------------------
(***************************************************************************)
(* An EventEmitter and a StageCallBridge in one program: listeners call    *)
(* through the bridge, and both are shut down, in either order, while      *)
(* events are emitted.  Either may be closed by work of the scopes it      *)
(* waits for, its own or the other's.  The scopes are as ScopeContract     *)
(* promises; code abandoned in a call or a close makes no other.           *)
(***************************************************************************)
EXTENDS EventEmitter, StageCallBridge

CONSTANTS
    Casts,   \* the listeners and calls of a program: subsets of all of them
    NoOne    \* a call of the bridge made by no listener

Closers == EmitterClosers \cup BridgeClosers
Outside == <<NoOne, NoOne>>   \* a close called by no work of a scope

Actors == Listeners \cup Emits \cup EmitterClosers \cup Calls \cup Submits \cup BridgeClosers

ASSUME ClientsAssumption ==
    /\ Casts \subseteq SUBSET Actors
    /\ Calls \cup Submits \subseteq Work
    /\ Emits \X (1..MaxRegistrations) \subseteq Work
    /\ EmitterScope \notin Calls \cup {CarrierScope, SubmitScope}

VARIABLES
    cast,    \* the listeners and calls of this program
    caller,  \* the listener's work that made each call of the bridge
    home     \* where each close was called: a scope and its work

vars == <<scope, emitterVars, bridgeVars, cast, caller, home>>

Init ==
    /\ ContractInit /\ EmitterInit /\ BridgeInit
    /\ cast \in Casts
    /\ caller = [c \in Calls |-> NoOne]
    /\ home = [k \in Closers |-> Outside]

\* What a body waits for: its call through the bridge, or the close it called.
InCall(x) == \E c \in Calls : caller[c] = x /\ callPc[c] \notin CallOver

UnderWay(k) ==
    \/ k \in EmitterClosers /\ ecloserPc[k] = "closing"
    \/ k \in BridgeClosers /\ bcloserPc[k] \in {"called", "closing"}

InClose(s, x) == \E k \in Closers : home[k] = <<s, x>> /\ UnderWay(k)

Engaged(s, x) == (s = EmitterScope /\ InCall(x)) \/ InClose(s, x)

\* Where close() may be called: outside, or in a body that waits for nothing.
Homes ==
    {Outside} \cup
    {w \in Scopes \X Work : w[2] \in scope[w[1]].running /\ ~Engaged(w[1], w[2])}

\* A listener calls through the bridge; in a program that does not emit,
\* somebody else does.
Call(c) ==
    /\ CallBegins(c)
    /\ \E x \in IF cast \cap Emits = {} THEN {NoOne} ELSE scope[EmitterScope].running :
          /\ x # NoOne => ~Engaged(EmitterScope, x)
          /\ caller' = [caller EXCEPT ![c] = x]

\* User code: a body ends when the call or close it makes has ...
BodyEnds(s, x) == ~Engaged(s, x) /\ Outcome(s, x)

\* ... or is abandoned in it: a blocking body that is cancelled twice, or a
\* coroutine in async_close().  The call or close goes on for nobody.
BodyAbandoned(s, x) ==
    /\ Engaged(s, x) /\ Outcome(s, x)
    /\ caller' = IF s = EmitterScope THEN [c \in Calls |-> IF caller[c] = x THEN NoOne ELSE caller[c]]
                 ELSE caller

\* Descendants and callbacks of the body are over; some may have failed.
WorkSettles(s, x, bad) == Settle(s, x, bad)

WorkStep ==
    \E s \in Scopes : \E x \in scope[s].work :
        BodyEnds(s, x) \/ WorkSettles(s, x, TRUE) \/ WorkSettles(s, x, FALSE)

\* Bound: no more registrations than listeners.
MayRegister == registrations < Cardinality(Listeners \cap cast)

RegistryStep ==
    /\ cast \cap Emits # {}
    /\ \/ \E l \in Listeners \cap cast :
             \/ MayRegister /\ (AddListener(l) \/ AddOnceListener(l))
             \/ RemoveListener(l)
       \/ RemoveAllListeners

EmitProceeds(e) == EmitGo(e) \/ EmitRaises(e) \/ EmitEnds(e) \/ WaitHandles(e)

EmitterStep ==
    \/ \E e \in Emits \cap cast : Emit(e) \/ EmitProceeds(e)
    \/ \E k \in EmitterClosers \cap cast : CloseEmitterAgain(k) \/ EmitterCloses(k)

\* close() called somewhere; by a listener, only in vain.
EmitterShutdown ==
    \E k \in EmitterClosers \cap cast : \E h \in Homes :
        /\ \/ CloseEmitter(k, TRUE)
           \/ h[1] # EmitterScope /\ CloseEmitter(k, FALSE)
        /\ home' = [home EXCEPT ![k] = h]

BridgeStep ==
    \/ \E c \in Calls : CallProceeds(c)
    \/ \E u \in Submits \cap cast : SubmitBegins(u) \/ SubmitGo(u)
    \/ \E k \in BridgeClosers \cap cast : CloseProceeds(k, home[k][1]) \/ CloseGivesUp(k)

BridgeShutdown ==
    \E k \in BridgeClosers \cap cast : \E h \in Homes :
        CloseCalled(k) /\ home' = [home EXCEPT ![k] = h]

Next ==
    \/ RegistryStep /\ UNCHANGED <<bridgeVars, cast, caller, home>>
    \/ EmitterStep /\ UNCHANGED <<bridgeVars, cast, caller, home>>
    \/ EmitterShutdown /\ UNCHANGED <<bridgeVars, cast, caller>>
    \/ BridgeStep /\ UNCHANGED <<emitterVars, cast, caller, home>>
    \/ BridgeShutdown /\ UNCHANGED <<emitterVars, cast, caller>>
    \/ (\E c \in Calls \cap cast : Call(c)) /\ UNCHANGED <<emitterVars, cast, home>>
    \/ WorkStep /\ UNCHANGED <<emitterVars, bridgeVars, cast, caller, home>>
    \/ (\E s \in Scopes : \E x \in scope[s].work : BodyAbandoned(s, x))
       /\ UNCHANGED <<emitterVars, bridgeVars, cast, home>>

Spec == Init /\ [][Next]_vars

(***************************************************************************)
(* Fairness: emits, calls and closes that are under way proceed, bodies    *)
(* end and their work settles.  Nobody has to register, emit, call, close, *)
(* give up or abandon a body.                                              *)
(***************************************************************************)
EmitterProceeds ==
    \/ \E e \in Emits : EmitProceeds(e)
    \/ \E k \in EmitterClosers : EmitterCloses(k)

Fairness ==
    /\ WF_vars(EmitterProceeds /\ UNCHANGED <<bridgeVars, cast, caller, home>>)
    /\ WF_vars((\E c \in Calls : CallProceeds(c)) /\ UNCHANGED <<emitterVars, cast, caller, home>>)
    /\ \A k \in BridgeClosers :
          WF_vars(CloseProceeds(k, home[k][1]) /\ UNCHANGED <<emitterVars, cast, caller, home>>)
    /\ WF_vars(WorkStep /\ UNCHANGED <<emitterVars, bridgeVars, cast, caller, home>>)

FairSpec == Spec /\ Fairness

-----------------------------------------------------------------------------
(* Properties                                                              *)

(***************************************************************************)
(* README.md: a once-listener is removed atomically before invocation.     *)
(* However many emits, registrations and removals meet, a registration is  *)
(* taken by one emit at most.                                              *)
(***************************************************************************)
OnceIsOnce == onceBalance >= 0

(***************************************************************************)
(* An emit that found the emitter open submits all its listeners: a close  *)
(* on its heels cannot cut it short.  Only a listener that the open scope  *)
(* refuses can.                                                            *)
(***************************************************************************)
AcceptedEmitIsWhole == \A e \in Emits : emitPc[e] # "cut"

(***************************************************************************)
(* A completed close is quiet, and stays so.  Of the emitter: no listener  *)
(* runs, nor waits in a call it made through the bridge, unless its body   *)
(* was abandoned there.  Of the bridge: none of its scopes has work, also  *)
(* if a call had passed _ensure_open() before the close and gone on to     *)
(* submit after it, or left descendants in a routed scope behind.          *)
(***************************************************************************)
ClosedIsQuiet ==
    /\ scope[EmitterScope].closed =>
          /\ scope[EmitterScope].work = {}
          /\ \A c \in Calls : caller[c] # NoOne => callPc[c] \in CallOver
    /\ bridgeClosed =>
          /\ scope[CarrierScope].work = {}
          /\ ownsSubmit => scope[SubmitScope].work = {}
          /\ \A c \in Calls : scope[c].work = {}

\* The work a close waits for.
WaitsFor(k) ==
    LET s == IF k \in EmitterClosers THEN EmitterScope ELSE Head(toClose[k])
    IN IF k \in EmitterClosers \/ (bcloserPc[k] = "closing" /\ toClose[k] # <<>>)
       THEN {s} \X scope[s].running ELSE {}

\* Work w has called j itself, or a function of the bridge that has.
HasCalled(w, j) ==
    \/ home[j] = w
    \/ \E c \in Calls : /\ <<EmitterScope, caller[c]>> = w /\ callPc[c] \notin CallOver
                        /\ home[j] \in {<<CarrierScope, c>>, <<c, c>>}
                        /\ c \in scope[home[j][1]].running

Needs(k, j) ==
    /\ UnderWay(k) /\ UnderWay(j)
    /\ \/ k \in BridgeClosers /\ bcloserPc[k] = "called" /\ closeLock = {j}
       \/ \E w \in WaitsFor(k) : HasCalled(w, j)

Circle == \E K \in SUBSET Closers \ {{}} : \A k \in K : \E j \in K : Needs(k, j)

(***************************************************************************)
(* Shutdown ends: every close of the emitter and of the bridge returns,    *)
(* raises or times out, in whichever order the two are closed, whatever    *)
(* listeners and calls do meanwhile, and also if it is called by work of   *)
(* the scopes it closes.  There is one exception, which the code does not  *)
(* detect: closers that wait for each other in a circle, each for the lock *)
(* that another holds, or for work that called another.                    *)
(***************************************************************************)
ShutdownEnds == \A k \in Closers : UnderWay(k) ~> ~UnderWay(k) \/ Circle

(***************************************************************************)
(* README.md: close() and async_close() wait for pending listener          *)
(* settlement.                                                             *)
(***************************************************************************)
EmitterCloseWaits ==
    \A k \in EmitterClosers : ecloserPc[k] = "returned" => scope[EmitterScope].work = {}
=============================================================================
