--------------------------- MODULE Clients_proofs ---------------------------
(***************************************************************************)
(* Proofs about an EventEmitter and a StageCallBridge in one program, for  *)
(* every number of listeners, emits, calls, submissions and closers.       *)
(*                                                                         *)
(* None of the three properties is inductive by itself.  ClosedIsQuiet     *)
(* needs to know where work of a routed scope may be when the bridge is    *)
(* closed (RoutedKnown), which scopes a close has still before it          *)
(* (ClosersCover), and that a listener in a call of the bridge has not     *)
(* ended (CallersRun).  AcceptedEmitIsWhole needs the registry lock.       *)
(***************************************************************************)
EXTENDS Clients, SequenceTheorems, FiniteSetTheorems, WellFoundedInduction, TLAPS

EmitStates == {"idle", "submitting", "waiting", "returned", "raised", "cut"}
CloserStates == {"idle", "called", "closing", "returned", "raised"}
CallStates == {"idle", "checked", "light", "settling", "registered", "entered",
               "awaiting", "draining", "leaving", "returned", "raised"}

\* Types, of the scopes, the emitter and the bridge.
ScopeType == scope \in [Scopes -> ScopeState]

EmitterType ==
    /\ listeners \in Seq(Listeners) /\ once \in Seq(Listeners)
    /\ registrations \in Nat /\ onceBalance \in Int
    /\ registryLock \in Emits \cup {NoEmit} /\ emitterClosed \in BOOLEAN
    /\ emitPc \in [Emits -> EmitStates]
    /\ toSubmit \in [Emits -> Seq(Listeners)]
    /\ handles \in [Emits -> Seq(Listeners)]

BridgeType ==
    /\ ownsSubmit \in BOOLEAN /\ closing \in BOOLEAN /\ bridgeClosed \in BOOLEAN
    /\ routed \subseteq Calls /\ IsFiniteSet(routed)
    /\ callPc \in [Calls -> CallStates]
    /\ bcloserPc \in [BridgeClosers -> CloserStates]
    /\ toClose \in [BridgeClosers -> Seq(Scopes \ {EmitterScope})]

\* What ScopeContract makes of each scope.
ScopesSound ==
    \A s \in Scopes :
        /\ scope[s].running \subseteq scope[s].work
        /\ scope[s].closed => scope[s].sealed /\ scope[s].work = {}
        /\ ~scope[s].stray

\* The balance is what is in the once-list, and no more listeners are there, or
\* on their way, than were registered.
RegistryCounted ==
    /\ onceBalance = Len(once)
    /\ Len(listeners) + Len(once) <= registrations
    /\ registrations <= MaxRegistrations
    /\ \A e \in Emits : Len(handles[e]) + Len(toSubmit[e]) <= MaxRegistrations
    /\ \A e \in Emits : emitPc[e] = "idle" => handles[e] = <<>>

\* Only a close seals the emitter's scope, and none gets past an emit that is
\* submitting: that one holds the lock.
LockGuards ==
    /\ scope[EmitterScope].sealed => emitterClosed
    /\ \A e \in Emits : emitPc[e] = "submitting" => registryLock = e /\ ~scope[EmitterScope].sealed

EmitterInv == EmitterType /\ RegistryCounted /\ LockGuards /\ AcceptedEmitIsWhole

\* A routed scope has no work before its call is submitted there, nor once a
\* managed call leaves; and while it may have some, close() knows of it.
RoutedScope(c) ==
    /\ callPc[c] \in {"idle", "checked", "light", "settling", "registered", "entered", "raised"}
          => scope[c].work = {}
    /\ c \in Managed /\ callPc[c] = "leaving" => scope[c].work = {}
    /\ callPc[c] \in {"registered", "entered"} \/ scope[c].work # {}
          => c \in routed \/ scope[c].closed

RoutedKnown == \A c \in Calls : RoutedScope(c)

\* The scopes a bridge answers for when it closes.
Owned == routed \cup {CarrierScope} \cup (IF ownsSubmit THEN {SubmitScope} ELSE {})

\* A close in progress has closed them or has them before it.
ClosersCover ==
    \A k \in BridgeClosers : bcloserPc[k] = "closing" =>
        /\ closing
        /\ \A s \in Owned : scope[s].closed \/ \E i \in 1..Len(toClose[k]) : toClose[k][i] = s

CloseKept ==
    bridgeClosed => closing /\ routed = {} /\ \A s \in Owned : scope[s].closed

BridgeInv == BridgeType /\ RoutedKnown /\ ClosersCover /\ CloseKept

\* A listener in a call of the bridge is still running.
CallersRun ==
    \A c \in Calls : caller[c] # NoOne /\ callPc[c] \notin CallOver
        => caller[c] \in scope[EmitterScope].running

CallersInv == caller \in [Calls -> Work \cup {NoOne}] /\ CallersRun

IInv == ScopeType /\ ScopesSound /\ EmitterInv /\ BridgeInv /\ CallersInv

-----------------------------------------------------------------------------
(* Scopes                                                                  *)

\* What the operations of a scope do to it.
LEMMA AdmitFacts ==
    ASSUME ScopeType, ScopesSound, NEW s \in Scopes, NEW x \in Work, Admit(s, x, TRUE)
    PROVE  /\ ScopeType' /\ ScopesSound'
           /\ \A t \in Scopes : t # s => scope'[t] = scope[t]
           /\ scope'[s].sealed = scope[s].sealed /\ scope'[s].closed = scope[s].closed
           /\ scope'[s].work = scope[s].work \cup {x}
           /\ scope'[s].running = scope[s].running \cup {x}
<1>1. /\ ScopeType' /\ scope'[s].stray = scope[s].stray
      /\ \A t \in Scopes : t # s => scope'[t] = scope[t]
      /\ scope'[s].sealed = scope[s].sealed /\ scope'[s].closed = scope[s].closed
      /\ scope'[s].work = scope[s].work \cup {x}
      /\ scope'[s].running = scope[s].running \cup {x}
  <2> DEFINE r == [scope[s] EXCEPT !.work = @ \cup {x}, !.running = @ \cup {x}]
  <2>1. scope[s] \in ScopeState
    BY DEF ScopeType
  <2>2. /\ r \in ScopeState
        /\ r.sealed = scope[s].sealed /\ r.closed = scope[s].closed
        /\ r.stray = scope[s].stray
        /\ r.work = scope[s].work \cup {x} /\ r.running = scope[s].running \cup {x}
    BY <2>1 DEF ScopeState
  <2>3. scope' = [scope EXCEPT ![s] = r]
    BY DEF ScopeType, ScopeState, Admit
  <2> HIDE DEF r
  <2> QED BY <2>2, <2>3 DEF ScopeType
<1>2. ~scope[s].closed
  BY DEF ScopesSound, Admit, Open
<1> QED BY <1>1, <1>2 DEF ScopesSound

LEMMA SealFacts ==
    ASSUME ScopeType, ScopesSound, NEW s \in Scopes, SealScope(s)
    PROVE  /\ ScopeType' /\ ScopesSound'
           /\ \A t \in Scopes : t # s => scope'[t] = scope[t]
           /\ scope'[s].closed = scope[s].closed /\ scope'[s].work = scope[s].work
           /\ scope'[s].running = scope[s].running /\ scope'[s].sealed
<1>1. /\ ScopeType' /\ scope'[s].stray = scope[s].stray
      /\ \A t \in Scopes : t # s => scope'[t] = scope[t]
      /\ scope'[s].closed = scope[s].closed /\ scope'[s].work = scope[s].work
      /\ scope'[s].running = scope[s].running /\ scope'[s].sealed
  BY DEF ScopeType, ScopeState, SealScope
<1> QED BY <1>1 DEF ScopesSound

LEMMA CompleteFacts ==
    ASSUME ScopeType, ScopesSound, NEW s \in Scopes, Complete(s)
    PROVE  /\ ScopeType' /\ ScopesSound'
           /\ \A t \in Scopes : t # s => scope'[t] = scope[t]
           /\ scope[s].sealed /\ scope'[s].sealed /\ scope'[s].closed
           /\ scope[s].work = {} /\ scope'[s].work = {} /\ scope'[s].running = scope[s].running
<1>1. /\ ScopeType' /\ scope'[s].stray = scope[s].stray
      /\ \A t \in Scopes : t # s => scope'[t] = scope[t]
      /\ scope[s].sealed /\ scope'[s].sealed /\ scope'[s].closed
      /\ scope[s].work = {} /\ scope'[s].work = {} /\ scope'[s].running = scope[s].running
  BY DEF ScopeType, ScopeState, ScopesSound, Complete, MayComplete
<1> QED BY <1>1 DEF ScopesSound

\* A body that ends or is abandoned, or work that settles, seals and closes
\* nothing.
LEMMA WorkFacts ==
    ASSUME ScopeType, ScopesSound, NEW s \in Scopes, NEW x \in scope[s].work,
           BodyEnds(s, x) \/ BodyAbandoned(s, x) \/ WorkSettles(s, x, TRUE) \/ WorkSettles(s, x, FALSE)
    PROVE  /\ ScopeType' /\ ScopesSound'
           /\ \A t \in Scopes : /\ scope'[t].sealed = scope[t].sealed /\ scope'[t].closed = scope[t].closed
                                /\ scope'[t].work \subseteq scope[t].work
           /\ \A y : (s = EmitterScope => y # x \/ (InCall(y) /\ ~BodyAbandoned(s, x))) =>
                 (y \in scope[EmitterScope].running => y \in scope'[EmitterScope].running)
<1> USE EmitterAssumption
<1>1. CASE BodyEnds(s, x) \/ BodyAbandoned(s, x)
  <2>1. /\ ScopeType'
        /\ \A t \in Scopes : t # s => scope'[t] = scope[t]
        /\ scope'[s].sealed = scope[s].sealed /\ scope'[s].closed = scope[s].closed
        /\ scope'[s].work = scope[s].work /\ scope'[s].running = scope[s].running \ {x}
        /\ scope'[s].stray = scope[s].stray
    BY <1>1 DEF ScopeType, ScopeState, BodyEnds, BodyAbandoned, Outcome
  <2>2. s = EmitterScope => ~InCall(x) \/ BodyAbandoned(s, x)
    BY <1>1 DEF BodyEnds, Engaged
  <2>3. ScopesSound'
    BY <2>1 DEF ScopesSound
  <2> QED BY <2>1, <2>2, <2>3
<1>2. CASE WorkSettles(s, x, TRUE) \/ WorkSettles(s, x, FALSE)
  <2>1. /\ ScopeType'
        /\ \A t \in Scopes : t # s => scope'[t] = scope[t]
        /\ scope'[s].sealed = scope[s].sealed /\ scope'[s].closed = scope[s].closed
        /\ scope'[s].work = scope[s].work \ {x} /\ scope'[s].running = scope[s].running
        /\ x \notin scope[s].running /\ scope'[s].stray = scope[s].stray
    BY <1>2 DEF ScopeType, ScopeState, WorkSettles, Settle
  <2>2. ScopesSound'
    BY <2>1 DEF ScopesSound
  <2> QED BY <2>1, <2>2
<1> QED BY <1>1, <1>2

-----------------------------------------------------------------------------
(* Sequences                                                               *)

\* SetToSeq(routed), the snapshot of close(), has every routed scope.
LEMMA SetToSeqFacts ==
    ASSUME NEW S, IsFiniteSet(S)
    PROVE  /\ SetToSeq(S) \in Seq(S)
           /\ \A x \in S : \E i \in 1..Len(SetToSeq(S)) : SetToSeq(S)[i] = x
<1> DEFINE n == Cardinality(S)
           f == SetToSeq(S)
<1>1. n \in Nat /\ \E g \in [1..n -> S] : IsInjective(g)
  <2>1. n \in Nat /\ ExistsBijection(1..n, S)
    BY FS_CardinalityType
  <2> QED BY <2>1 DEF ExistsBijection, Bijection, Injection
<1>2. f \in [1..n -> S] /\ IsInjective(f)
  BY <1>1 DEF SetToSeq
<1>3. Cardinality(1..n) = n
  BY <1>1, FS_Interval
<1> HIDE DEF n, f
<1>4. f \in Injection(1..n, S)
  BY <1>2 DEF Injection
<1>5. f \in Surjection(1..n, S)
  BY <1>3, <1>4, FS_Injection DEF n
<1>6. f \in Seq(S) /\ Len(f) = n
  BY <1>1, <1>2
<1> QED BY <1>5, <1>6 DEF f, Surjection

\* A nonempty set of numbers has a least one.
LEMMA MinFacts ==
    ASSUME NEW I, I \subseteq Nat, I # {}
    PROVE  Min(I) \in I
<1>1. \E x \in I : \A y \in I : ~(<<y, x>> \in OpToRel(<, Nat))
  BY NatLessThanWellFounded, WFMin
<1>2. \E x \in I : \A y \in I : x <= y
  <2>1. PICK x \in I : \A y \in I : ~(<<y, x>> \in OpToRel(<, Nat))
    BY <1>1
  <2>2. \A y \in I : ~(y < x)
    BY <2>1 DEF OpToRel
  <2> QED BY <2>2
<1> QED BY <1>2 DEF Min

\* Removing a listener makes its list shorter by one.
LEMMA RemoveFirstFacts ==
    ASSUME NEW q \in Seq(Listeners), NEW l
    PROVE  /\ RemoveFirst(q, l) \in Seq(Listeners)
           /\ Len(RemoveFirst(q, l)) = IF Contains(q, l) THEN Len(q) - 1 ELSE Len(q)
<1>1. CASE ~Contains(q, l)
  BY <1>1 DEF RemoveFirst, Contains
<1>2. CASE Contains(q, l)
  <2> DEFINE I == {i \in 1..Len(q) : q[i] = l}
             k == Min(I)
  <2>1. I # {} /\ I \subseteq Nat /\ I \subseteq 1..Len(q)
    BY <1>2 DEF Contains
  <2>2. k \in 1..Len(q)
    BY <2>1, MinFacts
  <2>3. RemoveFirst(q, l) = RemoveAt(q, k)
    BY <1>2, <2>1 DEF RemoveFirst, SelectInSeq, Contains
  <2> HIDE DEF k
  <2>4. \A i \in 1..Len(q) : q[i] \in Listeners
    BY ElementOfSeq
  <2>5. SubSeq(q, 1, k - 1) \in Seq(Listeners) /\ Len(SubSeq(q, 1, k - 1)) = k - 1
    <3>1. \A i \in 1..(k - 1) : q[i] \in Listeners
      BY <2>2, <2>4
    <3> QED BY <3>1, <2>2, SubSeqProperties
  <2>6. SubSeq(q, k + 1, Len(q)) \in Seq(Listeners) /\ Len(SubSeq(q, k + 1, Len(q))) = Len(q) - k
    <3>1. \A i \in (k + 1)..Len(q) : q[i] \in Listeners
      BY <2>2, <2>4
    <3> QED BY <3>1, <2>2, SubSeqProperties
  <2>7. RemoveAt(q, k) \in Seq(Listeners) /\ Len(RemoveAt(q, k)) = (k - 1) + (Len(q) - k)
    BY <2>5, <2>6, ConcatProperties DEF RemoveAt
  <2> QED BY <1>2, <2>2, <2>3, <2>7
<1> QED BY <1>1, <1>2

-----------------------------------------------------------------------------
(* The emitter                                                             *)

\* Steps that are not the emitter's, and do not seal its scope, keep what is
\* known of it.
LEMMA EmitterUntouched ==
    ASSUME EmitterInv, UNCHANGED emitterVars,
           scope'[EmitterScope].sealed = scope[EmitterScope].sealed
    PROVE  EmitterInv'
<1>1. UNCHANGED <<listeners, once, registrations, onceBalance, registryLock, emitPc, toSubmit, handles,
                  emitterClosed>>
  BY DEF emitterVars, registryVars, emitVars
<1>2. EmitterType' /\ RegistryCounted'
  BY <1>1 DEF EmitterInv, EmitterType, RegistryCounted
<1>3. LockGuards' /\ AcceptedEmitIsWhole'
  BY <1>1 DEF EmitterInv, LockGuards, AcceptedEmitIsWhole
<1> QED BY <1>2, <1>3 DEF EmitterInv

\* on, once, off, remove_all_listeners: nothing but the lists changes.
LEMMA RegistryKept ==
    ASSUME EmitterInv, UNCHANGED <<emitVars, emitterClosed, scope>>,
           listeners' \in Seq(Listeners), once' \in Seq(Listeners),
           registrations' \in Nat, registrations' <= MaxRegistrations,
           onceBalance' = Len(once'), Len(listeners') + Len(once') <= registrations'
    PROVE  EmitterInv'
<1>1. UNCHANGED <<registryLock, emitPc, toSubmit, handles>>
  BY DEF emitVars
<1>2. Len(once') \in Nat
  OBVIOUS
<1>3. EmitterType'
  BY <1>1, <1>2 DEF EmitterInv, EmitterType
<1>4. RegistryCounted'
  BY <1>1 DEF EmitterInv, RegistryCounted
<1>5. LockGuards' /\ AcceptedEmitIsWhole'
  BY <1>1 DEF EmitterInv, LockGuards, AcceptedEmitIsWhole
<1> QED BY <1>3, <1>4, <1>5 DEF EmitterInv

LEMMA RegistrySteps ==
    ASSUME EmitterInv, RegistryStep
    PROVE  EmitterInv' /\ UNCHANGED scope
<1> USE EmitterAssumption
<1>0. /\ listeners \in Seq(Listeners) /\ once \in Seq(Listeners)
      /\ Len(listeners) \in Nat /\ Len(once) \in Nat /\ registrations \in Nat
      /\ onceBalance = Len(once) /\ Len(listeners) + Len(once) <= registrations
      /\ registrations <= MaxRegistrations
  BY DEF EmitterInv, EmitterType, RegistryCounted
<1>1. ASSUME NEW l \in Listeners, AddListener(l) PROVE EmitterInv' /\ UNCHANGED scope
  <2>1. /\ listeners' = Append(listeners, l) /\ UNCHANGED <<once, onceBalance, emitVars, emitterClosed, scope>>
        /\ registrations < MaxRegistrations /\ registrations' = registrations + 1
    BY <1>1 DEF AddListener, Registers
  <2>2. listeners' \in Seq(Listeners) /\ Len(listeners') = Len(listeners) + 1
    BY <2>1, <1>0
  <2> QED BY <2>1, <2>2, <1>0, RegistryKept
<1>2. ASSUME NEW l \in Listeners, AddOnceListener(l) PROVE EmitterInv' /\ UNCHANGED scope
  <2>1. /\ once' = Append(once, l) /\ UNCHANGED <<listeners, emitVars, emitterClosed, scope>>
        /\ onceBalance' = onceBalance + 1
        /\ registrations < MaxRegistrations /\ registrations' = registrations + 1
    BY <1>2 DEF AddOnceListener, Registers
  <2>2. once' \in Seq(Listeners) /\ Len(once') = Len(once) + 1
    BY <2>1, <1>0
  <2> QED BY <2>1, <2>2, <1>0, RegistryKept
<1>3. ASSUME NEW l \in Listeners, RemoveListener(l) PROVE EmitterInv' /\ UNCHANGED scope
  <2>1. /\ listeners' = RemoveFirst(listeners, l) /\ once' = RemoveFirst(once, l)
        /\ UNCHANGED <<registrations, emitVars, emitterClosed, scope>>
        /\ onceBalance' = onceBalance - (IF Contains(once, l) THEN 1 ELSE 0)
    BY <1>3 DEF RemoveListener
  <2>2. /\ listeners' \in Seq(Listeners) /\ once' \in Seq(Listeners)
        /\ Len(listeners') = IF Contains(listeners, l) THEN Len(listeners) - 1 ELSE Len(listeners)
        /\ Len(once') = IF Contains(once, l) THEN Len(once) - 1 ELSE Len(once)
    BY <2>1, <1>0, RemoveFirstFacts
  <2>3. onceBalance' = Len(once')
    <3>1. CASE Contains(once, l)
      BY <3>1, <2>1, <2>2, <1>0
    <3>2. CASE ~Contains(once, l)
      BY <3>2, <2>1, <2>2, <1>0
    <3> QED BY <3>1, <3>2
  <2>4. Len(listeners') <= Len(listeners) /\ Len(once') <= Len(once)
    BY <2>2, <1>0
  <2>5. Len(listeners') + Len(once') <= registrations'
    <3>1. \A m, n, a, b, r \in Nat : m + n <= r /\ a <= m /\ b <= n => a + b <= r
      OBVIOUS
    <3>2. Len(listeners') \in Nat /\ Len(once') \in Nat
      BY <2>2
    <3> QED BY <3>1, <3>2, <2>1, <2>4, <1>0
  <2> QED BY <2>1, <2>2, <2>3, <2>5, <1>0, RegistryKept
<1>4. CASE RemoveAllListeners
  <2>1. /\ listeners' = <<>> /\ once' = <<>> /\ onceBalance' = onceBalance - Len(once)
        /\ UNCHANGED <<registrations, emitVars, emitterClosed, scope>>
    BY <1>4 DEF RemoveAllListeners
  <2>2. /\ listeners' \in Seq(Listeners) /\ once' \in Seq(Listeners) /\ Len(listeners') = 0 /\ Len(once') = 0
    BY <2>1
  <2> QED BY <2>1, <2>2, <1>0, RegistryKept
<1> QED BY <1>1, <1>2, <1>3, <1>4 DEF RegistryStep

\* What a step of the emitter leaves alone, and how it keeps its invariant.
EmitterFrame ==
    /\ ScopeType' /\ ScopesSound' /\ EmitterInv'
    /\ \A t \in Scopes : t # EmitterScope => scope'[t] = scope[t]
    /\ scope[EmitterScope].running \subseteq scope'[EmitterScope].running

LEMMA EmitSteps ==
    ASSUME IInv, NEW e \in Emits, Emit(e) \/ EmitProceeds(e)
    PROVE  EmitterFrame
<1> USE EmitterAssumption
<1>0. /\ ScopeType /\ ScopesSound /\ EmitterScope \in Scopes
      /\ listeners \in Seq(Listeners) /\ once \in Seq(Listeners)
      /\ Len(listeners) \in Nat /\ Len(once) \in Nat /\ registrations \in Nat
      /\ onceBalance = Len(once) /\ Len(listeners) + Len(once) <= registrations
      /\ registrations <= MaxRegistrations
      /\ emitPc \in [Emits -> EmitStates]
      /\ toSubmit \in [Emits -> Seq(Listeners)] /\ handles \in [Emits -> Seq(Listeners)]
  BY DEF IInv, EmitterInv, EmitterType, RegistryCounted
<1>a. UNCHANGED scope => /\ ScopeType' /\ ScopesSound'
                         /\ \A t \in Scopes : t # EmitterScope => scope'[t] = scope[t]
                         /\ scope[EmitterScope].running \subseteq scope'[EmitterScope].running
  BY <1>0 DEF ScopeType, ScopesSound
<1>1. CASE Emit(e)
  <2>1. /\ emitPc[e] = "idle" /\ registryLock = NoEmit /\ ~emitterClosed /\ registryLock' = e
        /\ emitPc' = [emitPc EXCEPT ![e] = "submitting"]
        /\ toSubmit' = [toSubmit EXCEPT ![e] = listeners \o once]
        /\ once' = <<>> /\ onceBalance' = onceBalance - Len(once)
        /\ UNCHANGED <<listeners, registrations, handles, emitterClosed, scope>>
    BY <1>1 DEF Emit, OnceAfterEmit
  <2>2. listeners \o once \in Seq(Listeners) /\ Len(listeners \o once) = Len(listeners) + Len(once)
    BY <1>0, ConcatProperties
  <2> DEFINE all == listeners \o once
  <2> HIDE DEF all
  <2>3. EmitterType'
    <3>1. toSubmit' \in [Emits -> Seq(Listeners)] /\ emitPc' \in [Emits -> EmitStates]
      BY <2>1, <2>2, <1>0 DEF EmitStates
    <3>2. once' \in Seq(Listeners) /\ onceBalance' \in Int
      BY <2>1, <1>0
    <3> QED BY <3>1, <3>2, <2>1 DEF IInv, EmitterInv, EmitterType
  <2>4. RegistryCounted'
    <3>1. Len(handles[e]) = 0
      BY <2>1 DEF IInv, EmitterInv, RegistryCounted
    <3>2. Len(handles'[e]) + Len(toSubmit'[e]) <= MaxRegistrations
      BY <3>1, <2>1, <2>2, <1>0
    <3>3. \A d \in Emits : d # e => toSubmit'[d] = toSubmit[d] /\ emitPc'[d] = emitPc[d]
      BY <2>1, <1>0
    <3>4. emitPc'[e] # "idle" /\ onceBalance' = Len(once') /\ Len(listeners') + Len(once') <= registrations'
      BY <2>1, <1>0
    <3> QED BY <3>2, <3>3, <3>4, <2>1 DEF IInv, EmitterInv, RegistryCounted
  <2>5. LockGuards'
    BY <2>1, <1>0 DEF IInv, EmitterInv, LockGuards
  <2>6. AcceptedEmitIsWhole'
    BY <2>1, <1>0 DEF IInv, EmitterInv, AcceptedEmitIsWhole
  <2> QED BY <2>1, <2>3, <2>4, <2>5, <2>6, <1>a DEF EmitterFrame, EmitterInv
<1>2. CASE EmitGo(e)
  <2>1. /\ emitPc[e] = "submitting" /\ toSubmit[e] # <<>>
        /\ Admit(EmitterScope, <<e, Len(handles[e]) + 1>>, TRUE)
        /\ handles' = [handles EXCEPT ![e] = Append(@, Head(toSubmit[e]))]
        /\ toSubmit' = [toSubmit EXCEPT ![e] = Tail(@)]
        /\ UNCHANGED <<listeners, once, registrations, onceBalance, registryLock, emitPc, emitterClosed>>
    BY <1>2 DEF EmitGo, registryVars
  <2>2. /\ Head(toSubmit[e]) \in Listeners /\ Tail(toSubmit[e]) \in Seq(Listeners)
        /\ Len(Tail(toSubmit[e])) = Len(toSubmit[e]) - 1
        /\ Len(toSubmit[e]) \in Nat /\ Len(toSubmit[e]) >= 1 /\ Len(handles[e]) \in Nat
    BY <2>1, <1>0, HeadTailProperties, EmptySeq
  <2>3. Len(handles[e]) + Len(toSubmit[e]) <= MaxRegistrations
    BY DEF IInv, EmitterInv, RegistryCounted
  <2>4. <<e, Len(handles[e]) + 1>> \in Work
    <3>1. Len(handles[e]) + 1 \in 1..MaxRegistrations
      <4>1. \A m, n, b \in Nat : n >= 1 /\ m + n <= b => m + 1 \in 1..b
        OBVIOUS
      <4> QED BY <4>1, <2>2, <2>3
    <3> QED BY <3>1, ClientsAssumption
  <2>5. /\ ScopeType' /\ ScopesSound'
        /\ \A t \in Scopes : t # EmitterScope => scope'[t] = scope[t]
        /\ scope'[EmitterScope].sealed = scope[EmitterScope].sealed
        /\ scope[EmitterScope].running \subseteq scope'[EmitterScope].running
    BY <2>1, <2>4, <1>0, AdmitFacts
  <2>6. /\ Append(handles[e], Head(toSubmit[e])) \in Seq(Listeners)
        /\ Len(Append(handles[e], Head(toSubmit[e]))) = Len(handles[e]) + 1
    BY <2>2, <1>0, AppendProperties
  <2>7. EmitterType'
    <3>1. toSubmit' \in [Emits -> Seq(Listeners)] /\ handles' \in [Emits -> Seq(Listeners)]
      BY <2>1, <2>2, <2>6, <1>0
    <3> QED BY <3>1, <2>1 DEF IInv, EmitterInv, EmitterType
  <2>8. RegistryCounted'
    <3>1. Len(handles'[e]) + Len(toSubmit'[e]) <= MaxRegistrations
      BY <2>1, <2>2, <2>3, <2>6, <1>0
    <3>2. \A d \in Emits : d # e => toSubmit'[d] = toSubmit[d] /\ handles'[d] = handles[d]
      BY <2>1, <1>0
    <3> QED BY <3>1, <3>2, <2>1 DEF IInv, EmitterInv, RegistryCounted
  <2>9. LockGuards'
    BY <2>1, <2>5 DEF IInv, EmitterInv, LockGuards
  <2>10. AcceptedEmitIsWhole'
    BY <2>1, <1>0 DEF IInv, EmitterInv, AcceptedEmitIsWhole
  <2> QED BY <2>5, <2>7, <2>8, <2>9, <2>10 DEF EmitterFrame, EmitterInv
<1>3. CASE EmitRaises(e) \/ EmitEnds(e) \/ WaitHandles(e)
  <2>1. /\ UNCHANGED <<listeners, once, registrations, onceBalance, toSubmit, handles, emitterClosed, scope>>
        /\ \E to \in {"waiting", "returned", "raised", "cut"} : emitPc' = [emitPc EXCEPT ![e] = to]
        /\ \/ emitPc[e] = "waiting" /\ registryLock' = registryLock
           \/ emitPc[e] = "submitting" /\ registryLock' = NoEmit
    BY <1>3 DEF EmitRaises, EmitEnds, WaitHandles, registryVars
  <2>2. \A d \in Emits : d # e => emitPc'[d] = emitPc[d]
    BY <2>1, <1>0
  <2>3. emitPc'[e] \in {"waiting", "returned", "raised", "cut"} /\ emitPc' \in [Emits -> EmitStates]
    BY <2>1, <1>0 DEF EmitStates
  <2>4. EmitterType' /\ RegistryCounted'
    BY <2>1, <2>2, <2>3 DEF IInv, EmitterInv, EmitterType, RegistryCounted
  <2>5. LockGuards'
    <3>1. \A d \in Emits : emitPc'[d] = "submitting" => registryLock' = d
      BY <2>1, <2>2, <2>3 DEF IInv, EmitterInv, LockGuards
    <3> QED BY <3>1, <2>1, <2>2, <2>3 DEF IInv, EmitterInv, LockGuards
  <2>6. AcceptedEmitIsWhole'
    <3>1. emitPc'[e] # "cut"
      <4>1. CASE EmitRaises(e)
        BY <4>1, <1>0 DEF EmitRaises, Open, IInv, EmitterInv, LockGuards
      <4>2. CASE EmitEnds(e) \/ WaitHandles(e)
        BY <4>2, <1>0 DEF EmitEnds, WaitHandles
      <4> QED BY <4>1, <4>2, <1>3
    <3> QED BY <3>1, <2>1, <2>2 DEF IInv, EmitterInv, AcceptedEmitIsWhole
  <2> QED BY <2>1, <2>4, <2>5, <2>6, <1>a DEF EmitterFrame, EmitterInv
<1> QED BY <1>1, <1>2, <1>3 DEF EmitProceeds

LEMMA EmitterCloseSteps ==
    ASSUME IInv, NEW k \in EmitterClosers,
           CloseEmitter(k, TRUE) \/ CloseEmitter(k, FALSE) \/ CloseEmitterAgain(k) \/ EmitterCloses(k)
    PROVE  EmitterFrame
<1> USE EmitterAssumption
<1>0. /\ ScopeType /\ ScopesSound /\ EmitterScope \in Scopes
      /\ UNCHANGED <<listeners, once, registrations, onceBalance, registryLock, emitPc, toSubmit, handles>>
      /\ emitterClosed => emitterClosed'
      /\ emitterClosed' \in BOOLEAN
  BY DEF IInv, EmitterInv, EmitterType, CloseEmitter, CloseEmitterAgain, EmitterCloses, registryVars, emitVars
<1>1. EmitterType' /\ RegistryCounted' /\ AcceptedEmitIsWhole'
  BY <1>0 DEF IInv, EmitterInv, EmitterType, RegistryCounted, AcceptedEmitIsWhole
<1>2. CASE UNCHANGED scope
  <2>1. LockGuards'
    BY <1>0, <1>2 DEF IInv, EmitterInv, LockGuards
  <2> QED BY <1>0, <1>1, <1>2, <2>1 DEF EmitterFrame, EmitterInv, ScopeType, ScopesSound
<1>3. CASE SealScope(EmitterScope) /\ emitterClosed' /\ registryLock = NoEmit
  <2>1. /\ ScopeType' /\ ScopesSound'
        /\ \A t \in Scopes : t # EmitterScope => scope'[t] = scope[t]
        /\ scope[EmitterScope].running \subseteq scope'[EmitterScope].running
    BY <1>0, <1>3, SealFacts
  <2>2. LockGuards'
    BY <1>0, <1>3 DEF IInv, EmitterInv, LockGuards
  <2> QED BY <1>1, <2>1, <2>2 DEF EmitterFrame, EmitterInv
<1>4. CASE Complete(EmitterScope)
  <2>1. /\ ScopeType' /\ ScopesSound'
        /\ \A t \in Scopes : t # EmitterScope => scope'[t] = scope[t]
        /\ scope[EmitterScope].sealed
        /\ scope[EmitterScope].running \subseteq scope'[EmitterScope].running
    BY <1>0, <1>4, CompleteFacts
  <2>2. LockGuards'
    BY <1>0, <2>1 DEF IInv, EmitterInv, LockGuards
  <2> QED BY <1>1, <2>1, <2>2 DEF EmitterFrame, EmitterInv
<1> QED BY <1>2, <1>3, <1>4 DEF CloseEmitter, CloseEmitterAgain, EmitterCloses, MayCloseEmitter

-----------------------------------------------------------------------------
(* The bridge                                                              *)

\* The scopes of the bridge are not the emitter's.
LEMMA OwnedScopes ==
    ASSUME BridgeType
    PROVE  /\ Owned \subseteq Scopes \ {EmitterScope} /\ Calls \subseteq Scopes \ {EmitterScope}
           /\ CarrierScope \in Scopes \ (Calls \cup {EmitterScope})
           /\ SubmitScope \in Scopes \ (Calls \cup {EmitterScope})
<1>1. /\ Calls \subseteq Scopes \ {EmitterScope}
      /\ CarrierScope \in Scopes \ (Calls \cup {EmitterScope})
      /\ SubmitScope \in Scopes \ (Calls \cup {EmitterScope})
  BY BridgeAssumption, ClientsAssumption
<1>2. Owned \subseteq Scopes \ {EmitterScope}
  BY <1>1 DEF Owned, BridgeType
<1> QED BY <1>1, <1>2

\* Steps that are not the bridge's close none of its scopes, and admit nothing
\* to them.
LEMMA BridgeUntouched ==
    ASSUME BridgeInv, UNCHANGED bridgeVars,
           \A t \in Scopes : t # EmitterScope =>
              scope'[t].closed = scope[t].closed /\ scope'[t].work \subseteq scope[t].work
    PROVE  BridgeInv'
<1>1. UNCHANGED <<ownsSubmit, closing, bridgeClosed, routed, callPc, bcloserPc, toClose>>
  BY DEF bridgeVars, callVars, closeVars
<1>2. BridgeType'
  BY <1>1 DEF BridgeInv, BridgeType
<1>3. Owned' = Owned
  BY <1>1 DEF Owned
<1>4. \A s \in Owned : scope'[s].closed = scope[s].closed
  BY OwnedScopes DEF BridgeInv
<1>5. ClosersCover'
  BY <1>1, <1>3, <1>4 DEF BridgeInv, ClosersCover
<1>6. CloseKept'
  BY <1>1, <1>3, <1>4 DEF BridgeInv, CloseKept
<1>7. RoutedKnown'
  <2> SUFFICES ASSUME NEW c \in Calls PROVE RoutedScope(c)'
    BY DEF RoutedKnown
  <2>1. scope'[c].closed = scope[c].closed /\ scope'[c].work \subseteq scope[c].work
    BY OwnedScopes DEF BridgeInv
  <2>2. scope[c].work = {} => scope'[c].work = {}
    BY <2>1
  <2> QED BY <2>1, <2>2, <1>1 DEF BridgeInv, RoutedKnown, RoutedScope
<1> QED BY <1>2, <1>5, <1>6, <1>7 DEF BridgeInv

\* What a step of the bridge leaves alone, and how it keeps its invariant.
BridgeFrame ==
    /\ ScopeType' /\ ScopesSound' /\ BridgeInv'
    /\ scope'[EmitterScope] = scope[EmitterScope]
    /\ \A c \in Calls : callPc[c] \in CallOver => callPc'[c] = callPc[c]

\* A call registers a scope only before the bridge closes, so that it never
\* adds to what a close has to do.
LEMMA CallKeepsClose ==
    ASSUME BridgeInv, UNCHANGED <<ownsSubmit, closing, bridgeClosed, bcloserPc, toClose>>,
           \A s \in Scopes : scope[s].closed => scope'[s].closed,
           routed' \subseteq routed \/ ~closing
    PROVE  ClosersCover' /\ CloseKept'
<1>1. CASE ~closing
  BY <1>1 DEF BridgeInv, ClosersCover, CloseKept
<1>2. CASE routed' \subseteq routed
  <2>1. Owned' \subseteq Owned
    BY <1>2 DEF Owned
  <2>2. \A s \in Owned : scope[s].closed => scope'[s].closed
    BY OwnedScopes DEF BridgeInv
  <2>3. ClosersCover'
    BY <2>1, <2>2 DEF BridgeInv, ClosersCover
  <2>4. CloseKept'
    BY <2>1, <2>2, <1>2 DEF BridgeInv, CloseKept
  <2> QED BY <2>3, <2>4
<1> QED BY <1>1, <1>2

\* A call's step concerns its own routed scope only.
LEMMA CallKeepsOthers ==
    ASSUME BridgeInv, NEW c \in Calls, RoutedScope(c)',
           \A d \in Calls : d # c => /\ scope'[d] = scope[d] /\ callPc'[d] = callPc[d]
                                     /\ d \in routed => d \in routed'
    PROVE  RoutedKnown'
<1> SUFFICES ASSUME NEW d \in Calls, d # c PROVE RoutedScope(d)'
  BY DEF RoutedKnown
<1> QED BY DEF BridgeInv, RoutedKnown, RoutedScope

\* as_sync() on the shared scope.
LEMMA LightSteps ==
    ASSUME IInv, NEW c \in Calls, LightGo(c) \/ LightResult(c) \/ LightSettled(c)
    PROVE  BridgeFrame
<1>0. /\ ScopeType /\ ScopesSound /\ BridgeInv /\ c \in Work
      /\ callPc \in [Calls -> CallStates]
  BY ClientsAssumption DEF IInv, BridgeInv, BridgeType
<1>a. /\ Calls \subseteq Scopes \ {EmitterScope} /\ EmitterScope \in Scopes
      /\ CarrierScope \in Scopes \ (Calls \cup {EmitterScope})
  BY <1>0, OwnedScopes, EmitterAssumption DEF BridgeInv
<1>1. /\ UNCHANGED <<ownsSubmit, closing, bridgeClosed, routed, bcloserPc, toClose>>
      /\ callPc[c] \in {"checked", "light", "settling"}
      /\ \E to \in {"light", "settling", "returned", "raised"} : callPc' = [callPc EXCEPT ![c] = to]
      /\ UNCHANGED scope \/ Admit(CarrierScope, c, TRUE)
  BY DEF LightGo, LightResult, LightSettled, CallGoes, closeVars
<1>2. /\ ScopeType' /\ ScopesSound'
      /\ \A t \in Scopes : /\ t # CarrierScope => scope'[t] = scope[t]
                           /\ scope'[t].closed = scope[t].closed
  <2>1. CASE UNCHANGED scope
    BY <2>1, <1>0 DEF ScopeType, ScopesSound
  <2>2. CASE Admit(CarrierScope, c, TRUE)
    BY <2>2, <1>0, <1>a, AdmitFacts
  <2> QED BY <2>1, <2>2, <1>1
<1>3. /\ callPc' \in [Calls -> CallStates] /\ \A d \in Calls : d # c => callPc'[d] = callPc[d]
      /\ callPc'[c] \in {"light", "settling", "returned", "raised"}
  BY <1>0, <1>1 DEF CallStates
<1>4. BridgeType'
  BY <1>0, <1>1, <1>3 DEF BridgeInv, BridgeType
<1>5. ClosersCover' /\ CloseKept'
  BY <1>0, <1>1, <1>2, CallKeepsClose
<1>6. \A d \in Calls : scope'[d] = scope[d]
  BY <1>2, <1>a
<1>7. RoutedScope(c)'
  <2>1. scope[c].work = {}
    BY <1>0, <1>1 DEF BridgeInv, RoutedKnown, RoutedScope
  <2> QED BY <2>1, <1>3, <1>6 DEF RoutedScope
<1>8. RoutedKnown'
  BY <1>0, <1>1, <1>3, <1>6, <1>7, CallKeepsOthers
<1>9. scope'[EmitterScope] = scope[EmitterScope]
  BY <1>2, <1>a
<1>10. \A d \in Calls : callPc[d] \in CallOver => callPc'[d] = callPc[d]
  BY <1>1, <1>3 DEF CallOver
<1> QED BY <1>2, <1>4, <1>5, <1>8, <1>9, <1>10 DEF BridgeFrame, BridgeInv

\* as_sync() in a routed scope.
LEMMA RoutedSteps ==
    ASSUME IInv, NEW c \in Calls,
           RegisterRouted(c) \/ EnterRouted(c) \/ GoRouted(c) \/ RoutedResult(c) \/ RoutedCloses(c) \/ LeaveRouted(c)
    PROVE  BridgeFrame
<1>0. /\ ScopeType /\ ScopesSound /\ BridgeInv /\ c \in Work
      /\ callPc \in [Calls -> CallStates] /\ routed \subseteq Calls /\ IsFiniteSet(routed) /\ closing \in BOOLEAN
  BY ClientsAssumption DEF IInv, BridgeInv, BridgeType
<1>a. Calls \subseteq Scopes \ {EmitterScope} /\ EmitterScope \in Scopes /\ c \in Scopes
  BY <1>0, OwnedScopes, EmitterAssumption DEF BridgeInv
<1>1. /\ UNCHANGED <<ownsSubmit, closing, bridgeClosed, bcloserPc, toClose>>
      /\ callPc[c] \in {"checked", "registered", "entered", "awaiting", "draining", "leaving"}
      /\ \E to \in {"registered", "entered", "awaiting", "draining", "leaving", "returned", "raised"} :
            callPc' = [callPc EXCEPT ![c] = to]
  BY DEF RegisterRouted, EnterRouted, GoRouted, RoutedResult, RoutedCloses, LeaveRouted, CallGoes, closeVars
<1>2. UNCHANGED scope \/ Admit(c, c, TRUE) \/ SealScope(c) \/ Complete(c)
  BY DEF RegisterRouted, EnterRouted, GoRouted, RoutedResult, RoutedCloses, LeaveRouted
<1>3. routed' = routed \/ (routed' = routed \cup {c} /\ ~closing) \/ routed' = routed \ {c}
  BY DEF RegisterRouted, EnterRouted, GoRouted, RoutedResult, RoutedCloses, LeaveRouted, MayRoute
<1>4. /\ ScopeType' /\ ScopesSound'
      /\ \A t \in Scopes : /\ t # c => scope'[t] = scope[t]
                           /\ scope[t].closed => scope'[t].closed
  <2>1. CASE UNCHANGED scope
    BY <2>1, <1>0 DEF ScopeType, ScopesSound
  <2>2. CASE Admit(c, c, TRUE)
    BY <2>2, <1>0, <1>a, AdmitFacts
  <2>3. CASE SealScope(c)
    BY <2>3, <1>0, <1>a, SealFacts
  <2>4. CASE Complete(c)
    BY <2>4, <1>0, <1>a, CompleteFacts
  <2> QED BY <2>1, <2>2, <2>3, <2>4, <1>2
<1>5. /\ callPc' \in [Calls -> CallStates] /\ \A d \in Calls : d # c => callPc'[d] = callPc[d]
  BY <1>0, <1>1 DEF CallStates
<1>6. BridgeType'
  <2>1. routed' \subseteq Calls /\ IsFiniteSet(routed')
    BY <1>0, <1>3, FS_AddElement, FS_RemoveElement
  <2> QED BY <2>1, <1>0, <1>1, <1>5 DEF BridgeInv, BridgeType
<1>7. ClosersCover' /\ CloseKept'
  <2>1. routed' \subseteq routed \/ ~closing
    BY <1>3
  <2> QED BY <2>1, <1>0, <1>1, <1>4, CallKeepsClose
<1>8. RoutedScope(c)'
  <2>0. RoutedScope(c)
    BY <1>0 DEF BridgeInv, RoutedKnown
  <2>1. CASE RegisterRouted(c)
    <3>1. /\ UNCHANGED scope /\ callPc[c] = "checked"
          /\ \/ callPc' = [callPc EXCEPT ![c] = "registered"] /\ c \in routed'
             \/ callPc' = [callPc EXCEPT ![c] = "raised"]
      BY <2>1 DEF RegisterRouted, CallGoes
    <3> QED BY <3>1, <2>0, <1>0 DEF RoutedScope
  <2>2. CASE EnterRouted(c)
    <3>1. routed' = routed /\ callPc[c] = "registered" /\ scope[c].work = {}
      BY <2>2, <2>0 DEF EnterRouted, RoutedScope
    <3>2. CASE Open(c)
      <4>1. UNCHANGED scope /\ callPc'[c] = "entered"
        BY <2>2, <3>2, <1>0 DEF EnterRouted, CallGoes
      <4> QED BY <4>1, <3>1, <2>0 DEF RoutedScope
    <3>3. CASE ~Open(c)
      <4>1. Complete(c) /\ callPc'[c] = "leaving"
        BY <2>2, <3>3, <1>0 DEF EnterRouted, CallGoes
      <4>2. scope'[c].work = {}
        BY <4>1, <1>0, <1>a, CompleteFacts
      <4> QED BY <4>1, <4>2 DEF RoutedScope
    <3> QED BY <3>2, <3>3
  <2>3. CASE GoRouted(c)
    <3>1. routed' = routed /\ callPc[c] = "entered" /\ scope[c].work = {} /\ (c \in routed \/ scope[c].closed)
      BY <2>3, <2>0 DEF GoRouted, RoutedScope
    <3>2. CASE Open(c)
      <4>1. Admit(c, c, TRUE) /\ callPc'[c] = "awaiting"
        BY <2>3, <3>2, <1>0 DEF GoRouted, CallGoes
      <4>2. c \in routed
        BY <3>1, <3>2, <1>0, <1>a DEF Open, ScopesSound
      <4> QED BY <4>1, <4>2, <3>1 DEF RoutedScope
    <3>3. CASE ~Open(c)
      <4>1. UNCHANGED scope /\ callPc'[c] = "leaving"
        BY <2>3, <3>3, <1>0 DEF GoRouted, CallGoes
      <4> QED BY <4>1, <3>1 DEF RoutedScope
    <3> QED BY <3>2, <3>3
  <2>4. CASE RoutedResult(c)
    <3>1. /\ routed' = routed /\ SealScope(c)
          /\ callPc'[c] = IF c \in Managed THEN "draining" ELSE "leaving"
      BY <2>4, <1>0 DEF RoutedResult, CallGoes
    <3>2. scope'[c].work = scope[c].work /\ scope'[c].closed = scope[c].closed
      BY <3>1, <1>0, <1>a, SealFacts
    <3> QED BY <3>1, <3>2, <2>0 DEF RoutedScope
  <2>5. CASE RoutedCloses(c)
    <3>1. routed' = routed /\ Complete(c) /\ callPc'[c] = "leaving"
      BY <2>5, <1>0 DEF RoutedCloses, CallGoes
    <3>2. scope'[c].work = {}
      BY <3>1, <1>0, <1>a, CompleteFacts
    <3> QED BY <3>1, <3>2 DEF RoutedScope
  <2>6. CASE LeaveRouted(c)
    <3>1. /\ UNCHANGED scope /\ callPc[c] = "leaving" /\ callPc'[c] = "returned"
          /\ routed' = IF Forgets(c) THEN routed \ {c} ELSE routed
      BY <2>6, <1>0 DEF LeaveRouted, CallGoes
    <3>2. Forgets(c) => scope[c].work = {}
      BY <3>1, <2>0 DEF Forgets, RoutedScope
    <3> QED BY <3>1, <3>2, <2>0 DEF RoutedScope
  <2> QED BY <2>1, <2>2, <2>3, <2>4, <2>5, <2>6
<1>9. RoutedKnown'
  <2>1. \A d \in Calls : d # c => scope'[d] = scope[d] /\ (d \in routed => d \in routed')
    BY <1>3, <1>4, <1>a
  <2> QED BY <2>1, <1>0, <1>5, <1>8, CallKeepsOthers
<1>10. scope'[EmitterScope] = scope[EmitterScope]
  BY <1>4, <1>a
<1>11. \A d \in Calls : callPc[d] \in CallOver => callPc'[d] = callPc[d]
  BY <1>1, <1>5 DEF CallOver
<1> QED BY <1>4, <1>6, <1>7, <1>9, <1>10, <1>11 DEF BridgeFrame, BridgeInv

\* submit()
LEMMA SubmitSteps ==
    ASSUME IInv, NEW u \in Submits, SubmitBegins(u) \/ SubmitGo(u)
    PROVE  BridgeFrame
<1>0. ScopeType /\ ScopesSound /\ BridgeInv /\ u \in Work
  BY ClientsAssumption DEF IInv
<1>a. /\ Calls \subseteq Scopes \ {EmitterScope} /\ EmitterScope \in Scopes
      /\ SubmitScope \in Scopes \ (Calls \cup {EmitterScope})
  BY <1>0, OwnedScopes, EmitterAssumption DEF BridgeInv
<1>1. /\ UNCHANGED <<ownsSubmit, closing, bridgeClosed, routed, callPc, bcloserPc, toClose>>
      /\ UNCHANGED scope \/ Admit(SubmitScope, u, TRUE)
  BY DEF SubmitBegins, SubmitGo, closeVars
<1>2. /\ ScopeType' /\ ScopesSound'
      /\ \A t \in Scopes : /\ t # SubmitScope => scope'[t] = scope[t]
                           /\ scope'[t].closed = scope[t].closed
  <2>1. CASE UNCHANGED scope
    BY <2>1, <1>0 DEF ScopeType, ScopesSound
  <2>2. CASE Admit(SubmitScope, u, TRUE)
    BY <2>2, <1>0, <1>a, AdmitFacts
  <2> QED BY <2>1, <2>2, <1>1
<1>3. BridgeType'
  BY <1>0, <1>1 DEF BridgeInv, BridgeType
<1>4. ClosersCover' /\ CloseKept'
  BY <1>0, <1>1, <1>2, CallKeepsClose
<1>5. \A d \in Calls : scope'[d] = scope[d]
  BY <1>2, <1>a
<1>6. RoutedKnown'
  BY <1>0, <1>1, <1>5 DEF BridgeInv, RoutedKnown, RoutedScope
<1>7. scope'[EmitterScope] = scope[EmitterScope]
  BY <1>2, <1>a
<1> QED BY <1>1, <1>2, <1>3, <1>4, <1>6, <1>7 DEF BridgeFrame, BridgeInv

-----------------------------------------------------------------------------
(* Closing the bridge                                                      *)

\* A close admits nothing, and reopens nothing; it may only forget routed
\* scopes that are closed.
LEMMA CloseKeepsRouted ==
    ASSUME BridgeInv, UNCHANGED callPc,
           \A c \in Calls : /\ scope'[c].work = scope[c].work
                            /\ scope[c].closed => scope'[c].closed
                            /\ c \in routed => c \in routed' \/ scope'[c].closed
    PROVE  RoutedKnown'
<1> SUFFICES ASSUME NEW c \in Calls PROVE RoutedScope(c)'
  BY DEF RoutedKnown
<1> QED BY DEF BridgeInv, RoutedKnown, RoutedScope

\* The snapshot of a close has every scope the bridge answers for.
LEMMA SnapshotCovers ==
    ASSUME BridgeType,
           NEW q, q = SetToSeq(routed) \o <<CarrierScope>> \o (IF ownsSubmit THEN <<SubmitScope>> ELSE <<>>)
    PROVE  /\ q \in Seq(Scopes \ {EmitterScope})
           /\ \A s \in Owned : \E i \in 1..Len(q) : q[i] = s
<1> DEFINE S == Scopes \ {EmitterScope}
           a == SetToSeq(routed)
           b == <<CarrierScope>>
           d == IF ownsSubmit THEN <<SubmitScope>> ELSE <<>>
<1>1. routed \subseteq S /\ CarrierScope \in S /\ SubmitScope \in S /\ ownsSubmit \in BOOLEAN
  BY OwnedScopes DEF BridgeType
<1>2. a \in Seq(routed) /\ \A x \in routed : \E i \in 1..Len(a) : a[i] = x
  BY SetToSeqFacts DEF BridgeType
<1>3. a \in Seq(S) /\ b \in Seq(S) /\ d \in Seq(S) /\ Len(b) = 1 /\ b[1] = CarrierScope
  <2>1. a \in Seq(S)
    <3> HIDE DEF S, a
    <3> QED BY <1>1, <1>2
  <2>2. b \in Seq(S) /\ Len(b) = 1 /\ b[1] = CarrierScope
    <3> HIDE DEF S
    <3> QED BY <1>1
  <2>3. d \in Seq(S)
    <3> HIDE DEF S
    <3> QED BY <1>1
  <2> QED BY <2>1, <2>2, <2>3
<1>4. ownsSubmit => Len(d) = 1 /\ d[1] = SubmitScope
  OBVIOUS
<1> HIDE DEF S, a, b, d
<1>5. /\ a \o b \in Seq(S) /\ Len(a \o b) = Len(a) + 1
      /\ \A i \in 1..(Len(a) + 1) : (a \o b)[i] = IF i <= Len(a) THEN a[i] ELSE b[i - Len(a)]
  <2>1. /\ a \o b \in Seq(S) /\ Len(a \o b) = Len(a) + Len(b)
        /\ \A i \in 1..(Len(a) + Len(b)) : (a \o b)[i] = IF i <= Len(a) THEN a[i] ELSE b[i - Len(a)]
    BY <1>3, ConcatProperties
  <2> QED BY <2>1, <1>3
<1>6. /\ (a \o b) \o d \in Seq(S) /\ Len((a \o b) \o d) = Len(a) + 1 + Len(d)
      /\ \A i \in 1..(Len(a) + 1 + Len(d)) :
            ((a \o b) \o d)[i] = IF i <= Len(a) + 1 THEN (a \o b)[i] ELSE d[i - (Len(a) + 1)]
  <2> DEFINE ab == a \o b
  <2>1. ab \in Seq(S) /\ Len(ab) = Len(a) + 1
    BY <1>5
  <2> HIDE DEF ab
  <2>2. /\ ab \o d \in Seq(S) /\ Len(ab \o d) = Len(ab) + Len(d)
        /\ \A i \in 1..(Len(ab) + Len(d)) : (ab \o d)[i] = IF i <= Len(ab) THEN ab[i] ELSE d[i - Len(ab)]
    BY <2>1, <1>3, ConcatProperties
  <2>3. /\ ab \o d \in Seq(S) /\ Len(ab \o d) = Len(a) + 1 + Len(d)
        /\ \A i \in 1..(Len(a) + 1 + Len(d)) :
              (ab \o d)[i] = IF i <= Len(a) + 1 THEN ab[i] ELSE d[i - (Len(a) + 1)]
    BY <2>1, <2>2
  <2> QED BY <2>3 DEF ab
<1>7. q = (a \o b) \o d
  BY DEF a, b, d
<1>8. Len(a) \in Nat /\ Len(d) \in Nat
  BY <1>3
<1>9. ASSUME NEW s \in Owned PROVE \E i \in 1..Len(q) : q[i] = s
  <2>1. CASE s \in routed
    <3>1. PICK i \in 1..Len(a) : a[i] = s
      BY <2>1, <1>2
    <3>2. i \in 1..(Len(a) + 1) /\ i \in 1..(Len(a) + 1 + Len(d)) /\ i <= Len(a) + 1
      BY <1>8
    <3>3. (a \o b)[i] = s
      BY <3>1, <3>2, <1>5, <1>8
    <3>4. ((a \o b) \o d)[i] = s
      BY <3>2, <3>3, <1>6
    <3> QED BY <3>2, <3>4, <1>6, <1>7
  <2>2. CASE s = CarrierScope
    <3>1. Len(a) + 1 \in 1..(Len(a) + 1 + Len(d)) /\ (a \o b)[Len(a) + 1] = s
      BY <2>2, <1>3, <1>5, <1>8
    <3> QED BY <3>1, <1>6, <1>7, <1>8
  <2>3. CASE ownsSubmit /\ s = SubmitScope
    <3>1. Len(d) = 1 /\ d[1] = s
      BY <2>3, <1>4
    <3>2. \A n \in Nat : n + 2 \in 1..(n + 1 + 1) /\ ~(n + 2 <= n + 1) /\ n + 2 - (n + 1) = 1
      OBVIOUS
    <3>3. /\ Len(a) + 2 \in 1..(Len(a) + 1 + Len(d))
          /\ ~(Len(a) + 2 <= Len(a) + 1) /\ Len(a) + 2 - (Len(a) + 1) = 1
      BY <3>1, <3>2, <1>8
    <3> QED BY <3>1, <3>3, <1>6, <1>7
  <2> QED BY <2>1, <2>2, <2>3 DEF Owned
<1> QED BY <1>6, <1>7, <1>9 DEF S

LEMMA CloseSteps ==
    ASSUME IInv, NEW k \in BridgeClosers, NEW own,
           CloseCalled(k) \/ CloseProceeds(k, own) \/ CloseGivesUp(k)
    PROVE  BridgeFrame
<1>0. /\ ScopeType /\ ScopesSound /\ BridgeInv /\ BridgeType
      /\ bcloserPc \in [BridgeClosers -> CloserStates]
      /\ toClose \in [BridgeClosers -> Seq(Scopes \ {EmitterScope})]
      /\ callPc \in [Calls -> CallStates]
  BY DEF IInv, BridgeInv, BridgeType
<1>a. Calls \subseteq Scopes \ {EmitterScope} /\ EmitterScope \in Scopes
  BY <1>0, OwnedScopes, EmitterAssumption
<1>b. UNCHANGED scope => ScopeType' /\ ScopesSound'
  BY <1>0 DEF ScopeType, ScopesSound
<1>1. CASE CloseCalled(k)
  <2>1. /\ UNCHANGED <<ownsSubmit, closing, bridgeClosed, routed, callPc, toClose, scope>>
        /\ bcloserPc' = [bcloserPc EXCEPT ![k] = "called"]
    BY <1>1 DEF CloseCalled, callVars
  <2>2. BridgeType'
    BY <2>1, <1>0 DEF BridgeType, CloserStates
  <2>3. RoutedKnown'
    BY <2>1, <1>0, CloseKeepsRouted
  <2>4. Owned' = Owned
    BY <2>1 DEF Owned
  <2>5. ClosersCover'
    BY <2>1, <2>4, <1>0 DEF BridgeInv, ClosersCover
  <2>6. CloseKept'
    BY <2>1, <2>4, <1>0 DEF BridgeInv, CloseKept
  <2> QED BY <2>1, <2>2, <2>3, <2>5, <2>6, <1>b DEF BridgeFrame, BridgeInv
<1>2. CASE CloseBegins(k)
  <2>1. UNCHANGED <<ownsSubmit, bridgeClosed, routed, callPc, scope>>
    BY <1>2 DEF CloseBegins, callVars
  <2>2. RoutedKnown'
    BY <2>1, <1>0, CloseKeepsRouted
  <2>3. Owned' = Owned
    BY <2>1 DEF Owned
  <2>4. CASE bridgeClosed
    <3>1. UNCHANGED <<closing, toClose>> /\ bcloserPc' = [bcloserPc EXCEPT ![k] = "returned"]
      BY <1>2, <2>4 DEF CloseBegins
    <3>2. BridgeType'
      BY <2>1, <3>1, <1>0 DEF BridgeType, CloserStates
    <3>3. ClosersCover'
      BY <2>1, <2>3, <3>1, <1>0 DEF BridgeInv, ClosersCover
    <3>4. CloseKept'
      BY <2>1, <2>3, <3>1, <1>0 DEF BridgeInv, CloseKept
    <3> QED BY <2>1, <2>2, <3>2, <3>3, <3>4, <1>b DEF BridgeFrame, BridgeInv
  <2>5. CASE ~bridgeClosed
    <3> DEFINE q == SetToSeq(routed) \o <<CarrierScope>> \o (IF ownsSubmit THEN <<SubmitScope>> ELSE <<>>)
    <3>1. /\ closing' = TRUE /\ bcloserPc' = [bcloserPc EXCEPT ![k] = "closing"]
          /\ toClose' = [toClose EXCEPT ![k] = q]
      BY <1>2, <2>5 DEF CloseBegins
    <3>2. q \in Seq(Scopes \ {EmitterScope}) /\ \A s \in Owned : \E i \in 1..Len(q) : q[i] = s
      BY <1>0, SnapshotCovers
    <3> HIDE DEF q
    <3>3. BridgeType'
      <4>1. bcloserPc' \in [BridgeClosers -> CloserStates]
        BY <3>1, <1>0 DEF CloserStates
      <4>2. toClose' \in [BridgeClosers -> Seq(Scopes \ {EmitterScope})]
        BY <3>1, <3>2, <1>0
      <4> QED BY <2>1, <3>1, <4>1, <4>2, <1>0 DEF BridgeType
    <3>4. ClosersCover'
      <4> SUFFICES ASSUME NEW j \in BridgeClosers, bcloserPc'[j] = "closing", NEW s \in Owned
                   PROVE  scope[s].closed \/ \E i \in 1..Len(toClose'[j]) : toClose'[j][i] = s
        BY <2>1, <2>3, <3>1 DEF ClosersCover
      <4>1. CASE j = k
        BY <4>1, <3>1, <3>2, <1>0
      <4>2. CASE j # k
        <5>1. toClose'[j] = toClose[j] /\ bcloserPc[j] = "closing"
          BY <4>2, <3>1, <1>0
        <5> QED BY <5>1, <1>0 DEF BridgeInv, ClosersCover
      <4> QED BY <4>1, <4>2
    <3>5. CloseKept'
      BY <2>1, <2>5 DEF CloseKept
    <3> QED BY <2>1, <2>2, <3>3, <3>4, <3>5, <1>b DEF BridgeFrame, BridgeInv
  <2> QED BY <2>4, <2>5
<1>3. CASE CloseSeals(k, own)
  <2> DEFINE h == Head(toClose[k])
  <2>1. /\ UNCHANGED <<ownsSubmit, closing, bridgeClosed, routed, callPc, bcloserPc, toClose>>
        /\ toClose[k] # <<>> /\ SealScope(h)
    BY <1>3 DEF CloseSeals, bridgeVars, callVars, closeVars
  <2>2. h \in Scopes /\ h # EmitterScope
    <3>1. toClose[k] \in Seq(Scopes \ {EmitterScope})
      BY <1>0
    <3> QED BY <3>1, <2>1, HeadTailProperties
  <2> HIDE DEF h
  <2>3. /\ ScopeType' /\ ScopesSound'
        /\ \A t \in Scopes : /\ t # h => scope'[t] = scope[t]
                             /\ scope'[t].closed = scope[t].closed /\ scope'[t].work = scope[t].work
    BY <2>1, <2>2, <1>0, SealFacts
  <2>4. BridgeInv'
    <3>1. \A t \in Scopes : t # EmitterScope =>
             scope'[t].closed = scope[t].closed /\ scope'[t].work \subseteq scope[t].work
      BY <2>3
    <3>2. UNCHANGED bridgeVars
      BY <1>3 DEF CloseSeals
    <3> QED BY <3>1, <3>2, <1>0, BridgeUntouched
  <2> QED BY <2>1, <2>2, <2>3, <2>4, <1>a DEF BridgeFrame
<1>4. CASE CloseOne(k, own)
  <2> DEFINE h == Head(toClose[k])
  <2>1. /\ UNCHANGED <<ownsSubmit, closing, bridgeClosed, routed, callPc>>
        /\ toClose[k] # <<>> /\ Complete(h) /\ bcloserPc[k] = "closing"
        /\ \/ /\ bcloserPc' = [bcloserPc EXCEPT ![k] = "raised"]
              /\ toClose' = [toClose EXCEPT ![k] = <<>>]
           \/ /\ bcloserPc' = bcloserPc
              /\ toClose' = [toClose EXCEPT ![k] = Tail(toClose[k])]
    BY <1>4 DEF CloseOne, callVars
  <2>2. /\ h \in Scopes /\ h # EmitterScope /\ Tail(toClose[k]) \in Seq(Scopes \ {EmitterScope})
        /\ Len(toClose[k]) \in Nat /\ Len(Tail(toClose[k])) = Len(toClose[k]) - 1 /\ h = toClose[k][1]
        /\ \A i \in 1..Len(Tail(toClose[k])) : Tail(toClose[k])[i] = toClose[k][i + 1]
    <3>1. toClose[k] \in Seq(Scopes \ {EmitterScope})
      BY <1>0
    <3> QED BY <3>1, <2>1, HeadTailProperties
  <2> HIDE DEF h
  <2>3. /\ ScopeType' /\ ScopesSound'
        /\ \A t \in Scopes : /\ t # h => scope'[t] = scope[t]
                             /\ scope[t].closed => scope'[t].closed
                             /\ scope'[t].work = scope[t].work
        /\ scope'[h].closed
    <3>1. /\ ScopeType' /\ ScopesSound'
          /\ \A t \in Scopes : t # h => scope'[t] = scope[t]
          /\ scope'[h].closed /\ scope[h].work = {} /\ scope'[h].work = {}
      BY <2>1, <2>2, <1>0, CompleteFacts
    <3> QED BY <3>1
  <2>4. BridgeType'
    <3>1. bcloserPc' \in [BridgeClosers -> CloserStates]
      BY <2>1, <1>0 DEF CloserStates
    <3>2. toClose' \in [BridgeClosers -> Seq(Scopes \ {EmitterScope})]
      <4>1. <<>> \in Seq(Scopes \ {EmitterScope})
        OBVIOUS
      <4> DEFINE rest == Tail(toClose[k])
      <4>2. rest \in Seq(Scopes \ {EmitterScope})
        BY <2>2
      <4>3. toClose' = [toClose EXCEPT ![k] = <<>>] \/ toClose' = [toClose EXCEPT ![k] = rest]
        BY <2>1
      <4> HIDE DEF rest
      <4> QED BY <4>1, <4>2, <4>3, <1>0
    <3> QED BY <2>1, <3>1, <3>2, <1>0 DEF BridgeType
  <2>5. Owned' = Owned /\ Owned \subseteq Scopes
    BY <2>1, <1>0, OwnedScopes DEF Owned
  <2>6. RoutedKnown'
    BY <2>1, <2>3, <1>0, <1>a, CloseKeepsRouted
  <2>7. ClosersCover'
    <3> SUFFICES ASSUME NEW j \in BridgeClosers, bcloserPc'[j] = "closing"
                 PROVE  /\ closing
                        /\ \A s \in Owned : scope'[s].closed \/ \E i \in 1..Len(toClose'[j]) : toClose'[j][i] = s
      BY <2>1, <2>5 DEF ClosersCover
    <3>1. bcloserPc[j] = "closing"
      BY <2>1, <1>0
    <3>2. closing /\ \A s \in Owned : scope[s].closed \/ \E i \in 1..Len(toClose[j]) : toClose[j][i] = s
      BY <3>1, <1>0 DEF BridgeInv, ClosersCover
    <3>3. ASSUME NEW s \in Owned, ~scope'[s].closed
          PROVE  \E i \in 1..Len(toClose'[j]) : toClose'[j][i] = s
      <4>1. s # h /\ \E i \in 1..Len(toClose[j]) : toClose[j][i] = s
        BY <3>2, <3>3, <2>3, <2>5
      <4>2. CASE j # k
        <5>1. toClose'[j] = toClose[j]
          BY <4>2, <2>1, <1>0
        <5> QED BY <4>1, <5>1
      <4>3. CASE j = k
        <5>1. toClose'[k] = Tail(toClose[k])
          BY <4>3, <2>1, <1>0
        <5>2. PICK i \in 1..Len(toClose[k]) : toClose[k][i] = s
          BY <4>1, <4>3
        <5>3. i # 1
          BY <4>1, <5>2, <2>2
        <5>4. i - 1 \in 1..Len(Tail(toClose[k])) /\ (i - 1) + 1 = i
          BY <5>3, <2>2
        <5>5. Tail(toClose[k])[i - 1] = s
          BY <5>2, <5>4, <2>2
        <5> QED BY <5>1, <5>4, <5>5, <4>3
      <4> QED BY <4>2, <4>3
    <3> QED BY <3>2, <3>3
  <2>8. CloseKept'
    BY <2>1, <2>3, <2>5, <1>0 DEF BridgeInv, CloseKept
  <2>9. scope'[EmitterScope] = scope[EmitterScope]
    BY <2>2, <2>3, <1>a
  <2> QED BY <2>1, <2>3, <2>4, <2>6, <2>7, <2>8, <2>9 DEF BridgeFrame, BridgeInv
<1>5. CASE CloseGivesUp(k) \/ CloseRefused(k, own)
  <2>1. /\ UNCHANGED <<ownsSubmit, closing, bridgeClosed, routed, callPc, scope>>
        /\ bcloserPc' = [bcloserPc EXCEPT ![k] = "idle"]
        /\ toClose' = [toClose EXCEPT ![k] = <<>>]
    BY <1>5 DEF CloseGivesUp, CloseRefused, callVars
  <2>2. BridgeType'
    BY <2>1, <1>0 DEF BridgeType, CloserStates
  <2>3. RoutedKnown'
    BY <2>1, <1>0, CloseKeepsRouted
  <2>4. Owned' = Owned
    BY <2>1 DEF Owned
  <2>5. ClosersCover'
    <3>1. \A j \in BridgeClosers : bcloserPc'[j] = "closing" => bcloserPc[j] = "closing" /\ toClose'[j] = toClose[j]
      BY <2>1, <1>0
    <3> QED BY <3>1, <2>1, <2>4, <1>0 DEF BridgeInv, ClosersCover
  <2>6. CloseKept'
    BY <2>1, <2>4, <1>0 DEF BridgeInv, CloseKept
  <2> QED BY <2>1, <2>2, <2>3, <2>5, <2>6, <1>b DEF BridgeFrame, BridgeInv
<1>6. CASE CloseEnds(k)
  <2>1. /\ UNCHANGED <<ownsSubmit, closing, callPc, toClose, scope>>
        /\ bcloserPc' = [bcloserPc EXCEPT ![k] = "returned"]
        /\ bridgeClosed' = TRUE /\ routed' = {}
        /\ bcloserPc[k] = "closing" /\ Len(toClose[k]) = 0
    BY <1>6 DEF CloseEnds, callVars
  <2>2. closing /\ \A s \in Owned : scope[s].closed
    BY <2>1, <1>0 DEF BridgeInv, ClosersCover
  <2>3. BridgeType'
    <3>1. bcloserPc' \in [BridgeClosers -> CloserStates]
      BY <2>1, <1>0 DEF CloserStates
    <3> QED BY <3>1, <2>1, <1>0, FS_EmptySet DEF BridgeType
  <2>4. Owned' \subseteq Owned
    BY <2>1 DEF Owned
  <2>5. RoutedKnown'
    <3>1. \A c \in routed : scope[c].closed
      BY <2>2 DEF Owned
    <3> QED BY <3>1, <2>1, <1>0, CloseKeepsRouted
  <2>6. ClosersCover'
    <3>1. \A j \in BridgeClosers : bcloserPc'[j] = "closing" => bcloserPc[j] = "closing"
      BY <2>1, <1>0
    <3> QED BY <3>1, <2>1, <2>4, <1>0 DEF BridgeInv, ClosersCover
  <2>7. CloseKept'
    BY <2>1, <2>2, <2>4 DEF CloseKept
  <2> QED BY <2>1, <2>3, <2>5, <2>6, <2>7, <1>b DEF BridgeFrame, BridgeInv
<1> QED BY <1>1, <1>2, <1>3, <1>4, <1>5, <1>6 DEF CloseProceeds

-----------------------------------------------------------------------------
(* The program                                                             *)

\* A program starts with empty scopes, no listeners and no calls.
LEMMA InitEstablishes == Init => IInv
<1> SUFFICES ASSUME Init PROVE IInv
  OBVIOUS
<1> USE EmitterAssumption, BridgeAssumption, ClientsAssumption
<1>1. ScopeType /\ ScopesSound
  <2>1. \A s \in Scopes : scope[s] = Fresh
    BY DEF Init, ContractInit
  <2>2. Fresh \in ScopeState
    BY DEF Fresh, ScopeState
  <2>3. ScopeType
    BY <2>2 DEF ScopeType, Init, ContractInit
  <2> QED BY <2>1, <2>3 DEF ScopesSound, Fresh
<1>2. \A s \in Scopes : ~scope[s].sealed /\ scope[s].work = {}
  BY DEF Init, ContractInit, Fresh
<1>3. EmitterInv
  <2>1. EmitterType
    <3>1. <<>> \in Seq(Listeners) /\ 0 \in Int
      OBVIOUS
    <3> QED BY <3>1 DEF Init, EmitterInit, EmitterType, EmitStates
  <2>2. RegistryCounted
    BY DEF Init, EmitterInit, RegistryCounted
  <2>3. LockGuards /\ AcceptedEmitIsWhole
    BY <1>2 DEF Init, EmitterInit, LockGuards, AcceptedEmitIsWhole
  <2> QED BY <2>1, <2>2, <2>3 DEF EmitterInv
<1>4. BridgeInv
  <2>1. BridgeType
    <3>1. <<>> \in Seq(Scopes \ {EmitterScope})
      OBVIOUS
    <3>2. toClose \in [BridgeClosers -> Seq(Scopes \ {EmitterScope})]
      BY <3>1 DEF Init, BridgeInit
    <3>3. IsFiniteSet(routed)
      BY FS_EmptySet DEF Init, BridgeInit
    <3>4. callPc \in [Calls -> CallStates] /\ bcloserPc \in [BridgeClosers -> CloserStates]
      BY DEF Init, BridgeInit, CallStates, CloserStates
    <3> QED BY <3>2, <3>3, <3>4 DEF Init, BridgeInit, BridgeType
  <2>2. RoutedKnown
    <3>1. \A c \in Calls : scope[c].work = {} /\ callPc[c] = "idle"
      BY <1>2 DEF Init, BridgeInit
    <3> QED BY <3>1 DEF RoutedKnown, RoutedScope
  <2>3. ClosersCover /\ CloseKept
    BY DEF Init, BridgeInit, ClosersCover, CloseKept
  <2> QED BY <2>1, <2>2, <2>3 DEF BridgeInv
<1>5. CallersInv
  BY DEF Init, CallersInv, CallersRun
<1> QED BY <1>1, <1>3, <1>4, <1>5 DEF IInv

\* Listeners in a call keep running through steps that end no body and begin
\* no call.
LEMMA CallersUntouched ==
    ASSUME CallersInv, UNCHANGED caller,
           \A c \in Calls : callPc[c] \in CallOver => callPc'[c] = callPc[c],
           scope[EmitterScope].running \subseteq scope'[EmitterScope].running
    PROVE  CallersInv'
BY DEF CallersInv, CallersRun

\* Every step keeps the invariant.
LEMMA NextKeeps == IInv /\ [Next]_vars => IInv'
<1> SUFFICES ASSUME IInv, [Next]_vars PROVE IInv'
  OBVIOUS
<1>0. /\ ScopeType /\ ScopesSound /\ EmitterInv /\ BridgeInv /\ CallersInv
      /\ EmitterScope \in Scopes /\ callPc \in [Calls -> CallStates]
  BY EmitterAssumption DEF IInv, BridgeInv, BridgeType
<1>a. UNCHANGED scope => /\ ScopeType' /\ ScopesSound'
                         /\ \A t \in Scopes : scope'[t] = scope[t]
  BY <1>0 DEF ScopeType, ScopesSound
<1>b. UNCHANGED bridgeVars => UNCHANGED callPc
  BY DEF bridgeVars, callVars
<1>1. CASE RegistryStep /\ UNCHANGED <<bridgeVars, cast, caller, home>>
  <2>1. EmitterInv' /\ UNCHANGED scope
    BY <1>1, <1>0, RegistrySteps
  <2>2. BridgeInv'
    BY <2>1, <1>0, <1>1, <1>a, BridgeUntouched
  <2>3. CallersInv'
    BY <2>1, <1>0, <1>1, <1>b, CallersUntouched
  <2> QED BY <2>1, <2>2, <2>3, <1>a DEF IInv
<1>2. CASE (EmitterStep \/ EmitterShutdown) /\ UNCHANGED <<bridgeVars, cast, caller>>
  <2>1. EmitterFrame
    <3>1. CASE EmitterStep
      BY <3>1, EmitSteps, EmitterCloseSteps DEF EmitterStep
    <3>2. CASE EmitterShutdown
      <4>1. PICK k \in EmitterClosers : CloseEmitter(k, TRUE) \/ CloseEmitter(k, FALSE)
        BY <3>2 DEF EmitterShutdown
      <4> QED BY <4>1, EmitterCloseSteps
    <3> QED BY <3>1, <3>2, <1>2
  <2>2. BridgeInv'
    <3>1. \A t \in Scopes : t # EmitterScope =>
             scope'[t].closed = scope[t].closed /\ scope'[t].work \subseteq scope[t].work
      BY <2>1 DEF EmitterFrame
    <3> QED BY <3>1, <1>0, <1>2, BridgeUntouched
  <2>3. CallersInv'
    BY <2>1, <1>0, <1>2, <1>b, CallersUntouched DEF EmitterFrame
  <2> QED BY <2>1, <2>2, <2>3 DEF EmitterFrame, IInv
<1>3. CASE (BridgeStep \/ BridgeShutdown) /\ UNCHANGED <<emitterVars, cast, caller>>
  <2>1. BridgeFrame
    <3>1. CASE \E c \in Calls : CallProceeds(c)
      BY <3>1, LightSteps, RoutedSteps DEF CallProceeds
    <3>2. CASE \E u \in Submits \cap cast : SubmitBegins(u) \/ SubmitGo(u)
      BY <3>2, SubmitSteps
    <3>3. CASE \E k \in BridgeClosers \cap cast : CloseProceeds(k, home[k][1]) \/ CloseGivesUp(k)
      BY <3>3, CloseSteps
    <3>4. CASE BridgeShutdown
      BY <3>4, CloseSteps DEF BridgeShutdown
    <3> QED BY <3>1, <3>2, <3>3, <3>4, <1>3 DEF BridgeStep
  <2>2. EmitterInv'
    BY <2>1, <1>0, <1>3, EmitterUntouched DEF BridgeFrame
  <2>3. CallersInv'
    BY <2>1, <1>0, <1>3, CallersUntouched DEF BridgeFrame
  <2> QED BY <2>1, <2>2, <2>3 DEF BridgeFrame, IInv
<1>4. CASE (\E c \in Calls \cap cast : Call(c)) /\ UNCHANGED <<emitterVars, cast, home>>
  <2>1. PICK c \in Calls : Call(c)
    BY <1>4
  <2>2. PICK x \in (IF cast \cap Emits = {} THEN {NoOne} ELSE scope[EmitterScope].running) :
           caller' = [caller EXCEPT ![c] = x]
    BY <2>1 DEF Call
  <2>3. /\ UNCHANGED <<ownsSubmit, closing, bridgeClosed, routed, bcloserPc, toClose, scope>>
        /\ callPc[c] = "idle"
        /\ \E to \in {"raised", "checked"} : callPc' = [callPc EXCEPT ![c] = to]
    BY <2>1 DEF Call, CallBegins, CallGoes, closeVars
  <2>4. /\ callPc' \in [Calls -> CallStates] /\ callPc'[c] \in {"raised", "checked"}
        /\ \A d \in Calls : d # c => callPc'[d] = callPc[d]
    BY <2>3, <1>0 DEF CallStates
  <2>5. BridgeInv'
    <3>1. BridgeType'
      BY <2>3, <2>4, <1>0 DEF BridgeInv, BridgeType
    <3>2. ClosersCover' /\ CloseKept'
      BY <2>3, <1>0, CallKeepsClose
    <3>3. RoutedScope(c)'
      BY <2>3, <2>4, <1>0 DEF BridgeInv, RoutedKnown, RoutedScope
    <3>4. RoutedKnown'
      BY <3>3, <2>3, <2>4, <1>0, CallKeepsOthers
    <3> QED BY <3>1, <3>2, <3>4 DEF BridgeInv
  <2>6. EmitterInv'
    BY <2>3, <1>0, <1>4, EmitterUntouched
  <2>7. CallersInv'
    <3>1. x = NoOne \/ x \in scope[EmitterScope].running
      BY <2>2
    <3>2. scope[EmitterScope].running \subseteq Work
      BY <1>0 DEF ScopeType, ScopeState
    <3>3. caller' \in [Calls -> Work \cup {NoOne}]
      BY <3>1, <3>2, <2>2, <1>0 DEF CallersInv
    <3>4. caller'[c] = x /\ \A d \in Calls : d # c => caller'[d] = caller[d]
      BY <2>2, <1>0 DEF CallersInv
    <3> QED BY <3>1, <3>3, <3>4, <2>3, <2>4, <1>0 DEF CallersInv, CallersRun
  <2> QED BY <2>3, <2>5, <2>6, <2>7, <1>a DEF IInv
<1>5. CASE \/ WorkStep /\ UNCHANGED <<emitterVars, bridgeVars, cast, caller, home>>
           \/ /\ \E s \in Scopes : \E x \in scope[s].work : BodyAbandoned(s, x)
              /\ UNCHANGED <<emitterVars, bridgeVars, cast, home>>
  <2>0. PICK s \in Scopes : \E x \in scope[s].work :
           \/ /\ BodyEnds(s, x) \/ WorkSettles(s, x, TRUE) \/ WorkSettles(s, x, FALSE)
              /\ UNCHANGED caller
           \/ BodyAbandoned(s, x)
    BY <1>5 DEF WorkStep
  <2>1. PICK x \in scope[s].work :
           \/ /\ BodyEnds(s, x) \/ WorkSettles(s, x, TRUE) \/ WorkSettles(s, x, FALSE)
              /\ UNCHANGED caller
           \/ BodyAbandoned(s, x)
    BY <2>0
  <2>2. /\ ScopeType' /\ ScopesSound'
        /\ \A t \in Scopes : /\ scope'[t].sealed = scope[t].sealed /\ scope'[t].closed = scope[t].closed
                             /\ scope'[t].work \subseteq scope[t].work
        /\ \A y : (s = EmitterScope => y # x \/ (InCall(y) /\ ~BodyAbandoned(s, x))) =>
              (y \in scope[EmitterScope].running => y \in scope'[EmitterScope].running)
    BY <2>1, <1>0, WorkFacts
  <2>3. EmitterInv'
    BY <2>2, <1>0, <1>5, EmitterUntouched
  <2>4. BridgeInv'
    BY <2>2, <1>0, <1>5, BridgeUntouched
  <2>5. CallersInv'
    <3>1. UNCHANGED callPc
      BY <1>5, <1>b
    <3>2. /\ caller' \in [Calls -> Work \cup {NoOne}]
          /\ \A c \in Calls : caller'[c] \in {caller[c], NoOne}
          /\ BodyAbandoned(s, x) /\ s = EmitterScope =>
                \A c \in Calls : caller[c] = x => caller'[c] = NoOne
      <4>1. CASE UNCHANGED caller /\ ~BodyAbandoned(s, x)
        BY <4>1, <1>0 DEF CallersInv
      <4>2. CASE BodyAbandoned(s, x)
        BY <4>2, <1>0 DEF BodyAbandoned, CallersInv
      <4> QED BY <4>1, <4>2, <2>1
    <3> SUFFICES ASSUME NEW c \in Calls, caller'[c] # NoOne, callPc[c] \notin CallOver
                 PROVE  caller'[c] \in scope'[EmitterScope].running
      BY <3>1, <3>2 DEF CallersInv, CallersRun
    <3>3. caller'[c] = caller[c] /\ InCall(caller[c]) /\ caller[c] \in scope[EmitterScope].running
      BY <3>2, <1>0 DEF CallersInv, CallersRun, InCall
    <3>4. s = EmitterScope => caller[c] # x \/ ~BodyAbandoned(s, x)
      BY <3>2, <3>3
    <3> DEFINE y == caller[c]
    <3>5. s = EmitterScope => y # x \/ (InCall(y) /\ ~BodyAbandoned(s, x))
      BY <3>3, <3>4
    <3>6. y \in scope[EmitterScope].running /\ caller'[c] = y
      BY <3>3
    <3> HIDE DEF y
    <3>7. y \in scope'[EmitterScope].running
      BY <3>5, <3>6, <2>2
    <3> QED BY <3>6, <3>7
  <2> QED BY <2>2, <2>3, <2>4, <2>5 DEF IInv
<1>6. CASE UNCHANGED vars
  <2>1. UNCHANGED <<scope, caller>> /\ UNCHANGED emitterVars /\ UNCHANGED bridgeVars
    BY <1>6 DEF vars
  <2>2. EmitterInv'
    BY <2>1, <1>0, EmitterUntouched
  <2>3. BridgeInv'
    BY <2>1, <1>0, BridgeUntouched
  <2>4. CallersInv'
    BY <2>1, <1>0, <1>b, CallersUntouched
  <2> QED BY <2>1, <2>2, <2>3, <2>4, <1>a DEF IInv
<1> QED BY <1>1, <1>2, <1>3, <1>4, <1>5, <1>6 DEF Next

LEMMA Invariance == Spec => []IInv
BY InitEstablishes, NextKeeps, PTL DEF Spec

(***************************************************************************)
(* A once-registration is taken by one emit at most, for any number of     *)
(* emits, registrations and removals (EventEmitter._once under its lock).  *)
(***************************************************************************)
THEOREM OnceIsTakenOnce == Spec => []OnceIsOnce
<1>1. IInv => OnceIsOnce
  <2> SUFFICES ASSUME IInv PROVE onceBalance >= 0
    BY DEF OnceIsOnce
  <2>1. onceBalance = Len(once) /\ Len(once) \in Nat
    BY DEF IInv, EmitterInv, EmitterType, RegistryCounted
  <2> QED BY <2>1
<1> QED BY <1>1, Invariance, PTL

(***************************************************************************)
(* No close of the emitter, by whichever thread, makes an emit that has    *)
(* begun stop before its last listener.                                    *)
(***************************************************************************)
THEOREM EmitsAreWhole == Spec => []AcceptedEmitIsWhole
<1>1. IInv => AcceptedEmitIsWhole
  BY DEF IInv, EmitterInv
<1> QED BY <1>1, Invariance, PTL

(***************************************************************************)
(* When EventEmitter.close() has completed, no listener runs or waits in   *)
(* the bridge; when StageCallBridge.close() has, none of its scopes has    *)
(* work, not even one that a late or unmanaged call made.                  *)
(***************************************************************************)
THEOREM CloseIsQuiet == Spec => []ClosedIsQuiet
<1>1. IInv => ClosedIsQuiet
  <2> SUFFICES ASSUME IInv PROVE ClosedIsQuiet
    OBVIOUS
  <2>0. /\ EmitterScope \in Scopes /\ ScopesSound /\ BridgeInv /\ CallersInv
        /\ Owned \subseteq Scopes /\ Calls \subseteq Scopes
    BY EmitterAssumption, OwnedScopes DEF IInv, BridgeInv
  <2>1. ASSUME scope[EmitterScope].closed
        PROVE  /\ scope[EmitterScope].work = {}
               /\ \A c \in Calls : caller[c] # NoOne => callPc[c] \in CallOver
    <3>1. scope[EmitterScope].work = {} /\ scope[EmitterScope].running \subseteq scope[EmitterScope].work
      BY <2>0, <2>1 DEF ScopesSound
    <3> QED BY <3>1, <2>0 DEF CallersInv, CallersRun
  <2>2. ASSUME bridgeClosed
        PROVE  /\ scope[CarrierScope].work = {}
               /\ ownsSubmit => scope[SubmitScope].work = {}
               /\ \A c \in Calls : scope[c].work = {}
    <3>1. routed = {} /\ \A s \in Owned : scope[s].closed
      BY <2>0, <2>2 DEF BridgeInv, CloseKept
    <3>2. \A s \in Scopes : scope[s].closed => scope[s].work = {}
      BY <2>0 DEF ScopesSound
    <3>3. \A s \in Owned : scope[s].work = {}
      BY <3>1, <3>2, <2>0
    <3>4. CarrierScope \in Owned /\ (ownsSubmit => SubmitScope \in Owned)
      BY DEF Owned
    <3>5. \A c \in Calls : scope[c].work # {} => c \in routed \/ scope[c].closed
      BY <2>0 DEF BridgeInv, RoutedKnown, RoutedScope
    <3>6. \A c \in Calls : scope[c].work = {}
      BY <3>1, <3>2, <3>5, <2>0
    <3> QED BY <3>3, <3>4, <3>6
  <2> QED BY <2>1, <2>2 DEF ClosedIsQuiet
<1> QED BY <1>1, Invariance, PTL
=============================================================================
