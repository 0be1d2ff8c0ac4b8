---------------------------- MODULE Tunnel_proofs ----------------------------
(***************************************************************************)
(* Proofs about the Tunnel, for every number of subscriptions, readers,    *)
(* loops and puts and every max_history: the buffer and delivery           *)
(* invariants, that no wake-up is lost, and that the Tunnel implements the *)
(* replay log.                                                             *)
(*                                                                         *)
(* BufferIsSuffix and DeliveredInOrder are not inductive by themselves: a  *)
(* subscription starts with nothing delivered, a reader that got past its  *)
(* first check has a subscription, and a value is evicted only from a full *)
(* buffer (the last is what makes TunnelLagError truthful).                *)
(***************************************************************************)
EXTENDS Tunnel, SequenceTheorems, TLAPS

FreshIsEmpty == \A s \in Subscriptions : start[s] = -1 => out[s] = <<>>

Subscribed ==
    \A r \in Readers : pc[r] \in {"waiting", "woken", "awaiting", "resolved"} => start[SubOf[r]] >= 0

EvictsWhenFull == base > 0 => MaxHistory > 0 /\ Len(items) = MaxHistory

IInv == TypeOK /\ BufferIsSuffix /\ DeliveredInOrder /\ FreshIsEmpty /\ Subscribed /\ EvictsWhenFull

-----------------------------------------------------------------------------
(* Types                                                                   *)

\* A wake-up posts callbacks for async readers only, and touches nothing else.
LEMMA WakeWaitersType ==
    ASSUME TypeOK, WakeWaiters
    PROVE  /\ pc' \in [Readers -> ReaderStates] /\ waiters' \subseteq AsyncReaders
           /\ callbacks' \subseteq SUBSET AsyncReaders /\ loopOpen' \in [Loops -> BOOLEAN]
           /\ \A r \in Readers : pc'[r] = pc[r] \/ (pc[r] = "waiting" /\ pc'[r] = "woken")
<1>1. Posts \subseteq SUBSET AsyncReaders
  BY DEF TypeOK, Posts
<1> QED BY <1>1 DEF TypeOK, WakeWaiters, ReaderStates

\* Every action keeps every variable in its domain.
LEMMA TypeKept == TypeOK /\ BufferIsSuffix /\ [Next]_vars => TypeOK'
<1> SUFFICES ASSUME TypeOK, BufferIsSuffix, [Next]_vars PROVE TypeOK'
  OBVIOUS
<1>0. setting' = setting
  BY DEF Next, ProducerStep, SubscriptionStep, ReaderStep, LoopStep, vars, wakeVars,
         Put, Close, Fail, WakeWaiters, Subscribe, SubscriptionClose, Take, Stop, Block,
         SyncTimeout, AsyncTimeout, CancelRead, Resolve, LoopCloses
<1> USE TunnelAssumption, <1>0
<1>1. CASE Put
  <2>1. items' \in Seq(Nat) /\ base' \in Nat /\ next' \in Nat
    <3>1. Overflow => items # <<>>
      BY DEF Overflow, TypeOK
    <3>2. (IF Overflow THEN Tail(items) ELSE items) \in Seq(Nat)
      BY <3>1 DEF TypeOK
    <3> QED BY <1>1, <3>2 DEF Put, BaseAfterPut, TypeOK
  <2>2. UNCHANGED <<terminal, start, cursor, why, out>> /\ WakeWaiters
    BY <1>1 DEF Put, subVars
  <2> QED BY <2>1, <2>2, WakeWaitersType DEF TypeOK
<1>2. CASE Close \/ Fail
  <2>1. /\ UNCHANGED <<items, base, next, start, cursor, why, out>> /\ WakeWaiters
        /\ terminal' \in {"open", "closed", "failed"}
    BY <1>2 DEF Close, Fail, subVars
  <2> QED BY <2>1, WakeWaitersType DEF TypeOK
<1>3. ASSUME NEW s \in Subscriptions, Subscribe(s) PROVE TypeOK'
  <2>1. PICK n \in StartChoices : /\ start' = [start EXCEPT ![s] = n]
                                  /\ cursor' = [cursor EXCEPT ![s] = n]
    BY <1>3 DEF Subscribe
  <2>2. n \in Nat
    BY DEF StartChoices, TypeOK
  <2> QED BY <2>1, <2>2, <1>3 DEF Subscribe, TypeOK, chanVars, wakeVars
<1>4. ASSUME NEW s \in Subscriptions, SubscriptionClose(s) PROVE TypeOK'
  <2>1. WakeWaiters /\ why' \in [Subscriptions -> Reasons] /\ UNCHANGED <<items, base, next, terminal, start, cursor, out>>
    BY <1>4 DEF SubscriptionClose, chanVars, TypeOK, Reasons
  <2> QED BY <2>1, WakeWaitersType DEF TypeOK
<1>5. ASSUME NEW r \in Readers, Take(r) PROVE TypeOK'
  <2> DEFINE s == SubOf[r]
  <2>1. s \in Subscriptions /\ cursor[s] \in Nat /\ cursor[s] - base + 1 \in 1..Len(items)
    BY <1>5 DEF Take, HasItem, TypeOK
  <2>2. items[cursor[s] - base + 1] \in Nat
    BY <2>1, ElementOfSeq DEF TypeOK
  <2>3. out' \in [Subscriptions -> Seq(Nat)] /\ cursor' \in [Subscriptions -> Nat]
    BY <2>1, <2>2, <1>5 DEF Take, TypeOK
  <2>4. pc' \in [Readers -> ReaderStates]
    BY <1>5 DEF Take, TypeOK, ReaderStates
  <2> QED BY <2>3, <2>4, <1>5 DEF Take, TypeOK, chanVars
<1>6. ASSUME NEW r \in Readers, Stop(r) PROVE TypeOK'
  <2>1. why' \in [Subscriptions -> Reasons] /\ pc' \in [Readers -> ReaderStates]
    BY <1>6 DEF Stop, TypeOK, Reasons, ReaderStates
  <2> QED BY <2>1, <1>6 DEF Stop, TypeOK, chanVars
<1>7. ASSUME NEW r \in Readers, Block(r) PROVE TypeOK'
  <2>1. \/ pc' = [pc EXCEPT ![r] = "waiting"] /\ waiters' = waiters
        \/ pc' = [pc EXCEPT ![r] = "awaiting"] /\ waiters' = waiters \cup {r} /\ r \in AsyncReaders
    BY <1>7 DEF Block, Readers
  <2>2. pc' \in [Readers -> ReaderStates] /\ waiters' \subseteq AsyncReaders
    BY <2>1 DEF TypeOK, ReaderStates
  <2> QED BY <2>2, <1>7 DEF Block, TypeOK, chanVars, subVars
<1>8. ASSUME NEW r \in Readers, SyncTimeout(r) PROVE TypeOK'
  BY <1>8 DEF SyncTimeout, TypeOK, chanVars, subVars, ReaderStates
<1>9. ASSUME NEW r \in Readers, AsyncTimeout(r) PROVE TypeOK'
  <2>1. /\ why' \in [Subscriptions -> Reasons] /\ pc' \in [Readers -> ReaderStates]
        /\ waiters' \subseteq AsyncReaders
    BY <1>9 DEF AsyncTimeout, TypeOK, Reasons, ReaderStates
  <2>2. callbacks' \subseteq SUBSET AsyncReaders
    BY <1>9 DEF AsyncTimeout, Forget, TypeOK
  <2> QED BY <2>1, <2>2, <1>9 DEF AsyncTimeout, TypeOK, chanVars
<1>10. ASSUME NEW r \in Readers, CancelRead(r) PROVE TypeOK'
  <2>1. pc' \in [Readers -> ReaderStates] /\ waiters' \subseteq AsyncReaders
    BY <1>10 DEF CancelRead, TypeOK, ReaderStates
  <2>2. callbacks' \subseteq SUBSET AsyncReaders
    BY <1>10 DEF CancelRead, Forget, TypeOK
  <2> QED BY <2>1, <2>2, <1>10 DEF CancelRead, TypeOK, chanVars, subVars
<1>11. ASSUME NEW cb \in callbacks, Resolve(cb) PROVE TypeOK'
  BY <1>11 DEF Resolve, TypeOK, chanVars, subVars, ReaderStates
<1>12. ASSUME NEW l \in Loops, LoopCloses(l) PROVE TypeOK'
  BY <1>12 DEF LoopCloses, TypeOK, chanVars, subVars, ReaderStates
<1>13. CASE UNCHANGED vars
  BY <1>13 DEF vars, chanVars, subVars, wakeVars, TypeOK
<1> QED BY <1>1, <1>2, <1>3, <1>4, <1>5, <1>6, <1>7, <1>8, <1>9, <1>10, <1>11, <1>12, <1>13
     DEF Next, ProducerStep, SubscriptionStep, ReaderStep, LoopStep

-----------------------------------------------------------------------------
(* The buffer                                                              *)

\* A put appends its sequence number and drops the oldest item of a full
\* buffer.
LEMMA PutFacts ==
    ASSUME TypeOK, BufferIsSuffix, EvictsWhenFull, Put
    PROVE  /\ BufferIsSuffix' /\ EvictsWhenFull'
           /\ next' = next + 1
<1> USE TunnelAssumption
<1> DEFINE kept == IF Overflow THEN Tail(items) ELSE items
<1>1. /\ items \in Seq(Nat) /\ Len(items) \in Nat /\ base \in Nat /\ next \in Nat
      /\ next = base + Len(items)
      /\ \A i \in 1..Len(items) : items[i] = base + i - 1
      /\ MaxHistory > 0 => Len(items) <= MaxHistory
  BY DEF TypeOK, BufferIsSuffix
<1>2. items' = Append(kept, next) /\ next' = next + 1 /\ base' = BaseAfterPut
  BY DEF Put
<1>3. CASE Overflow
  <2>1. MaxHistory > 0 /\ Len(items) = MaxHistory /\ items # <<>>
    BY <1>3, <1>1 DEF Overflow
  <2>2. /\ kept = Tail(items) /\ kept \in Seq(Nat) /\ Len(kept) = Len(items) - 1
        /\ \A i \in 1..(Len(items) - 1) : kept[i] = items[i + 1]
    BY <1>3, <2>1, <1>1, HeadTailProperties
  <2> HIDE DEF kept
  <2>3. /\ Len(items') = Len(items) /\ items'[Len(items)] = next
        /\ \A i \in 1..(Len(items) - 1) : items'[i] = items[i + 1]
    BY <2>1, <2>2, <1>1, <1>2
  <2>4. base' = base + 1
    BY <1>2, <1>3 DEF BaseAfterPut
  <2>5. \A i \in 1..Len(items') : items'[i] = base' + i - 1
    <3> SUFFICES ASSUME NEW i \in 1..Len(items) PROVE items'[i] = base + 1 + i - 1
      BY <2>3, <2>4
    <3>1. CASE i = Len(items)
      BY <3>1, <2>3, <1>1
    <3>2. CASE i # Len(items)
      <4>1. i \in 1..(Len(items) - 1) /\ i + 1 \in 1..Len(items)
        BY <3>2, <1>1
      <4> QED BY <4>1, <2>3, <1>1
    <3> QED BY <3>1, <3>2
  <2> QED BY <2>1, <2>3, <2>4, <2>5, <1>1, <1>2 DEF BufferIsSuffix, EvictsWhenFull
<1>4. CASE ~Overflow
  <2>1. kept = items /\ base' = base
    BY <1>4, <1>2 DEF BaseAfterPut
  <2>2. MaxHistory > 0 => Len(items) < MaxHistory
    BY <1>4, <1>1 DEF Overflow
  <2> HIDE DEF kept
  <2>3. /\ Len(items') = Len(items) + 1 /\ items'[Len(items) + 1] = next
        /\ \A i \in 1..Len(items) : items'[i] = items[i]
    BY <2>1, <1>1, <1>2
  <2>4. \A i \in 1..Len(items') : items'[i] = base' + i - 1
    <3> SUFFICES ASSUME NEW i \in 1..(Len(items) + 1) PROVE items'[i] = base + i - 1
      BY <2>1, <2>3
    <3>1. CASE i = Len(items) + 1
      BY <3>1, <2>3, <1>1
    <3>2. CASE i # Len(items) + 1
      <4>1. i \in 1..Len(items)
        BY <3>2, <1>1
      <4> QED BY <4>1, <2>3, <1>1
    <3> QED BY <3>1, <3>2
  <2>5. base = 0
    BY <2>2, <1>1 DEF EvictsWhenFull
  <2> QED BY <2>1, <2>2, <2>3, <2>4, <2>5, <1>1, <1>2 DEF BufferIsSuffix, EvictsWhenFull
<1> QED BY <1>3, <1>4

\* The check of __next__/__anext__ that finds an item returns the value at the
\* cursor, which is its sequence number.
LEMMA TakeFacts ==
    ASSUME IInv, NEW r \in Readers, Take(r)
    PROVE  LET s == SubOf[r] IN
           /\ s \in Subscriptions /\ start[s] >= 0 /\ why[s] = "no"
           /\ cursor[s] \in Nat /\ base <= cursor[s] /\ cursor[s] < next
           /\ out' = [out EXCEPT ![s] = Append(@, cursor[s])]
           /\ cursor' = [cursor EXCEPT ![s] = @ + 1]
<1> USE TunnelAssumption
<1> DEFINE s == SubOf[r]
<1>a. s \in Subscriptions /\ cursor[s] \in Nat /\ base \in Nat /\ Len(items) \in Nat
  BY DEF IInv, TypeOK
<1>b. start[s] >= 0 /\ why[s] = "no" /\ cursor[s] >= base /\ cursor[s] - base < Len(items)
  BY DEF Take, HasItem, AtCheck
<1>1. /\ s \in Subscriptions /\ cursor[s] \in Nat /\ start[s] >= 0 /\ why[s] = "no"
      /\ base \in Nat /\ Len(items) \in Nat
      /\ cursor[s] >= base /\ cursor[s] - base < Len(items)
  BY <1>a, <1>b
<1>2. cursor[s] - base + 1 \in 1..Len(items)
  BY <1>1
<1>3. items[cursor[s] - base + 1] = cursor[s]
  BY <1>1, <1>2 DEF IInv, BufferIsSuffix
<1>4. cursor[s] < next
  BY <1>1 DEF IInv, BufferIsSuffix
<1> QED BY <1>1, <1>3, <1>4 DEF Take

\* What is delivered is untouched by a step that leaves the subscriptions alone.
LEMMA DeliveryUntouched ==
    ASSUME IInv, UNCHANGED <<start, cursor, out>>, next' \in Nat, next' >= next
    PROVE  DeliveredInOrder' /\ FreshIsEmpty'
<1>1. FreshIsEmpty'
  BY DEF IInv, FreshIsEmpty
<1>2. DeliveredInOrder'
  <2> SUFFICES ASSUME NEW s \in Subscriptions, start[s] >= 0
               PROVE  /\ cursor[s] <= next'
                      /\ cursor[s] = start[s] + Len(out[s])
                      /\ \A i \in 1..Len(out[s]) : out[s][i] = start[s] + i - 1
    BY DEF DeliveredInOrder
  <2>1. cursor[s] \in Nat /\ next \in Nat
    BY DEF IInv, TypeOK
  <2> QED BY <2>1 DEF IInv, DeliveredInOrder
<1> QED BY <1>1, <1>2

\* A wake-up keeps what is known of readers.
LEMMA SubscribedAfterWake ==
    ASSUME IInv, WakeWaiters, UNCHANGED start
    PROVE  Subscribed'
<1>1. \A r \in Readers : pc'[r] = pc[r] \/ (pc[r] = "waiting" /\ pc'[r] = "woken")
  BY WakeWaitersType DEF IInv
<1> QED BY <1>1 DEF IInv, Subscribed

-----------------------------------------------------------------------------
(* The invariant                                                           *)

\* A new Tunnel is empty and nobody reads it.
LEMMA InitEstablishes == Init => IInv
<1> SUFFICES ASSUME Init PROVE IInv
  OBVIOUS
<1> USE TunnelAssumption
<1>1. TypeOK
  BY DEF Init, TypeOK, Reasons, ReaderStates
<1>2. BufferIsSuffix /\ EvictsWhenFull
  BY DEF Init, BufferIsSuffix, EvictsWhenFull
<1>3. DeliveredInOrder /\ FreshIsEmpty /\ Subscribed
  BY DEF Init, DeliveredInOrder, FreshIsEmpty, Subscribed
<1> QED BY <1>1, <1>2, <1>3 DEF IInv

\* Every step keeps the invariant.
LEMMA NextKeeps == IInv /\ [Next]_vars => IInv'
<1> SUFFICES ASSUME IInv, [Next]_vars PROVE IInv'
  OBVIOUS
<1> USE TunnelAssumption
<1>0. TypeOK'
  BY TypeKept DEF IInv
<1>a. next \in Nat /\ base \in Nat
  BY DEF IInv, TypeOK
<1>b. UNCHANGED <<items, base, next>> => BufferIsSuffix' /\ EvictsWhenFull' /\ next' \in Nat /\ next' >= next
  BY <1>a DEF IInv, BufferIsSuffix, EvictsWhenFull
<1>1. CASE Put
  <2>1. WakeWaiters /\ UNCHANGED <<start, cursor, out>>
    BY <1>1 DEF Put, subVars
  <2>2. BufferIsSuffix' /\ EvictsWhenFull' /\ next' = next + 1
    BY <1>1, PutFacts DEF IInv
  <2>3. next' \in Nat /\ next' >= next
    BY <2>2, <1>a
  <2> QED BY <2>1, <2>2, <2>3, <1>0, DeliveryUntouched, SubscribedAfterWake DEF IInv
<1>2. CASE Close \/ Fail
  <2>1. WakeWaiters /\ UNCHANGED <<items, base, next, start, cursor, out>>
    BY <1>2 DEF Close, Fail, subVars
  <2> QED BY <2>1, <1>0, <1>b, DeliveryUntouched, SubscribedAfterWake DEF IInv
<1>3. ASSUME NEW s \in Subscriptions, Subscribe(s) PROVE IInv'
  <2>1. PICK n \in 0..next : /\ start' = [start EXCEPT ![s] = n]
                            /\ cursor' = [cursor EXCEPT ![s] = n]
    BY <1>3 DEF Subscribe, StartChoices
  <2>2. /\ start[s] = -1 /\ out[s] = <<>> /\ UNCHANGED <<items, base, next, out, pc>>
    BY <1>3 DEF Subscribe, chanVars, wakeVars, IInv, FreshIsEmpty
  <2>3. DeliveredInOrder'
    <3> SUFFICES ASSUME NEW t \in Subscriptions, start'[t] >= 0
                 PROVE  /\ cursor'[t] <= next
                        /\ cursor'[t] = start'[t] + Len(out[t])
                        /\ \A i \in 1..Len(out[t]) : out[t][i] = start'[t] + i - 1
      BY <2>2 DEF DeliveredInOrder
    <3>1. CASE t = s
      BY <3>1, <2>1, <2>2, <1>a DEF IInv, TypeOK
    <3>2. CASE t # s
      BY <3>2, <2>1 DEF IInv, TypeOK, DeliveredInOrder
    <3> QED BY <3>1, <3>2
  <2>4. FreshIsEmpty'
    BY <2>1, <2>2 DEF IInv, TypeOK, FreshIsEmpty
  <2>5. Subscribed'
    <3>1. \A t \in Subscriptions : start[t] >= 0 => start'[t] >= 0
      BY <2>1, <1>a DEF IInv, TypeOK
    <3> QED BY <3>1, <2>2 DEF IInv, TypeOK, Subscribed
  <2> QED BY <2>2, <2>3, <2>4, <2>5, <1>0, <1>b DEF IInv
<1>4. ASSUME NEW s \in Subscriptions, SubscriptionClose(s) PROVE IInv'
  <2>1. WakeWaiters /\ UNCHANGED <<items, base, next, start, cursor, out>>
    BY <1>4 DEF SubscriptionClose, chanVars
  <2> QED BY <2>1, <1>0, <1>b, DeliveryUntouched, SubscribedAfterWake DEF IInv
<1>5. ASSUME NEW r \in Readers, Take(r) PROVE IInv'
  <2> DEFINE s == SubOf[r]
  <2>1. /\ s \in Subscriptions /\ start[s] >= 0 /\ cursor[s] \in Nat /\ cursor[s] < next
        /\ out' = [out EXCEPT ![s] = Append(@, cursor[s])]
        /\ cursor' = [cursor EXCEPT ![s] = @ + 1]
    BY <1>5, TakeFacts
  <2>2. UNCHANGED <<items, base, next, start>> /\ pc' = [pc EXCEPT ![r] = "idle"]
    BY <1>5 DEF Take, chanVars
  <2> HIDE DEF s
  <2>3. DeliveredInOrder'
    <3> SUFFICES ASSUME NEW t \in Subscriptions, start[t] >= 0
                 PROVE  /\ cursor'[t] <= next
                        /\ cursor'[t] = start[t] + Len(out'[t])
                        /\ \A i \in 1..Len(out'[t]) : out'[t][i] = start[t] + i - 1
      BY <2>2 DEF DeliveredInOrder
    <3>0. /\ out[t] \in Seq(Nat) /\ Len(out[t]) \in Nat /\ start[t] \in Int /\ cursor[t] \in Nat
          /\ cursor[t] <= next /\ cursor[t] = start[t] + Len(out[t])
          /\ \A i \in 1..Len(out[t]) : out[t][i] = start[t] + i - 1
      BY DEF IInv, TypeOK, DeliveredInOrder
    <3>1. CASE t = s
      <4>1. out'[t] = Append(out[t], cursor[t]) /\ cursor'[t] = cursor[t] + 1
        BY <3>1, <2>1 DEF IInv, TypeOK
      <4>2. /\ Len(out'[t]) = Len(out[t]) + 1 /\ out'[t][Len(out[t]) + 1] = cursor[t]
            /\ \A i \in 1..Len(out[t]) : out'[t][i] = out[t][i]
        BY <4>1, <3>0
      <4>3. ASSUME NEW i \in 1..(Len(out[t]) + 1) PROVE out'[t][i] = start[t] + i - 1
        <5>1. CASE i = Len(out[t]) + 1
          BY <5>1, <4>2, <3>0
        <5>2. CASE i # Len(out[t]) + 1
          <6>1. i \in 1..Len(out[t])
            BY <5>2, <3>0
          <6> QED BY <6>1, <4>2, <3>0
        <5> QED BY <5>1, <5>2
      <4> QED BY <4>1, <4>2, <4>3, <3>0, <3>1, <2>1, <1>a
    <3>2. CASE t # s
      BY <3>2, <3>0, <2>1 DEF IInv, TypeOK
    <3> QED BY <3>1, <3>2
  <2>4. FreshIsEmpty'
    BY <2>1, <2>2 DEF IInv, TypeOK, FreshIsEmpty
  <2>5. Subscribed'
    BY <2>2 DEF IInv, TypeOK, Subscribed
  <2> QED BY <2>2, <2>3, <2>4, <2>5, <1>0, <1>b DEF IInv
<1>6. ASSUME NEW r \in Readers, Stop(r) PROVE IInv'
  <2>1. UNCHANGED <<items, base, next, start, cursor, out>> /\ pc' = [pc EXCEPT ![r] = "ended"]
    BY <1>6 DEF Stop, chanVars
  <2>2. Subscribed'
    BY <2>1 DEF IInv, TypeOK, Subscribed
  <2> QED BY <2>1, <2>2, <1>0, <1>b, DeliveryUntouched DEF IInv
<1>7. ASSUME NEW r \in Readers, Block(r) PROVE IInv'
  <2>1. /\ UNCHANGED <<items, base, next, start, cursor, out>> /\ start[SubOf[r]] >= 0
        /\ \A t \in Readers \ {r} : pc'[t] = pc[t]
    BY <1>7 DEF Block, AtCheck, chanVars, subVars, IInv, TypeOK
  <2>2. Subscribed'
    BY <2>1 DEF IInv, Subscribed
  <2> QED BY <2>1, <2>2, <1>0, <1>b, DeliveryUntouched DEF IInv
<1>8. ASSUME NEW r \in Readers, SyncTimeout(r) PROVE IInv'
  <2>1. UNCHANGED <<items, base, next, start, cursor, out>> /\ pc' = [pc EXCEPT ![r] = "expired"]
    BY <1>8 DEF SyncTimeout, chanVars, subVars
  <2>2. Subscribed'
    BY <2>1 DEF IInv, TypeOK, Subscribed
  <2> QED BY <2>1, <2>2, <1>0, <1>b, DeliveryUntouched DEF IInv
<1>9. ASSUME NEW r \in Readers, AsyncTimeout(r) PROVE IInv'
  <2>1. UNCHANGED <<items, base, next, start, cursor, out>> /\ pc' = [pc EXCEPT ![r] = "ended"]
    BY <1>9 DEF AsyncTimeout, chanVars
  <2>2. Subscribed'
    BY <2>1 DEF IInv, TypeOK, Subscribed
  <2> QED BY <2>1, <2>2, <1>0, <1>b, DeliveryUntouched DEF IInv
<1>10. ASSUME NEW r \in Readers, CancelRead(r) PROVE IInv'
  <2>1. UNCHANGED <<items, base, next, start, cursor, out>> /\ pc' = [pc EXCEPT ![r] = "idle"]
    BY <1>10 DEF CancelRead, chanVars, subVars
  <2>2. Subscribed'
    BY <2>1 DEF IInv, TypeOK, Subscribed
  <2> QED BY <2>1, <2>2, <1>0, <1>b, DeliveryUntouched DEF IInv
<1>11. ASSUME NEW cb \in callbacks, Resolve(cb) PROVE IInv'
  <2>1. /\ UNCHANGED <<items, base, next, start, cursor, out>>
        /\ \A r \in Readers : pc'[r] = pc[r] \/ (pc[r] = "awaiting" /\ pc'[r] = "resolved")
    BY <1>11 DEF Resolve, chanVars, subVars
  <2>2. Subscribed'
    BY <2>1 DEF IInv, Subscribed
  <2> QED BY <2>1, <2>2, <1>0, <1>b, DeliveryUntouched DEF IInv
<1>12. ASSUME NEW l \in Loops, LoopCloses(l) PROVE IInv'
  <2>1. /\ UNCHANGED <<items, base, next, start, cursor, out>>
        /\ \A r \in Readers : pc'[r] = pc[r] \/ pc'[r] = "dead"
    BY <1>12 DEF LoopCloses, chanVars, subVars
  <2>2. Subscribed'
    BY <2>1 DEF IInv, Subscribed
  <2> QED BY <2>1, <2>2, <1>0, <1>b, DeliveryUntouched DEF IInv
<1>13. CASE UNCHANGED vars
  <2>1. UNCHANGED <<items, base, next, start, cursor, out, pc>>
    BY <1>13 DEF vars, chanVars, subVars, wakeVars
  <2>2. Subscribed'
    BY <2>1 DEF IInv, Subscribed
  <2> QED BY <2>1, <2>2, <1>0, <1>b, DeliveryUntouched DEF IInv
<1> QED BY <1>1, <1>2, <1>3, <1>4, <1>5, <1>6, <1>7, <1>8, <1>9, <1>10, <1>11, <1>12, <1>13
     DEF Next, ProducerStep, SubscriptionStep, ReaderStep, LoopStep

\* The invariant holds throughout, for every Tunnel and every schedule.
LEMMA Invariance == Spec => []IInv
BY InitEstablishes, NextKeeps, PTL DEF Spec

(***************************************************************************)
(* Every variable of a Tunnel stays in its domain.                         *)
(***************************************************************************)
THEOREM TypeCorrect == Spec => []TypeOK
<1>1. IInv => TypeOK
  BY DEF IInv
<1> QED BY <1>1, Invariance, PTL

(***************************************************************************)
(* _items is the contiguous suffix from _base_sequence to _next_sequence   *)
(* of what was put, and never longer than max_history.                     *)
(***************************************************************************)
THEOREM BufferIsAlwaysSuffix == Spec => []BufferIsSuffix
<1>1. IInv => BufferIsSuffix
  BY DEF IInv
<1> QED BY <1>1, Invariance, PTL

(***************************************************************************)
(* A subscription returns the values from its start, in order and each     *)
(* once, for any number of concurrent sync and async readers.              *)
(***************************************************************************)
THEOREM DeliveryIsInOrder == Spec => []DeliveredInOrder
<1>1. IInv => DeliveredInOrder
  BY DEF IInv
<1> QED BY <1>1, Invariance, PTL

-----------------------------------------------------------------------------
(* Wake-ups                                                                *)

(***************************************************************************)
(* NoLostWakeup needs three facts of where readers wait: only sync readers *)
(* wait on the condition and only async ones on a future; a reader whose   *)
(* loop is closed is dead, so that a waiter that matters can be posted to; *)
(* and a posted callback is of one loop, so that a loop that closes drops  *)
(* the wake-ups of its own readers only.                                   *)
(***************************************************************************)
ReaderKinds ==
    \A r \in Readers :
        /\ pc[r] \in {"waiting", "woken", "expired"} => r \in SyncReaders
        /\ pc[r] \in {"awaiting", "resolved"} => r \in AsyncReaders

LoopsLive == \A r \in AsyncReaders : loopOpen[LoopOf(r)] \/ pc[r] = "dead"

OneLoopPerPost == \A cb \in callbacks : \A r1, r2 \in cb : LoopOf(r1) = LoopOf(r2)

WakeInv == ReaderKinds /\ LoopsLive /\ OneLoopPerPost /\ NoLostWakeup

\* A wake-up leaves no reader parked but the async ones it posts a callback
\* for; the others of its waiters are on closed loops.
LEMMA WakeReachesAll ==
    ASSUME IInv, WakeInv, WakeWaiters
    PROVE  WakeInv'
<1> USE TunnelAssumption
<1>0. /\ pc' = [r \in Readers |-> IF pc[r] = "waiting" THEN "woken" ELSE pc[r]]
      /\ callbacks' = callbacks \cup Posts
      /\ UNCHANGED <<loopOpen, setting>>
  BY DEF WakeWaiters
<1>1. ReaderKinds'
  BY <1>0 DEF WakeInv, ReaderKinds
<1>2. LoopsLive'
  BY <1>0 DEF WakeInv, LoopsLive, LoopOf, Readers
<1>3. OneLoopPerPost'
  <2>1. \A cb \in Posts : \A r1, r2 \in cb : LoopOf(r1) = LoopOf(r2)
    BY DEF Posts
  <2>2. \A r : LoopOf(r)' = LoopOf(r)
    BY <1>0 DEF LoopOf
  <2> QED BY <2>1, <2>2, <1>0 DEF WakeInv, OneLoopPerPost
<1>4. NoLostWakeup'
  <2> SUFFICES ASSUME NEW r \in Readers, Parked(r)' PROVE Posted(r)'
    BY DEF NoLostWakeup
  <2>1. pc[r] = "awaiting" /\ r \in AsyncReaders
    BY <1>0 DEF Parked, WakeInv, ReaderKinds
  <2>2. CASE Posted(r)
    BY <2>2, <1>0 DEF Posted
  <2>3. CASE ~Posted(r)
    <3>1. r \in waiters /\ loopOpen[LoopOf(r)]
      BY <2>1, <2>3 DEF WakeInv, NoLostWakeup, Parked, LoopsLive
    <3>2. \E cb \in Posts : r \in cb
      <4>1. CASE setting.grouped
        <5> DEFINE live == {t \in waiters : loopOpen[LoopOf(t)]}
        <5>1. r \in live
          BY <3>1
        <5>2. {t \in live : LoopOf(t) = LoopOf(r)} \in Posts
          BY <4>1, <5>1 DEF Posts
        <5> QED BY <5>1, <5>2
      <4>2. CASE ~setting.grouped
        <5>1. {r} \in Posts
          BY <4>2, <3>1 DEF Posts
        <5> QED BY <5>1
      <4> QED BY <4>1, <4>2
    <3> QED BY <3>2, <1>0 DEF Posted
  <2> QED BY <2>2, <2>3
<1> QED BY <1>1, <1>2, <1>3, <1>4 DEF WakeInv

\* A reader that no longer waits takes itself out of the posted callbacks and
\* nobody else.
LEMMA ForgetKeeps ==
    ASSUME WakeInv, NEW r \in Readers, callbacks' = Forget(r), setting' = setting
    PROVE  /\ \A t : t # r /\ Posted(t) => Posted(t)'
           /\ OneLoopPerPost'
<1>1. ASSUME NEW t, t # r, Posted(t) PROVE Posted(t)'
  <2>1. PICK cb \in callbacks : t \in cb
    BY <1>1 DEF Posted
  <2>2. cb \ {r} \in callbacks' /\ t \in cb \ {r}
    BY <1>1, <2>1 DEF Forget
  <2> QED BY <2>2 DEF Posted
<1>2. OneLoopPerPost'
  <2>1. \A cb \in callbacks' : \E full \in callbacks : cb \subseteq full
    BY DEF Forget
  <2>2. \A x : LoopOf(x)' = LoopOf(x)
    BY DEF LoopOf
  <2> QED BY <2>1, <2>2 DEF WakeInv, OneLoopPerPost
<1> QED BY <1>1, <1>2

\* Where the cursor of a parked reader's subscription is, and what its buffer
\* is then.
LEMMA ParkedFacts ==
    ASSUME IInv, WakeInv, NEW r \in Readers, Parked(r), ~Posted(r)
    PROVE  LET s == SubOf[r] IN
           /\ s \in Subscriptions /\ start[s] >= 0
           /\ terminal = "open" /\ cursor[s] = next /\ why[s] \in {"no", "timeout"}
           /\ ~Lags(s) /\ ~HasItem(s)
           /\ r \in AsyncReaders => r \in waiters
<1> USE TunnelAssumption
<1>1. SubOf[r] \in Subscriptions /\ start[SubOf[r]] >= 0
  BY DEF IInv, Subscribed, Parked
<1>2. /\ terminal = "open" /\ cursor[SubOf[r]] = next /\ why[SubOf[r]] \in {"no", "timeout"}
      /\ r \in AsyncReaders => r \in waiters
  BY DEF WakeInv, NoLostWakeup
<1>3. next = base + Len(items) /\ base \in Nat /\ Len(items) \in Nat
  BY DEF IInv, TypeOK, BufferIsSuffix
<1> QED BY <1>1, <1>2, <1>3 DEF Lags, HasItem

\* Every step keeps it.
LEMMA WakeKept == IInv /\ WakeInv /\ [Next]_vars => WakeInv'
<1> SUFFICES ASSUME IInv, WakeInv, [Next]_vars PROVE WakeInv'
  OBVIOUS
<1> USE TunnelAssumption
<1>t. pc \in [Readers -> ReaderStates] /\ cursor \in [Subscriptions -> Nat] /\ why \in [Subscriptions -> Reasons]
  BY DEF IInv, TypeOK
<1>1. CASE Put \/ Close \/ Fail
  BY <1>1, WakeReachesAll DEF Put, Close, Fail
<1>2. ASSUME NEW s \in Subscriptions, SubscriptionClose(s) PROVE WakeInv'
  BY <1>2, WakeReachesAll DEF SubscriptionClose
<1>3. ASSUME NEW s \in Subscriptions, Subscribe(s) PROVE WakeInv'
  <2>1. /\ UNCHANGED <<pc, waiters, callbacks, loopOpen, setting, terminal, next, why>> /\ start[s] = -1
        /\ \A t \in Subscriptions : t # s => cursor'[t] = cursor[t]
    BY <1>3, <1>t DEF Subscribe, wakeVars, chanVars
  <2>2. ReaderKinds' /\ LoopsLive' /\ OneLoopPerPost'
    BY <2>1 DEF WakeInv, ReaderKinds, LoopsLive, OneLoopPerPost, LoopOf
  <2>3. NoLostWakeup'
    <3> SUFFICES ASSUME NEW r \in Readers, Parked(r), ~Posted(r)
                 PROVE  /\ terminal = "open" /\ cursor'[SubOf[r]] = next
                        /\ why[SubOf[r]] \in {"no", "timeout"} /\ (r \in AsyncReaders => r \in waiters)
      BY <2>1 DEF NoLostWakeup, Parked, Posted
    <3>1. SubOf[r] # s
      BY <2>1, ParkedFacts
    <3> QED BY <3>1, <2>1, ParkedFacts
  <2> QED BY <2>2, <2>3 DEF WakeInv
<1>4. ASSUME NEW r \in Readers, Take(r) PROVE WakeInv'
  <2>1. /\ UNCHANGED <<waiters, callbacks, loopOpen, setting, terminal, next, why>>
        /\ pc' = [pc EXCEPT ![r] = "idle"] /\ HasItem(SubOf[r]) /\ SubOf[r] \in Subscriptions
        /\ pc[r] # "dead"
        /\ \A t \in Subscriptions : t # SubOf[r] => cursor'[t] = cursor[t]
    BY <1>4, <1>t DEF Take, AtCheck, chanVars
  <2>2. ReaderKinds' /\ LoopsLive' /\ OneLoopPerPost'
    BY <2>1, <1>t DEF WakeInv, ReaderKinds, LoopsLive, OneLoopPerPost, LoopOf, Readers
  <2>3. NoLostWakeup'
    <3> SUFFICES ASSUME NEW t \in Readers, Parked(t)', ~Posted(t)'
                 PROVE  /\ terminal = "open" /\ cursor'[SubOf[t]] = next
                        /\ why[SubOf[t]] \in {"no", "timeout"} /\ (t \in AsyncReaders => t \in waiters)
      BY <2>1 DEF NoLostWakeup
    <3>1. Parked(t) /\ ~Posted(t)
      BY <2>1, <1>t DEF Parked, Posted
    <3>2. SubOf[t] # SubOf[r]
      BY <3>1, <2>1, ParkedFacts
    <3> QED BY <3>1, <3>2, <2>1, ParkedFacts
  <2> QED BY <2>2, <2>3 DEF WakeInv
<1>5. ASSUME NEW r \in Readers, Stop(r) PROVE WakeInv'
  <2>1. /\ UNCHANGED <<waiters, callbacks, loopOpen, setting, terminal, next, cursor>>
        /\ pc' = [pc EXCEPT ![r] = "ended"] /\ pc[r] # "dead" /\ SubOf[r] \in Subscriptions
    BY <1>5 DEF Stop, AtCheck, chanVars
  <2>2. ReaderKinds' /\ LoopsLive' /\ OneLoopPerPost'
    BY <2>1, <1>t DEF WakeInv, ReaderKinds, LoopsLive, OneLoopPerPost, LoopOf, Readers
  <2>3. NoLostWakeup'
    <3> SUFFICES ASSUME NEW t \in Readers, Parked(t)', ~Posted(t)'
                 PROVE  /\ terminal = "open" /\ cursor[SubOf[t]] = next
                        /\ why'[SubOf[t]] \in {"no", "timeout"} /\ (t \in AsyncReaders => t \in waiters)
      BY <2>1 DEF NoLostWakeup
    <3>1. Parked(t) /\ ~Posted(t)
      BY <2>1, <1>t DEF Parked, Posted
    <3>2. /\ SubOf[t] \in Subscriptions /\ terminal = "open" /\ cursor[SubOf[t]] = next
          /\ why[SubOf[t]] \in {"no", "timeout"} /\ ~Lags(SubOf[t])
          /\ (t \in AsyncReaders => t \in waiters)
      BY <3>1, ParkedFacts
    <3>3. \/ why' = why
          \/ why' = [why EXCEPT ![SubOf[r]] = "timeout"]
          \/ Lags(SubOf[r]) /\ why' = [why EXCEPT ![SubOf[r]] = "lag"]
      BY <1>5, <3>2 DEF Stop
    <3>4. why'[SubOf[t]] \in {"no", "timeout"}
      <4>1. CASE SubOf[t] = SubOf[r]
        BY <4>1, <3>2, <3>3, <1>t
      <4>2. CASE SubOf[t] # SubOf[r]
        BY <4>2, <3>2, <3>3, <1>t
      <4> QED BY <4>1, <4>2
    <3> QED BY <3>2, <3>4
  <2> QED BY <2>2, <2>3 DEF WakeInv
<1>6. ASSUME NEW r \in Readers, Block(r) PROVE WakeInv'
  <2> DEFINE to == IF r \in SyncReaders THEN "waiting" ELSE "awaiting"
  <2>1. /\ UNCHANGED <<callbacks, loopOpen, setting, terminal, next, cursor, why>>
        /\ pc' = [pc EXCEPT ![r] = to] /\ pc[r] # "dead" /\ SubOf[r] \in Subscriptions
        /\ waiters \subseteq waiters' /\ (r \in AsyncReaders => r \in waiters')
        /\ terminal = "open" /\ why[SubOf[r]] = "no" /\ Drained(SubOf[r]) /\ start[SubOf[r]] >= 0
    BY <1>6 DEF Block, AtCheck, chanVars, subVars
  <2>2. cursor[SubOf[r]] = next
    <3>1. /\ cursor[SubOf[r]] \in Nat /\ cursor[SubOf[r]] <= next
          /\ next = base + Len(items) /\ base \in Nat /\ Len(items) \in Nat
      BY <2>1 DEF IInv, TypeOK, BufferIsSuffix, DeliveredInOrder
    <3> QED BY <3>1, <2>1 DEF Drained
  <2>3. pc'[r] = to /\ \A t \in Readers : t # r => pc'[t] = pc[t]
    BY <2>1, <1>t
  <2>4. ReaderKinds'
    BY <2>3 DEF WakeInv, ReaderKinds, Readers
  <2>5. LoopsLive' /\ OneLoopPerPost'
    BY <2>1, <2>3 DEF WakeInv, LoopsLive, OneLoopPerPost, LoopOf, Readers
  <2> HIDE DEF to
  <2>6. NoLostWakeup'
    <3> SUFFICES ASSUME NEW t \in Readers, Parked(t)', ~Posted(t)'
                 PROVE  /\ terminal = "open" /\ cursor[SubOf[t]] = next
                        /\ why[SubOf[t]] \in {"no", "timeout"} /\ (t \in AsyncReaders => t \in waiters')
      BY <2>1 DEF NoLostWakeup
    <3>1. CASE t = r
      BY <3>1, <2>1, <2>2
    <3>2. CASE t # r
      <4>1. Parked(t) /\ ~Posted(t)
        BY <3>2, <2>1, <2>3 DEF Parked, Posted
      <4> QED BY <4>1, <2>1, ParkedFacts
    <3> QED BY <3>1, <3>2
  <2> QED BY <2>4, <2>5, <2>6 DEF WakeInv
<1>7. ASSUME NEW r \in Readers, SyncTimeout(r) PROVE WakeInv'
  <2>1. /\ UNCHANGED <<waiters, callbacks, loopOpen, setting, terminal, next, cursor, why>>
        /\ pc' = [pc EXCEPT ![r] = "expired"] /\ r \in SyncReaders
    BY <1>7 DEF SyncTimeout, chanVars, subVars
  <2>2. ReaderKinds' /\ LoopsLive' /\ OneLoopPerPost'
    BY <2>1, <1>t DEF WakeInv, ReaderKinds, LoopsLive, OneLoopPerPost, LoopOf, Readers
  <2>3. NoLostWakeup'
    BY <2>1, <1>t DEF WakeInv, NoLostWakeup, Parked, Posted
  <2> QED BY <2>2, <2>3 DEF WakeInv
<1>8. ASSUME NEW r \in Readers, AsyncTimeout(r) \/ CancelRead(r) PROVE WakeInv'
  <2>1. /\ UNCHANGED <<loopOpen, setting, terminal, next, cursor>>
        /\ callbacks' = Forget(r) /\ waiters' = waiters \ {r}
        /\ pc[r] # "dead" /\ SubOf[r] \in Subscriptions
    BY <1>8 DEF AsyncTimeout, CancelRead, chanVars, subVars
  <2>2. pc' = [pc EXCEPT ![r] = "ended"] \/ pc' = [pc EXCEPT ![r] = "idle"]
    BY <1>8 DEF AsyncTimeout, CancelRead
  <2>3. \A s \in Subscriptions : why'[s] = why[s] \/ why'[s] = "timeout"
    BY <1>8, <1>t DEF AsyncTimeout, CancelRead, subVars
  <2>4. ReaderKinds' /\ LoopsLive'
    BY <2>1, <2>2, <1>t DEF WakeInv, ReaderKinds, LoopsLive, LoopOf, Readers
  <2>5. OneLoopPerPost' /\ \A t : t # r /\ Posted(t) => Posted(t)'
    BY <2>1, ForgetKeeps
  <2>6. NoLostWakeup'
    <3> SUFFICES ASSUME NEW t \in Readers, Parked(t)', ~Posted(t)'
                 PROVE  /\ terminal = "open" /\ cursor[SubOf[t]] = next
                        /\ why'[SubOf[t]] \in {"no", "timeout"} /\ (t \in AsyncReaders => t \in waiters')
      BY <2>1 DEF NoLostWakeup
    <3>1. t # r /\ Parked(t)
      BY <2>2, <1>t DEF Parked
    <3>2. ~Posted(t)
      BY <3>1, <2>5
    <3> QED BY <3>1, <3>2, <2>1, <2>3, ParkedFacts
  <2> QED BY <2>4, <2>5, <2>6 DEF WakeInv
<1>9. ASSUME NEW cb \in callbacks, Resolve(cb) PROVE WakeInv'
  <2>1. /\ UNCHANGED <<waiters, loopOpen, setting, terminal, next, cursor, why>>
        /\ callbacks' = callbacks \ {cb}
        /\ pc' = [r \in Readers |-> IF r \in cb /\ pc[r] = "awaiting" THEN "resolved" ELSE pc[r]]
    BY <1>9 DEF Resolve, chanVars, subVars
  <2>2. ReaderKinds' /\ OneLoopPerPost'
    BY <2>1 DEF WakeInv, ReaderKinds, OneLoopPerPost, LoopOf
  <2>3. LoopsLive'
    BY <2>1 DEF WakeInv, LoopsLive, LoopOf, Readers
  <2>4. NoLostWakeup'
    <3> SUFFICES ASSUME NEW t \in Readers, Parked(t)', ~Posted(t)'
                 PROVE  /\ terminal = "open" /\ cursor[SubOf[t]] = next
                        /\ why[SubOf[t]] \in {"no", "timeout"} /\ (t \in AsyncReaders => t \in waiters)
      BY <2>1 DEF NoLostWakeup
    <3>1. Parked(t) /\ (t \in cb => pc[t] = "waiting")
      BY <2>1 DEF Parked
    <3>2. t \notin cb
      <4>1. cb \subseteq AsyncReaders
        BY DEF IInv, TypeOK
      <4> QED BY <4>1, <3>1 DEF WakeInv, ReaderKinds
    <3>3. ~Posted(t)
      BY <3>2, <2>1 DEF Posted
    <3> QED BY <3>1, <3>3, ParkedFacts
  <2> QED BY <2>2, <2>3, <2>4 DEF WakeInv
<1>10. ASSUME NEW l \in Loops, LoopCloses(l) PROVE WakeInv'
  <2>1. /\ UNCHANGED <<waiters, setting, terminal, next, cursor, why>>
        /\ callbacks' = {cb \in callbacks : \A r \in cb : LoopOf(r) # l}
        /\ loopOpen' = [loopOpen EXCEPT ![l] = FALSE]
        /\ pc' = [r \in Readers |-> IF r \in AsyncReaders /\ LoopOf(r) = l THEN "dead" ELSE pc[r]]
    BY <1>10 DEF LoopCloses, chanVars, subVars
  <2>2. ReaderKinds' /\ OneLoopPerPost'
    BY <2>1 DEF WakeInv, ReaderKinds, OneLoopPerPost, LoopOf
  <2>3. LoopsLive'
    <3>1. \A r : LoopOf(r)' = LoopOf(r)
      BY <2>1 DEF LoopOf
    <3>2. \A m : m # l => loopOpen'[m] = loopOpen[m] \/ m \notin Loops
      BY <2>1 DEF IInv, TypeOK
    <3>3. \A r \in AsyncReaders : LoopOf(r) \in Loops
      BY DEF LoopOf, IInv, TypeOK
    <3> SUFFICES ASSUME NEW r \in AsyncReaders PROVE loopOpen'[LoopOf(r)] \/ pc'[r] = "dead"
      BY <3>1 DEF LoopsLive
    <3>4. CASE LoopOf(r) = l
      BY <3>4, <2>1 DEF Readers
    <3>5. CASE LoopOf(r) # l
      BY <3>2, <3>3, <3>5, <2>1 DEF Readers, WakeInv, LoopsLive
    <3> QED BY <3>4, <3>5
  <2>4. NoLostWakeup'
    <3> SUFFICES ASSUME NEW t \in Readers, Parked(t)', ~Posted(t)'
                 PROVE  /\ terminal = "open" /\ cursor[SubOf[t]] = next
                        /\ why[SubOf[t]] \in {"no", "timeout"} /\ (t \in AsyncReaders => t \in waiters)
      BY <2>1 DEF NoLostWakeup
    <3>1. Parked(t) /\ ~(t \in AsyncReaders /\ LoopOf(t) = l)
      BY <2>1 DEF Parked
    <3>2. ~Posted(t)
      <4> SUFFICES ASSUME NEW cb \in callbacks, t \in cb PROVE FALSE
        BY DEF Posted
      <4>1. t \in AsyncReaders /\ LoopOf(t) # l
        BY <3>1 DEF IInv, TypeOK
      <4>2. \A r \in cb : LoopOf(r) # l
        BY <4>1 DEF WakeInv, OneLoopPerPost
      <4> QED BY <4>2, <2>1 DEF Posted
    <3> QED BY <3>1, <3>2, ParkedFacts
  <2> QED BY <2>2, <2>3, <2>4 DEF WakeInv
<1>11. CASE UNCHANGED vars
  BY <1>11 DEF vars, chanVars, subVars, wakeVars, WakeInv, ReaderKinds, LoopsLive, OneLoopPerPost,
               LoopOf, NoLostWakeup, Parked, Posted
<1> QED BY <1>1, <1>2, <1>3, <1>4, <1>5, <1>6, <1>7, <1>8, <1>9, <1>10, <1>11
     DEF Next, ProducerStep, SubscriptionStep, ReaderStep, LoopStep

(***************************************************************************)
(* No wake-up is lost: whatever put, close, fail, timeout, cancellation or *)
(* closing loop comes between a reader's check and its resumption, a       *)
(* reader parked without a callback posted for it has nothing to read, and *)
(* is registered for the next wake-up.                                     *)
(***************************************************************************)
THEOREM WakeupsAreNotLost == Spec => []NoLostWakeup
<1>1. Init => WakeInv
  <2> SUFFICES ASSUME Init PROVE WakeInv
    OBVIOUS
  <2>1. \A r \in Readers : pc[r] = "idle"
    BY DEF Init
  <2>2. ReaderKinds /\ NoLostWakeup
    BY <2>1 DEF ReaderKinds, NoLostWakeup, Parked
  <2>3. OneLoopPerPost
    BY DEF Init, OneLoopPerPost
  <2>4. LoopsLive
    <3>1. \A r \in AsyncReaders : LoopOf(r) \in Loops
      BY TunnelAssumption DEF Init, LoopOf
    <3> QED BY <3>1 DEF Init, LoopsLive
  <2> QED BY <2>2, <2>3, <2>4 DEF WakeInv
<1>2. WakeInv => NoLostWakeup
  BY DEF WakeInv
<1> QED BY <1>1, <1>2, Invariance, WakeKept, PTL DEF Spec

(***************************************************************************)
(* A sync reader that gives up has just found nothing to read, and the     *)
(* channel still open, also when others share its subscription.            *)
(***************************************************************************)
THEOREM SyncTimeoutIsHonest == Spec => SyncTimeoutFindsNothing
<1> DEFINE GaveUp == \A r \in SyncReaders :
        LET s == SubOf[r] IN
        pc[r] = "expired" /\ pc'[r] = "ended" /\ why[s] = "no" /\ why'[s] = "timeout"
           => cursor[s] = next /\ terminal = "open"
<1>1. IInv /\ [Next]_vars => [GaveUp]_vars
  <2> SUFFICES ASSUME IInv, [Next]_vars, NEW r \in SyncReaders,
                      pc[r] = "expired", pc'[r] = "ended",
                      why[SubOf[r]] = "no", why'[SubOf[r]] = "timeout"
               PROVE  cursor[SubOf[r]] = next /\ terminal = "open"
    OBVIOUS
  <2> USE TunnelAssumption
  <2>0. r \in Readers /\ r \notin AsyncReaders /\ pc \in [Readers -> ReaderStates]
        /\ SubOf[r] \in Subscriptions /\ why \in [Subscriptions -> Reasons]
    BY DEF Readers, IInv, TypeOK
  <2>1. Stop(r)
    <3>1. ~(\E t \in Readers : t # r /\ (Take(t) \/ Stop(t) \/ Block(t) \/ SyncTimeout(t) \/ CancelRead(t) \/ AsyncTimeout(t)))
      BY <2>0 DEF Take, Stop, Block, SyncTimeout, CancelRead, AsyncTimeout
    <3>2. ~(Take(r) \/ Block(r) \/ SyncTimeout(r) \/ CancelRead(r) \/ AsyncTimeout(r))
      BY <2>0 DEF Take, Block, SyncTimeout, CancelRead, AsyncTimeout
    <3>3. ~(ProducerStep \/ SubscriptionStep \/ LoopStep \/ UNCHANGED vars)
      BY <2>0 DEF ProducerStep, SubscriptionStep, LoopStep, Put, Close, Fail, WakeWaiters, Subscribe,
                  SubscriptionClose, Resolve, LoopCloses, vars, wakeVars
    <3> QED BY <3>1, <3>2, <3>3 DEF Next, ReaderStep
  <2>2. start[SubOf[r]] >= 0 /\ Drained(SubOf[r]) /\ terminal = "open"
    BY <2>1, <2>0 DEF Stop, AtCheck, GivesUp
  <2>3. /\ cursor[SubOf[r]] \in Nat /\ cursor[SubOf[r]] <= next
        /\ next = base + Len(items) /\ base \in Nat /\ Len(items) \in Nat
    BY <2>0, <2>2 DEF IInv, TypeOK, BufferIsSuffix, DeliveredInOrder
  <2> QED BY <2>2, <2>3 DEF Drained
<1> QED BY <1>1, Invariance, PTL DEF Spec, SyncTimeoutFindsNothing

-----------------------------------------------------------------------------
(* The refinement                                                          *)

\* A subscription whose cursor is behind _base_sequence needs a value that is
\* more than max_history puts old.
LEMMA LagIsDropped ==
    ASSUME IInv, NEW s \in Subscriptions, start[s] >= 0
    PROVE  /\ Log!Position(s) = cursor[s]
           /\ Log!Dropped(s) <=> cursor[s] < base
<1>1. /\ Log!Position(s) = cursor[s] /\ cursor[s] \in Nat
      /\ base \in Nat /\ Len(items) \in Nat /\ next = base + Len(items)
  BY DEF IInv, TypeOK, BufferIsSuffix, DeliveredInOrder, Log!Position
<1>2. /\ MaxHistory \in Nat
      /\ base > 0 => MaxHistory > 0 /\ Len(items) = MaxHistory
      /\ MaxHistory > 0 => Len(items) <= MaxHistory
  BY TunnelAssumption DEF IInv, BufferIsSuffix, EvictsWhenFull
<1> HIDE DEF IInv
<1>3. Log!Dropped(s) <=> MaxHistory > 0 /\ cursor[s] < next - MaxHistory
  BY <1>1 DEF Log!Dropped
<1> QED BY <1>1, <1>2, <1>3

\* A reader's check that ends the subscription ends it for a reason that is true.
LEMMA StopEnds ==
    ASSUME IInv, NEW r \in Readers, Stop(r), UNCHANGED <<next, terminal, start, out>>
    PROVE  why' = why \/ Log!End(SubOf[r])
<1> USE TunnelAssumption
<1> DEFINE s == SubOf[r]
<1>1. s \in Subscriptions /\ start[s] >= 0
  BY DEF Stop, AtCheck, IInv
<1>2. /\ Log!Position(s) = cursor[s]
      /\ Log!Dropped(s) <=> cursor[s] < base
  BY <1>1, LagIsDropped
<1>3. /\ cursor[s] \in Nat /\ cursor[s] <= next /\ next = base + Len(items)
      /\ base \in Nat /\ next \in Nat /\ Len(items) \in Nat
  BY <1>1 DEF IInv, TypeOK, BufferIsSuffix, DeliveredInOrder
<1>4. Drained(s) => Log!Position(s) = next
  BY <1>2, <1>3 DEF Drained
<1>5. \/ why' = why
      \/ /\ why[s] = "no"
         /\ \/ Lags(s) /\ why' = [why EXCEPT ![s] = "lag"]
            \/ Drained(s) /\ terminal = "failed" /\ why' = [why EXCEPT ![s] = "failure"]
            \/ Drained(s) /\ terminal = "closed" /\ why' = [why EXCEPT ![s] = "eof"]
            \/ why' = [why EXCEPT ![s] = "timeout"]
  BY DEF Stop
<1> QED BY <1>1, <1>2, <1>4, <1>5 DEF Log!End, Lags

\* Every step of the Tunnel is a step of the replay log or leaves it unchanged.
LEMMA StepSimulates == IInv /\ [Next]_vars => [Log!Next]_(Log!vars)
<1> SUFFICES ASSUME IInv, [Next]_vars, ~ UNCHANGED Log!vars PROVE Log!Next
  OBVIOUS
<1> USE TunnelAssumption
<1>1. CASE Put
  BY <1>1 DEF Put, subVars, Log!Next, Log!Accept
<1>2. CASE Close \/ Fail
  BY <1>2 DEF Close, Fail, subVars, Log!Next, Log!Terminate
<1>3. ASSUME NEW s \in Subscriptions, Subscribe(s) PROVE Log!Next
  BY <1>3 DEF Subscribe, StartChoices, chanVars, Log!Next, Log!Subscribe
<1>4. ASSUME NEW s \in Subscriptions, SubscriptionClose(s) PROVE Log!Next
  BY <1>4 DEF SubscriptionClose, chanVars, Log!Next, Log!End
<1>5. ASSUME NEW r \in Readers, Take(r) PROVE Log!Next
  <2> DEFINE s == SubOf[r]
  <2>1. /\ s \in Subscriptions /\ start[s] >= 0 /\ why[s] = "no"
        /\ cursor[s] \in Nat /\ base <= cursor[s] /\ cursor[s] < next
        /\ out' = [out EXCEPT ![s] = Append(@, cursor[s])]
    BY <1>5, TakeFacts
  <2>2. UNCHANGED <<next, terminal, start, why>>
    BY <1>5 DEF Take, chanVars
  <2>3. Log!Position(s) = cursor[s] /\ (Log!Dropped(s) <=> cursor[s] < base)
    BY <2>1, LagIsDropped
  <2>4. base \in Nat
    BY DEF IInv, TypeOK
  <2> HIDE DEF s
  <2>5. ~ Log!Dropped(s)
    BY <2>1, <2>3, <2>4
  <2> QED BY <2>1, <2>2, <2>3, <2>5 DEF Log!Next, Log!Deliver
<1>6. ASSUME NEW r \in Readers, Stop(r) PROVE Log!Next
  <2>1. UNCHANGED <<next, terminal, start, out>>
    BY <1>6 DEF Stop, chanVars
  <2>2. Log!End(SubOf[r])
    BY <1>6, <2>1, StopEnds DEF Log!vars
  <2> QED BY <2>2 DEF Log!Next
<1>7. ASSUME NEW r \in Readers, AsyncTimeout(r) PROVE Log!Next
  <2>1. SubOf[r] \in Subscriptions /\ start[SubOf[r]] >= 0
    BY <1>7 DEF AsyncTimeout, IInv, Subscribed
  <2>2. UNCHANGED <<next, terminal, start, out>>
    BY <1>7 DEF AsyncTimeout, chanVars
  <2>3. why[SubOf[r]] = "no" /\ why' = [why EXCEPT ![SubOf[r]] = "timeout"]
    BY <1>7, <2>2 DEF AsyncTimeout, Log!vars, IInv, TypeOK
  <2> QED BY <2>1, <2>2, <2>3 DEF Log!Next, Log!End
<1>8. ASSUME NEW r \in Readers, Block(r) \/ SyncTimeout(r) \/ CancelRead(r) PROVE Log!Next
  BY <1>8 DEF Block, SyncTimeout, CancelRead, chanVars, subVars, Log!vars
<1>9. ASSUME LoopStep PROVE Log!Next
  BY <1>9 DEF LoopStep, Resolve, LoopCloses, chanVars, subVars, Log!vars
<1>10. CASE UNCHANGED vars
  BY <1>10 DEF vars, chanVars, subVars, Log!vars
<1> QED BY <1>1, <1>2, <1>3, <1>4, <1>5, <1>6, <1>7, <1>8, <1>9, <1>10
     DEF Next, ProducerStep, SubscriptionStep, ReaderStep

(***************************************************************************)
(* The Tunnel, with its condition, waiters, callbacks and bounded buffer,  *)
(* implements the replay log: nothing is lost, repeated or reordered, the  *)
(* end is told only after the last value, and a lag error only when a      *)
(* needed value really is more than max_history puts old.                  *)
(***************************************************************************)
THEOREM TunnelImplementsLog == Spec => LogSpec
<1>1. Init => Log!Init
  BY DEF Init, Log!Init
<1> QED BY <1>1, StepSimulates, Invariance, PTL DEF Spec, LogSpec, Log!Spec
=============================================================================
