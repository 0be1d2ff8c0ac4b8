------------------------- MODULE CarrierPool_proofs -------------------------
(***************************************************************************)
(* Proofs about the carrier pool, for any number of scopes, lanes and      *)
(* slots and every client program Openers and Ways.  Two arguments are needed.      *)
(*                                                                         *)
(* A slot that is counted on stays in the pool: lanes change only before   *)
(* the settings are frozen, and an escape slot is idle only after the one  *)
(* scope that selected it has had a generation there (EscapesPrivate).     *)
(*                                                                         *)
(* A scope is not placed upstream: what waits for it is among what it is   *)
(* told to avoid (upstream is within blocked), and the slot it selects     *)
(* holds none of that; nor will it later, because the generations a slot   *)
(* gets while the scope is on its way are new ones (Apart).                *)
(***************************************************************************)
EXTENDS CarrierPool, SequenceTheorems, FiniteSetTheorems, TLAPS

\* Scopes that have, or had, a lease.
Placed == {"leased", "submitted", "running", "done"}
PlacedScopes == {s \in Scopes : pc[s] \in Placed}

\* Each generation was made for a scope that leases it.
GensCounted == genCounter <= Cardinality(PlacedScopes)

GenShape ==
    \A g \in Gens :
        /\ gstate[g] # "none" <=> g <= genCounter
        /\ gstate[g] # "none" => gslot[g] \in Slots
        /\ gstate[g] \notin {"none", "CLOSED"} => g \in {current[gslot[g]], next[gslot[g]]}

\* Generations that a scope may count on.
Live == {"QUEUED", "RETURNED", "OPEN"}

\* A successor has not been opened, so nothing has run on it; its leases may
\* have been returned.
SlotShape ==
    \A sl \in Slots :
        /\ current[sl] # NoGen => /\ gslot[current[sl]] = sl
                                  /\ gstate[current[sl]] \in Live \cup {"SEALING"}
        /\ next[sl] # NoGen => /\ current[sl] \notin {NoGen, next[sl]}
                               /\ gslot[next[sl]] = sl
                               /\ gstate[next[sl]] \in {"QUEUED", "RETURNED"}

\* Slot ids are handed out once.
SlotsFresh ==
    /\ \A i \in 1..Len(lanes) : lanes[i] <= slotCounter /\ lanes[i] \notin escapes
    /\ \A sl \in escapes : sl <= slotCounter
    /\ \A g \in Gens : gslot[g] <= slotCounter
    /\ \A s \in Scopes : target[s] <= slotCounter

\* An escape slot that is on its way to its scope is nobody else's.
EscapesPrivate ==
    \A s \in Scopes : pc[s] = "selected" /\ target[s] \in escapes =>
        /\ \A g \in Gens : gslot[g] # target[s]
        /\ \A t \in Scopes \ {s} : pc[t] = "selected" => target[t] # target[s]

SettingsFrozen == (\E s \in Scopes : pc[s] # "new") => frozen

\* A lease is on a generation that exists; one that is held has not begun to
\* drain, and one that has taken a body accepts work.
LeaseShape ==
    \A s \in Scopes :
        /\ pc[s] \in Placed => lease[s] \in Gens /\ gstate[lease[s]] # "none"
        /\ pc[s] \in Holding => gstate[lease[s]] \in Live
        /\ pc[s] \in Accepted => Accepts(lease[s])

\* The slot a scope has selected is a slot of the pool.
SelectedKnown ==
    \A s \in Scopes : pc[s] = "selected" =>
        target[s] \in escapes \/ \E i \in 1..Len(lanes) : lanes[i] = target[s]

\* ... and so is the slot of every generation that is not over.
GensKnown ==
    \A g \in Gens : gstate[g] \notin {"none", "CLOSED"} =>
        gslot[g] \in escapes \/ \E i \in 1..Len(lanes) : lanes[i] = gslot[g]

PoolInv ==
    /\ TypeOK /\ GensCounted /\ GenShape /\ SlotShape
    /\ SlotsFresh /\ EscapesPrivate /\ SettingsFrozen
    /\ LeaseShape /\ SelectedKnown /\ GensKnown

\* What a scope gets from the one that opened it.
Lineage ==
    \A s \in Scopes :
        /\ \A g \in upstream[s] : gstate[g] # "none"
        /\ HasContext(s) => /\ pc[opener[s]] \in {"running", "done"}
                            /\ viaShared[opener[s]] => viaShared[s]
                            /\ upstream[s] \subseteq upstream[opener[s]]
                                  \cup (IF where[s] = "loop" THEN {lease[opener[s]]} ELSE {})
        /\ kind[s] = "shared" => viaShared[s]
        /\ kind[s] = "stage" \/ ~HasContext(s) => upstream[s] = {}

\* A scope is kept away from the generations that wait for it.
Apart ==
    \A s \in Scopes : ~viaShared[s] =>
        /\ pc[s] = "selected" => \A g \in upstream[s] : gslot[g] = target[s] => gstate[g] = "CLOSED"
        /\ pc[s] \in Placed => upstream[s] \subseteq blocked[s] /\ lease[s] \notin upstream[s]

IInv == PoolInv /\ Lineage /\ Apart

-----------------------------------------------------------------------------
(* Numbers and types                                                       *)

LEMMA ConstantFacts ==
    /\ Cardinality(Scopes) \in Nat /\ MaxSlots \in Nat \ {0} /\ MaxLanes \in Nat \ {0}
    /\ Gens = 1..Cardinality(Scopes) /\ NoGen \notin Gens
    /\ Slots = 1..MaxSlots /\ NoSlot \notin Slots
BY PoolAssumption, FS_CardinalityType DEF Gens, NoGen, Slots, NoSlot

\* A scope that has no lease yet leaves room for one more generation.
LEMMA RoomForOne ==
    ASSUME NEW s \in Scopes, pc[s] \notin Placed
    PROVE  /\ Cardinality(PlacedScopes) \in Nat
           /\ Cardinality(PlacedScopes \cup {s}) = Cardinality(PlacedScopes) + 1
           /\ Cardinality(PlacedScopes) < Cardinality(Scopes)
<1>1. PlacedScopes \subseteq Scopes /\ s \notin PlacedScopes /\ PlacedScopes \cup {s} \subseteq Scopes
  BY DEF PlacedScopes
<1>2. IsFiniteSet(PlacedScopes) /\ Cardinality(PlacedScopes) \in Nat
  BY <1>1, PoolAssumption, FS_Subset, FS_CardinalityType
<1>3. Cardinality(PlacedScopes \cup {s}) = Cardinality(PlacedScopes) + 1
  BY <1>1, <1>2, FS_AddElement
<1>4. Cardinality(PlacedScopes \cup {s}) <= Cardinality(Scopes)
  BY <1>1, PoolAssumption, FS_Subset
<1> QED BY <1>2, <1>3, <1>4, ConstantFacts

\* The type of what a scope is and of what it has, apart from the pool's books.
ScopeType ==
    /\ pc \in [Scopes -> Stages]
    /\ opener \in [Scopes -> Scopes \cup {NoScope}]
    /\ where \in [Scopes -> {"thread", "loop", "worker"}]
    /\ kind \in [Scopes -> Kinds]
    /\ target \in [Scopes -> Slots \cup {NoSlot}]
    /\ lease \in [Scopes -> Gens \cup {NoGen}]
    /\ blocked \in [Scopes -> SUBSET Gens]
    /\ upstream \in [Scopes -> SUBSET Gens]
    /\ viaShared \in [Scopes -> BOOLEAN]

GenType ==
    /\ genCounter \in 0..Cardinality(Scopes)
    /\ gslot \in [Gens -> Slots \cup {NoSlot}]
    /\ gstate \in [Gens -> GenStates]
    /\ current \in [Slots -> Gens \cup {NoGen}]
    /\ next \in [Slots -> Gens \cup {NoGen}]

LaneType ==
    /\ lanes \in Seq(Slots) /\ Len(lanes) \in 1..MaxLanes
    /\ escapes \subseteq Slots
    /\ slotCounter \in Slots
    /\ frozen \in BOOLEAN
    /\ cursor \in 0..(Len(lanes) - 1)

LEMMA TypeParts == TypeOK <=> LaneType /\ GenType /\ ScopeType
BY DEF TypeOK, LaneType, GenType, ScopeType

\* Slot ids are numbers up to the counter.
LEMMA SlotNumbers ==
    ASSUME TypeOK, SlotsFresh
    PROVE  /\ slotCounter \in Slots /\ slotCounter \in Nat
           /\ \A i \in 1..Len(lanes) : /\ lanes[i] \in Slots /\ lanes[i] \in Nat
                                       /\ lanes[i] <= slotCounter /\ lanes[i] \notin escapes
           /\ \A sl \in escapes : sl \in Nat /\ sl <= slotCounter
           /\ \A g \in Gens : gslot[g] \in Nat /\ gslot[g] <= slotCounter
           /\ \A s \in Scopes : target[s] \in Nat /\ target[s] <= slotCounter
<1>1. \A sl \in Slots \cup {NoSlot} : sl \in Nat
  BY ConstantFacts DEF NoSlot
<1>2. /\ slotCounter \in Slots /\ escapes \subseteq Slots
      /\ \A i \in 1..Len(lanes) : lanes[i] \in Slots
  BY ElementOfSeq DEF TypeOK
<1>3. (\A g \in Gens : gslot[g] \in Slots \cup {NoSlot}) /\ \A s \in Scopes : target[s] \in Slots \cup {NoSlot}
  BY DEF TypeOK
<1> QED BY <1>1, <1>2, <1>3 DEF SlotsFresh

\* A generation is in one of the two places of its slot until it is closed.
LEMMA OwnedBySlot ==
    ASSUME TypeOK, GenShape, NEW g \in Gens, NEW sl \in Slots,
           g \notin {current[sl], next[sl]}, gslot[g] = sl, gstate[g] # "none"
    PROVE  gstate[g] = "CLOSED"
BY DEF GenShape

-----------------------------------------------------------------------------
(* The books: generations and slots                                        *)

\* The generations' part of the invariant.
GenInv == GenType /\ GenShape /\ SlotShape

\* A generation that opens has a holder, one that has none seals at once.
LEMMA OpenKeeps ==
    ASSUME GenInv, NEW g \in Gens, OpenGeneration(g)
    PROVE  /\ GenInv' /\ gstate[g] \in {"QUEUED", "RETURNED"}
           /\ \A h \in Gens : h # g => gstate'[h] = gstate[h]
           /\ gstate'[g] \in {"OPEN", "SEALING"}
           /\ (\E s \in Scopes : pc[s] \in Holding /\ lease[s] = g) => gstate'[g] = "OPEN"
<1>1. PICK st \in {"OPEN", "SEALING"} :
        /\ gstate[g] \in {"QUEUED", "RETURNED"} /\ current[gslot[g]] = g
        /\ gstate' = [gstate EXCEPT ![g] = st]
        /\ (\E s \in Scopes : pc[s] \in Holding /\ lease[s] = g) => st = "OPEN"
        /\ UNCHANGED <<genCounter, gslot, current, next>>
  BY DEF OpenGeneration
<1>2. gslot[g] \in Slots
  BY <1>1 DEF GenInv, GenShape
<1>3. \A sl \in Slots : next[sl] # g
  BY <1>1, <1>2, ConstantFacts DEF GenInv, SlotShape
<1>4. GenType' /\ gstate'[g] = st /\ \A h \in Gens : h # g => gstate'[h] = gstate[h]
  BY <1>1 DEF GenInv, GenType, GenStates
<1>5. GenShape'
  BY <1>1 DEF GenInv, GenType, GenShape
<1>6. SlotShape'
  BY <1>1, <1>3, ConstantFacts DEF GenInv, GenType, SlotShape, Live
<1> QED BY <1>1, <1>4, <1>5, <1>6 DEF GenInv

LEMMA CloseKeeps ==
    ASSUME GenInv, NEW g \in Gens, CloseGeneration(g)
    PROVE  GenInv' /\ gstate[g] = "SEALING"
<1> DEFINE sl == gslot[g]
<1>1. /\ gstate[g] = "SEALING" /\ current[sl] = g /\ gstate' = [gstate EXCEPT ![g] = "CLOSED"]
      /\ current' = [current EXCEPT ![sl] = next[sl]] /\ next' = [next EXCEPT ![sl] = NoGen]
      /\ UNCHANGED <<genCounter, gslot>>
  BY DEF CloseGeneration
<1>2. sl \in Slots /\ \A t \in Slots : next[t] # g
  BY <1>1, ConstantFacts DEF GenInv, GenShape, SlotShape
<1>3. GenType'
  BY <1>1, <1>2 DEF GenInv, GenType, GenStates
<1>4. GenShape'
  BY <1>1, <1>2 DEF GenInv, GenType, GenShape
<1>5. SlotShape'
  <2> SUFFICES ASSUME NEW t \in Slots
               PROVE  /\ current'[t] # NoGen => /\ gslot'[current'[t]] = t
                                                /\ gstate'[current'[t]] \in Live \cup {"SEALING"}
                      /\ next'[t] # NoGen => /\ current'[t] \notin {NoGen, next'[t]}
                                             /\ gslot'[next'[t]] = t
                                             /\ gstate'[next'[t]] \in {"QUEUED", "RETURNED"}
    BY DEF SlotShape
  <2>1. CASE t = sl
    BY <2>1, <1>1, <1>2, ConstantFacts DEF GenInv, GenType, SlotShape, Live
  <2>2. CASE t # sl
    <3>1. current'[t] = current[t] /\ next'[t] = next[t] /\ current[t] # g
      BY <2>2, <1>1, <1>2, ConstantFacts DEF GenInv, GenType, SlotShape, Live
    <3> QED BY <3>1, <1>1, <1>2, ConstantFacts DEF GenInv, GenType, SlotShape, Live
  <2> QED BY <2>1, <2>2
<1> QED BY <1>1, <1>3, <1>4, <1>5 DEF GenInv

\* The last lease on a generation seals it; one that has not run yet may still
\* be leased.
LEMMA ReleaseKeeps ==
    ASSUME GenInv, NEW s \in Scopes, lease[s] \in Gens, gstate[lease[s]] \in Live, ReleaseLease(s),
           UNCHANGED <<genCounter, gslot, current, next>>
    PROVE  /\ GenInv'
           /\ \A h \in Gens : h # lease[s] => gstate'[h] = gstate[h]
           /\ gstate'[lease[s]] \in Live \cup {"SEALING"}
           /\ (\E t \in Scopes \ {s} : pc[t] \in Holding /\ lease[t] = lease[s])
                 => gstate'[lease[s]] = gstate[lease[s]]
<1> DEFINE g == lease[s]
<1>1. PICK st \in {gstate[g], Sealed(g)} :
         /\ gstate' = [gstate EXCEPT ![g] = st]
         /\ (\E t \in Scopes \ {s} : pc[t] \in Holding /\ lease[t] = g) => st = gstate[g]
  BY DEF ReleaseLease
<1> HIDE DEF g
<1>2. g \in Gens /\ gstate[g] \in Live
  BY DEF g
<1>3. /\ st \in Live \cup {"SEALING"}
      /\ gstate[g] \in {"QUEUED", "RETURNED"} => st \in {"QUEUED", "RETURNED"}
  BY <1>1, <1>2 DEF Sealed, Live
<1>4. GenType'
  BY <1>1, <1>2, <1>3 DEF GenInv, GenType, GenStates, Live
<1>5. /\ gstate'[g] = st
      /\ \A h \in Gens : h # g => gstate'[h] = gstate[h]
  BY <1>1, <1>2 DEF GenInv, GenType
<1>6. GenShape'
  BY <1>1, <1>2, <1>3, <1>5 DEF GenInv, GenType, GenShape, Live
<1>7. SlotShape'
  BY <1>1, <1>2, <1>3, <1>5, ConstantFacts DEF GenInv, GenType, SlotShape
<1> QED BY <1>1, <1>3, <1>4, <1>5, <1>6, <1>7 DEF GenInv, g

\* A new generation on slot sl, with the number g.
NewGeneration(sl, g) ==
    /\ current[sl] # NoGen => next[sl] = NoGen
    /\ genCounter' = g /\ g = genCounter + 1
    /\ gslot' = [gslot EXCEPT ![g] = sl]
    /\ gstate' = [gstate EXCEPT ![g] = "QUEUED"]
    /\ IF current[sl] # NoGen
         THEN UNCHANGED current /\ next' = [next EXCEPT ![sl] = g]
         ELSE UNCHANGED next /\ current' = [current EXCEPT ![sl] = g]

LEMMA NewKeeps ==
    ASSUME GenInv, NEW sl \in Slots, NEW g \in Gens, NewGeneration(sl, g)
    PROVE  GenInv' /\ gstate[g] = "none"
<1>1. gstate[g] = "none" /\ \A h \in Gens : gstate[h] # "none" => h # g
  BY ConstantFacts DEF GenInv, GenType, GenShape, NewGeneration
<1>0. g # NoGen
  BY ConstantFacts
<1>2. \A t \in Slots : current[t] # g /\ next[t] # g
  BY <1>0, <1>1 DEF GenInv, SlotShape, Live
<1>3. GenType'
  <2>1. genCounter' \in 0..Cardinality(Scopes)
    BY ConstantFacts DEF NewGeneration
  <2> QED BY <2>1 DEF GenInv, GenType, NewGeneration, GenStates
<1>4. GenShape'
  <2> SUFFICES ASSUME NEW h \in Gens
               PROVE  /\ gstate'[h] # "none" <=> h <= genCounter'
                      /\ gstate'[h] # "none" => gslot'[h] \in Slots
                      /\ gstate'[h] \notin {"none", "CLOSED"} => h \in {current'[gslot'[h]], next'[gslot'[h]]}
    BY DEF GenShape
  <2>1. CASE h = g
    BY <2>1, ConstantFacts DEF GenInv, GenType, NewGeneration, GenStates
  <2>2. CASE h # g
    <3>1. gstate'[h] = gstate[h] /\ gslot'[h] = gslot[h]
      BY <2>2 DEF GenInv, GenType, NewGeneration, GenStates
    <3>2. gstate'[h] # "none" <=> h <= genCounter'
      BY <3>1, <2>2, ConstantFacts DEF GenInv, GenType, GenShape, NewGeneration
    <3>3. ASSUME gstate[h] \notin {"none", "CLOSED"} PROVE h \in {current'[gslot[h]], next'[gslot[h]]}
      <4>1. gslot[h] \in Slots /\ h \in {current[gslot[h]], next[gslot[h]]} /\ h # NoGen
        BY <3>3, ConstantFacts DEF GenInv, GenShape
      <4> QED BY <4>1 DEF GenInv, GenType, NewGeneration, GenStates, SlotShape
    <3> QED BY <3>1, <3>2, <3>3 DEF GenInv, GenShape
  <2> QED BY <2>1, <2>2
<1>5. SlotShape'
  <2> SUFFICES ASSUME NEW t \in Slots
               PROVE  /\ current'[t] # NoGen => /\ gslot'[current'[t]] = t
                                                /\ gstate'[current'[t]] \in Live \cup {"SEALING"}
                      /\ next'[t] # NoGen => /\ current'[t] \notin {NoGen, next'[t]}
                                             /\ gslot'[next'[t]] = t
                                             /\ gstate'[next'[t]] \in {"QUEUED", "RETURNED"}
    BY DEF SlotShape
  <2>1. CASE t = sl
    BY <2>1, <1>2, ConstantFacts DEF GenInv, GenType, SlotShape, NewGeneration, Live
  <2>2. CASE t # sl
    <3>1. current'[t] = current[t] /\ next'[t] = next[t]
      BY <2>2 DEF GenInv, GenType, NewGeneration, GenStates
    <3> QED BY <3>1, <1>2, ConstantFacts DEF GenInv, GenType, SlotShape, NewGeneration, Live
  <2> QED BY <2>1, <2>2
<1> QED BY <1>1, <1>3, <1>4, <1>5 DEF GenInv

-----------------------------------------------------------------------------
(* Settings and escape slots                                               *)

\* Before the settings are frozen no scope has been opened.
LEMMA UnfrozenIsUnused ==
    ASSUME IInv, ~frozen
    PROVE  /\ \A s \in Scopes : pc[s] = "new"
           /\ \A g \in Gens : gstate[g] = "none"
<1>1. \A s \in Scopes : pc[s] = "new"
  BY DEF IInv, PoolInv, SettingsFrozen
<1>2. PlacedScopes = {}
  BY <1>1 DEF PlacedScopes, Placed
<1>3. genCounter <= 0
  BY <1>2, FS_EmptySet DEF IInv, PoolInv, GensCounted
<1> QED BY <1>1, <1>3, ConstantFacts DEF IInv, PoolInv, GenShape, TypeOK

\* What set_carrier_loop_count makes of the lanes: old ones and fresh ones.
LEMMA LanesSet ==
    ASSUME IInv, NEW n \in 1..MaxLanes, SetCarrierLoopCount(n)
    PROVE  /\ LaneType'
           /\ slotCounter' >= slotCounter
           /\ \A i \in 1..Len(lanes') : lanes'[i] <= slotCounter' /\ lanes'[i] \notin escapes
<1> DEFINE extra == n - Len(lanes)
           fresh == [i \in 1..extra |-> slotCounter + i]
<1>0. /\ lanes \in Seq(Slots) /\ Len(lanes) \in 1..MaxLanes /\ n \in Nat /\ n > 0
      /\ slotCounter \in Nat /\ slotCounter \in Slots /\ cursor \in Nat /\ MaxSlots \in Nat
      /\ \A i \in 1..Len(lanes) : lanes[i] \in Slots /\ lanes[i] <= slotCounter /\ lanes[i] \notin escapes
      /\ \A sl \in escapes : sl \in Nat /\ sl <= slotCounter
  <2>1. TypeOK /\ SlotsFresh
    BY DEF IInv, PoolInv
  <2>2. lanes \in Seq(Slots) /\ Len(lanes) \in 1..MaxLanes /\ cursor \in 0..(Len(lanes) - 1)
    BY <2>1 DEF TypeOK
  <2>3. n \in Nat /\ n > 0 /\ cursor \in Nat /\ MaxSlots \in Nat
    BY <2>2, ConstantFacts
  <2> QED BY <2>1, <2>2, <2>3, SlotNumbers
<1>1. /\ cursor' = cursor % n /\ slotCounter + extra <= MaxSlots
      /\ IF extra > 0 THEN lanes' = lanes \o fresh /\ slotCounter' = slotCounter + extra
         ELSE lanes' = SubSeq(lanes, 1, n) /\ slotCounter' = slotCounter
      /\ UNCHANGED <<frozen, escapes>>
  <2>1. slotCounter + extra = slotCounter + n - Len(lanes)
    BY <1>0
  <2> QED BY <2>1 DEF SetCarrierLoopCount
<1>2. /\ lanes' \in Seq(Slots) /\ Len(lanes') = n /\ slotCounter' \in Slots /\ slotCounter' >= slotCounter
      /\ \A i \in 1..n : lanes'[i] <= slotCounter' /\ lanes'[i] \notin escapes
  <2>1. CASE extra > 0
    <3>1. fresh \in Seq(Slots) /\ Len(fresh) = extra /\ \A i \in 1..extra : fresh[i] = slotCounter + i
      BY <2>1, <1>0, <1>1, ConstantFacts
    <3> HIDE DEF fresh
    <3>2. /\ lanes \o fresh \in Seq(Slots) /\ Len(lanes \o fresh) = Len(lanes) + Len(fresh)
          /\ \A i \in 1..(Len(lanes) + Len(fresh)) :
                (lanes \o fresh)[i] = IF i <= Len(lanes) THEN lanes[i] ELSE fresh[i - Len(lanes)]
      BY <3>1, <1>0, ConcatProperties
    <3>3. Len(lanes) + Len(fresh) = n /\ slotCounter' = slotCounter + extra /\ lanes' = lanes \o fresh
      BY <3>1, <2>1, <1>0, <1>1
    <3>4. ASSUME NEW i \in 1..n PROVE lanes'[i] <= slotCounter' /\ lanes'[i] \notin escapes
      <4>1. CASE i <= Len(lanes)
        <5>1. i \in 1..Len(lanes) /\ lanes'[i] = lanes[i]
          BY <4>1, <3>2, <3>3, <1>0
        <5>2. lanes[i] \in Nat /\ lanes[i] <= slotCounter /\ lanes[i] \notin escapes
          BY <5>1, <1>0, ConstantFacts
        <5> QED BY <5>1, <5>2, <3>3, <1>0, <2>1
      <4>2. CASE ~(i <= Len(lanes))
        <5>1. i - Len(lanes) \in 1..extra
          BY <4>2, <1>0
        <5>2. lanes'[i] = slotCounter + (i - Len(lanes))
          BY <4>2, <5>1, <3>1, <3>2, <3>3
        <5> QED BY <5>1, <5>2, <3>3, <1>0
      <4> QED BY <4>1, <4>2
    <3>5. slotCounter' \in Slots
      BY <3>3, <2>1, <1>0, <1>1, ConstantFacts
    <3> QED BY <3>2, <3>3, <3>4, <3>5, <2>1, <1>0
  <2>2. CASE ~(extra > 0)
    <3>1. 1 \in 1..(Len(lanes) + 1) /\ n \in 0..Len(lanes) /\ \A i \in 1..n : lanes[i] \in Slots
      BY <2>2, <1>0
    <3>2. /\ SubSeq(lanes, 1, n) \in Seq(Slots) /\ Len(SubSeq(lanes, 1, n)) = n
          /\ \A i \in 1..n : SubSeq(lanes, 1, n)[i] = lanes[i]
      BY <3>1, <1>0
    <3>3. lanes' = SubSeq(lanes, 1, n) /\ slotCounter' = slotCounter
      BY <2>2, <1>1
    <3>4. \A i \in 1..n : i \in 1..Len(lanes)
      BY <3>1, <1>0
    <3> QED BY <3>2, <3>3, <3>4, <1>0
  <2> QED BY <2>1, <2>2
<1>3. cursor' \in 0..(n - 1)
  BY <1>0, <1>1
<1> QED BY <1>1, <1>2, <1>3 DEF LaneType, IInv, PoolInv, TypeOK

LEMMA SetKeeps ==
    ASSUME IInv, NEW n \in 1..MaxLanes, SetCarrierLoopCount(n)
    PROVE  IInv'
<1>0. /\ ~frozen /\ UNCHANGED <<frozen, escapes, genVars, bornVars, pc, target, lease, blocked>>
  BY DEF SetCarrierLoopCount, MaySet
<1>1. /\ \A s \in Scopes : pc[s] = "new"
      /\ \A g \in Gens : gstate[g] = "none"
  BY <1>0, UnfrozenIsUnused
<1>2. TypeOK'
  <2>1. LaneType'
    BY LanesSet
  <2>2. GenType' /\ ScopeType'
    BY <1>0 DEF IInv, PoolInv, TypeOK, GenType, ScopeType, genVars, bornVars
  <2> QED BY <2>1, <2>2 DEF TypeOK, LaneType, GenType, ScopeType
<1>3. GensCounted' /\ GenShape' /\ SlotShape' /\ SettingsFrozen' /\ LeaseShape'
  BY <1>0 DEF IInv, PoolInv, GensCounted, PlacedScopes, GenShape, SlotShape, SettingsFrozen,
              LeaseShape, Accepts, genVars
<1>4. SlotsFresh'
  <2>1. slotCounter \in Nat /\ slotCounter' \in Nat /\ slotCounter' >= slotCounter
    <3>1. LaneType' /\ slotCounter' >= slotCounter
      BY LanesSet
    <3>2. slotCounter \in Slots /\ slotCounter' \in Slots
      BY <3>1 DEF IInv, PoolInv, TypeOK, LaneType
    <3> QED BY <3>1, <3>2, ConstantFacts
  <2>2. \A sl \in escapes' : sl \in Nat /\ sl <= slotCounter'
    BY <1>0, <2>1, ConstantFacts DEF IInv, PoolInv, TypeOK, SlotsFresh
  <2>3. \A g \in Gens : gslot'[g] \in Nat /\ gslot'[g] <= slotCounter'
    <3>1. \A g \in Gens : gslot'[g] \in Slots \cup {NoSlot} /\ gslot'[g] <= slotCounter
      BY <1>0 DEF IInv, PoolInv, TypeOK, SlotsFresh, genVars
    <3> QED BY <3>1, <2>1, ConstantFacts DEF NoSlot
  <2>4. \A s \in Scopes : target'[s] \in Nat /\ target'[s] <= slotCounter'
    BY <1>0, <2>1, ConstantFacts DEF IInv, PoolInv, TypeOK, SlotsFresh, NoSlot
  <2> QED BY <1>0, <2>2, <2>3, <2>4, LanesSet DEF SlotsFresh
<1>5. EscapesPrivate' /\ SelectedKnown' /\ GensKnown'
  BY <1>0, <1>1 DEF EscapesPrivate, SelectedKnown, GensKnown, genVars
<1>6. Lineage' /\ Apart'
  BY <1>0 DEF IInv, Lineage, Apart, HasContext, genVars, bornVars
<1> QED BY <1>2, <1>3, <1>4, <1>5, <1>6 DEF IInv, PoolInv

\* _escape_slot_idle: nothing alive is on the slot, and nobody is on its way.
LEMMA RetireKeeps ==
    ASSUME IInv, NEW sl \in Slots, RetireEscape(sl)
    PROVE  IInv'
<1>0. /\ sl \in escapes /\ escapes' = escapes \ {sl}
      /\ current[sl] = NoGen /\ next[sl] = NoGen /\ (\E g \in Gens : gslot[g] = sl)
      /\ UNCHANGED <<laneVars, genVars, bornVars, pc, target, lease, blocked>>
  BY DEF RetireEscape, BecameIdle
<1>1. \A s \in Scopes : pc[s] = "selected" => target[s] # sl
  BY <1>0 DEF IInv, PoolInv, EscapesPrivate
<1>2. \A g \in Gens : gstate[g] \notin {"none", "CLOSED"} => gslot[g] # sl
  BY <1>0, ConstantFacts DEF IInv, PoolInv, GenShape
<1>3. TypeOK'
  BY <1>0 DEF IInv, PoolInv, TypeOK, laneVars, genVars, bornVars
<1>4. GensCounted' /\ GenShape' /\ SlotShape' /\ SettingsFrozen' /\ LeaseShape'
  BY <1>0 DEF IInv, PoolInv, GensCounted, PlacedScopes, GenShape, SlotShape, SettingsFrozen,
              LeaseShape, Accepts, genVars, laneVars
<1>5. SlotsFresh' /\ EscapesPrivate'
  BY <1>0 DEF IInv, PoolInv, SlotsFresh, EscapesPrivate, genVars, laneVars
<1>6. SelectedKnown' /\ GensKnown'
  BY <1>0, <1>1, <1>2 DEF IInv, PoolInv, SelectedKnown, GensKnown, genVars, laneVars
<1>7. Lineage' /\ Apart'
  BY <1>0 DEF IInv, Lineage, Apart, HasContext, genVars, bornVars
<1> QED BY <1>3, <1>4, <1>5, <1>6, <1>7 DEF IInv, PoolInv

-----------------------------------------------------------------------------
(* Generations                                                             *)

\* A generation that opens or closes changes nothing for the scopes.
LEMMA TurnKeeps ==
    ASSUME IInv, NEW g \in Gens, OpenGeneration(g) \/ CloseGeneration(g)
    PROVE  IInv'
<1>0. UNCHANGED <<laneVars, escapes, genCounter, gslot, bornVars, pc, target, lease, blocked>>
  BY DEF OpenGeneration, CloseGeneration
<1>1. GenInv
  BY TypeParts DEF IInv, PoolInv, GenInv
<1>2. /\ gstate[g] \in {"QUEUED", "RETURNED", "SEALING"}
      /\ \A h \in Gens : h # g => gstate'[h] = gstate[h]
      /\ gstate'[g] \in {"OPEN", "SEALING", "CLOSED"}
      /\ gstate[g] # "SEALING" /\ (\E s \in Scopes : pc[s] \in Holding /\ lease[s] = g) => gstate'[g] = "OPEN"
      /\ GenInv'
  <2>1. CASE OpenGeneration(g)
    BY <1>1, <2>1, OpenKeeps
  <2>2. CASE CloseGeneration(g)
    <3>1. gstate' = [gstate EXCEPT ![g] = "CLOSED"]
      BY <2>2 DEF CloseGeneration
    <3> QED BY <1>1, <2>2, <3>1, CloseKeeps DEF GenInv, GenType
  <2> QED BY <2>1, <2>2
<1>3. \A h \in Gens : /\ gstate'[h] = "none" <=> gstate[h] = "none"
                      /\ gstate[h] = "CLOSED" => gstate'[h] = "CLOSED"
  BY <1>2
<1>4. TypeOK'
  BY <1>0, <1>2 DEF IInv, PoolInv, GenInv, GenType, TypeOK, laneVars, bornVars
<1>5. GensCounted' /\ SettingsFrozen' /\ SlotsFresh' /\ EscapesPrivate' /\ SelectedKnown'
  BY <1>0 DEF IInv, PoolInv, GensCounted, PlacedScopes, SettingsFrozen, SlotsFresh, EscapesPrivate,
              SelectedKnown, laneVars
<1>6. LeaseShape' /\ GensKnown'
  <2>1. GensKnown'
    BY <1>0, <1>3 DEF IInv, PoolInv, GensKnown, laneVars
  <2>2. ASSUME NEW s \in Scopes
        PROVE  /\ pc[s] \in Placed => lease[s] \in Gens /\ gstate'[lease[s]] # "none"
               /\ pc[s] \in Holding => gstate'[lease[s]] \in Live
               /\ pc[s] \in Accepted => gstate'[lease[s]] \in {"QUEUED", "OPEN"}
    <3>1. /\ pc[s] \in Placed => lease[s] \in Gens /\ gstate[lease[s]] # "none"
          /\ pc[s] \in Holding => pc[s] \in Placed /\ gstate[lease[s]] \in Live
          /\ pc[s] \in Accepted => pc[s] \in Holding /\ gstate[lease[s]] \in {"QUEUED", "OPEN"}
      BY DEF IInv, PoolInv, LeaseShape, Accepts, Accepted, Placed, Holding
    <3>2. CASE lease[s] # g
      BY <1>2, <3>1, <3>2
    <3>3. CASE lease[s] = g
      BY <1>2, <3>1, <3>3 DEF Live
    <3> QED BY <3>2, <3>3
  <2> QED BY <1>0, <2>1, <2>2 DEF LeaseShape, Accepts
<1>7. upstream \in [Scopes -> SUBSET Gens]
  BY DEF IInv, PoolInv, TypeOK
<1>8. Lineage'
  BY <1>0, <1>3, <1>7 DEF IInv, Lineage, HasContext, bornVars
<1>9. Apart'
  BY <1>0, <1>3, <1>7 DEF IInv, Apart, bornVars
<1> QED BY <1>2, <1>4, <1>5, <1>6, <1>8, <1>9 DEF IInv, PoolInv, GenInv

-----------------------------------------------------------------------------
(* Scopes: opening and running                                             *)

\* Nobody was opened by a scope that has not run.
LEMMA OpenersRan ==
    ASSUME IInv, NEW s \in Scopes, pc[s] \notin {"running", "done"}
    PROVE  \A t \in Scopes : HasContext(t) => opener[t] \in Scopes \ {s}
BY DEF IInv, PoolInv, TypeOK, Lineage, HasContext

LEMMA BornKeeps ==
    ASSUME IInv, NEW s \in Scopes, NEW p \in Scopes \cup {NoScope},
           NEW w \in {"thread", "loop", "worker"}, NEW k \in Kinds, Born(s, p, w, k), frozen' = TRUE,
           UNCHANGED <<lanes, slotCounter, cursor, escapes, genVars, target, lease, blocked>>
    PROVE  IInv'
<1>0. /\ TypeOK /\ pc[s] = "new" /\ pc' = [pc EXCEPT ![s] = "choosing"]
      /\ opener' = [opener EXCEPT ![s] = p] /\ where' = [where EXCEPT ![s] = w]
      /\ kind' = [kind EXCEPT ![s] = k]
      /\ upstream' = [upstream EXCEPT ![s] = WaitsUpstream(p, w, k)]
      /\ viaShared' = [viaShared EXCEPT ![s] = k = "shared" \/ (p # NoScope /\ viaShared[p])]
      /\ p # NoScope => pc[p] = "running"
  BY DEF IInv, PoolInv, Born, OpenedBy
<1>1. \A t \in Scopes : t # s =>
         /\ pc'[t] = pc[t] /\ opener'[t] = opener[t] /\ where'[t] = where[t] /\ kind'[t] = kind[t]
         /\ upstream'[t] = upstream[t] /\ viaShared'[t] = viaShared[t]
  BY <1>0 DEF TypeOK
<1>2. /\ pc'[s] = "choosing" /\ opener'[s] = p /\ where'[s] = w /\ kind'[s] = k
      /\ upstream'[s] = WaitsUpstream(p, w, k)
      /\ viaShared'[s] = (k = "shared" \/ (p # NoScope /\ viaShared[p]))
  BY <1>0 DEF TypeOK
<1>3. p # NoScope => p \in Scopes \ {s} /\ lease[p] \in Gens /\ gstate[lease[p]] # "none"
  BY <1>0 DEF IInv, PoolInv, LeaseShape, Placed
<1>4. WaitsUpstream(p, w, k) \subseteq Gens /\ \A g \in WaitsUpstream(p, w, k) : gstate[g] # "none"
  BY <1>0, <1>3 DEF IInv, Lineage, TypeOK, WaitsUpstream
<1>5. TypeOK'
  <2>1. LaneType'
    BY <1>0 DEF TypeOK, LaneType
  <2>2. GenType'
    BY <1>0 DEF TypeOK, GenType, genVars
  <2>3. viaShared' \in [Scopes -> BOOLEAN]
    BY <1>0, Zenon DEF TypeOK
  <2>4. ScopeType'
    BY <1>0, <1>4, <2>3 DEF TypeOK, ScopeType, Stages
  <2> QED BY <2>1, <2>2, <2>4 DEF TypeOK, LaneType, GenType, ScopeType
<1>6. GensCounted'
  <2>1. PlacedScopes' = PlacedScopes
    BY <1>0, <1>1, <1>2 DEF PlacedScopes, Placed
  <2> QED BY <2>1 DEF IInv, PoolInv, GensCounted, genVars
<1>7. GenShape' /\ SlotShape' /\ SlotsFresh' /\ GensKnown' /\ SettingsFrozen'
  BY DEF IInv, PoolInv, GenShape, SlotShape, SlotsFresh, GensKnown, SettingsFrozen, genVars
<1>8. EscapesPrivate' /\ SelectedKnown' /\ LeaseShape'
  BY <1>1, <1>2 DEF IInv, PoolInv, EscapesPrivate, SelectedKnown, LeaseShape, Accepts, genVars,
                    Placed, Holding, Accepted
<1>9. Lineage'
  <2> SUFFICES ASSUME NEW t \in Scopes
               PROVE  /\ \A g \in upstream'[t] : gstate'[g] # "none"
                      /\ opener'[t] # NoScope =>
                            /\ pc'[opener'[t]] \in {"running", "done"}
                            /\ viaShared'[opener'[t]] => viaShared'[t]
                            /\ upstream'[t] \subseteq upstream'[opener'[t]]
                                  \cup (IF where'[t] = "loop" THEN {lease'[opener'[t]]} ELSE {})
                      /\ kind'[t] = "shared" => viaShared'[t]
                      /\ kind'[t] = "stage" \/ opener'[t] = NoScope => upstream'[t] = {}
    BY DEF Lineage, HasContext
  <2>1. CASE t = s
    <3>1. p # NoScope => /\ pc'[p] = pc[p] /\ viaShared'[p] = viaShared[p]
                         /\ upstream'[p] = upstream[p] /\ lease'[p] = lease[p]
      BY <1>1, <1>3
    <3>2. \A g \in upstream'[t] : gstate'[g] # "none"
      BY <2>1, <1>2, <1>4 DEF genVars
    <3>3. (p # NoScope /\ viaShared[p] => viaShared'[s]) /\ (k = "shared" => viaShared'[s])
      BY <1>2, Zenon
    <3>4. p # NoScope => upstream'[s] \subseteq upstream[p] \cup (IF w = "loop" THEN {lease[p]} ELSE {})
      BY <1>2 DEF WaitsUpstream
    <3>5. k = "stage" \/ p = NoScope => upstream'[s] = {}
      BY <1>2 DEF WaitsUpstream
    <3> QED BY <2>1, <3>1, <3>2, <3>3, <3>4, <3>5, <1>0, <1>2
  <2>2. CASE t # s
    <3>1. opener[t] # NoScope => opener[t] \in Scopes \ {s}
      BY <1>0, OpenersRan DEF HasContext
    <3> QED BY <2>2, <3>1, <1>1 DEF IInv, Lineage, HasContext, genVars
  <2> QED BY <2>1, <2>2
<1>10. Apart'
  BY <1>1, <1>2 DEF IInv, Apart, genVars, Placed
<1> QED BY <1>5, <1>6, <1>7, <1>8, <1>9, <1>10 DEF IInv, PoolInv

\* A body that starts or ends keeps its lease on record.
LEMMA BodyMoves ==
    ASSUME IInv, NEW s \in Scopes, pc[s] \in Holding, NEW st \in {"submitted", "running", "done"},
           st = "submitted" => pc[s] = "leased",
           pc' = [pc EXCEPT ![s] = st], GenInv', LeaseShape',
           \A h \in Gens : /\ gstate'[h] = "none" <=> gstate[h] = "none"
                           /\ gstate'[h] = "CLOSED" <=> gstate[h] = "CLOSED",
           UNCHANGED <<laneVars, escapes, genCounter, gslot, bornVars, target, lease, blocked>>
    PROVE  IInv'
<1>0. TypeOK /\ pc \in [Scopes -> Stages] /\ upstream \in [Scopes -> SUBSET Gens]
  BY DEF IInv, PoolInv, TypeOK
<1>1. /\ pc'[s] = st /\ \A t \in Scopes : t # s => pc'[t] = pc[t]
  BY <1>0
<1>2. TypeOK'
  BY <1>0 DEF TypeOK, GenInv, GenType, Stages, laneVars, bornVars
<1>3. GensCounted'
  <2>1. PlacedScopes' = PlacedScopes
    BY <1>1 DEF PlacedScopes, Placed, Holding, Accepted
  <2> QED BY <2>1 DEF IInv, PoolInv, GensCounted
<1>4. SlotsFresh' /\ GensKnown' /\ SettingsFrozen' /\ EscapesPrivate' /\ SelectedKnown'
  BY <1>1 DEF IInv, PoolInv, SlotsFresh, GensKnown, SettingsFrozen, EscapesPrivate, SelectedKnown,
              laneVars, Holding, Accepted
<1>5. Lineage'
  BY <1>0, <1>1 DEF IInv, Lineage, HasContext, bornVars
<1>6. Apart'
  BY <1>0, <1>1 DEF IInv, Apart, bornVars, Placed, Holding, Accepted
<1> QED BY <1>2, <1>3, <1>4, <1>5, <1>6 DEF IInv, PoolInv, GenInv

LEMMA BodyKeeps ==
    ASSUME IInv, NEW s \in Scopes, Runs(s) \/ TryLease(s) \/ CancelBody(s)
    PROVE  IInv'
<1>0. /\ pc[s] \in Holding /\ lease[s] \in Gens /\ gstate[lease[s]] \in Live /\ GenInv
      /\ UNCHANGED <<laneVars, escapes, genCounter, gslot, current, next, bornVars, target, lease, blocked>>
  <2>1. pc[s] \in Holding
    BY DEF Runs, Submit, SubmitRefused, TryLease, StartBody, EndBody, CancelBody, Holding, Accepted
  <2>2. lease[s] \in Gens /\ gstate[lease[s]] \in Live /\ GenInv
    BY <2>1, TypeParts DEF IInv, PoolInv, LeaseShape, GenInv, Placed, Holding, Accepted
  <2> QED BY <2>1, <2>2 DEF Runs, Submit, SubmitRefused, TryLease, StartBody, EndBody, CancelBody,
                            LeaseReturned, genVars
<1>1. CASE Submit(s) \/ StartBody(s)
  <2>1. PICK st \in {"submitted", "running"} :
           /\ pc' = [pc EXCEPT ![s] = st] /\ UNCHANGED gstate /\ Accepts(lease[s])
           /\ st = "submitted" => pc[s] = "leased"
    BY <1>1 DEF Submit, StartBody, HasTurn, Accepts, genVars
  <2>2. GenInv'
    BY <1>0, <2>1 DEF GenInv, GenType, GenShape, SlotShape
  <2>3. LeaseShape'
    BY <1>0, <2>1 DEF IInv, PoolInv, TypeOK, LeaseShape, Accepts, Placed, Holding, Accepted
  <2> QED BY <1>0, <2>1, <2>2, <2>3, BodyMoves
<1>2. CASE LeaseReturned(s)
  <2>1. pc' = [pc EXCEPT ![s] = "done"] /\ ReleaseLease(s)
    BY <1>2 DEF LeaseReturned
  <2>2. /\ GenInv'
        /\ \A h \in Gens : h # lease[s] => gstate'[h] = gstate[h]
        /\ gstate'[lease[s]] \in Live \cup {"SEALING"}
        /\ (\E t \in Scopes \ {s} : pc[t] \in Holding /\ lease[t] = lease[s])
              => gstate'[lease[s]] = gstate[lease[s]]
    BY <1>0, <2>1, ReleaseKeeps
  <2>3. LeaseShape'
    <3> SUFFICES ASSUME NEW t \in Scopes
                 PROVE  /\ pc'[t] \in Placed => lease'[t] \in Gens /\ gstate'[lease'[t]] # "none"
                        /\ pc'[t] \in Holding => gstate'[lease'[t]] \in Live
                        /\ pc'[t] \in Accepted => gstate'[lease'[t]] \in {"QUEUED", "OPEN"}
      BY DEF LeaseShape, Accepts
    <3>1. lease'[t] = lease[t] /\ (t # s => pc'[t] = pc[t]) /\ pc'[s] = "done"
      BY <1>0, <2>1 DEF IInv, PoolInv, TypeOK
    <3>2. CASE t = s
      BY <1>0, <2>2, <3>1, <3>2 DEF Holding, Accepted, Live
    <3>3. CASE t # s
      <4>1. /\ pc[t] \in Placed => lease[t] \in Gens /\ gstate[lease[t]] # "none"
            /\ pc[t] \in Holding => pc[t] \in Placed /\ gstate[lease[t]] \in Live
            /\ pc[t] \in Accepted => pc[t] \in Holding /\ gstate[lease[t]] \in {"QUEUED", "OPEN"}
        BY DEF IInv, PoolInv, LeaseShape, Accepts, Placed, Holding, Accepted
      <4>2. CASE lease[t] = lease[s]
        BY <4>1, <4>2, <2>2, <3>1, <3>3, <1>0 DEF Live
      <4>3. CASE lease[t] # lease[s]
        BY <4>1, <4>3, <2>2, <3>1, <3>3
      <4> QED BY <4>2, <4>3
    <3> QED BY <3>2, <3>3
  <2>4. \A h \in Gens : /\ gstate'[h] = "none" <=> gstate[h] = "none"
                        /\ gstate'[h] = "CLOSED" <=> gstate[h] = "CLOSED"
    BY <1>0, <2>2 DEF Live
  <2> QED BY <1>0, <2>1, <2>2, <2>3, <2>4, BodyMoves
<1> QED BY <1>1, <1>2 DEF Runs, SubmitRefused, TryLease, EndBody, CancelBody

-----------------------------------------------------------------------------
(* Scopes: placement                                                       *)

\* The opener of a scope has a lease; what it was told to avoid are generations.
LEMMA ContextFacts ==
    ASSUME IInv, NEW s \in Scopes
    PROVE  /\ HasContext(s) => /\ opener[s] \in Scopes /\ ContextGen(s) \in Gens
                               /\ gstate[ContextGen(s)] # "none"
           /\ ContextBlocked(s) \subseteq Gens
<1>1. HasContext(s) => opener[s] \in Scopes /\ pc[opener[s]] \in Placed
  BY DEF IInv, PoolInv, TypeOK, Lineage, HasContext, Placed
<1>2. HasContext(s) => blocked[opener[s]] \subseteq Gens
  BY <1>1 DEF IInv, PoolInv, TypeOK
<1> QED BY <1>1, <1>2 DEF IInv, PoolInv, LeaseShape, ContextGen, ContextBlocked

\* What waits for a scope is what its opener avoids, and the opener's own loop.
LEMMA UpstreamIsAvoided ==
    ASSUME IInv, NEW s \in Scopes, ~viaShared[s], NEW g \in upstream[s]
    PROVE  /\ HasContext(s) /\ kind[s] = "with"
           /\ g \in Gens /\ gstate[g] # "none"
           /\ g \in ContextBlocked(s) \/ (where[s] = "loop" /\ g = ContextGen(s))
<1>1. HasContext(s) /\ kind[s] # "stage" /\ kind[s] # "shared" /\ gstate[g] # "none"
  BY DEF IInv, Lineage
<1>2. kind[s] = "with" /\ g \in Gens
  BY <1>1 DEF IInv, PoolInv, TypeOK, Kinds
<1>3. /\ opener[s] \in Scopes /\ pc[opener[s]] \in Placed /\ ~viaShared[opener[s]]
      /\ g \in upstream[opener[s]] \/ (where[s] = "loop" /\ g = lease[opener[s]])
  BY <1>1 DEF IInv, PoolInv, TypeOK, Lineage, HasContext, Placed
<1>4. upstream[opener[s]] \subseteq blocked[opener[s]]
  BY <1>3 DEF IInv, Apart
<1> QED BY <1>1, <1>2, <1>3, <1>4 DEF ContextBlocked, ContextGen

\* blocked_generation_ids_for_submission hands all of it on.
LEMMA BlockedCovers ==
    ASSUME IInv, NEW s \in Scopes, NEW g \in Gens
    PROVE  /\ BlockedFor(s, g) \in SUBSET Gens
           /\ ~viaShared[s] /\ g \notin upstream[s] => upstream[s] \subseteq BlockedFor(s, g)
<1>1. BlockedFor(s, g) \in SUBSET Gens
  BY ContextFacts DEF BlockedFor
<1>2. ASSUME ~viaShared[s], g \notin upstream[s], NEW h \in upstream[s] PROVE h \in BlockedFor(s, g)
  <2>1. /\ HasContext(s) /\ kind[s] = "with"
        /\ h \in ContextBlocked(s) \/ h = ContextGen(s)
    BY <1>2, UpstreamIsAvoided
  <2>2. h # g
    BY <1>2
  <2> QED BY <2>1, <2>2 DEF BlockedFor
<1> QED BY <1>1, <1>2

\* A lane that passes the selector's tests holds nothing that waits for s.
LEMMA CandidateIsApart ==
    ASSUME IInv, NEW s \in Scopes, ~viaShared[s], NEW i \in 1..Len(lanes), Candidate(s, i),
           NEW g \in upstream[s], gslot[g] = lanes[i]
    PROVE  gstate[g] = "CLOSED"
<1>1. lanes[i] \in Slots
  BY ElementOfSeq DEF IInv, PoolInv, TypeOK
<1>2. /\ HasContext(s) /\ kind[s] = "with" /\ g \in Gens /\ gstate[g] # "none" /\ g # NoGen
      /\ g \in ContextBlocked(s) \/ (where[s] = "loop" /\ g = ContextGen(s))
  BY UpstreamIsAvoided, ConstantFacts
<1>3. CASE g \notin {current[lanes[i]], next[lanes[i]]}
  BY <1>1, <1>2, <1>3, OwnedBySlot DEF IInv, PoolInv
<1>4. CASE g \in {current[lanes[i]], next[lanes[i]]}
  <2>1. CASE g \in ContextBlocked(s)
    BY <1>4, <2>1 DEF Candidate, OwnsAny
  <2>2. CASE where[s] = "loop" /\ g = ContextGen(s)
    BY <1>2, <1>4, <2>2 DEF Candidate, OwnsLoop, RunningLoop
  <2> QED BY <1>2, <2>1, <2>2
<1> QED BY <1>3, <1>4

LEMMA SelectKeeps ==
    ASSUME IInv, NEW s \in Scopes, SelectSlot(s)
    PROVE  IInv'
<1>0. /\ TypeOK /\ pc[s] = "choosing" /\ pc' = [pc EXCEPT ![s] = "selected"]
      /\ UNCHANGED <<lanes, frozen, genVars, bornVars, lease, blocked>>
      /\ lanes \in Seq(Slots) /\ Len(lanes) \in Nat /\ Len(lanes) > 0 /\ slotCounter \in Nat
      /\ slotCounter \in Slots
      /\ \A i \in 1..Len(lanes) : lanes[i] \in Slots /\ lanes[i] \in Nat
  <2>1. /\ TypeOK /\ pc[s] = "choosing" /\ pc' = [pc EXCEPT ![s] = "selected"]
        /\ UNCHANGED <<lanes, frozen, genVars, bornVars, lease, blocked>>
    BY DEF IInv, PoolInv, SelectSlot, Unbound
  <2>2. /\ lanes \in Seq(Slots) /\ Len(lanes) \in 1..MaxLanes /\ slotCounter \in Slots
        /\ \A i \in 1..Len(lanes) : lanes[i] \in Slots
    BY <2>1, ElementOfSeq DEF TypeOK
  <2> QED BY <2>1, <2>2, ConstantFacts
<1> DEFINE sl == target'[s]
<1>1. /\ target' = [target EXCEPT ![s] = sl] /\ sl \in Slots /\ sl \in Nat /\ sl <= slotCounter'
      /\ slotCounter' \in Slots /\ slotCounter' \in Nat /\ slotCounter' >= slotCounter
      /\ cursor' \in 0..(Len(lanes) - 1)
      /\ escapes' \subseteq Slots
      /\ \/ escapes' = escapes /\ \E i \in 1..Len(lanes) : lanes[i] = sl
         \/ escapes' = escapes \cup {sl} /\ sl > slotCounter
      /\ ~viaShared[s] => \A g \in upstream[s] : gslot[g] = sl => gstate[g] = "CLOSED"
  <2> DEFINE cands == {i \in DOMAIN lanes : Candidate(s, i)}
  <2>1. CASE cands # {}
    <3>1. PICK i \in cands : /\ target' = [target EXCEPT ![s] = lanes[i]]
                             /\ cursor' = i % Len(lanes)
                             /\ UNCHANGED <<slotCounter, escapes>>
      BY <2>1 DEF SelectSlot
    <3>2. i \in 1..Len(lanes) /\ Candidate(s, i)
      BY <1>0
    <3>3. target'[s] = lanes[i]
      BY <3>1, <1>0 DEF TypeOK
    <3>4. cursor' \in 0..(Len(lanes) - 1)
      BY <3>1, <3>2, <1>0
    <3>5. ~viaShared[s] => \A g \in upstream[s] : gslot[g] = lanes[i] => gstate[g] = "CLOSED"
      BY <3>2, CandidateIsApart
    <3>6. lanes[i] <= slotCounter /\ escapes \subseteq Slots
      BY <3>2, <1>0 DEF IInv, PoolInv, SlotsFresh, TypeOK
    <3>7. target' = [target EXCEPT ![s] = target'[s]] /\ \E j \in 1..Len(lanes) : lanes[j] = target'[s]
      BY <3>1, <3>2, <3>3
    <3>8. /\ target'[s] \in Slots /\ target'[s] \in Nat /\ target'[s] <= slotCounter'
          /\ slotCounter' \in Slots /\ slotCounter' \in Nat /\ slotCounter' >= slotCounter
      BY <3>1, <3>2, <3>3, <3>6, <1>0
    <3> QED BY <3>1, <3>3, <3>4, <3>5, <3>6, <3>7, <3>8
  <2>2. CASE cands = {}
    <3>1. /\ slotCounter < MaxSlots /\ slotCounter' = slotCounter + 1
          /\ escapes' = escapes \cup {slotCounter + 1}
          /\ target' = [target EXCEPT ![s] = slotCounter + 1] /\ cursor' = cursor
      BY <2>2 DEF SelectSlot
    <3>2. target'[s] = slotCounter + 1
      BY <3>1, <1>0 DEF TypeOK
    <3>3. slotCounter + 1 \in Slots /\ slotCounter + 1 > slotCounter
      BY <3>1, <1>0, ConstantFacts
    <3>4. \A g \in Gens : gslot[g] # slotCounter + 1
      <4>1. \A g \in Gens : gslot[g] <= slotCounter /\ gslot[g] \in Nat
        BY SlotNumbers DEF IInv, PoolInv
      <4> QED BY <4>1, <1>0
    <3>5. \A g \in upstream[s] : gslot[g] # slotCounter + 1
      BY <3>4 DEF IInv, PoolInv, TypeOK
    <3> QED BY <3>1, <3>2, <3>3, <3>5, <1>0 DEF TypeOK
  <2> QED BY <2>1, <2>2
<1> HIDE DEF sl
<1>2. /\ pc'[s] = "selected" /\ target'[s] = sl
      /\ \A t \in Scopes : t # s => pc'[t] = pc[t] /\ target'[t] = target[t]
  BY <1>0, <1>1 DEF TypeOK
<1>3. TypeOK'
  <2>1. LaneType'
    BY <1>0, <1>1 DEF TypeOK, LaneType
  <2>2. GenType'
    BY <1>0 DEF TypeOK, GenType, genVars
  <2>3. ScopeType'
    BY <1>0, <1>1 DEF TypeOK, ScopeType, bornVars, Stages
  <2> QED BY <2>1, <2>2, <2>3 DEF TypeOK, LaneType, GenType, ScopeType
<1>4. GensCounted'
  <2>1. PlacedScopes' = PlacedScopes
    BY <1>0, <1>2 DEF PlacedScopes, Placed
  <2> QED BY <1>0, <2>1 DEF IInv, PoolInv, GensCounted, genVars
<1>5. GenShape' /\ SlotShape' /\ SettingsFrozen' /\ LeaseShape' /\ GensKnown'
  <2>1. GenShape' /\ SlotShape'
    BY <1>0 DEF IInv, PoolInv, GenShape, SlotShape, genVars
  <2>2. SettingsFrozen' /\ LeaseShape'
    BY <1>0, <1>2 DEF IInv, PoolInv, SettingsFrozen, LeaseShape, Accepts, genVars, Placed, Holding, Accepted
  <2>3. GensKnown'
    BY <1>0, <1>1 DEF IInv, PoolInv, GensKnown, genVars
  <2> QED BY <2>1, <2>2, <2>3
<1>6. /\ \A e \in escapes : e \in Nat /\ e <= slotCounter
      /\ \A g \in Gens : gslot[g] \in Nat /\ gslot[g] <= slotCounter
      /\ \A t \in Scopes : target[t] \in Nat /\ target[t] <= slotCounter
      /\ \A i \in 1..Len(lanes) : lanes[i] <= slotCounter /\ lanes[i] \notin escapes
  BY SlotNumbers DEF IInv, PoolInv
<1>7. SlotsFresh'
  <2>0. \A x \in Nat : x <= slotCounter => x <= slotCounter'
    BY <1>0, <1>1
  <2>1. \A i \in 1..Len(lanes) : lanes[i] <= slotCounter' /\ lanes[i] \notin escapes'
    <3> TAKE i \in 1..Len(lanes)
    <3>1. lanes[i] \in Nat /\ lanes[i] <= slotCounter /\ lanes[i] \notin escapes
      BY <1>0, <1>6
    <3>2. sl > slotCounter => lanes[i] # sl
      BY <1>0, <1>1, <3>1
    <3> QED BY <2>0, <3>1, <3>2, <1>1
  <2>2. \A e \in escapes' : e <= slotCounter'
    BY <2>0, <1>1, <1>6
  <2>3. \A g \in Gens : gslot[g] <= slotCounter'
    BY <2>0, <1>6
  <2>4. \A t \in Scopes : target'[t] <= slotCounter'
    BY <2>0, <1>1, <1>2, <1>6
  <2> QED BY <1>0, <2>1, <2>2, <2>3, <2>4 DEF SlotsFresh, genVars
<1>8. EscapesPrivate'
  <2> SUFFICES ASSUME NEW t \in Scopes, pc'[t] = "selected", target'[t] \in escapes'
               PROVE  /\ \A g \in Gens : gslot'[g] # target'[t]
                      /\ \A u \in Scopes \ {t} : pc'[u] = "selected" => target'[u] # target'[t]
    BY DEF EscapesPrivate
  <2>1. UNCHANGED gslot
    BY <1>0 DEF genVars
  <2>2. CASE t = s
    <3>1. sl > slotCounter
      BY <2>2, <1>1, <1>2, <1>6
    <3> QED BY <2>1, <2>2, <3>1, <1>0, <1>1, <1>2, <1>6
  <2>3. CASE t # s
    <3>1. target[t] \in escapes /\ target[t] # sl
      BY <2>3, <1>0, <1>1, <1>2, <1>6
    <3> QED BY <2>1, <2>3, <3>1, <1>2 DEF IInv, PoolInv, EscapesPrivate
  <2> QED BY <2>2, <2>3
<1>9. SelectedKnown'
  BY <1>0, <1>1, <1>2 DEF IInv, PoolInv, SelectedKnown
<1>10. Lineage'
  <2>1. \A t \in Scopes : HasContext(t) => opener[t] \in Scopes \ {s}
    BY <1>0, OpenersRan
  <2> QED BY <1>0, <1>2, <2>1 DEF IInv, Lineage, HasContext, genVars, bornVars
<1>11. Apart'
  BY <1>0, <1>1, <1>2 DEF IInv, Apart, genVars, bornVars, Placed
<1> QED BY <1>3, <1>4, <1>5, <1>7, <1>8, <1>9, <1>10, <1>11 DEF IInv, PoolInv

\* Leasing leaves the generations alone, or adds one on the selected slot.
GensGrow(s) ==
    /\ genCounter' \in {genCounter, genCounter + 1}
    /\ \A h \in Gens : \/ gslot'[h] = gslot[h] /\ gstate'[h] = gstate[h]
                       \/ /\ gstate[h] = "none" /\ gstate'[h] = "QUEUED"
                          /\ pc[s] = "selected" /\ gslot'[h] = target[s]

\* A lease on a generation that accepts work and does not wait for the scope.
LEMMA LeaseTaken ==
    ASSUME IInv, NEW s \in Scopes, NEW g \in Gens, NEW B \in SUBSET Gens,
           pc[s] \in {"choosing", "selected"}, pc' = [pc EXCEPT ![s] = "leased"],
           lease' = [lease EXCEPT ![s] = g], blocked' = [blocked EXCEPT ![s] = B],
           UNCHANGED <<laneVars, escapes, bornVars, target>>,
           GenInv', GensGrow(s), gstate'[g] \in Live,
           ~viaShared[s] => upstream[s] \subseteq B /\ g \notin upstream[s]
    PROVE  IInv'
<1>0. /\ TypeOK /\ upstream \in [Scopes -> SUBSET Gens] /\ genCounter \in Nat
      /\ gstate \in [Gens -> GenStates]
  <2>1. TypeOK /\ genCounter \in 0..Cardinality(Scopes)
    BY DEF IInv, PoolInv, TypeOK
  <2>2. genCounter \in Nat
    BY <2>1, ConstantFacts
  <2> QED BY <2>1, <2>2 DEF TypeOK
<1>1. /\ pc'[s] = "leased" /\ lease'[s] = g /\ blocked'[s] = B
      /\ \A t \in Scopes : t # s => pc'[t] = pc[t] /\ lease'[t] = lease[t] /\ blocked'[t] = blocked[t]
  BY <1>0 DEF TypeOK
<1>2. \A h \in Gens : gstate[h] # "none" => gslot'[h] = gslot[h] /\ gstate'[h] = gstate[h]
  BY DEF GensGrow
<1>3. TypeOK'
  <2>1. LaneType'
    BY <1>0 DEF TypeOK, LaneType, laneVars
  <2>2. ScopeType'
    BY <1>0 DEF TypeOK, ScopeType, bornVars, Stages
  <2> QED BY <2>1, <2>2 DEF GenInv, TypeOK, LaneType, GenType, ScopeType
<1>4. GensCounted'
  <2>1. PlacedScopes' = PlacedScopes \cup {s}
    BY <1>1 DEF PlacedScopes, Placed
  <2>2. /\ Cardinality(PlacedScopes) \in Nat
        /\ Cardinality(PlacedScopes \cup {s}) = Cardinality(PlacedScopes) + 1
    BY RoomForOne DEF Placed
  <2>3. genCounter <= Cardinality(PlacedScopes)
    BY DEF IInv, PoolInv, GensCounted
  <2>4. genCounter' <= Cardinality(PlacedScopes) + 1
    BY <1>0, <2>2, <2>3 DEF GensGrow
  <2> QED BY <2>1, <2>2, <2>4 DEF GensCounted
<1>5. SlotsFresh'
  <2>1. \A h \in Gens : gslot'[h] <= slotCounter
    BY DEF GensGrow, IInv, PoolInv, SlotsFresh
  <2> QED BY <2>1 DEF IInv, PoolInv, SlotsFresh, laneVars
<1>6. EscapesPrivate'
  <2> SUFFICES ASSUME NEW t \in Scopes, pc'[t] = "selected", target[t] \in escapes
               PROVE  /\ \A h \in Gens : gslot'[h] # target[t]
                      /\ \A u \in Scopes \ {t} : pc'[u] = "selected" => target[u] # target[t]
    BY DEF EscapesPrivate
  <2>1. t # s /\ pc[t] = "selected"
    BY <1>1
  <2>2. /\ \A h \in Gens : gslot[h] # target[t]
        /\ \A u \in Scopes \ {t} : pc[u] = "selected" => target[u] # target[t]
    BY <2>1 DEF IInv, PoolInv, EscapesPrivate
  <2> QED BY <1>1, <2>1, <2>2 DEF GensGrow
<1>7. SettingsFrozen' /\ SelectedKnown'
  BY <1>1 DEF IInv, PoolInv, SettingsFrozen, SelectedKnown, laneVars
<1>8. LeaseShape'
  <2> SUFFICES ASSUME NEW t \in Scopes
               PROVE  /\ pc'[t] \in Placed => lease'[t] \in Gens /\ gstate'[lease'[t]] # "none"
                      /\ pc'[t] \in Holding => gstate'[lease'[t]] \in Live
                      /\ pc'[t] \in Accepted => gstate'[lease'[t]] \in {"QUEUED", "OPEN"}
    BY DEF LeaseShape, Accepts
  <2>1. CASE t = s
    BY <2>1, <1>1 DEF Live, Accepted
  <2>2. CASE t # s
    <3>1. (pc[t] \in Accepted => pc[t] \in Holding) /\ (pc[t] \in Holding => pc[t] \in Placed)
      BY DEF Holding, Accepted, Placed
    <3> QED BY <2>2, <3>1, <1>1, <1>2 DEF IInv, PoolInv, LeaseShape, Accepts
  <2> QED BY <2>1, <2>2
<1>9. GensKnown'
  BY <1>0 DEF GensGrow, IInv, PoolInv, GensKnown, SelectedKnown, laneVars
<1>10. Lineage'
  <2>1. \A t \in Scopes : HasContext(t) => opener[t] \in Scopes \ {s}
    BY OpenersRan
  <2>2. \A t \in Scopes : \A h \in upstream[t] : h \in Gens /\ gstate[h] # "none"
    BY <1>0 DEF IInv, Lineage
  <2> QED BY <1>1, <1>2, <2>1, <2>2 DEF IInv, Lineage, HasContext, bornVars
<1>11. Apart'
  <2> SUFFICES ASSUME NEW t \in Scopes, ~viaShared[t]
               PROVE  /\ pc'[t] = "selected" => \A h \in upstream[t] : gslot'[h] = target[t] => gstate'[h] = "CLOSED"
                      /\ pc'[t] \in Placed => upstream[t] \subseteq blocked'[t] /\ lease'[t] \notin upstream[t]
    BY DEF Apart, bornVars
  <2>1. CASE t = s
    BY <2>1, <1>1
  <2>2. CASE t # s
    <3>1. \A h \in upstream[t] : gslot'[h] = gslot[h] /\ gstate'[h] = gstate[h]
      BY <1>0, <1>2 DEF IInv, Lineage
    <3> QED BY <2>2, <3>1, <1>1 DEF IInv, Apart
  <2> QED BY <2>1, <2>2
<1> QED BY <1>3, <1>4, <1>5, <1>6, <1>7, <1>8, <1>9, <1>10, <1>11 DEF IInv, PoolInv, GenInv

\* The generations stay as they are.
LEMMA SameGens ==
    ASSUME IInv, UNCHANGED genVars, NEW s \in Scopes
    PROVE  GenInv' /\ GensGrow(s)
<1>1. GenInv'
  BY DEF IInv, PoolInv, TypeOK, GenInv, GenType, GenShape, SlotShape, genVars
<1> QED BY <1>1 DEF GensGrow, genVars

LEMMA JoinKeeps ==
    ASSUME IInv, NEW s \in Scopes, JoinShared(s)
    PROVE  IInv'
<1>1. PICK q \in SharedCalls : /\ lease' = [lease EXCEPT ![s] = lease[q]]
                               /\ blocked' = [blocked EXCEPT ![s] = blocked[q]]
  BY DEF JoinShared
<1>2. lease[q] \in Gens /\ gstate[lease[q]] \in Live /\ blocked[q] \in SUBSET Gens
  BY DEF IInv, PoolInv, TypeOK, LeaseShape, SharedCalls, Placed, Holding, Accepted
<1>3. viaShared[s] /\ pc[s] = "choosing" /\ pc' = [pc EXCEPT ![s] = "leased"]
      /\ UNCHANGED <<laneVars, escapes, genVars, bornVars, target>>
  BY DEF IInv, Lineage, JoinShared
<1>4. gstate' = gstate
  BY <1>3 DEF genVars
<1> QED BY <1>1, <1>2, <1>3, <1>4, SameGens, LeaseTaken

LEMMA InheritKeeps ==
    ASSUME IInv, NEW s \in Scopes, AcquireInherited(s)
    PROVE  IInv'
<1> DEFINE g == ContextGen(s)
<1>1. /\ Inherits(s) /\ pc[s] = "choosing" /\ pc' = [pc EXCEPT ![s] = "leased"]
      /\ lease' = [lease EXCEPT ![s] = g] /\ blocked' = [blocked EXCEPT ![s] = BlockedFor(s, g)]
      /\ UNCHANGED <<laneVars, escapes, genVars, bornVars, target>> /\ gstate' = gstate
  BY DEF AcquireInherited, Unbound, genVars
<1>2. g \in Gens /\ gstate[g] \in Live
  BY <1>1, ContextFacts DEF Inherits, Accepts, Live
<1>3. ~viaShared[s] => g \notin upstream[s]
  <2> SUFFICES ASSUME ~viaShared[s], g \in upstream[s] PROVE FALSE
    OBVIOUS
  <2>1. kind[s] = "with" /\ (g \in ContextBlocked(s) \/ where[s] = "loop")
    BY UpstreamIsAvoided
  <2> QED BY <1>1, <2>1 DEF Inherits, RunningLoop
<1> HIDE DEF g
<1>4. /\ BlockedFor(s, g) \in SUBSET Gens
      /\ ~viaShared[s] => upstream[s] \subseteq BlockedFor(s, g) /\ g \notin upstream[s]
  BY <1>2, <1>3, BlockedCovers
<1>5. GenInv' /\ GensGrow(s)
  BY <1>1, SameGens
<1> QED BY <1>1, <1>2, <1>4, <1>5, LeaseTaken

\* The slot a scope has selected.
LEMMA TargetFacts ==
    ASSUME IInv, NEW s \in Scopes, pc[s] = "selected"
    PROVE  target[s] \in Slots
BY ElementOfSeq DEF IInv, PoolInv, TypeOK, SelectedKnown

LEMMA AcquireOpenKeeps ==
    ASSUME IInv, NEW s \in Scopes, AcquireOpen(s)
    PROVE  IInv'
<1> DEFINE sl == target[s]
<1>1. pc[s] = "selected" /\ sl \in Slots /\ UNCHANGED genVars
  BY TargetFacts DEF AcquireOpen
<1>2. PICK g \in {current[sl], next[sl]} :
         g # NoGen /\ Leased(s, g) /\ ((g = current[sl] /\ Accepts(g)) \/ g = next[sl])
  BY DEF AcquireOpen
<1>3. /\ g \in Gens /\ gslot[g] = sl /\ gstate[g] \in Live
  <2>1. g \in Gens
    BY <1>1, <1>2 DEF IInv, PoolInv, TypeOK
  <2>2. CASE g = current[sl] /\ Accepts(g)
    BY <1>1, <1>2, <2>1, <2>2 DEF IInv, PoolInv, SlotShape, Accepts, Live
  <2>3. CASE g = next[sl]
    BY <1>1, <1>2, <2>1, <2>3 DEF IInv, PoolInv, SlotShape, Live
  <2> QED BY <1>2, <2>1, <2>2, <2>3
<1>4. ~viaShared[s] => g \notin upstream[s]
  BY <1>1, <1>3 DEF IInv, Apart, Live
<1>5. /\ BlockedFor(s, g) \in SUBSET Gens
      /\ ~viaShared[s] => upstream[s] \subseteq BlockedFor(s, g) /\ g \notin upstream[s]
  BY <1>3, <1>4, BlockedCovers
<1>6. /\ lease' = [lease EXCEPT ![s] = g] /\ blocked' = [blocked EXCEPT ![s] = BlockedFor(s, g)]
      /\ pc' = [pc EXCEPT ![s] = "leased"] /\ UNCHANGED <<laneVars, escapes, bornVars, target>>
      /\ gstate' = gstate
  BY <1>1, <1>2 DEF Leased, genVars
<1>7. GenInv' /\ GensGrow(s)
  BY <1>1, SameGens
<1> QED BY <1>1, <1>3, <1>5, <1>6, <1>7, LeaseTaken

LEMMA AcquireNewKeeps ==
    ASSUME IInv, NEW s \in Scopes, AcquireNew(s)
    PROVE  IInv'
<1> DEFINE sl == target[s]
           g == genCounter + 1
<1>1. pc[s] = "selected" /\ sl \in Slots
  BY TargetFacts DEF AcquireNew
<1>2. g \in Gens
  <2>1. genCounter \in Nat /\ genCounter <= Cardinality(PlacedScopes)
    BY ConstantFacts DEF IInv, PoolInv, TypeOK, GensCounted
  <2>2. Cardinality(PlacedScopes) \in Nat /\ Cardinality(PlacedScopes) < Cardinality(Scopes)
    BY <1>1, RoomForOne DEF Placed
  <2> QED BY <2>1, <2>2, ConstantFacts
<1>3. NewGeneration(sl, g) /\ Leased(s, g)
  BY DEF AcquireNew, NewGeneration
<1>4. GenInv' /\ gstate[g] = "none"
  BY <1>1, <1>2, <1>3, NewKeeps, TypeParts DEF IInv, PoolInv, GenInv
<1>5. /\ genCounter' = genCounter + 1
      /\ gslot' = [gslot EXCEPT ![g] = sl] /\ gstate' = [gstate EXCEPT ![g] = "QUEUED"]
  BY <1>3 DEF NewGeneration
<1> HIDE DEF g
<1>6. GensGrow(s) /\ gstate'[g] \in Live
  BY <1>1, <1>2, <1>4, <1>5 DEF GensGrow, IInv, PoolInv, TypeOK, Live
<1>7. g \notin upstream[s]
  BY <1>4 DEF IInv, Lineage
<1>8. /\ BlockedFor(s, g) \in SUBSET Gens
      /\ ~viaShared[s] => upstream[s] \subseteq BlockedFor(s, g) /\ g \notin upstream[s]
  BY <1>2, <1>7, BlockedCovers
<1>9. /\ lease' = [lease EXCEPT ![s] = g] /\ blocked' = [blocked EXCEPT ![s] = BlockedFor(s, g)]
      /\ pc' = [pc EXCEPT ![s] = "leased"] /\ UNCHANGED <<laneVars, escapes, bornVars, target>>
  BY <1>3 DEF Leased
<1> QED BY <1>1, <1>2, <1>4, <1>6, <1>8, <1>9, LeaseTaken

-----------------------------------------------------------------------------
(* The theorems                                                            *)

LEMMA InitEstablishes == Init => IInv
<1> SUFFICES ASSUME Init PROVE IInv
  OBVIOUS
<1>1. TypeOK
  <2>1. LaneType
    <3>1. frozen \in BOOLEAN
      BY Zenon DEF Init
    <3>2. 1 \in Slots /\ lanes = <<1>> /\ slotCounter = 1 /\ escapes = {} /\ cursor = 0
      BY ConstantFacts DEF Init
    <3>3. lanes \in Seq(Slots) /\ Len(lanes) = 1
      BY <3>2
    <3> QED BY <3>1, <3>2, <3>3, ConstantFacts DEF LaneType
  <2>2. GenType
    BY ConstantFacts DEF Init, GenType, GenStates
  <2>3. viaShared \in [Scopes -> BOOLEAN]
    BY Zenon DEF Init
  <2>4. ScopeType
    BY <2>3 DEF Init, ScopeType, Stages, Kinds
  <2> QED BY <2>1, <2>2, <2>4 DEF TypeOK, LaneType, GenType, ScopeType
<1>2. GensCounted
  <2>1. PlacedScopes = {}
    BY DEF Init, PlacedScopes, Placed
  <2> QED BY <2>1, FS_EmptySet DEF Init, GensCounted
<1>3. GenShape /\ SlotShape /\ GensKnown
  BY ConstantFacts DEF Init, GenShape, SlotShape, GensKnown
<1>4. SlotsFresh
  <2>1. Len(lanes) = 1 /\ lanes[1] = 1 /\ slotCounter = 1 /\ escapes = {}
    BY DEF Init
  <2>2. (\A g \in Gens : gslot[g] = 0) /\ \A s \in Scopes : target[s] = 0
    BY DEF Init, NoSlot
  <2> QED BY <2>1, <2>2 DEF SlotsFresh
<1>5. EscapesPrivate /\ SettingsFrozen /\ LeaseShape /\ SelectedKnown
  BY DEF Init, EscapesPrivate, SettingsFrozen, LeaseShape, SelectedKnown, Placed, Holding, Accepted
<1>6. Lineage /\ Apart
  BY DEF Init, Lineage, Apart, HasContext, Placed
<1> QED BY <1>1, <1>2, <1>3, <1>4, <1>5, <1>6 DEF IInv, PoolInv

LEMMA NextKeeps == IInv /\ [Next]_vars => IInv'
<1> SUFFICES ASSUME IInv, [Next]_vars PROVE IInv'
  OBVIOUS
<1>1. ASSUME NEW n \in 1..MaxLanes, SetCarrierLoopCount(n) PROVE IInv'
  BY <1>1, SetKeeps
<1>2. ASSUME NEW s \in Scopes, NEW p \in Openers[s], NEW w \in {"thread", "loop", "worker"},
             (\E k \in Kinds : Open(s, p, w, k)) \/ BridgeCall(s, p, w)
      PROVE  IInv'
  <2>1. p \in Scopes \cup {NoScope}
    BY PoolAssumption
  <2>2. PICK k \in Kinds : /\ Born(s, p, w, k) /\ frozen' = TRUE
                           /\ UNCHANGED <<lanes, slotCounter, cursor, escapes, genVars, target, lease, blocked>>
    BY <1>2 DEF Open, BridgeCall, Freeze, Kinds
  <2> QED BY <2>1, <2>2, BornKeeps
<1>3. ASSUME NEW s \in Scopes, Place(s) \/ Runs(s) \/ TryLease(s) \/ CancelBody(s) PROVE IInv'
  <2>1. CASE Place(s)
    BY <2>1, JoinKeeps, InheritKeeps, SelectKeeps, AcquireOpenKeeps, AcquireNewKeeps DEF Place
  <2>2. CASE Runs(s) \/ TryLease(s) \/ CancelBody(s)
    BY <2>2, BodyKeeps
  <2> QED BY <1>3, <2>1, <2>2
<1>4. ASSUME NEW g \in Gens, OpenGeneration(g) \/ CloseGeneration(g) PROVE IInv'
  BY <1>4, TurnKeeps
<1>5. ASSUME NEW sl \in Slots, RetireEscape(sl) PROVE IInv'
  BY <1>5, RetireKeeps
<1>6. CASE UNCHANGED vars
  <2>1. PoolInv'
    BY <1>6 DEF vars, laneVars, genVars, bornVars, IInv, PoolInv, TypeOK, GensCounted, PlacedScopes, GenShape,
                SlotShape, SlotsFresh, EscapesPrivate, SettingsFrozen, LeaseShape, Accepts, SelectedKnown, GensKnown
  <2>2. Lineage' /\ Apart'
    BY <1>6 DEF vars, laneVars, genVars, bornVars, IInv, Lineage, Apart, HasContext
  <2> QED BY <2>1, <2>2 DEF IInv
<1> QED BY <1>1, <1>2, <1>3, <1>4, <1>5, <1>6 DEF Next

\* The inductive invariant holds in every reachable state.
THEOREM Invariance == Spec => []IInv
BY InitEstablishes, NextKeeps, PTL DEF Spec

\* Every variable keeps its type; generations do not outnumber the scopes they
\* were made for.
THEOREM TypeCorrect == Spec => []TypeOK
<1>1. IInv => TypeOK
  BY DEF IInv, PoolInv
<1> QED BY Invariance, <1>1, PTL

\* No scope, at any depth of nesting and in any client program, gets a lease on
\* a carrier loop that waits for it, unless a call on the bridge's shared Stage
\* lies between.
THEOREM NeverPlacedUpstream == Spec => []NoUpstreamPlacement
<1>1. IInv => NoUpstreamPlacement
  BY DEF IInv, Apart, NoUpstreamPlacement, Placed, Holding, Accepted
<1> QED BY Invariance, <1>1, PTL

\* set_carrier_loop_count and _escape_slot_idle never take away a slot that a
\* scope has selected or leased; _slot_for_generation always finds it.  A
\* generation that is leased has not begun to drain, even when create_task or
\* adopt returned its last lease before it ran, and one that accepted a body
\* runs it.
THEOREM SlotsStayKnown == Spec => []LeasedSlotKnown
<1>1. IInv => LeasedSlotKnown
  <2> SUFFICES ASSUME IInv, NEW s \in Scopes
               PROVE  /\ pc[s] = "selected" => target[s] \in Range(lanes) \cup escapes
                      /\ pc[s] \in Holding =>
                            /\ gslot[lease[s]] \in Range(lanes) \cup escapes
                            /\ gstate[lease[s]] \in {"QUEUED", "RETURNED", "OPEN"}
                            /\ lease[s] \in {current[gslot[lease[s]]], next[gslot[lease[s]]]}
                      /\ pc[s] \in Accepted => Accepts(lease[s])
    BY DEF LeasedSlotKnown
  <2>1. \A i \in 1..Len(lanes) : lanes[i] \in Range(lanes)
    BY DEF IInv, PoolInv, TypeOK, Range
  <2>2. /\ pc[s] \in Holding => lease[s] \in Gens /\ gstate[lease[s]] \in {"QUEUED", "RETURNED", "OPEN"}
        /\ pc[s] \in Accepted => Accepts(lease[s])
    BY DEF IInv, PoolInv, LeaseShape, Placed, Holding, Accepted, Live
  <2> QED BY <2>1, <2>2 DEF IInv, PoolInv, SelectedKnown, GensKnown, GenShape
<1> QED BY Invariance, <1>1, PTL
=============================================================================
