------------------------- MODULE CarrierSlot_proofs -------------------------
(***************************************************************************)
(* Proofs about a carrier slot, for every number of leases, submissions,   *)
(* spawned and unowned tasks and generations.                              *)
(***************************************************************************)
EXTENDS CarrierSlot, FiniteSetTheorems, SequenceTheorems, TLAPS

(***************************************************************************)
(* What the state of a generation says of its loop, its counter and its    *)
(* seal.  A generation that seals while it waits in the queue has neither  *)
(* a loop nor a seal, and may be reserved again; one that seals on its     *)
(* loop may not.                                                           *)
(***************************************************************************)
GenerationShape ==
    \A g \in Gens :
        /\ g > counter => gstate[g] = "none"
        /\ gstate[g] = "none" => reservations[g] = 0 /\ loop[g] = "none" /\ seal[g] = "no"
        /\ gstate[g] = "QUEUED" => reservations[g] > 0 /\ loop[g] = "none" /\ seal[g] = "no"
        /\ gstate[g] = "OPEN" => reservations[g] > 0 /\ loop[g] = "open" /\ seal[g] = "no"
        /\ gstate[g] = "SEALING" => \/ loop[g] = "none" /\ seal[g] = "no"
                                    \/ reservations[g] = 0 /\ loop[g] = "open" /\ seal[g] # "no"
        /\ gstate[g] = "DRAINING" => reservations[g] = 0 /\ loop[g] # "none" /\ seal[g] = "set"
        /\ gstate[g] = "CLOSED" => reservations[g] = 0 /\ loop[g] = "none" /\ seal[g] = "set"

(***************************************************************************)
(* The slot: the control thread runs the current generation or waits for   *)
(* it, and the executor's queue holds what of the two it has not taken.    *)
(***************************************************************************)
Queued(g) == IF g = NoGen THEN <<>> ELSE <<g>>

SlotShape ==
    /\ next # NoGen => current # NoGen /\ current < next
    /\ worker \in {NoGen, current}
    /\ queue = IF worker = NoGen THEN Queued(current) \o Queued(next) ELSE Queued(next)
    /\ \A g \in Gens : gstate[g] \notin {"none", "CLOSED"} <=> g \in {current, next}
    /\ \A g \in Gens : loop[g] # "none" <=> worker = g

\* Whoever holds a reservation holds it on a generation, and only the task of
\* a nested submission outlives its runner.
HoldersPlaced ==
    /\ \A s \in Subs : /\ subPc[s] \notin {"idle", "refused"} => subGen[s] \in Gens
                       /\ subPc[s] \in {"finished", "dropped"} => outer[s] # NoSub
    /\ \A k \in Kids : kidPc[k] \in {"live", "finished"} => kidGen[k] \in Gens

IInv == TypeOK /\ ReservationsCounted /\ GenerationShape /\ SlotShape /\ HoldersPlaced

-----------------------------------------------------------------------------
(* Counting holders                                                        *)

\* The holders of reservations on a generation are finitely many.
LEMMA HoldersFinite ==
    ASSUME NEW g \in Gens
    PROVE  /\ IsFiniteSet(LeasesOn(g)) /\ Cardinality(LeasesOn(g)) \in Nat
           /\ IsFiniteSet(SubsOn(g)) /\ Cardinality(SubsOn(g)) \in Nat
           /\ IsFiniteSet(TasksOn(g)) /\ Cardinality(TasksOn(g)) \in Nat
           /\ IsFiniteSet(KidsOn(g)) /\ Cardinality(KidsOn(g)) \in Nat
<1>1. IsFiniteSet(Leases) /\ IsFiniteSet(Subs) /\ IsFiniteSet(Kids)
  BY SlotAssumption, FS_Interval DEF Leases
<1>2. LeasesOn(g) \in SUBSET Leases /\ SubsOn(g) \in SUBSET Subs
  BY DEF LeasesOn, SubsOn
<1>3. TasksOn(g) \in SUBSET Subs /\ KidsOn(g) \in SUBSET Kids
  BY DEF TasksOn, KidsOn
<1>4. /\ IsFiniteSet(LeasesOn(g)) /\ IsFiniteSet(SubsOn(g))
      /\ IsFiniteSet(TasksOn(g)) /\ IsFiniteSet(KidsOn(g))
  BY <1>1, <1>2, <1>3, FS_Subset
<1> QED BY <1>4, FS_CardinalityType

\* One more, one less.
LEMMA OneMore ==
    ASSUME NEW S, IsFiniteSet(S), NEW x, x \notin S
    PROVE  Cardinality(S \cup {x}) = Cardinality(S) + 1
BY FS_AddElement

LEMMA OneLess ==
    ASSUME NEW S, IsFiniteSet(S), NEW x \in S
    PROVE  Cardinality(S \ {x}) = Cardinality(S) - 1 /\ Cardinality(S) > 0
<1>1. IsFiniteSet(S \ {x}) /\ Cardinality(S \ {x}) = Cardinality(S) - 1
  BY FS_RemoveElement
<1>2. Cardinality(S \ {x}) \in Nat /\ Cardinality(S) \in Nat
  BY <1>1, FS_CardinalityType
<1> QED BY <1>1, <1>2

\* A generation that somebody holds has a positive counter.
LEMMA HeldIsPositive ==
    ASSUME TypeOK, ReservationsCounted, NEW g \in Gens,
           \/ LeasesOn(g) # {} \/ SubsOn(g) # {} \/ TasksOn(g) # {} \/ KidsOn(g) # {}
    PROVE  reservations[g] > 0
<1>1. reservations[g] = Cardinality(LeasesOn(g)) + Cardinality(SubsOn(g))
                        + Cardinality(TasksOn(g)) + Cardinality(KidsOn(g))
  BY DEF ReservationsCounted
<1>2. \/ Cardinality(LeasesOn(g)) # 0 \/ Cardinality(SubsOn(g)) # 0
      \/ Cardinality(TasksOn(g)) # 0 \/ Cardinality(KidsOn(g)) # 0
  BY HoldersFinite, FS_EmptySet
<1> QED BY <1>1, <1>2, HoldersFinite

\* The same holders and counters.
LEMMA CountUntouched ==
    ASSUME ReservationsCounted, UNCHANGED reservations,
           \A g \in Gens : /\ LeasesOn(g)' = LeasesOn(g) /\ SubsOn(g)' = SubsOn(g)
                           /\ TasksOn(g)' = TasksOn(g) /\ KidsOn(g)' = KidsOn(g)
    PROVE  ReservationsCounted'
BY DEF ReservationsCounted

\* A lease is taken.
LEMMA CountLeaseTaken ==
    ASSUME TypeOK, ReservationsCounted, NEW h \in Gens, NEW l \in Leases,
           lease[l] = NoGen, lease' = [lease EXCEPT ![l] = h], Reserve(h),
           UNCHANGED <<subPc, subGen, outer, kidPc, kidGen>>
    PROVE  ReservationsCounted'
<1> SUFFICES ASSUME NEW g \in Gens
             PROVE  reservations'[g] = Cardinality(LeasesOn(g)') + Cardinality(SubsOn(g)')
                                       + Cardinality(TasksOn(g)') + Cardinality(KidsOn(g)')
  BY DEF ReservationsCounted
<1>1. SubsOn(g)' = SubsOn(g) /\ TasksOn(g)' = TasksOn(g) /\ KidsOn(g)' = KidsOn(g)
  BY DEF SubsOn, TasksOn, KidsOn
<1>2. reservations[g] = Cardinality(LeasesOn(g)) + Cardinality(SubsOn(g))
                        + Cardinality(TasksOn(g)) + Cardinality(KidsOn(g))
  BY DEF ReservationsCounted
<1>3. CASE g = h
  <2>1. LeasesOn(g)' = LeasesOn(g) \cup {l} /\ l \notin LeasesOn(g)
    BY <1>3 DEF LeasesOn, TypeOK, Gens, NoGen
  <2>2. Cardinality(LeasesOn(g)') = Cardinality(LeasesOn(g)) + 1
    BY <2>1, OneMore, HoldersFinite
  <2>3. reservations'[g] = reservations[g] + 1
    BY <1>3 DEF Reserve, TypeOK
  <2> QED BY <2>2, <2>3, <1>1, <1>2, HoldersFinite
<1>4. CASE g # h
  <2>1. LeasesOn(g)' = LeasesOn(g)
    BY <1>4 DEF LeasesOn, TypeOK, Gens, NoGen
  <2>2. reservations'[g] = reservations[g]
    BY <1>4 DEF Reserve, TypeOK
  <2> QED BY <2>1, <2>2, <1>1, <1>2
<1> QED BY <1>3, <1>4

\* A lease is given back.
LEMMA CountLeaseReturned ==
    ASSUME TypeOK, ReservationsCounted, NEW h \in Gens, NEW l \in Leases, lease[l] = h,
           reservations' = [reservations EXCEPT ![h] = @ - 1],
           lease' = [lease EXCEPT ![l] = Returned],
           UNCHANGED <<subPc, subGen, outer, kidPc, kidGen>>
    PROVE  ReservationsCounted'
<1> SUFFICES ASSUME NEW g \in Gens
             PROVE  reservations'[g] = Cardinality(LeasesOn(g)') + Cardinality(SubsOn(g)')
                                       + Cardinality(TasksOn(g)') + Cardinality(KidsOn(g)')
  BY DEF ReservationsCounted
<1>1. SubsOn(g)' = SubsOn(g) /\ TasksOn(g)' = TasksOn(g) /\ KidsOn(g)' = KidsOn(g)
  BY DEF SubsOn, TasksOn, KidsOn, TypeOK, Gens, Returned
<1>2. reservations[g] = Cardinality(LeasesOn(g)) + Cardinality(SubsOn(g))
                        + Cardinality(TasksOn(g)) + Cardinality(KidsOn(g))
  BY DEF ReservationsCounted
<1>3. CASE g = h
  <2>1. LeasesOn(g)' = LeasesOn(g) \ {l} /\ l \in LeasesOn(g)
    BY <1>3 DEF LeasesOn, TypeOK, Gens, Returned
  <2>2. Cardinality(LeasesOn(g)') = Cardinality(LeasesOn(g)) - 1
    BY <2>1, OneLess, HoldersFinite
  <2>3. reservations'[g] = reservations[g] - 1
    BY <1>3 DEF TypeOK
  <2> QED BY <2>2, <2>3, <1>1, <1>2, HoldersFinite
<1>4. CASE g # h
  <2>1. LeasesOn(g)' = LeasesOn(g)
    BY <1>4 DEF LeasesOn, TypeOK, Gens, Returned
  <2>2. reservations'[g] = reservations[g]
    BY <1>4 DEF TypeOK
  <2> QED BY <2>1, <2>2, <1>1, <1>2
<1> QED BY <1>3, <1>4

\* A submission is accepted.
LEMMA CountSubmitted ==
    ASSUME TypeOK, ReservationsCounted, NEW h \in Gens, NEW s \in Subs, subPc[s] = "idle",
           Reserve(h),
           subGen' = [subGen EXCEPT ![s] = h],
           \E o \in Subs \cup {NoSub} : outer' = [outer EXCEPT ![s] = o],
           \E to \in {"pending", "scheduled"} : subPc' = [subPc EXCEPT ![s] = to],
           UNCHANGED <<lease, kidPc, kidGen>>
    PROVE  ReservationsCounted'
<1> SUFFICES ASSUME NEW g \in Gens
             PROVE  reservations'[g] = Cardinality(LeasesOn(g)') + Cardinality(SubsOn(g)')
                                       + Cardinality(TasksOn(g)') + Cardinality(KidsOn(g)')
  BY DEF ReservationsCounted
<1>1. LeasesOn(g)' = LeasesOn(g) /\ TasksOn(g)' = TasksOn(g) /\ KidsOn(g)' = KidsOn(g)
  BY DEF LeasesOn, TasksOn, KidsOn, TypeOK, Gens, OwnReservation, TaskReservation
<1>2. reservations[g] = Cardinality(LeasesOn(g)) + Cardinality(SubsOn(g))
                        + Cardinality(TasksOn(g)) + Cardinality(KidsOn(g))
  BY DEF ReservationsCounted
<1>3. CASE g = h
  <2>1. SubsOn(g)' = SubsOn(g) \cup {s} /\ s \notin SubsOn(g)
    BY <1>3 DEF SubsOn, TypeOK, Gens, OwnReservation, TaskReservation
  <2>2. Cardinality(SubsOn(g)') = Cardinality(SubsOn(g)) + 1
    BY <2>1, OneMore, HoldersFinite
  <2>3. reservations'[g] = reservations[g] + 1
    BY <1>3 DEF Reserve, TypeOK
  <2> QED BY <2>2, <2>3, <1>1, <1>2, HoldersFinite
<1>4. CASE g # h
  <2>1. SubsOn(g)' = SubsOn(g)
    BY <1>4 DEF SubsOn, TypeOK, Gens, OwnReservation, TaskReservation
  <2>2. reservations'[g] = reservations[g]
    BY <1>4 DEF Reserve, TypeOK
  <2> QED BY <2>1, <2>2, <1>1, <1>2
<1> QED BY <1>3, <1>4

\* A nested submission gets its task, which the task factory retains.
LEMMA CountStarted ==
    ASSUME TypeOK, ReservationsCounted, NEW h \in Gens, NEW s \in Subs,
           subPc[s] = "scheduled", subGen[s] = h, outer[s] # NoSub,
           Reserve(h),
           \E to \in {"created", "dropped"} : subPc' = [subPc EXCEPT ![s] = to],
           UNCHANGED <<lease, subGen, outer, kidPc, kidGen>>
    PROVE  ReservationsCounted'
<1> SUFFICES ASSUME NEW g \in Gens
             PROVE  reservations'[g] = Cardinality(LeasesOn(g)') + Cardinality(SubsOn(g)')
                                       + Cardinality(TasksOn(g)') + Cardinality(KidsOn(g)')
  BY DEF ReservationsCounted
<1>1. LeasesOn(g)' = LeasesOn(g) /\ SubsOn(g)' = SubsOn(g) /\ KidsOn(g)' = KidsOn(g)
  BY DEF LeasesOn, SubsOn, KidsOn, TypeOK, Gens, OwnReservation, TaskReservation
<1>2. reservations[g] = Cardinality(LeasesOn(g)) + Cardinality(SubsOn(g))
                        + Cardinality(TasksOn(g)) + Cardinality(KidsOn(g))
  BY DEF ReservationsCounted
<1>3. CASE g = h
  <2>1. TasksOn(g)' = TasksOn(g) \cup {s} /\ s \notin TasksOn(g)
    BY <1>3 DEF TasksOn, TypeOK, Gens, OwnReservation, TaskReservation
  <2>2. Cardinality(TasksOn(g)') = Cardinality(TasksOn(g)) + 1
    BY <2>1, OneMore, HoldersFinite
  <2>3. reservations'[g] = reservations[g] + 1
    BY <1>3 DEF Reserve, TypeOK
  <2> QED BY <2>2, <2>3, <1>1, <1>2, HoldersFinite
<1>4. CASE g # h
  <2>1. TasksOn(g)' = TasksOn(g)
    BY <1>4 DEF TasksOn, TypeOK, Gens, OwnReservation, TaskReservation
  <2>2. reservations'[g] = reservations[g]
    BY <1>4 DEF Reserve, TypeOK
  <2> QED BY <2>1, <2>2, <1>1, <1>2
<1> QED BY <1>3, <1>4

\* A submission's runner is over; the task of a nested one is still held.
LEMMA CountFinished ==
    ASSUME TypeOK, ReservationsCounted, NEW h \in Gens, NEW s \in Subs,
           subPc[s] = "running", subGen[s] = h,
           reservations' = [reservations EXCEPT ![h] = @ - 1],
           subPc' = [subPc EXCEPT ![s] = AfterFinish(s)],
           UNCHANGED <<lease, subGen, outer, kidPc, kidGen>>
    PROVE  ReservationsCounted'
<1> SUFFICES ASSUME NEW g \in Gens
             PROVE  reservations'[g] = Cardinality(LeasesOn(g)') + Cardinality(SubsOn(g)')
                                       + Cardinality(TasksOn(g)') + Cardinality(KidsOn(g)')
  BY DEF ReservationsCounted
<1>1. LeasesOn(g)' = LeasesOn(g) /\ TasksOn(g)' = TasksOn(g) /\ KidsOn(g)' = KidsOn(g)
  BY DEF LeasesOn, TasksOn, KidsOn, TypeOK, Gens, OwnReservation, TaskReservation, AfterFinish
<1>2. reservations[g] = Cardinality(LeasesOn(g)) + Cardinality(SubsOn(g))
                        + Cardinality(TasksOn(g)) + Cardinality(KidsOn(g))
  BY DEF ReservationsCounted
<1>3. CASE g = h
  <2>1. SubsOn(g)' = SubsOn(g) \ {s} /\ s \in SubsOn(g)
    BY <1>3 DEF SubsOn, TypeOK, Gens, OwnReservation, TaskReservation, AfterFinish
  <2>2. Cardinality(SubsOn(g)') = Cardinality(SubsOn(g)) - 1
    BY <2>1, OneLess, HoldersFinite
  <2>3. reservations'[g] = reservations[g] - 1
    BY <1>3 DEF TypeOK
  <2> QED BY <2>2, <2>3, <1>1, <1>2, HoldersFinite
<1>4. CASE g # h
  <2>1. SubsOn(g)' = SubsOn(g)
    BY <1>4 DEF SubsOn, TypeOK, Gens, OwnReservation, TaskReservation, AfterFinish
  <2>2. reservations'[g] = reservations[g]
    BY <1>4 DEF TypeOK
  <2> QED BY <2>1, <2>2, <1>1, <1>2
<1> QED BY <1>3, <1>4

\* The done callback of a nested submission's task.
LEMMA CountTaskDone ==
    ASSUME TypeOK, ReservationsCounted, NEW h \in Gens, NEW s \in Subs,
           subPc[s] \in {"finished", "dropped"}, subGen[s] = h, outer[s] # NoSub,
           reservations' = [reservations EXCEPT ![h] = @ - 1],
           subPc' = [subPc EXCEPT ![s] = IF @ = "finished" THEN "done" ELSE "leaked"],
           UNCHANGED <<lease, subGen, outer, kidPc, kidGen>>
    PROVE  ReservationsCounted'
<1> SUFFICES ASSUME NEW g \in Gens
             PROVE  reservations'[g] = Cardinality(LeasesOn(g)') + Cardinality(SubsOn(g)')
                                       + Cardinality(TasksOn(g)') + Cardinality(KidsOn(g)')
  BY DEF ReservationsCounted
<1>1. LeasesOn(g)' = LeasesOn(g) /\ SubsOn(g)' = SubsOn(g) /\ KidsOn(g)' = KidsOn(g)
  BY DEF LeasesOn, SubsOn, KidsOn, TypeOK, Gens, OwnReservation, TaskReservation
<1>2. reservations[g] = Cardinality(LeasesOn(g)) + Cardinality(SubsOn(g))
                        + Cardinality(TasksOn(g)) + Cardinality(KidsOn(g))
  BY DEF ReservationsCounted
<1>3. CASE g = h
  <2>1. TasksOn(g)' = TasksOn(g) \ {s} /\ s \in TasksOn(g)
    BY <1>3 DEF TasksOn, TypeOK, Gens, OwnReservation, TaskReservation
  <2>2. Cardinality(TasksOn(g)') = Cardinality(TasksOn(g)) - 1
    BY <2>1, OneLess, HoldersFinite
  <2>3. reservations'[g] = reservations[g] - 1
    BY <1>3 DEF TypeOK
  <2> QED BY <2>2, <2>3, <1>1, <1>2, HoldersFinite
<1>4. CASE g # h
  <2>1. TasksOn(g)' = TasksOn(g)
    BY <1>4 DEF TasksOn, TypeOK, Gens, OwnReservation, TaskReservation
  <2>2. reservations'[g] = reservations[g]
    BY <1>4 DEF TypeOK
  <2> QED BY <2>1, <2>2, <1>1, <1>2
<1> QED BY <1>3, <1>4

\* A submission's code spawns a task.
LEMMA CountSpawned ==
    ASSUME TypeOK, ReservationsCounted, NEW h \in Gens, NEW k \in Kids, kidPc[k] = "idle",
           Reserve(h),
           kidPc' = [kidPc EXCEPT ![k] = "live"], kidGen' = [kidGen EXCEPT ![k] = h],
           UNCHANGED <<lease, subPc, subGen, outer>>
    PROVE  ReservationsCounted'
<1> SUFFICES ASSUME NEW g \in Gens
             PROVE  reservations'[g] = Cardinality(LeasesOn(g)') + Cardinality(SubsOn(g)')
                                       + Cardinality(TasksOn(g)') + Cardinality(KidsOn(g)')
  BY DEF ReservationsCounted
<1>1. LeasesOn(g)' = LeasesOn(g) /\ SubsOn(g)' = SubsOn(g) /\ TasksOn(g)' = TasksOn(g)
  BY DEF LeasesOn, SubsOn, TasksOn, TypeOK, Gens
<1>2. reservations[g] = Cardinality(LeasesOn(g)) + Cardinality(SubsOn(g))
                        + Cardinality(TasksOn(g)) + Cardinality(KidsOn(g))
  BY DEF ReservationsCounted
<1>3. CASE g = h
  <2>1. KidsOn(g)' = KidsOn(g) \cup {k} /\ k \notin KidsOn(g)
    BY <1>3 DEF KidsOn, TypeOK, Gens
  <2>2. Cardinality(KidsOn(g)') = Cardinality(KidsOn(g)) + 1
    BY <2>1, OneMore, HoldersFinite
  <2>3. reservations'[g] = reservations[g] + 1
    BY <1>3 DEF Reserve, TypeOK
  <2> QED BY <2>2, <2>3, <1>1, <1>2, HoldersFinite
<1>4. CASE g # h
  <2>1. KidsOn(g)' = KidsOn(g)
    BY <1>4 DEF KidsOn, TypeOK, Gens
  <2>2. reservations'[g] = reservations[g]
    BY <1>4 DEF Reserve, TypeOK
  <2> QED BY <2>1, <2>2, <1>1, <1>2
<1> QED BY <1>3, <1>4

\* The done callback of a spawned task.
LEMMA CountSpawnedDone ==
    ASSUME TypeOK, ReservationsCounted, NEW h \in Gens, NEW k \in Kids, kidPc[k] = "finished", kidGen[k] = h,
           reservations' = [reservations EXCEPT ![h] = @ - 1],
           kidPc' = [kidPc EXCEPT ![k] = "done"],
           UNCHANGED <<lease, subPc, subGen, outer, kidGen>>
    PROVE  ReservationsCounted'
<1> SUFFICES ASSUME NEW g \in Gens
             PROVE  reservations'[g] = Cardinality(LeasesOn(g)') + Cardinality(SubsOn(g)')
                                       + Cardinality(TasksOn(g)') + Cardinality(KidsOn(g)')
  BY DEF ReservationsCounted
<1>1. LeasesOn(g)' = LeasesOn(g) /\ SubsOn(g)' = SubsOn(g) /\ TasksOn(g)' = TasksOn(g)
  BY DEF LeasesOn, SubsOn, TasksOn, TypeOK, Gens
<1>2. reservations[g] = Cardinality(LeasesOn(g)) + Cardinality(SubsOn(g))
                        + Cardinality(TasksOn(g)) + Cardinality(KidsOn(g))
  BY DEF ReservationsCounted
<1>3. CASE g = h
  <2>1. KidsOn(g)' = KidsOn(g) \ {k} /\ k \in KidsOn(g)
    BY <1>3 DEF KidsOn, TypeOK, Gens
  <2>2. Cardinality(KidsOn(g)') = Cardinality(KidsOn(g)) - 1
    BY <2>1, OneLess, HoldersFinite
  <2>3. reservations'[g] = reservations[g] - 1
    BY <1>3 DEF TypeOK
  <2> QED BY <2>2, <2>3, <1>1, <1>2, HoldersFinite
<1>4. CASE g # h
  <2>1. KidsOn(g)' = KidsOn(g)
    BY <1>4 DEF KidsOn, TypeOK, Gens
  <2>2. reservations'[g] = reservations[g]
    BY <1>4 DEF TypeOK
  <2> QED BY <2>1, <2>2, <1>1, <1>2
<1> QED BY <1>3, <1>4

-----------------------------------------------------------------------------
(* The shape of the slot under reservations and releases                   *)

Shape == GenerationShape /\ SlotShape

\* A reservation on a generation that accepts it, or that sealed in the queue.
LEMMA ReserveKeepsShape ==
    ASSUME TypeOK, Shape, NEW h \in Gens, Reserve(h),
           Accepts(h) \/ (gstate[h] = "SEALING" /\ loop[h] = "none"),
           UNCHANGED <<counter, gstate, loop, seal, slotVars>>
    PROVE  Shape'
<1>1. GenerationShape'
  BY DEF Shape, GenerationShape, TypeOK, Reserve, Accepts
<1>2. SlotShape'
  BY DEF Shape, SlotShape, slotVars, Queued
<1> QED BY <1>1, <1>2 DEF Shape

\* A release by somebody who holds a reservation.
LEMMA ReleaseKeepsShape ==
    ASSUME TypeOK, Shape, NEW h \in Gens, NEW thread \in {"loopThread", "otherThread"},
           reservations[h] > 0, Release(h, thread),
           UNCHANGED <<counter, loop, slotVars>>
    PROVE  /\ Shape'
           /\ reservations' \in [Gens -> Nat] /\ gstate' \in [Gens -> GenStates]
           /\ seal' \in [Gens -> SealStates]
<1> USE DEF Release, StateAfterRelease, SealAfterRelease, Accepts
<1>1. /\ reservations' = [reservations EXCEPT ![h] = reservations[h] - 1]
      /\ reservations[h] - 1 \in Nat
      /\ gstate'[h] \in {gstate[h], "SEALING"} /\ seal'[h] \in {seal[h], thread}
  BY DEF TypeOK
<1>2. /\ reservations' \in [Gens -> Nat] /\ gstate' \in [Gens -> GenStates]
      /\ seal' \in [Gens -> SealStates]
  BY <1>1 DEF TypeOK, GenStates, SealStates
<1>3. GenerationShape'
  <2> SUFFICES ASSUME NEW g \in Gens
               PROVE  /\ g > counter' => gstate'[g] = "none"
                      /\ gstate'[g] = "none" => reservations'[g] = 0 /\ loop'[g] = "none" /\ seal'[g] = "no"
                      /\ gstate'[g] = "QUEUED" => reservations'[g] > 0 /\ loop'[g] = "none" /\ seal'[g] = "no"
                      /\ gstate'[g] = "OPEN" => reservations'[g] > 0 /\ loop'[g] = "open" /\ seal'[g] = "no"
                      /\ gstate'[g] = "SEALING" => \/ loop'[g] = "none" /\ seal'[g] = "no"
                                                   \/ reservations'[g] = 0 /\ loop'[g] = "open" /\ seal'[g] # "no"
                      /\ gstate'[g] = "DRAINING" => reservations'[g] = 0 /\ loop'[g] # "none" /\ seal'[g] = "set"
                      /\ gstate'[g] = "CLOSED" => reservations'[g] = 0 /\ loop'[g] = "none" /\ seal'[g] = "set"
    BY DEF GenerationShape
  <2>1. CASE g # h
    BY <2>1 DEF Shape, GenerationShape, TypeOK
  <2>2. CASE g = h
    BY <2>2 DEF Shape, GenerationShape, TypeOK, GenStates
  <2> QED BY <2>1, <2>2
<1>4. SlotShape'
  <2>1. \A g \in Gens : gstate'[g] \in {"none", "CLOSED"} <=> gstate[g] \in {"none", "CLOSED"}
    BY DEF TypeOK, GenStates
  <2> QED BY <2>1 DEF Shape, SlotShape, slotVars, Queued
<1> QED BY <1>2, <1>3, <1>4 DEF Shape

-----------------------------------------------------------------------------
(* The invariant is inductive                                              *)

LEMMA InitEstablishes == Init => IInv
<1> SUFFICES ASSUME Init PROVE IInv
  OBVIOUS
<1>1. TypeOK
  BY SlotAssumption DEF Init, TypeOK, GenOrNone, Gens, NoGen, GenStates, SealStates, SubStates,
                        CancelStates, KidStates, StrayStates
<1>2. ReservationsCounted
  <2>1. \A g \in Gens : LeasesOn(g) = {} /\ SubsOn(g) = {} /\ TasksOn(g) = {} /\ KidsOn(g) = {}
    BY DEF Init, Gens, NoGen, LeasesOn, SubsOn, TasksOn, KidsOn
  <2>2. Cardinality({}) = 0
    BY FS_EmptySet
  <2>3. \A g \in Gens : reservations[g] = 0
    BY DEF Init
  <2> QED BY <2>1, <2>2, <2>3 DEF ReservationsCounted
<1>3. GenerationShape
  BY DEF Init, GenerationShape
<1>4. SlotShape
  BY DEF Init, SlotShape, Queued, NoGen, Gens
<1>5. HoldersPlaced
  BY DEF Init, HoldersPlaced
<1> QED BY <1>1, <1>2, <1>3, <1>4, <1>5 DEF IInv

LEMMA NextKeeps == IInv /\ [Next]_vars => IInv'
<1> SUFFICES ASSUME IInv, [Next]_vars PROVE IInv'
  OBVIOUS
<1> USE SlotAssumption
<1>1. ASSUME NEW l \in Leases, NEW g \in Gens, AcquireLease(l, g) PROVE IInv'
  <2>0. lease[l] = NoGen
    BY <1>1 DEF AcquireLease, FirstUse
  <2>1. TypeOK'
    BY <1>1, SMTT(30) DEF AcquireLease, Reserve, IInv, TypeOK, GenOrNone, Gens, slotVars, subVars, kidVars, strayVars
  <2>2. ReservationsCounted'
    BY <1>1, <2>0, CountLeaseTaken DEF AcquireLease, IInv, subVars, kidVars
  <2>3. Accepts(g) \/ (gstate[g] = "SEALING" /\ loop[g] = "none")
    <3>1. CASE g = current
      BY <3>1, <1>1 DEF AcquireLease, DefaultTarget, Accepts, IInv, SlotShape, NoGen, Gens
    <3>2. CASE g = next /\ g # current
      <4>1. gstate[g] \notin {"none", "CLOSED"} /\ worker # g
        BY <3>2 DEF IInv, SlotShape, TypeOK, GenOrNone, NoGen, Gens
      <4>2. loop[g] = "none"
        BY <4>1 DEF IInv, SlotShape
      <4> QED BY <4>1, <4>2 DEF IInv, GenerationShape, TypeOK, GenStates, Accepts
    <3> QED BY <3>1, <3>2, <1>1 DEF AcquireLease, DefaultTarget
  <2>4. Shape'
    BY <1>1, <2>3, ReserveKeepsShape DEF AcquireLease, IInv, Shape
  <2>5. HoldersPlaced'
    BY <1>1 DEF AcquireLease, IInv, HoldersPlaced, subVars, kidVars
  <2> QED BY <2>1, <2>2, <2>4, <2>5 DEF IInv, Shape
<1>2. ASSUME NEW l \in Leases, AcquireLeaseOnNew(l) PROVE IInv'
  <2> DEFINE n == counter + 1
  <2>0. lease[l] = NoGen /\ n \in Gens /\ gstate[n] = "none"
    BY <1>2 DEF AcquireLeaseOnNew, FirstUse, IInv, TypeOK, GenerationShape, GenOrNone, Gens
  <2>a. /\ UNCHANGED <<loop, seal, worker>>
        /\ counter' = n /\ gstate' = [gstate EXCEPT ![n] = "QUEUED"]
        /\ reservations' = [reservations EXCEPT ![n] = @ + 1]
        /\ current' = IF current # NoGen THEN current ELSE n
        /\ next' = IF current # NoGen THEN n ELSE next
        /\ queue' = Append(queue, n)
        /\ current # NoGen => next = NoGen
    BY <1>2 DEF AcquireLeaseOnNew, Reserve, AsNext, MustCreate
  <2>1. TypeOK'
    BY <1>2, <2>0 DEF AcquireLeaseOnNew, Reserve, AsNext, IInv, TypeOK, GenOrNone, Gens, NoGen, GenStates, subVars, kidVars, strayVars
  <2>2. ReservationsCounted'
    BY <1>2, <2>0, CountLeaseTaken DEF AcquireLeaseOnNew, IInv, subVars, kidVars
  <2> HIDE DEF n
  <2>3. GenerationShape'
    <3>1. counter \in Nat /\ n = counter + 1
      BY DEF IInv, TypeOK, GenOrNone, n
    <3> QED BY <2>0, <2>a, <3>1, SMTT(30) DEF IInv, TypeOK, GenerationShape, Gens
  <2>4. SlotShape'
    <3>0. counter \in Nat /\ n = counter + 1 /\ current \in Int /\ next \in Int /\ worker \in Int
      BY DEF IInv, TypeOK, GenOrNone, n
    <3>1. next = NoGen
      BY <2>a DEF IInv, SlotShape
    <3>2. current # NoGen => current < n
      <4>1. current # NoGen => current \in Gens /\ gstate[current] # "none"
        BY DEF IInv, SlotShape, TypeOK, GenOrNone, Gens, NoGen
      <4> QED BY <4>1, <3>0 DEF IInv, GenerationShape, Gens
    <3>3. queue' = IF worker' = NoGen THEN Queued(current') \o Queued(next') ELSE Queued(next')
      <4>1. CASE current = NoGen
        <5>1. worker = NoGen /\ queue = <<>> \o <<>>
          BY <4>1, <3>1 DEF IInv, SlotShape, Queued
        <5> QED BY <4>1, <5>1, <3>1, <2>0, <2>a DEF Queued, NoGen, Gens
      <4>2. CASE current # NoGen
        <5>1. queue = IF worker = NoGen THEN <<current>> \o <<>> ELSE <<>>
          BY <4>2, <3>1 DEF IInv, SlotShape, Queued
        <5> QED BY <4>2, <5>1, <3>1, <2>0, <2>a DEF Queued, NoGen, Gens
      <4> QED BY <4>1, <4>2
    <3>4. /\ next' # NoGen => current' # NoGen /\ current' < next'
          /\ worker' \in {NoGen, current'}
      BY <2>a, <3>0, <3>1, <3>2 DEF IInv, SlotShape, NoGen
    <3>5. \A g \in Gens : gstate'[g] \notin {"none", "CLOSED"} <=> g \in {current', next'}
      <4>1. \A g \in Gens : gstate[g] \notin {"none", "CLOSED"} <=> g \in {current, next}
        BY DEF IInv, SlotShape
      <4>2. \A g \in Gens : gstate'[g] = IF g = n THEN "QUEUED" ELSE gstate[g]
        BY <2>a DEF IInv, TypeOK
      <4> QED BY <4>1, <4>2, <2>a, <2>0, <3>1 DEF Gens, NoGen
    <3>6. \A g \in Gens : loop'[g] # "none" <=> worker' = g
      BY <2>a DEF IInv, SlotShape
    <3> QED BY <3>3, <3>4, <3>5, <3>6 DEF SlotShape
  <2>5. HoldersPlaced'
    BY <1>2 DEF AcquireLeaseOnNew, IInv, HoldersPlaced, subVars, kidVars
  <2> QED BY <2>1, <2>2, <2>3, <2>4, <2>5 DEF IInv
<1>3. ASSUME NEW l \in Leases, AcquireLeaseRefused(l) PROVE IInv'
  <2>1. TypeOK'
    BY <1>3 DEF AcquireLeaseRefused, IInv, TypeOK, SubStates, KidStates, StrayStates, CancelStates, GenOrNone, Gens, NoGen, Returned, genVars, slotVars, subVars, kidVars, strayVars
  <2>2. ReservationsCounted'
    <3>1. \A n \in Gens : /\ LeasesOn(n)' = LeasesOn(n) /\ SubsOn(n)' = SubsOn(n)
                          /\ TasksOn(n)' = TasksOn(n) /\ KidsOn(n)' = KidsOn(n)
      BY <1>3 DEF AcquireLeaseRefused, LeasesOn, SubsOn, TasksOn, KidsOn, OwnReservation, TaskReservation, TypeOK, genVars, slotVars, subVars, kidVars, strayVars
    <3> QED BY <3>1, <1>3, CountUntouched DEF IInv, AcquireLeaseRefused, genVars, slotVars, subVars, kidVars, strayVars
  <2>3. Shape'
    <3>1. GenerationShape'
      BY <1>3 DEF AcquireLeaseRefused, IInv, GenerationShape, TypeOK, GenOrNone, Gens
    <3>2. SlotShape'
      BY <1>3 DEF AcquireLeaseRefused, IInv, SlotShape, Queued, slotVars
    <3> QED BY <3>1, <3>2 DEF Shape
  <2>4. HoldersPlaced'
    BY <1>3 DEF AcquireLeaseRefused, IInv, HoldersPlaced, TypeOK, genVars, slotVars, subVars, kidVars, strayVars
  <2> QED BY <2>1, <2>2, <2>3, <2>4 DEF IInv, Shape
<1>4. ASSUME NEW l \in Leases, NEW g \in Gens, AcquireInheritedLease(l, g) PROVE IInv'
  <2>0. lease[l] = NoGen /\ Accepts(g)
    BY <1>4 DEF AcquireInheritedLease, FirstUse, ReservablePreferred
  <2>1. TypeOK'
    BY <1>4 DEF AcquireInheritedLease, Reserve, IInv, TypeOK, GenOrNone, Gens, slotVars, subVars, kidVars, strayVars
  <2>2. ReservationsCounted'
    BY <1>4, <2>0, CountLeaseTaken DEF AcquireInheritedLease, IInv, subVars, kidVars
  <2>3. Shape'
    BY <1>4, <2>0, ReserveKeepsShape DEF AcquireInheritedLease, IInv, Shape
  <2>4. HoldersPlaced'
    BY <1>4 DEF AcquireInheritedLease, IInv, HoldersPlaced, subVars, kidVars
  <2> QED BY <2>1, <2>2, <2>3, <2>4 DEF IInv, Shape
<1>5. ASSUME NEW l \in Leases, ReleaseLease(l) PROVE IInv'
  <2> DEFINE h == lease[l]
  <2>0. h \in Gens /\ l \in LeasesOn(h)
    BY <1>5 DEF ReleaseLease, IInv, HoldersPlaced, TypeOK, LeasesOn, SubsOn, TasksOn, KidsOn, OwnReservation, TaskReservation
  <2>1. reservations[h] > 0
    BY <2>0, HeldIsPositive DEF IInv
  <2>2. /\ Shape'
        /\ reservations' \in [Gens -> Nat] /\ gstate' \in [Gens -> GenStates]
        /\ seal' \in [Gens -> SealStates]
    BY <1>5, <2>0, <2>1, ReleaseKeepsShape DEF ReleaseLease, IInv, Shape
  <2>3. TypeOK'
    BY <1>5, <2>2 DEF ReleaseLease, IInv, TypeOK, GenOrNone, Returned, slotVars, subVars, kidVars, strayVars
  <2>4. ReservationsCounted'
    BY <1>5, <2>0, CountLeaseReturned DEF ReleaseLease, Release, IInv, HoldersPlaced, subVars, kidVars
  <2>5. HoldersPlaced'
    BY <1>5 DEF ReleaseLease, IInv, HoldersPlaced, TypeOK, subVars, kidVars
  <2> QED BY <2>2, <2>3, <2>4, <2>5 DEF IInv, Shape
<1>6. ASSUME NEW g \in Gens, PostSeal(g) PROVE IInv'
  <2>1. TypeOK'
    BY <1>6 DEF PostSeal, IInv, TypeOK, SubStates, KidStates, StrayStates, CancelStates, GenOrNone, Gens, NoGen, Returned, SealStates, genVars, slotVars, subVars, kidVars, strayVars
  <2>2. ReservationsCounted'
    <3>1. \A n \in Gens : /\ LeasesOn(n)' = LeasesOn(n) /\ SubsOn(n)' = SubsOn(n)
                          /\ TasksOn(n)' = TasksOn(n) /\ KidsOn(n)' = KidsOn(n)
      BY <1>6 DEF PostSeal, LeasesOn, SubsOn, TasksOn, KidsOn, OwnReservation, TaskReservation, TypeOK, genVars, slotVars, subVars, kidVars, strayVars
    <3> QED BY <3>1, <1>6, CountUntouched DEF IInv, PostSeal, genVars, slotVars, subVars, kidVars, strayVars
  <2>3. Shape'
    BY <1>6 DEF PostSeal, IInv, Shape, GenerationShape, SlotShape, Queued, TypeOK, slotVars
  <2>4. HoldersPlaced'
    BY <1>6 DEF PostSeal, IInv, HoldersPlaced, TypeOK, genVars, slotVars, subVars, kidVars, strayVars
  <2> QED BY <2>1, <2>2, <2>3, <2>4 DEF IInv, Shape
<1>7. CASE Shutdown
  <2>1. TypeOK'
    BY <1>7 DEF Shutdown, IInv, TypeOK, SubStates, KidStates, StrayStates, CancelStates, GenOrNone, Gens, NoGen, Returned, genVars, slotVars, subVars, kidVars, strayVars
  <2>2. ReservationsCounted'
    <3>1. \A n \in Gens : /\ LeasesOn(n)' = LeasesOn(n) /\ SubsOn(n)' = SubsOn(n)
                          /\ TasksOn(n)' = TasksOn(n) /\ KidsOn(n)' = KidsOn(n)
      BY <1>7 DEF Shutdown, LeasesOn, SubsOn, TasksOn, KidsOn, OwnReservation, TaskReservation, TypeOK, genVars, slotVars, subVars, kidVars, strayVars
    <3> QED BY <3>1, <1>7, CountUntouched DEF IInv, Shutdown, genVars, slotVars, subVars, kidVars, strayVars
  <2>3. Shape'
    BY <1>7 DEF Shutdown, IInv, Shape, GenerationShape, SlotShape, Queued, genVars, slotVars, subVars, kidVars, strayVars
  <2>4. HoldersPlaced'
    BY <1>7 DEF Shutdown, IInv, HoldersPlaced, TypeOK, genVars, slotVars, subVars, kidVars, strayVars
  <2> QED BY <2>1, <2>2, <2>3, <2>4 DEF IInv, Shape
<1>8. ASSUME NEW s \in Subs, NEW l \in Leases, NEW o \in Subs \cup {NoSub}, Submit(s, l, o) PROVE IInv'
  <2> DEFINE h == lease[l]
  <2>0. h \in Gens /\ subPc[s] = "idle" /\ Accepts(h)
    BY <1>8 DEF Submit, ReservablePreferred
  <2>1. TypeOK'
    BY <1>8 DEF Submit, Reserve, IInv, TypeOK, SubStates, GenOrNone, Gens, slotVars, kidVars, strayVars
  <2>2. ReservationsCounted'
    BY <1>8, <2>0, CountSubmitted DEF Submit, IInv, kidVars
  <2>3. Shape'
    BY <1>8, <2>0, ReserveKeepsShape DEF Submit, IInv, Shape
  <2>4. HoldersPlaced'
    BY <1>8 DEF Submit, IInv, HoldersPlaced, TypeOK, kidVars
  <2> QED BY <2>1, <2>2, <2>3, <2>4 DEF IInv, Shape
<1>9. ASSUME NEW s \in Subs, NEW l \in Leases, SubmitRefused(s, l) PROVE IInv'
  <2>1. TypeOK'
    BY <1>9 DEF SubmitRefused, IInv, TypeOK, SubStates, KidStates, StrayStates, CancelStates, GenOrNone, Gens, NoGen, Returned, genVars, slotVars, subVars, kidVars, strayVars
  <2>2. ReservationsCounted'
    <3>1. \A n \in Gens : /\ LeasesOn(n)' = LeasesOn(n) /\ SubsOn(n)' = SubsOn(n)
                          /\ TasksOn(n)' = TasksOn(n) /\ KidsOn(n)' = KidsOn(n)
      BY <1>9 DEF SubmitRefused, LeasesOn, SubsOn, TasksOn, KidsOn, OwnReservation, TaskReservation, TypeOK, genVars, slotVars, subVars, kidVars, strayVars
    <3> QED BY <3>1, <1>9, CountUntouched DEF IInv, SubmitRefused, genVars, slotVars, subVars, kidVars, strayVars
  <2>3. Shape'
    BY <1>9 DEF SubmitRefused, IInv, Shape, GenerationShape, SlotShape, Queued, genVars, slotVars, subVars, kidVars, strayVars
  <2>4. HoldersPlaced'
    BY <1>9 DEF SubmitRefused, IInv, HoldersPlaced, TypeOK, genVars, slotVars, subVars, kidVars, strayVars
  <2> QED BY <2>1, <2>2, <2>3, <2>4 DEF IInv, Shape
<1>10. ASSUME NEW s \in Subs, StartSubmission(s) PROVE IInv'
  <2>0. subGen[s] \in Gens /\ subPc[s] = "scheduled"
    BY <1>10 DEF StartSubmission, IInv, HoldersPlaced
  <2>1. TypeOK'
    <3>1. reservations' \in [Gens -> Nat]
      <4>1. UNCHANGED reservations \/ Reserve(subGen[s])
        BY <1>10 DEF StartSubmission
      <4>2. reservations \in [Gens -> Nat]
        BY DEF IInv, TypeOK
      <4>3. CASE Reserve(subGen[s])
        BY <4>2, <4>3, <2>0 DEF Reserve
      <4> QED BY <4>1, <4>2, <4>3
    <3>2. subPc' \in [Subs -> SubStates]
      BY <1>10 DEF StartSubmission, IInv, TypeOK, SubStates
    <3> QED BY <3>1, <3>2, <1>10 DEF StartSubmission, IInv, TypeOK, slotVars, kidVars, strayVars
  <2>2. CASE outer[s] = NoSub
    <3>1. \A n \in Gens : /\ LeasesOn(n)' = LeasesOn(n) /\ SubsOn(n)' = SubsOn(n)
                          /\ TasksOn(n)' = TasksOn(n) /\ KidsOn(n)' = KidsOn(n)
      BY <1>10, <2>2 DEF StartSubmission, LeasesOn, SubsOn, TasksOn, KidsOn, OwnReservation,
                        TaskReservation, IInv, TypeOK, kidVars
    <3>2. ReservationsCounted'
      BY <3>1, <1>10, <2>2, CountUntouched DEF StartSubmission, IInv
    <3>3. Shape'
      BY <1>10, <2>2 DEF StartSubmission, IInv, Shape, GenerationShape, SlotShape, Queued, slotVars
    <3>4. HoldersPlaced'
      BY <1>10, <2>0, <2>2 DEF StartSubmission, IInv, HoldersPlaced, TypeOK, kidVars
    <3> QED BY <2>1, <3>2, <3>3, <3>4 DEF IInv, Shape
  <2>3. CASE outer[s] # NoSub
    <3>1. ReservationsCounted'
      BY <1>10, <2>0, <2>3, CountStarted DEF StartSubmission, IInv, kidVars
    <3>2. Shape'
      BY <1>10, <2>0, <2>3, ReserveKeepsShape DEF StartSubmission, MayRetain, Accepts, IInv, Shape
    <3>3. HoldersPlaced'
      BY <1>10, <2>0, <2>3 DEF StartSubmission, IInv, HoldersPlaced, TypeOK, kidVars
    <3> QED BY <2>1, <3>1, <3>2, <3>3 DEF IInv, Shape
  <2> QED BY <2>2, <2>3
<1>11. ASSUME NEW s \in Subs, RunSubmission(s) PROVE IInv'
  <2>1. TypeOK'
    BY <1>11 DEF RunSubmission, IInv, TypeOK, SubStates, KidStates, StrayStates, CancelStates, GenOrNone, Gens, NoGen, Returned, genVars, slotVars, subVars, kidVars, strayVars
  <2>2. ReservationsCounted'
    <3>1. \A n \in Gens : /\ LeasesOn(n)' = LeasesOn(n) /\ SubsOn(n)' = SubsOn(n)
                          /\ TasksOn(n)' = TasksOn(n) /\ KidsOn(n)' = KidsOn(n)
      BY <1>11 DEF RunSubmission, LeasesOn, SubsOn, TasksOn, KidsOn, OwnReservation, TaskReservation, TypeOK, genVars, slotVars, subVars, kidVars, strayVars
    <3> QED BY <3>1, <1>11, CountUntouched DEF IInv, RunSubmission, genVars, slotVars, subVars, kidVars, strayVars
  <2>3. Shape'
    BY <1>11 DEF RunSubmission, IInv, Shape, GenerationShape, SlotShape, Queued, genVars, slotVars, subVars, kidVars, strayVars
  <2>4. HoldersPlaced'
    BY <1>11 DEF RunSubmission, IInv, HoldersPlaced, TypeOK, genVars, slotVars, subVars, kidVars, strayVars
  <2> QED BY <2>1, <2>2, <2>3, <2>4 DEF IInv, Shape
<1>12. ASSUME NEW s \in Subs, FinishSubmission(s) PROVE IInv'
  <2> DEFINE h == subGen[s]
  <2>0. h \in Gens /\ s \in SubsOn(h)
    BY <1>12 DEF FinishSubmission, IInv, HoldersPlaced, TypeOK, LeasesOn, SubsOn, TasksOn, KidsOn, OwnReservation, TaskReservation
  <2>1. reservations[h] > 0
    BY <2>0, HeldIsPositive DEF IInv
  <2>2. /\ Shape'
        /\ reservations' \in [Gens -> Nat] /\ gstate' \in [Gens -> GenStates]
        /\ seal' \in [Gens -> SealStates]
    BY <1>12, <2>0, <2>1, ReleaseKeepsShape DEF FinishSubmission, IInv, Shape
  <2>3. TypeOK'
    BY <1>12, <2>2 DEF FinishSubmission, IInv, TypeOK, SubStates, AfterFinish, slotVars, subVars, kidVars, strayVars
  <2>4. ReservationsCounted'
    BY <1>12, <2>0, CountFinished DEF FinishSubmission, Release, IInv, HoldersPlaced, subVars, kidVars
  <2>5. HoldersPlaced'
    BY <1>12 DEF FinishSubmission, IInv, HoldersPlaced, TypeOK, subVars, kidVars, AfterFinish
  <2> QED BY <2>2, <2>3, <2>4, <2>5 DEF IInv, Shape
<1>13. ASSUME NEW s \in Subs, SubmissionTaskDone(s) PROVE IInv'
  <2> DEFINE h == subGen[s]
  <2>0. h \in Gens /\ s \in TasksOn(h) /\ outer[s] # NoSub
    BY <1>13 DEF SubmissionTaskDone, IInv, HoldersPlaced, TypeOK, LeasesOn, SubsOn, TasksOn, KidsOn, OwnReservation, TaskReservation
  <2>1. reservations[h] > 0
    BY <2>0, HeldIsPositive DEF IInv
  <2>2. /\ Shape'
        /\ reservations' \in [Gens -> Nat] /\ gstate' \in [Gens -> GenStates]
        /\ seal' \in [Gens -> SealStates]
    BY <1>13, <2>0, <2>1, ReleaseKeepsShape DEF SubmissionTaskDone, IInv, Shape
  <2>3. TypeOK'
    BY <1>13, <2>2 DEF SubmissionTaskDone, IInv, TypeOK, SubStates, slotVars, subVars, kidVars, strayVars
  <2>4. ReservationsCounted'
    BY <1>13, <2>0, CountTaskDone DEF SubmissionTaskDone, Release, IInv, HoldersPlaced, subVars, kidVars
  <2>5. HoldersPlaced'
    BY <1>13 DEF SubmissionTaskDone, IInv, HoldersPlaced, TypeOK, subVars, kidVars
  <2> QED BY <2>2, <2>3, <2>4, <2>5 DEF IInv, Shape
<1>14. ASSUME NEW s \in Subs, CancelRequest(s) PROVE IInv'
  <2>1. TypeOK'
    BY <1>14 DEF CancelRequest, IInv, TypeOK, SubStates, KidStates, StrayStates, CancelStates, GenOrNone, Gens, NoGen, Returned, genVars, slotVars, subVars, kidVars, strayVars
  <2>2. ReservationsCounted'
    <3>1. \A n \in Gens : /\ LeasesOn(n)' = LeasesOn(n) /\ SubsOn(n)' = SubsOn(n)
                          /\ TasksOn(n)' = TasksOn(n) /\ KidsOn(n)' = KidsOn(n)
      BY <1>14 DEF CancelRequest, LeasesOn, SubsOn, TasksOn, KidsOn, OwnReservation, TaskReservation, TypeOK, genVars, slotVars, subVars, kidVars, strayVars
    <3> QED BY <3>1, <1>14, CountUntouched DEF IInv, CancelRequest, genVars, slotVars, subVars, kidVars, strayVars
  <2>3. Shape'
    BY <1>14 DEF CancelRequest, IInv, Shape, GenerationShape, SlotShape, Queued, genVars, slotVars, subVars, kidVars, strayVars
  <2>4. HoldersPlaced'
    BY <1>14 DEF CancelRequest, IInv, HoldersPlaced, TypeOK, genVars, slotVars, subVars, kidVars, strayVars
  <2> QED BY <2>1, <2>2, <2>3, <2>4 DEF IInv, Shape
<1>15. ASSUME NEW s \in Subs, CancelPost(s) PROVE IInv'
  <2>1. TypeOK'
    BY <1>15 DEF CancelPost, IInv, TypeOK, SubStates, KidStates, StrayStates, CancelStates, GenOrNone, Gens, NoGen, Returned, genVars, slotVars, subVars, kidVars, strayVars
  <2>2. ReservationsCounted'
    <3>1. \A n \in Gens : /\ LeasesOn(n)' = LeasesOn(n) /\ SubsOn(n)' = SubsOn(n)
                          /\ TasksOn(n)' = TasksOn(n) /\ KidsOn(n)' = KidsOn(n)
      BY <1>15 DEF CancelPost, LeasesOn, SubsOn, TasksOn, KidsOn, OwnReservation, TaskReservation, TypeOK, genVars, slotVars, subVars, kidVars, strayVars
    <3> QED BY <3>1, <1>15, CountUntouched DEF IInv, CancelPost, genVars, slotVars, subVars, kidVars, strayVars
  <2>3. Shape'
    BY <1>15 DEF CancelPost, IInv, Shape, GenerationShape, SlotShape, Queued, genVars, slotVars, subVars, kidVars, strayVars
  <2>4. HoldersPlaced'
    BY <1>15 DEF CancelPost, IInv, HoldersPlaced, TypeOK, genVars, slotVars, subVars, kidVars, strayVars
  <2> QED BY <2>1, <2>2, <2>3, <2>4 DEF IInv, Shape
<1>16. ASSUME NEW s \in Subs, CancelTasks(s) PROVE IInv'
  <2>1. TypeOK'
    BY <1>16 DEF CancelTasks, IInv, TypeOK, SubStates, KidStates, StrayStates, CancelStates, GenOrNone, Gens, NoGen, Returned, genVars, slotVars, subVars, kidVars, strayVars
  <2>2. ReservationsCounted'
    <3>1. \A n \in Gens : /\ LeasesOn(n)' = LeasesOn(n) /\ SubsOn(n)' = SubsOn(n)
                          /\ TasksOn(n)' = TasksOn(n) /\ KidsOn(n)' = KidsOn(n)
      BY <1>16 DEF CancelTasks, LeasesOn, SubsOn, TasksOn, KidsOn, OwnReservation, TaskReservation, TypeOK, genVars, slotVars, subVars, kidVars, strayVars, IInv
    <3> QED BY <3>1, <1>16, CountUntouched DEF IInv, CancelTasks, genVars, slotVars, subVars, kidVars, strayVars
  <2>3. Shape'
    BY <1>16 DEF CancelTasks, IInv, Shape, GenerationShape, SlotShape, Queued, genVars, slotVars, subVars, kidVars, strayVars
  <2>4. HoldersPlaced'
    BY <1>16 DEF CancelTasks, IInv, HoldersPlaced, TypeOK, genVars, slotVars, subVars, kidVars, strayVars
  <2> QED BY <2>1, <2>2, <2>3, <2>4 DEF IInv, Shape
<1>17. ASSUME NEW j \in Kids, NEW g \in Gens, CreateDescendant(j, g) PROVE IInv'
  <2>0. kidPc[j] = "idle"
    BY <1>17 DEF CreateDescendant
  <2>1. TypeOK'
    <3>1. reservations' \in [Gens -> Nat]
      BY <1>17 DEF CreateDescendant, Reserve, IInv, TypeOK
    <3>2. kidPc' \in [Kids -> KidStates]
      <4>1. \/ kidPc' = [kidPc EXCEPT ![j] = "live"] \/ kidPc' = [kidPc EXCEPT ![j] = "refused"]
        BY <1>17 DEF CreateDescendant
      <4> QED BY <4>1 DEF IInv, TypeOK, KidStates
    <3>3. kidGen' \in [Kids -> GenOrNone]
      BY <1>17 DEF CreateDescendant, IInv, TypeOK, GenOrNone, Gens
    <3> QED BY <3>1, <3>2, <3>3, <1>17 DEF CreateDescendant, IInv, TypeOK, slotVars, subVars, strayVars
  <2>2. CASE MayRetain(g)
    <3>1. ReservationsCounted'
      BY <1>17, <2>0, <2>2, CountSpawned DEF CreateDescendant, IInv, subVars
    <3>2. Shape'
      BY <1>17, <2>2, ReserveKeepsShape DEF CreateDescendant, MayRetain, Accepts, IInv, Shape
    <3>3. HoldersPlaced'
      BY <1>17, <2>2 DEF CreateDescendant, IInv, HoldersPlaced, TypeOK, subVars
    <3> QED BY <2>1, <3>1, <3>2, <3>3 DEF IInv, Shape
  <2>3. CASE ~MayRetain(g)
    <3>1. \A i \in Gens : /\ LeasesOn(i)' = LeasesOn(i) /\ SubsOn(i)' = SubsOn(i)
                          /\ TasksOn(i)' = TasksOn(i) /\ KidsOn(i)' = KidsOn(i)
      BY <1>17, <2>0, <2>3 DEF CreateDescendant, LeasesOn, SubsOn, TasksOn, KidsOn, IInv, TypeOK, subVars
    <3>2. ReservationsCounted'
      BY <3>1, <1>17, <2>3, CountUntouched DEF CreateDescendant, IInv
    <3>3. Shape'
      BY <1>17, <2>3 DEF CreateDescendant, IInv, Shape, GenerationShape, SlotShape, Queued, slotVars
    <3>4. HoldersPlaced'
      BY <1>17, <2>3 DEF CreateDescendant, IInv, HoldersPlaced, TypeOK, subVars
    <3> QED BY <2>1, <3>2, <3>3, <3>4 DEF IInv, Shape
  <2> QED BY <2>2, <2>3
<1>18. ASSUME NEW j \in Kids, FinishDescendant(j) PROVE IInv'
  <2>1. TypeOK'
    BY <1>18 DEF FinishDescendant, IInv, TypeOK, SubStates, KidStates, StrayStates, CancelStates, GenOrNone, Gens, NoGen, Returned, genVars, slotVars, subVars, kidVars, strayVars
  <2>2. ReservationsCounted'
    <3>1. \A n \in Gens : /\ LeasesOn(n)' = LeasesOn(n) /\ SubsOn(n)' = SubsOn(n)
                          /\ TasksOn(n)' = TasksOn(n) /\ KidsOn(n)' = KidsOn(n)
      BY <1>18 DEF FinishDescendant, LeasesOn, SubsOn, TasksOn, KidsOn, OwnReservation, TaskReservation, TypeOK, genVars, slotVars, subVars, kidVars, strayVars
    <3> QED BY <3>1, <1>18, CountUntouched DEF IInv, FinishDescendant, genVars, slotVars, subVars, kidVars, strayVars
  <2>3. Shape'
    BY <1>18 DEF FinishDescendant, IInv, Shape, GenerationShape, SlotShape, Queued, genVars, slotVars, subVars, kidVars, strayVars
  <2>4. HoldersPlaced'
    BY <1>18 DEF FinishDescendant, IInv, HoldersPlaced, TypeOK, genVars, slotVars, subVars, kidVars, strayVars
  <2> QED BY <2>1, <2>2, <2>3, <2>4 DEF IInv, Shape
<1>19. ASSUME NEW j \in Kids, DescendantDone(j) PROVE IInv'
  <2> DEFINE h == kidGen[j]
  <2>0. h \in Gens /\ j \in KidsOn(h)
    BY <1>19 DEF DescendantDone, IInv, HoldersPlaced, TypeOK, LeasesOn, SubsOn, TasksOn, KidsOn, OwnReservation, TaskReservation
  <2>1. reservations[h] > 0
    BY <2>0, HeldIsPositive DEF IInv
  <2>2. /\ Shape'
        /\ reservations' \in [Gens -> Nat] /\ gstate' \in [Gens -> GenStates]
        /\ seal' \in [Gens -> SealStates]
    BY <1>19, <2>0, <2>1, ReleaseKeepsShape DEF DescendantDone, IInv, Shape
  <2>3. TypeOK'
    BY <1>19, <2>2 DEF DescendantDone, IInv, TypeOK, KidStates, slotVars, subVars, kidVars, strayVars
  <2>4. ReservationsCounted'
    BY <1>19, <2>0, CountSpawnedDone DEF DescendantDone, Release, IInv, HoldersPlaced, subVars, kidVars
  <2>5. HoldersPlaced'
    BY <1>19 DEF DescendantDone, IInv, HoldersPlaced, TypeOK, subVars, kidVars
  <2> QED BY <2>2, <2>3, <2>4, <2>5 DEF IInv, Shape
<1>20. ASSUME NEW x \in Strays, NEW g \in Gens, SpawnStray(x, g) PROVE IInv'
  <2>1. TypeOK'
    BY <1>20 DEF SpawnStray, IInv, TypeOK, SubStates, KidStates, StrayStates, CancelStates, GenOrNone, Gens, NoGen, Returned, genVars, slotVars, subVars, kidVars, strayVars
  <2>2. ReservationsCounted'
    <3>1. \A n \in Gens : /\ LeasesOn(n)' = LeasesOn(n) /\ SubsOn(n)' = SubsOn(n)
                          /\ TasksOn(n)' = TasksOn(n) /\ KidsOn(n)' = KidsOn(n)
      BY <1>20 DEF SpawnStray, LeasesOn, SubsOn, TasksOn, KidsOn, OwnReservation, TaskReservation, TypeOK, genVars, slotVars, subVars, kidVars, strayVars
    <3> QED BY <3>1, <1>20, CountUntouched DEF IInv, SpawnStray, genVars, slotVars, subVars, kidVars, strayVars
  <2>3. Shape'
    BY <1>20 DEF SpawnStray, IInv, Shape, GenerationShape, SlotShape, Queued, genVars, slotVars, subVars, kidVars, strayVars
  <2>4. HoldersPlaced'
    BY <1>20 DEF SpawnStray, IInv, HoldersPlaced, TypeOK, genVars, slotVars, subVars, kidVars, strayVars
  <2> QED BY <2>1, <2>2, <2>3, <2>4 DEF IInv, Shape
<1>21. ASSUME NEW x \in Strays, FinishStray(x) PROVE IInv'
  <2>1. TypeOK'
    BY <1>21 DEF FinishStray, IInv, TypeOK, SubStates, KidStates, StrayStates, CancelStates, GenOrNone, Gens, NoGen, Returned, genVars, slotVars, subVars, kidVars, strayVars
  <2>2. ReservationsCounted'
    <3>1. \A n \in Gens : /\ LeasesOn(n)' = LeasesOn(n) /\ SubsOn(n)' = SubsOn(n)
                          /\ TasksOn(n)' = TasksOn(n) /\ KidsOn(n)' = KidsOn(n)
      BY <1>21 DEF FinishStray, LeasesOn, SubsOn, TasksOn, KidsOn, OwnReservation, TaskReservation, TypeOK, genVars, slotVars, subVars, kidVars, strayVars
    <3> QED BY <3>1, <1>21, CountUntouched DEF IInv, FinishStray, genVars, slotVars, subVars, kidVars, strayVars
  <2>3. Shape'
    BY <1>21 DEF FinishStray, IInv, Shape, GenerationShape, SlotShape, Queued, genVars, slotVars, subVars, kidVars, strayVars
  <2>4. HoldersPlaced'
    BY <1>21 DEF FinishStray, IInv, HoldersPlaced, TypeOK, genVars, slotVars, subVars, kidVars, strayVars
  <2> QED BY <2>1, <2>2, <2>3, <2>4 DEF IInv, Shape
<1>22. ASSUME NEW g \in Gens, OpenGeneration(g) PROVE IInv'
  <2>0. /\ worker = NoGen /\ g = Head(queue) /\ queue # <<>>
        /\ queue' = Tail(queue) /\ worker' = g
        /\ loop' = [loop EXCEPT ![g] = "open"]
        /\ gstate' = [gstate EXCEPT ![g] = IF reservations[g] = 0 THEN "SEALING" ELSE "OPEN"]
        /\ seal' = [seal EXCEPT ![g] = IF reservations[g] = 0 THEN "scheduled" ELSE @]
        /\ UNCHANGED <<counter, reservations, current, next>>
    BY <1>22 DEF OpenGeneration, StateOnOpen
  <2>a. g = current /\ current # NoGen /\ queue' = Queued(next)
    <3>1. queue = Queued(current) \o Queued(next)
      BY <2>0 DEF IInv, SlotShape
    <3>2. CASE current = NoGen
      <4>1. queue = <<>> \o <<>>
        BY <3>1, <3>2 DEF IInv, SlotShape, Queued
      <4> QED BY <4>1, <2>0
    <3>3. CASE current # NoGen
      <4>1. queue = <<current>> \o <<>> \/ queue = <<current>> \o <<next>>
        BY <3>1, <3>3 DEF Queued
      <4> QED BY <4>1, <3>1, <3>3, <2>0 DEF Queued
    <3> QED BY <3>2, <3>3
  <2>b. gstate[g] \in {"QUEUED", "SEALING"} /\ loop[g] = "none" /\ seal[g] = "no"
    <3>1. gstate[g] \notin {"none", "CLOSED"} /\ loop[g] = "none"
      BY <2>0, <2>a DEF IInv, SlotShape, Gens, NoGen
    <3> QED BY <3>1 DEF IInv, GenerationShape, TypeOK, GenStates
  <2>1. TypeOK'
    <3>1. queue' \in Seq(Gens)
      BY <2>0 DEF IInv, TypeOK
    <3>2. gstate' \in [Gens -> GenStates] /\ seal' \in [Gens -> SealStates]
      BY <2>0 DEF IInv, TypeOK, GenStates, SealStates
    <3>3. subPc' \in [Subs -> SubStates]
      BY <1>22 DEF OpenGeneration, IInv, TypeOK, SubStates
    <3>4. loop' \in [Gens -> {"none", "open", "closed"}] /\ worker' \in GenOrNone
      BY <2>0 DEF IInv, TypeOK, GenOrNone, Gens
    <3> QED BY <3>1, <3>2, <3>3, <3>4, <2>0, <1>22 DEF OpenGeneration, IInv, TypeOK, kidVars, strayVars
  <2>2. ReservationsCounted'
    <3>1. \A i \in Gens : /\ LeasesOn(i)' = LeasesOn(i) /\ SubsOn(i)' = SubsOn(i)
                          /\ TasksOn(i)' = TasksOn(i) /\ KidsOn(i)' = KidsOn(i)
      BY <1>22 DEF OpenGeneration, ScheduledOnOpen, LeasesOn, SubsOn, TasksOn, KidsOn,
                  OwnReservation, TaskReservation, IInv, TypeOK, kidVars
    <3> QED BY <3>1, <2>0, CountUntouched DEF IInv
  <2>3. GenerationShape'
    <3>1. reservations[g] \in Nat
      BY DEF IInv, TypeOK
    <3> QED BY <2>0, <2>b, <3>1 DEF IInv, TypeOK, GenerationShape
  <2>4. SlotShape'
    <3>1. \A i \in Gens : gstate'[i] \notin {"none", "CLOSED"} <=> i \in {current', next'}
      BY <2>0, <2>b DEF IInv, SlotShape, TypeOK
    <3>2. \A i \in Gens : loop'[i] # "none" <=> worker' = i
      <4>1. \A i \in Gens : loop[i] = "none"
        BY <2>0 DEF IInv, SlotShape, NoGen, Gens
      <4>2. \A i \in Gens : loop'[i] = IF i = g THEN "open" ELSE loop[i]
        BY <2>0 DEF IInv, TypeOK
      <4> QED BY <4>1, <4>2, <2>0
    <3> QED BY <3>1, <3>2, <2>0, <2>a DEF IInv, SlotShape, NoGen, Gens, Queued
  <2>5. HoldersPlaced'
    BY <1>22 DEF OpenGeneration, ScheduledOnOpen, IInv, HoldersPlaced, TypeOK, kidVars
  <2> QED BY <2>1, <2>2, <2>3, <2>4, <2>5 DEF IInv
<1>23. ASSUME NEW g \in Gens, SetSealEvent(g) PROVE IInv'
  <2>1. TypeOK'
    BY <1>23 DEF SetSealEvent, IInv, TypeOK, SubStates, KidStates, StrayStates, CancelStates, GenOrNone, Gens, NoGen, Returned, SealStates, genVars, slotVars, subVars, kidVars, strayVars
  <2>2. ReservationsCounted'
    <3>1. \A n \in Gens : /\ LeasesOn(n)' = LeasesOn(n) /\ SubsOn(n)' = SubsOn(n)
                          /\ TasksOn(n)' = TasksOn(n) /\ KidsOn(n)' = KidsOn(n)
      BY <1>23 DEF SetSealEvent, LeasesOn, SubsOn, TasksOn, KidsOn, OwnReservation, TaskReservation, TypeOK, genVars, slotVars, subVars, kidVars, strayVars
    <3> QED BY <3>1, <1>23, CountUntouched DEF IInv, SetSealEvent, genVars, slotVars, subVars, kidVars, strayVars
  <2>3. Shape'
    BY <1>23 DEF SetSealEvent, IInv, Shape, GenerationShape, SlotShape, Queued, TypeOK, slotVars
  <2>4. HoldersPlaced'
    BY <1>23 DEF SetSealEvent, IInv, HoldersPlaced, TypeOK, genVars, slotVars, subVars, kidVars, strayVars
  <2> QED BY <2>1, <2>2, <2>3, <2>4 DEF IInv, Shape
<1>24. ASSUME NEW g \in Gens, Drain(g) PROVE IInv'
  <2>1. TypeOK'
    BY <1>24 DEF Drain, IInv, TypeOK, SubStates, KidStates, StrayStates, CancelStates, GenOrNone, Gens, NoGen, Returned, GenStates, genVars, slotVars, subVars, kidVars, strayVars
  <2>2. ReservationsCounted'
    <3>1. \A n \in Gens : /\ LeasesOn(n)' = LeasesOn(n) /\ SubsOn(n)' = SubsOn(n)
                          /\ TasksOn(n)' = TasksOn(n) /\ KidsOn(n)' = KidsOn(n)
      BY <1>24 DEF Drain, LeasesOn, SubsOn, TasksOn, KidsOn, OwnReservation, TaskReservation, TypeOK, genVars, slotVars, subVars, kidVars, strayVars
    <3> QED BY <3>1, <1>24, CountUntouched DEF IInv, Drain, genVars, slotVars, subVars, kidVars, strayVars
  <2>3. Shape'
    <3>1. GenerationShape'
      BY <1>24 DEF Drain, IInv, GenerationShape, TypeOK, GenStates, slotVars
    <3>2. \A i \in Gens : gstate'[i] \notin {"none", "CLOSED"} <=> gstate[i] \notin {"none", "CLOSED"}
      BY <1>24 DEF Drain, IInv, GenerationShape, TypeOK
    <3>3. SlotShape'
      BY <1>24, <3>2 DEF Drain, IInv, SlotShape, Queued, slotVars
    <3> QED BY <3>1, <3>3 DEF Shape
  <2>4. HoldersPlaced'
    BY <1>24 DEF Drain, IInv, HoldersPlaced, TypeOK, genVars, slotVars, subVars, kidVars, strayVars
  <2> QED BY <2>1, <2>2, <2>3, <2>4 DEF IInv, Shape
<1>25. ASSUME NEW g \in Gens, CloseLoop(g) PROVE IInv'
  <2>1. TypeOK'
    BY <1>25 DEF CloseLoop, IInv, TypeOK, SubStates, KidStates, StrayStates, CancelStates, GenOrNone, Gens, NoGen, Returned, genVars, slotVars, subVars, kidVars, strayVars
  <2>2. ReservationsCounted'
    <3>1. \A n \in Gens : /\ LeasesOn(n)' = LeasesOn(n) /\ SubsOn(n)' = SubsOn(n)
                          /\ TasksOn(n)' = TasksOn(n) /\ KidsOn(n)' = KidsOn(n)
      BY <1>25 DEF CloseLoop, LeasesOn, SubsOn, TasksOn, KidsOn, OwnReservation, TaskReservation, TypeOK, genVars, slotVars, subVars, kidVars, strayVars
    <3> QED BY <3>1, <1>25, CountUntouched DEF IInv, CloseLoop, genVars, slotVars, subVars, kidVars, strayVars
  <2>3. Shape'
    BY <1>25 DEF CloseLoop, IInv, Shape, GenerationShape, SlotShape, Queued, TypeOK, slotVars
  <2>4. HoldersPlaced'
    BY <1>25 DEF CloseLoop, IInv, HoldersPlaced, TypeOK, genVars, slotVars, subVars, kidVars, strayVars
  <2> QED BY <2>1, <2>2, <2>3, <2>4 DEF IInv, Shape
<1>26. ASSUME NEW g \in Gens, CloseGeneration(g) PROVE IInv'
  <2>0. /\ worker = g /\ loop[g] = "closed"
        /\ loop' = [loop EXCEPT ![g] = "none"] /\ gstate' = [gstate EXCEPT ![g] = "CLOSED"]
        /\ current' = IF current = g THEN next ELSE current
        /\ next' = IF current = g THEN NoGen ELSE next
        /\ worker' = NoGen
        /\ UNCHANGED <<counter, reservations, seal, queue>>
    BY <1>26 DEF CloseGeneration
  <2>a. g = current /\ gstate[g] = "DRAINING"
    <3>1. g = current
      BY <2>0 DEF IInv, SlotShape, Gens, NoGen
    <3>2. gstate[g] \in GenStates
      BY DEF IInv, TypeOK
    <3> QED BY <3>1, <3>2, <2>0 DEF IInv, GenerationShape, GenStates
  <2>1. TypeOK'
    BY <2>0, <1>26 DEF CloseGeneration, IInv, TypeOK, GenStates, GenOrNone, Gens, NoGen, subVars, kidVars
  <2>2. ReservationsCounted'
    <3>1. \A i \in Gens : /\ LeasesOn(i)' = LeasesOn(i) /\ SubsOn(i)' = SubsOn(i)
                          /\ TasksOn(i)' = TasksOn(i) /\ KidsOn(i)' = KidsOn(i)
      BY <1>26 DEF CloseGeneration, LeasesOn, SubsOn, TasksOn, KidsOn, subVars, kidVars
    <3> QED BY <3>1, <2>0, CountUntouched DEF IInv
  <2>3. GenerationShape'
    BY <2>0, <2>a DEF IInv, TypeOK, GenerationShape
  <2>4. SlotShape'
    <3>1. current' = next /\ next' = NoGen
      BY <2>0, <2>a
    <3>2. next \in GenOrNone /\ next # g
      BY <2>a DEF IInv, TypeOK, SlotShape, GenOrNone, Gens, NoGen
    <3>3. queue' = Queued(current') \o Queued(next')
      <4>1. queue = Queued(next) /\ worker # NoGen
        BY <2>0 DEF IInv, SlotShape, Gens, NoGen
      <4>2. Queued(next) = Queued(next) \o <<>>
        BY DEF Queued
      <4> QED BY <4>1, <4>2, <3>1, <2>0 DEF Queued
    <3>4. \A i \in Gens : gstate'[i] \notin {"none", "CLOSED"} <=> i \in {current', next'}
      <4>1. \A i \in Gens : gstate'[i] = IF i = g THEN "CLOSED" ELSE gstate[i]
        BY <2>0 DEF IInv, TypeOK
      <4>2. \A i \in Gens : gstate[i] \notin {"none", "CLOSED"} <=> i \in {g, next}
        BY <2>a DEF IInv, SlotShape
      <4> QED BY <4>1, <4>2, <3>1, <3>2 DEF Gens, NoGen
    <3>5. \A i \in Gens : loop'[i] # "none" <=> worker' = i
      BY <2>0 DEF IInv, SlotShape, TypeOK, Gens, NoGen
    <3> QED BY <3>1, <3>3, <3>4, <3>5, <2>0 DEF SlotShape
  <2>5. HoldersPlaced'
    BY <1>26 DEF CloseGeneration, IInv, HoldersPlaced, subVars, kidVars
  <2> QED BY <2>1, <2>2, <2>3, <2>4, <2>5 DEF IInv
<1>27. CASE UNCHANGED vars
  <2>1. TypeOK'
    BY <1>27 DEF vars, IInv, TypeOK, SubStates, KidStates, StrayStates, CancelStates, GenOrNone, Gens, NoGen, Returned, genVars, slotVars, subVars, kidVars, strayVars
  <2>2. ReservationsCounted'
    <3>1. \A n \in Gens : /\ LeasesOn(n)' = LeasesOn(n) /\ SubsOn(n)' = SubsOn(n)
                          /\ TasksOn(n)' = TasksOn(n) /\ KidsOn(n)' = KidsOn(n)
      BY <1>27 DEF vars, LeasesOn, SubsOn, TasksOn, KidsOn, OwnReservation, TaskReservation, TypeOK, genVars, slotVars, subVars, kidVars, strayVars
    <3> QED BY <3>1, <1>27, CountUntouched DEF IInv, vars, genVars, slotVars, subVars, kidVars, strayVars
  <2>3. Shape'
    BY <1>27 DEF vars, IInv, Shape, GenerationShape, SlotShape, Queued, genVars, slotVars, subVars, kidVars, strayVars
  <2>4. HoldersPlaced'
    BY <1>27 DEF vars, IInv, HoldersPlaced, TypeOK, genVars, slotVars, subVars, kidVars, strayVars
  <2> QED BY <2>1, <2>2, <2>3, <2>4 DEF IInv, Shape
<1> QED BY <1>1, <1>2, <1>3, <1>4, <1>5, <1>6, <1>7, <1>8, <1>9, <1>10, <1>11, <1>12, <1>13, <1>14, <1>15, <1>16, <1>17, <1>18, <1>19, <1>20, <1>21, <1>22, <1>23, <1>24, <1>25, <1>26, <1>27
     DEF Next, LeaseStep, SubmitStep, CancelStep, TaskStep, ControlStep

-----------------------------------------------------------------------------
(* What a slot guarantees                                                  *)

\* The strengthened invariant holds in every reachable state.
LEMMA Invariance == Spec => []IInv
BY InitEstablishes, NextKeeps, PTL DEF Spec

\* Every variable stays in its domain; the reservation count of a generation
\* (_Generation.reservations) never goes below zero.
THEOREM TypeCorrect == Spec => []TypeOK
<1>1. IInv => TypeOK
  BY DEF IInv
<1> QED BY Invariance, <1>1, PTL

\* The reservation count is exactly the number of leases, submissions and
\* spawned tasks that have still to call _release_reservation.
THEOREM ReservationsAreCounted == Spec => []ReservationsCounted
<1>1. IInv => ReservationsCounted
  BY DEF IInv
<1> QED BY Invariance, <1>1, PTL

\* A generation that drains or has closed (_run_generation after the seal) has
\* no lease, no unfinished submission and no retained task.
THEOREM NothingIsCutOff == Spec => []NoWorkCutOff
<1>1. ASSUME IInv, NEW g \in Gens, gstate[g] \in {"DRAINING", "CLOSED"}
      PROVE  LeasesOn(g) = {} /\ SubsOn(g) = {} /\ TasksOn(g) = {} /\ KidsOn(g) = {}
  <2>1. ~(reservations[g] > 0)
    BY <1>1 DEF IInv, GenerationShape
  <2> QED BY <2>1, <1>1, HeldIsPositive DEF IInv
<1>2. IInv => NoWorkCutOff
  BY <1>1 DEF NoWorkCutOff
<1> QED BY Invariance, <1>2, PTL

\* A generation that runs stays OPEN while it is reserved, so the task factory
\* and a submission pinned to it are never refused.
THEOREM ReservedStaysOpen == Spec => []ReservedLoopStaysOpen
<1>1. ASSUME IInv, NEW g \in Gens, loop[g] # "none", reservations[g] > 0
      PROVE  gstate[g] = "OPEN"
  <2>1. gstate[g] \in GenStates /\ reservations[g] \in Nat
    BY <1>1 DEF IInv, TypeOK
  <2> QED BY <1>1, <2>1 DEF IInv, GenerationShape, GenStates
<1>2. IInv => ReservedLoopStaysOpen
  BY <1>1 DEF ReservedLoopStaysOpen
<1> QED BY Invariance, <1>2, PTL

\* The call_soon_threadsafe that _release_reservation makes after it dropped
\* the lock finds its loop open, in whatever order the threads run.
THEOREM SealPostAlwaysSafe == Spec => []SealPostIsSafe
<1>1. ASSUME IInv, NEW g \in Gens, seal[g] \in {"loopThread", "otherThread", "scheduled"}
      PROVE  loop[g] = "open" /\ gstate[g] = "SEALING" /\ reservations[g] = 0
  <2>1. gstate[g] \in GenStates
    BY <1>1 DEF IInv, TypeOK
  <2> QED BY <1>1, <2>1 DEF IInv, GenerationShape, GenStates
<1>2. IInv => SealPostIsSafe
  BY <1>1 DEF SealPostIsSafe
<1> QED BY Invariance, <1>2, PTL

\* At most one generation of a slot has a loop, the current one, and the live
\* generations are exactly _current and _next, queued in id order.
THEOREM OneLoop == Spec => []OneLoopPerSlot
<1>1. ASSUME IInv PROVE OneLoopPerSlot
  <2>1. \A g \in Gens : loop[g] # "none" => worker = g
    BY <1>1 DEF IInv, SlotShape
  <2>2. worker # NoGen => worker = current
    BY <1>1 DEF IInv, SlotShape
  <2>3. \A i, j \in DOMAIN queue : i < j => queue[i] < queue[j]
    <3>1. \/ queue = <<>> \/ queue = <<current>> \/ queue = <<next>>
          \/ Len(queue) = 2 /\ queue[1] = current /\ queue[2] = next /\ current < next
      <4>1. CASE next = NoGen
        <5>1. queue = <<>> \o <<>> \/ queue = <<current>> \o <<>> \/ queue = <<>>
          BY <1>1, <4>1 DEF IInv, SlotShape, Queued
        <5> QED BY <5>1
      <4>2. CASE next # NoGen
        <5>1. current # NoGen /\ current < next
          BY <1>1, <4>2 DEF IInv, SlotShape
        <5>2. queue = <<current>> \o <<next>> \/ queue = <<next>>
          BY <1>1, <4>2, <5>1 DEF IInv, SlotShape, Queued
        <5>3. ASSUME NEW a \in Seq(Nat), NEW b \in Seq(Nat), Len(a) = 1, Len(b) = 1
              PROVE  Len(a \o b) = 2 /\ (a \o b)[1] = a[1] /\ (a \o b)[2] = b[1]
          <6>1. /\ Len(a \o b) = Len(a) + Len(b)
                /\ \A i \in 1..(Len(a) + Len(b)) :
                      (a \o b)[i] = IF i <= Len(a) THEN a[i] ELSE b[i - Len(a)]
            BY ConcatProperties, Zenon
          <6>2. 1 \in 1..2 /\ 2 \in 1..2 /\ 1 + 1 = 2 /\ 2 - 1 = 1 /\ 1 <= 1 /\ ~(2 <= 1)
            OBVIOUS
          <6> QED BY <5>3, <6>1, <6>2, Zenon
        <5>4. current \in Nat /\ next \in Nat
          BY <1>1, SlotAssumption DEF IInv, TypeOK, GenOrNone
        <5>5. /\ <<current>> \in Seq(Nat) /\ Len(<<current>>) = 1 /\ <<current>>[1] = current
              /\ <<next>> \in Seq(Nat) /\ Len(<<next>>) = 1 /\ <<next>>[1] = next
          BY <5>4
        <5>6. CASE queue = <<current>> \o <<next>>
          <6>1. /\ Len(<<current>> \o <<next>>) = 2
                /\ (<<current>> \o <<next>>)[1] = <<current>>[1]
                /\ (<<current>> \o <<next>>)[2] = <<next>>[1]
            BY <5>3, <5>5
          <6> QED BY <6>1, <5>1, <5>5, <5>6
        <5> QED BY <5>2, <5>6
      <4> QED BY <4>1, <4>2
    <3>2. DOMAIN queue = 1..Len(queue)
      BY <1>1 DEF IInv, TypeOK
    <3> QED BY <3>1, <3>2
  <2>4. {g \in Gens : gstate[g] \notin {"none", "CLOSED"}} = {current, next} \ {NoGen}
    BY <1>1 DEF IInv, SlotShape, TypeOK, GenOrNone, Gens, NoGen
  <2> QED BY <2>1, <2>2, <2>3, <2>4 DEF OneLoopPerSlot
<1> QED BY Invariance, <1>1, PTL

\* _current changes only to a younger generation or to none, and only when the
\* generation it leaves has closed.
THEOREM HandOver == Spec => HandOverInOrder
<1> DEFINE Ordered == current' # current =>
                        /\ current' # NoGen => current' > current
                        /\ current # NoGen => gstate'[current] = "CLOSED"
<1>1. ASSUME IInv, [Next]_vars PROVE [Ordered]_vars
  <2>1. CASE UNCHANGED current
    BY <2>1
  <2>2. ASSUME NEW l \in Leases, AcquireLeaseOnNew(l) PROVE Ordered
    BY <1>1, <2>2 DEF AcquireLeaseOnNew, AsNext, IInv, TypeOK, GenOrNone, NoGen
  <2>3. ASSUME NEW g \in Gens, CloseGeneration(g) PROVE Ordered
    BY <1>1, <2>3 DEF CloseGeneration, IInv, TypeOK, SlotShape, GenOrNone, NoGen
  <2> QED BY <1>1, <2>1, <2>2, <2>3
         DEF Next, LeaseStep, SubmitStep, CancelStep, TaskStep, ControlStep,
             AcquireLeaseRefused, ReleaseLease, AcquireLease, AcquireInheritedLease, Submit,
             SubmitRefused, CancelRequest, CancelPost, CancelTasks, StartSubmission,
             RunSubmission, FinishSubmission, SubmissionTaskDone, FinishDescendant,
             DescendantDone, CreateDescendant, FinishStray, SpawnStray, PostSeal,
             OpenGeneration, SetSealEvent, Drain, CloseLoop, Shutdown, slotVars
<1> QED BY Invariance, <1>1, PTL DEF Spec, HandOverInOrder
=============================================================================
