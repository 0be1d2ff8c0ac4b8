------------------------ MODULE RootAdmission_proofs ------------------------
(***************************************************************************)
(* Proofs about admission control, for every number of roots, permits and  *)
(* queue places.  IInv is the inductive invariant: TypeOK, PermitsCounted, *)
(* QueueIsWaiting and WorkConserving are not inductive by themselves,      *)
(* because a root that is over must hold neither a permit nor a place in   *)
(* the queue before go() may give it one (LifeCycle).                      *)
(***************************************************************************)
EXTENDS RootAdmission, SequenceTheorems, FiniteSetTheorems, TLAPS

\* Where a root is determines what it holds.
LifeCycle ==
    \A r \in Roots :
        /\ pc[r] \in Over => admission[r] = "none"
        /\ pc[r] \in {"scheduled", "waiting", "running"} /\ parent[r] = NoRoot => admission[r] # "none"
        /\ pc[r] = "running" => admission[r] # "ungranted"

IInv == TypeOK /\ PermitsCounted /\ QueueIsWaiting /\ WorkConserving /\ LifeCycle

Distinct(q) == \A i, j \in 1..Len(q) : q[i] = q[j] => i = j
InQueue(r, q) == \E i \in 1..Len(q) : q[i] = r

-----------------------------------------------------------------------------
(* The queue                                                               *)

\* Removing the first occurrence of the element at place k removes place k.
LEMMA RemoveFirstIsRemoveAt ==
    ASSUME NEW q \in Seq(Roots), Distinct(q), NEW k \in 1..Len(q)
    PROVE  RemoveFirst(q, q[k]) = RemoveAt(q, k)
<1>1. {i \in 1..Len(q) : q[i] = q[k]} = {k}
  BY DEF Distinct
<1>2. Min({k}) = k
  BY DEF Min
<1>3. SelectInSeq(q, LAMBDA v : v = q[k]) = k
  BY <1>1, <1>2 DEF SelectInSeq
<1> QED BY <1>3 DEF RemoveFirst

\* What is left after it: one place less, the others in their order.
LEMMA RemoveAtFacts ==
    ASSUME NEW q \in Seq(Roots), NEW k \in 1..Len(q)
    PROVE  /\ RemoveAt(q, k) \in Seq(Roots)
           /\ Len(RemoveAt(q, k)) = Len(q) - 1
           /\ \A i \in 1..(Len(q) - 1) : RemoveAt(q, k)[i] = IF i < k THEN q[i] ELSE q[i + 1]
<1> DEFINE front == SubSeq(q, 1, k - 1)
           back  == SubSeq(q, k + 1, Len(q))
<1>1. Len(q) \in Nat /\ \A i \in 1..Len(q) : q[i] \in Roots
  BY ElementOfSeq
<1>2. /\ front \in Seq(Roots) /\ Len(front) = k - 1
      /\ \A i \in 1..(k - 1) : front[i] = q[i]
  <2>1. \A i \in 1..(k - 1) : q[i] \in Roots
    BY <1>1
  <2> QED BY <2>1, <1>1, SubSeqProperties
<1>3. /\ back \in Seq(Roots) /\ Len(back) = Len(q) - k
      /\ \A i \in 1..(Len(q) - k) : back[i] = q[k + i]
  <2>1. \A i \in (k + 1)..Len(q) : q[i] \in Roots
    BY <1>1
  <2> QED BY <2>1, <1>1, SubSeqProperties
<1> HIDE DEF front, back
<1>4. /\ front \o back \in Seq(Roots)
      /\ Len(front \o back) = Len(q) - 1
      /\ \A i \in 1..(Len(q) - 1) : (front \o back)[i] = IF i <= k - 1 THEN front[i] ELSE back[i - (k - 1)]
  <2>1. /\ front \o back \in Seq(Roots)
        /\ Len(front \o back) = Len(front) + Len(back)
        /\ \A i \in 1..(Len(front) + Len(back)) :
              (front \o back)[i] = IF i <= Len(front) THEN front[i] ELSE back[i - Len(front)]
    BY <1>2, <1>3, ConcatProperties
  <2>2. Len(front) + Len(back) = Len(q) - 1
    BY <1>1, <1>2, <1>3
  <2> QED BY <2>1, <2>2, <1>2
<1>5. ASSUME NEW i \in 1..(Len(q) - 1)
      PROVE  (front \o back)[i] = IF i < k THEN q[i] ELSE q[i + 1]
  <2>1. CASE i < k
    BY <2>1, <1>1, <1>2, <1>4
  <2>2. CASE ~(i < k)
    <3>1. i - (k - 1) \in 1..(Len(q) - k) /\ k + (i - (k - 1)) = i + 1
      BY <2>2, <1>1
    <3> QED BY <3>1, <2>2, <1>1, <1>3, <1>4
  <2> QED BY <2>1, <2>2
<1> QED BY <1>4, <1>5 DEF RemoveAt, front, back

\* A queue without an element of it holds the others, each once.
LEMMA RemoveFirstFacts ==
    ASSUME NEW q \in Seq(Roots), Distinct(q), NEW r \in Roots, InQueue(r, q)
    PROVE  /\ RemoveFirst(q, r) \in Seq(Roots)
           /\ Distinct(RemoveFirst(q, r))
           /\ \A s \in Roots : InQueue(s, RemoveFirst(q, r)) <=> InQueue(s, q) /\ s # r
<1>1. PICK k \in 1..Len(q) : q[k] = r
  BY DEF InQueue
<1> DEFINE p == RemoveAt(q, k)
<1>2. RemoveFirst(q, r) = p
  BY <1>1, RemoveFirstIsRemoveAt
<1>3. /\ p \in Seq(Roots) /\ Len(p) = Len(q) - 1
      /\ \A i \in 1..(Len(q) - 1) : p[i] = IF i < k THEN q[i] ELSE q[i + 1]
  BY RemoveAtFacts
<1> HIDE DEF p
<1>4. Len(q) \in Nat /\ \A i, j \in 1..Len(q) : q[i] = q[j] => i = j
  BY DEF Distinct
<1>5. Distinct(p)
  <2> SUFFICES ASSUME NEW i \in 1..Len(p), NEW j \in 1..Len(p), p[i] = p[j] PROVE i = j
    BY DEF Distinct
  <2>1. CASE i < k /\ j < k
    BY <2>1, <1>3, <1>4
  <2>2. CASE i < k /\ ~(j < k)
    <3>1. i \in 1..Len(q) /\ j + 1 \in 1..Len(q) /\ q[i] = q[j + 1]
      BY <2>2, <1>3, <1>4
    <3> QED BY <3>1, <2>2, <1>4
  <2>3. CASE ~(i < k) /\ j < k
    <3>1. i + 1 \in 1..Len(q) /\ j \in 1..Len(q) /\ q[i + 1] = q[j]
      BY <2>3, <1>3, <1>4
    <3> QED BY <3>1, <2>3, <1>4
  <2>4. CASE ~(i < k) /\ ~(j < k)
    <3>1. i + 1 \in 1..Len(q) /\ j + 1 \in 1..Len(q) /\ q[i + 1] = q[j + 1]
      BY <2>4, <1>3, <1>4
    <3> QED BY <3>1, <1>4
  <2> QED BY <2>1, <2>2, <2>3, <2>4
<1>6. ASSUME NEW s \in Roots, InQueue(s, p) PROVE InQueue(s, q) /\ s # r
  <2>1. PICK i \in 1..Len(p) : p[i] = s
    BY <1>6 DEF InQueue
  <2>2. CASE i < k
    BY <2>1, <2>2, <1>1, <1>3, <1>4 DEF InQueue
  <2>3. CASE ~(i < k)
    <3>1. i + 1 \in 1..Len(q) /\ q[i + 1] = s /\ i + 1 # k
      BY <2>1, <2>3, <1>3, <1>4
    <3> QED BY <3>1, <1>1, <1>4 DEF InQueue
  <2> QED BY <2>2, <2>3
<1>7. ASSUME NEW s \in Roots, InQueue(s, q), s # r PROVE InQueue(s, p)
  <2>1. PICK i \in 1..Len(q) : q[i] = s
    BY <1>7 DEF InQueue
  <2>2. i # k
    BY <2>1, <1>1, <1>7
  <2>3. CASE i < k
    <3>1. i \in 1..Len(p) /\ p[i] = s
      BY <2>1, <2>3, <1>3, <1>4
    <3> QED BY <3>1 DEF InQueue
  <2>4. CASE k < i
    <3>1. i - 1 \in 1..Len(p) /\ p[i - 1] = q[(i - 1) + 1] /\ (i - 1) + 1 = i
      BY <2>4, <1>3, <1>4
    <3> QED BY <3>1, <2>1 DEF InQueue
  <2> QED BY <2>2, <2>3, <2>4, <1>4
<1> QED BY <1>2, <1>3, <1>5, <1>6, <1>7

\* Taking the head leaves the others, each once.
LEMMA TailFacts ==
    ASSUME NEW q \in Seq(Roots), Distinct(q), q # <<>>
    PROVE  /\ Head(q) \in Roots /\ Tail(q) \in Seq(Roots)
           /\ InQueue(Head(q), q)
           /\ Distinct(Tail(q))
           /\ \A s \in Roots : InQueue(s, Tail(q)) <=> InQueue(s, q) /\ s # Head(q)
<1>1. /\ Len(q) \in Nat \ {0} /\ Head(q) \in Roots /\ Tail(q) \in Seq(Roots)
      /\ Len(Tail(q)) = Len(q) - 1
      /\ \A i \in 1..(Len(q) - 1) : Tail(q)[i] = q[i + 1]
      /\ Head(q) = q[1]
  BY HeadTailProperties, EmptySeq
<1>2. \A i, j \in 1..Len(q) : q[i] = q[j] => i = j
  BY DEF Distinct
<1>3. InQueue(Head(q), q)
  BY <1>1 DEF InQueue
<1>4. Distinct(Tail(q))
  <2> SUFFICES ASSUME NEW i \in 1..Len(Tail(q)), NEW j \in 1..Len(Tail(q)), Tail(q)[i] = Tail(q)[j]
               PROVE i = j
    BY DEF Distinct
  <2>1. i + 1 \in 1..Len(q) /\ j + 1 \in 1..Len(q) /\ q[i + 1] = q[j + 1]
    BY <1>1
  <2> QED BY <2>1, <1>2, <1>1
<1>5. ASSUME NEW s \in Roots, InQueue(s, Tail(q)) PROVE InQueue(s, q) /\ s # Head(q)
  <2>1. PICK i \in 1..Len(Tail(q)) : Tail(q)[i] = s
    BY <1>5 DEF InQueue
  <2>2. i + 1 \in 1..Len(q) /\ q[i + 1] = s /\ i + 1 # 1 /\ 1 \in 1..Len(q)
    BY <2>1, <1>1
  <2> QED BY <2>2, <1>1, <1>2 DEF InQueue
<1>6. ASSUME NEW s \in Roots, InQueue(s, q), s # Head(q) PROVE InQueue(s, Tail(q))
  <2>1. PICK i \in 1..Len(q) : q[i] = s
    BY <1>6 DEF InQueue
  <2>2. i # 1
    BY <2>1, <1>1, <1>6
  <2>3. i - 1 \in 1..Len(Tail(q)) /\ Tail(q)[i - 1] = q[(i - 1) + 1] /\ (i - 1) + 1 = i
    BY <2>2, <1>1
  <2> QED BY <2>3, <2>1 DEF InQueue
<1> QED BY <1>1, <1>3, <1>4, <1>5, <1>6

\* Joining at the end.
LEMMA AppendFacts ==
    ASSUME NEW q \in Seq(Roots), Distinct(q), NEW r \in Roots, ~InQueue(r, q)
    PROVE  /\ Append(q, r) \in Seq(Roots) /\ Append(q, r) # <<>>
           /\ Distinct(Append(q, r))
           /\ \A s \in Roots : InQueue(s, Append(q, r)) <=> InQueue(s, q) \/ s = r
<1>1. /\ Len(q) \in Nat /\ Append(q, r) \in Seq(Roots)
      /\ Len(Append(q, r)) = Len(q) + 1
      /\ \A i \in 1..Len(q) : Append(q, r)[i] = q[i]
      /\ Append(q, r)[Len(q) + 1] = r
  OBVIOUS
<1>2. \A i \in 1..Len(q) : q[i] # r
  BY DEF InQueue
<1>3. Distinct(Append(q, r))
  <2> SUFFICES ASSUME NEW i \in 1..(Len(q) + 1), NEW j \in 1..(Len(q) + 1),
                      Append(q, r)[i] = Append(q, r)[j]
               PROVE  i = j
    BY <1>1 DEF Distinct
  <2>1. CASE i \in 1..Len(q) /\ j \in 1..Len(q)
    BY <2>1, <1>1 DEF Distinct
  <2>2. CASE i \notin 1..Len(q) \/ j \notin 1..Len(q)
    BY <2>2, <1>1, <1>2
  <2> QED BY <2>1, <2>2
<1>4. \A s \in Roots : InQueue(s, Append(q, r)) <=> InQueue(s, q) \/ s = r
  <2> SUFFICES ASSUME NEW s \in Roots
               PROVE  InQueue(s, Append(q, r)) <=> InQueue(s, q) \/ s = r
    OBVIOUS
  <2>1. (\E i \in 1..(Len(q) + 1) : Append(q, r)[i] = s) <=> (\E i \in 1..Len(q) : q[i] = s) \/ s = r
    BY <1>1
  <2> QED BY <2>1, <1>1 DEF InQueue
<1> QED BY <1>1, <1>3, <1>4

-----------------------------------------------------------------------------
(* Permits                                                                 *)

\* QueueIsWaiting in the terms of the lemmas above.
LEMMA QueueFacts ==
    ASSUME TypeOK
    PROVE  QueueIsWaiting <=> /\ Distinct(pending)
                              /\ \A r \in Roots : admission[r] = "ungranted" <=> InQueue(r, pending)
BY DEF QueueIsWaiting, Distinct, InQueue

\* The permit holders are finitely many, and counting them works as expected.
LEMMA GrantedFacts ==
    ASSUME TypeOK
    PROVE  /\ IsFiniteSet(Granted) /\ Cardinality(Granted) \in Nat
           /\ \A r \in Granted : Cardinality(Granted) > 0 /\ IsFiniteSet(Granted \ {r})
                                 /\ Cardinality(Granted \ {r}) = Cardinality(Granted) - 1
           /\ \A r : r \notin Granted => Cardinality(Granted \cup {r}) = Cardinality(Granted) + 1
<1>1. IsFiniteSet(Granted)
  <2>1. Granted \in SUBSET Roots
    BY DEF Granted
  <2> QED BY <2>1, FS_Subset, AdmissionAssumption
<1>2. Cardinality(Granted) \in Nat
  BY <1>1, FS_CardinalityType
<1>3. ASSUME NEW r \in Granted
      PROVE  Cardinality(Granted) > 0 /\ IsFiniteSet(Granted \ {r})
             /\ Cardinality(Granted \ {r}) = Cardinality(Granted) - 1
  <2>1. IsFiniteSet(Granted \ {r}) /\ Cardinality(Granted \ {r}) = Cardinality(Granted) - 1
    BY <1>1, FS_RemoveElement
  <2>2. Cardinality(Granted \ {r}) \in Nat
    BY <2>1, FS_CardinalityType
  <2> QED BY <2>1, <2>2, <1>2
<1>4. ASSUME NEW r, r \notin Granted
      PROVE  Cardinality(Granted \cup {r}) = Cardinality(Granted) + 1
  BY <1>1, <1>4, FS_AddElement
<1> QED BY <1>1, <1>2, <1>3, <1>4

(***************************************************************************)
(* _finish_admission: whatever the root held is gone, at most the head of  *)
(* the queue gets a permit, and the counting survives.                     *)
(***************************************************************************)
LEMMA FinishAdmissionFacts ==
    ASSUME IInv, NEW r \in Roots, FinishAdmission(r)
    PROVE  /\ activeRootCount' \in Nat /\ pending' \in Seq(Roots)
           /\ admission' \in [Roots -> Admissions]
           /\ PermitsCounted' /\ WorkConserving'
           /\ Distinct(pending')
           /\ \A s \in Roots : admission'[s] = "ungranted" <=> InQueue(s, pending')
           /\ admission'[r] = "none"
           /\ \A s \in Roots \ {r} : \/ admission'[s] = admission[s]
                                     \/ admission[s] = "ungranted" /\ admission'[s] = "granted"
           /\ admission[r] # "ungranted" => activeRootCount' <= activeRootCount
<1>0. /\ TypeOK /\ PermitsCounted /\ WorkConserving /\ Distinct(pending)
      /\ \A s \in Roots : admission[s] = "ungranted" <=> InQueue(s, pending)
      /\ activeRootCount \in Nat /\ MaxConcurrency \in Nat
  BY QueueFacts, AdmissionAssumption DEF IInv, TypeOK
<1>1. CASE admission[r] = "none"
  <2>1. UNCHANGED <<activeRootCount, pending, admission>>
    BY <1>1 DEF FinishAdmission
  <2> QED BY <2>1, <1>1, <1>0 DEF TypeOK, PermitsCounted, WorkConserving, Granted, Distinct, InQueue
<1>2. CASE admission[r] # "none"
  <2> DEFINE q == QueueWithout(r)
  <2>1. /\ q \in Seq(Roots) /\ Distinct(q)
        /\ \A s \in Roots : InQueue(s, q) <=> InQueue(s, pending) /\ s # r
        /\ q # <<>> => pending # <<>>
    <3>1. CASE admission[r] = "ungranted"
      <4>1. q = RemoveFirst(pending, r) /\ InQueue(r, pending) /\ pending \in Seq(Roots)
        BY <3>1, <1>0 DEF QueueWithout, TypeOK
      <4>2. pending # <<>>
        BY <4>1 DEF InQueue
      <4> QED BY <4>1, <4>2, <1>0, RemoveFirstFacts
    <3>2. CASE admission[r] # "ungranted"
      BY <3>2, <1>0 DEF QueueWithout, TypeOK
    <3> QED BY <3>1, <3>2
  <2>2. /\ Returned(r) = (IF admission[r] = "granted" THEN 1 ELSE 0)
        /\ admission[r] = "granted" => r \in Granted /\ activeRootCount > 0
    BY <1>0, GrantedFacts DEF Returned, PermitsCounted, Granted
  <2> HIDE DEF q
  <2>3. CASE q # <<>>
    <3> DEFINE h == Head(q)
    <3>1. /\ h \in Roots /\ h # r /\ admission[h] = "ungranted"
          /\ Tail(q) \in Seq(Roots) /\ Distinct(Tail(q))
          /\ \A s \in Roots : InQueue(s, Tail(q)) <=> InQueue(s, q) /\ s # h
      BY <2>1, <2>3, <1>0, TailFacts
    <3>2. /\ pending' = Tail(q)
          /\ activeRootCount' = activeRootCount - Returned(r) + 1
          /\ admission' = [admission EXCEPT ![r] = "none", ![h] = "granted"]
      BY <1>2, <2>3 DEF FinishAdmission, MayGrant, q
    <3> HIDE DEF h
    <3>3. /\ admission' \in [Roots -> Admissions]
          /\ admission'[r] = "none" /\ admission'[h] = "granted"
          /\ \A s \in Roots \ {r, h} : admission'[s] = admission[s]
      BY <3>1, <3>2, <1>0 DEF TypeOK, Admissions
    <3>4. Granted' = (Granted \ {r}) \cup {h} /\ h \notin Granted
      BY <3>1, <3>3 DEF Granted
    <3>5. PermitsCounted'
      <4>1. CASE admission[r] = "granted"
        <5>1. /\ IsFiniteSet(Granted \ {r}) /\ h \notin Granted \ {r}
              /\ Cardinality(Granted \ {r}) = Cardinality(Granted) - 1
          BY <4>1, <2>2, <3>4, <1>0, GrantedFacts
        <5>2. Cardinality(Granted') = Cardinality(Granted) - 1 + 1
          BY <5>1, <3>4, FS_AddElement
        <5> QED BY <5>2, <3>2, <2>2, <4>1, <1>0 DEF PermitsCounted
      <4>2. CASE admission[r] # "granted"
        <5>1. Granted \ {r} = Granted
          BY <4>2 DEF Granted
        <5>2. Cardinality(Granted') = Cardinality(Granted) + 1
          BY <5>1, <3>4, <1>0, GrantedFacts
        <5> QED BY <5>2, <3>2, <2>2, <4>2, <1>0 DEF PermitsCounted
      <4> QED BY <4>1, <4>2
    <3>6. activeRootCount' \in Nat /\ activeRootCount' >= activeRootCount
      BY <3>2, <2>2, <1>0
    <3>7. WorkConserving'
      BY <3>6, <2>1, <2>3, <1>0 DEF WorkConserving
    <3>8. \A s \in Roots : admission'[s] = "ungranted" <=> InQueue(s, pending')
      BY <3>1, <3>2, <3>3, <2>1, <1>0
    <3>9. admission[r] # "ungranted" => activeRootCount' <= activeRootCount
      BY <3>2, <2>2, <1>2, <1>0 DEF TypeOK, Admissions
    <3> QED BY <3>1, <3>2, <3>3, <3>5, <3>6, <3>7, <3>8, <3>9
  <2>4. CASE q = <<>>
    <3>1. /\ pending' = q
          /\ activeRootCount' = activeRootCount - Returned(r)
          /\ admission' = [admission EXCEPT ![r] = "none"]
      BY <1>2, <2>4 DEF FinishAdmission, MayGrant, q
    <3>2. /\ admission' \in [Roots -> Admissions] /\ admission'[r] = "none"
          /\ \A s \in Roots \ {r} : admission'[s] = admission[s]
      BY <3>1, <1>0 DEF TypeOK, Admissions
    <3>3. Granted' = Granted \ {r}
      BY <3>2 DEF Granted
    <3>4. PermitsCounted'
      <4>1. CASE admission[r] = "granted"
        BY <4>1, <3>1, <3>3, <2>2, <1>0, GrantedFacts DEF PermitsCounted
      <4>2. CASE admission[r] # "granted"
        <5>1. Granted \ {r} = Granted
          BY <4>2 DEF Granted
        <5>2. activeRootCount' = activeRootCount /\ Granted' = Granted
          BY <5>1, <4>2, <3>1, <3>3, <2>2, <1>0
        <5> QED BY <5>2, <1>0 DEF PermitsCounted
      <4> QED BY <4>1, <4>2
    <3>5. activeRootCount' \in Nat /\ activeRootCount' <= activeRootCount
      BY <3>1, <2>2, <1>0
    <3>6. WorkConserving'
      BY <3>1, <2>4 DEF WorkConserving
    <3>7. \A s \in Roots : admission'[s] = "ungranted" <=> InQueue(s, pending')
      BY <3>1, <3>2, <2>1, <1>0
    <3> QED BY <3>1, <3>2, <3>4, <3>5, <3>6, <3>7, <2>1
  <2> QED BY <2>3, <2>4
<1> QED BY <1>1, <1>2

-----------------------------------------------------------------------------
(* The invariant                                                           *)

\* Initially no permit is held and nobody waits.
LEMMA InitEstablishes == Init => IInv
<1> SUFFICES ASSUME Init PROVE IInv
  OBVIOUS
<1>1. TypeOK
  BY DEF Init, TypeOK, Admissions, Locations
<1>2. Granted = {}
  BY DEF Init, Granted
<1>3. PermitsCounted
  BY <1>2, FS_EmptySet DEF Init, PermitsCounted
<1>4. QueueIsWaiting /\ WorkConserving
  BY DEF Init, QueueIsWaiting, WorkConserving
<1>5. LifeCycle
  BY DEF Init, LifeCycle, Over
<1> QED BY <1>1, <1>3, <1>4, <1>5 DEF IInv

\* A step that touches neither counter, queue nor admissions keeps their part.
LEMMA BooksUntouched ==
    ASSUME IInv, UNCHANGED <<activeRootCount, pending, admission>>
    PROVE  PermitsCounted' /\ QueueIsWaiting' /\ WorkConserving'
BY DEF IInv, PermitsCounted, QueueIsWaiting, WorkConserving, Granted

\* A root that leaves, with its _finish_admission.
LEMMA LeavingKeeps ==
    ASSUME IInv, NEW r \in Roots, NEW where \in Over, FinishAdmission(r),
           pc' = [pc EXCEPT ![r] = where], UNCHANGED parent
    PROVE  IInv'
<1>1. /\ activeRootCount' \in Nat /\ pending' \in Seq(Roots)
      /\ admission' \in [Roots -> Admissions]
      /\ PermitsCounted' /\ WorkConserving'
      /\ Distinct(pending')
      /\ \A s \in Roots : admission'[s] = "ungranted" <=> InQueue(s, pending')
      /\ admission'[r] = "none"
      /\ \A s \in Roots \ {r} : \/ admission'[s] = admission[s]
                                \/ admission[s] = "ungranted" /\ admission'[s] = "granted"
  BY FinishAdmissionFacts
<1>2. TypeOK'
  BY <1>1 DEF IInv, TypeOK, Over, Locations
<1>3. QueueIsWaiting'
  BY <1>1 DEF QueueIsWaiting, Distinct, InQueue
<1>4. LifeCycle'
  BY <1>1 DEF IInv, TypeOK, LifeCycle, Over, Locations
<1> QED BY <1>1, <1>2, <1>3, <1>4 DEF IInv

\* go() admits a root that held nothing, at once or at the end of the queue.
LEMMA GoKeeps ==
    ASSUME IInv, NEW r \in Roots, Go(r)
    PROVE  IInv'
<1>0. /\ TypeOK /\ PermitsCounted /\ WorkConserving /\ Distinct(pending)
      /\ \A s \in Roots : admission[s] = "ungranted" <=> InQueue(s, pending)
      /\ activeRootCount \in Nat /\ MaxConcurrency \in Nat /\ pending \in Seq(Roots)
  BY QueueFacts, AdmissionAssumption DEF IInv, TypeOK
<1>1. pc[r] = "idle" /\ admission[r] = "none" /\ r \notin Granted /\ ~InQueue(r, pending)
  BY <1>0 DEF IInv, LifeCycle, Over, Go, Granted
<1>2. CASE AdmitNow(r)
  <2>1. /\ activeRootCount < MaxConcurrency /\ activeRootCount' = activeRootCount + 1
        /\ admission' = [admission EXCEPT ![r] = "granted"] /\ pending' = pending
        /\ pc' = [pc EXCEPT ![r] = "scheduled"] /\ parent' = parent
    BY <1>2 DEF Go, AdmitNow, FreePermit
  <2>2. TypeOK'
    BY <2>1, <1>0 DEF TypeOK, Admissions, Locations
  <2>3. Granted' = Granted \cup {r}
    BY <2>1, <1>0 DEF Granted, TypeOK
  <2>4. PermitsCounted'
    BY <2>1, <2>3, <1>0, <1>1, GrantedFacts DEF PermitsCounted
  <2>5. QueueIsWaiting' /\ WorkConserving'
    BY <2>1, <1>0, <1>1 DEF QueueIsWaiting, WorkConserving, TypeOK, Distinct, InQueue
  <2>6. LifeCycle'
    BY <2>1, <1>0 DEF IInv, LifeCycle, TypeOK, Over
  <2> QED BY <2>2, <2>4, <2>5, <2>6 DEF IInv
<1>3. CASE AdmitLater(r)
  <2>1. /\ activeRootCount >= MaxConcurrency /\ activeRootCount' = activeRootCount
        /\ admission' = [admission EXCEPT ![r] = "ungranted"] /\ pending' = Append(pending, r)
        /\ pc' = [pc EXCEPT ![r] = "scheduled"] /\ parent' = parent
    BY <1>3, <1>0 DEF Go, AdmitLater, FreePermit, Enqueued
  <2>2. /\ pending' \in Seq(Roots) /\ Distinct(pending')
        /\ \A s \in Roots : InQueue(s, pending') <=> InQueue(s, pending) \/ s = r
    BY <2>1, <1>0, <1>1, AppendFacts
  <2>3. TypeOK'
    BY <2>1, <2>2, <1>0 DEF TypeOK, Admissions, Locations
  <2>4. Granted' = Granted
    BY <2>1, <1>0, <1>1 DEF Granted, TypeOK
  <2>5. PermitsCounted' /\ WorkConserving'
    BY <2>1, <2>4, <1>0 DEF PermitsCounted, WorkConserving
  <2>6. \A s \in Roots : admission'[s] = "ungranted" <=> InQueue(s, pending')
    BY <2>1, <2>2, <1>0 DEF TypeOK
  <2>7. QueueIsWaiting'
    BY <2>2, <2>6 DEF QueueIsWaiting, Distinct, InQueue
  <2>8. LifeCycle'
    BY <2>1, <1>0 DEF IInv, LifeCycle, TypeOK, Over
  <2> QED BY <2>3, <2>5, <2>7, <2>8 DEF IInv
<1> QED BY <1>2, <1>3 DEF Go

\* Every step keeps the invariant.
LEMMA NextKeeps == IInv /\ [Next]_vars => IInv'
<1> SUFFICES ASSUME IInv, [Next]_vars PROVE IInv'
  OBVIOUS
<1>1. CASE UNCHANGED vars
  BY <1>1 DEF vars, IInv, TypeOK, PermitsCounted, QueueIsWaiting, WorkConserving, LifeCycle, Granted
<1>2. CASE Next
  <2> PICK r \in Roots : \/ Go(r) \/ GoRejected(r)
                        \/ \E p \in Roots : GoNested(r, p)
                        \/ SubmitFails(r) \/ LoseBody(r) \/ StartBody(r) \/ ResumeBody(r)
                        \/ EndBody(r) \/ CancelBody(r)
    BY <1>2 DEF Next
  <2>1. CASE Go(r)
    BY <2>1, GoKeeps
  <2>2. CASE GoRejected(r)
    <3>1. PermitsCounted' /\ QueueIsWaiting' /\ WorkConserving'
      BY <2>2, BooksUntouched DEF GoRejected
    <3>2. TypeOK' /\ LifeCycle'
      BY <2>2 DEF GoRejected, IInv, TypeOK, LifeCycle, Locations, Over
    <3> QED BY <3>1, <3>2 DEF IInv
  <2>3. ASSUME NEW p \in Roots, GoNested(r, p) PROVE IInv'
    <3>1. PermitsCounted' /\ QueueIsWaiting' /\ WorkConserving'
      BY <2>3, BooksUntouched DEF GoNested, AdmitNested
    <3>2. TypeOK' /\ LifeCycle'
      BY <2>3, AdmissionAssumption DEF GoNested, AdmitNested, IInv, TypeOK, LifeCycle, Locations, Over
    <3> QED BY <3>1, <3>2 DEF IInv
  <2>4. CASE SubmitFails(r)
    BY <2>4, LeavingKeeps DEF SubmitFails, Over
  <2>5. CASE StartBody(r)
    <3>1. PermitsCounted' /\ QueueIsWaiting' /\ WorkConserving'
      BY <2>5, BooksUntouched DEF StartBody
    <3>2. TypeOK' /\ LifeCycle'
      BY <2>5 DEF StartBody, IInv, TypeOK, LifeCycle, Locations, Over
    <3> QED BY <3>1, <3>2 DEF IInv
  <2>6. CASE ResumeBody(r)
    <3>1. PermitsCounted' /\ QueueIsWaiting' /\ WorkConserving'
      BY <2>6, BooksUntouched DEF ResumeBody
    <3>2. TypeOK' /\ LifeCycle'
      BY <2>6 DEF ResumeBody, IInv, TypeOK, LifeCycle, Locations, Over
    <3> QED BY <3>1, <3>2 DEF IInv
  <2>7. CASE EndBody(r)
    BY <2>7, LeavingKeeps DEF EndBody, Over
  <2>8. CASE CancelBody(r)
    BY <2>8, LeavingKeeps DEF CancelBody, Over
  <2>9. CASE LoseBody(r)
    <3>1. PermitsCounted' /\ QueueIsWaiting' /\ WorkConserving'
      BY <2>9, BooksUntouched DEF LoseBody
    <3>2. TypeOK' /\ LifeCycle'
      BY <2>9 DEF LoseBody, IInv, TypeOK, LifeCycle, Locations, Over
    <3> QED BY <3>1, <3>2 DEF IInv
  <2> QED BY <2>1, <2>2, <2>3, <2>4, <2>5, <2>6, <2>7, <2>8, <2>9
<1> QED BY <1>1, <1>2

\* The invariant holds throughout, for every Stage and every schedule.
LEMMA Invariance == Spec => []IInv
<1>1. Init => IInv
  BY InitEstablishes
<1>2. IInv /\ [Next]_vars => IInv'
  BY NextKeeps
<1> QED BY <1>1, <1>2, PTL DEF Spec

(***************************************************************************)
(* Every variable of admission control stays in its domain; in particular  *)
(* _active_root_count never goes below zero.                               *)
(***************************************************************************)
THEOREM TypeCorrect == Spec => []TypeOK
<1>1. IInv => TypeOK
  BY DEF IInv
<1> QED BY <1>1, Invariance, PTL

(***************************************************************************)
(* _active_root_count is the number of roots that hold a permit, for every *)
(* interleaving of go(), endings, cancellations and failed submissions.    *)
(***************************************************************************)
THEOREM PermitsAreCounted == Spec => []PermitsCounted
<1>1. IInv => PermitsCounted
  BY DEF IInv
<1> QED BY <1>1, Invariance, PTL

(***************************************************************************)
(* _pending_admissions holds exactly the roots without a permit, each      *)
(* once.                                                                   *)
(***************************************************************************)
THEOREM QueueHoldsTheWaiting == Spec => []QueueIsWaiting
<1>1. IInv => QueueIsWaiting
  BY DEF IInv
<1> QED BY <1>1, Invariance, PTL

(***************************************************************************)
(* No root waits in _pending_admissions beside a free permit.              *)
(***************************************************************************)
THEOREM NoRootWaitsBesideAPermit == Spec => []WorkConserving
<1>1. IInv => WorkConserving
  BY DEF IInv
<1> QED BY <1>1, Invariance, PTL

-----------------------------------------------------------------------------
(* The bound                                                               *)

\* Nobody leaves the queue but by a grant: the code's bound needs this.
NobodyLeaves == Cancellable = {} /\ Fallible = {}

PermitBound == activeRootCount <= MaxConcurrency

\* A running root gives one permit back and hands at most one on.
LEMMA PermitBoundKept ==
    ASSUME NobodyLeaves, IInv, PermitBound, [Next]_vars
    PROVE  PermitBound'
<1>0. activeRootCount \in Nat /\ MaxConcurrency \in Nat
  BY AdmissionAssumption DEF IInv, TypeOK
<1>1. CASE UNCHANGED vars
  BY <1>1 DEF vars, PermitBound
<1>2. CASE Next
  <2> PICK r \in Roots : \/ Go(r) \/ GoRejected(r)
                        \/ \E p \in Roots : GoNested(r, p)
                        \/ SubmitFails(r) \/ LoseBody(r) \/ StartBody(r) \/ ResumeBody(r)
                        \/ EndBody(r) \/ CancelBody(r)
    BY <1>2 DEF Next
  <2>1. CASE Go(r)
    BY <2>1, <1>0 DEF Go, AdmitNow, AdmitLater, FreePermit, PermitBound
  <2>2. CASE EndBody(r)
    <3>1. pc[r] = "running" /\ FinishAdmission(r)
      BY <2>2 DEF EndBody
    <3>2. admission[r] # "ungranted"
      BY <3>1 DEF IInv, LifeCycle
    <3>3. activeRootCount' \in Nat /\ activeRootCount' <= activeRootCount
      BY <3>1, <3>2, FinishAdmissionFacts
    <3> QED BY <3>3, <1>0 DEF PermitBound
  <2>3. CASE SubmitFails(r) \/ CancelBody(r)
    BY <2>3 DEF SubmitFails, CancelBody, NobodyLeaves
  <2>4. CASE \/ GoRejected(r) \/ LoseBody(r) \/ StartBody(r) \/ ResumeBody(r)
             \/ \E p \in Roots : GoNested(r, p)
    BY <2>4 DEF GoRejected, LoseBody, StartBody, ResumeBody, GoNested, AdmitNested, PermitBound
  <2> QED BY <2>1, <2>2, <2>3, <2>4
<1> QED BY <1>1, <1>2

\* Every running external root holds one of the counted permits.
LEMMA BoundFollows ==
    ASSUME IInv, PermitBound
    PROVE  ConcurrencyBound
<1> DEFINE running == {r \in Roots : pc[r] = "running" /\ parent[r] = NoRoot}
<1>1. running \in SUBSET Granted
  BY DEF IInv, TypeOK, LifeCycle, Granted, Admissions
<1>2. IsFiniteSet(Granted) /\ Cardinality(Granted) \in Nat
  BY GrantedFacts DEF IInv
<1>3. /\ IsFiniteSet(running) /\ Cardinality(running) <= Cardinality(Granted)
      /\ Cardinality(running) \in Nat
  BY <1>1, <1>2, FS_Subset, FS_CardinalityType
<1>4. Cardinality(Granted) <= MaxConcurrency /\ MaxConcurrency \in Nat
  BY AdmissionAssumption DEF IInv, PermitsCounted, PermitBound
<1>5. Cardinality(running) <= MaxConcurrency
  BY <1>2, <1>3, <1>4
<1> QED BY <1>5 DEF ConcurrencyBound

(***************************************************************************)
(* README.md's bound: when no queued root is cancelled and no submission   *)
(* fails, at most max_concurrency external roots run at a time.  The       *)
(* hypothesis cannot be dropped: _finish_admission of a root that leaves   *)
(* the queue grants its head a permit nobody returned.                     *)
(***************************************************************************)
THEOREM ConcurrencyIsBounded ==
    ASSUME NobodyLeaves
    PROVE  Spec => []ConcurrencyBound
<1>1. Init => IInv /\ PermitBound
  <2>1. Init => PermitBound
    BY AdmissionAssumption DEF Init, PermitBound
  <2> QED BY <2>1, InitEstablishes
<1>2. IInv /\ PermitBound /\ [Next]_vars => (IInv /\ PermitBound)'
  BY NextKeeps, PermitBoundKept
<1>3. IInv /\ PermitBound => ConcurrencyBound
  BY BoundFollows
<1> QED BY <1>1, <1>2, <1>3, PTL DEF Spec

-----------------------------------------------------------------------------
(* The order of the queue                                                  *)

\* What a step may do to the queue.
ServedInOrder ==
    /\ \A i, j \in 1..Len(pending) :
          i < j /\ admission'[pending[j]] = "granted" => admission'[pending[i]] # "ungranted"
    /\ \A i \in 1..Len(pending), j, k \in 1..Len(pending') :
          pending'[k] = pending[i] /\ (\A m \in 1..Len(pending) : pending[m] # pending'[j])
             => k < j

\* Only the head of what is left of the queue is granted, so those before it
\* are the root that leaves; and nobody joins.
LEMMA FinishServesInOrder ==
    ASSUME IInv, NEW r \in Roots, FinishAdmission(r)
    PROVE  ServedInOrder
<1>0. /\ pending \in Seq(Roots) /\ Len(pending) \in Nat /\ Distinct(pending)
      /\ \A i \in 1..Len(pending) : pending[i] \in Roots
      /\ admission \in [Roots -> Admissions]
      /\ \A s \in Roots : admission[s] = "ungranted" <=> InQueue(s, pending)
  BY QueueFacts, ElementOfSeq DEF IInv, TypeOK
<1>1. /\ pending' \in Seq(Roots) /\ admission'[r] = "none"
      /\ \A s \in Roots : admission'[s] = "ungranted" <=> InQueue(s, pending')
      /\ \A s \in Roots \ {r} : admission'[s] = "ungranted" => admission[s] = "ungranted"
  BY FinishAdmissionFacts
<1>2. ASSUME NEW j \in 1..Len(pending')
      PROVE  \E m \in 1..Len(pending) : pending[m] = pending'[j]
  <2>1. pending'[j] \in Roots /\ InQueue(pending'[j], pending')
    BY <1>1, ElementOfSeq DEF InQueue
  <2>2. InQueue(pending'[j], pending)
    BY <2>1, <1>0, <1>1
  <2> QED BY <2>2 DEF InQueue
<1>3. ASSUME NEW i \in 1..Len(pending), NEW j \in 1..Len(pending), i < j,
             admission'[pending[j]] = "granted"
      PROVE  admission'[pending[i]] # "ungranted"
  <2> DEFINE q == QueueWithout(r)
  <2>1. pending[j] \in Roots /\ admission[pending[j]] = "ungranted" /\ pending[j] # r
    BY <1>0, <1>1, <1>3 DEF InQueue
  <2>2. admission[r] # "none" /\ q # <<>>
    BY <2>1, <1>0, <1>3 DEF FinishAdmission, MayGrant
  <2>3. admission' = [admission EXCEPT ![r] = "none", ![Head(q)] = "granted"]
    BY <2>2 DEF FinishAdmission, MayGrant
  <2>4. pending[j] = Head(q)
    BY <2>1, <2>3, <1>0, <1>3
  <2>5. Head(q) = q[1]
    <3>1. q \in Seq(Roots)
      BY <1>0, RemoveFirstFacts DEF QueueWithout
    <3> HIDE DEF q
    <3> QED BY <2>2, <3>1, HeadTailProperties, EmptySeq
  <2>6. CASE admission[r] # "ungranted"
    <3>1. q = pending
      BY <2>6 DEF QueueWithout
    <3>2. pending[j] = pending[1] /\ 1 \in 1..Len(pending)
      BY <3>1, <2>4, <2>5, <1>0
    <3> QED BY <3>2, <1>0, <1>3 DEF Distinct
  <2>7. CASE admission[r] = "ungranted"
    <3>1. PICK n \in 1..Len(pending) : pending[n] = r
      BY <2>7, <1>0 DEF InQueue
    <3>2. q = RemoveAt(pending, n)
      BY <2>7, <3>1, <1>0, RemoveFirstIsRemoveAt DEF QueueWithout
    <3>3. Len(pending) >= 2 /\ 1 \in 1..(Len(pending) - 1)
      BY <1>0, <1>3
    <3>4. q[1] = IF 1 < n THEN pending[1] ELSE pending[1 + 1]
      <4>1. \A m \in 1..(Len(pending) - 1) :
               RemoveAt(pending, n)[m] = IF m < n THEN pending[m] ELSE pending[m + 1]
        BY <1>0, RemoveAtFacts
      <4> QED BY <4>1, <3>2, <3>3
    <3>5. CASE 1 < n
      BY <3>4, <3>5, <2>4, <2>5, <1>0, <1>3 DEF Distinct
    <3>6. CASE n = 1
      <4>1. pending[j] = pending[2] /\ 2 \in 1..Len(pending)
        BY <3>3, <3>4, <3>6, <2>4, <2>5, <1>0
      <4>2. i = 1
        BY <4>1, <1>0, <1>3 DEF Distinct
      <4> QED BY <4>2, <3>1, <3>6, <1>1
    <3> QED BY <3>5, <3>6, <1>0
  <2> QED BY <2>6, <2>7
<1> QED BY <1>2, <1>3 DEF ServedInOrder

\* A root that queues goes behind the others and grants nobody in the queue.
LEMMA GoServesInOrder ==
    ASSUME IInv, NEW r \in Roots, Go(r)
    PROVE  ServedInOrder
<1>0. /\ pending \in Seq(Roots) /\ Len(pending) \in Nat /\ Distinct(pending)
      /\ \A i \in 1..Len(pending) : pending[i] \in Roots
      /\ admission \in [Roots -> Admissions]
      /\ \A s \in Roots : admission[s] = "ungranted" <=> InQueue(s, pending)
  BY QueueFacts, ElementOfSeq DEF IInv, TypeOK
<1>1. admission[r] = "none" /\ ~InQueue(r, pending)
  BY <1>0 DEF IInv, LifeCycle, Over, Go
<1>2. \A i \in 1..Len(pending) : pending[i] # r /\ admission[pending[i]] = "ungranted"
  BY <1>0, <1>1 DEF InQueue
<1>3. \A i \in 1..Len(pending) : admission'[pending[i]] = "ungranted"
  BY <1>0, <1>2 DEF Go, AdmitNow, AdmitLater
<1>4. ASSUME NEW i \in 1..Len(pending), NEW j \in 1..Len(pending'), NEW k \in 1..Len(pending'),
             pending'[k] = pending[i], \A m \in 1..Len(pending) : pending[m] # pending'[j]
      PROVE  k < j
  <2>1. CASE pending' = pending
    BY <2>1, <1>4
  <2>2. CASE pending' = Append(pending, r)
    <3>1. /\ Len(pending') = Len(pending) + 1 /\ pending'[Len(pending) + 1] = r
          /\ \A m \in 1..Len(pending) : pending'[m] = pending[m]
      BY <2>2, <1>0
    <3>2. j = Len(pending) + 1
      BY <3>1, <1>0, <1>4
    <3>3. k # Len(pending) + 1
      BY <3>1, <1>2, <1>4
    <3> QED BY <3>1, <3>2, <3>3, <1>0
  <2> QED BY <2>1, <2>2 DEF Go, AdmitNow, AdmitLater, Enqueued
<1> QED BY <1>3, <1>4 DEF ServedInOrder

\* A step that leaves the queue and the admissions alone.
LEMMA NothingServed ==
    ASSUME IInv, UNCHANGED <<pending, admission>>
    PROVE  ServedInOrder
<1>1. \A i \in 1..Len(pending) : pending[i] \in Roots /\ admission[pending[i]] = "ungranted"
  BY QueueFacts, ElementOfSeq DEF IInv, TypeOK, InQueue
<1> QED BY <1>1 DEF ServedInOrder

(***************************************************************************)
(* Permits go to the roots in the order in which they queued, however the  *)
(* ones before them left: by a grant, a cancellation or a failed           *)
(* submission.                                                             *)
(***************************************************************************)
THEOREM QueueIsFair == Spec => FirstComeFirstServed
<1>1. ASSUME IInv, [Next]_vars PROVE ServedInOrder
  <2>1. CASE UNCHANGED vars
    BY <1>1, <2>1, NothingServed DEF vars
  <2>2. CASE Next
    <3> PICK r \in Roots : \/ Go(r) \/ GoRejected(r)
                          \/ \E p \in Roots : GoNested(r, p)
                          \/ SubmitFails(r) \/ LoseBody(r) \/ StartBody(r) \/ ResumeBody(r)
                          \/ EndBody(r) \/ CancelBody(r)
      BY <2>2 DEF Next
    <3>1. CASE Go(r)
      BY <1>1, <3>1, GoServesInOrder
    <3>2. CASE SubmitFails(r) \/ EndBody(r) \/ CancelBody(r)
      <4>1. FinishAdmission(r)
        BY <3>2 DEF SubmitFails, EndBody, CancelBody
      <4> QED BY <1>1, <4>1, FinishServesInOrder
    <3>3. CASE \/ GoRejected(r) \/ LoseBody(r) \/ StartBody(r) \/ ResumeBody(r)
               \/ \E p \in Roots : GoNested(r, p)
      <4>1. UNCHANGED <<pending, admission>>
        BY <3>3 DEF GoRejected, LoseBody, StartBody, ResumeBody, GoNested, AdmitNested
      <4> QED BY <1>1, <4>1, NothingServed
    <3> QED BY <3>1, <3>2, <3>3
  <2> QED BY <1>1, <2>1, <2>2
<1>2. IInv /\ [Next]_vars => [ServedInOrder]_vars
  BY <1>1
<1>3. [][ServedInOrder]_vars => FirstComeFirstServed
  BY PTL DEF FirstComeFirstServed, ServedInOrder
<1> QED BY Invariance, <1>2, <1>3, PTL DEF Spec
=============================================================================
