------------------------- MODULE StageScope_proofs -------------------------
(***************************************************************************)
(* Proofs about one Stage scope, for every set of handles, native tasks    *)
(* and barrier callers, every bound on callbacks and spawned tasks and,    *)
(* except where a theorem says otherwise, every setting of the switches.   *)
(***************************************************************************)
EXTENDS StageScope, SequenceTheorems, TLAPS

(***************************************************************************)
(* What the place of a body says of the rest of its handle.  A handle has  *)
(* callbacks running only after its body, and the last release comes only  *)
(* from a body that is over or was never submitted.                        *)
(***************************************************************************)
WorkShape ==
    \A h \in Handles :
        /\ body[h] = "none" <=> kind[h] = "none"
        /\ body[h] = "none" => h \notin active
        /\ body[h] \notin BodyOver => drain[h] = "none" /\ exiting[h] = 0
        /\ body[h] \in {"none", "admitted", "refused"} => kids[h] = 0 /\ nested[h] = 0
        /\ Nested(h) => body[outer[h]] \notin {"none", "admitted", "refused"}
        /\ drain[h] = "none" => current[h] = 0
        /\ quiescing[h] > 0 => body[h] \in {"refused", "released"}

WorkInv == TypeOK /\ WorkCounted /\ WorkShape

-----------------------------------------------------------------------------
(* The work count                                                          *)

\* Neither count nor shape depends on the scope's side.
LEMMA WorkUntouched ==
    ASSUME WorkCounted, WorkShape,
           UNCHANGED <<kind, body, pending, kids, drain, current, exiting, outer, nested>>,
           active' \subseteq active, \A h \in Handles : quiescing'[h] > 0 => quiescing[h] > 0
    PROVE  WorkCounted' /\ WorkShape'
BY DEF WorkCounted, WorkShape, Nested

\* Handles do not share their work: a step on one handle keeps the count of
\* the others.
LEMMA WorkMoves ==
    ASSUME WorkCounted, NEW h \in Handles, UNCHANGED nested,
           \A i \in Handles \ {h} : /\ pending'[i] = pending[i] /\ body'[i] = body[i]
                                    /\ kids'[i] = kids[i] /\ drain'[i] = drain[i]
                                    /\ exiting'[i] = exiting[i],
           pending'[h] = (IF body'[h] \in BodyHolds THEN 1 ELSE 0) + kids'[h] + nested[h]
                         + (IF drain'[h] # "none" THEN 1 ELSE 0) + exiting'[h]
    PROVE  WorkCounted'
BY DEF WorkCounted

\* The count of one handle.
LEMMA Counted ==
    ASSUME WorkInv, NEW h \in Handles
    PROVE  /\ pending[h] = (IF body[h] \in BodyHolds THEN 1 ELSE 0) + kids[h] + nested[h]
                           + (IF drain[h] # "none" THEN 1 ELSE 0) + exiting[h]
           /\ pending[h] \in Nat /\ kids[h] \in Nat /\ exiting[h] \in Nat /\ quiescing[h] \in Nat
           /\ nested[h] \in Nat /\ body[h] \in BodyStates
BY DEF WorkInv, WorkCounted, TypeOK

\* The types of what concerns single handles and barriers.
LEMMA Typed ==
    ASSUME WorkInv
    PROVE  /\ kind \in [Handles -> Backends \cup {"none"}] /\ body \in [Handles -> BodyStates]
           /\ pending \in [Handles -> Nat] /\ kids \in [Handles -> Nat] /\ nested \in [Handles -> Nat]
           /\ drain \in [Handles -> {"none", "scheduled", "running"}]
           /\ current \in [Handles -> Nat] /\ exiting \in [Handles -> Nat]
           /\ quiescing \in [Handles -> Nat] /\ registered \in [Handles -> Nat]
           /\ outer \in [Handles -> Handles \cup {"none"}]
           /\ wpc \in [Waiters -> WaiterStates]
BY DEF WorkInv, TypeOK

\* What _retain_work and _release_work do to the counts.
LEMMA Retained ==
    ASSUME TypeOK, NEW h \in Handles, Retain(h)
    PROVE  /\ pending' \in [Handles -> Nat] /\ pending'[h] = pending[h] + 1
           /\ \A i \in Handles \ {h} : pending'[i] = pending[i]
<1>1. pending \in [Handles -> Nat]
  BY DEF TypeOK
<1> QED BY <1>1 DEF Retain

LEMMA Released ==
    ASSUME TypeOK, NEW h \in Handles, Release(h), pending[h] > 0
    PROVE  /\ pending' \in [Handles -> Nat] /\ quiescing' \in [Handles -> Nat]
           /\ pending'[h] = pending[h] - 1
           /\ quiescing'[h] = IF pending[h] = 1 THEN quiescing[h] + 1 ELSE quiescing[h]
           /\ \A i \in Handles \ {h} : pending'[i] = pending[i] /\ quiescing'[i] = quiescing[i]
<1>1. pending \in [Handles -> Nat] /\ quiescing \in [Handles -> Nat]
  BY DEF TypeOK
<1>2. pending[h] \in Nat /\ pending[h] - 1 \in Nat
  BY <1>1
<1> QED BY <1>1, <1>2 DEF Release

LEMMA InitWork == Init => WorkInv
<1> SUFFICES ASSUME Init PROVE WorkInv
  OBVIOUS
<1>1. TypeOK
  <2>1. {sealed, closeCompleted, cancelling, scopeErrors, stray} \subseteq BOOLEAN
    BY DEF Init
  <2>2. <<>> \in Seq(Nat)
    OBVIOUS
  <2>3. callbacks \in [Handles -> Seq(Nat)] /\ ran \in [Handles -> Seq(Nat)]
    BY <2>2 DEF Init
  <2> QED BY <2>1, <2>3 DEF Init, TypeOK, BodyStates, WaiterStates
<1>2. WorkCounted
  BY DEF Init, WorkCounted, BodyHolds
<1>3. WorkShape
  BY ScopeAssumption DEF Init, WorkShape, BodyOver, Nested
<1> QED BY <1>1, <1>2, <1>3 DEF WorkInv

\* Every step keeps the work count of every handle exact.
LEMMA NextWork == WorkInv /\ [Next]_vars => WorkInv'
<1> SUFFICES ASSUME WorkInv, [Next]_vars PROVE WorkInv'
  OBVIOUS
<1> USE ScopeAssumption
<1>1. ASSUME NEW h \in Handles, NEW n \in 0..MaxCallbacks[h], Go(h, n) PROVE WorkInv'
  <2>c. PICK b \in Backends : /\ JoinEpoch(b) /\ kind' = [kind EXCEPT ![h] = b]
                              /\ \E o \in Callers(b) : outer' = [outer EXCEPT ![h] = o]
    BY <1>1 DEF Go
  <2>0. PICK o \in Callers(b) : outer' = [outer EXCEPT ![h] = o]
    BY <2>c
  <2>a. /\ n \in Nat /\ body[h] = "none" /\ b # "none" /\ o \in Handles \cup {"none"}
        /\ body' = [body EXCEPT ![h] = "admitted"] /\ active' = active \cup {h}
        /\ UNCHANGED <<pending, kids, quiescing, drain, current, exiting, nested>>
    BY <1>1 DEF Go, Callers
  <2>b. o \in Handles => body[o] \notin {"none", "admitted", "refused"}
    <3> SUFFICES ASSUME o \in Handles PROVE body[o] \notin {"none", "admitted", "refused"}
      OBVIOUS
    <3>1. CodeRuns(o) \/ body[o] \in BodyOver
      BY <2>0 DEF Callers
    <3>2. current[o] # 0 => body[o] \in BodyOver
      BY DEF WorkInv, WorkShape
    <3>3. body[o] \in {"none", "admitted", "refused"} => kids[o] = 0
      BY DEF WorkInv, WorkShape
    <3> QED BY <3>1, <3>2, <3>3 DEF CodeRuns, BodyOver
  <2>1. TypeOK'
    <3>1. [i \in 1..n |-> i] \in Seq(Nat)
      BY <2>a
    <3>2. callbacks' \in [Handles -> Seq(Nat)] /\ registered' \in [Handles -> Nat]
      BY <1>1, <2>a, <3>1 DEF Go, WorkInv, TypeOK
    <3>3. body' \in [Handles -> BodyStates]
      BY <2>a DEF WorkInv, TypeOK, BodyStates
    <3>4. /\ kind' \in [Handles -> Backends \cup {"none"}] /\ epoch' \in Backends \cup {"none"}
          /\ outer' \in [Handles -> Handles \cup {"none"}]
      BY <2>c, <2>0, <2>a DEF JoinEpoch, WorkInv, TypeOK
    <3>5. active' \subseteq Handles /\ goCancel' \subseteq Handles
      BY <1>1 DEF Go, WorkInv, TypeOK
    <3> QED BY <1>1, <3>2, <3>3, <3>4, <3>5 DEF Go, WorkInv, TypeOK, waitVars
  <2>2. WorkCounted'
    BY <2>a DEF WorkInv, WorkCounted, TypeOK, BodyHolds
  <2>3. WorkShape'
    <3>1. \A i \in Handles : outer'[i] \in Handles =>
             body[outer'[i]] \notin {"none", "admitted", "refused"} /\ body'[outer'[i]] = body[outer'[i]]
      <4>1. \A i \in Handles : outer'[i] = outer[i] \/ outer'[i] = o
        BY <2>0, Typed
      <4>2. \A i \in Handles : outer[i] \in Handles => body[outer[i]] \notin {"none", "admitted", "refused"}
        BY DEF WorkInv, WorkShape, Nested
      <4>3. \A i \in Handles : body[i] # "none" => body'[i] = body[i]
        BY <2>a, Typed
      <4> QED BY <2>b, <4>1, <4>2, <4>3
    <3>2. \A i \in Handles : Nested(i)' => body'[outer'[i]] \notin {"none", "admitted", "refused"}
      BY <3>1 DEF Nested
    <3>4. \A i \in Handles \ {h} : kind'[i] = kind[i] /\ body'[i] = body[i]
      BY <2>c, <2>a DEF WorkInv, TypeOK
    <3>5. kind'[h] = b /\ body'[h] = "admitted"
      BY <2>c, <2>a DEF WorkInv, TypeOK
    <3>6. \A i \in Handles \ {h} : i \in active' <=> i \in active
      BY <2>a
    <3> QED BY <2>a, <3>2, <3>4, <3>5, <3>6 DEF WorkInv, WorkShape, BodyOver
  <2> QED BY <2>1, <2>2, <2>3 DEF WorkInv
<1>2. ASSUME NEW h \in Handles, GoSubmit(h) PROVE WorkInv'
  <2>0. Retain(h) /\ body[h] = "admitted"
    BY <1>2, Counted DEF GoSubmit, WorkInv, WorkShape, Nested
  <2>1. TypeOK'
    <3>1. pending' \in [Handles -> Nat]
      BY <2>0, Retained DEF WorkInv
    <3>2. body' \in [Handles -> BodyStates]
      BY <1>2, <2>0 DEF GoSubmit, WorkInv, TypeOK, BodyStates
    <3> QED BY <3>1, <3>2, <1>2 DEF GoSubmit, WorkInv, TypeOK, scopeVars, bodyVars, cbVars, waitVars, lineage
  <2>2. WorkCounted'
    <3>1. \A i \in Handles \ {h} : /\ pending'[i] = pending[i] /\ body'[i] = body[i]
                                      /\ kids'[i] = kids[i] /\ drain'[i] = drain[i]
                                      /\ exiting'[i] = exiting[i]
      BY <1>2, <2>0, Retained DEF GoSubmit, WorkInv, TypeOK, bodyVars, cbVars, lineage
    <3>2. pending'[h] = pending[h] + 1
      BY <2>0, Retained DEF WorkInv
    <3>3. body'[h] = "scheduled" /\ kids'[h] = kids[h] /\ drain'[h] = drain[h] /\ exiting'[h] = exiting[h] /\ UNCHANGED nested
      BY <1>2 DEF GoSubmit, WorkInv, TypeOK, bodyVars, cbVars, lineage
    <3> QED BY <2>0, <3>1, <3>2, <3>3, Counted, WorkMoves DEF WorkInv, BodyHolds
  <2>3. WorkShape'
    BY <1>2, SMTT(30) DEF GoSubmit, Retain, WorkInv, WorkCounted, WorkShape, TypeOK, BodyHolds, BodyOver, BodyStates, bodyVars, cbVars, scopeVars, lineage, Nested
  <2> QED BY <2>1, <2>2, <2>3 DEF WorkInv
<1>3. ASSUME NEW h \in Handles, GoRefused(h) PROVE WorkInv'
  <2>1. TypeOK'
    BY <1>3, SMTT(30) DEF GoRefused, WorkInv, TypeOK, BodyStates, WaiterStates, scopeVars, bodyVars, cbVars, waitVars, lineage
  <2>2. WorkCounted'
    BY <1>3 DEF GoRefused, WorkInv, WorkCounted, TypeOK, BodyHolds, cbVars, lineage
  <2>3. WorkShape'
    BY <1>3, SMTT(30) DEF GoRefused, WorkInv, WorkCounted, WorkShape, TypeOK, BodyHolds, BodyOver, BodyStates, bodyVars, cbVars, scopeVars, lineage, Nested
  <2> QED BY <2>1, <2>2, <2>3 DEF WorkInv
<1>4. ASSUME NEW h \in Handles, GoCancels(h) PROVE WorkInv'
  <2>1. TypeOK'
    BY <1>4, SMTT(30) DEF GoCancels, WorkInv, TypeOK, BodyStates, WaiterStates, scopeVars, bodyVars, cbVars, waitVars, lineage
  <2>2. WorkCounted' /\ WorkShape'
    BY <1>4, WorkUntouched DEF GoCancels, WorkInv, TypeOK, bodyVars, cbVars, scopeVars, lineage
  <2> QED BY <2>1, <2>2 DEF WorkInv
<1>5. ASSUME NEW h \in Handles, StartBody(h) PROVE WorkInv'
  <2>0. /\ body[h] = "scheduled" /\ body' \in [Handles -> BodyStates]
        /\ body'[h] \in {"running", "lost"} /\ \A i \in Handles \ {h} : body'[i] = body[i]
        /\ UNCHANGED <<kind, kids, active, quiescing, cbVars, outer>>
    <3>1. PICK b \in Starts(h) : body' = [body EXCEPT ![h] = b]
      BY <1>5 DEF StartBody
    <3>2. b \in {"running", "lost"}
      BY DEF Starts
    <3> QED BY <1>5, <3>1, <3>2 DEF StartBody, WorkInv, TypeOK, BodyStates, scopeVars
  <2>1. CASE Nested(h)
    <3> DEFINE o == outer[h]
    <3>0. /\ o \in Handles /\ Retain(o) /\ nested' = [nested EXCEPT ![o] = @ + 1]
          /\ nested \in [Handles -> Nat]
      BY <1>5, <2>1 DEF StartBody, Nested, WorkInv, TypeOK
    <3> HIDE DEF o
    <3>1. /\ pending' \in [Handles -> Nat] /\ pending'[o] = pending[o] + 1
          /\ \A i \in Handles \ {o} : pending'[i] = pending[i]
      BY <3>0, Retained DEF WorkInv
    <3>2. /\ nested' \in [Handles -> Nat] /\ nested'[o] = nested[o] + 1
          /\ \A i \in Handles \ {o} : nested'[i] = nested[i]
      BY <3>0
    <3>3. TypeOK'
      <4>1. UNCHANGED <<scopeVars, kind, kids, cancelReq, goCancel, quiescing, errors, failed,
                        cbVars, waitVars, outer, stray>>
        BY <1>5 DEF StartBody
      <4> QED BY <2>0, <3>1, <3>2, <4>1 DEF WorkInv, TypeOK, scopeVars, cbVars, waitVars
    <3>4. WorkCounted'
      <4> SUFFICES ASSUME NEW i \in Handles
                   PROVE  pending'[i] = (IF body'[i] \in BodyHolds THEN 1 ELSE 0) + kids[i] + nested'[i]
                                        + (IF drain[i] # "none" THEN 1 ELSE 0) + exiting[i]
        BY <2>0 DEF WorkCounted, cbVars
      <4>1. (body'[i] \in BodyHolds) = (body[i] \in BodyHolds)
        BY <2>0 DEF BodyHolds
      <4>2. /\ pending[i] = (IF body[i] \in BodyHolds THEN 1 ELSE 0) + kids[i] + nested[i]
                            + (IF drain[i] # "none" THEN 1 ELSE 0) + exiting[i]
            /\ kids[i] \in Nat /\ exiting[i] \in Nat /\ nested[i] \in Nat
        BY Counted
      <4> QED BY <4>1, <4>2, <3>0, <3>1, <3>2
    <3>5. WorkShape'
      <4>1. body[o] \notin {"none", "admitted", "refused"}
        BY <2>1 DEF o, WorkInv, WorkShape
      <4> QED BY <4>1, <2>0, <3>2 DEF WorkInv, WorkShape, BodyOver, Nested, cbVars
    <3> QED BY <3>3, <3>4, <3>5 DEF WorkInv
  <2>2. CASE ~Nested(h)
    <3>1. UNCHANGED <<nested, pending>>
      BY <1>5, <2>2 DEF StartBody
    <3>2. TypeOK'
      BY <1>5, <2>0, <3>1 DEF StartBody, WorkInv, TypeOK, scopeVars, cbVars, waitVars
    <3>3. WorkCounted'
      BY <2>0, <3>1 DEF WorkInv, WorkCounted, BodyHolds, cbVars
    <3>4. WorkShape'
      BY <2>0, <3>1 DEF WorkInv, WorkShape, BodyOver, Nested, cbVars
    <3> QED BY <3>2, <3>3, <3>4 DEF WorkInv
  <2> QED BY <2>1, <2>2
<1>32. ASSUME NEW h \in Handles, RunnerGone(h) PROVE WorkInv'
  <2> DEFINE o == outer[h]
  <2>0. /\ o \in Handles /\ Release(o) /\ nested' = [nested EXCEPT ![o] = @ - 1]
        /\ nested \in [Handles -> Nat] /\ nested[o] > 0
        /\ outer' = [outer EXCEPT ![h] = "none"]
        /\ UNCHANGED <<kind, body, kids, active, cbVars>>
    BY <1>32 DEF RunnerGone, Nested, WorkInv, TypeOK, scopeVars
  <2>a. body[o] \notin {"none", "admitted", "refused"}
    BY <2>0 DEF WorkInv, WorkShape, Nested
  <2> HIDE DEF o
  <2>b. pending[o] > 0
    BY <2>0, Counted
  <2>1. /\ pending' \in [Handles -> Nat] /\ quiescing' \in [Handles -> Nat]
        /\ pending'[o] = pending[o] - 1
        /\ quiescing'[o] = IF pending[o] = 1 THEN quiescing[o] + 1 ELSE quiescing[o]
        /\ \A i \in Handles \ {o} : pending'[i] = pending[i] /\ quiescing'[i] = quiescing[i]
    BY <2>0, <2>b, Released DEF WorkInv
  <2>2. /\ nested' \in [Handles -> Nat] /\ nested'[o] = nested[o] - 1
        /\ \A i \in Handles \ {o} : nested'[i] = nested[i]
    <3>1. nested[o] - 1 \in Nat
      BY <2>0
    <3> QED BY <2>0, <3>1
  <2>3. TypeOK'
    BY <1>32, <2>1, <2>2 DEF RunnerGone, WorkInv, TypeOK, scopeVars, cbVars, waitVars
  <2>4. WorkCounted'
    <3> SUFFICES ASSUME NEW i \in Handles
                 PROVE  pending'[i] = (IF body[i] \in BodyHolds THEN 1 ELSE 0) + kids[i] + nested'[i]
                                      + (IF drain[i] # "none" THEN 1 ELSE 0) + exiting[i]
      BY <2>0 DEF WorkCounted, cbVars
    <3> QED BY <2>0, <2>1, <2>2, Counted
  <2>5. WorkShape'
    <3>1. \A i \in Handles : outer'[i] \in Handles => outer'[i] = outer[i]
      BY <2>0, ScopeAssumption DEF WorkInv, TypeOK
    <3>2. quiescing'[o] > 0 => body[o] \in {"refused", "released"}
      <4>1. CASE pending[o] = 1
        <5>1. body[o] \notin BodyHolds /\ body[o] \in BodyStates
          BY <4>1, <2>0, Counted
        <5> QED BY <5>1, <2>a DEF BodyHolds, BodyStates
      <4>2. CASE pending[o] # 1
        BY <4>2, <2>0, <2>1 DEF WorkInv, WorkShape
      <4> QED BY <4>1, <4>2
    <3> QED BY <2>a, <2>0, <2>1, <2>2, <3>1, <3>2 DEF WorkInv, WorkShape, BodyOver, Nested, cbVars
  <2> QED BY <2>3, <2>4, <2>5 DEF WorkInv
<1>6. ASSUME NEW h \in Handles, SpawnKid(h) PROVE WorkInv'
  <2>0. Retain(h) /\ kids[h] \in Nat
    BY <1>6, Counted DEF SpawnKid, WorkInv, WorkShape, Nested
  <2>1. TypeOK'
    <3>1. pending' \in [Handles -> Nat]
      BY <2>0, Retained DEF WorkInv
    <3>2. kids' \in [Handles -> Nat]
      BY <1>6, <2>0 DEF SpawnKid, WorkInv, TypeOK, BodyStates
    <3> QED BY <3>1, <3>2, <1>6 DEF SpawnKid, WorkInv, TypeOK, scopeVars, bodyVars, cbVars, waitVars, lineage
  <2>2. WorkCounted'
    <3>1. \A i \in Handles \ {h} : /\ pending'[i] = pending[i] /\ body'[i] = body[i]
                                      /\ kids'[i] = kids[i] /\ drain'[i] = drain[i]
                                      /\ exiting'[i] = exiting[i]
      BY <1>6, <2>0, Retained DEF SpawnKid, WorkInv, TypeOK, bodyVars, cbVars, lineage
    <3>2. pending'[h] = pending[h] + 1
      BY <2>0, Retained DEF WorkInv
    <3>3. body'[h] = body[h] /\ drain'[h] = drain[h] /\ exiting'[h] = exiting[h] /\ kids'[h] = kids[h] + 1 /\ UNCHANGED nested
      BY <1>6 DEF SpawnKid, WorkInv, TypeOK, bodyVars, cbVars, lineage
    <3> QED BY <2>0, <3>1, <3>2, <3>3, Counted, WorkMoves DEF WorkInv, BodyHolds
  <2>3. WorkShape'
    BY <1>6, SMTT(30) DEF SpawnKid, Retain, WorkInv, WorkCounted, WorkShape, TypeOK, BodyHolds, BodyOver, BodyStates, bodyVars, cbVars, scopeVars, lineage, Nested
  <2> QED BY <2>1, <2>2, <2>3 DEF WorkInv
<1>7. ASSUME NEW h \in Handles, SpawnLate(h) PROVE WorkInv'
  <2>0. Retain(h) /\ kids[h] \in Nat
    BY <1>7, Counted DEF SpawnLate, WorkInv, WorkShape, Nested
  <2>1. TypeOK'
    <3>1. pending' \in [Handles -> Nat]
      BY <2>0, Retained DEF WorkInv
    <3>2. kids' \in [Handles -> Nat]
      BY <1>7, <2>0 DEF SpawnLate, WorkInv, TypeOK, BodyStates
    <3> QED BY <3>1, <3>2, <1>7 DEF SpawnLate, WorkInv, TypeOK, scopeVars, bodyVars, cbVars, waitVars, lineage
  <2>2. WorkCounted'
    <3>1. \A i \in Handles \ {h} : /\ pending'[i] = pending[i] /\ body'[i] = body[i]
                                      /\ kids'[i] = kids[i] /\ drain'[i] = drain[i]
                                      /\ exiting'[i] = exiting[i]
      BY <1>7, <2>0, Retained DEF SpawnLate, WorkInv, TypeOK, bodyVars, cbVars, lineage
    <3>2. pending'[h] = pending[h] + 1
      BY <2>0, Retained DEF WorkInv
    <3>3. body'[h] = body[h] /\ drain'[h] = drain[h] /\ exiting'[h] = exiting[h] /\ kids'[h] = kids[h] + 1 /\ UNCHANGED nested
      BY <1>7 DEF SpawnLate, WorkInv, TypeOK, bodyVars, cbVars, lineage
    <3> QED BY <2>0, <3>1, <3>2, <3>3, Counted, WorkMoves DEF WorkInv, BodyHolds
  <2>3. WorkShape'
    BY <1>7, SMTT(30) DEF SpawnLate, Retain, WorkInv, WorkCounted, WorkShape, TypeOK, BodyHolds, BodyOver, BodyStates, bodyVars, cbVars, scopeVars, lineage, Nested
  <2> QED BY <2>1, <2>2, <2>3 DEF WorkInv
<1>8. ASSUME NEW h \in Handles, BodyDone(h) PROVE WorkInv'
  <2>0. body[h] = "running" /\ drain[h] = "none" /\ body' = [body EXCEPT ![h] = "done"]
    BY <1>8 DEF BodyDone, WorkInv, WorkShape, BodyOver, Nested
  <2>a. \/ Retain(h) /\ drain' = [drain EXCEPT ![h] = "scheduled"]
        \/ UNCHANGED <<pending, drain>>
    BY <1>8 DEF BodyDone, StartDrain
  <2>1. TypeOK'
    <3>1. pending' \in [Handles -> Nat]
      BY <2>a, Retained DEF WorkInv, TypeOK
    <3>2. drain' \in [Handles -> {"none", "scheduled", "running"}]
      BY <2>a DEF WorkInv, TypeOK
    <3>3. body' \in [Handles -> BodyStates]
      BY <2>0 DEF WorkInv, TypeOK, BodyStates
    <3> QED BY <3>1, <3>2, <3>3, <1>8 DEF BodyDone, WorkInv, TypeOK, scopeVars, waitVars, lineage
  <2>2. WorkCounted'
    <3>0. \A i \in Handles \ {h} : pending'[i] = pending[i]
      BY <2>a, Retained DEF WorkInv
    <3>1. \A i \in Handles \ {h} : /\ pending'[i] = pending[i] /\ body'[i] = body[i]
                                      /\ kids'[i] = kids[i] /\ drain'[i] = drain[i]
                                      /\ exiting'[i] = exiting[i]
      <4>1. \A i \in Handles \ {h} : body'[i] = body[i] /\ drain'[i] = drain[i]
        BY <2>0, <2>a, Typed
      <4>2. UNCHANGED <<kids, exiting>>
        BY <1>8 DEF BodyDone
      <4> QED BY <3>0, <4>1, <4>2
    <3>2. \/ pending'[h] = pending[h] + 1 /\ drain'[h] = "scheduled"
          \/ pending'[h] = pending[h] /\ drain'[h] = drain[h]
      <4>1. drain \in [Handles -> {"none", "scheduled", "running"}]
        BY DEF WorkInv, TypeOK
      <4>2. Retain(h) => pending'[h] = pending[h] + 1
        BY Retained DEF WorkInv
      <4> QED BY <2>a, <4>1, <4>2
    <3>3. body'[h] = "done" /\ kids'[h] = kids[h] /\ exiting'[h] = exiting[h] /\ UNCHANGED nested
      BY <1>8, <2>0 DEF BodyDone, WorkInv, TypeOK, lineage
    <3> QED BY <2>0, <3>1, <3>2, <3>3, Counted, WorkMoves DEF WorkInv, BodyHolds
  <2>3. WorkShape'
    <3>1. UNCHANGED <<kind, active, kids, quiescing, current, exiting, outer, nested>>
      BY <1>8 DEF BodyDone, scopeVars, lineage
    <3>2. /\ body'[h] = "done" /\ quiescing[h] = 0 /\ drain[h] = "none" /\ current[h] = 0
          /\ \A i \in Handles \ {h} : body'[i] = body[i] /\ drain'[i] = drain[i]
      <4>1. quiescing[h] \in Nat /\ (quiescing[h] > 0 => body[h] \in {"refused", "released"})
        BY Typed DEF WorkInv, WorkShape
      <4>2. current[h] = 0
        BY <2>0 DEF WorkInv, WorkShape
      <4> QED BY <2>0, <2>a, <4>1, <4>2, Typed
    <3> QED BY <2>0, <3>1, <3>2 DEF WorkInv, WorkShape, BodyOver, Nested
  <2> QED BY <2>1, <2>2, <2>3 DEF WorkInv
<1>9. ASSUME NEW h \in Handles, BodyReleases(h) PROVE WorkInv'
  <2>0. Release(h) /\ pending[h] > 0 /\ body[h] = "done"
    BY <1>9, Counted DEF BodyReleases, BodyHolds
  <2>1. TypeOK'
    <3>1. pending' \in [Handles -> Nat] /\ quiescing' \in [Handles -> Nat]
      BY <2>0, Released DEF WorkInv
    <3>2. body' \in [Handles -> BodyStates]
      BY <1>9, <2>0 DEF BodyReleases, WorkInv, TypeOK, BodyStates
    <3> QED BY <3>1, <3>2, <1>9 DEF BodyReleases, WorkInv, TypeOK, scopeVars, bodyVars, cbVars, waitVars, lineage
  <2>2. WorkCounted'
    <3>1. \A i \in Handles \ {h} : /\ pending'[i] = pending[i] /\ body'[i] = body[i]
                                      /\ kids'[i] = kids[i] /\ drain'[i] = drain[i]
                                      /\ exiting'[i] = exiting[i]
      <4>1. \A i \in Handles \ {h} : pending'[i] = pending[i]
        BY <2>0, Released DEF WorkInv
      <4> QED BY <1>9, <4>1, Typed DEF BodyReleases, cbVars
    <3>2. pending'[h] = pending[h] - 1
      BY <2>0, Released DEF WorkInv
    <3>3. body'[h] = "released" /\ kids'[h] = kids[h] /\ drain'[h] = drain[h] /\ exiting'[h] = exiting[h] /\ UNCHANGED nested
      BY <1>9, Typed DEF BodyReleases, cbVars, lineage
    <3> QED BY <2>0, <3>1, <3>2, <3>3, Counted, WorkMoves DEF WorkInv, BodyHolds
  <2>3. WorkShape'
    <3>1. quiescing'[h] > 0 => body'[h] \in {"refused", "released"}
      <4>1. CASE pending[h] = 1
        BY <1>9 DEF BodyReleases, WorkInv, TypeOK
      <4>2. CASE pending[h] # 1
        <5>1. quiescing'[h] = quiescing[h]
          BY <4>2, <2>0, Released DEF WorkInv
        <5> QED BY <5>1, <1>9 DEF BodyReleases, WorkInv, WorkShape, TypeOK, Nested
      <4> QED BY <4>1, <4>2
    <3>2. \A i \in Handles \ {h} : quiescing'[i] = quiescing[i]
      BY <2>0, Released DEF WorkInv
    <3> QED BY <3>1, <3>2, <1>9, SMTT(30) DEF BodyReleases, WorkInv, WorkShape, TypeOK, BodyOver, scopeVars, cbVars, lineage, Nested
  <2> QED BY <2>1, <2>2, <2>3 DEF WorkInv
<1>10. ASSUME NEW h \in Handles, NEW bad \in Failing, KidDone(h, bad) PROVE WorkInv'
  <2>0. Release(h) /\ pending[h] > 0 /\ kids[h] \in Nat /\ kids[h] > 0
    BY <1>10, Counted DEF KidDone, BodyHolds
  <2>1. TypeOK'
    <3>1. pending' \in [Handles -> Nat] /\ quiescing' \in [Handles -> Nat]
      BY <2>0, Released DEF WorkInv
    <3>2. kids' \in [Handles -> Nat]
      BY <1>10, <2>0 DEF KidDone, WorkInv, TypeOK, BodyStates
    <3> QED BY <3>1, <3>2, <1>10 DEF KidDone, RecordError, WorkInv, TypeOK, scopeVars, bodyVars, cbVars, waitVars, lineage
  <2>2. WorkCounted'
    <3>1. \A i \in Handles \ {h} : /\ pending'[i] = pending[i] /\ body'[i] = body[i]
                                      /\ kids'[i] = kids[i] /\ drain'[i] = drain[i]
                                      /\ exiting'[i] = exiting[i]
      BY <1>10, <2>0, Released DEF KidDone, WorkInv, TypeOK, bodyVars, cbVars, lineage
    <3>2. pending'[h] = pending[h] - 1
      BY <2>0, Released DEF WorkInv
    <3>3. body'[h] = body[h] /\ drain'[h] = drain[h] /\ exiting'[h] = exiting[h] /\ kids'[h] = kids[h] - 1 /\ UNCHANGED nested
      BY <1>10 DEF KidDone, WorkInv, TypeOK, bodyVars, cbVars, lineage
    <3> QED BY <2>0, <3>1, <3>2, <3>3, Counted, WorkMoves DEF WorkInv, BodyHolds
  <2>3. WorkShape'
    <3>1. quiescing'[h] > 0 => body'[h] \in {"refused", "released"}
      <4>1. CASE pending[h] = 1
        <5>1. body[h] \notin BodyHolds /\ body[h] \in BodyStates
          BY <4>1, <2>0, Counted
        <5>2. body[h] = "released"
          BY <5>1, <2>0 DEF WorkInv, WorkShape, BodyHolds, BodyStates, BodyOver, Nested
        <5> QED BY <5>2, <1>10 DEF KidDone
      <4>2. CASE pending[h] # 1
        <5>1. quiescing'[h] = quiescing[h]
          BY <4>2, <2>0, Released DEF WorkInv
        <5> QED BY <5>1, <1>10 DEF KidDone, WorkInv, WorkShape, TypeOK, Nested
      <4> QED BY <4>1, <4>2
    <3>2. \A i \in Handles \ {h} : quiescing'[i] = quiescing[i]
      BY <2>0, Released DEF WorkInv
    <3>3. /\ UNCHANGED <<kind, body, active, drain, current, exiting, outer, nested>>
          /\ \A i \in Handles \ {h} : kids'[i] = kids[i]
      BY <1>10, Typed DEF KidDone, scopeVars, cbVars, lineage
    <3> QED BY <2>0, <3>1, <3>2, <3>3 DEF WorkInv, WorkShape, BodyOver, Nested
  <2> QED BY <2>1, <2>2, <2>3 DEF WorkInv
<1>11. ASSUME NEW h \in Handles, RegisterCallback(h) PROVE WorkInv'
  <2>1. TypeOK'
    <3>1. registered' \in [Handles -> Nat] /\ registered[h] + 1 \in Nat
      BY <1>11 DEF RegisterCallback, WorkInv, TypeOK
    <3>2. callbacks' \in [Handles -> Seq(Nat)]
      BY <1>11, <3>1, AppendProperties DEF RegisterCallback, WorkInv, TypeOK
    <3> QED BY <3>1, <3>2, <1>11 DEF RegisterCallback, WorkInv, TypeOK, scopeVars, bodyVars, waitVars, lineage
  <2>2. WorkCounted' /\ WorkShape'
    BY <1>11, WorkUntouched DEF RegisterCallback, WorkInv, TypeOK, bodyVars, cbVars, scopeVars, lineage
  <2> QED BY <2>1, <2>2 DEF WorkInv
<1>12. ASSUME NEW h \in Handles, RegisterLate(h) PROVE WorkInv'
  <2>a. \/ Retain(h) /\ drain' = [drain EXCEPT ![h] = "scheduled"] /\ drain[h] = "none"
           /\ active' = active \cup {h} /\ epoch' = kind[h]
        \/ UNCHANGED <<pending, drain, active, epoch>>
    BY <1>12 DEF RegisterLate, StartDrain, DrainIdle, JoinEpoch, Reactivated
  <2>b. body[h] \in BodyOver /\ kind[h] \in Backends
    BY <1>12 DEF RegisterLate, MayRegisterLate, WorkInv, WorkShape, TypeOK, BodyOver, Nested
  <2>1. TypeOK'
    <3>1. pending' \in [Handles -> Nat]
      BY <2>a, Retained DEF WorkInv, TypeOK
    <3>2. drain' \in [Handles -> {"none", "scheduled", "running"}]
      BY <2>a DEF WorkInv, TypeOK
    <3>3. registered' \in [Handles -> Nat] /\ registered[h] + 1 \in Nat
      BY <1>12, Typed DEF RegisterLate
    <3>4. callbacks' \in [Handles -> Seq(Nat)]
      BY <1>12, <3>3, AppendProperties DEF RegisterLate, WorkInv, TypeOK
    <3>5. active' \subseteq Handles /\ epoch' \in Backends \cup {"none"}
      BY <2>a, <2>b DEF WorkInv, TypeOK
    <3> QED BY <3>1, <3>2, <3>3, <3>4, <3>5, <1>12 DEF RegisterLate, WorkInv, TypeOK, waitVars, lineage
  <2>2. WorkCounted'
    <3>1. \A i \in Handles \ {h} : /\ pending'[i] = pending[i] /\ body'[i] = body[i]
                                      /\ kids'[i] = kids[i] /\ drain'[i] = drain[i]
                                      /\ exiting'[i] = exiting[i]
      <4>1. \A i \in Handles \ {h} : pending'[i] = pending[i] /\ drain'[i] = drain[i]
        BY <2>a, Retained, Typed DEF WorkInv
      <4> QED BY <1>12, <4>1 DEF RegisterLate
    <3>2. \/ pending'[h] = pending[h] + 1 /\ drain'[h] = "scheduled" /\ drain[h] = "none"
          \/ pending'[h] = pending[h] /\ drain'[h] = drain[h]
      <4>1. Retain(h) => pending'[h] = pending[h] + 1
        BY Retained DEF WorkInv
      <4> QED BY <2>a, <4>1, Typed
    <3>3. body'[h] = body[h] /\ kids'[h] = kids[h] /\ exiting'[h] = exiting[h] /\ UNCHANGED nested
      BY <1>12 DEF RegisterLate, lineage
    <3> QED BY <3>1, <3>2, <3>3, Counted, WorkMoves DEF WorkInv
  <2>3. WorkShape'
    <3>1. \/ drain' = [drain EXCEPT ![h] = "scheduled"] /\ active' = active \cup {h}
          \/ UNCHANGED <<drain, active>>
      BY <2>a
    <3>2. UNCHANGED <<kind, body, kids, quiescing, current, exiting, nested, outer>>
      BY <1>12 DEF RegisterLate, lineage
    <3>3. drain \in [Handles -> {"none", "scheduled", "running"}]
      BY DEF WorkInv, TypeOK
    <3> QED BY <3>1, <3>2, <3>3, <2>b DEF WorkInv, WorkShape, BodyOver, Nested
  <2> QED BY <2>1, <2>2, <2>3 DEF WorkInv
<1>13. ASSUME NEW h \in Handles, RegisterLateRefused(h) PROVE WorkInv'
  <2>1. TypeOK'
    <3>1. active' \subseteq Handles
      BY <1>13 DEF RegisterLateRefused, Reactivated, WorkInv, TypeOK
    <3> QED BY <1>13, <3>1 DEF RegisterLateRefused, WorkInv, TypeOK, bodyVars, cbVars, waitVars, lineage
  <2>2. WorkCounted'
    BY <1>13, SMTT(30) DEF RegisterLateRefused, Reactivated, MayRegisterLate, WorkInv, WorkCounted, WorkShape, TypeOK, BodyHolds, BodyOver, bodyVars, cbVars, lineage, Nested
  <2>3. WorkShape'
    BY <1>13, SMTT(30) DEF RegisterLateRefused, Reactivated, MayRegisterLate, WorkInv, WorkCounted, WorkShape, TypeOK, BodyHolds, BodyOver, BodyStates, bodyVars, cbVars, scopeVars, lineage, Nested
  <2> QED BY <2>1, <2>2, <2>3 DEF WorkInv
<1>14. ASSUME NEW h \in Handles, DrainNext(h) PROVE WorkInv'
  <2>1. TypeOK'
    <3>1. callbacks[h] \in Seq(Nat) /\ callbacks[h] # <<>>
      BY <1>14 DEF DrainNext, WorkInv, TypeOK
    <3>2. Head(callbacks[h]) \in Nat /\ Tail(callbacks[h]) \in Seq(Nat)
      BY <3>1, HeadTailProperties
    <3>3. current' \in [Handles -> Nat] /\ callbacks' \in [Handles -> Seq(Nat)]
      BY <1>14, <3>2 DEF DrainNext, DrainTakes, WorkInv, TypeOK
    <3>4. drain' \in [Handles -> {"none", "scheduled", "running"}]
      BY <1>14 DEF DrainNext, WorkInv, TypeOK
    <3> QED BY <3>3, <3>4, <1>14 DEF DrainNext, WorkInv, TypeOK, scopeVars, bodyVars, waitVars, lineage
  <2>a. /\ drain[h] # "none" /\ drain' = [drain EXCEPT ![h] = "running"]
        /\ current' = [current EXCEPT ![h] = Head(callbacks[h])]
        /\ UNCHANGED <<active, kind, body, pending, kids, quiescing, exiting, nested, outer>>
    BY <1>14 DEF DrainNext, DrainTakes, scopeVars, bodyVars, lineage
  <2>2. WorkCounted'
    BY <2>a DEF WorkInv, WorkCounted, TypeOK
  <2>3. WorkShape'
    BY <2>a, Typed DEF WorkInv, WorkShape, Nested
  <2> QED BY <2>1, <2>2, <2>3 DEF WorkInv
<1>15. ASSUME NEW h \in Handles, DrainEnds(h) PROVE WorkInv'
  <2>1. TypeOK'
    <3>1. drain' \in [Handles -> {"none", "scheduled", "running"}] /\ exiting' \in [Handles -> Nat]
      BY <1>15 DEF DrainEnds, WorkInv, TypeOK
    <3> QED BY <1>15, <3>1 DEF DrainEnds, WorkInv, TypeOK, scopeVars, bodyVars, waitVars, lineage
  <2>2. WorkCounted'
    BY <1>15, SMTT(30) DEF DrainEnds, MayEnd, WorkInv, WorkCounted, WorkShape, TypeOK, BodyHolds, BodyOver, bodyVars, cbVars, lineage, Nested
  <2>3. WorkShape'
    BY <1>15, SMTT(30) DEF DrainEnds, MayEnd, WorkInv, WorkCounted, WorkShape, TypeOK, BodyHolds, BodyOver, BodyStates, bodyVars, cbVars, scopeVars, lineage, Nested
  <2> QED BY <2>1, <2>2, <2>3 DEF WorkInv
<1>16. ASSUME NEW h \in Handles, DrainReleases(h) PROVE WorkInv'
  <2>0. Release(h) /\ pending[h] > 0 /\ exiting[h] \in Nat /\ exiting[h] > 0
    BY <1>16, Counted DEF DrainReleases, BodyHolds
  <2>1. TypeOK'
    <3>1. pending' \in [Handles -> Nat] /\ quiescing' \in [Handles -> Nat]
      BY <2>0, Released DEF WorkInv
    <3>2. exiting' \in [Handles -> Nat]
      BY <1>16, <2>0 DEF DrainReleases, WorkInv, TypeOK, BodyStates
    <3> QED BY <3>1, <3>2, <1>16 DEF DrainReleases, WorkInv, TypeOK, scopeVars, bodyVars, cbVars, waitVars, lineage
  <2>2. WorkCounted'
    <3>1. \A i \in Handles \ {h} : /\ pending'[i] = pending[i] /\ body'[i] = body[i]
                                      /\ kids'[i] = kids[i] /\ drain'[i] = drain[i]
                                      /\ exiting'[i] = exiting[i]
      BY <1>16, <2>0, Released DEF DrainReleases, WorkInv, TypeOK, bodyVars, cbVars, lineage
    <3>2. pending'[h] = pending[h] - 1
      BY <2>0, Released DEF WorkInv
    <3>3. body'[h] = body[h] /\ drain'[h] = drain[h] /\ kids'[h] = kids[h] /\ exiting'[h] = exiting[h] - 1 /\ UNCHANGED nested
      BY <1>16 DEF DrainReleases, WorkInv, TypeOK, bodyVars, cbVars, lineage
    <3> QED BY <2>0, <3>1, <3>2, <3>3, Counted, WorkMoves DEF WorkInv, BodyHolds
  <2>3. WorkShape'
    <3>1. quiescing'[h] > 0 => body'[h] \in {"refused", "released"}
      <4>1. CASE pending[h] = 1
        <5>1. body[h] \notin BodyHolds /\ body[h] \in BodyStates
          BY <4>1, <2>0, Counted
        <5>2. body[h] = "released"
          BY <5>1, <2>0 DEF WorkInv, WorkShape, BodyHolds, BodyStates, BodyOver, Nested
        <5> QED BY <5>2, <1>16 DEF DrainReleases
      <4>2. CASE pending[h] # 1
        <5>1. quiescing'[h] = quiescing[h]
          BY <4>2, <2>0, Released DEF WorkInv
        <5> QED BY <5>1, <1>16 DEF DrainReleases, WorkInv, WorkShape, TypeOK, Nested
      <4> QED BY <4>1, <4>2
    <3>2. \A i \in Handles \ {h} : quiescing'[i] = quiescing[i]
      BY <2>0, Released DEF WorkInv
    <3>3. /\ UNCHANGED <<kind, body, active, kids, drain, current, outer, nested>>
          /\ \A i \in Handles \ {h} : exiting'[i] = exiting[i]
      BY <1>16, Typed DEF DrainReleases, scopeVars, lineage
    <3> QED BY <2>0, <3>1, <3>2, <3>3 DEF WorkInv, WorkShape, BodyOver, Nested
  <2> QED BY <2>1, <2>2, <2>3 DEF WorkInv
<1>17. ASSUME NEW h \in Handles, NEW bad \in Failing, DrainRuns(h, bad) PROVE WorkInv'
  <2>1. TypeOK'
    BY <1>17, SMTT(30) DEF DrainRuns, RecordError, WorkInv, TypeOK, BodyStates, WaiterStates, scopeVars, bodyVars, cbVars, waitVars, lineage
  <2>2. WorkCounted'
    BY <1>17, SMTT(30) DEF DrainRuns, RecordError, WorkInv, WorkCounted, WorkShape, TypeOK, BodyHolds, BodyOver, bodyVars, cbVars, lineage, Nested
  <2>3. WorkShape'
    BY <1>17, SMTT(30) DEF DrainRuns, RecordError, WorkInv, WorkCounted, WorkShape, TypeOK, BodyHolds, BodyOver, BodyStates, bodyVars, cbVars, scopeVars, lineage, Nested
  <2> QED BY <2>1, <2>2, <2>3 DEF WorkInv
<1>18. ASSUME NEW h \in Handles, HandleQuiescent(h) PROVE WorkInv'
  <2>1. TypeOK'
    <3>1. quiescing' \in [Handles -> Nat]
      BY <1>18 DEF HandleQuiescent, WorkInv, TypeOK
    <3>2. scopeErrors' \in BOOLEAN /\ cancelling' \in BOOLEAN /\ epoch' \in Backends \cup {"none"}
      BY <1>18 DEF HandleQuiescent, Quiesce, WorkInv, TypeOK
    <3>3. wpc' \in [Waiters -> WaiterStates]
      <4>1. wpc \in [Waiters -> WaiterStates]
        BY DEF WorkInv, TypeOK
      <4>2. UNCHANGED wpc \/ Notify
        BY <1>18 DEF HandleQuiescent, Quiesce
      <4> QED BY <4>1, <4>2 DEF Notify, WaiterStates
    <3> QED BY <3>1, <3>2, <3>3, <1>18 DEF HandleQuiescent, WorkInv, TypeOK, cbVars, lineage
  <2>2. WorkCounted' /\ WorkShape'
    BY <1>18, WorkUntouched DEF HandleQuiescent, Quiesce, WorkInv, TypeOK, bodyVars, cbVars, scopeVars, lineage
  <2> QED BY <2>1, <2>2 DEF WorkInv
<1>19. ASSUME NEW h \in Handles, HandleCancel(h) PROVE WorkInv'
  <2>1. TypeOK'
    BY <1>19, SMTT(30) DEF HandleCancel, WorkInv, TypeOK, BodyStates, WaiterStates, scopeVars, bodyVars, cbVars, waitVars, lineage
  <2>2. WorkCounted' /\ WorkShape'
    BY <1>19, WorkUntouched DEF HandleCancel, WorkInv, TypeOK, bodyVars, cbVars, scopeVars, lineage
  <2> QED BY <2>1, <2>2 DEF WorkInv
<1>20. ASSUME NEW t \in Tasks, Adopt(t) PROVE WorkInv'
  <2>1. TypeOK'
    BY <1>20, SMTT(30) DEF Adopt, JoinEpoch, WorkInv, TypeOK, BodyStates, WaiterStates, scopeVars, bodyVars, cbVars, waitVars, lineage
  <2>2. WorkCounted' /\ WorkShape'
    BY <1>20, WorkUntouched DEF Adopt, WorkInv, TypeOK, bodyVars, cbVars, scopeVars, lineage
  <2> QED BY <2>1, <2>2 DEF WorkInv
<1>21. ASSUME NEW t \in Tasks, AdoptedDone(t) PROVE WorkInv'
  <2>1. TypeOK'
    <3>1. cancelling' \in BOOLEAN /\ epoch' \in Backends \cup {"none"}
      BY <1>21 DEF AdoptedDone, Quiesce, WorkInv, TypeOK
    <3>2. wpc' \in [Waiters -> WaiterStates]
      BY <1>21 DEF AdoptedDone, Quiesce, Notify, WorkInv, TypeOK, WaiterStates
    <3> QED BY <3>1, <3>2, <1>21 DEF AdoptedDone, WorkInv, TypeOK, bodyVars, cbVars, lineage
  <2>2. WorkCounted' /\ WorkShape'
    BY <1>21, WorkUntouched DEF AdoptedDone, Quiesce, WorkInv, TypeOK, bodyVars, cbVars, scopeVars, lineage
  <2> QED BY <2>1, <2>2 DEF WorkInv
<1>22. CASE Seal
  <2>1. TypeOK'
    BY <1>22, SMTT(30) DEF Seal, WorkInv, TypeOK, BodyStates, WaiterStates, scopeVars, bodyVars, cbVars, waitVars, lineage
  <2>2. WorkCounted' /\ WorkShape'
    BY <1>22, WorkUntouched DEF Seal, WorkInv, TypeOK, bodyVars, cbVars, scopeVars, lineage
  <2> QED BY <2>1, <2>2 DEF WorkInv
<1>23. ASSUME NEW w \in Waiters, ScopeCancel(w) PROVE WorkInv'
  <2>1. TypeOK'
    BY <1>23, SMTT(30) DEF ScopeCancel, WorkInv, TypeOK, BodyStates, WaiterStates, scopeVars, bodyVars, cbVars, waitVars, lineage
  <2>2. WorkCounted' /\ WorkShape'
    BY <1>23, WorkUntouched DEF ScopeCancel, WorkInv, TypeOK, bodyVars, cbVars, scopeVars, lineage
  <2> QED BY <2>1, <2>2 DEF WorkInv
<1>24. ASSUME NEW w \in Waiters, ScopeCancelWaits(w) PROVE WorkInv'
  <2>1. TypeOK'
    BY <1>24, SMTT(30) DEF ScopeCancelWaits, WorkInv, TypeOK, BodyStates, WaiterStates, scopeVars, bodyVars, cbVars, waitVars, lineage
  <2>2. WorkCounted' /\ WorkShape'
    BY <1>24, WorkUntouched DEF ScopeCancelWaits, WorkInv, TypeOK, bodyVars, cbVars, scopeVars, lineage
  <2> QED BY <2>1, <2>2 DEF WorkInv
<1>25. ASSUME NEW w \in Waiters, NEW h \in Handles, ScopeCancelOne(w, h) PROVE WorkInv'
  <2>1. TypeOK'
    BY <1>25, SMTT(30) DEF ScopeCancelOne, WorkInv, TypeOK, BodyStates, WaiterStates, scopeVars, bodyVars, cbVars, waitVars, lineage
  <2>2. WorkCounted' /\ WorkShape'
    BY <1>25, WorkUntouched DEF ScopeCancelOne, WorkInv, TypeOK, bodyVars, cbVars, scopeVars, lineage
  <2> QED BY <2>1, <2>2 DEF WorkInv
<1>26. ASSUME NEW w \in Waiters, WaitSettled(w) PROVE WorkInv'
  <2>1. TypeOK'
    BY <1>26, SMTT(30) DEF WaitSettled, WorkInv, TypeOK, BodyStates, WaiterStates, scopeVars, bodyVars, cbVars, waitVars, lineage
  <2>2. WorkCounted' /\ WorkShape'
    BY <1>26, WorkUntouched DEF WaitSettled, WorkInv, TypeOK, bodyVars, cbVars, scopeVars, lineage
  <2> QED BY <2>1, <2>2 DEF WorkInv
<1>27. ASSUME NEW w \in Waiters, CloseBegins(w) PROVE WorkInv'
  <2>1. TypeOK'
    <3>1. sealed' \in BOOLEAN /\ closer' \subseteq Waiters
      <4>1. sealed \in BOOLEAN /\ closer \subseteq Waiters
        BY DEF WorkInv, TypeOK
      <4> QED BY <1>27, <4>1 DEF CloseBegins
    <3>2. wpc' \in [Waiters -> WaiterStates]
      BY <1>27, Typed DEF CloseBegins, WaiterStates
    <3> QED BY <3>1, <3>2, <1>27 DEF CloseBegins, WorkInv, TypeOK, bodyVars, cbVars, lineage
  <2>2. WorkCounted' /\ WorkShape'
    BY <1>27, WorkUntouched DEF CloseBegins, WorkInv, TypeOK, bodyVars, cbVars, scopeVars, lineage
  <2> QED BY <2>1, <2>2 DEF WorkInv
<1>28. ASSUME NEW w \in Waiters, BarrierWaits(w) PROVE WorkInv'
  <2>1. TypeOK'
    BY <1>28, SMTT(30) DEF BarrierWaits, WorkInv, TypeOK, BodyStates, WaiterStates, scopeVars, bodyVars, cbVars, waitVars, lineage
  <2>2. WorkCounted' /\ WorkShape'
    BY <1>28, WorkUntouched DEF BarrierWaits, WorkInv, TypeOK, bodyVars, cbVars, scopeVars, lineage
  <2> QED BY <2>1, <2>2 DEF WorkInv
<1>29. ASSUME NEW w \in Waiters, BarrierReturns(w) PROVE WorkInv'
  <2>1. TypeOK'
    BY <1>29, SMTT(30) DEF BarrierReturns, WorkInv, TypeOK, BodyStates, WaiterStates, scopeVars, bodyVars, cbVars, waitVars, lineage
  <2>2. WorkCounted' /\ WorkShape'
    BY <1>29, WorkUntouched DEF BarrierReturns, WorkInv, TypeOK, bodyVars, cbVars, scopeVars, lineage
  <2> QED BY <2>1, <2>2 DEF WorkInv
<1>30. ASSUME NEW w \in Waiters, BarrierTimesOut(w) PROVE WorkInv'
  <2>1. TypeOK'
    BY <1>30, SMTT(30) DEF BarrierTimesOut, WorkInv, TypeOK, BodyStates, WaiterStates, scopeVars, bodyVars, cbVars, waitVars, lineage
  <2>2. WorkCounted' /\ WorkShape'
    BY <1>30, WorkUntouched DEF BarrierTimesOut, WorkInv, TypeOK, bodyVars, cbVars, scopeVars, lineage
  <2> QED BY <2>1, <2>2 DEF WorkInv
<1>33. CASE LeavesBehind
  <2>1. TypeOK'
    BY <1>33 DEF LeavesBehind, WorkInv, TypeOK, scopeVars, bodyVars, cbVars, waitVars
  <2>2. WorkCounted' /\ WorkShape'
    BY <1>33, WorkUntouched DEF LeavesBehind, WorkInv, bodyVars, cbVars, scopeVars
  <2> QED BY <2>1, <2>2 DEF WorkInv
<1>34. ASSUME NEW w \in Waiters, CloseCompletes(w) PROVE WorkInv'
  <2>1. TypeOK'
    BY <1>34 DEF CloseCompletes, WorkInv, TypeOK, WaiterStates, bodyVars, cbVars, lineage
  <2>2. WorkCounted' /\ WorkShape'
    BY <1>34, WorkUntouched DEF CloseCompletes, WorkInv, bodyVars, cbVars, lineage
  <2> QED BY <2>1, <2>2 DEF WorkInv
<1>31. CASE UNCHANGED vars
  <2>1. TypeOK'
    BY <1>31 DEF vars, WorkInv, TypeOK, BodyStates, WaiterStates, scopeVars, bodyVars, cbVars, waitVars, lineage
  <2>2. WorkCounted' /\ WorkShape'
    BY <1>31, WorkUntouched DEF vars, WorkInv, bodyVars, cbVars, scopeVars, lineage
  <2> QED BY <2>1, <2>2 DEF WorkInv
<1> QED BY <1>1, <1>2, <1>3, <1>4, <1>5, <1>6, <1>7, <1>8, <1>9, <1>10, <1>11, <1>12, <1>13, <1>14, <1>15, <1>16, <1>17, <1>18, <1>19, <1>20, <1>21, <1>22, <1>23, <1>24, <1>25, <1>26, <1>27, <1>28, <1>29, <1>30, <1>31, <1>32, <1>33, <1>34
     DEF Next, BodyStep, CallbackStep, ScopeStep, WaiterStep

-----------------------------------------------------------------------------
(* Epochs                                                                  *)

(***************************************************************************)
(* Work of a scope runs in the epoch: whoever is active has the epoch's    *)
(* backend, and a body that is not over is active.                         *)
(***************************************************************************)
EpochShape ==
    /\ HasActiveWork => epoch # "none"
    /\ \A h \in active : kind[h] = epoch
    /\ \A h \in Handles : body[h] \in {"admitted", "scheduled", "running"} => h \in active

\* No step separates active work from its epoch.
LEMMA NextEpoch == WorkInv /\ EpochShape /\ [Next]_vars => EpochShape'
<1> SUFFICES ASSUME WorkInv /\ EpochShape, [Next]_vars PROVE EpochShape'
  OBVIOUS
<1>1. ASSUME NEW h \in Handles, NEW n \in 0..MaxCallbacks[h], Go(h, n) PROVE EpochShape'
  <2>1. PICK b \in Backends : JoinEpoch(b) /\ kind' = [kind EXCEPT ![h] = b]
    BY <1>1 DEF Go
  <2>2. b # "none" /\ h \notin active
    BY <1>1, ScopeAssumption DEF Go, WorkInv, WorkShape
  <2> QED BY <1>1, <2>1, <2>2, SMTT(30) DEF Go, JoinEpoch, WorkInv, TypeOK, EpochShape, HasActiveWork
<1>2. ASSUME NEW h \in Handles, GoSubmit(h) PROVE EpochShape'
  BY <1>2 DEF GoSubmit, WorkInv, TypeOK, EpochShape, HasActiveWork, scopeVars, lineage
<1>3. ASSUME NEW h \in Handles, GoRefused(h) PROVE EpochShape'
  BY <1>3 DEF GoRefused, WorkInv, TypeOK, EpochShape, HasActiveWork, scopeVars, lineage
<1>4. ASSUME NEW h \in Handles, StartBody(h) PROVE EpochShape'
  BY <1>4 DEF StartBody, WorkInv, TypeOK, EpochShape, HasActiveWork, scopeVars, lineage
<1>5. ASSUME NEW h \in Handles, BodyDone(h) PROVE EpochShape'
  BY <1>5 DEF BodyDone, WorkInv, TypeOK, EpochShape, HasActiveWork, scopeVars, lineage
<1>6. ASSUME NEW h \in Handles, BodyReleases(h) PROVE EpochShape'
  BY <1>6 DEF BodyReleases, WorkInv, TypeOK, EpochShape, HasActiveWork, scopeVars, lineage
<1>7. ASSUME NEW h \in Handles, RegisterLate(h) PROVE EpochShape'
  <2>1. kind[h] # "none"
    BY <1>7 DEF RegisterLate, MayRegisterLate, WorkInv, WorkShape, BodyOver
  <2> QED BY <1>7, <2>1 DEF RegisterLate, JoinEpoch, Reactivated, WorkInv, TypeOK, EpochShape, HasActiveWork
<1>8. ASSUME NEW h \in Handles, RegisterLateRefused(h) PROVE EpochShape'
  BY <1>8 DEF RegisterLateRefused, Reactivated, WorkInv, TypeOK, EpochShape, HasActiveWork, bodyVars, lineage
<1>9. ASSUME NEW h \in Handles, HandleQuiescent(h) PROVE EpochShape'
  <2>1. body[h] \notin {"admitted", "scheduled", "running"}
    BY <1>9 DEF HandleQuiescent, WorkInv, WorkShape
  <2> QED BY <1>9, <2>1 DEF HandleQuiescent, Quiesce, WorkInv, TypeOK, EpochShape, HasActiveWork
<1>10. ASSUME NEW t \in Tasks, Adopt(t) PROVE EpochShape'
  BY <1>10 DEF Adopt, JoinEpoch, WorkInv, TypeOK, EpochShape, HasActiveWork, bodyVars, lineage
<1>11. ASSUME NEW t \in Tasks, AdoptedDone(t) PROVE EpochShape'
  BY <1>11 DEF AdoptedDone, Quiesce, EpochShape, HasActiveWork, bodyVars, lineage
<1>12. CASE UNCHANGED <<active, adopted, epoch, kind, body>>
  BY <1>12 DEF EpochShape, HasActiveWork
<1> QED BY <1>1, <1>2, <1>3, <1>4, <1>5, <1>6, <1>7, <1>8, <1>9, <1>10, <1>11, <1>12
     DEF Next, BodyStep, CallbackStep, ScopeStep, WaiterStep, vars, scopeVars, bodyVars, cbVars, waitVars, lineage,
         RunnerGone, LeavesBehind, CloseCompletes, GoCancels, SpawnKid, SpawnLate, KidDone, RegisterCallback, DrainNext,
         DrainEnds, DrainReleases, DrainRuns, HandleCancel, Seal, ScopeCancel,
         ScopeCancelWaits, ScopeCancelOne, WaitSettled, CloseBegins, BarrierWaits,
         BarrierReturns, BarrierTimesOut

-----------------------------------------------------------------------------
(* Cancellation and notification                                           *)

\* The fence over a scope that is being cancelled stays closed.
LEMMA NextFence == WorkInv /\ EpochShape /\ CancelFence /\ [Next]_vars => CancelFence'
<1> SUFFICES ASSUME WorkInv /\ EpochShape /\ CancelFence, [Next]_vars PROVE CancelFence'
  OBVIOUS
<1>1. ASSUME NEW h \in Handles, NEW n \in 0..MaxCallbacks[h], Go(h, n) PROVE CancelFence'
  BY <1>1 DEF Go, SeesFence, CancelFence, WorkInv, TypeOK, waitVars, lineage
<1>2. ASSUME NEW h \in Handles, GoSubmit(h) PROVE CancelFence'
  BY <1>2 DEF GoSubmit, CancelFence, WorkInv, TypeOK, scopeVars, waitVars, lineage
<1>3. ASSUME NEW h \in Handles, GoRefused(h) PROVE CancelFence'
  BY <1>3 DEF GoRefused, CancelFence, WorkInv, TypeOK, scopeVars, waitVars, lineage
<1>4. ASSUME NEW h \in Handles, GoCancels(h) PROVE CancelFence'
  BY <1>4 DEF GoCancels, CancelCounts, BodyOver, CancelFence, WorkInv, TypeOK, scopeVars, waitVars, lineage
<1>5. ASSUME NEW h \in Handles, StartBody(h) PROVE CancelFence'
  BY <1>5 DEF StartBody, CancelFence, WorkInv, TypeOK, scopeVars, waitVars, lineage
<1>6. ASSUME NEW h \in Handles, BodyDone(h) PROVE CancelFence'
  BY <1>6 DEF BodyDone, CancelFence, WorkInv, TypeOK, scopeVars, waitVars, lineage
<1>7. ASSUME NEW h \in Handles, BodyReleases(h) PROVE CancelFence'
  BY <1>7 DEF BodyReleases, CancelFence, WorkInv, TypeOK, scopeVars, waitVars, lineage
<1>8. ASSUME NEW h \in Handles, RegisterLate(h) PROVE CancelFence'
  <2>1. /\ body[h] \in BodyOver /\ active' \subseteq active \cup {h}
        /\ UNCHANGED <<cancelling, body, cancelReq, goCancel, todo>>
    BY <1>8 DEF RegisterLate, MayRegisterLate, Reactivated, waitVars, lineage
  <2> QED BY <2>1 DEF CancelFence, BodyOver
<1>9. ASSUME NEW h \in Handles, RegisterLateRefused(h) PROVE CancelFence'
  BY <1>9 DEF RegisterLateRefused, MayRegisterLate, Reactivated, CancelFence, BodyOver, bodyVars, waitVars, lineage
<1>10. ASSUME NEW h \in Handles, HandleQuiescent(h) PROVE CancelFence'
  BY <1>10 DEF HandleQuiescent, Quiesce, CancelFence
<1>11. ASSUME NEW h \in Handles, HandleCancel(h) PROVE CancelFence'
  BY <1>11 DEF HandleCancel, CancelFence, WorkInv, TypeOK, scopeVars, waitVars, lineage
<1>12. ASSUME NEW t \in Tasks, AdoptedDone(t) PROVE CancelFence'
  BY <1>12 DEF AdoptedDone, Quiesce, CancelFence, bodyVars, lineage
<1>13. ASSUME NEW w \in Waiters, ScopeCancel(w) PROVE CancelFence'
  BY <1>13 DEF ScopeCancel, CancelFence, WorkInv, TypeOK, bodyVars, lineage
<1>14. ASSUME NEW w \in Waiters, NEW h \in Handles, ScopeCancelOne(w, h) PROVE CancelFence'
  BY <1>14 DEF ScopeCancelOne, CancelCounts, BodyOver, CancelFence, WorkInv, TypeOK, scopeVars, lineage
<1>15. CASE UNCHANGED <<cancelling, active, body, cancelReq, goCancel, todo>>
  BY <1>15 DEF CancelFence
<1> QED BY <1>1, <1>2, <1>3, <1>4, <1>5, <1>6, <1>7, <1>8, <1>9, <1>10, <1>11, <1>12, <1>13, <1>14, <1>15
     DEF Next, BodyStep, CallbackStep, ScopeStep, WaiterStep, vars, scopeVars, bodyVars, cbVars, waitVars, lineage,
         RunnerGone, LeavesBehind, CloseCompletes, SpawnKid, SpawnLate, KidDone, RegisterCallback, DrainNext, DrainEnds,
         DrainReleases, DrainRuns, Adopt, Seal, ScopeCancelWaits, WaitSettled,
         CloseBegins, BarrierWaits, BarrierReturns, BarrierTimesOut

\* Whoever takes away the last work wakes the sleeping barriers.
LEMMA NextSleepers == WorkInv /\ SleepersHaveWork /\ [Next]_vars => SleepersHaveWork'
<1> SUFFICES ASSUME WorkInv /\ SleepersHaveWork, [Next]_vars PROVE SleepersHaveWork'
  OBVIOUS
<1>1. ASSUME NEW h \in Handles, NEW n \in 0..MaxCallbacks[h], Go(h, n) PROVE SleepersHaveWork'
  BY <1>1 DEF Go, SleepersHaveWork, HasActiveWork, WorkInv, TypeOK, scopeVars, waitVars, lineage
<1>2. ASSUME NEW h \in Handles, RegisterLate(h) PROVE SleepersHaveWork'
  BY <1>2 DEF RegisterLate, Reactivated, SleepersHaveWork, HasActiveWork, WorkInv, TypeOK, scopeVars, waitVars, lineage
<1>3. ASSUME NEW h \in Handles, RegisterLateRefused(h) PROVE SleepersHaveWork'
  BY <1>3 DEF RegisterLateRefused, Reactivated, SleepersHaveWork, HasActiveWork, WorkInv, TypeOK, scopeVars, waitVars, lineage
<1>4. ASSUME NEW h \in Handles, HandleQuiescent(h) PROVE SleepersHaveWork'
  BY <1>4 DEF HandleQuiescent, Quiesce, Notify, SleepersHaveWork, HasActiveWork, WorkInv, TypeOK, scopeVars, waitVars, lineage
<1>5. ASSUME NEW t \in Tasks, Adopt(t) PROVE SleepersHaveWork'
  BY <1>5 DEF Adopt, SleepersHaveWork, HasActiveWork, WorkInv, TypeOK, scopeVars, waitVars, lineage
<1>6. ASSUME NEW t \in Tasks, AdoptedDone(t) PROVE SleepersHaveWork'
  BY <1>6 DEF AdoptedDone, Quiesce, Notify, SleepersHaveWork, HasActiveWork, WorkInv, TypeOK, scopeVars, waitVars, lineage
<1>7. ASSUME NEW w \in Waiters, ScopeCancel(w) PROVE SleepersHaveWork'
  BY <1>7 DEF ScopeCancel, SleepersHaveWork, HasActiveWork, WorkInv, TypeOK, scopeVars, waitVars, lineage
<1>8. ASSUME NEW w \in Waiters, ScopeCancelWaits(w) PROVE SleepersHaveWork'
  BY <1>8 DEF ScopeCancelWaits, SleepersHaveWork, HasActiveWork, WorkInv, TypeOK, scopeVars, waitVars, lineage
<1>9. ASSUME NEW w \in Waiters, WaitSettled(w) PROVE SleepersHaveWork'
  BY <1>9 DEF WaitSettled, SleepersHaveWork, HasActiveWork, WorkInv, TypeOK, scopeVars, waitVars, lineage
<1>10. ASSUME NEW w \in Waiters, CloseBegins(w) PROVE SleepersHaveWork'
  BY <1>10 DEF CloseBegins, SleepersHaveWork, HasActiveWork, WorkInv, TypeOK, scopeVars, waitVars, lineage
<1>11. ASSUME NEW w \in Waiters, BarrierWaits(w) PROVE SleepersHaveWork'
  BY <1>11 DEF BarrierWaits, MustWait, SleepersHaveWork, HasActiveWork, WorkInv, TypeOK, scopeVars, waitVars, lineage
<1>12. ASSUME NEW w \in Waiters, BarrierReturns(w) PROVE SleepersHaveWork'
  BY <1>12 DEF BarrierReturns, SleepersHaveWork, HasActiveWork, WorkInv, TypeOK, scopeVars, waitVars, lineage
<1>13. ASSUME NEW w \in Waiters, BarrierTimesOut(w) PROVE SleepersHaveWork'
  BY <1>13 DEF BarrierTimesOut, SleepersHaveWork, HasActiveWork, WorkInv, TypeOK, scopeVars, waitVars, lineage
<1>14. CASE UNCHANGED <<active, adopted, wpc>>
  BY <1>14 DEF SleepersHaveWork, HasActiveWork
<1>15. ASSUME NEW w \in Waiters, CloseCompletes(w) PROVE SleepersHaveWork'
  BY <1>15 DEF CloseCompletes, SleepersHaveWork, HasActiveWork, WorkInv, TypeOK
<1> QED BY <1>1, <1>2, <1>3, <1>4, <1>5, <1>6, <1>7, <1>8, <1>9, <1>10, <1>11, <1>12, <1>13, <1>14, <1>15
     DEF Next, BodyStep, CallbackStep, ScopeStep, WaiterStep, vars, scopeVars, bodyVars, cbVars, waitVars, lineage,
         RunnerGone, LeavesBehind, GoSubmit, GoRefused, GoCancels, StartBody, SpawnKid, SpawnLate, BodyDone,
         BodyReleases, KidDone, RegisterCallback, DrainNext, DrainEnds,
         DrainReleases, DrainRuns, HandleCancel, Seal, ScopeCancelOne

-----------------------------------------------------------------------------
(* Callbacks                                                               *)

(***************************************************************************)
(* Callbacks are numbered: the executed ones, the one that executes and    *)
(* the queued ones are consecutive segments of the numbers given out.      *)
(***************************************************************************)
Held(h) == IF current[h] = 0 THEN 0 ELSE 1

QueueShapeOf(h) ==
    /\ \A i \in 1..Len(ran[h]) : ran[h][i] = i
    /\ current[h] # 0 => current[h] = Len(ran[h]) + 1
    /\ \A i \in 1..Len(callbacks[h]) : callbacks[h][i] = Len(ran[h]) + Held(h) + i
    /\ registered[h] = Len(ran[h]) + Held(h) + Len(callbacks[h])
    /\ body[h] = "none" => registered[h] = 0

QueueShape == \A h \in Handles : QueueShapeOf(h)

\* The other handles' queues stay as they are.
LEMMA QueueMoves ==
    ASSUME QueueShape, NEW h \in Handles, QueueShapeOf(h)',
           \A i \in Handles \ {h} : /\ ran'[i] = ran[i] /\ current'[i] = current[i]
                                    /\ callbacks'[i] = callbacks[i]
                                    /\ registered'[i] = registered[i] /\ body'[i] = body[i]
    PROVE  QueueShape'
<1>1. ASSUME NEW i \in Handles \ {h} PROVE QueueShapeOf(i)'
  <2>1. QueueShapeOf(i) /\ Held(i)' = Held(i)
    BY DEF QueueShape, Held
  <2> QED BY <2>1 DEF QueueShapeOf
<1> QED BY <1>1 DEF QueueShape

\* Sums of the three lengths.
LEMMA Sums ==
    /\ \A a, i \in Int : a + (i + 1) = a + 1 + i
    /\ \A a, c \in Int : a + 0 + c = a + 1 + (c - 1)
OBVIOUS

\* A callback joins at the end of the queue.
LEMMA QueueAppend ==
    ASSUME WorkInv, QueueShape, NEW h \in Handles, body[h] # "none",
           callbacks' = [callbacks EXCEPT ![h] = Append(@, registered[h] + 1)],
           registered' = [registered EXCEPT ![h] = @ + 1], UNCHANGED <<ran, current, body>>
    PROVE  QueueShape'
<1>1. /\ callbacks[h] \in Seq(Nat) /\ registered[h] \in Nat /\ ran[h] \in Seq(Nat)
      /\ callbacks'[h] = Append(callbacks[h], registered[h] + 1)
      /\ registered'[h] = registered[h] + 1
  BY DEF WorkInv, TypeOK
<1>2. Len(callbacks'[h]) = Len(callbacks[h]) + 1 /\ Len(callbacks[h]) \in Nat /\ Len(ran[h]) \in Nat
  BY <1>1
<1>3. \A i \in 1..Len(callbacks'[h]) : callbacks'[h][i] =
          IF i <= Len(callbacks[h]) THEN callbacks[h][i] ELSE registered[h] + 1
  BY <1>1, <1>2
<1>4. QueueShapeOf(h)
  BY DEF QueueShape
<1>5. QueueShapeOf(h)'
  <2>1. Held(h)' = Held(h) /\ Held(h) \in {0, 1}
    BY DEF Held
  <2>2. registered'[h] = Len(ran'[h]) + Held(h)' + Len(callbacks'[h])
    <3>1. registered[h] = Len(ran[h]) + Held(h) + Len(callbacks[h])
      BY <1>4 DEF QueueShapeOf
    <3>2. \A m, k \in Nat : \A x \in {0, 1} : (m + x + k) + 1 = m + x + (k + 1)
      OBVIOUS
    <3>3. registered[h] + 1 = Len(ran[h]) + Held(h) + (Len(callbacks[h]) + 1)
      BY <3>1, <3>2, <1>2, <2>1, Zenon
    <3> QED BY <3>3, <1>1, <1>2, <2>1, Zenon
  <2>3. \A i \in 1..Len(callbacks'[h]) : callbacks'[h][i] = Len(ran'[h]) + Held(h)' + i
    <3> SUFFICES ASSUME NEW i \in 1..(Len(callbacks[h]) + 1)
                 PROVE  callbacks'[h][i] = Len(ran[h]) + Held(h) + i
      BY <1>2, <2>1
    <3>1. CASE i <= Len(callbacks[h])
      <4>1. i \in 1..Len(callbacks[h])
        BY <3>1, <1>2
      <4> QED BY <3>1, <4>1, <1>2, <1>3, <1>4 DEF QueueShapeOf
    <3>2. CASE i = Len(callbacks[h]) + 1
      <4>1. callbacks'[h][i] = registered[h] + 1
        BY <3>2, <1>2, <1>3
      <4> QED BY <3>2, <4>1, <1>1, <1>2, <2>1, <2>2
    <3> QED BY <3>1, <3>2, <1>2
  <2> QED BY <1>4, <2>2, <2>3 DEF QueueShapeOf
<1>6. \A i \in Handles \ {h} : callbacks'[i] = callbacks[i] /\ registered'[i] = registered[i]
  BY DEF WorkInv, TypeOK
<1> QED BY <1>5, <1>6, QueueMoves

\* Every step keeps the numbering of the callbacks.
LEMMA NextQueue == WorkInv /\ QueueShape /\ [Next]_vars => QueueShape'
<1> SUFFICES ASSUME WorkInv /\ QueueShape, [Next]_vars PROVE QueueShape'
  OBVIOUS
<1>1. ASSUME NEW h \in Handles, NEW n \in 0..MaxCallbacks[h], Go(h, n) PROVE QueueShape'
  <2>1. QueueShapeOf(h) /\ body[h] = "none"
    BY <1>1 DEF Go, QueueShape
  <2>2. ran[h] \in Seq(Nat) /\ callbacks[h] \in Seq(Nat) /\ current[h] \in Nat
    BY DEF WorkInv, TypeOK
  <2>3. Len(ran[h]) = 0 /\ Held(h) = 0
    <3>1. Len(ran[h]) \in Nat /\ Len(callbacks[h]) \in Nat /\ Held(h) \in {0, 1}
      BY <2>2 DEF Held
    <3> QED BY <2>1, <3>1 DEF QueueShapeOf
  <2>4. /\ callbacks'[h] = [i \in 1..n |-> i] /\ registered'[h] = n /\ body'[h] = "admitted"
        /\ UNCHANGED <<ran, current>> /\ n \in Nat
    BY <1>1, ScopeAssumption DEF Go, WorkInv, TypeOK
  <2>5. Len(callbacks'[h]) = n /\ \A i \in 1..n : callbacks'[h][i] = i
    BY <2>4
  <2>6. Held(h)' = 0
    BY <2>3, <2>4 DEF Held
  <2>7. QueueShapeOf(h)'
    <3>1. \A i \in 1..Len(ran'[h]) : ran'[h][i] = i
      BY <2>1, <2>4 DEF QueueShapeOf
    <3>2. current'[h] = 0
      BY <2>3, <2>4 DEF Held
    <3>3. \A i \in 1..Len(callbacks'[h]) : callbacks'[h][i] = Len(ran'[h]) + Held(h)' + i
      BY <2>3, <2>4, <2>5, <2>6
    <3>4. registered'[h] = Len(ran'[h]) + Held(h)' + Len(callbacks'[h])
      BY <2>3, <2>4, <2>5, <2>6
    <3> QED BY <2>4, <3>1, <3>2, <3>3, <3>4 DEF QueueShapeOf
  <2>8. \A i \in Handles \ {h} : /\ callbacks'[i] = callbacks[i]
                                 /\ registered'[i] = registered[i] /\ body'[i] = body[i]
    BY <1>1 DEF Go, WorkInv, TypeOK
  <2> QED BY <2>4, <2>7, <2>8, QueueMoves
<1>2. ASSUME NEW h \in Handles, GoSubmit(h) PROVE QueueShape'
  <2>1. UNCHANGED <<ran, current, callbacks, registered>> /\ \A i \in Handles : body'[i] = "none" => body[i] = "none"
    BY <1>2 DEF GoSubmit, WorkInv, TypeOK, cbVars, lineage
  <2> QED BY <2>1 DEF QueueShape, QueueShapeOf, Held
<1>3. ASSUME NEW h \in Handles, GoRefused(h) PROVE QueueShape'
  <2>1. UNCHANGED <<ran, current, callbacks, registered>> /\ \A i \in Handles : body'[i] = "none" => body[i] = "none"
    BY <1>3 DEF GoRefused, WorkInv, TypeOK, cbVars, lineage
  <2> QED BY <2>1 DEF QueueShape, QueueShapeOf, Held
<1>4. ASSUME NEW h \in Handles, StartBody(h) PROVE QueueShape'
  <2>1. UNCHANGED <<ran, current, callbacks, registered>> /\ \A i \in Handles : body'[i] = "none" => body[i] = "none"
    BY <1>4 DEF StartBody, Starts, WorkInv, TypeOK, cbVars, lineage
  <2> QED BY <2>1 DEF QueueShape, QueueShapeOf, Held
<1>5. ASSUME NEW h \in Handles, BodyDone(h) PROVE QueueShape'
  <2>1. UNCHANGED <<ran, current, callbacks, registered>> /\ \A i \in Handles : body'[i] = "none" => body[i] = "none"
    BY <1>5 DEF BodyDone, WorkInv, TypeOK, cbVars, lineage
  <2> QED BY <2>1 DEF QueueShape, QueueShapeOf, Held
<1>6. ASSUME NEW h \in Handles, BodyReleases(h) PROVE QueueShape'
  <2>1. UNCHANGED <<ran, current, callbacks, registered>> /\ \A i \in Handles : body'[i] = "none" => body[i] = "none"
    BY <1>6 DEF BodyReleases, WorkInv, TypeOK, cbVars, lineage
  <2> QED BY <2>1 DEF QueueShape, QueueShapeOf, Held
<1>7. ASSUME NEW h \in Handles, RegisterCallback(h) PROVE QueueShape'
  BY <1>7, QueueAppend DEF RegisterCallback, bodyVars, lineage
<1>8. ASSUME NEW h \in Handles, RegisterLate(h) PROVE QueueShape'
  BY <1>8, QueueAppend DEF RegisterLate, MayRegisterLate, BodyOver
<1>9. ASSUME NEW h \in Handles, DrainNext(h) PROVE QueueShape'
  <2>1. /\ callbacks[h] \in Seq(Nat) /\ callbacks[h] # <<>> /\ ran[h] \in Seq(Nat) /\ current[h] = 0
        /\ callbacks'[h] = Tail(callbacks[h]) /\ current'[h] = Head(callbacks[h])
        /\ UNCHANGED <<ran, registered, body>>
    BY <1>9 DEF DrainNext, DrainTakes, WorkInv, TypeOK, bodyVars, lineage
  <2>2. /\ Len(callbacks[h]) \in Nat \ {0} /\ Len(callbacks'[h]) = Len(callbacks[h]) - 1
        /\ current'[h] = callbacks[h][1] /\ Len(ran[h]) \in Nat
    BY <2>1
  <2>3. \A i \in 1..Len(callbacks'[h]) : callbacks'[h][i] = callbacks[h][i + 1]
    BY <2>1, <2>2
  <2>4. QueueShapeOf(h) /\ Held(h) = 0
    BY <2>1 DEF QueueShape, Held
  <2>5. current'[h] = Len(ran[h]) + 1
    BY <2>2, <2>4 DEF QueueShapeOf
  <2>6. Held(h)' = 1
    BY <2>2, <2>5 DEF Held
  <2>7. \A i \in 1..Len(callbacks'[h]) : callbacks'[h][i] = Len(ran'[h]) + Held(h)' + i
    <3>1. \A i \in 1..Len(callbacks'[h]) : i + 1 \in 1..Len(callbacks[h])
      BY <2>2
    <3>2. \A j \in 1..Len(callbacks[h]) : callbacks[h][j] = Len(ran[h]) + j
      BY <2>2, <2>4 DEF QueueShapeOf
    <3>3. ASSUME NEW i \in 1..Len(callbacks'[h]) PROVE callbacks'[h][i] = Len(ran[h]) + 1 + i
      <4>1. callbacks'[h][i] = Len(ran[h]) + (i + 1)
        BY <3>1, <3>2, <2>3
      <4>2. i \in Int
        BY <2>2
      <4>3. Len(ran[h]) \in Int
        BY <2>2
      <4> QED BY <4>1, <4>2, <4>3, Sums, Zenon
    <3> QED BY <2>1, <2>6, <3>3
  <2>8. QueueShapeOf(h)'
    <3>1. \A i \in 1..Len(ran'[h]) : ran'[h][i] = i
      BY <2>1, <2>4 DEF QueueShapeOf
    <3>2. current'[h] = Len(ran'[h]) + 1
      BY <2>1, <2>5
    <3>3. registered'[h] = Len(ran'[h]) + Held(h)' + Len(callbacks'[h])
      <4>1. registered[h] = Len(ran[h]) + Held(h) + Len(callbacks[h])
        BY <2>4 DEF QueueShapeOf
      <4>2. Len(ran[h]) \in Int /\ Len(callbacks[h]) \in Int
        BY <2>2
      <4> QED BY <4>1, <4>2, <2>1, <2>2, <2>4, <2>6, Sums, Zenon
    <3>4. body'[h] = "none" => registered'[h] = 0
      BY <2>1, <2>4 DEF QueueShapeOf
    <3> QED BY <2>7, <3>1, <3>2, <3>3, <3>4 DEF QueueShapeOf
  <2>9. \A i \in Handles \ {h} : callbacks'[i] = callbacks[i] /\ current'[i] = current[i]
    BY <1>9 DEF DrainNext, WorkInv, TypeOK
  <2> QED BY <2>1, <2>8, <2>9, QueueMoves
<1>10. ASSUME NEW h \in Handles, NEW bad \in Failing, DrainRuns(h, bad) PROVE QueueShape'
  <2>1. /\ ran[h] \in Seq(Nat) /\ current[h] \in Nat /\ current[h] # 0 /\ callbacks[h] \in Seq(Nat)
        /\ ran'[h] = Append(ran[h], current[h]) /\ current'[h] = 0
        /\ UNCHANGED <<callbacks, registered, body>>
    BY <1>10 DEF DrainRuns, WorkInv, TypeOK
  <2>2. QueueShapeOf(h) /\ Held(h) = 1 /\ Held(h)' = 0
    BY <2>1 DEF QueueShape, Held
  <2>3. Len(ran'[h]) = Len(ran[h]) + 1 /\ Len(ran[h]) \in Nat /\ Len(callbacks[h]) \in Nat
    BY <2>1
  <2>4. \A i \in 1..Len(ran'[h]) : ran'[h][i] = IF i <= Len(ran[h]) THEN ran[h][i] ELSE current[h]
    BY <2>1, <2>3
  <2>5. \A i \in 1..Len(ran'[h]) : ran'[h][i] = i
    BY <2>1, <2>2, <2>3, <2>4 DEF QueueShapeOf
  <2>6. QueueShapeOf(h)'
    <3>1. \A i \in 1..Len(callbacks'[h]) : callbacks'[h][i] = Len(ran'[h]) + Held(h)' + i
      <4>1. \A i \in 1..Len(callbacks[h]) : callbacks[h][i] = Len(ran[h]) + 1 + i
        BY <2>2 DEF QueueShapeOf
      <4> QED BY <4>1, <2>1, <2>2, <2>3
    <3>2. registered'[h] = Len(ran'[h]) + Held(h)' + Len(callbacks'[h])
      BY <2>1, <2>2, <2>3 DEF QueueShapeOf
    <3>3. body'[h] = "none" => registered'[h] = 0
      BY <2>1, <2>2 DEF QueueShapeOf
    <3> QED BY <2>1, <2>5, <3>1, <3>2, <3>3 DEF QueueShapeOf
  <2>7. \A i \in Handles \ {h} : ran'[i] = ran[i] /\ current'[i] = current[i]
    BY <1>10 DEF DrainRuns, WorkInv, TypeOK
  <2> QED BY <2>1, <2>6, <2>7, QueueMoves
<1>11. CASE UNCHANGED <<ran, current, callbacks, registered, body>>
  BY <1>11 DEF QueueShape, QueueShapeOf, Held
<1> QED BY <1>1, <1>2, <1>3, <1>4, <1>5, <1>6, <1>7, <1>8, <1>9, <1>10, <1>11
     DEF Next, BodyStep, CallbackStep, ScopeStep, WaiterStep, vars, scopeVars, bodyVars, cbVars, waitVars, lineage,
         RunnerGone, LeavesBehind, CloseCompletes, GoCancels, SpawnKid, SpawnLate, KidDone, RegisterLateRefused, DrainEnds,
         DrainReleases, HandleQuiescent, HandleCancel, Adopt, AdoptedDone, Seal,
         ScopeCancel, ScopeCancelWaits, ScopeCancelOne, WaitSettled, CloseBegins,
         BarrierWaits, BarrierReturns, BarrierTimesOut

\* A drain gives up its role only when the queue is empty, and whoever
\* registers behind it starts the next.
LEMMA NextStranded == WorkInv /\ NoStrandedCallback /\ [Next]_vars => NoStrandedCallback'
<1> SUFFICES ASSUME WorkInv /\ NoStrandedCallback, [Next]_vars PROVE NoStrandedCallback'
  OBVIOUS
<1>1. ASSUME NEW h \in Handles, NEW n \in 0..MaxCallbacks[h], Go(h, n) PROVE NoStrandedCallback'
  BY <1>1 DEF Go, NoStrandedCallback, BodyOver, WorkInv, TypeOK
<1>2. ASSUME NEW h \in Handles, GoSubmit(h) PROVE NoStrandedCallback'
  BY <1>2 DEF GoSubmit, NoStrandedCallback, BodyOver, WorkInv, TypeOK, cbVars, lineage
<1>3. ASSUME NEW h \in Handles, GoRefused(h) PROVE NoStrandedCallback'
  BY <1>3 DEF GoRefused, NoStrandedCallback, BodyOver, WorkInv, TypeOK, cbVars, lineage
<1>4. ASSUME NEW h \in Handles, StartBody(h) PROVE NoStrandedCallback'
  BY <1>4 DEF StartBody, Starts, NoStrandedCallback, BodyOver, WorkInv, TypeOK, cbVars, lineage
<1>5. ASSUME NEW h \in Handles, BodyDone(h) PROVE NoStrandedCallback'
  BY <1>5 DEF BodyDone, Activates, DrainIdle, StartDrain, NoStrandedCallback, BodyOver, WorkInv, TypeOK, cbVars, lineage
<1>6. ASSUME NEW h \in Handles, BodyReleases(h) PROVE NoStrandedCallback'
  BY <1>6 DEF BodyReleases, NoStrandedCallback, BodyOver, WorkInv, TypeOK, cbVars, lineage
<1>7. ASSUME NEW h \in Handles, RegisterCallback(h) PROVE NoStrandedCallback'
  BY <1>7 DEF RegisterCallback, bodyVars, NoStrandedCallback, BodyOver, WorkInv, TypeOK, cbVars, lineage
<1>8. ASSUME NEW h \in Handles, RegisterLate(h) PROVE NoStrandedCallback'
  BY <1>8 DEF RegisterLate, DrainIdle, StartDrain, NoStrandedCallback, BodyOver, WorkInv, TypeOK, cbVars, lineage
<1>9. ASSUME NEW h \in Handles, DrainNext(h) PROVE NoStrandedCallback'
  BY <1>9 DEF DrainNext, bodyVars, NoStrandedCallback, BodyOver, WorkInv, TypeOK, cbVars, lineage
<1>10. ASSUME NEW h \in Handles, DrainEnds(h) PROVE NoStrandedCallback'
  BY <1>10 DEF DrainEnds, MayEnd, bodyVars, NoStrandedCallback, BodyOver, WorkInv, TypeOK, cbVars, lineage
<1>11. CASE UNCHANGED <<callbacks, body, drain>>
  BY <1>11 DEF NoStrandedCallback
<1> QED BY <1>1, <1>2, <1>3, <1>4, <1>5, <1>6, <1>7, <1>8, <1>9, <1>10, <1>11
     DEF Next, BodyStep, CallbackStep, ScopeStep, WaiterStep, vars, scopeVars, bodyVars, cbVars, waitVars, lineage,
         RunnerGone, LeavesBehind, CloseCompletes, GoCancels, SpawnKid, SpawnLate, KidDone, RegisterLateRefused,
         DrainReleases, DrainRuns, HandleQuiescent, HandleCancel, Adopt,
         AdoptedDone, Seal, ScopeCancel, ScopeCancelWaits, ScopeCancelOne,
         WaitSettled, CloseBegins, BarrierWaits, BarrierReturns, BarrierTimesOut

-----------------------------------------------------------------------------
(* What holds in every setting                                             *)

IInv ==
    WorkInv /\ EpochShape /\ CancelFence /\ SleepersHaveWork /\ QueueShape /\ NoStrandedCallback

LEMMA InitScope == Init => IInv
<1> SUFFICES ASSUME Init PROVE IInv
  OBVIOUS
<1>1. WorkInv
  BY InitWork
<1>2. EpochShape
  BY DEF Init, EpochShape, HasActiveWork
<1>3. CancelFence
  BY DEF Init, CancelFence
<1>4. SleepersHaveWork
  BY DEF Init, SleepersHaveWork
<1>5. QueueShape
  BY DEF Init, QueueShape, QueueShapeOf, Held
<1>6. NoStrandedCallback
  BY DEF Init, NoStrandedCallback
<1> QED BY <1>1, <1>2, <1>3, <1>4, <1>5, <1>6 DEF IInv

LEMMA NextScope == IInv /\ [Next]_vars => IInv'
<1> SUFFICES ASSUME IInv, [Next]_vars PROVE IInv'
  OBVIOUS
<1>1. WorkInv'
  BY NextWork DEF IInv
<1>2. EpochShape'
  BY NextEpoch DEF IInv
<1>3. CancelFence'
  BY NextFence DEF IInv
<1>4. SleepersHaveWork'
  BY NextSleepers DEF IInv
<1>5. QueueShape'
  BY NextQueue DEF IInv
<1>6. NoStrandedCallback'
  BY NextStranded DEF IInv
<1> QED BY <1>1, <1>2, <1>3, <1>4, <1>5, <1>6 DEF IInv

\* The inductive invariant holds in every reachable state.
LEMMA Invariance == Spec => []IInv
BY InitScope, NextScope, PTL DEF Spec

\* Every variable stays in its domain; _pending_work never goes below zero.
THEOREM TypeCorrect == Spec => []TypeOK
<1>1. IInv => TypeOK
  BY DEF IInv, WorkInv
<1> QED BY Invariance, <1>1, PTL

\* The work count of a handle is exact (_retain_work and _release_work are
\* paired on every path), whatever the callbacks and late spawns.
THEOREM WorkIsCounted == Spec => []WorkCounted
<1>1. IInv => WorkCounted
  BY DEF IInv, WorkInv
<1> QED BY Invariance, <1>1, PTL

\* From admission to its outcome the body of go() finds the epoch it was
\* admitted to, and is in _active_handles.
THEOREM EpochIsKept == Spec => []EpochCoversAdmitted
<1>1. IInv => EpochCoversAdmitted
  BY DEF IInv, EpochShape, EpochCoversAdmitted
<1> QED BY Invariance, <1>1, PTL

\* Work that go() admits behind the snapshot of cancel_and_wait_settled is
\* cancelled as well.
THEOREM FenceHolds == Spec => []CancelFence
<1>1. IInv => CancelFence
  BY DEF IInv
<1> QED BY Invariance, <1>1, PTL

\* No barrier sleeps on the scope condition when there is nothing to wait for.
THEOREM SleepersAreWoken == Spec => []SleepersHaveWork
<1>1. IInv => SleepersHaveWork
  BY DEF IInv
<1> QED BY Invariance, <1>1, PTL

\* Callbacks run once each, in order of registration, also when they are
\* registered while a drain ends (_register_callback against _drain_callbacks).
THEOREM CallbackOrder == Spec => []CallbacksInOrder
<1>1. ASSUME WorkInv, QueueShape, NEW h \in Handles
      PROVE  ran[h] \o (IF current[h] = 0 THEN <<>> ELSE <<current[h]>>) \o callbacks[h]
                 = [i \in 1..registered[h] |-> i]
  <2> DEFINE c == IF current[h] = 0 THEN <<>> ELSE <<current[h]>>
             a == ran[h] \o c
             s == a \o callbacks[h]
             t == [i \in 1..registered[h] |-> i]
  <2>1. /\ ran[h] \in Seq(Nat) /\ callbacks[h] \in Seq(Nat) /\ current[h] \in Nat
        /\ registered[h] \in Nat
    BY <1>1 DEF WorkInv, TypeOK
  <2>2. QueueShapeOf(h)
    BY <1>1 DEF QueueShape
  <2>3. c \in Seq(Nat) /\ Len(c) = Held(h) /\ (Held(h) = 1 => c[1] = current[h])
    BY <2>1 DEF Held
  <2> HIDE DEF c
  <2>4. /\ a \in Seq(Nat) /\ Len(a) = Len(ran[h]) + Len(c)
        /\ \A i \in 1..(Len(ran[h]) + Len(c)) :
              a[i] = IF i <= Len(ran[h]) THEN ran[h][i] ELSE c[i - Len(ran[h])]
    BY <2>1, <2>3, ConcatProperties
  <2> HIDE DEF a
  <2>5. /\ s \in Seq(Nat) /\ Len(s) = Len(a) + Len(callbacks[h])
        /\ \A i \in 1..(Len(a) + Len(callbacks[h])) :
              s[i] = IF i <= Len(a) THEN a[i] ELSE callbacks[h][i - Len(a)]
    <3>1. a \in Seq(Nat) /\ callbacks[h] \in Seq(Nat)
      BY <2>1, <2>4
    <3> QED BY <3>1, ConcatProperties, Zenon
  <2> HIDE DEF s
  <2>6. t \in Seq(Nat) /\ Len(t) = registered[h] /\ \A i \in 1..registered[h] : t[i] = i
    BY <2>1
  <2> HIDE DEF t
  <2>7. /\ Len(ran[h]) \in Nat /\ Len(callbacks[h]) \in Nat /\ Held(h) \in {0, 1}
        /\ registered[h] = Len(ran[h]) + Held(h) + Len(callbacks[h])
    BY <2>1, <2>2 DEF QueueShapeOf, Held
  <2>8. \A i \in 1..Len(a) : a[i] = i
    <3> SUFFICES ASSUME NEW i \in 1..(Len(ran[h]) + Held(h)) PROVE a[i] = i
      BY <2>3, <2>4
    <3>1. CASE i <= Len(ran[h])
      <4>1. i \in 1..Len(ran[h])
        BY <3>1, <2>7
      <4> QED BY <3>1, <4>1, <2>2, <2>3, <2>4 DEF QueueShapeOf
    <3>2. CASE ~(i <= Len(ran[h]))
      <4>1. Held(h) = 1 /\ i = Len(ran[h]) + 1 /\ i - Len(ran[h]) = 1
        BY <3>2, <2>7
      <4>2. a[i] = c[1]
        BY <3>2, <4>1, <2>3, <2>4
      <4>3. current[h] = Len(ran[h]) + 1
        BY <4>1, <2>2 DEF QueueShapeOf, Held
      <4> QED BY <4>1, <4>2, <4>3, <2>3
    <3> QED BY <3>1, <3>2
  <2>9. \A i \in 1..Len(s) : s[i] = i
    <3> SUFFICES ASSUME NEW i \in 1..(Len(a) + Len(callbacks[h])) PROVE s[i] = i
      BY <2>5
    <3>0. Len(a) = Len(ran[h]) + Held(h) /\ Len(a) \in Nat
      BY <2>3, <2>4, <2>7
    <3>1. CASE i <= Len(a)
      <4>1. i \in 1..Len(a)
        BY <3>0, <3>1, <2>7
      <4> QED BY <3>1, <4>1, <2>5, <2>8
    <3>2. CASE ~(i <= Len(a))
      <4> DEFINE j == i - Len(a)
      <4>0. \A m, k \in Nat : \A x \in 1..(m + k) :
               ~(x <= m) => x - m \in 1..k /\ m + (x - m) = x
        OBVIOUS
      <4>1. j \in 1..Len(callbacks[h]) /\ Len(a) + j = i
        BY <4>0, <3>0, <3>2, <2>7, Zenon
      <4>2. s[i] = callbacks[h][j]
        BY <3>2, <2>5
      <4> HIDE DEF j
      <4>3. callbacks[h][j] = Len(ran[h]) + Held(h) + j
        BY <4>1, <2>2 DEF QueueShapeOf
      <4> QED BY <4>1, <4>2, <4>3, <3>0
    <3> QED BY <3>1, <3>2
  <2>10. Len(s) = registered[h]
    BY <2>3, <2>4, <2>5, <2>7
  <2>11. s = t
    BY <2>5, <2>6, <2>9, <2>10, SeqEqual
  <2> QED BY <2>11 DEF s, a, c, t
<1>2. IInv => CallbacksInOrder
  BY <1>1 DEF IInv, CallbacksInOrder
<1> QED BY Invariance, <1>2, PTL

\* A callback registered on a finished body always has a drain to run it.
THEOREM NoCallbackIsStranded == Spec => []NoStrandedCallback
<1>1. IInv => NoStrandedCallback
  BY DEF IInv
<1> QED BY Invariance, <1>1, PTL

-----------------------------------------------------------------------------
(* What holds when handles settle for good                                 *)

(***************************************************************************)
(* No callback is registered between the last release of a handle and the  *)
(* scope's reaction to it, and nothing of a handle spawns tasks after its  *)
(* body is over.  Without this a settled handle comes back to life behind  *)
(* the scope's back, and the rest of this module is false.                 *)
(***************************************************************************)
SettlesOnce == LateCallbacks # "any" /\ ~Lingers

\* A handle that has work of its own is active, and its last release happens
\* once before the scope reacts.  A settled handle may retain nested runners; it
\* is then not active, and the scope's reaction to their release finds nothing.
UnsettledShape ==
    \A h \in Handles :
        /\ quiescing[h] > 0 => quiescing[h] = 1 /\ pending[h] = 0
        /\ Unsettled(h) => h \in active

\* An error is with an active handle or with the scope.
ErrorShape == errors \subseteq active /\ (scopeErrors \/ failed \subseteq errors)

\* Who is completing a close has sealed the scope.
CloserShape == closer # {} \/ Closing => sealed

\* A sealed scope in which everything is over, and nobody is left to go on.
Quiet ==
    /\ sealed /\ ~HasActiveWork /\ ~stray
    /\ \A h \in Handles : ~Unsettled(h) /\ body[h] # "admitted"

\* A handle whose code is running has retained work.
LEMMA RunningIsCounted ==
    ASSUME WorkInv, NEW h \in Handles,
           body[h] \in BodyHolds \/ current[h] # 0 \/ kids[h] > 0 \/ drain[h] # "none" \/ exiting[h] > 0
    PROVE  pending[h] > nested[h] /\ pending[h] > 0
<1>1. current[h] # 0 => drain[h] # "none"
  BY DEF WorkInv, WorkShape
<1> QED BY <1>1, Counted

\* ... and keeps the scope active.
LEMMA OwnedIsActive ==
    ASSUME WorkInv, UnsettledShape, OwnedWorkRuns
    PROVE  HasActiveWork
<1>1. CASE adopted # {}
  BY <1>1 DEF HasActiveWork
<1>2. ASSUME NEW h \in Handles, body[h] = "running" \/ current[h] # 0 \/ kids[h] > 0
      PROVE  HasActiveWork
  <2>1. pending[h] > nested[h]
    BY <1>2, RunningIsCounted DEF BodyHolds
  <2> QED BY <2>1 DEF UnsettledShape, Unsettled, HasActiveWork
<1> QED BY <1>1, <1>2 DEF OwnedWorkRuns, CodeRuns

\* An active handle may retain more.
LEMMA UnsettledRetain ==
    ASSUME WorkInv, UnsettledShape, NEW h \in Handles, h \in active, quiescing[h] = 0,
           Retain(h) \/ UNCHANGED pending, UNCHANGED <<active, quiescing, nested>>
    PROVE  UnsettledShape'
<1>1. \A i \in Handles \ {h} : pending'[i] = pending[i]
  BY Retained DEF WorkInv
<1> QED BY <1>1 DEF UnsettledShape, Unsettled

\* A handle that has work of its own may release some.
LEMMA UnsettledRelease ==
    ASSUME WorkInv, UnsettledShape, NEW h \in Handles, pending[h] > nested[h],
           Release(h), UNCHANGED <<active, nested>>
    PROVE  UnsettledShape'
<1>1. h \in active /\ quiescing[h] = 0 /\ pending[h] \in Nat /\ nested[h] \in Nat /\ pending[h] > 0
  BY Counted DEF UnsettledShape, Unsettled
<1>2. /\ quiescing'[h] = IF pending[h] = 1 THEN 1 ELSE 0
      /\ pending'[h] = pending[h] - 1
      /\ \A i \in Handles \ {h} : pending'[i] = pending[i] /\ quiescing'[i] = quiescing[i]
  BY <1>1, Released DEF WorkInv
<1> QED BY <1>1, <1>2 DEF UnsettledShape, Unsettled

\* A handle leaves _active_handles only with its work done.
LEMMA NextUnsettled ==
    ASSUME SettlesOnce
    PROVE  WorkInv /\ EpochShape /\ UnsettledShape /\ [Next]_vars => UnsettledShape'
<1> SUFFICES ASSUME WorkInv /\ EpochShape /\ UnsettledShape, [Next]_vars PROVE UnsettledShape'
  OBVIOUS
<1>1. ASSUME NEW h \in Handles, NEW n \in 0..MaxCallbacks[h], Go(h, n) PROVE UnsettledShape'
  BY <1>1 DEF Go, UnsettledShape, Unsettled
<1>2. ASSUME NEW h \in Handles, GoSubmit(h) PROVE UnsettledShape'
  <2>1. (Retain(h) \/ UNCHANGED pending) /\ UNCHANGED <<active, quiescing, nested>>
    BY <1>2 DEF GoSubmit, scopeVars, lineage
  <2>2. h \in active /\ quiescing[h] = 0
    BY <1>2, Counted DEF GoSubmit, WorkInv, WorkShape, EpochShape
  <2> QED BY <2>1, <2>2, UnsettledRetain
<1>3. ASSUME NEW h \in Handles, GoRefused(h) PROVE UnsettledShape'
  <2>1. /\ body[h] = "admitted" /\ UNCHANGED <<active, pending, nested>>
        /\ quiescing' = [quiescing EXCEPT ![h] = @ + 1]
    BY <1>3 DEF GoRefused, scopeVars, lineage
  <2>2. quiescing[h] = 0 /\ pending[h] = 0
    BY <2>1, Counted DEF WorkInv, WorkShape, EpochShape, BodyHolds, BodyOver
  <2> QED BY <2>1, <2>2, Typed DEF UnsettledShape, Unsettled
<1>4. ASSUME NEW h \in Handles, SpawnKid(h) PROVE UnsettledShape'
  <2>1. (Retain(h) \/ UNCHANGED pending) /\ UNCHANGED <<active, quiescing, nested>>
    BY <1>4 DEF SpawnKid, scopeVars, lineage
  <2>2. h \in active /\ quiescing[h] = 0
    <3>1. pending[h] > nested[h]
      BY <1>4, RunningIsCounted DEF SpawnKid, BodyHolds
    <3> QED BY <3>1, Counted DEF UnsettledShape, Unsettled
  <2> QED BY <2>1, <2>2, UnsettledRetain
<1>5. ASSUME NEW h \in Handles, SpawnLate(h) PROVE UnsettledShape'
  BY <1>5 DEF SpawnLate, SettlesOnce
<1>6. ASSUME NEW h \in Handles, BodyDone(h) PROVE UnsettledShape'
  <2>1. (Retain(h) \/ UNCHANGED pending) /\ UNCHANGED <<active, quiescing, nested>>
    BY <1>6 DEF BodyDone, StartDrain, scopeVars, lineage
  <2>2. h \in active /\ quiescing[h] = 0
    <3>1. pending[h] > nested[h]
      BY <1>6, RunningIsCounted DEF BodyDone, BodyHolds
    <3> QED BY <3>1, Counted DEF UnsettledShape, Unsettled
  <2> QED BY <2>1, <2>2, UnsettledRetain
<1>7. ASSUME NEW h \in Handles, BodyReleases(h) PROVE UnsettledShape'
  <2>1. Release(h) /\ pending[h] > nested[h] /\ UNCHANGED <<active, nested>>
    BY <1>7, RunningIsCounted DEF BodyReleases, BodyHolds, scopeVars, lineage
  <2> QED BY <2>1, UnsettledRelease
<1>8. ASSUME NEW h \in Handles, NEW bad \in Failing, KidDone(h, bad) PROVE UnsettledShape'
  <2>1. Release(h) /\ pending[h] > nested[h] /\ UNCHANGED <<active, nested>>
    BY <1>8, RunningIsCounted DEF KidDone, BodyHolds, scopeVars, lineage
  <2> QED BY <2>1, UnsettledRelease
<1>9. ASSUME NEW h \in Handles, RegisterLate(h) PROVE UnsettledShape'
  <2>1. quiescing[h] = 0 /\ UNCHANGED <<quiescing, nested>>
    BY <1>9 DEF RegisterLate, MayRegisterLate, SettlesOnce, lineage
  <2>2. CASE DrainIdle(h)
    <3>1. Retain(h) /\ active' = active \cup {h}
      BY <1>9, <2>2 DEF RegisterLate, StartDrain, Reactivated
    <3>2. \A i \in Handles \ {h} : pending'[i] = pending[i]
      BY <3>1, Retained DEF WorkInv
    <3> QED BY <2>1, <3>1, <3>2 DEF UnsettledShape, Unsettled
  <2>3. CASE ~DrainIdle(h)
    BY <1>9, <2>1, <2>3 DEF RegisterLate, UnsettledShape, Unsettled
  <2> QED BY <2>2, <2>3
<1>10. ASSUME NEW h \in Handles, RegisterLateRefused(h) PROVE UnsettledShape'
  BY <1>10 DEF RegisterLateRefused, Reactivated, UnsettledShape, Unsettled, bodyVars, lineage
<1>11. ASSUME NEW h \in Handles, DrainReleases(h) PROVE UnsettledShape'
  <2>1. Release(h) /\ pending[h] > nested[h] /\ UNCHANGED <<active, nested>>
    BY <1>11, RunningIsCounted DEF DrainReleases, BodyHolds, scopeVars, lineage
  <2> QED BY <2>1, UnsettledRelease
<1>12. ASSUME NEW h \in Handles, HandleQuiescent(h) PROVE UnsettledShape'
  <2>1. /\ quiescing[h] = 1 /\ pending[h] = 0 /\ quiescing' = [quiescing EXCEPT ![h] = 0]
        /\ active' = active \ {h} /\ UNCHANGED <<pending, nested>>
    <3>1. quiescing[h] = 1 /\ pending[h] = 0
      BY <1>12 DEF HandleQuiescent, UnsettledShape
    <3>2. quiescing[h] - 1 = 0
      BY <3>1
    <3> QED BY <1>12, <3>1, <3>2 DEF HandleQuiescent, lineage
  <2>2. quiescing \in [Handles -> Nat] /\ nested[h] \in Nat
    BY DEF WorkInv, TypeOK
  <2> QED BY <2>1, <2>2 DEF UnsettledShape, Unsettled
<1>13. ASSUME NEW h \in Handles, StartBody(h) PROVE UnsettledShape'
  <2>1. CASE Nested(h)
    <3> DEFINE o == outer[h]
    <3>1. /\ o \in Handles /\ Retain(o) /\ quiescing[o] = 0 /\ UNCHANGED <<active, quiescing>>
          /\ nested' = [nested EXCEPT ![o] = @ + 1] /\ nested \in [Handles -> Nat]
      BY <1>13, <2>1 DEF StartBody, Nested, WorkInv, TypeOK, scopeVars
    <3> HIDE DEF o
    <3>2. pending'[o] = pending[o] + 1 /\ \A i \in Handles \ {o} : pending'[i] = pending[i]
      BY <3>1, Retained DEF WorkInv
    <3>3. pending[o] \in Nat /\ nested[o] \in Nat
      BY <3>1, Counted
    <3> QED BY <3>1, <3>2, <3>3 DEF UnsettledShape, Unsettled
  <2>2. CASE ~Nested(h)
    BY <1>13, <2>2 DEF StartBody, UnsettledShape, Unsettled, scopeVars
  <2> QED BY <2>1, <2>2
<1>14. ASSUME NEW h \in Handles, RunnerGone(h) PROVE UnsettledShape'
  <2> DEFINE o == outer[h]
  <2>1. /\ o \in Handles /\ Release(o) /\ nested[o] > 0 /\ UNCHANGED active
        /\ nested' = [nested EXCEPT ![o] = @ - 1] /\ nested \in [Handles -> Nat]
    BY <1>14 DEF RunnerGone, Nested, WorkInv, TypeOK, scopeVars
  <2> HIDE DEF o
  <2>2. pending[o] \in Nat /\ nested[o] \in Nat /\ pending[o] > 0
    BY <2>1, Counted
  <2>3. quiescing[o] = 0
    BY <2>1, <2>2, Counted DEF UnsettledShape
  <2>4. /\ pending'[o] = pending[o] - 1
        /\ quiescing'[o] = IF pending[o] = 1 THEN 1 ELSE 0
        /\ \A i \in Handles \ {o} : pending'[i] = pending[i] /\ quiescing'[i] = quiescing[i]
    BY <2>1, <2>2, <2>3, Released DEF WorkInv
  <2>5. nested'[o] = nested[o] - 1 /\ \A i \in Handles \ {o} : nested'[i] = nested[i]
    BY <2>1
  <2> QED BY <2>1, <2>2, <2>4, <2>5 DEF UnsettledShape, Unsettled
<1>15. CASE UNCHANGED <<active, pending, quiescing, nested>>
  BY <1>15 DEF UnsettledShape, Unsettled
<1> QED BY <1>1, <1>2, <1>3, <1>4, <1>5, <1>6, <1>7, <1>8, <1>9, <1>10, <1>11, <1>12, <1>13, <1>14, <1>15
     DEF Next, BodyStep, CallbackStep, ScopeStep, WaiterStep, vars, scopeVars, bodyVars, cbVars, waitVars, lineage,
         GoCancels, RegisterCallback, DrainNext, DrainEnds, DrainRuns, LeavesBehind,
         HandleCancel, Adopt, AdoptedDone, Seal, ScopeCancel, ScopeCancelWaits,
         ScopeCancelOne, WaitSettled, CloseBegins, BarrierWaits, BarrierReturns,
         BarrierTimesOut, CloseCompletes

\* An error moves from its handle to the scope before the handle is gone.
LEMMA NextErrors == WorkInv /\ UnsettledShape /\ ErrorShape /\ [Next]_vars => ErrorShape'
<1> SUFFICES ASSUME WorkInv /\ UnsettledShape /\ ErrorShape, [Next]_vars PROVE ErrorShape'
  OBVIOUS
<1>1. ASSUME NEW h \in Handles, NEW n \in 0..MaxCallbacks[h], Go(h, n) PROVE ErrorShape'
  BY <1>1 DEF Go, ErrorShape
<1>2. ASSUME NEW h \in Handles, RegisterLate(h) PROVE ErrorShape'
  BY <1>2 DEF RegisterLate, Reactivated, ErrorShape
<1>3. ASSUME NEW h \in Handles, RegisterLateRefused(h) PROVE ErrorShape'
  BY <1>3 DEF RegisterLateRefused, Reactivated, ErrorShape, bodyVars, lineage
<1>4. ASSUME NEW h \in Handles, NEW bad \in Failing, KidDone(h, bad) PROVE ErrorShape'
  <2>1. h \in active
    BY <1>4, RunningIsCounted DEF KidDone, UnsettledShape, Unsettled
  <2> QED BY <1>4, <2>1 DEF KidDone, RecordError, ErrorShape, scopeVars, lineage
<1>5. ASSUME NEW h \in Handles, NEW bad \in Failing, DrainRuns(h, bad) PROVE ErrorShape'
  <2>1. h \in active
    BY <1>5, RunningIsCounted DEF DrainRuns, UnsettledShape, Unsettled
  <2> QED BY <1>5, <2>1 DEF DrainRuns, RecordError, ErrorShape, scopeVars, lineage
<1>6. ASSUME NEW h \in Handles, HandleQuiescent(h) PROVE ErrorShape'
  BY <1>6 DEF HandleQuiescent, Reported, ErrorShape
<1>7. CASE UNCHANGED <<active, errors, failed, scopeErrors>>
  BY <1>7 DEF ErrorShape
<1> QED BY <1>1, <1>2, <1>3, <1>4, <1>5, <1>6, <1>7
     DEF Next, BodyStep, CallbackStep, ScopeStep, WaiterStep, vars, scopeVars, bodyVars, cbVars, waitVars, lineage,
         RunnerGone, LeavesBehind, CloseCompletes, GoSubmit, GoRefused, GoCancels, StartBody, SpawnKid, SpawnLate, BodyDone,
         BodyReleases, RegisterCallback, DrainNext, DrainEnds, DrainReleases,
         HandleCancel, Adopt, AdoptedDone, Seal, ScopeCancel, ScopeCancelWaits,
         ScopeCancelOne, WaitSettled, CloseBegins, BarrierWaits, BarrierReturns,
         BarrierTimesOut

\* A close is about to complete only from a barrier that has just returned.
LEMMA NextClosing ==
    ASSUME WorkInv, [Next]_vars, Closing'
    PROVE  Closing \/ \E w \in closer : BarrierReturns(w)
<1>0. wpc \in [Waiters -> WaiterStates]
  BY DEF WorkInv, TypeOK
<1>1. CASE closeCompleted'
  <2>1. closeCompleted \/ \E w \in Waiters : CloseCompletes(w)
    <3>1. CASE BodyStep
      BY <1>1, <3>1 DEF BodyStep, scopeVars, waitVars, lineage,
         Go, GoSubmit, GoRefused, GoCancels, StartBody, RunnerGone, SpawnKid, SpawnLate, BodyDone, BodyReleases, KidDone
    <3>2. CASE CallbackStep
      BY <1>1, <3>2 DEF CallbackStep, scopeVars, waitVars, lineage,
         RegisterCallback, RegisterLate, RegisterLateRefused, DrainNext, DrainEnds, DrainReleases, DrainRuns
    <3>3. CASE ScopeStep
      BY <1>1, <3>3 DEF ScopeStep, scopeVars, waitVars, lineage,
         HandleQuiescent, HandleCancel, Adopt, AdoptedDone, Seal, LeavesBehind
    <3>4. CASE WaiterStep
      BY <1>1, <3>4 DEF WaiterStep, scopeVars, waitVars, lineage,
         ScopeCancel, ScopeCancelWaits, ScopeCancelOne, WaitSettled, CloseBegins, BarrierWaits, BarrierReturns, BarrierTimesOut
    <3> QED BY <1>1, <3>1, <3>2, <3>3, <3>4 DEF Next, vars, scopeVars, waitVars, lineage
  <2> QED BY <2>1 DEF Closing, CloseCompletes
<1>2. ASSUME NEW w \in Waiters, wpc'[w] = "settled" PROVE Closing \/ \E v \in closer : BarrierReturns(v)
  <2>1. CASE wpc[w] = "settled"
    BY <2>1 DEF Closing
  <2>2. CASE wpc[w] # "settled"
    <3>1. ASSUME NEW v \in Waiters, BarrierReturns(v) PROVE v \in closer
      BY <1>0, <1>2, <2>2, <3>1 DEF BarrierReturns
    <3>2. \E v \in Waiters : BarrierReturns(v)
      <4>1. ASSUME Quiesce(active', adopted') \/ UNCHANGED wpc PROVE FALSE
        BY <1>0, <1>2, <2>2, <4>1 DEF Quiesce, Notify
      <4>2. CASE BodyStep
        BY <4>1, <4>2 DEF BodyStep, waitVars, Go, GoSubmit, GoRefused, GoCancels, StartBody, RunnerGone,
             SpawnKid, SpawnLate, BodyDone, BodyReleases, KidDone
      <4>3. CASE CallbackStep
        BY <4>1, <4>3 DEF CallbackStep, waitVars, RegisterCallback, RegisterLate, RegisterLateRefused,
             DrainNext, DrainEnds, DrainReleases, DrainRuns
      <4>4. CASE ScopeStep
        <5>1. ASSUME NEW h \in Handles, HandleQuiescent(h) PROVE FALSE
          BY <1>0, <1>2, <2>2, <5>1 DEF HandleQuiescent, Quiesce, Notify
        <5>2. ASSUME NEW t \in Tasks, AdoptedDone(t) PROVE FALSE
          BY <1>0, <1>2, <2>2, <5>2 DEF AdoptedDone, Quiesce, Notify
        <5> QED BY <4>1, <4>4, <5>1, <5>2 DEF ScopeStep, waitVars, HandleCancel, Adopt, Seal, LeavesBehind
      <4>5. CASE WaiterStep
        <5>1. ASSUME NEW v \in Waiters, NEW x \in WaiterStates \ {"settled"}, wpc' = [wpc EXCEPT ![v] = x]
              PROVE  FALSE
          BY <1>0, <1>2, <2>2, <5>1
        <5> QED BY <4>1, <4>5, <5>1 DEF WaiterStep, waitVars, ScopeCancel, ScopeCancelWaits, ScopeCancelOne,
             WaitSettled, CloseBegins, BarrierWaits, BarrierTimesOut, CloseCompletes, WaiterStates
      <4> QED BY <4>1, <4>2, <4>3, <4>4, <4>5 DEF Next, vars, waitVars
    <3> QED BY <3>1, <3>2
  <2> QED BY <2>1, <2>2
<1> QED BY <1>1, <1>2 DEF Closing

\* close() seals before it waits, and nothing unseals.
LEMMA NextCloser == WorkInv /\ CloserShape /\ [Next]_vars => CloserShape'
<1> SUFFICES ASSUME WorkInv, CloserShape, [Next]_vars, (closer # {} \/ Closing)' PROVE sealed'
  BY DEF CloserShape
<1>1. CASE Seal
  BY <1>1 DEF Seal
<1>2. ASSUME NEW w \in Waiters, CloseBegins(w) PROVE sealed' \/ UNCHANGED <<sealed, closer>>
  BY <1>2 DEF CloseBegins
<1>3. sealed' \/ (sealed' = sealed /\ closer' \subseteq closer)
  <2>1. CASE BodyStep
    BY <1>1, <1>2, <2>1 DEF BodyStep, scopeVars, waitVars, lineage,
       Go, GoSubmit, GoRefused, GoCancels, StartBody, RunnerGone, SpawnKid, SpawnLate, BodyDone, BodyReleases, KidDone
  <2>2. CASE CallbackStep
    BY <1>1, <1>2, <2>2 DEF CallbackStep, scopeVars, waitVars, lineage,
       RegisterCallback, RegisterLate, RegisterLateRefused, DrainNext, DrainEnds, DrainReleases, DrainRuns
  <2>3. CASE ScopeStep
    BY <1>1, <1>2, <2>3 DEF ScopeStep, scopeVars, waitVars, lineage,
       HandleQuiescent, HandleCancel, Adopt, AdoptedDone, LeavesBehind
  <2>4. CASE WaiterStep
    BY <1>1, <1>2, <2>4 DEF WaiterStep, scopeVars, waitVars, lineage,
       ScopeCancel, ScopeCancelWaits, ScopeCancelOne, WaitSettled, BarrierWaits, BarrierReturns, BarrierTimesOut, CloseCompletes
  <2> QED BY <1>1, <1>2, <2>1, <2>2, <2>3, <2>4 DEF Next, vars, scopeVars, waitVars, lineage
<1>4. closer = {} /\ closer' \subseteq closer => Closing
  BY NextClosing
<1> QED BY <1>3, <1>4 DEF CloserShape

\* In a quiet scope no code runs and none is admitted.
LEMMA QuietIsIdle ==
    ASSUME WorkInv, EpochShape, UnsettledShape, Quiet
    PROVE  /\ ~MayGo /\ ~OwnedWorkRuns
           /\ \A h \in Handles : /\ body[h] \notin {"admitted", "scheduled", "running", "done", "lost"}
                                 /\ kids[h] = 0 /\ current[h] = 0 /\ drain[h] = "none" /\ exiting[h] = 0
<1>1. ~OwnedWorkRuns
  BY OwnedIsActive DEF Quiet
<1>2. ASSUME NEW h \in Handles
      PROVE  /\ body[h] \notin {"admitted", "scheduled", "running", "done", "lost"}
             /\ kids[h] = 0 /\ current[h] = 0 /\ drain[h] = "none" /\ exiting[h] = 0
  <2>1. ~(pending[h] > nested[h]) /\ body[h] # "admitted"
    BY DEF Quiet, Unsettled
  <2>2. kids[h] \in Nat /\ exiting[h] \in Nat
    BY Counted
  <2> QED BY <2>1, <2>2, RunningIsCounted DEF BodyHolds
<1> QED BY <1>1, <1>2 DEF Quiet, MayGo

\* A quiet scope stays quiet.
LEMMA NextQuiet ==
    ASSUME SettlesOnce
    PROVE  WorkInv /\ EpochShape /\ UnsettledShape /\ Quiet /\ [Next]_vars => Quiet'
<1> SUFFICES ASSUME WorkInv /\ EpochShape /\ UnsettledShape /\ Quiet, [Next]_vars PROVE Quiet'
  OBVIOUS
<1>0. /\ ~MayGo /\ ~OwnedWorkRuns /\ active = {} /\ adopted = {} /\ ~stray
      /\ \A h \in Handles : /\ body[h] \notin {"admitted", "scheduled", "running", "done", "lost"}
                            /\ kids[h] = 0 /\ current[h] = 0 /\ drain[h] = "none" /\ exiting[h] = 0
  BY QuietIsIdle DEF Quiet, HasActiveWork
<1>1. CASE BodyStep
  <2>1. PICK h \in Handles : GoCancels(h) \/ RunnerGone(h)
    BY <1>0, <1>1 DEF BodyStep, Go, GoSubmit, GoRefused, StartBody, SpawnKid, SpawnLate, SettlesOnce,
         BodyDone, BodyReleases, KidDone
  <2>2. CASE GoCancels(h)
    BY <2>2 DEF GoCancels, Quiet, HasActiveWork, Unsettled, scopeVars, lineage
  <2>3. CASE RunnerGone(h)
    <3> DEFINE o == outer[h]
    <3>1. /\ o \in Handles /\ Release(o) /\ nested[o] > 0
          /\ nested' = [nested EXCEPT ![o] = @ - 1] /\ nested \in [Handles -> Nat]
          /\ UNCHANGED <<sealed, active, adopted, body, stray>>
      BY <2>3 DEF RunnerGone, Nested, WorkInv, TypeOK, scopeVars
    <3> HIDE DEF o
    <3>2. pending[o] \in Nat /\ nested[o] \in Nat /\ pending[o] > 0
      BY <3>1, Counted
    <3>3. pending'[o] = pending[o] - 1 /\ \A i \in Handles \ {o} : pending'[i] = pending[i]
      BY <3>1, <3>2, Released DEF WorkInv
    <3>4. nested'[o] = nested[o] - 1 /\ \A i \in Handles \ {o} : nested'[i] = nested[i]
      BY <3>1
    <3> QED BY <3>1, <3>2, <3>3, <3>4 DEF Quiet, HasActiveWork, Unsettled
  <2> QED BY <2>1, <2>2, <2>3
<1>2. CASE CallbackStep
  BY <1>0, <1>2 DEF CallbackStep, RegisterCallback, RegisterLate, RegisterLateRefused, MayRegisterLate,
       DrainNext, DrainEnds, DrainReleases, DrainRuns
<1>3. CASE ScopeStep
  <2>1. ASSUME NEW h \in Handles, HandleQuiescent(h) \/ HandleCancel(h) PROVE Quiet'
    <3>1. UNCHANGED <<sealed, pending, nested, body, stray>> /\ active' \subseteq active /\ adopted' = adopted
      BY <2>1 DEF HandleQuiescent, HandleCancel, scopeVars, lineage
    <3> QED BY <1>0, <3>1 DEF Quiet, HasActiveWork, Unsettled
  <2> QED BY <1>0, <1>3, <2>1 DEF ScopeStep, Adopt, AdoptedDone, Seal, LeavesBehind, Quiet
<1>4. CASE WaiterStep
  <2>1. /\ UNCHANGED <<active, adopted, stray, pending, nested, body>> /\ sealed' \in {sealed, TRUE}
    BY <1>4 DEF WaiterStep, scopeVars, bodyVars, lineage, ScopeCancel, ScopeCancelWaits, ScopeCancelOne,
         WaitSettled, CloseBegins, BarrierWaits, BarrierReturns, BarrierTimesOut, CloseCompletes
  <2> QED BY <2>1 DEF Quiet, HasActiveWork, Unsettled
<1>5. CASE UNCHANGED vars
  BY <1>5 DEF vars, scopeVars, bodyVars, lineage, Quiet, HasActiveWork, Unsettled
<1> QED BY <1>1, <1>2, <1>3, <1>4, <1>5 DEF Next

\* No step forgets that code has outlived its handle.
LEMMA StraysStay == [Next]_vars /\ ~stray' => ~stray
<1> SUFFICES ASSUME [Next]_vars, ~stray' PROVE ~stray
  OBVIOUS
<1>1. CASE BodyStep
  BY <1>1 DEF BodyStep, scopeVars, waitVars, lineage,
     Go, GoSubmit, GoRefused, GoCancels, StartBody, RunnerGone, SpawnKid, SpawnLate, BodyDone, BodyReleases, KidDone
<1>2. CASE CallbackStep
  BY <1>2 DEF CallbackStep, scopeVars, waitVars, lineage,
     RegisterCallback, RegisterLate, RegisterLateRefused, DrainNext, DrainEnds, DrainReleases, DrainRuns
<1>3. CASE ScopeStep
  BY <1>3 DEF ScopeStep, scopeVars, waitVars, lineage,
     HandleQuiescent, HandleCancel, Adopt, AdoptedDone, Seal, LeavesBehind
<1>4. CASE WaiterStep
  BY <1>4 DEF WaiterStep, scopeVars, waitVars, lineage,
     ScopeCancel, ScopeCancelWaits, ScopeCancelOne, WaitSettled, CloseBegins, BarrierWaits, BarrierReturns, BarrierTimesOut, CloseCompletes
<1> QED BY <1>1, <1>2, <1>3, <1>4 DEF Next, vars, scopeVars, waitVars, lineage

\* Nothing starts behind a completed close, and nothing between the end of its
\* wait and its completion.
LEMMA NextClosed ==
    ASSUME SettlesOnce
    PROVE  WorkInv /\ EpochShape /\ UnsettledShape /\ CloserShape /\ ClosedIsFinal /\ [Next]_vars => ClosedIsFinal'
<1> SUFFICES ASSUME WorkInv /\ EpochShape /\ UnsettledShape /\ CloserShape /\ ClosedIsFinal, [Next]_vars,
                    Closing', ~stray'
             PROVE  Quiet'
  BY DEF ClosedIsFinal, Quiet
<1>1. ~stray
  BY StraysStay
<1>2. CASE Closing
  <2>1. Quiet
    BY <1>1, <1>2 DEF ClosedIsFinal, Quiet
  <2> QED BY <2>1, NextQuiet
<1>3. ASSUME NEW w \in closer, BarrierReturns(w) PROVE Quiet'
  <2>1. sealed /\ active = {} /\ adopted = {}
    BY <1>3 DEF BarrierReturns, MustWait, HasActiveWork, CloserShape
  <2>2. \A h \in Handles : ~Unsettled(h) /\ body[h] # "admitted"
    BY <2>1 DEF UnsettledShape, EpochShape
  <2> QED BY <1>1, <1>3, <2>1, <2>2 DEF BarrierReturns, Quiet, HasActiveWork, Unsettled, scopeVars, bodyVars, lineage
<1> QED BY <1>2, <1>3, NextClosing

SettledInv == IInv /\ UnsettledShape /\ ErrorShape /\ CloserShape /\ ClosedIsFinal

LEMMA SettledInvariance ==
    ASSUME SettlesOnce
    PROVE  Spec => []SettledInv
<1>1. Init => SettledInv
  <2> SUFFICES ASSUME Init PROVE SettledInv
    OBVIOUS
  <2>1. IInv
    BY InitScope
  <2> QED BY <2>1 DEF Init, SettledInv, UnsettledShape, Unsettled, ErrorShape, CloserShape, ClosedIsFinal, Closing
<1>2. SettledInv /\ [Next]_vars => SettledInv'
  <2> SUFFICES ASSUME SettledInv, [Next]_vars PROVE SettledInv'
    OBVIOUS
  <2>1. IInv'
    BY NextScope DEF SettledInv
  <2>2. UnsettledShape'
    BY NextUnsettled DEF SettledInv, IInv
  <2>3. ErrorShape'
    BY NextErrors DEF SettledInv, IInv
  <2>4. CloserShape'
    BY NextCloser DEF SettledInv, IInv
  <2>5. ClosedIsFinal'
    BY NextClosed DEF SettledInv, IInv
  <2> QED BY <2>1, <2>2, <2>3, <2>4, <2>5 DEF SettledInv
<1> QED BY <1>1, <1>2, PTL DEF Spec

\* Whatever a handle retains for itself, _active_handles knows the handle.
THEOREM InventoryIsComplete ==
    ASSUME SettlesOnce
    PROVE  Spec => []UnsettledIsActive
<1>1. SettledInv => UnsettledIsActive
  BY DEF SettledInv, UnsettledShape, UnsettledIsActive
<1> QED BY SettledInvariance, <1>1, PTL

\* From the end of its wait on, close() leaves a sealed scope that has no work
\* and gets none, provided no code of the scope outlived its retained work.
THEOREM CloseIsFinal ==
    ASSUME SettlesOnce
    PROVE  Spec => []ClosedIsFinal
<1>1. SettledInv => ClosedIsFinal
  BY DEF SettledInv
<1> QED BY SettledInvariance, <1>1, PTL

\* A barrier that returns has waited for all retained work and has every
\* settlement error at hand (wait_settled, cancel_and_wait_settled, close).
THEOREM BarrierCompleteness ==
    ASSUME SettlesOnce
    PROVE  Spec => BarrierIsComplete
<1> DEFINE Done == /\ \A h \in Handles : ~Unsettled(h)
                   /\ adopted = {}
                   /\ failed # {} => scopeErrors
           Complete == \A w \in Waiters : wpc[w] = "checking" /\ wpc'[w] \in {"settled", "returned"} => Done
<1>1. ASSUME SettledInv, [Next]_vars PROVE [Complete]_vars
  <2> SUFFICES ASSUME NEW w \in Waiters, wpc[w] = "checking", wpc'[w] \in {"settled", "returned"} PROVE Done
    OBVIOUS
  <2>1. ASSUME NEW v \in Waiters, BarrierReturns(v) PROVE Done
    <3>1. active = {} /\ adopted = {}
      BY <2>1 DEF BarrierReturns, MustWait, HasActiveWork
    <3>2. \A h \in Handles : ~Unsettled(h)
      BY <1>1, <3>1 DEF SettledInv, UnsettledShape
    <3>3. failed # {} => scopeErrors
      BY <1>1, <3>1 DEF SettledInv, ErrorShape
    <3> QED BY <3>1, <3>2, <3>3
  <2>2. wpc \in [Waiters -> WaiterStates] /\ wpc' # wpc
    BY <1>1 DEF SettledInv, IInv, WorkInv, TypeOK
  <2>3. \E v \in Waiters : BarrierReturns(v)
    <3>1. CASE BodyStep
      BY <2>2, <3>1 DEF BodyStep, waitVars, Go, GoSubmit, GoRefused, GoCancels, StartBody, RunnerGone,
           SpawnKid, SpawnLate, BodyDone, BodyReleases, KidDone
    <3>2. CASE CallbackStep
      BY <2>2, <3>2 DEF CallbackStep, waitVars, RegisterCallback, RegisterLate, RegisterLateRefused,
           DrainNext, DrainEnds, DrainReleases, DrainRuns
    <3>3. CASE ScopeStep
      <4>1. ASSUME NEW h \in Handles, HandleQuiescent(h) PROVE FALSE
        BY <2>2, <4>1 DEF HandleQuiescent, Quiesce, Notify
      <4>2. ASSUME NEW t \in Tasks, AdoptedDone(t) PROVE FALSE
        BY <2>2, <4>2 DEF AdoptedDone, Quiesce, Notify
      <4> QED BY <2>2, <3>3, <4>1, <4>2 DEF ScopeStep, waitVars, HandleCancel, Adopt, Seal, LeavesBehind
    <3>4. CASE WaiterStep
      <4>1. ASSUME NEW v \in Waiters, NEW x \in WaiterStates, wpc' = [wpc EXCEPT ![v] = x],
                   wpc[v] # "checking" \/ x \notin {"settled", "returned"}
            PROVE  FALSE
        BY <2>2, <4>1
      <4> QED BY <2>2, <3>4, <4>1 DEF WaiterStep, waitVars, ScopeCancel, ScopeCancelWaits, ScopeCancelOne,
           WaitSettled, CloseBegins, BarrierWaits, BarrierTimesOut, CloseCompletes, WaiterStates
    <3> QED BY <1>1, <2>2, <3>1, <3>2, <3>3, <3>4 DEF Next, vars, waitVars
  <2> QED BY <2>1, <2>3
<1> QED BY SettledInvariance, <1>1, PTL DEF Spec, BarrierIsComplete

-----------------------------------------------------------------------------
(* The scope implements its contract                                       *)

\* What a client sees of a step.
Seen == <<sealed, closeCompleted, scopeErrors, active \cup adopted, Unfinished, stray>>

LEMMA MapsToAdmit ==
    ASSUME NEW x \in Handles \cup Tasks, NEW runs \in BOOLEAN,
           ~sealed \/ active \cup adopted # {} \/ stray, x \notin active \cup adopted,
           UNCHANGED <<sealed, closeCompleted, scopeErrors, stray>>,
           (active \cup adopted)' = (active \cup adopted) \cup {x},
           Unfinished' = IF runs THEN Unfinished \cup {x} ELSE Unfinished
    PROVE  Contract!ContractNext
<1>1. Contract!Admit("scope", x, runs)
  BY DEF Contract!Admit, Contract!Open
<1> QED BY <1>1 DEF Contract!ContractNext

LEMMA MapsToOutcome ==
    ASSUME NEW x \in Handles \cup Tasks, x \in Unfinished,
           UNCHANGED <<sealed, closeCompleted, scopeErrors, stray>>,
           (active \cup adopted)' = active \cup adopted,
           Unfinished' = Unfinished \ {x}
    PROVE  Contract!ContractNext
<1>1. Contract!Outcome("scope", x)
  BY DEF Contract!Outcome
<1> QED BY <1>1 DEF Contract!ContractNext

LEMMA MapsToSettle ==
    ASSUME NEW x \in Handles \cup Tasks, NEW bad \in BOOLEAN,
           x \in (active \cup adopted) \ Unfinished,
           UNCHANGED <<sealed, closeCompleted, stray>>, scopeErrors' = (scopeErrors \/ bad),
           (active \cup adopted)' = (active \cup adopted) \ {x},
           Unfinished' = Unfinished
    PROVE  Contract!ContractNext
<1>1. Contract!Settle("scope", x, bad)
  BY DEF Contract!Settle
<1> QED BY <1>1 DEF Contract!ContractNext

LEMMA MapsToSeal ==
    ASSUME UNCHANGED <<closeCompleted, scopeErrors, active, adopted, body, stray>>, sealed' = TRUE
    PROVE  Contract!ContractNext
<1>1. Unfinished' = Unfinished /\ (active \cup adopted)' = active \cup adopted
  BY DEF Unfinished
<1>2. Contract!SealScope("scope")
  BY <1>1 DEF Contract!SealScope
<1> QED BY <1>2 DEF Contract!ContractNext

LEMMA MapsToComplete ==
    ASSUME UNCHANGED <<sealed, scopeErrors, active, adopted, body, stray>>, closeCompleted' = TRUE,
           sealed, active \cup adopted = {} \/ stray
    PROVE  Contract!ContractNext
<1>1. Unfinished' = Unfinished /\ (active \cup adopted)' = active \cup adopted
  BY DEF Unfinished
<1>2. Contract!Complete("scope")
  BY <1>1 DEF Contract!Complete, Contract!MayComplete
<1> QED BY <1>2 DEF Contract!ContractNext

LEMMA MapsToStray ==
    ASSUME UNCHANGED <<sealed, closeCompleted, scopeErrors, active, adopted, body>>, stray' = TRUE,
           active \cup adopted # {}
    PROVE  Contract!ContractNext
<1>1. Unfinished' = Unfinished /\ (active \cup adopted)' = active \cup adopted
  BY DEF Unfinished
<1>2. Contract!LeaveStray("scope")
  BY <1>1 DEF Contract!LeaveStray
<1> QED BY <1>2 DEF Contract!ContractNext

\* Every step is a step of the contract, or the client sees nothing of it.
LEMMA StepKeepsContract == SettledInv /\ [Next]_vars => (Contract!ContractNext \/ UNCHANGED Seen)
<1> SUFFICES ASSUME SettledInv, [Next]_vars PROVE Contract!ContractNext \/ UNCHANGED Seen
  OBVIOUS
<1>1. ASSUME NEW h \in Handles, NEW n \in 0..MaxCallbacks[h], Go(h, n) PROVE Contract!ContractNext \/ UNCHANGED Seen
  <2>1. ~sealed \/ active \cup adopted # {} \/ stray
    BY <1>1, OwnedIsActive DEF Go, MayGo, HasActiveWork, SettledInv, IInv
  <2>2. body[h] = "none" /\ h \notin active /\ h \notin adopted
    BY <1>1, ScopeAssumption DEF Go, SettledInv, IInv, WorkInv, WorkShape, TypeOK
  <2>3. Unfinished' = Unfinished \cup {h} /\ (active \cup adopted)' = (active \cup adopted) \cup {h}
    BY <1>1, <2>2 DEF Go, Unfinished, SettledInv, IInv, WorkInv, TypeOK
  <2> QED BY <1>1, <2>1, <2>2, <2>3, MapsToAdmit DEF Go
<1>2. ASSUME NEW h \in Handles, GoSubmit(h) PROVE Contract!ContractNext \/ UNCHANGED Seen
  <2>1. Unfinished' = Unfinished
    BY <1>2 DEF GoSubmit, Unfinished, SettledInv, IInv, WorkInv, TypeOK, scopeVars, lineage
  <2> QED BY <1>2, <2>1 DEF GoSubmit, Seen, scopeVars, lineage
<1>3. ASSUME NEW h \in Handles, StartBody(h) PROVE Contract!ContractNext \/ UNCHANGED Seen
  <2>1. Unfinished' = Unfinished
    <3>1. body' = [body EXCEPT ![h] = "running"] \/ body' = [body EXCEPT ![h] = "lost"]
      BY <1>3 DEF StartBody, Starts
    <3> QED BY <1>3, <3>1, Typed DEF StartBody, Unfinished, SettledInv, IInv, scopeVars
  <2> QED BY <1>3, <2>1 DEF StartBody, Seen, scopeVars, lineage
<1>4. ASSUME NEW h \in Handles, BodyReleases(h) PROVE Contract!ContractNext \/ UNCHANGED Seen
  <2>1. Unfinished' = Unfinished
    BY <1>4 DEF BodyReleases, Unfinished, SettledInv, IInv, WorkInv, TypeOK, scopeVars, lineage
  <2> QED BY <1>4, <2>1 DEF BodyReleases, Seen, scopeVars, lineage
<1>5. ASSUME NEW h \in Handles, GoRefused(h) PROVE Contract!ContractNext \/ UNCHANGED Seen
  <2>1. h \in Unfinished /\ Unfinished' = Unfinished \ {h}
    BY <1>5 DEF GoRefused, Unfinished, SettledInv, IInv, EpochShape, WorkInv, TypeOK, scopeVars, lineage
  <2> QED BY <1>5, <2>1, MapsToOutcome DEF GoRefused, scopeVars, lineage
<1>6. ASSUME NEW h \in Handles, BodyDone(h) PROVE Contract!ContractNext \/ UNCHANGED Seen
  <2>1. h \in Unfinished /\ Unfinished' = Unfinished \ {h}
    BY <1>6 DEF BodyDone, Unfinished, SettledInv, IInv, EpochShape, WorkInv, TypeOK, scopeVars, lineage
  <2> QED BY <1>6, <2>1, MapsToOutcome DEF BodyDone, scopeVars, lineage
<1>7. ASSUME NEW h \in Handles, RegisterLate(h) PROVE Contract!ContractNext \/ UNCHANGED Seen
  <2>1. body[h] \in BodyOver /\ MayGo
    BY <1>7 DEF RegisterLate, MayRegisterLate
  <2>2. ~sealed \/ active \cup adopted # {} \/ stray
    BY <2>1, OwnedIsActive DEF MayGo, HasActiveWork, SettledInv, IInv
  <2>3. /\ active' \in {active, active \cup {h}}
        /\ UNCHANGED <<adopted, body, sealed, closeCompleted, scopeErrors, stray>>
    BY <1>7 DEF RegisterLate, Reactivated, bodyVars, lineage
  <2>4. Unfinished' = Unfinished
    BY <2>1, <2>3 DEF Unfinished, BodyOver
  <2>5. h \notin adopted
    BY ScopeAssumption DEF SettledInv, IInv, WorkInv, TypeOK
  <2>6. CASE active' = active
    BY <2>3, <2>4, <2>6 DEF Seen
  <2>7. CASE h \notin active /\ active' = active \cup {h}
    <3>1. (active \cup adopted)' = (active \cup adopted) \cup {h}
      BY <2>3, <2>7
    <3> QED BY <2>2, <2>3, <2>4, <2>5, <2>7, <3>1, MapsToAdmit
  <2> QED BY <2>3, <2>6, <2>7
<1>8. ASSUME NEW h \in Handles, RegisterLateRefused(h) PROVE Contract!ContractNext \/ UNCHANGED Seen
  <2>1. body[h] \in BodyOver /\ MayGo
    BY <1>8 DEF RegisterLateRefused, MayRegisterLate
  <2>2. ~sealed \/ active \cup adopted # {} \/ stray
    BY <2>1, OwnedIsActive DEF MayGo, HasActiveWork, SettledInv, IInv
  <2>3. /\ active' \in {active, active \cup {h}}
        /\ UNCHANGED <<adopted, body, sealed, closeCompleted, scopeErrors, stray>>
    BY <1>8 DEF RegisterLateRefused, Reactivated, bodyVars, lineage
  <2>4. Unfinished' = Unfinished
    BY <2>1, <2>3 DEF Unfinished, BodyOver
  <2>5. h \notin adopted
    BY ScopeAssumption DEF SettledInv, IInv, WorkInv, TypeOK
  <2>6. CASE active' = active
    BY <2>3, <2>4, <2>6 DEF Seen
  <2>7. CASE h \notin active /\ active' = active \cup {h}
    <3>1. (active \cup adopted)' = (active \cup adopted) \cup {h}
      BY <2>3, <2>7
    <3> QED BY <2>2, <2>3, <2>4, <2>5, <2>7, <3>1, MapsToAdmit
  <2> QED BY <2>3, <2>6, <2>7
<1>9. ASSUME NEW h \in Handles, HandleQuiescent(h) PROVE Contract!ContractNext \/ UNCHANGED Seen
  <2>0. /\ active' = active \ {h} /\ scopeErrors' = (scopeErrors \/ Reported(h))
        /\ UNCHANGED <<sealed, closeCompleted, adopted, body, stray>>
    BY <1>9 DEF HandleQuiescent, lineage
  <2>1. h \notin adopted /\ h \notin Unfinished
    BY <1>9, ScopeAssumption DEF HandleQuiescent, SettledInv, IInv, WorkInv, WorkShape, TypeOK, Unfinished
  <2>2. Unfinished' = Unfinished /\ (active \cup adopted)' = (active \cup adopted) \ {h}
    BY <2>0, <2>1 DEF Unfinished
  <2>3. Reported(h) \in BOOLEAN
    BY DEF Reported
  <2>4. CASE h \in active
    BY <2>0, <2>1, <2>2, <2>3, <2>4, MapsToSettle
  <2>5. CASE h \notin active
    <3>1. ~Reported(h) /\ scopeErrors \in BOOLEAN
      BY <2>5 DEF Reported, SettledInv, ErrorShape, IInv, WorkInv, TypeOK
    <3>2. (active \cup adopted)' = active \cup adopted
      BY <2>1, <2>2, <2>5
    <3> QED BY <2>0, <2>2, <3>1, <3>2 DEF Seen
  <2> QED BY <2>4, <2>5
<1>10. ASSUME NEW t \in Tasks, Adopt(t) PROVE Contract!ContractNext \/ UNCHANGED Seen
  <2>1. ~sealed \/ active \cup adopted # {} \/ stray
    BY <1>10, OwnedIsActive DEF Adopt, MayGo, HasActiveWork, SettledInv, IInv
  <2>2. t \notin active \cup adopted
    BY <1>10, ScopeAssumption DEF Adopt, SettledInv, IInv, WorkInv, TypeOK
  <2>3. Unfinished' = Unfinished /\ (active \cup adopted)' = (active \cup adopted) \cup {t}
    BY <1>10 DEF Adopt, Unfinished, bodyVars, lineage
  <2>4. UNCHANGED <<sealed, closeCompleted, scopeErrors, stray>>
    BY <1>10 DEF Adopt, lineage
  <2> QED BY <2>1, <2>2, <2>3, <2>4, MapsToAdmit
<1>11. ASSUME NEW t \in Tasks, AdoptedDone(t) PROVE Contract!ContractNext \/ UNCHANGED Seen
  <2>1. t \in adopted /\ t \notin active /\ t \notin Unfinished
    BY <1>11, ScopeAssumption DEF AdoptedDone, SettledInv, IInv, WorkInv, TypeOK, Unfinished
  <2>2. Unfinished' = Unfinished /\ (active \cup adopted)' = (active \cup adopted) \ {t}
    BY <1>11, <2>1 DEF AdoptedDone, Unfinished, bodyVars, lineage
  <2>3. UNCHANGED <<sealed, closeCompleted, stray>> /\ scopeErrors' = (scopeErrors \/ FALSE)
    BY <1>11 DEF AdoptedDone, SettledInv, IInv, WorkInv, TypeOK, lineage
  <2> QED BY <2>1, <2>2, <2>3, MapsToSettle
<1>12. CASE Seal
  BY <1>12, MapsToSeal DEF Seal, bodyVars, lineage
<1>13. ASSUME NEW w \in Waiters, CloseBegins(w) PROVE Contract!ContractNext \/ UNCHANGED Seen
  <2>1. CASE closeCompleted
    BY <1>13, <2>1 DEF CloseBegins, Seen, Unfinished, bodyVars, lineage
  <2>2. CASE ~closeCompleted
    BY <1>13, <2>2, MapsToSeal DEF CloseBegins, bodyVars, lineage
  <2> QED BY <2>1, <2>2
<1>14. ASSUME NEW w \in Waiters, CloseCompletes(w) PROVE Contract!ContractNext \/ UNCHANGED Seen
  <2>1. sealed /\ (active \cup adopted = {} \/ stray)
    BY <1>14 DEF CloseCompletes, SettledInv, CloserShape, ClosedIsFinal, Closing, HasActiveWork
  <2> QED BY <1>14, <2>1, MapsToComplete DEF CloseCompletes, bodyVars, lineage
<1>16. CASE LeavesBehind
  <2>1. active \cup adopted # {}
    BY <1>16, OwnedIsActive DEF LeavesBehind, HasActiveWork, SettledInv, IInv
  <2> QED BY <1>16, <2>1, MapsToStray DEF LeavesBehind, scopeVars, bodyVars
<1>15. CASE UNCHANGED <<sealed, closeCompleted, scopeErrors, active, adopted, body, stray>>
  BY <1>15 DEF Seen, Unfinished
<1> QED BY <1>1, <1>2, <1>3, <1>4, <1>5, <1>6, <1>7, <1>8, <1>9, <1>10, <1>11, <1>12, <1>13, <1>14, <1>15, <1>16
     DEF Next, BodyStep, CallbackStep, ScopeStep, WaiterStep, vars, scopeVars, bodyVars, cbVars, waitVars, lineage,
         GoCancels, RunnerGone, SpawnKid, SpawnLate, KidDone, RegisterCallback, DrainNext,
         DrainEnds, DrainReleases, DrainRuns, HandleCancel, ScopeCancel,
         ScopeCancelWaits, ScopeCancelOne, WaitSettled, BarrierWaits,
         BarrierReturns, BarrierTimesOut

\* Stage implements ScopeContract: what EventEmitter and StageCallBridge rely
\* on is what go(), the settlement of handles, seal() and close() do.
THEOREM ImplementsContract ==
    ASSUME SettlesOnce
    PROVE  Spec => ContractSpec
<1> DEFINE image == [s \in {"scope"} |->
                        [sealed |-> sealed, closed |-> closeCompleted, failed |-> scopeErrors,
                         work |-> active \cup adopted, running |-> Unfinished, stray |-> stray]]
<1>1. Init => Contract!ContractInit
  BY DEF Init, Unfinished, Contract!ContractInit, Contract!Fresh
<1>2. UNCHANGED Seen => image' = image
  BY DEF Seen
<1>3. SettledInv /\ [Next]_vars => [image' # image => Contract!ContractNext]_image
  BY <1>2, StepKeepsContract
<1> QED BY <1>1, <1>3, SettledInvariance, PTL DEF Spec, ContractSpec, Contract!ContractSpec
=============================================================================
