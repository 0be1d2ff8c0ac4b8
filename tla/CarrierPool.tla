----------------------------- MODULE CarrierPool -----------------------------
(***************************************************************************)
(* The process-wide pool of carrier slots (src/agently_stage/_runtime.py,  *)
(* class _RuntimeCarrier): which carrier loop a Stage scope is placed on.  *)
(* A scope may be opened by code that itself runs on a carrier, and may    *)
(* block that carrier's loop until it is over; it must then not be placed  *)
(* on a loop that waits for it.  The pool keeps such scopes apart with the *)
(* blocked generation ids they inherit and with temporary escape slots.    *)
(*                                                                         *)
(* A scope here stands for one backend epoch with at most one body.  The   *)
(* life of a generation is that of CarrierSlot, reduced to what placement  *)
(* depends on.                                                             *)
(***************************************************************************)
EXTENDS Integers, Sequences, SequencesExt, FiniteSets, FiniteSetsExt

CONSTANTS
    Scopes,     \* backend epochs (and calls on the bridge's shared Stage)
    NoScope,    \* "opened by code outside every Stage"
    MaxLanes,   \* bound on runtime.carrier_loop_count
    MaxSlots,   \* bound on slot ids
    Openers,    \* the client program: whose body may open which scope, and
    Ways        \* how: "with" or "stage" (see Kinds), or as a call through a
                \* StageCallBridge ("bridge")

ASSUME PoolAssumption ==
    /\ IsFiniteSet(Scopes)
    /\ NoScope \notin Scopes
    /\ Openers \in [Scopes -> SUBSET (Scopes \cup {NoScope})]
    /\ Ways \in [Scopes -> SUBSET {"with", "stage", "bridge"}]
    /\ MaxLanes \in Nat \ {0}
    /\ MaxSlots \in Nat \ {0}

Gens  == 1..Cardinality(Scopes)
NoGen == 0
Slots == 1..MaxSlots
NoSlot == 0

VARIABLES
    lanes,        \* _slots, as slot ids
    escapes,      \* _escape_slots
    slotCounter,  \* _slot_counter
    frozen,       \* _settings_frozen
    cursor,       \* _selection_cursor
    genCounter,   \* _generation_counter
    gslot, gstate,   \* per generation
    current, next,   \* per slot
    pc,           \* progress of each scope
    opener,       \* the scope whose body opened it
    where,        \* "loop": on the opener's loop, "worker": in its worker thread
    kind,         \* see Kinds
    target,       \* the slot that was selected
    lease,        \* _generation_lease
    blocked,      \* _blocked_generation_ids
    upstream,     \* history: generations whose loop waits for this scope
    viaShared     \* history: a call on the shared Stage is in its lineage

laneVars == <<lanes, slotCounter, frozen, cursor>>
genVars  == <<genCounter, gslot, gstate, current, next>>
bornVars == <<opener, where, kind, upstream, viaShared>>
vars == <<laneVars, escapes, genVars, bornVars, pc, target, lease, blocked>>

\* new -> choosing -> selected -> leased -> submitted -> running -> done
\* (an inherited lease skips "selected"); go() submits the body to the
\* generation it has leased
Stages == {"new", "choosing", "selected", "leased", "submitted", "running", "done"}
Accepted == {"submitted", "running"}       \* those whose body was accepted
Holding == Accepted \cup {"leased"}        \* those that hold a lease

\* RETURNED: SEALING, but the control thread has not come to run it yet.
GenStates == {"none", "QUEUED", "RETURNED", "OPEN", "SEALING", "CLOSED"}

\* with:   `with Stage()`: a synchronous scope, its opener waits for it
\* stage:  Stage(loop="stage"), nobody waits
\* shared: a call on the bridge's one carrier Stage, its caller waits
Kinds == {"with", "stage", "shared"}

Init ==
    /\ lanes = <<1>> /\ slotCounter = 1
    /\ escapes = {}
    /\ frozen = FALSE /\ cursor = 0
    /\ genCounter = 0
    /\ gslot = [g \in Gens |-> NoSlot]
    /\ gstate = [g \in Gens |-> "none"]
    /\ current = [sl \in Slots |-> NoGen]
    /\ next = [sl \in Slots |-> NoGen]
    /\ pc = [s \in Scopes |-> "new"]
    /\ opener = [s \in Scopes |-> NoScope]
    /\ where = [s \in Scopes |-> "thread"]
    /\ kind = [s \in Scopes |-> "stage"]
    /\ target = [s \in Scopes |-> NoSlot]
    /\ lease = [s \in Scopes |-> NoGen]
    /\ blocked = [s \in Scopes |-> {}]
    /\ upstream = [s \in Scopes |-> {}]
    /\ viaShared = [s \in Scopes |-> FALSE]

-----------------------------------------------------------------------------
(* Lineage: what the opener's execution context says                       *)

HasContext(s) == opener[s] # NoScope

\* _ExecutionContext.generation and .blocked_generation_ids
ContextGen(s) == IF HasContext(s) THEN lease[opener[s]] ELSE NoGen
ContextBlocked(s) == IF HasContext(s) THEN blocked[opener[s]] ELSE {}

\* asyncio.get_running_loop(): a worker thread has none
RunningLoop(s) == IF where[s] = "loop" THEN ContextGen(s) ELSE NoGen

Waited(s) == kind[s] \in {"with", "shared"}

\* The opener's loop is inside a call of s: all of it for a waited scope,
\* else only until the body is submitted.
Blocks(s) ==
    /\ where[s] = "loop"
    /\ \/ pc[s] \in {"choosing", "selected", "leased"}
       \/ Waited(s) /\ pc[s] \in Holding
Busy(g) == \E s \in Scopes : Blocks(s) /\ lease[opener[s]] = g

\* A generation's loop takes a step for scope s.
HasTurn(s) == gstate[lease[s]] = "OPEN" /\ ~Busy(lease[s])

-----------------------------------------------------------------------------
(* Settings                                                                *)

MaySet == ~frozen

(***************************************************************************)
(* set_settings("runtime.carrier_loop_count", n): slots are appended or    *)
(* popped.  After the first lease it raises.                               *)
(***************************************************************************)
SetCarrierLoopCount(n) ==
    /\ MaySet
    /\ n # Len(lanes)
    /\ slotCounter + n - Len(lanes) <= MaxSlots
    /\ LET extra == n - Len(lanes) IN
       IF extra > 0
         THEN /\ lanes' = lanes \o [i \in 1..extra |-> slotCounter + i]
              /\ slotCounter' = slotCounter + extra
         ELSE /\ lanes' = SubSeq(lanes, 1, n)
              /\ UNCHANGED slotCounter
    /\ cursor' = cursor % n
    /\ UNCHANGED <<frozen, escapes, genVars, bornVars, pc, target, lease, blocked>>

-----------------------------------------------------------------------------
(* Placement                                                               *)

\* Reservations on the slot: lease, submission, and for a body submitted from
\* its own generation the task the factory retained.
Pressure(sl) ==
    LET load(s) == CASE pc[s] = "leased" -> 1
                     [] pc[s] = "running" /\ lease[s] = ContextGen(s) -> 3
                     [] OTHER -> 2
    IN  MapThenSumSet(load, {s \in Scopes : /\ pc[s] \in Holding
                                            /\ lease[s] \in {current[sl], next[sl]}})

OwnsAny(sl, gens) ==
    \E g \in {current[sl], next[sl]} \cap gens : gstate[g] # "CLOSED"
OwnsLoop(sl, g) == g # NoGen /\ g \in {current[sl], next[sl]}

Accepts(g) == gstate[g] \in {"QUEUED", "OPEN"}

\* acquire_lease takes the opener's own generation.
Inherits_OwnLoop(s) ==
    /\ HasContext(s)
    /\ ContextGen(s) \notin ContextBlocked(s)
    /\ ContextGen(s) \in {current[gslot[ContextGen(s)]], next[gslot[ContextGen(s)]]}
    /\ Accepts(ContextGen(s))
Inherits(s) ==
    /\ HasContext(s)
    /\ ContextGen(s) \notin ContextBlocked(s)
    /\ ~(kind[s] = "with" /\ RunningLoop(s) = ContextGen(s))
    /\ ContextGen(s) \in {current[gslot[ContextGen(s)]], next[gslot[ContextGen(s)]]}
    /\ Accepts(ContextGen(s))

Candidate(s, i) ==
    /\ ~OwnsAny(lanes[i], ContextBlocked(s))
    /\ ~(kind[s] = "with" /\ OwnsLoop(lanes[i], RunningLoop(s)))

Distance(i) == (i - 1 - cursor) % Len(lanes)

\* min over (pressure, distance from the cursor)
Best(i, cands) ==
    \A j \in cands :
        \/ Pressure(lanes[i]) < Pressure(lanes[j])
        \/ /\ Pressure(lanes[i]) = Pressure(lanes[j])
           /\ Distance(i) <= Distance(j)

(***************************************************************************)
(* blocked_generation_ids_for_submission: a synchronous scope on another   *)
(* generation adds its opener's generation to what its own descendants     *)
(* must avoid.                                                             *)
(***************************************************************************)
BlockedFor_ParentOnly(s, g) ==
    IF kind[s] = "with" /\ HasContext(s) /\ g # ContextGen(s)
      THEN {ContextGen(s)} ELSE {}
BlockedFor(s, g) ==
    ContextBlocked(s) \cup
    (IF kind[s] = "with" /\ HasContext(s) /\ g # ContextGen(s)
       THEN {ContextGen(s)} ELSE {})

-----------------------------------------------------------------------------
(* Opening a scope                                                         *)

\* The code that opens a scope: a thread outside every Stage, or the body of
\* p, on its loop or in its blocking worker.
OpenedBy(p, w) ==
    \/ p = NoScope /\ w = "thread"
    \/ /\ p \in Scopes
       /\ pc[p] = "running"
       /\ \/ w = "loop" /\ HasTurn(p)
          \/ w = "worker"

WaitsUpstream(p, w, k) ==
    IF p = NoScope \/ k = "stage" THEN {}
    ELSE upstream[p] \cup (IF w = "loop" THEN {lease[p]} ELSE {})

Born(s, p, w, k) ==
    /\ pc[s] = "new"
    /\ OpenedBy(p, w)
    /\ pc' = [pc EXCEPT ![s] = "choosing"]
    /\ opener' = [opener EXCEPT ![s] = p]
    /\ where' = [where EXCEPT ![s] = w]
    /\ kind' = [kind EXCEPT ![s] = k]
    /\ upstream' = [upstream EXCEPT ![s] = WaitsUpstream(p, w, k)]
    /\ viaShared' = [viaShared EXCEPT
         ![s] = k = "shared" \/ (p # NoScope /\ viaShared[p])]

\* Stage.go of a scope without a backend: acquire_lease freezes the settings.
Freeze_Later == UNCHANGED frozen
Freeze == frozen' = TRUE

Open(s, p, w, k) ==
    /\ k \in Ways[s] \cap {"with", "stage"}
    /\ Born(s, p, w, k)
    /\ Freeze
    /\ UNCHANGED <<lanes, slotCounter, cursor, escapes, genVars, target, lease, blocked>>

SharedCalls == {q \in Scopes : kind[q] = "shared" /\ pc[q] \in Holding}
SharedLease == {lease[q] : q \in SharedCalls}

(***************************************************************************)
(* would_sync_wait_block_current_carrier: the shared Stage sits on a       *)
(* blocked generation or on the running loop, or has no backend yet and    *)
(* would inherit the running loop.                                         *)
(***************************************************************************)
WouldBlock(p, w) ==
    /\ p # NoScope
    /\ \/ \E g \in SharedLease :
            \/ g \in blocked[p]
            \/ w = "loop" /\ g = lease[p]
       \/ SharedLease = {} /\ w = "loop"

\* StageCallBridge.as_sync: the check, then a call on the shared Stage or a
\* synchronous scope of its own.
BridgeCall(s, p, w) ==
    /\ "bridge" \in Ways[s]
    /\ Born(s, p, w, IF WouldBlock(p, w) THEN "with" ELSE "shared")
    /\ Freeze
    /\ UNCHANGED <<lanes, slotCounter, cursor, escapes, genVars, target, lease, blocked>>

\* The shared Stage is resolved under its scope lock, by one caller.
ScopeLockFree(s) ==
    kind[s] = "shared" =>
        \A q \in Scopes : ~(kind[q] = "shared" /\ pc[q] = "selected")

\* A call that finds the shared Stage with a backend uses its lease, and the
\* blocked ids of whoever opened that epoch.
JoinShared(s) ==
    /\ pc[s] = "choosing" /\ kind[s] = "shared"
    /\ \E q \in SharedCalls :
         /\ lease' = [lease EXCEPT ![s] = lease[q]]
         /\ blocked' = [blocked EXCEPT ![s] = blocked[q]]
    /\ pc' = [pc EXCEPT ![s] = "leased"]
    /\ UNCHANGED <<laneVars, escapes, genVars, bornVars, target>>

Unbound(s) ==
    /\ pc[s] = "choosing"
    /\ ScopeLockFree(s)
    /\ kind[s] = "shared" => SharedCalls = {}

AcquireInherited(s) ==
    /\ Unbound(s) /\ Inherits(s)
    /\ lease' = [lease EXCEPT ![s] = ContextGen(s)]
    /\ blocked' = [blocked EXCEPT ![s] = BlockedFor(s, ContextGen(s))]
    /\ pc' = [pc EXCEPT ![s] = "leased"]
    /\ UNCHANGED <<laneVars, escapes, genVars, bornVars, target>>

\* _select_slot
SelectSlot(s) ==
    /\ Unbound(s) /\ ~Inherits(s)
    /\ LET cands == {i \in DOMAIN lanes : Candidate(s, i)} IN
       IF cands # {}
         THEN /\ \E i \in cands : /\ Best(i, cands)
                                  /\ target' = [target EXCEPT ![s] = lanes[i]]
                                  /\ cursor' = i % Len(lanes)
              /\ UNCHANGED <<slotCounter, escapes>>
         ELSE /\ slotCounter < MaxSlots
              /\ slotCounter' = slotCounter + 1
              /\ escapes' = escapes \cup {slotCounter + 1}
              /\ target' = [target EXCEPT ![s] = slotCounter + 1]
              /\ UNCHANGED cursor
    /\ pc' = [pc EXCEPT ![s] = "selected"]
    /\ UNCHANGED <<lanes, frozen, genVars, bornVars, lease, blocked>>

Leased(s, g) ==
    /\ lease' = [lease EXCEPT ![s] = g]
    /\ blocked' = [blocked EXCEPT ![s] = BlockedFor(s, g)]
    /\ pc' = [pc EXCEPT ![s] = "leased"]
    /\ UNCHANGED <<laneVars, escapes, bornVars, target>>

\* _CarrierSlot.acquire_lease(None) on the selected slot
AcquireOpen(s) ==
    /\ pc[s] = "selected"
    /\ LET cur == current[target[s]]
           succ == next[target[s]]
       IN  /\ cur # NoGen
           /\ \/ Accepts(cur) /\ Leased(s, cur)
              \/ ~Accepts(cur) /\ succ # NoGen /\ Leased(s, succ)
    /\ UNCHANGED genVars

AcquireNew(s) ==
    /\ pc[s] = "selected"
    /\ LET sl == target[s]
           g == genCounter + 1
           asNext == current[sl] # NoGen
       IN  /\ asNext => ~Accepts(current[sl]) /\ next[sl] = NoGen
           /\ genCounter' = g
           /\ gslot' = [gslot EXCEPT ![g] = sl]
           /\ gstate' = [gstate EXCEPT ![g] = "QUEUED"]
           /\ current' = IF asNext THEN current ELSE [current EXCEPT ![sl] = g]
           /\ next' = IF asNext THEN [next EXCEPT ![sl] = g] ELSE next
           /\ Leased(s, g)

-----------------------------------------------------------------------------
(* The lease and the body                                                  *)

\* release_lease: the last one seals the generation, run or not.
Sealed(g) == IF gstate[g] \in {"QUEUED", "RETURNED"} THEN "RETURNED" ELSE "SEALING"

ReleaseLease(s) ==
    gstate' = [gstate EXCEPT ![lease[s]] =
        IF \E t \in Scopes \ {s} : pc[t] \in Holding /\ lease[t] = lease[s]
          THEN @ ELSE Sealed(lease[s])]

\* go() submits its body to the leased generation, pinned.
Submit(s) ==
    /\ pc[s] = "leased"
    /\ Accepts(lease[s])
    /\ pc' = [pc EXCEPT ![s] = "submitted"]
    /\ UNCHANGED <<laneVars, escapes, genVars, bornVars, target, lease, blocked>>

LeaseReturned(s) ==
    /\ pc' = [pc EXCEPT ![s] = "done"]
    /\ ReleaseLease(s)
    /\ UNCHANGED <<laneVars, escapes, genCounter, gslot, current, next,
                   bornVars, target, lease, blocked>>

\* The generation was returned before it ran and leased again as the successor,
\* which _reserve_locked takes without looking: go() raises.
SubmitRefused(s) ==
    /\ pc[s] = "leased"
    /\ ~Accepts(lease[s])
    /\ LeaseReturned(s)

\* create_task() or adopt() on a carrier scope: the lease is only tried.
TryLease(s) ==
    /\ pc[s] = "leased" /\ kind[s] = "stage"
    /\ LeaseReturned(s)

StartBody(s) ==
    /\ pc[s] = "submitted"
    /\ HasTurn(s)
    /\ pc' = [pc EXCEPT ![s] = "running"]
    /\ UNCHANGED <<laneVars, escapes, genVars, bornVars, target, lease, blocked>>

ChildrenDone(s, ws) ==
    \A c \in Scopes :
        opener[c] = s /\ where[c] \in ws /\ Waited(c) => pc[c] \in {"new", "done"}

\* The body returns and the scope gives its lease back.
EndBody(s) ==
    /\ pc[s] = "running"
    /\ HasTurn(s)
    /\ ChildrenDone(s, {"loop", "worker"})
    /\ LeaseReturned(s)

\* The body is cancelled while it awaits its worker thread, which goes on.
CancelBody(s) ==
    /\ pc[s] = "running"
    /\ HasTurn(s)
    /\ ChildrenDone(s, {"loop"}) /\ ~ChildrenDone(s, {"worker"})
    /\ LeaseReturned(s)

-----------------------------------------------------------------------------
(* Generations and escape slots                                            *)

\* The control thread runs g: it opens if anybody holds a reservation by now.
OpenGeneration(g) ==
    /\ gstate[g] \in {"QUEUED", "RETURNED"}
    /\ current[gslot[g]] = g
    /\ gstate' = [gstate EXCEPT ![g] =
         IF \E s \in Scopes : pc[s] \in Holding /\ lease[s] = g THEN "OPEN" ELSE "SEALING"]
    /\ UNCHANGED <<laneVars, escapes, genCounter, gslot, current, next,
                   bornVars, pc, target, lease, blocked>>

CloseGeneration(g) ==
    /\ gstate[g] = "SEALING"
    /\ current[gslot[g]] = g
    /\ gstate' = [gstate EXCEPT ![g] = "CLOSED"]
    /\ current' = [current EXCEPT ![gslot[g]] = next[gslot[g]]]
    /\ next' = [next EXCEPT ![gslot[g]] = NoGen]
    /\ UNCHANGED <<laneVars, escapes, genCounter, gslot,
                   bornVars, pc, target, lease, blocked>>

\* _escape_slot_idle runs once the slot has closed its generation.
BecameIdle_Never(sl) == FALSE
BecameIdle(sl) ==
    /\ current[sl] = NoGen /\ next[sl] = NoGen
    /\ \E g \in Gens : gslot[g] = sl

RetireEscape(sl) ==
    /\ sl \in escapes
    /\ BecameIdle(sl)
    /\ escapes' = escapes \ {sl}
    /\ UNCHANGED <<laneVars, genVars, bornVars, pc, target, lease, blocked>>

-----------------------------------------------------------------------------
Place(s) ==
    \/ JoinShared(s) \/ AcquireInherited(s) \/ SelectSlot(s)
    \/ AcquireOpen(s) \/ AcquireNew(s)
Runs(s) == Submit(s) \/ SubmitRefused(s) \/ StartBody(s) \/ EndBody(s)

Next ==
    \/ \E n \in 1..MaxLanes : SetCarrierLoopCount(n)
    \/ \E s \in Scopes : \E p \in Openers[s], w \in {"thread", "loop", "worker"} :
         \/ \E k \in Kinds : Open(s, p, w, k)
         \/ BridgeCall(s, p, w)
    \/ \E s \in Scopes : Place(s) \/ Runs(s) \/ TryLease(s) \/ CancelBody(s)
    \/ \E g \in Gens : OpenGeneration(g) \/ CloseGeneration(g)
    \/ \E sl \in Slots : RetireEscape(sl)

Spec == Init /\ [][Next]_vars

\* Threads and loops that can go on do; opening, settings and cancellation
\* are the clients' choice.
FairSpec ==
    /\ Spec
    /\ \A s \in Scopes : WF_vars(Place(s)) /\ WF_vars(Runs(s))
    /\ \A g \in Gens : WF_vars(OpenGeneration(g) \/ CloseGeneration(g))
    /\ \A sl \in Slots : WF_vars(RetireEscape(sl))

-----------------------------------------------------------------------------
(* Properties                                                              *)

\* Type invariant.
TypeOK ==
    /\ lanes \in Seq(Slots) /\ Len(lanes) \in 1..MaxLanes
    /\ escapes \subseteq Slots
    /\ slotCounter \in Slots
    /\ frozen \in BOOLEAN
    /\ cursor \in 0..(Len(lanes) - 1)
    /\ genCounter \in 0..Cardinality(Scopes)
    /\ gslot \in [Gens -> Slots \cup {NoSlot}]
    /\ gstate \in [Gens -> GenStates]
    /\ current \in [Slots -> Gens \cup {NoGen}]
    /\ next \in [Slots -> Gens \cup {NoGen}]
    /\ pc \in [Scopes -> Stages]
    /\ opener \in [Scopes -> Scopes \cup {NoScope}]
    /\ where \in [Scopes -> {"thread", "loop", "worker"}]
    /\ kind \in [Scopes -> Kinds]
    /\ target \in [Scopes -> Slots \cup {NoSlot}]
    /\ lease \in [Scopes -> Gens \cup {NoGen}]
    /\ blocked \in [Scopes -> SUBSET Gens]
    /\ upstream \in [Scopes -> SUBSET Gens]
    /\ viaShared \in [Scopes -> BOOLEAN]

(***************************************************************************)
(* A scope is never placed on a carrier loop that waits for it, however    *)
(* many scopes lie between: acquire_lease, _select_slot and                *)
(* blocked_generation_ids_for_submission keep it off its ancestors.        *)
(* Descendants of a call on the bridge's shared Stage are left out: they   *)
(* inherit the blocked ids of whoever opened the shared epoch, not those   *)
(* of their caller.                                                        *)
(***************************************************************************)
NoUpstreamPlacement ==
    \A s \in Scopes : pc[s] \in Holding /\ ~viaShared[s] => lease[s] \notin upstream[s]

(***************************************************************************)
(* _slot_for_generation finds the slot of every lease and of every slot    *)
(* that was selected: no lane is popped by set_carrier_loop_count and no   *)
(* escape slot retired while a scope counts on it.  A leased generation    *)
(* has not begun to drain, whoever else gave it back in between, and one   *)
(* that accepted a body will run it.  (One that is only leased may have    *)
(* been returned before it ran; it then refuses the body, see              *)
(* SubmitRefused.)                                                         *)
(***************************************************************************)
LeasedSlotKnown ==
    \A s \in Scopes :
        /\ pc[s] = "selected" => target[s] \in Range(lanes) \cup escapes
        /\ pc[s] \in Holding => /\ gslot[lease[s]] \in Range(lanes) \cup escapes
                                /\ gstate[lease[s]] \in {"QUEUED", "RETURNED", "OPEN"}
                                /\ lease[s] \in {current[gslot[lease[s]]], next[gslot[lease[s]]]}
        /\ pc[s] \in Accepted => Accepts(lease[s])

\* Generation g's loop is blocked until a scope on generation h is over.
WaitsFor(g, h) ==
    \E s \in Scopes : /\ Blocks(s) /\ Waited(s) /\ pc[s] \in Holding
                      /\ lease[opener[s]] = g /\ lease[s] = h

(***************************************************************************)
(* Carrier loops never wait for one another in a circle: README.md says    *)
(* that a sync context selects a physically safe carrier, and that the     *)
(* selector prevents a transitive wait cycle.  It does so within one       *)
(* lineage only.                                                           *)
(***************************************************************************)
NoWaitCycle ==
    ~ \E S \in SUBSET Gens \ {{}} : \A g \in S : \E h \in S : WaitsFor(g, h)

(***************************************************************************)
(* With the default single lane every scope that is opened ends, however   *)
(* scopes are nested on loops and in workers, unless a call on the         *)
(* bridge's shared Stage, or a descendant of one, was placed on a loop     *)
(* that waits for it: would_sync_wait_block_current_carrier looks before   *)
(* the shared Stage is resolved, and the epoch it saw may be over by then. *)
(***************************************************************************)
SharedUpstream ==
    \E s \in Scopes : viaShared[s] /\ pc[s] \in Holding /\ lease[s] \in upstream[s]

ScopesEnd ==
    [](Len(lanes) = 1) =>
        \A s \in Scopes : pc[s] = "choosing" ~> (pc[s] = "done" \/ SharedUpstream)

(***************************************************************************)
(* An escape slot does not outlive the scopes placed on it: once they are  *)
(* over it leaves the pool and its control thread is shut down.            *)
(***************************************************************************)
EscapesRetire ==
    \A sl \in Slots :
        (sl \in escapes /\ \E g \in Gens : gslot[g] = sl /\ gstate[g] = "SEALING")
            ~> sl \notin escapes
=============================================================================
