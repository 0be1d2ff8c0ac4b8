---------------------------- MODULE CarrierSlot ----------------------------
(***************************************************************************)
(* One carrier slot of the process runtime (src/agently_stage/_runtime.py, *)
(* class _CarrierSlot).  A slot runs a succession of generations on one    *)
(* control thread.  A generation is an event loop that lives for as long   *)
(* as somebody holds a reservation on it: a Stage scope's lease, a         *)
(* submission that has not finished, or a task that a submission spawned.  *)
(* When the last reservation goes, the generation seals, drains and        *)
(* closes; work that arrives meanwhile goes to one queued successor.       *)
(*                                                                         *)
(* Every critical section under _admission_lock is one action.  The calls  *)
(* the code makes after it drops the lock (call_soon_threadsafe) are       *)
(* actions of their own, because other threads run in between.             *)
(***************************************************************************)
EXTENDS Integers, Sequences, FiniteSets

CONSTANTS
    MaxLeases,       \* bound on lease epochs: one per time a scope becomes active
    Subs,            \* submissions (one per Stage.go body or callback drain)
    Kids,            \* tasks spawned by a submission's own code
    Strays,          \* tasks put on the loop from outside any Stage lineage
    Cancellable,     \* submissions whose handle may be cancelled
    MaxGenerations,  \* bound on generation ids
    NoSub            \* "submitted outside any Stage execution"

ASSUME SlotAssumption ==
    /\ MaxLeases \in Nat /\ IsFiniteSet(Subs) /\ IsFiniteSet(Kids)
    /\ Cancellable \subseteq Subs
    /\ NoSub \notin Subs
    /\ MaxGenerations \in Nat

Leases == 1..MaxLeases
Gens  == 1..MaxGenerations
NoGen == 0
GenOrNone == 0..MaxGenerations
Returned == -1   \* the lease of this epoch has been given back

VARIABLES
    counter,      \* generation ids handed out so far
    gstate,       \* _Generation.state ("none": never created)
    reservations, \* _Generation.reservations
    loop,         \* "none" (generation.loop is None), "open", "closed"
    seal,         \* the way of seal_event.set: see SealStates
    current,      \* _CarrierSlot._current
    next,         \* _CarrierSlot._next
    queue,        \* generations waiting in _control_executor
    worker,       \* the generation the control thread is running
    accepting,    \* _control_executor still takes work
    lease,        \* Stage._generation_lease of each epoch
    subPc, subGen, outer, cancel,  \* submissions and their handles
    kidPc, kidGen,                 \* spawned tasks
    strayPc, strayGen, gathered    \* unowned tasks; those the drain waits for

genVars   == <<counter, gstate, reservations, loop, seal>>
slotVars  == <<current, next, queue, worker, accepting>>
subVars   == <<subPc, subGen, outer, cancel>>
kidVars   == <<kidPc, kidGen>>
strayVars == <<strayPc, strayGen, gathered>>
vars == <<genVars, slotVars, lease, subVars, kidVars, strayVars>>

GenStates == {"none", "QUEUED", "OPEN", "SEALING", "DRAINING", "CLOSED"}

\* no: nobody asked; loopThread/otherThread: that thread has dropped the lock
\* and is about to call call_soon_threadsafe; scheduled: the callback is on the
\* loop; set: the event is set.
SealStates == {"no", "loopThread", "otherThread", "scheduled", "set"}

\* idle -> pending/scheduled -> created -> running -> finished -> done.
\* refused: submit raised.  dropped: the task was cancelled before its first
\* step (its done callback has still to run); leaked: and the callback ran.
SubStates == {"idle", "refused", "pending", "scheduled", "created",
              "running", "finished", "done", "dropped", "leaked"}
OwnReservation  == {"pending", "scheduled", "created", "running",
                    "dropped", "leaked"}
TaskReservation == {"created", "running", "finished", "dropped"}
Started == {"running", "finished", "done"}

KidStates   == {"idle", "live", "finished", "done", "refused"}
StrayStates == {"idle", "live", "done", "destroyed"}

(***************************************************************************)
(* A cancel of a handle: asked = flag set, owner loop captured, lock       *)
(* dropped; posted = _cancel_tasks is on the loop; seen = nothing more     *)
(* will be delivered.                                                      *)
(***************************************************************************)
CancelStates == {"no", "asked", "posted", "seen"}

Init ==
    /\ counter = 0
    /\ gstate = [g \in Gens |-> "none"]
    /\ reservations = [g \in Gens |-> 0]
    /\ loop = [g \in Gens |-> "none"]
    /\ seal = [g \in Gens |-> "no"]
    /\ current = NoGen
    /\ next = NoGen
    /\ queue = <<>>
    /\ worker = NoGen
    /\ accepting = TRUE
    /\ lease = [l \in Leases |-> NoGen]
    /\ subPc = [s \in Subs |-> "idle"]
    /\ subGen = [s \in Subs |-> NoGen]
    /\ outer = [s \in Subs |-> NoSub]
    /\ cancel = [s \in Subs |-> "no"]
    /\ kidPc = [k \in Kids |-> "idle"]
    /\ kidGen = [k \in Kids |-> NoGen]
    /\ strayPc = [x \in Strays |-> "idle"]
    /\ strayGen = [x \in Strays |-> NoGen]
    /\ gathered = {}

-----------------------------------------------------------------------------
(* Reservations                                                            *)

Accepts(g) == gstate[g] \in {"QUEUED", "OPEN"}

\* The generation _reserve_locked(None) takes without creating one.
DefaultTarget(g) ==
    /\ current # NoGen
    /\ \/ Accepts(current) /\ g = current
       \/ ~Accepts(current) /\ next # NoGen /\ g = next

MustCreate == current # NoGen => ~Accepts(current) /\ next = NoGen

\* _reserve_locked(preferred) succeeds.
ReservablePreferred(g) == g \in {current, next} /\ Accepts(g)

Reserve(g) == reservations' = [reservations EXCEPT ![g] = @ + 1]

\* _retain_reservation, for tasks spawned on a running generation
MayRetain_Always(g) == TRUE
MayRetain(g) == gstate[g] = "OPEN"

(***************************************************************************)
(* _release_reservation: the last release seals the generation and, if     *)
(* its loop exists, leaves the thread with a callback to post.             *)
(***************************************************************************)
StateAfterRelease_Unchanged(g) == gstate[g]
StateAfterRelease(g) ==
    IF reservations[g] = 1 /\ Accepts(g) THEN "SEALING" ELSE gstate[g]

SealAfterRelease_Forgotten(g, thread) == seal[g]
SealAfterRelease(g, thread) ==
    IF reservations[g] = 1 /\ loop[g] # "none" THEN thread ELSE seal[g]

Release(g, thread) ==
    /\ reservations' = [reservations EXCEPT ![g] = @ - 1]
    /\ gstate' = [gstate EXCEPT ![g] = StateAfterRelease(g)]
    /\ seal' = [seal EXCEPT ![g] = SealAfterRelease(g, thread)]

\* The loop of g can run a callback: its thread is not inside Release.
LoopTurn(g) == loop[g] = "open" /\ seal[g] # "loopThread"

-----------------------------------------------------------------------------
(* Leases                                                                  *)

\* Epochs are numbered in the order in which they take their lease.
FirstUse(l) == lease[l] = NoGen /\ \A earlier \in 1..(l - 1) : lease[earlier] # NoGen

\* acquire_lease() by a scope with no Stage lineage, on an existing generation
AcquireLease(l, g) ==
    /\ FirstUse(l)
    /\ DefaultTarget(g)
    /\ Reserve(g)
    /\ lease' = [lease EXCEPT ![l] = g]
    /\ UNCHANGED <<counter, gstate, loop, seal, slotVars, subVars, kidVars, strayVars>>

\* A generation created while another one is current is queued as _next.
AsNext_Ignored == FALSE
AsNext == current # NoGen

\* ... and when _create_generation_locked has to make one
AcquireLeaseOnNew(l) ==
    /\ FirstUse(l)
    /\ MustCreate
    /\ counter < MaxGenerations
    /\ accepting
    /\ counter' = counter + 1
    /\ gstate' = [gstate EXCEPT ![counter + 1] = "QUEUED"]
    /\ Reserve(counter + 1)
    /\ current' = IF AsNext THEN current ELSE counter + 1
    /\ next' = IF AsNext THEN counter + 1 ELSE next
    /\ queue' = Append(queue, counter + 1)
    /\ lease' = [lease EXCEPT ![l] = counter + 1]
    /\ UNCHANGED <<loop, seal, worker, accepting, subVars, kidVars, strayVars>>

\* ... and the executor refuses it: the slot is put back, the id is spent
AcquireLeaseRefused(l) ==
    /\ FirstUse(l)
    /\ MustCreate
    /\ counter < MaxGenerations
    /\ ~accepting
    /\ counter' = counter + 1
    /\ UNCHANGED <<gstate, reservations, loop, seal, slotVars, lease, subVars, kidVars, strayVars>>

\* acquire_lease(preferred): a scope opened by work that ran on generation g
AcquireInheritedLease(l, g) ==
    /\ FirstUse(l)
    /\ \E s \in Subs : subGen[s] = g /\ subPc[s] \in Started
    /\ ReservablePreferred(g)
    /\ Reserve(g)
    /\ lease' = [lease EXCEPT ![l] = g]
    /\ UNCHANGED <<counter, gstate, loop, seal, slotVars, subVars, kidVars, strayVars>>

ReleaseLease(l) ==
    /\ lease[l] \in Gens
    /\ Release(lease[l], "otherThread")
    /\ lease' = [lease EXCEPT ![l] = Returned]
    /\ UNCHANGED <<counter, loop, slotVars, subVars, kidVars, strayVars>>

\* The thread that made the last release calls call_soon_threadsafe(set).
PostSeal(g) ==
    /\ seal[g] \in {"loopThread", "otherThread"}
    /\ seal' = [seal EXCEPT ![g] = "scheduled"]
    /\ UNCHANGED <<counter, gstate, reservations, loop, slotVars, lease, subVars, kidVars, strayVars>>

\* shutdown() of a retired or idle escape slot, or interpreter exit
Shutdown ==
    /\ accepting
    /\ accepting' = FALSE
    /\ UNCHANGED <<genVars, current, next, queue, worker, lease, subVars, kidVars, strayVars>>

-----------------------------------------------------------------------------
(* Submissions                                                             *)

(***************************************************************************)
(* submit(handle, runner, preferred = the scope's lease).  The caller's    *)
(* context is copied: o is the submission whose execution the context      *)
(* carries, if that execution belongs to the same generation.              *)
(***************************************************************************)
Submit(s, l, o) ==
    /\ subPc[s] = "idle"
    /\ lease[l] \in Gens
    /\ ReservablePreferred(lease[l])
    /\ o # NoSub => subGen[o] = lease[l] /\ subPc[o] \in Started
    /\ Reserve(lease[l])
    /\ subGen' = [subGen EXCEPT ![s] = lease[l]]
    /\ outer' = [outer EXCEPT ![s] = o]
    /\ subPc' = [subPc EXCEPT ![s] =
                    IF loop[lease[l]] = "none" THEN "pending" ELSE "scheduled"]
    /\ UNCHANGED <<counter, gstate, loop, seal, slotVars, lease, cancel, kidVars, strayVars>>

SubmitRefused(s, l) ==
    /\ subPc[s] = "idle"
    /\ lease[l] \in Gens
    /\ ~ReservablePreferred(lease[l])
    /\ subPc' = [subPc EXCEPT ![s] = "refused"]
    /\ UNCHANGED <<genVars, slotVars, lease, subGen, outer, cancel, kidVars, strayVars>>

\* _register_owned_task: the handle that owns the new task is being cancelled.
BornCancelled(s) == cancel[outer[s]] # "no"

(***************************************************************************)
(* _start_submission creates the task in the submitter's context.  With a  *)
(* lineage on this generation the task factory retains a second            *)
(* reservation for it, registers it with the outer handle, and cancels it  *)
(* at once if that handle is being cancelled.  Its "loop is None" branch   *)
(* cannot run: the callback runs on that loop.  Nor can the task factory   *)
(* refuse here: the submission's own reservation keeps the generation OPEN *)
(* (ReservedLoopStaysOpen).                                                *)
(***************************************************************************)
StartSubmission(s) ==
    /\ subPc[s] = "scheduled"
    /\ LoopTurn(subGen[s])
    /\ IF outer[s] = NoSub
       THEN /\ subPc' = [subPc EXCEPT ![s] = "created"]
            /\ UNCHANGED reservations
       ELSE /\ MayRetain(subGen[s])
            /\ Reserve(subGen[s])
            /\ subPc' = [subPc EXCEPT ![s] =
                            IF BornCancelled(s) THEN "dropped" ELSE "created"]
    /\ UNCHANGED <<counter, gstate, loop, seal, slotVars, lease, subGen, outer, cancel, kidVars, strayVars>>

\* First step of _run_submission: the task is now the handle's owner task.
RunSubmission(s) ==
    /\ subPc[s] = "created"
    /\ LoopTurn(subGen[s])
    /\ subPc' = [subPc EXCEPT ![s] = "running"]
    /\ UNCHANGED <<genVars, slotVars, lease, subGen, outer, cancel, kidVars, strayVars>>

\* The finally block of _run_submission, whatever the runner's outcome.  The
\* task of a nested submission has its own done callback still to come.
AfterFinish_Settled(s) == "done"
AfterFinish(s) == IF outer[s] = NoSub THEN "done" ELSE "finished"

FinishSubmission(s) ==
    /\ subPc[s] = "running"
    /\ LoopTurn(subGen[s])
    /\ Release(subGen[s], "loopThread")
    /\ subPc' = [subPc EXCEPT ![s] = AfterFinish(s)]
    /\ UNCHANGED <<counter, loop, slotVars, lease, subGen, outer, cancel, kidVars, strayVars>>

\* _descendant_done for the task of a nested submission
SubmissionTaskDone(s) ==
    /\ subPc[s] \in {"finished", "dropped"}
    /\ LoopTurn(subGen[s])
    /\ Release(subGen[s], "loopThread")
    /\ subPc' = [subPc EXCEPT ![s] = IF @ = "finished" THEN "done" ELSE "leaked"]
    /\ UNCHANGED <<counter, loop, slotVars, lease, subGen, outer, cancel, kidVars, strayVars>>

-----------------------------------------------------------------------------
(* Cancellation of a handle (StageHandle.cancel)                           *)

\* The handle's body is unfinished, or it still owns a body task.
CancelRequest(s) ==
    /\ s \in Cancellable
    /\ cancel[s] = "no"
    /\ \/ subPc[s] \in {"pending", "scheduled", "created", "running", "dropped"}
       \/ \E t \in Subs : outer[t] = s /\ subPc[t] \in TaskReservation
    /\ cancel' = [cancel EXCEPT ![s] = IF subPc[s] \in Started THEN "asked" ELSE "seen"]
    /\ UNCHANGED <<genVars, slotVars, lease, subPc, subGen, outer, kidVars, strayVars>>

\* call_soon_threadsafe(_cancel_tasks); it raises if the loop has closed since.
CancelPost(s) ==
    /\ cancel[s] = "asked"
    /\ cancel' = [cancel EXCEPT ![s] = IF loop[subGen[s]] = "open" THEN "posted" ELSE "seen"]
    /\ UNCHANGED <<genVars, slotVars, lease, subPc, subGen, outer, kidVars, strayVars>>

\* _cancel_tasks: a nested submission whose task has not taken its first step
\* never will; the others only see a CancelledError and finish as usual.
CancelTasks(s) ==
    /\ cancel[s] = "posted"
    /\ LoopTurn(subGen[s])
    /\ cancel' = [cancel EXCEPT ![s] = "seen"]
    /\ subPc' = [t \in Subs |-> IF outer[t] = s /\ subPc[t] = "created"
                                THEN "dropped" ELSE subPc[t]]
    /\ UNCHANGED <<genVars, slotVars, lease, subGen, outer, kidVars, strayVars>>

-----------------------------------------------------------------------------
(* Spawned and unowned tasks                                               *)

\* _task_factory called from code that carries an execution of generation g:
\* the body itself, a task it spawned, or a timer it left behind.
CreateDescendant(k, g) ==
    /\ kidPc[k] = "idle"
    /\ LoopTurn(g)
    /\ \E s \in Subs : subGen[s] = g /\ subPc[s] \in Started
    /\ IF MayRetain(g)
       THEN /\ Reserve(g)
            /\ kidPc' = [kidPc EXCEPT ![k] = "live"]
       ELSE /\ UNCHANGED reservations
            /\ kidPc' = [kidPc EXCEPT ![k] = "refused"]
    /\ kidGen' = [kidGen EXCEPT ![k] = g]
    /\ UNCHANGED <<counter, gstate, loop, seal, slotVars, lease, subVars, strayVars>>

FinishDescendant(k) ==
    /\ kidPc[k] = "live"
    /\ LoopTurn(kidGen[k])
    /\ kidPc' = [kidPc EXCEPT ![k] = "finished"]
    /\ UNCHANGED <<genVars, slotVars, lease, subVars, kidGen, strayVars>>

DescendantDone(k) ==
    /\ kidPc[k] = "finished"
    /\ LoopTurn(kidGen[k])
    /\ Release(kidGen[k], "loopThread")
    /\ kidPc' = [kidPc EXCEPT ![k] = "done"]
    /\ UNCHANGED <<counter, loop, slotVars, lease, subVars, kidGen, strayVars>>

\* A task whose context has no execution of this generation: not retained.
SpawnStray(x, g) ==
    /\ strayPc[x] = "idle"
    /\ LoopTurn(g)
    /\ strayPc' = [strayPc EXCEPT ![x] = "live"]
    /\ strayGen' = [strayGen EXCEPT ![x] = g]
    /\ UNCHANGED <<genVars, slotVars, lease, subVars, kidVars, gathered>>

FinishStray(x) ==
    /\ strayPc[x] = "live"
    /\ LoopTurn(strayGen[x])
    /\ strayPc' = [strayPc EXCEPT ![x] = "done"]
    /\ UNCHANGED <<genVars, slotVars, lease, subVars, kidVars, strayGen, gathered>>

-----------------------------------------------------------------------------
(* The control thread: _run_generation                                     *)

\* Reservations decide the state, whatever it was while queued.
StateOnOpen(g) == IF reservations[g] = 0 THEN "SEALING" ELSE "OPEN"

\* Submissions that arrived before there was a loop are scheduled on it.
ScheduledOnOpen_Nothing(g, s) == FALSE
ScheduledOnOpen(g, s) == subGen[s] = g /\ subPc[s] = "pending"

OpenGeneration(g) ==
    /\ worker = NoGen
    /\ queue # <<>> /\ g = Head(queue)
    /\ queue' = Tail(queue)
    /\ worker' = g
    /\ loop' = [loop EXCEPT ![g] = "open"]
    /\ gstate' = [gstate EXCEPT ![g] = StateOnOpen(g)]
    /\ seal' = [seal EXCEPT ![g] = IF reservations[g] = 0 THEN "scheduled" ELSE @]
    /\ subPc' = [s \in Subs |-> IF ScheduledOnOpen(g, s) THEN "scheduled" ELSE subPc[s]]
    /\ UNCHANGED <<counter, reservations, current, next, accepting, lease, subGen, outer, cancel, kidVars, strayVars>>

\* The callback seal_event.set runs on the loop.
SetSealEvent(g) ==
    /\ seal[g] = "scheduled"
    /\ loop[g] = "open"
    /\ seal' = [seal EXCEPT ![g] = "set"]
    /\ UNCHANGED <<counter, gstate, reservations, loop, slotVars, lease, subVars, kidVars, strayVars>>

\* run_until_complete(seal_event.wait()) returned; gather the pending tasks.
Drain(g) ==
    /\ worker = g /\ seal[g] = "set" /\ gstate[g] # "DRAINING" /\ loop[g] = "open"
    /\ gstate' = [gstate EXCEPT ![g] = "DRAINING"]
    /\ gathered' = {x \in Strays : strayGen[x] = g /\ strayPc[x] = "live"}
    /\ UNCHANGED <<counter, reservations, loop, seal, slotVars, lease, subVars, kidVars, strayPc, strayGen>>

\* Gather, shutdown_asyncgens and shutdown_default_executor are over.
CloseLoop(g) ==
    /\ worker = g /\ gstate[g] = "DRAINING" /\ loop[g] = "open"
    /\ \A x \in gathered : strayPc[x] # "live"
    /\ loop' = [loop EXCEPT ![g] = "closed"]
    /\ strayPc' = [x \in Strays |-> IF strayGen[x] = g /\ strayPc[x] = "live"
                                    THEN "destroyed" ELSE strayPc[x]]
    /\ UNCHANGED <<counter, gstate, reservations, seal, slotVars, lease, subVars, kidVars, strayGen, gathered>>

CloseGeneration(g) ==
    /\ worker = g /\ loop[g] = "closed"
    /\ loop' = [loop EXCEPT ![g] = "none"]
    /\ gstate' = [gstate EXCEPT ![g] = "CLOSED"]
    /\ current' = IF current = g THEN next ELSE current
    /\ next' = IF current = g THEN NoGen ELSE next
    /\ worker' = NoGen
    /\ gathered' = {}
    /\ UNCHANGED <<counter, reservations, seal, queue, accepting, lease, subVars, kidVars, strayPc, strayGen>>

-----------------------------------------------------------------------------
LeaseStep ==
    \/ \E l \in Leases : AcquireLeaseOnNew(l) \/ AcquireLeaseRefused(l) \/ ReleaseLease(l)
    \/ \E l \in Leases, g \in Gens : AcquireLease(l, g) \/ AcquireInheritedLease(l, g)

SubmitStep ==
    \/ \E s \in Subs, l \in Leases, o \in Subs \cup {NoSub} : Submit(s, l, o)
    \/ \E s \in Subs, l \in Leases : SubmitRefused(s, l)

CancelStep == \E s \in Subs : CancelRequest(s) \/ CancelPost(s) \/ CancelTasks(s)

TaskStep ==
    \/ \E s \in Subs : StartSubmission(s) \/ RunSubmission(s)
                       \/ FinishSubmission(s) \/ SubmissionTaskDone(s)
    \/ \E k \in Kids : FinishDescendant(k) \/ DescendantDone(k)
    \/ \E k \in Kids, g \in Gens : CreateDescendant(k, g)
    \/ \E x \in Strays : FinishStray(x)
    \/ \E x \in Strays, g \in Gens : SpawnStray(x, g)

ControlStep ==
    \E g \in Gens : PostSeal(g) \/ OpenGeneration(g) \/ SetSealEvent(g)
                    \/ Drain(g) \/ CloseLoop(g) \/ CloseGeneration(g)

Next == LeaseStep \/ SubmitStep \/ CancelStep \/ TaskStep \/ ControlStep \/ Shutdown

Spec == Init /\ [][Next]_vars

(***************************************************************************)
(* Fairness.  Threads and loops keep running, bodies and tasks terminate,  *)
(* and a scope gives its lease back: only then can a generation end.       *)
(***************************************************************************)
SealProceeds(g) == PostSeal(g) \/ SetSealEvent(g)
ControlProceeds(g) == OpenGeneration(g) \/ Drain(g) \/ CloseLoop(g) \/ CloseGeneration(g)
SubmissionProceeds(s) ==
    StartSubmission(s) \/ RunSubmission(s) \/ FinishSubmission(s) \/ SubmissionTaskDone(s)

Fairness ==
    /\ \A g \in Gens : WF_vars(SealProceeds(g)) /\ WF_vars(ControlProceeds(g))
    /\ \A s \in Subs : WF_vars(SubmissionProceeds(s))
    /\ \A k \in Kids : WF_vars(FinishDescendant(k) \/ DescendantDone(k))
    /\ \A x \in Strays : WF_vars(FinishStray(x))
    /\ \A l \in Leases : WF_vars(ReleaseLease(l))

FairSpec == Spec /\ Fairness

-----------------------------------------------------------------------------
(* Properties                                                              *)

\* Type invariant: every variable stays in its domain.
TypeOK ==
    /\ counter \in GenOrNone
    /\ gstate \in [Gens -> GenStates]
    /\ reservations \in [Gens -> Nat]
    /\ loop \in [Gens -> {"none", "open", "closed"}]
    /\ seal \in [Gens -> SealStates]
    /\ current \in GenOrNone /\ next \in GenOrNone /\ worker \in GenOrNone
    /\ queue \in Seq(Gens)
    /\ accepting \in BOOLEAN
    /\ lease \in [Leases -> GenOrNone \cup {Returned}]
    /\ subPc \in [Subs -> SubStates]
    /\ subGen \in [Subs -> GenOrNone]
    /\ outer \in [Subs -> Subs \cup {NoSub}]
    /\ cancel \in [Subs -> CancelStates]
    /\ kidPc \in [Kids -> KidStates]
    /\ kidGen \in [Kids -> GenOrNone]
    /\ strayPc \in [Strays -> StrayStates]
    /\ strayGen \in [Strays -> GenOrNone]
    /\ gathered \subseteq Strays

LeasesOn(g) == {l \in Leases : lease[l] = g}
SubsOn(g)   == {s \in Subs : subGen[s] = g /\ subPc[s] \in OwnReservation}
TasksOn(g)  == {s \in Subs : subGen[s] = g /\ outer[s] # NoSub /\ subPc[s] \in TaskReservation}
KidsOn(g)   == {k \in Kids : kidGen[k] = g /\ kidPc[k] \in {"live", "finished"}}

(***************************************************************************)
(* Accounting: the counter of a generation equals the number of holders    *)
(* that still have a release to make, so no path releases twice (underflow *)
(* at _runtime.py:237) or forgets to retain.                               *)
(***************************************************************************)
ReservationsCounted ==
    \A g \in Gens :
        reservations[g] = Cardinality(LeasesOn(g)) + Cardinality(SubsOn(g))
                          + Cardinality(TasksOn(g)) + Cardinality(KidsOn(g))

(***************************************************************************)
(* A generation that drains, and a fortiori one that has closed, carries   *)
(* no lease, no unfinished submission and no retained task: nothing that   *)
(* a Stage retained can be cut off by the closing of its loop.             *)
(***************************************************************************)
NoWorkCutOff ==
    \A g \in Gens : gstate[g] \in {"DRAINING", "CLOSED"} =>
        LeasesOn(g) = {} /\ SubsOn(g) = {} /\ TasksOn(g) = {} /\ KidsOn(g) = {}

(***************************************************************************)
(* A generation that is running admits pinned work for as long as anybody  *)
(* holds a reservation on it, so a scope that leased a running generation  *)
(* can always submit to it.                                                *)
(***************************************************************************)
ReservedLoopStaysOpen ==
    \A g \in Gens : loop[g] # "none" /\ reservations[g] > 0 => gstate[g] = "OPEN"

(***************************************************************************)
(* The seal is posted once, and only while the loop can still take it: the *)
(* thread that dropped the lock in _release_reservation never calls        *)
(* call_soon_threadsafe on a loop that has closed in the meantime.         *)
(***************************************************************************)
SealPostIsSafe ==
    \A g \in Gens : seal[g] \in {"loopThread", "otherThread", "scheduled"} =>
        loop[g] = "open" /\ gstate[g] = "SEALING" /\ reservations[g] = 0

(***************************************************************************)
(* One loop per slot: a generation has a loop only while the control       *)
(* thread runs it, it is then the slot's current one, and every other live *)
(* generation waits in the executor's queue in id order.                   *)
(***************************************************************************)
OneLoopPerSlot ==
    /\ \A g \in Gens : loop[g] # "none" => worker = g
    /\ worker # NoGen => worker = current
    /\ \A i, j \in DOMAIN queue : i < j => queue[i] < queue[j]
    /\ {g \in Gens : gstate[g] \notin {"none", "CLOSED"}} = {current, next} \ {NoGen}

(***************************************************************************)
(* A slot hands over to a younger generation or becomes empty, and only    *)
(* when the generation it leaves has closed.                               *)
(***************************************************************************)
HandOverInOrder ==
    [][current' # current =>
         /\ current' # NoGen => current' > current
         /\ current # NoGen => gstate'[current] = "CLOSED"]_vars

(***************************************************************************)
(* What a scope may expect of its lease: the generation it pinned accepts  *)
(* its submissions (README: retained work drains and a later batch can     *)
(* open a new generation).                                                 *)
(***************************************************************************)
LeasedGenerationAdmits ==
    \A l \in Leases : lease[l] \in Gens => ReservablePreferred(lease[l])

\* Every generation that was created eventually closes its loop.
GenerationsClose ==
    \A g \in Gens : gstate[g] = "QUEUED" ~> gstate[g] = "CLOSED"

(***************************************************************************)
(* The same, but for a generation on which a nested submission lost its    *)
(* task before the first step and with it the release of its reservation:  *)
(* no other order of releases, seals, cancellations and hand-overs leaves  *)
(* a loop and its control thread behind.                                   *)
(***************************************************************************)
Leaked(g) == \E s \in Subs : subGen[s] = g /\ subPc[s] = "leaked"

GenerationsRetire ==
    \A g \in Gens : gstate[g] = "QUEUED" ~> gstate[g] = "CLOSED" \/ Leaked(g)

(***************************************************************************)
(* Every submission the slot accepted runs its body, also when it waited   *)
(* for its generation to open and its predecessor to drain; only one whose *)
(* handle, or the handle it was submitted from, was cancelled before the   *)
(* first step does not.                                                    *)
(***************************************************************************)
CancelledEarly(s) ==
    /\ subPc[s] \in {"dropped", "leaked"}
    /\ \E o \in {s, outer[s]} \ {NoSub} : cancel[o] # "no"

SubmissionsRun ==
    \A s \in Subs : subPc[s] \in {"pending", "scheduled"}
                      ~> subPc[s] = "running" \/ CancelledEarly(s)
=============================================================================
