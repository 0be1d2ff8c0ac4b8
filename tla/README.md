# Agently-Stage: a TLA+ verification project

Agently-Stage runs synchronous and asynchronous Python work in *stages*: logical
scopes that know everything they started, and whose barriers return only when
all of it has settled. This directory models the parts of the package
(`src/agently_stage/`) where that promise is hard to keep, checks them with TLC
on small instances, and proves their safety properties with TLAPS for all
instances.

## 1. The system

| Component | State | Operations | Interacts with |
|---|---|---|---|
| Carrier slot, generations (`_runtime.py`) | `_current`, `_next`, per generation: state, reservation count, loop, seal event, pending submissions | acquire/release lease, submit, task factory, descendant done, open/drain/close of a loop | Stage scopes hold leases; handles own submissions; the control thread runs the loop |
| Carrier pool (`_runtime.py`) | slots, escape slots, selection cursor | select a slot by pressure, create/retire escape slots | scopes ask it for a lease |
| Root admission (`Stage.py`) | permit count, FIFO queue of gates | admit, reject, grant, finish | body tasks wait on gates; cancellation leaves the queue |
| Stage scope (`Stage.py`) | sealed, cancelling, close-completed, active handles, adopted tasks, backend epoch with its lease, scope errors, idle timer | go, create_task/adopt, seal, wait_settled, cancel_and_wait_settled, close, idle deadline | handles report quiescence; the lease pins a generation |
| StageHandle (`StageHandle.py`) | body outcome, work count, callback queue and drain flag, settlement errors, cancel flag, owned tasks | retain/release, complete body, register/drain callbacks, cancel, wait_settled | calls back into its scope without holding its own lock |
| Tunnel (`Tunnel.py`) | retained items, base and next sequence, terminal state, async waiters; per subscription cursor and terminated flag | put, close, fail, subscribe, sync/async next, close | wake-ups cross threads and event loops |
| Idle timeout (`Stage.py`) | one timer, its token, time of the last activity, the timeout error | touch, tick, deadline | seals the scope and cancels its work |
| StageStream (`StageStream.py`, `Stage._go_stream`) | a Tunnel fed by a handle, start lock, early callbacks, source-stop flag, closed flag | start (lazily), iterate, close | Tunnel, Stage.go, idle timeout |
| EventEmitter (`EventEmitter.py`) | listeners, once-listeners, closed flag | on/once/off, emit, close | submits listeners to a Stage |
| StageCallBridge (`StageCallBridge.py`) | shared carrier scope, submit scope, routed scopes, closing and closed flags | as_sync, as_async, submit, iterators, close | Stage scopes, carrier pool |
| StageDispatch, StageFunction, LocalTaskScope, Events and other facades | little state of their own | delegation to Stage | Stage |

What is hard in it: three kinds of thread (callers, loop threads, blocking workers)
meet in four locks (slot, scope, handle, tunnel), and several operations drop one
lock before they take the next: release → seal post, release to zero →
`_handle_quiescent`, `go()` → submission, cancel → `call_soon_threadsafe`. Between
these steps anything may run. Correctness means: reservations and work counts are
exact; no retained work is cut off by a closing loop; a barrier that returns leaves
nothing behind and one that waits returns; cancellation reaches what was admitted
after it; the permit count is exact and no root waits beside a free permit; a
reader sees every value once and is never left asleep; a scope is not placed on a
carrier that waits for it; a deadline cancels only what was idle; a shutdown ends
and leaves nothing running. `PROJECT.json` lists the individual hazards with their
lines.

Two races are in parts that are not modelled, and so not among those hazards:
`Events.handle_data` reads and writes under two acquisitions of its lock, and a
`StageFunction` may be reset while it starts.

## 2. Modules

Proofs are in modules of their own, `X_proofs` for `X` (section 5).

| Module | Models | Notes |
|---|---|---|
| `CarrierSlot` | `_CarrierSlot` and the generation life cycle | one action per critical section of `_admission_lock`; posts to the loop are separate steps |
| `CarrierPool` | `_RuntimeCarrier`: settings, slot selection, escape slots, blocked generations | many slots, each a `CarrierSlot` reduced to what placement depends on |
| `RootAdmission` | `_admit_root_locked`, `_wait_for_admission`, `_finish_admission` and their callers in `go()` | one action per critical section of `_scope_lock` |
| `ScopeContract` | what a scope promises its owner (abstract specification) | no handles' internals, callbacks, loops or barriers |
| `StageScope` | one scope with its handles, callbacks, cancellation and barriers | scope lock and handle lock are distinct; implements `ScopeContract` |
| `IdleTimeout` | the idle clock of a scope | actions without a specification of their own, used by `StageStream` |
| `ReplayLog` | what a Tunnel promises (abstract specification) | no threads, buffer or waiters |
| `Tunnel` | `Tunnel` and `TunnelSubscription` | one action per critical section of the condition; implements `ReplayLog` |
| `StageStream` | a stream: composes `IdleTimeout`, a `ReplayLog` and the stream's own steps | `Stage._go_stream`, `StageStream.py` |
| `EventEmitter` | the registry of one event, emits and closes, over `ScopeContract` | used by `Clients` |
| `StageCallBridge` | `as_sync`, `submit` and the retryable close, over `ScopeContract` | used by `Clients` |
| `Clients` | a program with an emitter and a bridge | composes the two; listeners call through the bridge |
| `MC*` | small instances for TLC | model values, symmetry sets |
| `*_proofs` | inductive invariants, lemmas and theorems of `CarrierSlot`, `CarrierPool`, `RootAdmission`, `StageScope`, `StageStream`, `Tunnel`, `Clients` | TLAPS; the refinements of `ScopeContract` and `ReplayLog` included |

```
StageScope --implements--> ScopeContract <--extends-- EventEmitter, StageCallBridge <-- Clients
Tunnel     --implements--> ReplayLog     <--instance- StageStream --extends--> IdleTimeout
CarrierPool (many slots)   CarrierSlot (one slot)   RootAdmission (the permits of one scope)
```

Definitions named `X_Something` beside a definition `X` are wrong variants of it;
no specification uses them. They document which change of the code each property
would notice.

### CarrierSlot

A generation's state, count, loop and `seal_event` are functions over generation
ids. `seal` follows one `seal_event.set` from the thread that decided it (lock
dropped) over the loop's queue to the event. A lease is a one-shot *epoch*: a
scope that becomes active again is a new member of `Leases`, and epochs are
numbered in the order in which they take their lease (a naming convention that
halves the states, also for the liveness properties). The model lets a
lease be returned at any time; this is more than a well-behaved scope does, and
the late-callback window below shows that a scope does it too. `submit` with no
preferred generation exists in the code but no caller uses it; it is left out. A
nested submission carries the outer execution's context, so the task factory
retains a second reservation for it; its `outer` and the states `finished`,
`dropped` and `leaked` follow the two reservations. `Strays` are tasks without
Stage lineage: not retained, gathered only if they exist when the drain begins.
The state `STARTING` is never assigned by the code and is left out. A cancel that
meets a closed loop raises in the code; the model ends it (`seen`).

### CarrierPool

A member of `Scopes` is one backend epoch with one body, or one call on the
bridge's shared Stage. Its `opener` and `where` (on the opener's loop, in its
blocking worker, in a plain thread) are the execution context of the code that
opened it; `ContextGen` and `ContextBlocked` are what that context says, and
`RunningLoop` is `asyncio.get_running_loop()`. Selection is the code's: inherit
the opener's generation if that is allowed, else the lane with the least pressure
(reservations: lease, submission, retained task) counted from the cursor, else a
new escape slot. `JoinShared` and `WouldBlock` are the bridge's use of the pool:
the check and the submission are separate steps. `upstream` is history: the
generations whose loop is blocked until this scope is over. A lease need not come
to a body: `create_task` and `adopt` on `loop="stage"` take one and give it back at
once (`TryLease`). A generation returned before the control thread came to it is
`RETURNED`; it may be leased again as the successor, and then refuses the body
(`SubmitRefused`). Here a generation is sealed and closed in one step each;
`CarrierSlot` has the steps between. `Openers` is the client
program, the choice of who may open which scope.

### RootAdmission

A root's gate is its `admission`: `none`, `ungranted`, `granted`. `_finish_admission`
is one operator, used by every path that ends an admission: body end,
cancellation, a submission that raises. `EndBody` waits for the nested work the
body submitted, the case the README of the package calls parent/child chains.
`LoseBody` is a body task that is cancelled before its first step: no `finally` clause
runs, so the root keeps its permit, or its place in the queue. `Losable` says which
roots this may happen to.
`max_concurrency=None` (no control) is not interesting and left out.

### StageScope and ScopeContract

`pending` is `_pending_work`; what it should count is spread over `body`, `kids`
(tasks retained through the task factory), `drain` (the active callback drain) and
`exiting` (drains that found the queue empty and have still to release). `epoch` is
the selected backend: `none`, `stage` (the carrier; it stands for the lease) or
`caller` (the loop that runs in the submitting thread). It is chosen from the
constant `Backends` whenever a scope without a backend gets work, so one scope may
use both in turn. They treat the first step of a cancelled body differently: on
the caller's loop a task cancelled by `start()` never takes its first step
(`lost`). A cancel after `start()` cannot precede the first step, since both go
through the loop's FIFO queue. On the carrier, `outer` is the handle whose code made
a nested `go()`: the task factory retains the `runner` of the nested body on it
(`nested`, given back in `RunnerGone`), and cancels the runner before its first step
if that handle is cancelled, or a handle of another Stage whose code made the call;
the body is then `lost` too. `callbacks` holds registration numbers; the kind of
a callback (success, error, finally) only decides whether it is executed or
skipped and is abstracted. Taking the errors and storing them in
`_handle_quiescent` are two critical sections of one thread with nothing to
observe in between, and are one step. A nested
`go()` is admitted to a sealed scope because the caller's context names it
(`_active_stage.get() is self`), and nothing bounds the life of a context: a raw task on
the caller's loop, a timer and a worker abandoned by a second cancellation keep it
after the handle has settled. `LeavesBehind` is that moment and `stray` remembers it;
from then on `MayGo` is always true, also after `close()` completed.

Settings say which clients are present: `LateCallbacks` (callbacks registered after
the body is over: never, outside the window between release and
`_handle_quiescent`, any time), `Lingers` (timers that outlive the body), `Strays`
(code may outlive its retained work), `LoopPauses` (the caller's loop is stopped
between runs), `Cancels`, `Timeouts`. The failure of `create_task` inside `start()`
is not modelled.

`ScopeContract` is what remains of it for the owner: work admitted and settled,
bodies with an outcome, sealed, closed, failed, and code left behind (`stray`),
which is admitted for ever and over whose work a close may complete. `StageScope`
maps its handles and adopted tasks to the contract's work (`Contract`, checked as
`ContractSpec`), for clients without late callbacks in the window and without
lingering timers. `EventEmitter` and `StageCallBridge` are written against it.

### IdleTimeout and StageStream

Time is discrete and relative: `quiet` since the last activity, `timer` until the
current timer is due. A timer that is due waits for the scope lock; cancelling it
then comes too late and leaves a `stale` callback with an old token.
`DeadlineReached` either re-arms for the rest of the interval or seals the scope
and notes the work to cancel (`doomed`), which is cancelled one by one after the
lock is dropped; work admitted under `cancelling` joins it. `calm` is history, the
interval that really passed.

In `StageStream` the consumer of the source is apart from the handle's body: for an
asynchronous source they are one task, for a synchronous one the consumer is a
worker thread which the body waits for, shielded from the first cancellation.
`StartSource`/`BindHandle` are the two halves of `_ensure_started`, during which
the source already runs; `by` is the caller that holds `_start_lock`, since code of
the scope (`OwnedCode`) may start it when it is sealed and others may not. The
second half registers the early callbacks, and raises if the scope is sealed, if
its active backend is another by now or if the loop is gone (`BindRaises`,
`Refused`). `_handle` then stays unset while the source runs, and the next caller
starts it again on the same Tunnel: the runs of the source are numbered,
`1..MaxStarts`, and everything that concerns a body or consumer is a function of
the run. `MaxActs` bounds starts, cancellations, time-outs and acts of other work
together (`Counted`). A body that is lost before its first step is in `StageScope`,
not here. Readers and source use the Tunnel as a `ReplayLog` with unbounded
history.

### Tunnel

A value is its sequence number, so `items[i] = base + i - 1` says the buffer is the
right suffix. Readers are sync or async, and several may share a subscription. A
wake-up of an async reader is three steps: `_async_waiters` is emptied and a
callback posted (`Posts`), the callback runs on the reader's loop (`Resolve`), the
reader checks again. A callback only matters for the future it was posted for, so
`Forget` drops a reader that has left its future. `setting` holds what is chosen
when the Tunnel is made (the wake mode and the loop of each reader) and never
changes. `AsyncTimeout` merges the unlocked write of `_terminated` with the discard
of the waiter: the flag is only ever set, and the reader ends in both cases.
`max_history=None` is `MaxHistory = 0`.

### EventEmitter, StageCallBridge and Clients

One event of the emitter is modelled; events share only the lock and the closed
flag. `registryLock` is the lock that an emit holds over its submissions, so
`Emit`, `EmitGo` and `EmitEnds` are separate steps which registrations and closes
cannot enter. Any of the submissions may be refused: by an open scope (no function, a
stopped loop, a carrier being sealed), which leaves the emit `raised`, or by a sealed
one, which leaves it `cut`. `onceBalance` is history: once-registrations minus those
taken or removed. A call of the bridge has an explicit
step between `_ensure_open()` and the submission. `closeLock` is
`_close_operation_lock`; a close works off `toClose` scope by scope and may give up
at each. Which path an `as_sync` call takes depends on where its caller runs: here
that is open, in `CarrierPool` it is computed. `Casts` are the programs: which
listeners, emits, calls and closes take place in one behaviour.

A close may be called by work of either component, and then waits inside that work
(`home`). A Stage refuses a close by its own work before it seals anything: that
ends an emitter's close (`misplaced`) and a bridge's at the scope in question
(`CloseRefused`), but only after the bridge's closer has the close lock, for which
it waits without a time limit. `BodyAbandoned` is a body that ends while its call
or close goes on: a blocking one cancelled twice, a coroutine in `async_close`.
Simplified are these: a body makes one call or close at a time; calls and
submissions come from listeners or from outside, not from the bridge's own work
(which a sealed scope would admit: `ScopeContract` allows for it, `StageScope`
shows it); listeners do not emit; a close blocks a worker or awaits, and never the
loop it waits for; and no code outlives its work, so that `stray` stays false.

## 3. Runs

Deadlock checking is off in all runs: a system whose clients have nothing more to
do may stop. Bounds are the sizes of the constant sets in the `.cfg` files.

| Run | Instance | Shows |
|---|---|---|
| `slot` | 3 lease epochs, 2 submissions (one may be nested in the other, one cancellable), 1 spawned and 1 unowned task, 3 generations | reservations counted; no work cut off; the seal post is safe; orderly hand-over; generations retire; submissions run |
| `admission` | 5 roots, 2 permits, queue of 2, 4 cancellable, 2 fallible, 1 that may be lost | permits counted; the queue is the waiting; work conservation; FIFO; every accepted root ends but for lost bodies (no parent/child deadlock) |
| `tunnel` | history 1, 2 puts, a sync and an async reader on one subscription, an async reader on another, 2 loops, both wake modes, one timed subscription | buffer, delivery order, no lost wake-up, a sync timeout hides nothing, refinement of `ReplayLog`, parked readers resume |
| `scope` | 2 handles, one perhaps nested in the other, and an adopted task, on either backend; a callback and a spawned task; 1 barrier, timeouts, a caller's loop that may stop, code left behind | accounting, inventory, epoch, fence, complete barriers, refinement of `ScopeContract` |
| `scope_live` | carrier, 2 handles, one perhaps nested in the other, 2 callbacks at any time on the first, a spawned task on the second, lingering timers, cancellation, 1 barrier | callbacks in order; callbacks run; barriers return; both but for lost bodies |
| `pool` | up to 4 scopes on a loop or in a worker of their opener: a root on `loop="stage"` and three bridge calls (shared or in a scope of their own), the second a root or a child of the first, the third a child of the second, the fourth a child of the third or the first; 1 or 2 lanes, up to 4 slots | no placement upstream; leased slots stay known; scopes end (one lane); escape slots retire |
| `stream` | 2 runs of the source with 1 item, another piece of work, a reader, a closer, idle timeout of 1 tick, `MaxActs` 2, sync or async source | the end is published; a close is quiet; no start without cause; no premature timeout; readers end |
| `clients` | 8 programs: two listeners, an emit and two closes; two emits and a close; a call (managed or not) and two bridge closes; two calls and a close; a call, a submit and a close; a submit and two closes; a listener that calls through the bridge with both closed | once is once; accepted emits are whole; closed is quiet; shutdown ends |
| `admission_overgrant`, `scope_lost`, `pool_crosswait`, `emitter_close` | see below | counterexamples |

Why the bounds suffice to be interesting: three lease epochs and generations let a
successor be created while another one closes, be leased again after it sealed, and
be followed itself; five roots fill two permits and a queue of two and leave one to
be rejected; a history of one with two puts evicts under a slow reader; two handles
let one settle while another is admitted, or be the caller of the other; two
callbacks let one be running, or just ended, while the other arrives; a chain of
four has a scope whose waiting ancestor is neither its opener nor its opener's
opener, and with the fourth opened by the first a scope that meets an epoch of the
shared Stage which another lineage began; an idle timeout of one tick lets an
activity fall between a timer that is due and its callback, which re-arms it; two
runs let the second start while the first still feeds the Tunnel; two closers let
one give up while the other waits for the close lock, and let two wait for each
other. Larger instances of `scope` and `clients` (a second barrier, all calls in
one program) are the same interleavings with more actors and exceed a few minutes;
for safety, the proofs of section 5 cover them.

### Where the code disagrees with its documentation

Four runs end in a counterexample. Each is a behaviour of the code that
contradicts a sentence of the package's README (quoted in `PROJECT.json`):

| Run | Behaviour |
|---|---|
| `admission_overgrant` | cancelling a queued root grants a permit nobody returned; more than `max_concurrency` roots run |
| `scope_lost` | on the caller's loop, a cancel before `start()` loses the body; `wait_settled()` never returns |
| `pool_crosswait` | two roots on different lanes that each open a synchronous scope are placed on each other's lane and wait for each other |
| `emitter_close` | a second `close()` of an emitter returns while listeners still run; a first close that was refused (called by a listener) leaves an emitter that nobody can wait for |

### Limits met while modelling

These have no run of their own. The first group is reached by changing one
setting or property of a run:

| Change | Counterexample |
|---|---|
| `AcceptedRootsEnd` without `Stuck` | a root whose body task was cancelled before its first step (Stage.py:525, _runtime.py:359) keeps its permit; once every permit is lost, the queue waits for ever |
| `GenerationsClose` in `slot.cfg` | a nested submission cancelled before its first step leaks a reservation; the generation never closes. `GenerationsRetire` leaves these generations (`Leaked`) out |
| `LeasedGenerationAdmits` in `slot.cfg` | a lease is taken on a queued successor that is already sealing (_runtime.py:201), which then refuses the scope's submissions; in `CarrierPool` a lease that was only tried leads to it (`SubmitRefused`), and `LeasedSlotKnown` claims acceptance for submitted bodies only |
| `EveryBarrierReturns` in `scope_live.cfg` | the body of a nested `go()` on the carrier is lost when its outer handle is cancelled before it starts (_runtime.py:359); `wait_settled()` never returns. `BarriersReturn` exempts scopes with a lost body, `CallbacksRun` the lost body itself |
| `ClosedIsFinal` without `~stray` | a raw task that a body left on the caller's loop, or an abandoned worker, calls `go()` in the sealed scope and is admitted (Stage.py:689), also after `close()` completed. `ScopeContract` grants it (`LeaveStray`) |
| `LateCallbacks = "any"` in `scope.cfg` | a callback registered between the last release of a handle and `_handle_quiescent` (StageHandle.py:107, Stage.py:1119) is drained by a handle that is no longer in the inventory; `wait_settled()` returns before it |
| `Lingers = TRUE` in `scope.cfg` | a task spawned by a timer of a settled handle (_runtime.py:349) is retained by the handle but not in the inventory |
| `LoopPauses = TRUE`, `LateCallbacks = "outsideWindow"`, two handles, one callback, no cancellation in `scope_lost.cfg` | a late callback refused by a stopped caller loop leaves its handle active without work (Stage.py:578); `wait_settled()` never returns |
| `NoUpstreamPlacement` without its `viaShared` premise | descendants of a call on the bridge's shared Stage inherit the blocked ids of whoever opened the shared epoch, and may be placed on a carrier that waits for them; the check in `as_sync` can also be overtaken before its submission |
| `ScopesEnd` with two lanes | the cross wait above |
| `ScopesEnd` without `SharedUpstream` | as_sync looks where the shared Stage is and finds no conflict; its epoch ends, the call begins a new one that inherits the generation whose loop the caller blocks (StageCallBridge.py:68), and waits for itself |
| `EndIsPublished` without `unmade` and `broken`, `ReadersEnd` without its source | a stream whose factory raises, or whose body is cancelled at its admission gate, never closes its Tunnel (Stage.py:913) |
| `ReadersEnd` in a sealed scope | `seal()` drops the timer, and the deadline's own cancellation is over with its epoch: a source begun in a sealed scope by code of the scope has no deadline |
| `StartedOnce` without `raised` | a scope that refuses an early callback, sealed or not (StageStream.py:51, Stage.py:574), leaves the stream without a handle while its source runs; the next reader starts the source again, on the same Tunnel, and `close()` waits for the last run only |
| `QuietAfterClose` without `abandoned` | a second cancellation of the body abandons the blocking worker (Stage.py:470), which still publishes |
| `ClosedIsQuiet` for abandoned listeners | the same cancellation settles a listener that is still inside a call of the bridge |
| `ShutdownEnds` without `Circle` | work of the bridge that calls `bridge.close()` waits for the close lock (StageCallBridge.py:252), whose holder waits for that work; likewise an emitter closed by work of the bridge that one of its listeners waits for |

For that reason `ClosedIsFinal`, `BarrierIsComplete` and `ContractSpec` are checked
for clients that register late callbacks only outside the window and leave no
timers behind; what they say of a close holds until other code has outlived its work.

The second group is visible in the actions and violates no stated property:

* an epoch begun by a late callback has no idle timer (`Revive`), and `seal()` drops
  the timer, so that a sealed scope never times out;
* a bridge close that meets a settlement error raises on every retry and never
  seals the scopes behind it (`CloseOne`); with a timeout it still waits without one
  for `_close_operation_lock` (`CloseBegins`);
* an `as_sync` call overtaken by the close raises without closing its awaitable
  (`LightGo`);
* an emit stopped by a listener that `go()` refuses has already removed its
  once-listeners (`EmitRaises`);
* an asynchronous reader's timeout ends the subscription it shares (`AsyncTimeout`);
* `Stage(loop="stage").go(f).get()` in a coroutine on the same carrier blocks that
  carrier: placement only keeps `with` scopes and bridge calls apart.

### Supporting invariants

`TypeOK` of each module, `OneLoopPerSlot`, `ReservedLoopStaysOpen`,
`UnsettledIsActive` and `NoStrandedCallback` are in no run: the runs check their
consequences. They are proved in section 5.

## 4. Fairness

Weak fairness, and only of steps that the runtime takes by itself; strong fairness
only of the first step of a body (`StageScope.StartBody`), which a loop thread that is
again and again inside `_handle_quiescent` puts off, but which has its place in the
loop's FIFO queue. Threads
inside an operation go on, loops run what is scheduled, posted callbacks run, the
control thread works off its queue. User code is assumed to end (bodies, spawned
and adopted tasks, callbacks), and scopes to return their leases: without that no
barrier could return. Nobody has to call `go()`, register, cancel, put, close,
time out or start to wait. A loop that its owner closes stops being scheduled; a
reader on it is `dead` and no property expects it to resume.

In `CarrierPool` a loop's steps are enabled only while no synchronous scope blocks
it, so fairness never assumes away a wait. In `StageStream` the clock ticks, due
timers get the lock and a posted cancellation reaches its task; the source itself
owes nothing and may never yield again: that readers end is then the idle
timeout's work. In `Clients` an emit, call or close under way proceeds, bodies
that wait for nothing end and work settles; registering, emitting, calling, closing,
giving up and abandoning a body are free choices.

## 5. Proofs

Every invariant, every action property and both refinements that a passing run
checks are proved with TLAPS, for every value of the constants that satisfies the
named assumption of the module; three of `StageScope` (`ClosedIsFinal`,
`BarrierIsComplete`, `ContractSpec`) have the further hypothesis `SettlesOnce`, see
there. Each argument has the same form: an inductive
invariant `IInv` that contains the property or implies it, one lemma or step per
action that `IInv` is kept, and a last step by temporal logic. Each `IInv` was
checked with TLC on the instance of its run before it was proved.

### Assumptions

| Assumption | Says | Why |
|---|---|---|
| `AdmissionAssumption` | finitely many roots, at least one permit | `Stage` refuses `max_concurrency < 1`; the permits are counted |
| `TunnelAssumption` | each reader has one subscription and is sync or async | the kind is the method called |
| `SlotAssumption` | finitely many submissions and tasks | reservations are counted |
| `PoolAssumption` | finitely many scopes, at least one lane and slot | `Stage.set_settings` refuses a `carrier_loop_count` below 1; a slot is made when needed |
| `ScopeAssumption` | handles are not native tasks; settings are known words | two kinds of object |
| `IdleAssumption`, `StreamAssumption` | a positive timeout; each run of the source is a piece of work; a closer is none of the other starters | `Stage` refuses `idle_timeout <= 0`; every run is a `go()` |
| `EmitterAssumption`, `BridgeAssumption`, `ClientsAssumption` | distinct names: the emitter's Stage, the bridge's two and the routed ones are different scopes; what a client submits is work | each is made by its own constructor call, a routed one per call |

The bounds of the model (`MaxLeases`, `MaxPuts`, `MaxCallbacks` and the like) are
parameters of the theorems, so nothing proved depends on their size.

### Root admission

`PermitsCounted`, `QueueIsWaiting` and `WorkConserving` support each other. The
counter stays exact only because the head of the queue holds no permit yet, which
is `QueueIsWaiting`; removing a root from the queue is exact only because no root
occurs twice. `IInv` adds `LifeCycle` (a root that has not begun, or is over, has no
admission), without which a second `go()` could overwrite a permit.
`FirstComeFirstServed` follows from `IInv` step by step: a permit goes only to the
head of what is left of the queue, and those behind it keep their order.
`ConcurrencyIsBounded` needs that nobody leaves the queue early; it is stated with
that assumption, and `admission_overgrant` shows that it is needed.

### Tunnel

`IInv` is `TypeOK`, `BufferIsSuffix`, `DeliveredInOrder` and three supporting facts: a
subscription that was not created has delivered nothing, a reader past its first
check has a subscription, and eviction happens only from a full buffer. The last
is what makes a lag report truthful in `TunnelImplementsLog`, the proof that every
step of the Tunnel is a step of `ReplayLog` or leaves it unchanged under
`count <- next`. It holds in both wake modes, since no step changes `setting`.

`WakeInv` is about parked readers: only sync readers wait on the condition and only
async ones on a future (`ReaderKinds`); a reader whose loop is closed is dead
(`LoopsLive`); a posted callback belongs to one loop (`OneLoopPerPost`), so a loop
that closes drops only wake-ups of its own readers. With these `NoLostWakeup` is
inductive. `SyncTimeoutFindsNothing` follows from `IInv`.

### Carrier slot

`IInv` is `TypeOK`, `ReservationsCounted` and three shapes. `GenerationShape` says
what a generation's state tells of its loop, counter and seal; `SlotShape` that the
control thread and its queue hold exactly the current generation and its
successor; `HoldersPlaced` that whoever holds a reservation holds it on a
generation. The difficult case is a generation that seals while still queued: it
has neither loop nor seal event and may be reserved again, so a count of zero
means the end only on a running loop. `NoWorkCutOff`, `SealPostIsSafe`,
`HandOverInOrder`, `OneLoopPerSlot` and `ReservedLoopStaysOpen` are consequences.

### Carrier pool

Two arguments. A slot that is counted on stays in the pool: lanes change only
before the settings are frozen, and an escape slot is idle only after the one
scope that selected it has had a generation there (`EscapesPrivate`). A scope is not
placed upstream: the generations that wait for it are among those it is told to
avoid, which is kept along the chain of openers (`Lineage`), and the slot it selects
holds none of them, nor will it later, because the generations a slot gets while
the scope is on its way are new ones (`Apart`). The theorem is about every client
program, any depth and any number of lanes; the runs have chains of four. A
successor is `QUEUED`, or `RETURNED` if its last lease was given back before it ran
(`SlotShape`), and it stays with the slot in both cases; a generation with an accepted
body cannot be `RETURNED`, because the body's own lease is not back.

### Stage scope

`IInv` holds for all settings: `WorkInv` (the work count, and what the place of a
body says of its drains and tasks), `EpochShape`, `CancelFence`,
`SleepersHaveWork`, `QueueShape` (run, current and queued callbacks are consecutive
registrations) and `NoStrandedCallback`. From it follow `WorkCounted`,
`EpochCoversAdmitted`, `CancelFence`, `SleepersHaveWork` and `CallbacksInOrder`.

`SettledInv` adds `UnsettledShape` (a handle with work, or whose last release the
scope has not seen, is active), `ErrorShape`, `CloserShape` and `ClosedIsFinal`,
under `SettlesOnce`: no callback is registered between a handle's last release and
the scope's reaction, and no timer outlives its handle. The rows `LateCallbacks`
and `Lingers` of the table of limits show that both halves are needed; the instance
of `scope` satisfies them. `ClosedIsFinal`, `BarrierIsComplete`,
`UnsettledIsActive` and the refinement `ImplementsContract` are proved under it,
for scopes whose code may be left behind as well: `ClosedIsFinal` holds as long as
none was, since all that may be admitted until then is retained and keeps the scope
active. In the refinement every action of the scope is an action of `ScopeContract`
or changes none of its variables; what makes a contract step of the last release is
that the handle was still active.

### Stream and idle clock

The clock needs `TimerMeansWork`: while a timer is set the scope has work, and
`_last_activity` is not older than the epoch. The stream needs what each place of
the starter, the body, the consumer and a closer says of the others (`StartShape`,
`RunShape`, `CloserShape`), for each run of the source. `StartedOnce` is
`StartShape`: while `_handle` is unset there were as many starts as refused
registrations, and one more from the start to the outcome of its registration. Runs
share the Tunnel, so what the end of one says of the Tunnel must survive the others.

### Emitter and bridge

`ClosedIsQuiet` needs to know where a routed scope may have work (`RoutedKnown`),
which scopes a close has still before it (`ClosersCover`), that all of them are
closed when it completes (`CloseKept`), and that a listener in a call of the bridge
has not ended (`CallersRun`; one that was abandoned there is no longer its caller).
That a completed scope stays empty needs that no code outlives its work there,
which is part of `ScopesSound`. `AcceptedEmitIsWhole` rests on the registry lock
(`LockGuards`), `OnceIsOnce` on `RegistryCounted`.

### Only model-checked

The liveness properties: `GenerationsRetire`, `SubmissionsRun`, `AcceptedRootsEnd`,
`ParkedReadersResume`, `BarriersReturn`, `CallbacksRun`, `ScopesEnd`, `EscapesRetire`,
`ReadersEnd`, `ShutdownEnds`. They rest on fairness, and so on ENABLED, which is out
of the prover's reach. The four counterexamples are of the instances of their runs.

## 6. Plan

Left: the composition of `StageScope` with `CarrierSlot`, the lease protocol as one
specification, and with it a cancellation that meets a closed loop in the middle
of `cancel_and_wait_settled`.

### Not modelled

* `StageHandle`: Future-style done callbacks, and the handle's own `result` and
  `wait_settled` readers (they wait for the state that `StageScope` models).
* `StageCallBridge.as_async` (an executor call without Stage state) and
  `iter_sync`/`iter_async` (scopes the bridge does not keep).
* `Events`, `StageFunction`, `StageDispatch`, `StageTask`, `StageResponse`,
  `TaskThreadPool`, `LocalTaskScope`: delegation to `Stage`, or state that no other
  part uses.
* Exceptions and the package surface (no behaviour); argument classification and
  loop-affinity messages.
* `docs/` benchmarks and comparisons: measurement scripts, no part of the system.
