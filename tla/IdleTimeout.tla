----------------------------- MODULE IdleTimeout -----------------------------
(***************************************************************************)
(* The idle clock of a Stage scope (src/agently_stage/Stage.py): one       *)
(* threading.Timer, a token that tells its callback whether it is still    *)
(* meant, and the time of the last activity.  Every action is one critical *)
(* section of _scope_lock.  Time is discrete and relative: how long ago    *)
(* the last activity was, how long the timer has to go.                    *)
(*                                                                         *)
(* A timer that is due (0) waits for the lock.  Timer.cancel() comes too   *)
(* late for it: it is then stale, and its token no longer the current one. *)
(***************************************************************************)
EXTENDS Integers, FiniteSets

CONSTANTS
    Work,      \* handles and adopted tasks of the scope
    Timeout    \* idle_timeout, in clock ticks

ASSUME IdleAssumption == Timeout \in Nat \ {0}

Off == -1      \* _idle_timer is None

VARIABLES
    active,      \* _active_handles and _adopted_tasks
    sealed,      \* _sealed
    timedOut,    \* _idle_timeout_error is set
    cancelling,  \* _cancelling, as the deadline sets it
    doomed,      \* work that a thread has still to cancel because of it
    quiet,       \* time since _last_activity, up to Timeout
    timer,       \* time the current timer has to go
    stale,       \* a due timer whose token is no longer current
    calm         \* history: time since the last activity or epoch start

idleVars == <<active, sealed, timedOut, cancelling, doomed, quiet, timer, stale, calm>>

IdleInit ==
    /\ active = {} /\ sealed = FALSE /\ timedOut = FALSE /\ cancelling = FALSE /\ doomed = {}
    /\ quiet = 0 /\ timer = Off /\ stale = FALSE /\ calm = 0

\* _touch_locked, once the scope's work is `work`
TimerAfterTouch(work) ==
    IF timer = Off /\ work # {} /\ ~sealed THEN Timeout ELSE timer
Touch(work) ==
    /\ quiet' = 0 /\ calm' = 0
    /\ timer' = TimerAfterTouch(work)

\* go() or adopt() admits work, in a sealed scope only for code of the scope;
\* go() cancels it again if the deadline has struck in this epoch.
Admit(w) ==
    /\ w \notin active
    /\ active' = active \cup {w}
    /\ doomed' = IF cancelling THEN doomed \cup {w} ELSE doomed
    /\ Touch(active')
    /\ UNCHANGED <<sealed, timedOut, cancelling, stale>>

\* A late callback makes a settled handle active again; no activity is noted.
Revive(w) ==
    /\ w \notin active
    /\ active' = active \cup {w}
    /\ calm' = IF active = {} THEN 0 ELSE calm
    /\ UNCHANGED <<sealed, timedOut, cancelling, doomed, quiet, timer, stale>>

\* _owned_activity: a body or spawned task ended, a callback ran
Activity ==
    /\ Touch(active)
    /\ UNCHANGED <<active, sealed, timedOut, cancelling, doomed, stale>>

\* Stage.tick()
StageTick ==
    /\ ~sealed /\ active # {}
    /\ Activity

\* _release_backend_if_quiescent_locked and seal() drop the timer.
DropTimer ==
    /\ timer' = Off
    /\ stale' = (stale \/ timer = 0)

\* _handle_quiescent; the last one ends the epoch.
Settle(w) ==
    /\ w \in active
    /\ active' = active \ {w}
    /\ IF active' = {} THEN DropTimer ELSE UNCHANGED <<timer, stale>>
    /\ cancelling' = (cancelling /\ active' # {})
    /\ UNCHANGED <<sealed, timedOut, doomed, quiet, calm>>

\* _adopted_task_done: the end of an adopted task is an activity.
AdoptedDone(w) ==
    /\ w \in active
    /\ active' = active \ {w}
    /\ quiet' = 0 /\ calm' = 0
    /\ IF active' = {}
         THEN DropTimer
         ELSE timer' = TimerAfterTouch(active') /\ UNCHANGED stale
    /\ cancelling' = (cancelling /\ active' # {})
    /\ UNCHANGED <<sealed, timedOut, doomed>>

Seal ==
    /\ ~sealed
    /\ sealed' = TRUE
    /\ DropTimer
    /\ UNCHANGED <<active, timedOut, cancelling, doomed, quiet, calm>>

Capped(n) == IF n < Timeout THEN n + 1 ELSE n

\* time.monotonic() advances, and the timer with it.  Without a timer nobody
\* asks for the time: the activity that sets one starts both counts anew.
ClockTick ==
    /\ timer # Off \/ stale
    /\ quiet' = Capped(quiet) /\ calm' = Capped(calm)
    /\ timer' = IF timer > 0 THEN timer - 1 ELSE timer
    /\ UNCHANGED <<active, sealed, timedOut, cancelling, doomed, stale>>

Expire ==
    /\ timedOut' = TRUE /\ sealed' = TRUE /\ cancelling' = TRUE
    /\ doomed' = active
    /\ timer' = Off

\* The deadline was pushed back: wait for the rest of it.
Rearm_Forgotten == timer' = Off
Rearm == timer' = Timeout - quiet

\* _idle_deadline_reached with the current token
DeadlineReached ==
    /\ timer = 0
    /\ IF quiet < Timeout
         THEN Rearm /\ UNCHANGED <<timedOut, sealed, cancelling, doomed>>
         ELSE Expire
    /\ UNCHANGED <<active, quiet, stale, calm>>

\* ... and with an old one, which is ignored.
StaleDeadline_Obeyed ==
    /\ stale
    /\ stale' = FALSE
    /\ IF active # {} /\ ~sealed /\ quiet >= Timeout
         THEN Expire ELSE UNCHANGED <<timedOut, sealed, cancelling, doomed, timer>>
    /\ UNCHANGED <<active, quiet, calm>>
StaleDeadline ==
    /\ stale
    /\ stale' = FALSE
    /\ UNCHANGED <<active, sealed, timedOut, cancelling, doomed, quiet, timer, calm>>

\* The deadline's thread, after it dropped the lock, cancels one by one.
CancelDoomed(w) ==
    /\ w \in doomed
    /\ doomed' = doomed \ {w}
    /\ UNCHANGED <<active, sealed, timedOut, cancelling, quiet, timer, stale, calm>>

\* The clock's part of the type invariant
IdleTypeOK ==
    /\ active \subseteq Work /\ doomed \subseteq Work
    /\ sealed \in BOOLEAN /\ timedOut \in BOOLEAN /\ cancelling \in BOOLEAN /\ stale \in BOOLEAN
    /\ quiet \in 0..Timeout /\ calm \in 0..Timeout
    /\ timer \in {Off} \cup 0..Timeout
=============================================================================
