------------------------- MODULE StageStream_proofs -------------------------
(***************************************************************************)
(* Proofs about a stream and the idle clock of its scope, for every timeout*)
(* and any number of starts, readers, closers, items and other work.       *)
(*                                                                         *)
(* The clock needs one strengthening: while a timer is set the scope has   *)
(* work, and _last_activity is not older than the epoch (TimerMeansWork).  *)
(* The stream needs to know what each stage of the body says of the        *)
(* consumer, and each stage of the consumer of the Tunnel.                 *)
(***************************************************************************)
EXTENDS StageStream, TLAPS

TimerMeansWork == timer # Off => active # {} /\ quiet = calm

IdleInv == IdleTypeOK /\ TimerMeansWork

StreamType ==
    /\ terminal \in {"open", "closed", "failed"}
    /\ count \in 0..MaxItems /\ source \in {"async", "sync"}
    /\ lazyCb \in BOOLEAN /\ bound \in {"no", "yes"} \cup Starters
    /\ started \in 0..MaxStarts /\ raised \in 0..MaxStarts
    /\ handle \in [Runs -> HandleStates] /\ consumer \in [Runs -> ConsumerStates]
    /\ ending \in [Runs -> {"none", "ok", "error", "cancelled"}]
    /\ outcome \in [Runs -> {"none", "ok", "error", "cancelled", "abandoned"}]
    /\ cancelAsked \in [Runs -> BOOLEAN] /\ stop \in BOOLEAN /\ closed \in BOOLEAN
    /\ closer \in [Closers -> {"idle", "first", "again", "waiting", "returned"}]
    /\ acts \in 0..MaxActs

\* Every start but the last one, or every one while _handle is unset, has raised.
StartShape ==
    /\ started = (IF bound = "no" THEN raised ELSE raised + 1)
    /\ \A i \in Runs : handle[i] = "none" <=> i > started

\* What the progress of a run's body says of its consumer and its outcome.
BodyAt(i) ==
    /\ handle[i] \in {"none", "gated"} => consumer[i] = "unmade"
    /\ handle[i] \in {"none", "gated", "running", "shielded"} => outcome[i] = "none"
    /\ handle[i] \in {"running", "shielded"} => consumer[i] # "unmade"
    /\ handle[i] \in {"done", "settled"} =>
          outcome[i] # "none" /\ (consumer[i] \in {"unmade", "broken", "over"} \/ outcome[i] = "abandoned")

\* What the progress of its consumer says of the Tunnel.
TunnelAt(i) ==
    /\ consumer[i] \in {"unmade", "fetching"} => ending[i] = "none"
    /\ consumer[i] = "broken" => ending[i] = "error"
    /\ consumer[i] \in {"closing", "over"} => ending[i] # "none"
    /\ consumer[i] = "over" => terminal # "open"
    /\ consumer[i] = "closing" /\ ending[i] # "ok" => terminal # "open"

\* ... and more, while there is no other run.
AloneAt(i) ==
    handle[i] # "none" =>
        /\ consumer[i] \in {"unmade", "fetching"} => terminal = "open"
        /\ consumer[i] = "closing" /\ ending[i] = "ok" => terminal \in {"open", "closed"}
        /\ consumer[i] = "over" /\ ending[i] = "ok" => terminal = "closed"

EndAt(i) ==
    handle[i] \in {"done", "settled"} /\ consumer[i] \notin {"unmade", "broken"} =>
        /\ outcome[i] = "ok" => terminal = "closed" \/ (started > 1 /\ terminal = "failed")
        /\ outcome[i] \in {"error", "cancelled"} => terminal # "open"

RunShape ==
    /\ \A i \in Runs : BodyAt(i) /\ TunnelAt(i) /\ EndAt(i)
    /\ started = 0 => terminal = "open"
    /\ started <= 1 => \A i \in Runs : AloneAt(i)

\* A closer waits, and has waited when it returns, for the run _handle stands for.
CloserShape ==
    \A c \in Closers :
        /\ closer[c] \in {"waiting", "returned"} => bound = "yes"
        /\ closer[c] = "returned" => handle[started] \in {"done", "settled"}

StreamInv == StreamType /\ StartShape /\ RunShape /\ CloserShape

IInv == IdleInv /\ StreamInv

-----------------------------------------------------------------------------
(* The idle clock                                                          *)

\* What a step does to the clock.
IdleStep ==
    \/ \E w \in Work : Admit(w) \/ Revive(w) \/ Settle(w) \/ AdoptedDone(w) \/ CancelDoomed(w)
    \/ Activity \/ StageTick \/ Seal \/ ClockTick \/ DeadlineReached \/ StaleDeadline
    \/ UNCHANGED idleVars

\* An activity gives a scope with work a timer, and starts both clocks anew.
LEMMA TouchKeeps ==
    ASSUME IdleInv, NEW work, Touch(work), active' = work, work \subseteq Work,
           timer # Off => work # {},
           doomed' \subseteq Work, UNCHANGED <<sealed, timedOut, cancelling, stale>>
    PROVE  IdleInv'
<1> USE IdleAssumption
<1>1. quiet' = 0 /\ calm' = 0 /\ timer' = IF timer = Off /\ work # {} /\ ~sealed THEN Timeout ELSE timer
  BY DEF Touch, TimerAfterTouch
<1>2. IdleTypeOK'
  BY <1>1 DEF IdleInv, IdleTypeOK, Off
<1>3. TimerMeansWork'
  BY <1>1 DEF IdleInv, TimerMeansWork, Off
<1> QED BY <1>2, <1>3 DEF IdleInv

\* Every step keeps the clock's invariant, unseals nothing, and times a scope
\* out only when it has been quiet for long enough.
LEMMA IdleKept ==
    ASSUME IdleInv, IdleStep
    PROVE  /\ IdleInv'
           /\ sealed => sealed'
           /\ timedOut' # timedOut => calm = Timeout /\ active # {}
<1> USE IdleAssumption
<1>0. /\ active \subseteq Work /\ doomed \subseteq Work
      /\ sealed \in BOOLEAN /\ timedOut \in BOOLEAN /\ cancelling \in BOOLEAN /\ stale \in BOOLEAN
      /\ quiet \in 0..Timeout /\ calm \in 0..Timeout
      /\ timer \in {Off} \cup 0..Timeout
      /\ timer # Off => active # {} /\ quiet = calm
  BY DEF IdleInv, IdleTypeOK, TimerMeansWork
<1>1. ASSUME NEW w \in Work, Admit(w) PROVE IdleInv' /\ UNCHANGED <<sealed, timedOut>>
  <2>1. /\ active' = active \cup {w} /\ Touch(active')
        /\ doomed' = (IF cancelling THEN doomed \cup {w} ELSE doomed)
        /\ UNCHANGED <<sealed, timedOut, cancelling, stale>>
    BY <1>1 DEF Admit
  <2>2. active' \subseteq Work /\ active' # {}
    BY <2>1, <1>0
  <2>3. Touch(active \cup {w}) /\ active \cup {w} \subseteq Work /\ active \cup {w} # {}
        /\ doomed' \subseteq Work
    BY <2>1, <2>2, <1>0
  <2> QED BY <2>1, <2>3, TouchKeeps
<1>2. ASSUME NEW w \in Work, Revive(w) PROVE IdleInv' /\ UNCHANGED <<sealed, timedOut>>
  <2>1. /\ active' = active \cup {w} /\ calm' = IF active = {} THEN 0 ELSE calm
        /\ UNCHANGED <<sealed, timedOut, cancelling, doomed, quiet, timer, stale>>
    BY <1>2 DEF Revive
  <2>2. IdleTypeOK'
    BY <2>1, <1>0 DEF IdleTypeOK
  <2>3. TimerMeansWork'
    BY <2>1, <1>0 DEF TimerMeansWork
  <2> QED BY <2>1, <2>2, <2>3 DEF IdleInv
<1>3. ASSUME NEW w \in Work, Settle(w) PROVE IdleInv' /\ UNCHANGED <<sealed, timedOut>>
  <2>1. /\ active' = active \ {w} /\ UNCHANGED <<sealed, timedOut, doomed, quiet, calm>>
        /\ cancelling' = (cancelling /\ active' # {})
        /\ IF active' = {} THEN timer' = Off /\ stale' = (stale \/ timer = 0) ELSE UNCHANGED <<timer, stale>>
    BY <1>3 DEF Settle, DropTimer
  <2>2. timer' = timer \/ timer' = Off
    BY <2>1
  <2>3. stale' \in BOOLEAN /\ cancelling' \in BOOLEAN
    BY <2>1, <1>0
  <2>4. IdleTypeOK'
    BY <2>1, <2>2, <2>3, <1>0 DEF IdleTypeOK
  <2>5. TimerMeansWork'
    BY <2>1, <1>0 DEF TimerMeansWork
  <2> QED BY <2>1, <2>4, <2>5 DEF IdleInv
<1>4. ASSUME NEW w \in Work, AdoptedDone(w) PROVE IdleInv' /\ UNCHANGED <<sealed, timedOut>>
  <2>1. /\ active' = active \ {w} /\ quiet' = 0 /\ calm' = 0 /\ UNCHANGED <<sealed, timedOut, doomed>>
        /\ cancelling' = (cancelling /\ active' # {})
    BY <1>4 DEF AdoptedDone
  <2>2. CASE active' = {}
    <3>1. timer' = Off /\ stale' = (stale \/ timer = 0)
      BY <1>4, <2>2 DEF AdoptedDone, DropTimer
    <3>2. stale' \in BOOLEAN /\ cancelling' \in BOOLEAN
      BY <2>1, <3>1, <1>0
    <3>3. IdleTypeOK'
      BY <2>1, <3>1, <3>2, <1>0 DEF IdleTypeOK
    <3>4. TimerMeansWork'
      BY <3>1 DEF TimerMeansWork
    <3> QED BY <2>1, <3>3, <3>4 DEF IdleInv
  <2>3. CASE active' # {}
    <3>1. Touch(active \ {w}) /\ UNCHANGED stale
      BY <1>4, <2>1, <2>3 DEF AdoptedDone, Touch
    <3>2. active \ {w} \subseteq Work /\ active \ {w} # {} /\ cancelling' = cancelling
      BY <2>1, <2>3, <1>0
    <3> QED BY <2>1, <3>1, <3>2, <1>0, TouchKeeps
  <2> QED BY <2>2, <2>3
<1>5. ASSUME NEW w \in Work, CancelDoomed(w) PROVE IdleInv' /\ UNCHANGED <<sealed, timedOut>>
  BY <1>5, <1>0 DEF CancelDoomed, IdleInv, IdleTypeOK, TimerMeansWork
<1>6. CASE Activity \/ StageTick
  <2>1. Touch(active) /\ UNCHANGED <<active, sealed, timedOut, cancelling, doomed, stale>>
    BY <1>6 DEF Activity, StageTick
  <2> QED BY <2>1, <1>0, TouchKeeps
<1>7. CASE Seal
  <2>1. /\ sealed' = TRUE /\ timer' = Off /\ stale' = (stale \/ timer = 0)
        /\ UNCHANGED <<active, timedOut, cancelling, doomed, quiet, calm>>
    BY <1>7 DEF Seal, DropTimer
  <2>2. stale' \in BOOLEAN
    BY <2>1, <1>0
  <2>3. IdleTypeOK'
    BY <2>1, <2>2, <1>0 DEF IdleTypeOK
  <2>4. TimerMeansWork'
    BY <2>1 DEF TimerMeansWork
  <2> QED BY <2>1, <2>3, <2>4 DEF IdleInv
<1>8. CASE ClockTick
  <2>1. /\ quiet' = Capped(quiet) /\ calm' = Capped(calm)
        /\ timer' = IF timer > 0 THEN timer - 1 ELSE timer
        /\ UNCHANGED <<active, sealed, timedOut, cancelling, doomed, stale>>
    BY <1>8 DEF ClockTick
  <2>2. quiet' \in 0..Timeout /\ calm' \in 0..Timeout
    BY <2>1, <1>0 DEF Capped
  <2>3. timer' \in {Off} \cup 0..Timeout /\ (timer' # Off => timer # Off)
    BY <2>1, <1>0 DEF Off
  <2>4. IdleTypeOK'
    BY <2>1, <2>2, <2>3, <1>0 DEF IdleTypeOK
  <2>5. TimerMeansWork'
    BY <2>1, <2>3, <1>0 DEF TimerMeansWork
  <2> QED BY <2>1, <2>4, <2>5 DEF IdleInv
<1>9. CASE DeadlineReached
  <2>1. timer = 0 /\ timer # Off /\ UNCHANGED <<active, quiet, stale, calm>>
    BY <1>9 DEF DeadlineReached, Off
  <2>2. CASE quiet < Timeout
    <3>1. timer' = Timeout - quiet /\ UNCHANGED <<timedOut, sealed, cancelling, doomed>>
      BY <1>9, <2>2 DEF DeadlineReached, Rearm
    <3>2. timer' \in 0..Timeout
      BY <3>1, <1>0
    <3>3. IdleTypeOK'
      BY <2>1, <3>1, <3>2, <1>0 DEF IdleTypeOK
    <3>4. TimerMeansWork'
      BY <2>1, <1>0 DEF TimerMeansWork
    <3> QED BY <3>1, <3>3, <3>4 DEF IdleInv
  <2>3. CASE ~(quiet < Timeout)
    <3>1. timedOut' = TRUE /\ sealed' = TRUE /\ cancelling' = TRUE /\ doomed' = active /\ timer' = Off
      BY <1>9, <2>3 DEF DeadlineReached, Expire
    <3>2. calm = Timeout /\ active # {}
      BY <2>1, <2>3, <1>0
    <3>3. IdleTypeOK'
      BY <2>1, <3>1, <1>0 DEF IdleTypeOK
    <3>4. TimerMeansWork'
      BY <3>1 DEF TimerMeansWork
    <3> QED BY <3>1, <3>2, <3>3, <3>4 DEF IdleInv
  <2> QED BY <2>2, <2>3
<1>10. CASE StaleDeadline
  BY <1>10, <1>0 DEF StaleDeadline, IdleInv, IdleTypeOK, TimerMeansWork
<1>11. CASE UNCHANGED idleVars
  BY <1>11, <1>0 DEF idleVars, IdleInv, IdleTypeOK, TimerMeansWork
<1> QED BY <1>1, <1>2, <1>3, <1>4, <1>5, <1>6, <1>7, <1>8, <1>9, <1>10, <1>11 DEF IdleStep

\* Runs are pieces of the scope's work.
LEMMA RunsAreWork == ASSUME NEW i \in Runs PROVE i \in Work
BY StreamAssumption

\* Every step of the stream and of its scope is one of the clock.
LEMMA StepsTheClock == IInv /\ [Next]_vars => IdleStep
<1> SUFFICES ASSUME IInv, [Next]_vars PROVE IdleStep
  OBVIOUS
<1>0. started \in 0..MaxStarts /\ raised \in Nat /\ started = (IF bound = "no" THEN raised ELSE raised + 1)
  BY StreamAssumption DEF IInv, StreamInv, StreamType, StartShape
<1>1. ASSUME NEW by \in Starters, StartSource(by) PROVE IdleStep
  <2>1. started + 1 \in Runs /\ Admit(started + 1)
    BY <1>0, <1>1, StreamAssumption DEF StartSource, Runs
  <2>2. started + 1 \in Work
    BY <2>1, RunsAreWork
  <2> QED BY <2>1, <2>2 DEF IdleStep
<1>2. CASE BindHandle \/ BindRaises
  <2>1. started \in Runs
    BY <1>0, <1>2, StreamAssumption DEF BindHandle, BindRaises, Runs, Starters
  <2>2. Revive(started) \/ UNCHANGED idleVars
    BY <1>2 DEF BindHandle, BindRaises, Refused, idleVars
  <2>3. started \in Work
    BY <2>1, RunsAreWork
  <2> QED BY <2>2, <2>3 DEF IdleStep
<1>3. CASE RegisterEarly
  BY <1>3 DEF RegisterEarly, IdleStep
<1>4. ASSUME NEW i \in Runs, BodySteps(i) PROVE IdleStep
  <2>1. i \in Work
    BY RunsAreWork
  <2>2. Settle(i) \/ Activity \/ UNCHANGED idleVars
    BY <1>4 DEF BodySteps, BodyBegins, BodyDone, CancelledAtGate, CancelArrives, CancelShielded,
                CancelAbandons, BodyEnds, HandleSettles, idleVars
  <2> QED BY <2>1, <2>2 DEF IdleStep
<1>5. ASSUME NEW i \in Runs, SourceSteps(i) \/ HandleCancelled(i) PROVE IdleStep
  BY <1>5 DEF SourceSteps, Yields, Exhausted, SourceRaises, HandleCancelled, IdleStep
<1>6. CASE \E i \in Runs, ok \in BOOLEAN : SourceClosed(i, ok)
  BY <1>6 DEF SourceClosed, IdleStep
<1>7. CASE \E r \in Readers : Iterate(r) \/ Reads(r)
  BY <1>7 DEF Iterate, Reads, IdleStep
<1>8. CASE \E c \in Closers : CloseBegins(c) \/ CloseSteps(c) \/ CloseTimesOut(c)
  BY <1>8 DEF CloseBegins, CloseSteps, CloseCancels, CloseRaises, CloseReturns, CloseTimesOut, IdleStep
<1>9. CASE \E w \in Work : OtherAdmitted(w) \/ OtherRevived(w) \/ OtherDone(w) \/ DeadlineCancels(w)
  BY <1>9 DEF OtherAdmitted, OtherRevived, OtherDone, DeadlineCancels, IdleStep
<1>10. CASE OtherTicks \/ ScopeSealed \/ Clock \/ Deadline
  BY <1>10 DEF OtherTicks, ScopeSealed, Clock, Deadline, IdleStep
<1>11. CASE UNCHANGED vars
  BY <1>11 DEF vars, IdleStep
<1> QED BY <1>1, <1>2, <1>3, <1>4, <1>5, <1>6, <1>7, <1>8, <1>9, <1>10, <1>11 DEF Next

-----------------------------------------------------------------------------
(* The stream                                                              *)

\* A Tunnel ends once, and keeps its first ending.
LEMMA TerminateFacts ==
    ASSUME NEW how \in {"closed", "failed"}, Terminate(how)
    PROVE  count' = count /\ terminal' = IF terminal = "open" THEN how ELSE terminal
BY DEF Terminate, Log!Terminate, logVars

\* The kinds of starters are apart from the two values of a settled _handle.
LEMMA StartersApart == "no" \notin Starters /\ "yes" \notin Starters
BY StreamAssumption DEF Starters

\* What the steps of one run leave alone.
Aside == UNCHANGED <<source, startVars, closeVars, acts>>

\* A step of one run: it ends the Tunnel at most once, and what is known of the
\* other runs stays known.
LEMMA RunStep ==
    ASSUME IInv, NEW i \in Runs, handle[i] # "none", handle'[i] # "none",
           UNCHANGED <<source, lazyCb, started, raised, bound, closer, acts>>,
           stop' \in BOOLEAN, closed' \in BOOLEAN, count' \in 0..MaxItems,
           terminal' = terminal \/ (terminal = "open" /\ terminal' \in {"closed", "failed"}),
           \E h \in HandleStates : handle' = [handle EXCEPT ![i] = h],
           \E k \in ConsumerStates : consumer' = [consumer EXCEPT ![i] = k],
           \E e \in {"none", "ok", "error", "cancelled"} : ending' = [ending EXCEPT ![i] = e],
           \E o \in {"none", "ok", "error", "cancelled", "abandoned"} : outcome' = [outcome EXCEPT ![i] = o],
           cancelAsked' \in [Runs -> BOOLEAN],
           handle[i] \in {"done", "settled"} => handle'[i] \in {"done", "settled"},
           BodyAt(i)', TunnelAt(i)', EndAt(i)', started = 1 => AloneAt(i)'
    PROVE  StreamInv'
<1>0. StreamType /\ StartShape /\ RunShape /\ CloserShape
  BY DEF IInv, StreamInv
<1>1. PICK h \in HandleStates : handle' = [handle EXCEPT ![i] = h]
  OBVIOUS
<1>2. PICK k \in ConsumerStates : consumer' = [consumer EXCEPT ![i] = k]
  OBVIOUS
<1>3. PICK e \in {"none", "ok", "error", "cancelled"} : ending' = [ending EXCEPT ![i] = e]
  OBVIOUS
<1>4. PICK o \in {"none", "ok", "error", "cancelled", "abandoned"} : outcome' = [outcome EXCEPT ![i] = o]
  OBVIOUS
<1>5. StreamType'
  <2>1. /\ handle' \in [Runs -> HandleStates] /\ consumer' \in [Runs -> ConsumerStates]
        /\ ending' \in [Runs -> {"none", "ok", "error", "cancelled"}]
        /\ outcome' \in [Runs -> {"none", "ok", "error", "cancelled", "abandoned"}]
    BY <1>0, <1>1, <1>2, <1>3, <1>4 DEF StreamType
  <2>2. terminal' \in {"open", "closed", "failed"}
    BY <1>0 DEF StreamType
  <2> QED BY <1>0, <2>1, <2>2 DEF StreamType
<1>6. \A j \in Runs : j # i => /\ handle'[j] = handle[j] /\ consumer'[j] = consumer[j]
                               /\ ending'[j] = ending[j] /\ outcome'[j] = outcome[j]
  BY <1>0, <1>1, <1>2, <1>3, <1>4 DEF StreamType
<1>7. StartShape'
  <2>1. \A j \in Runs : handle'[j] = "none" <=> handle[j] = "none"
    BY <1>6
  <2> QED BY <1>0, <2>1 DEF StartShape
<1>8. RunShape'
  <2>1. ASSUME NEW j \in Runs PROVE BodyAt(j)' /\ TunnelAt(j)' /\ EndAt(j)'
    <3>1. CASE j # i
      <4>1. BodyAt(j) /\ TunnelAt(j) /\ EndAt(j)
        BY <1>0 DEF RunShape
      <4>2. BodyAt(j)'
        BY <3>1, <4>1, <1>6 DEF BodyAt
      <4>3. TunnelAt(j)'
        BY <3>1, <4>1, <1>6 DEF TunnelAt
      <4>4. EndAt(j)'
        BY <3>1, <4>1, <1>6 DEF EndAt
      <4> QED BY <4>2, <4>3, <4>4
    <3> QED BY <3>1
  <2>2. i <= started /\ i \in Nat /\ i >= 1 /\ started \in Nat
    BY <1>0, StreamAssumption DEF StartShape, StreamType, Runs
  <2>3. started' = 0 => terminal' = "open"
    BY <2>2
  <2>4. ASSUME started' <= 1, NEW j \in Runs PROVE AloneAt(j)'
    <3>1. started = 1
      BY <2>2, <2>4
    <3>2. CASE j # i
      <4>1. j > started
        BY <3>1, <3>2, <2>2, StreamAssumption DEF Runs
      <4>2. handle'[j] = "none"
        BY <1>0, <1>6, <3>2, <4>1 DEF StartShape
      <4> QED BY <4>2 DEF AloneAt
    <3> QED BY <3>1, <3>2
  <2> QED BY <2>1, <2>3, <2>4 DEF RunShape
<1>9. CloserShape'
  <2>1. started \in Runs => (handle[started] \in {"done", "settled"} => handle'[started] \in {"done", "settled"})
    BY <1>6
  <2>2. bound = "yes" => started \in Runs
    BY <1>0, StreamAssumption DEF StartShape, StreamType, Runs
  <2> QED BY <1>0, <2>1, <2>2 DEF CloserShape
<1> QED BY <1>5, <1>7, <1>8, <1>9 DEF StreamInv

\* The body and the consumer of a run: one end of the source, published once.
LEMMA BodyKept ==
    ASSUME IInv, NEW i \in Runs,
           BodySteps(i) \/ SourceSteps(i) \/ \E ok \in BOOLEAN : SourceClosed(i, ok)
    PROVE  StreamInv'
<1> DEFINE h == handle[i]
           k == consumer[i]
           e == ending[i]
           o == outcome[i]
<1>0. /\ StreamType /\ BodyAt(i) /\ TunnelAt(i) /\ EndAt(i) /\ (started <= 1 => AloneAt(i))
      /\ h \in HandleStates /\ k \in ConsumerStates /\ started \in Nat
      /\ e \in {"none", "ok", "error", "cancelled"}
      /\ o \in {"none", "ok", "error", "cancelled", "abandoned"}
      /\ terminal \in {"open", "closed", "failed"}
  BY StreamAssumption DEF IInv, StreamInv, StreamType, RunShape
<1>1. ASSUME NEW h2 \in HandleStates \ {"none"}, NEW k2 \in ConsumerStates,
             NEW e2 \in {"none", "ok", "error", "cancelled"},
             NEW o2 \in {"none", "ok", "error", "cancelled", "abandoned"},
             h # "none", h \in {"done", "settled"} => h2 \in {"done", "settled"},
             handle' = [handle EXCEPT ![i] = h2], consumer' = [consumer EXCEPT ![i] = k2],
             ending' = [ending EXCEPT ![i] = e2], outcome' = [outcome EXCEPT ![i] = o2],
             cancelAsked' \in [Runs -> BOOLEAN], count' \in 0..MaxItems, Aside,
             terminal' = terminal \/ (terminal = "open" /\ terminal' \in {"closed", "failed"}),
             h2 = "gated" => k2 = "unmade",
             h2 \in {"gated", "running", "shielded"} => o2 = "none",
             h2 \in {"running", "shielded"} => k2 # "unmade",
             h2 \in {"done", "settled"} =>
                o2 # "none" /\ (k2 \in {"unmade", "broken", "over"} \/ o2 = "abandoned"),
             k2 \in {"unmade", "fetching"} => e2 = "none",
             k2 = "broken" => e2 = "error",
             k2 \in {"closing", "over"} => e2 # "none",
             k2 = "over" => terminal' # "open",
             k2 = "closing" /\ e2 # "ok" => terminal' # "open",
             h2 \in {"done", "settled"} /\ k2 \notin {"unmade", "broken"} =>
                /\ o2 = "ok" => terminal' = "closed" \/ (started > 1 /\ terminal' = "failed")
                /\ o2 \in {"error", "cancelled"} => terminal' # "open",
             started = 1 =>
                /\ k2 \in {"unmade", "fetching"} => terminal' = "open"
                /\ k2 = "closing" /\ e2 = "ok" => terminal' \in {"open", "closed"}
                /\ k2 = "over" /\ e2 = "ok" => terminal' = "closed"
      PROVE  StreamInv'
  <2>1. handle'[i] = h2 /\ consumer'[i] = k2 /\ ending'[i] = e2 /\ outcome'[i] = o2
    BY <1>0, <1>1 DEF StreamType
  <2>2. /\ UNCHANGED <<source, lazyCb, started, raised, bound, closer, acts>>
        /\ stop' \in BOOLEAN /\ closed' \in BOOLEAN
    BY <1>0, <1>1 DEF Aside, startVars, closeVars, StreamType
  <2>3. BodyAt(i)' /\ TunnelAt(i)' /\ EndAt(i)' /\ (started = 1 => AloneAt(i)')
    <3>1. BodyAt(i)'
      BY <1>1, <2>1 DEF BodyAt
    <3>2. TunnelAt(i)'
      BY <1>1, <2>1 DEF TunnelAt
    <3>3. EndAt(i)'
      BY <1>1, <2>1, <2>2 DEF EndAt
    <3>4. started = 1 => AloneAt(i)'
      BY <1>1, <2>1 DEF AloneAt
    <3> QED BY <3>1, <3>2, <3>3, <3>4
  <2>4. handle'[i] # "none" /\ (handle[i] \in {"done", "settled"} => handle'[i] \in {"done", "settled"})
    BY <1>1, <2>1
  <2> QED BY <1>1, <2>2, <2>3, <2>4, RunStep
<1>2. /\ handle = [handle EXCEPT ![i] = h] /\ consumer = [consumer EXCEPT ![i] = k]
      /\ ending = [ending EXCEPT ![i] = e] /\ outcome = [outcome EXCEPT ![i] = o]
  BY <1>0 DEF StreamType
<1>3. (CancelTaken(i) \/ cancelAsked' = cancelAsked) => cancelAsked' \in [Runs -> BOOLEAN]
  BY <1>0 DEF CancelTaken, StreamType
<1>4. count \in 0..MaxItems
  BY <1>0 DEF StreamType
<1> HIDE DEF h, k, e, o
<1>5. CASE BodyBegins(i)
  <2>1. /\ h = "gated" /\ handle' = [handle EXCEPT ![i] = "running"] /\ outcome' = outcome
        /\ cancelAsked' = cancelAsked /\ Aside
    BY <1>5 DEF BodyBegins, HandleTo, Aside, h
  <2>2. k = "unmade" /\ o = "none" /\ e = "none" /\ (started = 1 => terminal = "open")
    BY <1>0, <2>1 DEF BodyAt, TunnelAt, AloneAt, h, k, e, o
  <2>3. CASE ConsumerTo(i, "broken") /\ EndsAs(i, "error") /\ UNCHANGED logVars
    <3>1. /\ consumer' = [consumer EXCEPT ![i] = "broken"] /\ ending' = [ending EXCEPT ![i] = "error"]
          /\ count' = count /\ terminal' = terminal
      BY <2>3 DEF ConsumerTo, EndsAs, logVars
    <3> QED BY <1>2, <1>3, <1>4, <2>1, <2>2, <3>1, <1>1 DEF HandleStates, ConsumerStates
  <2>4. CASE ConsumerTo(i, "fetching") /\ UNCHANGED <<ending, logVars>>
    <3>1. /\ consumer' = [consumer EXCEPT ![i] = "fetching"] /\ ending' = [ending EXCEPT ![i] = "none"]
          /\ count' = count /\ terminal' = terminal
      BY <1>2, <2>2, <2>4 DEF ConsumerTo, logVars
    <3> QED BY <1>2, <1>3, <1>4, <2>1, <2>2, <3>1, <1>1 DEF HandleStates, ConsumerStates
  <2>5. CASE Terminate("closed") /\ ConsumerTo(i, "closing") /\ EndsAs(i, "ok")
    <3>1. /\ consumer' = [consumer EXCEPT ![i] = "closing"] /\ ending' = [ending EXCEPT ![i] = "ok"]
          /\ count' = count /\ terminal' = IF terminal = "open" THEN "closed" ELSE terminal
      BY <2>5, TerminateFacts DEF ConsumerTo, EndsAs
    <3> QED BY <1>0, <1>2, <1>3, <1>4, <2>1, <2>2, <3>1, <1>1 DEF HandleStates, ConsumerStates
  <2> QED BY <1>5, <2>3, <2>4, <2>5 DEF BodyBegins
<1>6. CASE CancelledAtGate(i)
  <2>1. /\ h = "gated" /\ handle' = [handle EXCEPT ![i] = "done"]
        /\ outcome' = [outcome EXCEPT ![i] = "cancelled"] /\ CancelTaken(i)
        /\ UNCHANGED <<count, terminal, consumer, ending>> /\ Aside
    BY <1>6 DEF CancelledAtGate, BodyDone, HandleTo, Aside, h, logVars, sourceVars
  <2>2. k = "unmade" /\ e = "none" /\ (started = 1 => terminal = "open")
    BY <1>0, <2>1 DEF BodyAt, TunnelAt, AloneAt, h, k, e
  <2> QED BY <1>2, <1>3, <1>4, <2>1, <2>2, <1>1 DEF HandleStates, ConsumerStates
<1>7. CASE CancelArrives(i)
  <2>1. /\ h = "running" /\ k \in {"fetching", "closing"} /\ handle' = handle /\ outcome' = outcome
        /\ consumer' = [consumer EXCEPT ![i] = IF k = "fetching" THEN "closing" ELSE "over"]
        /\ ending' = [ending EXCEPT ![i] = "cancelled"] /\ CancelTaken(i) /\ Aside
        /\ Terminate(IF k = "fetching" THEN "closed" ELSE "failed")
    BY <1>7 DEF CancelArrives, CancelEnds, ConsumerTo, EndsAs, Aside, h, k
  <2>2. /\ count' = count
        /\ terminal' = IF terminal # "open" THEN terminal ELSE IF k = "fetching" THEN "closed" ELSE "failed"
    BY <2>1, TerminateFacts
  <2>3. o = "none"
    BY <1>0, <2>1 DEF BodyAt, h, o
  <2> QED BY <1>0, <1>2, <1>3, <1>4, <2>1, <2>2, <2>3, <1>1 DEF HandleStates, ConsumerStates
<1>8. CASE CancelShielded(i) \/ CancelAbandons(i)
  <2>1. /\ CancelTaken(i) /\ UNCHANGED <<count, terminal, consumer, ending>> /\ Aside
        /\ k \in {"fetching", "closing", "broken"}
        /\ \/ h = "running" /\ handle' = [handle EXCEPT ![i] = "shielded"] /\ outcome' = outcome
           \/ /\ h = "shielded" /\ handle' = [handle EXCEPT ![i] = "done"]
              /\ outcome' = [outcome EXCEPT ![i] = "abandoned"]
    BY <1>8 DEF CancelShielded, CancelReachesWaiting, CancelAbandons, BodyDone, HandleTo, Aside, h, k,
                logVars, sourceVars
  <2>2. /\ o = "none"
        /\ k = "fetching" => e = "none" /\ (started = 1 => terminal = "open")
        /\ k = "broken" => e = "error"
        /\ k = "closing" => e # "none" /\ (e # "ok" => terminal # "open")
        /\ k = "closing" /\ e = "ok" /\ started = 1 => terminal \in {"open", "closed"}
    BY <1>0, <2>1 DEF BodyAt, TunnelAt, AloneAt, h, k, e, o
  <2> QED BY <1>0, <1>2, <1>3, <1>4, <2>1, <2>2, <1>1 DEF HandleStates, ConsumerStates
<1>9. CASE BodyEnds(i)
  <2>1. /\ h \in {"running", "shielded"} /\ k \in {"over", "broken"}
        /\ handle' = [handle EXCEPT ![i] = "done"]
        /\ outcome' = [outcome EXCEPT ![i] = IF h = "shielded" /\ e = "ok" THEN "cancelled" ELSE e]
        /\ CancelTaken(i) /\ UNCHANGED <<count, terminal, consumer, ending>> /\ Aside
    BY <1>9 DEF BodyEnds, BodyDone, HandleTo, Aside, h, k, e, logVars, sourceVars
  <2>2. /\ e \in {"ok", "error", "cancelled"}
        /\ k = "broken" => e = "error"
        /\ k = "over" => terminal # "open"
        /\ k = "over" /\ e = "ok" /\ started = 1 => terminal = "closed"
        /\ started >= 1
    BY <1>0, <2>1, StreamAssumption DEF TunnelAt, AloneAt, h, k, e, IInv, StreamInv, StartShape, Runs
  <2> DEFINE o2 == IF h = "shielded" /\ e = "ok" THEN "cancelled" ELSE e
  <2>3. /\ o2 \in {"ok", "error", "cancelled"} /\ outcome' = [outcome EXCEPT ![i] = o2]
        /\ k = "over" /\ o2 = "ok" => terminal = "closed" \/ (started > 1 /\ terminal = "failed")
    <3>1. k = "over" /\ e = "ok" => terminal = "closed" \/ (started > 1 /\ terminal = "failed")
      BY <1>0, <2>2
    <3> QED BY <2>1, <2>2, <3>1
  <2> HIDE DEF o2
  <2>4. /\ consumer' = [consumer EXCEPT ![i] = k] /\ ending' = [ending EXCEPT ![i] = e]
        /\ count' = count /\ terminal' = terminal /\ cancelAsked' \in [Runs -> BOOLEAN] /\ Aside
    BY <1>2, <1>3, <2>1
  <2> QED BY <1>0, <1>4, <2>1, <2>2, <2>3, <2>4, <1>1 DEF HandleStates, ConsumerStates
<1>10. CASE HandleSettles(i)
  <2>1. /\ h = "done" /\ handle' = [handle EXCEPT ![i] = "settled"]
        /\ UNCHANGED <<count, terminal, consumer, ending, outcome, cancelAsked>> /\ Aside
    BY <1>10 DEF HandleSettles, HandleTo, Aside, h, logVars, sourceVars
  <2>2. BodyAt(i) /\ TunnelAt(i) /\ EndAt(i) /\ (started = 1 => AloneAt(i))
    BY <1>0
  <2>3. /\ o # "none" /\ (k \in {"unmade", "broken", "over"} \/ o = "abandoned")
        /\ k \in {"unmade", "fetching"} => e = "none"
        /\ k = "broken" => e = "error"
        /\ k \in {"closing", "over"} => e # "none"
        /\ k = "over" => terminal # "open"
        /\ k = "closing" /\ e # "ok" => terminal # "open"
        /\ k \notin {"unmade", "broken"} =>
              /\ o = "ok" => terminal = "closed" \/ (started > 1 /\ terminal = "failed")
              /\ o \in {"error", "cancelled"} => terminal # "open"
        /\ started = 1 =>
              /\ k \in {"unmade", "fetching"} => terminal = "open"
              /\ k = "closing" /\ e = "ok" => terminal \in {"open", "closed"}
              /\ k = "over" /\ e = "ok" => terminal = "closed"
    BY <2>1, <2>2 DEF BodyAt, TunnelAt, EndAt, AloneAt, h, k, e, o
  <2> QED BY <1>0, <1>2, <1>3, <1>4, <2>1, <2>3, <1>1 DEF HandleStates, ConsumerStates
<1>11. CASE SourceSteps(i)
  <2>1. /\ k = "fetching" /\ UNCHANGED <<handle, outcome, cancelAsked>> /\ Aside
        /\ count' \in 0..MaxItems
        /\ \/ consumer' = consumer /\ ending' = ending /\ terminal' = terminal
           \/ /\ consumer' = [consumer EXCEPT ![i] = "closing"] /\ ending' = [ending EXCEPT ![i] = "ok"]
              /\ terminal' = terminal
           \/ /\ consumer' = [consumer EXCEPT ![i] = "closing"] /\ ending' = [ending EXCEPT ![i] = "error"]
              /\ terminal' = IF terminal = "open" THEN "failed" ELSE terminal
    <3>1. CASE Yields(i)
      <4>1. /\ k = "fetching" /\ count' = count + 1 /\ count < MaxItems /\ terminal' = terminal
            /\ UNCHANGED <<handle, outcome, cancelAsked>> /\ Aside
            /\ consumer' = [consumer EXCEPT ![i] = IF stop THEN "closing" ELSE "fetching"]
            /\ ending' = [ending EXCEPT ![i] = IF stop THEN "ok" ELSE ending[i]]
        BY <3>1 DEF Yields, Accept, Log!Accept, ConsumerTo, EndsAs, bodyVars, Aside, k
      <4>2. ~stop => consumer' = consumer /\ ending' = ending
        BY <1>2, <4>1 DEF k, e
      <4>3. stop => /\ consumer' = [consumer EXCEPT ![i] = "closing"]
                    /\ ending' = [ending EXCEPT ![i] = "ok"]
        BY <4>1
      <4>4. stop \in BOOLEAN /\ count' \in 0..MaxItems
        BY <1>0, <1>4, <4>1, StreamAssumption DEF StreamType
      <4> QED BY <4>1, <4>2, <4>3, <4>4
    <3>2. CASE Exhausted(i)
      BY <1>4, <3>2 DEF Exhausted, ConsumerTo, EndsAs, logVars, bodyVars, Aside, k
    <3>3. CASE SourceRaises(i)
      BY <1>4, <3>3, TerminateFacts DEF SourceRaises, ConsumerTo, EndsAs, bodyVars, Aside, k
    <3> QED BY <1>11, <3>1, <3>2, <3>3 DEF SourceSteps
  <2>2. /\ e = "none" /\ (started = 1 /\ h # "none" => terminal = "open") /\ h \notin {"none", "gated"}
        /\ h \in {"running", "shielded"} => o = "none"
        /\ h \in {"done", "settled"} => o = "abandoned"
    BY <1>0, <2>1 DEF BodyAt, TunnelAt, AloneAt, h, k, e, o
  <2> QED BY <1>0, <1>2, <1>3, <2>1, <2>2, <1>1 DEF HandleStates, ConsumerStates
<1>12. ASSUME NEW ok \in BOOLEAN, SourceClosed(i, ok) PROVE StreamInv'
  <2>1. /\ k = "closing" /\ UNCHANGED <<handle, outcome, cancelAsked>> /\ Aside /\ PublishEnd(i, ok)
        /\ consumer' = [consumer EXCEPT ![i] = "over"]
        /\ ending' = [ending EXCEPT ![i] = IF ok THEN e ELSE "error"]
    BY <1>12 DEF SourceClosed, ConsumerTo, EndsAs, bodyVars, Aside, k, e
  <2>2. /\ count' = count
        /\ terminal' = IF terminal # "open" THEN terminal
                       ELSE IF ~ok THEN "failed" ELSE IF e = "ok" THEN "closed" ELSE terminal
    BY <2>1, TerminateFacts DEF PublishEnd, logVars, e
  <2>3. /\ e # "none" /\ (e # "ok" => terminal # "open") /\ h \notin {"none", "gated"}
        /\ (started = 1 /\ e = "ok" => terminal \in {"open", "closed"})
        /\ h \in {"running", "shielded"} => o = "none"
        /\ h \in {"done", "settled"} => o = "abandoned"
    BY <1>0, <2>1 DEF BodyAt, TunnelAt, AloneAt, h, k, e, o
  <2> QED BY <1>0, <1>2, <1>3, <1>4, <2>1, <2>2, <2>3, <1>1 DEF HandleStates, ConsumerStates
<1> QED BY <1>5, <1>6, <1>7, <1>8, <1>9, <1>10, <1>11, <1>12 DEF BodySteps

\* Starting binds _handle, or counts as one more registration that raised.
LEMMA StartKept ==
    ASSUME IInv,
           (\E by \in Starters : StartSource(by)) \/ BindHandle \/ BindRaises \/ RegisterEarly
    PROVE  StreamInv'
<1>0. /\ StreamType /\ StartShape /\ RunShape /\ CloserShape
      /\ started \in Nat /\ raised \in Nat
  BY StreamAssumption DEF IInv, StreamInv, StreamType
<1>1. ASSUME NEW by \in Starters, StartSource(by) PROVE StreamInv'
  <2>1. /\ bound = "no" /\ started < MaxStarts /\ started' = started + 1 /\ bound' \in Starters \cup {"yes"}
        /\ handle' = [handle EXCEPT ![started + 1] = "gated"]
        /\ UNCHANGED <<count, terminal, source, consumer, ending, lazyCb, raised, outcome, cancelAsked,
                       stop, closed, closer, acts>>
    BY <1>1 DEF StartSource, MayStart, HandleTo, logVars, sourceVars, closeVars
  <2>2. started + 1 \in Runs /\ started = raised /\ bound' # "no"
    BY <1>0, <2>1, StreamAssumption, StartersApart DEF Runs, StartShape
  <2>3. \A j \in Runs : j # started + 1 => handle'[j] = handle[j]
    BY <1>0, <2>1 DEF StreamType
  <2>4. handle'[started + 1] = "gated" /\ handle[started + 1] = "none"
    BY <1>0, <2>1, <2>2 DEF StreamType, StartShape
  <2>5. StreamType'
    <3>1. handle' \in [Runs -> HandleStates]
      BY <1>0, <2>1 DEF StreamType, HandleStates
    <3>2. started' \in 0..MaxStarts /\ bound' \in {"no", "yes"} \cup Starters
      BY <1>0, <2>1, StreamAssumption
    <3> QED BY <1>0, <2>1, <3>1, <3>2 DEF StreamType
  <2>6. StartShape'
    <3>1. ASSUME NEW j \in Runs PROVE handle'[j] = "none" <=> j > started'
      <4>1. j \in Nat
        BY StreamAssumption DEF Runs
      <4>2. handle[j] = "none" <=> j > started
        BY <1>0 DEF StartShape
      <4> QED BY <1>0, <2>1, <2>3, <2>4, <4>1, <4>2
    <3> QED BY <1>0, <2>1, <2>2, <3>1 DEF StartShape
  <2>7. RunShape'
    <3>1. ASSUME NEW j \in Runs PROVE BodyAt(j)' /\ TunnelAt(j)' /\ EndAt(j)'
      <4>1. BodyAt(j) /\ TunnelAt(j) /\ EndAt(j)
        BY <1>0 DEF RunShape
      <4>2. BodyAt(j)'
        BY <4>1, <2>1, <2>3, <2>4 DEF BodyAt
      <4>3. TunnelAt(j)'
        BY <4>1, <2>1 DEF TunnelAt
      <4>4. EndAt(j)'
        BY <1>0, <4>1, <2>1, <2>3, <2>4 DEF EndAt
      <4> QED BY <4>2, <4>3, <4>4
    <3>2. ASSUME started' <= 1, NEW j \in Runs PROVE AloneAt(j)'
      <4>1. started = 0 /\ terminal = "open"
        BY <1>0, <2>1, <3>2 DEF RunShape
      <4>2. handle[j] = "none"
        BY <1>0, <4>1, StreamAssumption DEF StartShape, Runs
      <4>3. consumer[j] = "unmade"
        BY <1>0, <4>2 DEF RunShape, BodyAt
      <4> QED BY <2>1, <4>1, <4>3 DEF AloneAt
    <3>3. started' # 0
      BY <1>0, <2>1
    <3> QED BY <3>1, <3>2, <3>3 DEF RunShape
  <2>8. CloserShape'
    BY <1>0, <2>1 DEF CloserShape
  <2> QED BY <2>5, <2>6, <2>7, <2>8 DEF StreamInv
<1>2. CASE BindHandle
  <2>1. /\ bound \in Starters /\ bound' = "yes" /\ lazyCb' = FALSE
        /\ UNCHANGED <<count, terminal, source, consumer, ending, started, raised, outcome, cancelAsked,
                       stop, closed, closer, acts>>
        /\ \/ handle' = handle
           \/ handle[started] = "settled" /\ handle' = [handle EXCEPT ![started] = "done"]
    BY <1>2 DEF BindHandle, HandleTo, logVars, sourceVars, closeVars
  <2>2. bound # "no" /\ bound # "yes" /\ started \in Runs
    BY <1>0, <2>1, StartersApart, StreamAssumption DEF StartShape, StreamType, Runs
  <2>3. \A j \in Runs : \/ handle'[j] = handle[j]
                        \/ handle[j] = "settled" /\ handle'[j] = "done"
    BY <1>0, <2>1, <2>2 DEF StreamType
  <2>4. StreamType'
    <3>1. handle' \in [Runs -> HandleStates]
      BY <1>0, <2>1 DEF StreamType, HandleStates
    <3>2. lazyCb' \in BOOLEAN /\ bound' \in {"no", "yes"} \cup Starters
      BY <2>1
    <3> QED BY <1>0, <2>1, <3>1, <3>2 DEF StreamType
  <2>5. StartShape'
    BY <1>0, <2>1, <2>2, <2>3 DEF StartShape
  <2>6. RunShape'
    <3>1. ASSUME NEW j \in Runs PROVE BodyAt(j)' /\ TunnelAt(j)' /\ EndAt(j)'
      <4>1. BodyAt(j) /\ TunnelAt(j) /\ EndAt(j)
        BY <1>0 DEF RunShape
      <4> QED BY <4>1, <2>1, <2>3 DEF BodyAt, TunnelAt, EndAt
    <3>2. ASSUME started' <= 1, NEW j \in Runs PROVE AloneAt(j)'
      <4>1. AloneAt(j)
        BY <1>0, <2>1, <3>2 DEF RunShape
      <4> QED BY <4>1, <2>1, <2>3 DEF AloneAt
    <3> QED BY <1>0, <2>1, <3>1, <3>2 DEF RunShape
  <2>7. CloserShape'
    BY <1>0, <2>1, <2>2 DEF CloserShape
  <2> QED BY <2>4, <2>5, <2>6, <2>7 DEF StreamInv
<1>3. CASE BindRaises
  <2>1. /\ bound \in Starters /\ bound' = "no" /\ raised' = raised + 1
        /\ UNCHANGED <<count, terminal, source, consumer, ending, lazyCb, started, handle, outcome, cancelAsked,
                       stop, closed, acts>>
        /\ closer' = closer \/ closer' = [closer EXCEPT ![bound] = "idle"]
    BY <1>3 DEF BindRaises, logVars, sourceVars, bodyVars
  <2>2. bound # "no" /\ bound # "yes" /\ started = raised + 1
    BY <1>0, <2>1, StartersApart DEF StartShape
  <2>3. \A c \in Closers : closer[c] \notin {"waiting", "returned"} /\ closer'[c] \notin {"waiting", "returned"}
    BY <1>0, <2>1, <2>2 DEF CloserShape, StreamType
  <2>4. StreamType'
    <3>1. closer' \in [Closers -> {"idle", "first", "again", "waiting", "returned"}]
      BY <1>0, <2>1 DEF StreamType
    <3>2. raised' \in 0..MaxStarts
      BY <1>0, <2>1, <2>2, StreamAssumption DEF StreamType
    <3> QED BY <1>0, <2>1, <3>1, <3>2 DEF StreamType
  <2>5. StartShape'
    BY <1>0, <2>1, <2>2 DEF StartShape
  <2>6. RunShape'
    BY <1>0, <2>1 DEF RunShape, BodyAt, TunnelAt, EndAt, AloneAt
  <2>7. CloserShape'
    BY <2>3 DEF CloserShape
  <2> QED BY <2>4, <2>5, <2>6, <2>7 DEF StreamInv
<1>4. CASE RegisterEarly
  <2>1. /\ lazyCb' = TRUE
        /\ UNCHANGED <<count, terminal, source, consumer, ending, started, raised, bound, handle, outcome,
                       cancelAsked, stop, closed, closer, acts>>
    BY <1>4 DEF RegisterEarly, logVars, sourceVars, bodyVars, closeVars
  <2>2. StreamType' /\ StartShape' /\ CloserShape'
    BY <1>0, <2>1 DEF StreamType, StartShape, CloserShape
  <2>3. RunShape'
    BY <1>0, <2>1 DEF RunShape, BodyAt, TunnelAt, EndAt, AloneAt
  <2> QED BY <2>2, <2>3 DEF StreamInv
<1> QED BY <1>1, <1>2, <1>3, <1>4

\* close() and what is asked of the stream from outside.
LEMMA ClosersKept ==
    ASSUME IInv, UNCHANGED <<source, consumer, ending, startVars, handle, outcome>>,
           count' = count, terminal' = terminal,
           cancelAsked' \in [Runs -> BOOLEAN], stop' \in BOOLEAN, closed' \in BOOLEAN,
           acts' \in 0..MaxActs,
           closer' \in [Closers -> {"idle", "first", "again", "waiting", "returned"}],
           CloserShape'
    PROVE  StreamInv'
<1>1. StreamType' /\ StartShape'
  BY DEF IInv, StreamInv, StreamType, StartShape, startVars
<1>2. RunShape'
  BY DEF IInv, StreamInv, RunShape, BodyAt, TunnelAt, EndAt, AloneAt, startVars
<1> QED BY <1>1, <1>2 DEF StreamInv

\* A cancellation only marks the run.
LEMMA AskFacts ==
    ASSUME IInv, NEW i \in Runs, AskCancel(i)
    PROVE  cancelAsked' \in [Runs -> BOOLEAN]
<1>1. cancelAsked \in [Runs -> BOOLEAN]
  BY DEF IInv, StreamInv, StreamType
<1>2. PICK b : b = (cancelAsked[i] \/ handle[i] \in Cancellable)
  OBVIOUS
<1>3. b \in BOOLEAN
  BY <1>2, Zenon
<1>4. cancelAsked' = [cancelAsked EXCEPT ![i] = b]
  BY <1>2, Zenon DEF AskCancel
<1> QED BY <1>1, <1>3, <1>4

LEMMA CountedFacts ==
    ASSUME IInv, Counted
    PROVE  acts' \in 0..MaxActs
BY StreamAssumption DEF Counted, IInv, StreamInv, StreamType

LEMMA StreamKept == IInv /\ [Next]_vars => StreamInv'
<1> SUFFICES ASSUME IInv, [Next]_vars PROVE StreamInv'
  OBVIOUS
<1>0. /\ StreamType /\ StartShape /\ RunShape /\ CloserShape
      /\ bound # "no" => started \in Runs
  BY StreamAssumption DEF IInv, StreamInv, StreamType, StartShape, Runs
<1>1. CASE (\E by \in Starters : StartSource(by)) \/ BindHandle \/ BindRaises \/ RegisterEarly
  BY <1>1, StartKept
<1>2. ASSUME NEW i \in Runs,
             BodySteps(i) \/ SourceSteps(i) \/ \E ok \in BOOLEAN : SourceClosed(i, ok)
      PROVE  StreamInv'
  BY <1>2, BodyKept
<1>3. ASSUME NEW r \in Readers, Iterate(r) \/ Reads(r) PROVE StreamInv'
  <2>1. UNCHANGED <<sourceVars, startVars, bodyVars, closeVars, acts, count, terminal>>
    BY <1>3 DEF Iterate, Reads, Log!Subscribe, Log!Deliver, Log!End
  <2>2. CloserShape'
    BY <1>0, <2>1 DEF CloserShape, closeVars, bodyVars, startVars
  <2> QED BY <1>0, <2>1, <2>2, ClosersKept DEF sourceVars, bodyVars, closeVars, StreamType
<1>4. ASSUME NEW c \in Closers, CloseBegins(c) \/ CloseSteps(c) \/ CloseTimesOut(c) PROVE StreamInv'
  <2>1. /\ UNCHANGED <<logVars, sourceVars, startVars, handle, outcome>>
        /\ \E st \in {"idle", "first", "again", "waiting", "returned"} :
              /\ closer' = [closer EXCEPT ![c] = st]
              /\ st = "waiting" => bound = "yes"
              /\ st = "returned" => closer[c] = "waiting" /\ handle[started] = "settled"
    BY <1>4 DEF CloseBegins, CloseSteps, CloseCancels, CloseRaises, CloseReturns, CloseTimesOut, CloserTo,
                bodyVars
  <2>2. cancelAsked' \in [Runs -> BOOLEAN] /\ stop' \in BOOLEAN /\ closed' \in BOOLEAN
    <3>1. CASE CloseCancels(c)
      <4>1. UNCHANGED <<stop, closed>> /\ (cancelAsked' = cancelAsked \/ AskCancel(started)) /\ started \in Runs
        BY <1>0, <3>1 DEF CloseCancels
      <4> QED BY <1>0, <4>1, AskFacts DEF StreamType
    <3>2. CASE CloseBegins(c)
      BY <1>0, <3>2 DEF CloseBegins, bodyVars, StreamType
    <3>3. CASE CloseRaises(c) \/ CloseReturns(c) \/ CloseTimesOut(c)
      BY <1>0, <3>3 DEF CloseRaises, CloseReturns, CloseTimesOut, bodyVars, StreamType
    <3> QED BY <1>4, <3>1, <3>2, <3>3 DEF CloseSteps
  <2>3. acts' \in 0..MaxActs
    BY <1>0, <1>4, CountedFacts DEF CloseBegins, CloseSteps, CloseCancels, CloseRaises, CloseReturns,
                                    CloseTimesOut, StreamType
  <2>4. closer' \in [Closers -> {"idle", "first", "again", "waiting", "returned"}]
    BY <1>0, <2>1 DEF StreamType
  <2>5. CloserShape'
    <3>1. PICK st \in {"idle", "first", "again", "waiting", "returned"} :
              /\ closer' = [closer EXCEPT ![c] = st]
              /\ st = "waiting" => bound = "yes"
              /\ st = "returned" => closer[c] = "waiting" /\ handle[started] = "settled"
      BY <2>1
    <3> QED BY <1>0, <2>1, <3>1 DEF CloserShape, StreamType, startVars
  <2> QED BY <2>1, <2>2, <2>3, <2>4, <2>5, ClosersKept DEF logVars, sourceVars
<1>5. CASE \/ \E w \in Work : OtherAdmitted(w) \/ OtherRevived(w) \/ OtherDone(w) \/ DeadlineCancels(w)
           \/ \E i \in Runs : HandleCancelled(i)
           \/ OtherTicks \/ ScopeSealed \/ Clock \/ Deadline
  <2>1. /\ UNCHANGED <<logVars, sourceVars, startVars, handle, outcome, closeVars>>
        /\ cancelAsked' = cancelAsked \/ \E i \in Runs : AskCancel(i)
        /\ acts' = acts \/ Counted
    BY <1>5 DEF OtherAdmitted, OtherRevived, OtherDone, DeadlineCancels, OtherTicks, ScopeSealed,
                HandleCancelled, Clock, Deadline, Rest, bodyVars
  <2>2. cancelAsked' \in [Runs -> BOOLEAN] /\ acts' \in 0..MaxActs
    BY <1>0, <2>1, AskFacts, CountedFacts DEF StreamType
  <2>3. CloserShape'
    BY <1>0, <2>1 DEF CloserShape, closeVars, startVars
  <2> QED BY <1>0, <2>1, <2>2, <2>3, ClosersKept DEF logVars, sourceVars, closeVars, StreamType
<1>6. CASE UNCHANGED vars
  <2>1. CloserShape'
    BY <1>0, <1>6 DEF vars, closeVars, startVars, bodyVars, CloserShape
  <2> QED BY <1>0, <1>6, <2>1, ClosersKept
          DEF vars, logVars, sourceVars, startVars, bodyVars, closeVars, StreamType
<1> QED BY <1>1, <1>2, <1>3, <1>4, <1>5, <1>6 DEF Next

-----------------------------------------------------------------------------
(* The theorems                                                            *)

LEMMA InitEstablishes == Init => IInv
<1> SUFFICES ASSUME Init PROVE IInv
  OBVIOUS
<1> USE IdleAssumption, StreamAssumption
<1>1. IdleInv
  <2>1. sealed \in BOOLEAN /\ timedOut \in BOOLEAN /\ cancelling \in BOOLEAN /\ stale \in BOOLEAN
    BY Zenon DEF Init, IdleInit
  <2>2. active = {} /\ doomed = {} /\ quiet = 0 /\ calm = 0 /\ timer = Off
    BY DEF Init, IdleInit
  <2> QED BY <2>1, <2>2 DEF IdleInv, IdleTypeOK, TimerMeansWork
<1>2. /\ count = 0 /\ terminal = "open" /\ source \in {"async", "sync"} /\ bound = "no"
      /\ started = 0 /\ raised = 0 /\ acts = 0 /\ closer = [c \in Closers |-> "idle"]
      /\ handle = [i \in Runs |-> "none"] /\ outcome = [i \in Runs |-> "none"]
      /\ consumer = [i \in Runs |-> "unmade"] /\ ending = [i \in Runs |-> "none"]
  BY DEF Init, Log!Init
<1>3. StreamType
  <2>1. lazyCb \in BOOLEAN /\ stop \in BOOLEAN /\ closed \in BOOLEAN /\ cancelAsked \in [Runs -> BOOLEAN]
    BY Zenon DEF Init
  <2> QED BY <1>2, <2>1 DEF StreamType, HandleStates, ConsumerStates
<1>4. StartShape /\ RunShape /\ CloserShape
  BY <1>2 DEF StartShape, RunShape, BodyAt, TunnelAt, EndAt, AloneAt, CloserShape, Runs
<1> QED BY <1>1, <1>3, <1>4 DEF IInv, StreamInv

\* The inductive invariant holds in every reachable state.
THEOREM Invariance == Spec => []IInv
<1>1. IInv /\ [Next]_vars => IInv'
  BY StepsTheClock, IdleKept, StreamKept DEF IInv
<1> QED BY InitEstablishes, <1>1, PTL DEF Spec

\* Every variable keeps its type, and no counter leaves its bound.
THEOREM TypeCorrect == Spec => []TypeOK
<1>1. IInv => TypeOK
  BY DEF IInv, IdleInv, StreamInv, StreamType, TypeOK
<1> QED BY Invariance, <1>1, PTL

\* _ensure_started starts the source once, whoever asks: readers, callbacks
\* that waited for it, close(); and again only after each registration of those
\* callbacks that raised, be the scope sealed or not.
THEOREM StartsOnce == Spec => []StartedOnce
<1>1. IInv => StartedOnce
  <2> SUFFICES ASSUME IInv PROVE started <= 1 + raised
    BY DEF StartedOnce
  <2>1. raised \in Nat /\ started = (IF bound = "no" THEN raised ELSE raised + 1)
    BY StreamAssumption DEF IInv, StreamInv, StreamType, StartShape
  <2> QED BY <2>1
<1> QED BY Invariance, <1>1, PTL

\* A body that has ended has ended the Tunnel as its outcome says, whichever of
\* the source, its close() and the cancellation came first.
THEOREM EndGetsPublished == Spec => []EndIsPublished
<1>1. IInv => EndIsPublished
  BY DEF IInv, StreamInv, RunShape, EndAt, EndIsPublished
<1> QED BY Invariance, <1>1, PTL

\* A close() that has returned leaves no consumer of its run behind, unless a
\* blocking one was abandoned by a second cancellation.
THEOREM CloseLeavesQuiet == Spec => []QuietAfterClose
<1>1. IInv => QuietAfterClose
  <2> SUFFICES ASSUME IInv, NEW c \in Closers, closer[c] = "returned", outcome[started] # "abandoned"
               PROVE  consumer[started] \in {"unmade", "broken", "over"}
    BY DEF QuietAfterClose
  <2>1. started \in Runs /\ handle[started] \in {"done", "settled"}
    BY StreamAssumption DEF IInv, StreamInv, StreamType, StartShape, CloserShape, Runs
  <2> QED BY <2>1 DEF IInv, StreamInv, RunShape, BodyAt
<1> QED BY Invariance, <1>1, PTL

\* The idle timeout strikes only a scope with work that has been quiet for the
\* whole idle_timeout: no stale timer, late touch or new epoch cuts it short.
THEOREM TimeoutIsNotPremature == Spec => NoPrematureTimeout
<1>1. IInv /\ [Next]_vars => [timedOut' # timedOut => calm = Timeout /\ active # {}]_vars
  BY StepsTheClock, IdleKept DEF IInv
<1> QED BY Invariance, <1>1, PTL DEF Spec, NoPrematureTimeout
=============================================================================
