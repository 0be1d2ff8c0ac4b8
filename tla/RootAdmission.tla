--------------------------- MODULE RootAdmission ---------------------------
(***************************************************************************)
(* Pressure control of a Stage (Stage._admit_root_locked,                  *)
(* _wait_for_admission, _finish_admission and the parts of go() that call  *)
(* them).  A root is an external Stage.go; it runs when it has one of      *)
(* max_concurrency permits, and until then its body task waits on a gate.  *)
(* A go() made by work of the same Stage is nested and needs no permit.    *)
(*                                                                         *)
(* Each critical section under _scope_lock is one action.                  *)
(***************************************************************************)
EXTENDS Integers, SequencesExt

CONSTANTS
    Roots,           \* calls of go()
    MaxConcurrency,  \* max_concurrency
    MaxPending,      \* max_pending
    Cancellable,     \* roots whose handle may be cancelled
    Fallible,        \* roots whose submission may be refused after admission
    Losable,         \* roots whose body task may be cancelled before its first step
    NoRoot           \* parent of an external root

ASSUME AdmissionAssumption ==
    /\ IsFiniteSet(Roots) /\ NoRoot \notin Roots
    /\ MaxConcurrency \in Nat \ {0} /\ MaxPending \in Nat
    /\ Cancellable \subseteq Roots /\ Fallible \subseteq Roots /\ Losable \subseteq Roots

VARIABLES
    activeRootCount,  \* Stage._active_root_count
    pending,          \* Stage._pending_admissions
    admission,        \* "none" (nested, or over), "ungranted", "granted"
    pc,               \* where the root's body is
    parent            \* the work that made a nested go()

vars == <<activeRootCount, pending, admission, pc, parent>>

Admissions == {"none", "ungranted", "granted"}
\* scheduled: go() returned, the body task has not started; waiting: on the gate;
\* lost: the task was cancelled before its first step
Locations == {"idle", "rejected", "failed", "scheduled", "waiting", "running", "finished", "lost"}
Over == {"idle", "rejected", "failed", "finished"}

Init ==
    /\ activeRootCount = 0
    /\ pending = <<>>
    /\ admission = [r \in Roots |-> "none"]
    /\ pc = [r \in Roots |-> "idle"]
    /\ parent = [r \in Roots |-> NoRoot]

-----------------------------------------------------------------------------
(* go(): admission and scheduling                                          *)

FreePermit == activeRootCount < MaxConcurrency

\* A permit at once (_IMMEDIATE_ROOT_ADMISSION) ...
AdmitNow(r) ==
    /\ FreePermit
    /\ activeRootCount' = activeRootCount + 1
    /\ admission' = [admission EXCEPT ![r] = "granted"]
    /\ UNCHANGED pending

\* ... or a gate at the end of the queue.
Enqueued_Front(r) == <<r>> \o pending
Enqueued(r) == Append(pending, r)

AdmitLater(r) ==
    /\ ~FreePermit
    /\ Len(pending) < MaxPending
    /\ pending' = Enqueued(r)
    /\ admission' = [admission EXCEPT ![r] = "ungranted"]
    /\ UNCHANGED activeRootCount

Go(r) ==
    /\ pc[r] = "idle"
    /\ AdmitNow(r) \/ AdmitLater(r)
    /\ pc' = [pc EXCEPT ![r] = "scheduled"]
    /\ UNCHANGED parent

\* StageBackpressureError
GoRejected(r) ==
    /\ pc[r] = "idle"
    /\ ~FreePermit
    /\ Len(pending) >= MaxPending
    /\ pc' = [pc EXCEPT ![r] = "rejected"]
    /\ UNCHANGED <<activeRootCount, pending, admission, parent>>

\* go() from the body or a callback of p: _active_stage is this Stage.
AdmitNested_AsRoot(r) == AdmitNow(r) \/ AdmitLater(r)
AdmitNested(r) == UNCHANGED <<activeRootCount, pending, admission>>

GoNested(r, p) ==
    /\ pc[r] = "idle"
    /\ pc[p] \in {"running", "finished"}
    /\ AdmitNested(r)
    /\ parent' = [parent EXCEPT ![r] = p]
    /\ pc' = [pc EXCEPT ![r] = "scheduled"]

-----------------------------------------------------------------------------
(***************************************************************************)
(* _finish_admission(r): give the permit back, or leave the queue, and     *)
(* then grant the head of the queue, whichever of the two r did.  The code *)
(* skips a head whose gate is already done; no gate is completed anywhere  *)
(* else, so that never happens.                                            *)
(***************************************************************************)
Returned_Never(r) == 0
Returned(r) == IF admission[r] = "granted" THEN 1 ELSE 0

QueueWithout_Stays(r) == pending
QueueWithout(r) == IF admission[r] = "ungranted" THEN RemoveFirst(pending, r) ELSE pending

MayGrant_Never(queue) == FALSE
MayGrant(queue) == queue # <<>>

FinishAdmission(r) ==
    IF admission[r] = "none" THEN UNCHANGED <<activeRootCount, pending, admission>>
    ELSE LET queue == QueueWithout(r)
         IN IF MayGrant(queue)
            THEN /\ pending' = Tail(queue)
                 /\ activeRootCount' = activeRootCount - Returned(r) + 1
                 /\ admission' = [admission EXCEPT ![r] = "none", ![Head(queue)] = "granted"]
            ELSE /\ pending' = queue
                 /\ activeRootCount' = activeRootCount - Returned(r)
                 /\ admission' = [admission EXCEPT ![r] = "none"]

\* The handle, the carrier submission or the loop start raises in go().
SubmitFails(r) ==
    /\ r \in Fallible
    /\ pc[r] = "scheduled"
    /\ pc' = [pc EXCEPT ![r] = "failed"]
    /\ FinishAdmission(r)
    /\ UNCHANGED parent

-----------------------------------------------------------------------------
(* The body task                                                           *)

\* body() reaches _wait_for_admission; only a queued admission has a gate,
\* which may have been granted by now.
StartBody(r) ==
    /\ pc[r] = "scheduled"
    /\ pc' = [pc EXCEPT ![r] = IF admission[r] = "ungranted" THEN "waiting" ELSE "running"]
    /\ UNCHANGED <<activeRootCount, pending, admission, parent>>

ResumeBody(r) ==
    /\ pc[r] = "waiting"
    /\ admission[r] = "granted"
    /\ pc' = [pc EXCEPT ![r] = "running"]
    /\ UNCHANGED <<activeRootCount, pending, admission, parent>>

(***************************************************************************)
(* A task that is cancelled before its first step never enters body(), so  *)
(* no finally clause calls _finish_admission: a permit stays taken, and a  *)
(* queued root stays queued and is granted one.  It happens on the         *)
(* caller's loop, where start() cancels the task it has just made, and on  *)
(* the carrier, when the work that submitted the body is being cancelled.  *)
(***************************************************************************)
LoseBody(r) ==
    /\ r \in Losable
    /\ pc[r] = "scheduled"
    /\ pc' = [pc EXCEPT ![r] = "lost"]
    /\ UNCHANGED <<activeRootCount, pending, admission, parent>>

\* The body ends.  The hard case is one that awaits its nested work first, for
\* ever if that is lost.
EndBody(r) ==
    /\ pc[r] = "running"
    /\ \A c \in Roots : parent[c] = r => pc[c] \in Over
    /\ pc' = [pc EXCEPT ![r] = "finished"]
    /\ FinishAdmission(r)
    /\ UNCHANGED parent

\* CancelledError in body(), on the gate or later.
CancelBody(r) ==
    /\ r \in Cancellable
    /\ pc[r] \in {"waiting", "running"}
    /\ pc' = [pc EXCEPT ![r] = "finished"]
    /\ FinishAdmission(r)
    /\ UNCHANGED parent

Next ==
    \E r \in Roots :
        \/ Go(r) \/ GoRejected(r)
        \/ \E p \in Roots : GoNested(r, p)
        \/ SubmitFails(r) \/ LoseBody(r) \/ StartBody(r) \/ ResumeBody(r)
        \/ EndBody(r) \/ CancelBody(r)

Spec == Init /\ [][Next]_vars

\* The loop runs ready tasks and bodies end; nobody has to call or cancel.
Fairness == \A r \in Roots :
    WF_vars(StartBody(r)) /\ WF_vars(ResumeBody(r)) /\ WF_vars(EndBody(r))

FairSpec == Spec /\ Fairness

-----------------------------------------------------------------------------
(* Properties                                                              *)

\* Type invariant.
TypeOK ==
    /\ activeRootCount \in Nat
    /\ pending \in Seq(Roots)
    /\ admission \in [Roots -> Admissions]
    /\ pc \in [Roots -> Locations]
    /\ parent \in [Roots -> Roots \cup {NoRoot}]

Granted == {r \in Roots : admission[r] = "granted"}

(***************************************************************************)
(* The counter is the number of roots that hold a permit and have not      *)
(* given it back, through grants, cancellations, failed submissions and    *)
(* lost bodies.  It says nothing of how many there are (ConcurrencyBound). *)
(***************************************************************************)
PermitsCounted == activeRootCount = Cardinality(Granted)

(***************************************************************************)
(* The queue holds exactly the accepted roots without a permit, each once; *)
(* so a root that left is never granted and a root that waits is never     *)
(* forgotten.                                                              *)
(***************************************************************************)
QueueIsWaiting ==
    /\ \A i, j \in 1..Len(pending) : pending[i] = pending[j] => i = j
    /\ \A r \in Roots : admission[r] = "ungranted"
                          <=> \E i \in 1..Len(pending) : pending[i] = r

(***************************************************************************)
(* Work conservation: a root waits only while every permit is in use       *)
(* (_finish_admission passes permits on; no free permit beside a queue).   *)
(***************************************************************************)
WorkConserving == pending # <<>> => activeRootCount >= MaxConcurrency

(***************************************************************************)
(* README.md: max_concurrency bounds concurrently running external go()    *)
(* roots.                                                                  *)
(***************************************************************************)
ConcurrencyBound ==
    Cardinality({r \in Roots : pc[r] = "running" /\ parent[r] = NoRoot}) <= MaxConcurrency

(***************************************************************************)
(* First come, first served: when a queued root is granted, every root     *)
(* that queued before it has been granted or has left, and a root that     *)
(* joins the queue is behind all those that stay.                          *)
(***************************************************************************)
FirstComeFirstServed ==
    [][/\ \A i, j \in 1..Len(pending) :
             i < j /\ admission'[pending[j]] = "granted"
                => admission'[pending[i]] # "ungranted"
       /\ \A i \in 1..Len(pending), j, k \in 1..Len(pending') :
             pending'[k] = pending[i] /\ (\A m \in 1..Len(pending) : pending[m] # pending'[j])
                => k < j]_vars

\* Roots that cannot end by themselves: lost ones, and those above them.
Above(q) ==
    {r \in Roots : \A S \in SUBSET Roots :
        q \in S /\ (\A c \in S : parent[c] \in S \cup {NoRoot}) => r \in S}
Stuck == UNION {Above(q) : q \in {r \in Roots : pc[r] = "lost"}}

(***************************************************************************)
(* Every accepted root ends, nested work included: with one permit a       *)
(* parent that awaits its nested go() does not deadlock (README.md).  Only *)
(* lost bodies keep a root from it: its own, one that it awaits, or those  *)
(* that have taken every permit while it waits.                            *)
(***************************************************************************)
AcceptedRootsEnd ==
    \A r \in Roots :
        pc[r] = "scheduled" ~>
            \/ pc[r] \in {"failed", "finished"} \/ r \in Stuck
            \/ admission[r] = "ungranted" /\ Granted \subseteq Stuck
=============================================================================
