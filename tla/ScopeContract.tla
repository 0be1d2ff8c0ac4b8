--------------------------- MODULE ScopeContract ---------------------------
(***************************************************************************)
(* What a Stage scope promises to the code that owns it                    *)
(* (src/agently_stage/Stage.py): it admits work until it is sealed, and    *)
(* after that only from code of its own; the body of a piece of work has   *)
(* an outcome before the work settles; and close() completes only when the *)
(* scope is sealed and nothing is left, so that a completed close is       *)
(* final.  Code of the scope that outlives the work it belonged to keeps   *)
(* the right to be admitted, and the last promise ends there.              *)
(*                                                                         *)
(* StageScope implements this specification (its property ContractSpec);   *)
(* EventEmitter and StageCallBridge are written on top of it.              *)
(***************************************************************************)
CONSTANTS Scopes, Work

VARIABLE scope

ScopeState ==
    [sealed : BOOLEAN,         \* seal() or close() was called
     closed : BOOLEAN,         \* close() completed
     failed : BOOLEAN,         \* settlement errors, raised by every barrier
     work : SUBSET Work,       \* unsettled work
     running : SUBSET Work,    \* ... whose body has no outcome yet
     stray : BOOLEAN]          \* code of the scope has outlived its work

Fresh == [sealed |-> FALSE, closed |-> FALSE, failed |-> FALSE, work |-> {}, running |-> {}, stray |-> FALSE]

ContractInit == scope = [s \in Scopes |-> Fresh]

\* A body, task or callback leaves code behind that has the scope's context.
LeaveStray(s) ==
    /\ scope[s].work # {}
    /\ scope' = [scope EXCEPT ![s].stray = TRUE]

\* go(), create_task(), adopt(), or a callback registered late; the last two
\* have no body of their own.
Open(s) == ~scope[s].sealed

Admit(s, x, runs) ==
    /\ Open(s) \/ scope[s].work # {} \/ scope[s].stray
    /\ x \notin scope[s].work
    /\ scope' = [scope EXCEPT ![s].work = @ \cup {x},
                              ![s].running = IF runs THEN @ \cup {x} ELSE @]

\* The body returns, raises, is cancelled, or is never submitted.
Outcome(s, x) ==
    /\ x \in scope[s].running
    /\ scope' = [scope EXCEPT ![s].running = @ \ {x}]

\* The last retained task and callback of the work is over.
Settle(s, x, bad) ==
    /\ x \in scope[s].work \ scope[s].running
    /\ scope' = [scope EXCEPT ![s].work = @ \ {x}, ![s].failed = @ \/ bad]

SealScope(s) == scope' = [scope EXCEPT ![s].sealed = TRUE]

MayComplete(s) == scope[s].sealed /\ (scope[s].work = {} \/ scope[s].stray)

Complete(s) ==
    /\ MayComplete(s)
    /\ scope' = [scope EXCEPT ![s].closed = TRUE]

ContractNext ==
    \E s \in Scopes :
        \/ \E x \in Work :
              \/ \E runs \in BOOLEAN : Admit(s, x, runs)
              \/ Outcome(s, x)
              \/ \E bad \in BOOLEAN : Settle(s, x, bad)
        \/ LeaveStray(s)
        \/ SealScope(s)
        \/ Complete(s)

\* The premise says nothing new; it lets TLC dismiss the stutters first.
ContractSpec == ContractInit /\ [][scope' # scope => ContractNext]_scope
=============================================================================
