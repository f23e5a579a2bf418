----------------------------- MODULE RunVerdict -----------------------------
(***************************************************************************)
(* What a run of apiarist promises, whatever order its checks finish in: a *)
(* set of checks is chosen once, each of them ends once in some way, and   *)
(* only when all of them have ended is a verdict announced, once:          *)
(* "completed" exactly when every check passed.  CheckRunner implements    *)
(* this with tasks awaited one by one, a flag and a lock-protected record. *)
(***************************************************************************)
EXTENDS Naturals

CONSTANT Task

VARIABLES planned, outcome, verdict

vars == <<planned, outcome, verdict>>

Outcome == {"passed", "failed", "error", "panic"}

Init ==
    /\ planned = {}
    /\ outcome = [t \in Task |-> "pending"]
    /\ verdict = "running"

Plan ==
    /\ planned = {}
    /\ planned' \in (SUBSET Task) \ {{}}
    /\ UNCHANGED <<outcome, verdict>>

Finish(t) ==
    /\ t \in planned
    /\ outcome[t] = "pending"
    /\ \E o \in Outcome : outcome' = [outcome EXCEPT ![t] = o]
    /\ UNCHANGED <<planned, verdict>>

Announce ==
    /\ planned # {}
    /\ verdict = "running"
    /\ \A t \in planned : outcome[t] # "pending"
    /\ verdict' = IF \A t \in planned : outcome[t] = "passed"
                  THEN "completed" ELSE "failed"
    /\ UNCHANGED <<planned, outcome>>

Next == Plan \/ Announce \/ \E t \in Task : Finish(t)

Fairness == WF_vars(Announce) /\ \A t \in Task : WF_vars(Finish(t))

SafetySpec == Init /\ [][Next]_vars

Spec == SafetySpec /\ Fairness
=============================================================================
