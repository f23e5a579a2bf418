-------------------------- MODULE ConcurrentTasks --------------------------
(***************************************************************************)
(* run_concurrent of src/utils/concurrent.rs: one tokio task per item,     *)
(* each retrying its call; a shared flag that tells the others to stop     *)
(* when fail_fast is set and one has failed for good; and a joiner that    *)
(* takes the ended tasks in the order they ended, keeps the first error it *)
(* sees and then aborts the rest.                                          *)
(*                                                                         *)
(* A task can be aborted only where it awaits: before its first poll, in   *)
(* the delay of a retry, in its call.  Raising the flag and ending are two *)
(* steps of a failing task, and others run in between.                     *)
(***************************************************************************)
EXTENDS Naturals, Sequences, FiniteSets, Functions

CONSTANTS
    Task,
    Retries,          \* opts.retries
    None

ASSUME TaskAssumption == IsFiniteSet(Task)
ASSUME RetriesAssumption == Retries \in Nat
ASSUME NoneAssumption == None \notin Task

VARIABLES
    failFast,     \* opts.fail_fast
    at,           \* where each task is
    attempt,      \* the loop variable of each task
    cancelled,    \* the shared AtomicBool
    aborted,      \* abort_all was called
    ended,        \* tasks that ended and are not joined yet, in that order
    joined,
    results,      \* the tasks whose results were pushed
    firstError,   \* None, or the task whose error is kept
    outcome       \* "pending", then what run_concurrent returned

taskVars == <<at, attempt, cancelled>>
joinVars == <<aborted, joined, results, firstError, outcome>>
vars == <<failFast, taskVars, ended, joinVars>>

Final == {"ok", "failed", "cancelled", "panicked", "aborted"}
Awaiting == {"start", "delay", "call"}

Init ==
    /\ failFast \in BOOLEAN
    /\ at = [t \in Task |-> "start"]
    /\ attempt = [t \in Task |-> 0]
    /\ cancelled = FALSE
    /\ aborted = FALSE
    /\ ended = <<>>
    /\ joined = {}
    /\ results = <<>>
    /\ firstError = None
    /\ outcome = "pending"
-----------------------------------------------------------------------------
(* A task *)

Goto(t, place) == at' = [at EXCEPT ![t] = place]

End(t, how) == Goto(t, how) /\ ended' = Append(ended, t)

(* The head of the loop, with the load of the flag.                        *)
CheckCancelled(t) ==
    /\ at[t] \in {"start", "check"}
    /\ IF cancelled
       THEN End(t, "cancelled")
       ELSE /\ Goto(t, IF attempt[t] > 0 THEN "delay" ELSE "call")
            /\ UNCHANGED ended
    /\ UNCHANGED <<failFast, attempt, cancelled, joinVars>>

EndDelay(t) ==
    /\ at[t] = "delay"
    /\ Goto(t, "call")
    /\ UNCHANGED <<failFast, attempt, cancelled, ended, joinVars>>

CallSucceeds(t) ==
    /\ at[t] = "call"
    /\ End(t, "ok")
    /\ UNCHANGED <<failFast, attempt, cancelled, joinVars>>

(* Mutant: any failed attempt raises the flag.                             *)
CallFailsEarlyFlag(t) ==
    /\ at[t] = "call"
    /\ cancelled' = (cancelled \/ failFast)
    /\ IF attempt[t] = Retries
       THEN /\ Goto(t, "failing")
            /\ UNCHANGED attempt
       ELSE /\ Goto(t, "check")
            /\ attempt' = [attempt EXCEPT ![t] = attempt[t] + 1]
    /\ UNCHANGED <<failFast, ended, joinVars>>

(* Mutant: the flag is raised without fail_fast too.                       *)
CallFailsAlwaysFlag(t) ==
    /\ at[t] = "call"
    /\ IF attempt[t] = Retries
       THEN /\ Goto(t, "failing")
            /\ cancelled' = TRUE
            /\ UNCHANGED attempt
       ELSE /\ Goto(t, "check")
            /\ attempt' = [attempt EXCEPT ![t] = attempt[t] + 1]
            /\ UNCHANGED cancelled
    /\ UNCHANGED <<failFast, ended, joinVars>>

(* Mutant: one attempt too many.                                           *)
CallFailsOneMore(t) ==
    /\ at[t] = "call"
    /\ IF attempt[t] > Retries
       THEN /\ Goto(t, "failing")
            /\ cancelled' = (cancelled \/ failFast)
            /\ UNCHANGED attempt
       ELSE /\ Goto(t, "check")
            /\ attempt' = [attempt EXCEPT ![t] = attempt[t] + 1]
            /\ UNCHANGED cancelled
    /\ UNCHANGED <<failFast, ended, joinVars>>

(* A failed attempt is followed by another; the last one raises the flag   *)
(* when fail_fast is set.                                                  *)
CallFails(t) ==
    /\ at[t] = "call"
    /\ IF attempt[t] = Retries
       THEN /\ Goto(t, "failing")
            /\ cancelled' = (cancelled \/ failFast)
            /\ UNCHANGED attempt
       ELSE /\ Goto(t, "check")
            /\ attempt' = [attempt EXCEPT ![t] = attempt[t] + 1]
            /\ UNCHANGED cancelled
    /\ UNCHANGED <<failFast, ended, joinVars>>

EndFailed(t) ==
    /\ at[t] = "failing"
    /\ End(t, "failed")
    /\ UNCHANGED <<failFast, attempt, cancelled, joinVars>>

CallPanics(t) ==
    /\ at[t] = "call"
    /\ End(t, "panicked")
    /\ UNCHANGED <<failFast, attempt, cancelled, joinVars>>

EndAborted(t) ==
    /\ aborted
    /\ at[t] \in Awaiting
    /\ End(t, "aborted")
    /\ UNCHANGED <<failFast, attempt, cancelled, joinVars>>
-----------------------------------------------------------------------------
(* The joiner *)

(* Mutant: the join error of a task that panicked is not kept.             *)
JoinNextDropsPanic ==
    /\ outcome = "pending"
    /\ ended # <<>>
    /\ LET t == Head(ended)
       IN  /\ joined' = joined \cup {t}
           /\ IF at[t] = "ok"
              THEN /\ results' = Append(results, t)
                   /\ UNCHANGED <<firstError, aborted>>
              ELSE /\ firstError' = IF firstError = None /\ at[t] # "panicked"
                                    THEN t ELSE firstError
                   /\ aborted' = (aborted \/ failFast)
                   /\ UNCHANGED results
    /\ ended' = Tail(ended)
    /\ UNCHANGED <<failFast, taskVars, outcome>>

JoinNext ==
    /\ outcome = "pending"
    /\ ended # <<>>
    /\ LET t == Head(ended)
       IN  /\ joined' = joined \cup {t}
           /\ IF at[t] = "ok"
              THEN /\ results' = Append(results, t)
                   /\ UNCHANGED <<firstError, aborted>>
              ELSE /\ firstError' = IF firstError = None THEN t ELSE firstError
                   /\ aborted' = (aborted \/ failFast)
                   /\ UNCHANGED results
    /\ ended' = Tail(ended)
    /\ UNCHANGED <<failFast, taskVars, outcome>>

(* Mutant: the joiner returns the first error at once.                     *)
ReturnOnFirstError ==
    /\ outcome = "pending"
    /\ joined = Task \/ firstError # None
    /\ outcome' = IF firstError = None THEN "ok" ELSE "err"
    /\ UNCHANGED <<failFast, taskVars, ended, aborted, joined, results, firstError>>

(* Mutant: the joiner waits for a result of every item.                    *)
ReturnWithAllResults ==
    /\ outcome = "pending"
    /\ Len(results) = Cardinality(Task)
    /\ outcome' = IF firstError = None THEN "ok" ELSE "err"
    /\ UNCHANGED <<failFast, taskVars, ended, aborted, joined, results, firstError>>

Return ==
    /\ outcome = "pending"
    /\ joined = Task
    /\ outcome' = IF firstError = None THEN "ok" ELSE "err"
    /\ UNCHANGED <<failFast, taskVars, ended, aborted, joined, results, firstError>>

Returned == outcome # "pending" /\ UNCHANGED vars
-----------------------------------------------------------------------------
Step(t) ==
    \/ CheckCancelled(t) \/ EndDelay(t) \/ CallSucceeds(t) \/ CallFails(t)
    \/ EndFailed(t) \/ CallPanics(t) \/ EndAborted(t)

Next == JoinNext \/ Return \/ Returned \/ \E t \in Task : Step(t)

(* The runtime polls every task that can go on, and calls are HTTP         *)
(* requests with a timeout.                                                *)
Fairness == WF_vars(JoinNext \/ Return) /\ \A t \in Task : WF_vars(Step(t))

SafetySpec == Init /\ [][Next]_vars

Spec == SafetySpec /\ Fairness
-----------------------------------------------------------------------------
TypeOK ==
    /\ failFast \in BOOLEAN
    /\ at \in [Task -> {"start", "check", "delay", "call", "failing"} \cup Final]
    /\ attempt \in [Task -> 0..Retries]
    /\ cancelled \in BOOLEAN
    /\ aborted \in BOOLEAN
    /\ ended \in Seq(Task)
    /\ joined \in SUBSET Task
    /\ results \in Seq(Task)
    /\ firstError \in Task \cup {None}
    /\ outcome \in {"pending", "ok", "err"}

Queued == {ended[i] : i \in DOMAIN ended}

(* The joiner loses no task and counts none twice: every ended task is     *)
(* queued or joined, once, and the joined ones are in the results or have  *)
(* left an error (concurrent.rs:240-276).                                  *)
JoinerKeepsTrack ==
    /\ \A i, j \in DOMAIN ended : i # j => ended[i] # ended[j]
    /\ Queued \cap joined = {}
    /\ \A t \in Task : at[t] \in Final <=> t \in Queued \cup joined
    /\ Range(results) = {t \in joined : at[t] = "ok"}
    /\ Len(results) = Cardinality(Range(results))
    /\ firstError = None <=> \A t \in joined : at[t] = "ok"
    /\ outcome # "pending" =>
         joined = Task /\ outcome = IF firstError = None THEN "ok" ELSE "err"

(* Why a task is where it is: what made it fail, stop or be aborted.       *)
Causes ==
    /\ cancelled => \E u \in Task : at[u] \in {"failing", "failed"}
    /\ cancelled => failFast
    /\ aborted => failFast /\ \E u \in Task : at[u] \in {"failing", "failed", "panicked"}
    /\ \A t \in Task : /\ at[t] = "cancelled" => cancelled
                       /\ at[t] = "aborted" => aborted
                       /\ at[t] \in {"failing", "failed"} => attempt[t] = Retries

(* With TypeOK it is inductive, and what Ok and Err mean follows from it.  *)
Bookkeeping == JoinerKeepsTrack /\ Causes

(* Ok means that every item succeeded, and each result is there once       *)
(* ("Returns Ok(results) if all tasks succeed", concurrent.rs:163).        *)
OkMeansAllSucceeded ==
    outcome = "ok" =>
        /\ \A t \in Task : at[t] = "ok"
        /\ Range(results) = Task /\ Len(results) = Cardinality(Task)

(* Err means that an item really failed or panicked: cancelling and        *)
(* aborting are consequences, never the only cause.  And no task is left   *)
(* running behind it.                                                      *)
ErrMeansSomeFailed ==
    outcome = "err" =>
        /\ \E t \in Task : at[t] \in {"failed", "panicked"}
        /\ \A t \in Task : at[t] \in Final

(* Nobody is cut short without a cause: a task stops early only with       *)
(* fail_fast and another that failed for good, and one that fails for good *)
(* has made all its attempts, whatever the others do (the retry loop,      *)
(* concurrent.rs:197-229).                                                 *)
NobodyIsCutShort ==
    \A t \in Task :
        /\ at[t] \in {"cancelled", "aborted"} =>
              failFast /\ \E u \in Task : at[u] \in {"failing", "failed", "panicked"}
        /\ at[t] = "failed" => attempt[t] = Retries
        /\ outcome # "pending" /\ ~failFast => at[t] \in {"ok", "failed", "panicked"}

(* The call returns, whichever tasks fail, panic, stop or are aborted.     *)
AlwaysReturns == <>(outcome # "pending")
=============================================================================
