---------------------------- MODULE CheckRunner ----------------------------
(***************************************************************************)
(* run_checks of src/main.rs: load the configuration, prepare postage      *)
(* batches, select the checks, start the status API, run every selected    *)
(* check in a tokio task of its own, await the tasks in the order they     *)
(* were spawned, publish the verdict, and exit or stay alive.              *)
(*                                                                         *)
(* A task is named by its position in the list it was selected from (the   *)
(* --check filter, or the registry), so a check that a filter names twice  *)
(* is two tasks, as in the code.  What a check does on the cluster is its  *)
(* own module's concern: here a running check ends with a result that      *)
(* passed or failed, with an error, or in a panic.                         *)
(***************************************************************************)
EXTENDS ApiState, FiniteSets, Functions

CONSTANTS
    Registry,    \* the names in CHECKS, in registration order
    DataChecks,  \* the names for which main.rs prepares batches
    Connectivity, \* the names the registry calls connectivity checks
    Filters,     \* the --check lists considered, unknown names included
    NoFilter,    \* no --check option
    MaxChecks    \* the longest of these lists

ASSUME RegistryAssumption == Registry \in Seq(STRING) /\ Len(Registry) <= MaxChecks
ASSUME FiltersAssumption == \A f \in Filters : f \in Seq(STRING) /\ Len(f) <= MaxChecks
ASSUME MaxChecksAssumption == MaxChecks \in Nat

Task == 1..MaxChecks

CheckNames == Range(Registry)

VARIABLES
    filter, enabled, apiPort, keepAlive,          \* options and configuration
    pc, plan, joined, allPassed, exitCode,        \* run_checks
    task,                                         \* the tokio tasks
    server                                        \* the task serving the API

optionVars == <<filter, enabled, apiPort, keepAlive>>
mainVars == <<pc, plan, joined, allPassed, exitCode>>
vars == <<optionVars, mainVars, task, server, apiVars>>

Outcome == {"passed", "failed", "error", "panic"}

Init ==
    /\ filter \in Filters \cup {NoFilter}
    /\ enabled \in SUBSET CheckNames
    /\ apiPort \in BOOLEAN
    /\ keepAlive \in BOOLEAN
    /\ pc = "load"
    /\ plan = {}
    /\ joined = {}
    /\ allPassed = TRUE
    /\ exitCode = 0
    /\ task = [t \in Task |-> "none"]
    /\ server = "off"
    /\ NewApiState
-----------------------------------------------------------------------------
(* Selecting the checks *)

(* The names the selection goes through, and the positions it keeps: a     *)
(* filter drops the names the registry does not know, and without one the  *)
(* configuration drops the checks it disables.                             *)
Requested == IF filter = NoFilter THEN Registry ELSE filter

SelectedUnchecked ==    \* mutant: unknown names are not dropped
    {t \in DOMAIN Requested : filter = NoFilter => Requested[t] \in enabled}

Selected ==
    {t \in DOMAIN Requested :
        Requested[t] \in IF filter = NoFilter THEN enabled ELSE CheckNames}

NeedsBatches ==
    IF filter = NoFilter THEN enabled \cap DataChecks # {}
                         ELSE Range(filter) \cap DataChecks # {}

Exit(code) == pc' = "exited" /\ exitCode' = code

LoadConfig ==
    /\ pc = "load"
    /\ \/ /\ pc' = IF NeedsBatches THEN "prepare" ELSE "select"
          /\ UNCHANGED exitCode
       \/ Exit(1)                       \* the file or the cluster is invalid
    /\ UNCHANGED <<optionVars, plan, joined, allPassed, task, server, apiVars>>

(* A failed preparation is only logged, so both outcomes go on.            *)
PrepareBatches ==
    /\ pc = "prepare"
    /\ pc' = "select"
    /\ UNCHANGED <<optionVars, plan, joined, allPassed, exitCode, task, server,
                   apiVars>>

SelectChecks ==
    /\ pc = "select"
    /\ plan' = Selected
    /\ IF Selected = {}
       THEN Exit(0) /\ UNCHANGED apiVars
       ELSE /\ pc' = IF apiPort THEN "serve" ELSE "spawn"
            /\ SetTotalChecks(Cardinality(Selected))
            /\ UNCHANGED exitCode
    /\ UNCHANGED <<optionVars, joined, allPassed, task, server>>
-----------------------------------------------------------------------------
(* The API server: main gives it 100 ms and goes on, bound or not.         *)

StartServer ==
    /\ pc = "serve"
    /\ server' = "starting"
    /\ pc' = "spawn"
    /\ UNCHANGED <<optionVars, plan, joined, allPassed, exitCode, task, apiVars>>

BindServer ==
    /\ server = "starting"
    /\ pc # "exited"
    /\ server' \in {"listening", "down"}
    /\ UNCHANGED <<optionVars, mainVars, task, apiVars>>
-----------------------------------------------------------------------------
(* Running the checks *)

IsFirst(t, S) == t \in S /\ \A u \in S : t <= u

Unspawned == {t \in plan : task[t] = "none"}

SpawnCheck(t) ==
    /\ pc = "spawn"
    /\ IsFirst(t, Unspawned)
    /\ task' = [task EXCEPT ![t] = "spawned"]
    /\ pc' = IF Unspawned = {t} THEN "join" ELSE "spawn"
    /\ UNCHANGED <<optionVars, plan, joined, allPassed, exitCode, server, apiVars>>

StartCheck(t) ==
    /\ task[t] = "spawned"
    /\ task' = [task EXCEPT ![t] = "running"]
    /\ MarkStarted(Requested[t])
    /\ UNCHANGED <<optionVars, mainVars, server>>

FinishCheck(t) ==
    /\ task[t] = "running"
    /\ \E o \in Outcome : task' = [task EXCEPT ![t] = o]
    /\ UNCHANGED <<optionVars, mainVars, server, apiVars>>
-----------------------------------------------------------------------------
(* Awaiting the handles, in the order they were spawned                    *)

Awaits(t) ==
    /\ pc = "join"
    /\ IsFirst(t, plan \ joined)
    /\ task[t] \in Outcome

(* Mutant: the flag takes the verdict of the last result.                  *)
CollectResultLastWins(t) ==
    /\ Awaits(t)
    /\ task[t] \in {"passed", "failed"}
    /\ joined' = joined \cup {t}
    /\ allPassed' = (task[t] = "passed")
    /\ RecordResult(t, task[t] = "passed")
    /\ UNCHANGED <<optionVars, pc, plan, exitCode, task, server>>

CollectResult(t) ==
    /\ Awaits(t)
    /\ task[t] \in {"passed", "failed"}
    /\ joined' = joined \cup {t}
    /\ allPassed' = (allPassed /\ task[t] = "passed")
    /\ RecordResult(t, task[t] = "passed")
    /\ UNCHANGED <<optionVars, pc, plan, exitCode, task, server>>

(* Mutant: an error or a panic is logged but does not fail the run.        *)
CollectErrorOnlyLogged(t) ==
    /\ Awaits(t)
    /\ task[t] \in {"error", "panic"}
    /\ joined' = joined \cup {t}
    /\ UNCHANGED <<optionVars, pc, plan, allPassed, exitCode, task, server, apiVars>>

(* Mutant: the join error of a panicked task is returned with `?`.         *)
CollectErrorPropagates(t) ==
    /\ Awaits(t)
    /\ task[t] \in {"error", "panic"}
    /\ joined' = joined \cup {t}
    /\ allPassed' = FALSE
    /\ IF task[t] = "panic" THEN Exit(1) ELSE UNCHANGED <<pc, exitCode>>
    /\ UNCHANGED <<optionVars, plan, task, server, apiVars>>

(* A check that returned an error, or whose task panicked, fails the run   *)
(* but leaves no result behind.                                            *)
CollectError(t) ==
    /\ Awaits(t)
    /\ task[t] \in {"error", "panic"}
    /\ joined' = joined \cup {t}
    /\ allPassed' = FALSE
    /\ UNCHANGED <<optionVars, pc, plan, exitCode, task, server, apiVars>>

(* Mutant: the verdict is published as soon as a failure is known.         *)
CompleteRunEarly ==
    /\ pc = "join"
    /\ joined = plan \/ ~allPassed
    /\ Complete(allPassed)
    /\ pc' = "report"
    /\ UNCHANGED <<optionVars, plan, joined, allPassed, exitCode, task, server>>

(* Mutant: the verdict is published but the loop over the handles goes on. *)
CompleteRunInLoop ==
    /\ pc = "join"
    /\ status = "running"
    /\ joined = plan \/ ~allPassed
    /\ Complete(allPassed)
    /\ pc' = IF joined = plan THEN "report" ELSE "join"
    /\ UNCHANGED <<optionVars, plan, joined, allPassed, exitCode, task, server>>

CompleteRun ==
    /\ pc = "join"
    /\ joined = plan
    /\ Complete(allPassed)
    /\ pc' = "report"
    /\ UNCHANGED <<optionVars, plan, joined, allPassed, exitCode, task, server>>

(* Mutant: --keep-alive alone keeps the process up.                        *)
LeaveIgnoringPort ==
    /\ pc = "report"
    /\ IF keepAlive THEN pc' = "keepalive" /\ UNCHANGED exitCode
                    ELSE Exit(IF allPassed THEN 0 ELSE 1)
    /\ UNCHANGED <<optionVars, plan, joined, allPassed, task, server, apiVars>>

(* Mutant: --keep-alive is not looked at.                                  *)
LeaveAtOnce ==
    /\ pc = "report"
    /\ Exit(IF allPassed THEN 0 ELSE 1)
    /\ UNCHANGED <<optionVars, plan, joined, allPassed, task, server, apiVars>>

Leave ==
    /\ pc = "report"
    /\ IF keepAlive /\ apiPort
       THEN pc' = "keepalive" /\ UNCHANGED exitCode
       ELSE Exit(IF allPassed THEN 0 ELSE 1)
    /\ UNCHANGED <<optionVars, plan, joined, allPassed, task, server, apiVars>>

(* The process is gone, or sleeps in main's endless loop.                  *)
Idle ==
    /\ pc \in {"exited", "keepalive"}
    /\ UNCHANGED vars
-----------------------------------------------------------------------------
Main ==
    \/ LoadConfig \/ PrepareBatches \/ SelectChecks \/ StartServer
    \/ CompleteRun \/ Leave
    \/ \E t \in Task : SpawnCheck(t) \/ CollectResult(t) \/ CollectError(t)

CheckTask(t) == StartCheck(t) \/ FinishCheck(t)

Next == Main \/ BindServer \/ Idle \/ \E t \in Task : CheckTask(t)

(* The tokio runtime polls main and every spawned task that can go on; a   *)
(* check ends because each of its HTTP calls has a timeout (src/client/    *)
(* bee.rs) and each of its loops a bound.                                  *)
Fairness ==
    /\ WF_vars(Main)
    /\ WF_vars(BindServer)
    /\ \A t \in Task : WF_vars(CheckTask(t))

SafetySpec == Init /\ [][Next]_vars

Spec == SafetySpec /\ Fairness
-----------------------------------------------------------------------------
TypeOK ==
    /\ filter \in Filters \cup {NoFilter}
    /\ enabled \in SUBSET CheckNames
    /\ apiPort \in BOOLEAN
    /\ keepAlive \in BOOLEAN
    /\ pc \in {"load", "prepare", "select", "serve", "spawn", "join", "report",
              "keepalive", "exited"}
    /\ plan \in SUBSET Task
    /\ joined \in SUBSET plan
    /\ allPassed \in BOOLEAN
    /\ exitCode \in {0, 1}
    /\ task \in [Task -> {"none", "spawned", "running"} \cup Outcome]
    /\ server \in {"off", "starting", "listening", "down"}
    /\ status \in ExecutionStatus
    /\ {checksTotal, checksCompleted, checksPassed, checksFailed} \subseteq Nat
    /\ currentCheck \in CheckNames \cup {None}
    /\ results \in Seq([task : Task, passed : BOOLEAN])

(* The tasks among S that returned a result: a check that errors or panics *)
(* has none.                                                               *)
WithResult(S) == {t \in S : task[t] \in {"passed", "failed"}}

ReportCounts ==
    /\ checksCompleted = Len(results)
    /\ checksCompleted = Cardinality(WithResult(joined))
    /\ checksPassed = Cardinality({t \in joined : task[t] = "passed"})
    /\ checksFailed = Cardinality({t \in joined : task[t] = "failed"})
    /\ {r.task : r \in Range(results)} = WithResult(joined)
    /\ \A r \in Range(results) : r.passed <=> task[r.task] = "passed"

(* current_check is one field for many parallel checks: whichever started  *)
(* last overwrites it, and any collected result clears it.                 *)
CurrentHasStarted ==
    currentCheck # None =>
        /\ status = "running"
        /\ \E t \in plan \ WithResult(joined) :
              task[t] \notin {"none", "spawned"} /\ Requested[t] = currentCheck

(* The report the API serves is exactly what main has collected: each      *)
(* collected result is there once, with its own verdict, the counters      *)
(* count the results there are (record_result, state.rs:83-93, called once *)
(* per handle, main.rs:290), and the check it calls current, if any, has   *)
(* started and is none whose result is already served.                     *)
ReportMatchesTasks == ReportCounts /\ CurrentHasStarted

(* How the plan, the tasks, the flag and the verdict hang together at each *)
(* point of run_checks; with TypeOK, ReportMatchesTasks and the order of   *)
(* the results it is inductive, and every other invariant follows.         *)
RunPhases ==
    /\ \A t \in plan : t \in DOMAIN Requested /\ Requested[t] \in CheckNames
    /\ \A t \in Task \ plan : task[t] = "none"
    /\ \A t \in joined : task[t] \in Outcome
    /\ \A t \in joined, u \in plan \ joined : t < u
    /\ allPassed <=> \A t \in joined : task[t] = "passed"
    /\ pc \in {"load", "prepare", "select"} => plan = {}
    /\ pc \in {"serve", "spawn", "join", "report", "keepalive"} => plan # {}
    /\ pc \in {"serve", "spawn"} => joined = {}
    /\ pc = "join" => Unspawned = {}
    /\ pc \in {"report", "keepalive", "exited"} => joined = plan
    /\ status # "running" <=>
         pc \in {"report", "keepalive"} \/ (pc = "exited" /\ plan # {})
    /\ status # "running" => (status = "completed" <=> allPassed)
    /\ pc = "exited" /\ plan # {} => (exitCode = 0 <=> allPassed)

(* Results are listed in the order the checks were requested, although the *)
(* tasks finish in any order (main.rs:248 awaits the handles in turn).     *)
ResultsInRequestOrder ==
    \A i, j \in DOMAIN results : i < j => results[i].task < results[j].task

(* No verdict before every task has ended and been collected; the verdict  *)
(* is "completed" exactly when every check passed: one failed result, one  *)
(* error or one panic, whenever it is collected, makes it "failed".        *)
VerdictSound ==
    status # "running" =>
        /\ joined = plan
        /\ status = "completed" <=> \A t \in plan : task[t] = "passed"

(* The process exits 0 only when it ran nothing or every check passed, and *)
(* never with a check still running (main.rs:193-196, 323-327).            *)
ExitCodeSound ==
    pc = "exited" =>
        /\ \A t \in plan : task[t] \in Outcome
        /\ exitCode = 0 => \A t \in plan : task[t] = "passed"
        /\ plan # {} => (exitCode = 0 <=> status = "completed")

(* Once a verdict is published nothing the API serves changes any more: no *)
(* late start_check or record_result (state.rs:77-93) of a parallel task.  *)
FrozenAfterVerdict == [][status # "running" => UNCHANGED apiVars]_vars

(* Every run that has a check to run publishes a verdict, whatever becomes *)
(* of its tasks.                                                           *)
EventuallyDecided == plan # {} ~> status # "running"

(* The process ends unless it was asked to keep serving an API port.       *)
ExitsUnlessKeptAlive == <>(pc = "exited" \/ (keepAlive /\ apiPort))

(* run_checks implements the abstract promise.                             *)
Promise == INSTANCE RunVerdict WITH
    planned <- plan,
    outcome <- [t \in Task |-> IF task[t] \in Outcome THEN task[t] ELSE "pending"],
    verdict <- status

ImplementsPromise == Promise!Spec
-----------------------------------------------------------------------------
(* What the repository says and the code does not do.                      *)

(* "Content checks run after connectivity is verified" (registry.rs:10),   *)
(* "ensuring checks run in a deterministic sequence (connectivity before   *)
(* content)" (registry.rs:28-29): with no filter, no content check starts  *)
(* while a connectivity check has not finished.                            *)
ContentAfterConnectivity ==
    filter = NoFilter => \A c, d \in plan :
        (/\ Requested[c] \in Connectivity
         /\ Requested[d] \notin Connectivity
         /\ task[d] \notin {"none", "spawned"}) => task[c] \in Outcome
=============================================================================
