---------------------------- MODULE RunnerProofs ----------------------------
(***************************************************************************)
(* Proofs about CheckRunner and, from them, about StatusApi, for every     *)
(* registry, every set of filters, every MaxChecks and any clients.        *)
(*                                                                         *)
(* Of the runner the conjunction of TypeOK, RunPhases, ReportCounts,       *)
(* ResultsInRequestOrder and CurrentHasStarted is inductive, and the       *)
(* promises of the module follow from it.                                  *)
(***************************************************************************)
EXTENDS StatusApi, FiniteSetTheorems, SequenceTheorems, TLAPS

(* Selecting checks stays within the tasks and within the known names.     *)
LEMMA SelectedInTask ==
    ASSUME TypeOK
    PROVE  /\ Selected \in SUBSET Task
           /\ \A t \in Selected : t \in DOMAIN Requested /\ Requested[t] \in CheckNames
<1>1. CASE filter = NoFilter
  <2>1. Requested = Registry
    BY <1>1 DEF Requested
  <2>2. DOMAIN Registry = 1..Len(Registry) /\ Len(Registry) \in Nat
    BY RegistryAssumption
  <2>3. Selected = {t \in DOMAIN Registry : Registry[t] \in enabled}
    BY <1>1, <2>1 DEF Selected
  <2>4. 1..Len(Registry) \subseteq Task
    BY <2>2, RegistryAssumption, MaxChecksAssumption DEF Task
  <2> QED
    BY <2>1, <2>2, <2>3, <2>4 DEF TypeOK
<1>2. CASE filter # NoFilter
  <2>1. Requested = filter /\ filter \in Filters
    BY <1>2 DEF Requested, TypeOK
  <2>2. DOMAIN filter = 1..Len(filter) /\ Len(filter) \in Nat
    BY <2>1, FiltersAssumption
  <2>3. Selected = {t \in DOMAIN filter : filter[t] \in CheckNames}
    BY <1>2, <2>1 DEF Selected
  <2>4. 1..Len(filter) \subseteq Task
    BY <2>1, <2>2, FiltersAssumption, MaxChecksAssumption DEF Task
  <2> QED
    BY <2>1, <2>2, <2>3, <2>4
<1> QED
  BY <1>1, <1>2

(* Every set of tasks is finite.                                           *)
LEMMA TasksFinite ==
    ASSUME NEW S \in SUBSET Task
    PROVE  IsFiniteSet(S) /\ Cardinality(S) \in Nat
<1>1. IsFiniteSet(Task)
  BY MaxChecksAssumption, FS_Interval DEF Task
<1> QED
  BY <1>1, FS_Subset, FS_CardinalityType
-----------------------------------------------------------------------------
(* Init gives every variable its type.                                     *)
LEMMA TypeInit == Init => TypeOK
<1> SUFFICES ASSUME Init PROVE TypeOK
  OBVIOUS
<1>1. results \in Seq([task : Task, passed : BOOLEAN])
  BY DEF Init, NewApiState
<1> QED
  BY <1>1 DEF Init, NewApiState, TypeOK, ExecutionStatus

(* Every step of run_checks, of the tasks and of the server keeps the      *)
(* types; that the plan is among the known names keeps current_check one.  *)
LEMMA TypeStep == TypeOK /\ RunPhases /\ [Next]_vars => TypeOK'
<1> SUFFICES ASSUME TypeOK, RunPhases, [Next]_vars
             PROVE  TypeOK'
  OBVIOUS
<1> USE DEF TypeOK, optionVars, mainVars, apiVars
<1>1. CASE LoadConfig
  BY <1>1 DEF LoadConfig, Exit
<1>2. CASE PrepareBatches
  BY <1>2 DEF PrepareBatches
<1>3. CASE SelectChecks
  <2>1. plan' \in SUBSET Task /\ Cardinality(Selected) \in Nat
    BY <1>3, SelectedInTask, TasksFinite DEF SelectChecks
  <2>2. joined = {}
    BY <1>3 DEF SelectChecks, RunPhases
  <2> QED
    BY <1>3, <2>1, <2>2 DEF SelectChecks, SetTotalChecks, Exit
<1>4. CASE StartServer
  BY <1>4 DEF StartServer
<1>5. CASE CompleteRun
  BY <1>5 DEF CompleteRun, Complete, ExecutionStatus
<1>6. CASE Leave
  BY <1>6 DEF Leave, Exit
<1>7. ASSUME NEW t \in Task, SpawnCheck(t)
      PROVE  TypeOK'
  BY <1>7 DEF SpawnCheck
<1>8. ASSUME NEW t \in Task, CollectResult(t)
      PROVE  TypeOK'
  <2> DEFINE r == [task |-> t, passed |-> (task[t] = "passed")]
  <2>1. r \in [task : Task, passed : BOOLEAN]
    OBVIOUS
  <2>2. results' = Append(results, r)
    BY <1>8 DEF CollectResult, RecordResult
  <2>3. results' \in Seq([task : Task, passed : BOOLEAN])
    BY <2>1, <2>2
  <2>4. /\ {checksTotal', checksCompleted', checksPassed', checksFailed'} \subseteq Nat
        /\ currentCheck' = None
        /\ status' = status
    BY <1>8 DEF CollectResult, RecordResult
  <2>5. joined' \in SUBSET plan'
    BY <1>8 DEF CollectResult, Awaits, IsFirst
  <2>6. allPassed' \in BOOLEAN
    BY <1>8 DEF CollectResult
  <2> QED
    BY <1>8, <2>3, <2>4, <2>5, <2>6 DEF CollectResult
<1>9. ASSUME NEW t \in Task, CollectError(t)
      PROVE  TypeOK'
  BY <1>9 DEF CollectError, Awaits, IsFirst
<1>10. ASSUME NEW t \in Task, StartCheck(t)
       PROVE  TypeOK'
  <2>1. t \in plan
    BY <1>10 DEF StartCheck, RunPhases
  <2>2. Requested[t] \in CheckNames
    BY <2>1 DEF RunPhases
  <2> QED
    BY <1>10, <2>2 DEF StartCheck, MarkStarted
<1>11. ASSUME NEW t \in Task, FinishCheck(t)
       PROVE  TypeOK'
  BY <1>11 DEF FinishCheck
<1>12. CASE BindServer
  BY <1>12 DEF BindServer
<1>13. CASE UNCHANGED vars
  BY <1>13 DEF vars
<1> QED
  BY <1>1, <1>2, <1>3, <1>4, <1>5, <1>6, <1>7, <1>8, <1>9, <1>10, <1>11,
     <1>12, <1>13 DEF Next, Main, CheckTask, Idle
-----------------------------------------------------------------------------
(* The phases hold before anything is loaded.                              *)
LEMMA PhasesInit == Init => RunPhases
BY DEF Init, NewApiState, RunPhases

(* Every step keeps plan, tasks, flag and verdict together: nothing is     *)
(* spawned outside the plan, joined out of turn or announced too early.    *)
LEMMA PhasesStep == TypeOK /\ RunPhases /\ [Next]_vars => RunPhases'
<1> SUFFICES ASSUME TypeOK, RunPhases, [Next]_vars
             PROVE  RunPhases'
  OBVIOUS
<1> USE DEF TypeOK, RunPhases, optionVars, mainVars, apiVars, Requested
<1>1. CASE LoadConfig
  BY <1>1 DEF LoadConfig, Exit, Unspawned
<1>2. CASE PrepareBatches
  BY <1>2 DEF PrepareBatches, Unspawned
<1>3. CASE SelectChecks
  <2>1. plan = {} /\ joined = {} /\ allPassed /\ status = "running"
    BY <1>3 DEF SelectChecks
  <2>2. status' = status
    BY <1>3 DEF SelectChecks, SetTotalChecks
  <2>3. \A t \in plan' : t \in DOMAIN Requested /\ Requested[t] \in CheckNames
    BY <1>3, SelectedInTask DEF SelectChecks
  <2> QED
    BY <1>3, <2>1, <2>2, <2>3 DEF SelectChecks, Exit, Unspawned
<1>4. CASE StartServer
  BY <1>4 DEF StartServer, Unspawned
<1>5. CASE CompleteRun
  BY <1>5 DEF CompleteRun, Complete, ExecutionStatus
<1>6. CASE Leave
  BY <1>6 DEF Leave, Exit
<1>7. ASSUME NEW t \in Task, SpawnCheck(t)
      PROVE  RunPhases'
  <2>1. t \in plan /\ pc = "spawn" /\ joined = {}
    BY <1>7 DEF SpawnCheck, IsFirst, Unspawned
  <2>2. pc' = "join" => Unspawned' = {}
    BY <1>7 DEF SpawnCheck, Unspawned
  <2> QED
    BY <1>7, <2>1, <2>2 DEF SpawnCheck
<1>8. ASSUME NEW t \in Task, CollectResult(t)
      PROVE  RunPhases'
  <2>1. /\ t \in plan \ joined
        /\ \A u \in plan \ joined : t <= u
        /\ task[t] \in Outcome
        /\ pc = "join"
    BY <1>8 DEF CollectResult, Awaits, IsFirst
  <2>2. \A x \in joined', u \in plan' \ joined' : x < u
    BY <1>8, <2>1, MaxChecksAssumption DEF CollectResult, Task
  <2>3. status' = status
    BY <1>8 DEF CollectResult, RecordResult
  <2> QED
    BY <1>8, <2>1, <2>2, <2>3 DEF CollectResult, Unspawned
<1>9. ASSUME NEW t \in Task, CollectError(t)
      PROVE  RunPhases'
  <2>1. /\ t \in plan \ joined
        /\ \A u \in plan \ joined : t <= u
        /\ task[t] \in Outcome
        /\ pc = "join"
    BY <1>9 DEF CollectError, Awaits, IsFirst
  <2>2. \A x \in joined', u \in plan' \ joined' : x < u
    BY <1>9, <2>1, MaxChecksAssumption DEF CollectError, Task
  <2> QED
    BY <1>9, <2>1, <2>2 DEF CollectError, Unspawned
<1>10. ASSUME NEW t \in Task, StartCheck(t)
       PROVE  RunPhases'
  <2>1. t \in plan \ joined
    BY <1>10 DEF StartCheck, Outcome
  <2>2. status' = status
    BY <1>10 DEF StartCheck, MarkStarted
  <2>3. Unspawned' = Unspawned
    BY <1>10 DEF StartCheck, Unspawned
  <2> QED
    BY <1>10, <2>1, <2>2, <2>3 DEF StartCheck
<1>11. ASSUME NEW t \in Task, FinishCheck(t)
       PROVE  RunPhases'
  <2>1. t \in plan \ joined
    BY <1>11 DEF FinishCheck, Outcome
  <2>2. Unspawned' = Unspawned
    BY <1>11 DEF FinishCheck, Unspawned, Outcome
  <2> QED
    BY <1>11, <2>1, <2>2 DEF FinishCheck
<1>12. CASE BindServer
  BY <1>12 DEF BindServer, Unspawned
<1>13. CASE UNCHANGED vars
  BY <1>13 DEF vars, Unspawned
<1> QED
  BY <1>1, <1>2, <1>3, <1>4, <1>5, <1>6, <1>7, <1>8, <1>9, <1>10, <1>11,
     <1>12, <1>13 DEF Next, Main, CheckTask, Idle
-----------------------------------------------------------------------------
ReportInv == ReportCounts /\ ResultsInRequestOrder

(* The empty report tells of no task.                                      *)
LEMMA ReportInit == Init => ReportInv
<1> SUFFICES ASSUME Init PROVE ReportInv
  OBVIOUS
<1>1. /\ joined = {} /\ results = <<>>
      /\ checksCompleted = 0 /\ checksPassed = 0 /\ checksFailed = 0
  BY DEF Init, NewApiState
<1>2. /\ WithResult(joined) = {}
      /\ {t \in joined : task[t] = "passed"} = {}
      /\ {t \in joined : task[t] = "failed"} = {}
  BY <1>1 DEF WithResult
<1>3. Cardinality({}) = 0
  BY FS_EmptySet
<1>4. Range(results) = {}
  BY <1>1 DEF Range
<1>5. Len(results) = 0 /\ DOMAIN results = {}
  BY <1>1
<1> QED
  BY <1>1, <1>2, <1>3, <1>4, <1>5
     DEF ReportInv, ReportCounts, ResultsInRequestOrder

(* A step that collects nothing and leaves the collected tasks, the        *)
(* results and their counters alone leaves the report right.               *)
LEMMA ReportKept ==
    ASSUME ReportInv,
           joined' = joined,
           \A x \in joined : task'[x] = task[x],
           UNCHANGED <<checksCompleted, checksPassed, checksFailed, results>>
    PROVE  ReportInv'
<1>1. /\ WithResult(joined)' = WithResult(joined)
      /\ {t \in joined : task[t] = "passed"}' = {t \in joined : task[t] = "passed"}
      /\ {t \in joined : task[t] = "failed"}' = {t \in joined : task[t] = "failed"}
  BY DEF WithResult
<1>2. \A r \in Range(results) : r.task \in joined
  BY DEF ReportInv, ReportCounts, WithResult
<1>3. ReportCounts'
  BY <1>1, <1>2 DEF ReportInv, ReportCounts
<1>4. ResultsInRequestOrder'
  BY DEF ReportInv, ResultsInRequestOrder
<1> QED
  BY <1>3, <1>4 DEF ReportInv

(* Recording the result of the first task not joined yet appends it once,  *)
(* counts it once, and keeps the results in the order of the tasks.        *)
LEMMA ReportCollected ==
    ASSUME TypeOK, RunPhases, ReportInv, NEW t \in Task, CollectResult(t)
    PROVE  ReportInv'
<1> DEFINE new == [task |-> t, passed |-> (task[t] = "passed")]
           P == {x \in joined : task[x] = "passed"}
           F == {x \in joined : task[x] = "failed"}
           W == WithResult(joined)
<1>1. /\ t \in plan \ joined
      /\ task[t] \in {"passed", "failed"}
      /\ joined' = joined \cup {t}
      /\ task' = task
      /\ results' = Append(results, new)
      /\ checksCompleted' = checksCompleted + 1
  BY DEF CollectResult, Awaits, IsFirst, RecordResult
<1>2. /\ IsFiniteSet(P) /\ IsFiniteSet(F) /\ IsFiniteSet(W)
      /\ Cardinality(P) \in Nat /\ Cardinality(F) \in Nat /\ Cardinality(W) \in Nat
  <2>1. P \in SUBSET Task /\ F \in SUBSET Task /\ W \in SUBSET Task
    BY DEF TypeOK, WithResult
  <2> QED
    BY <2>1, TasksFinite
<1>3. W' = W \cup {t} /\ Cardinality(W') = Cardinality(W) + 1
  <2>1. W' = W \cup {t} /\ t \notin W
    BY <1>1 DEF WithResult
  <2> QED
    BY <1>2, <2>1, FS_AddElement
<1>4. /\ checksPassed' = Cardinality(P')
      /\ checksFailed' = Cardinality(F')
  <2>1. checksPassed = Cardinality(P) /\ checksFailed = Cardinality(F)
    BY DEF ReportInv, ReportCounts
  <2>2. CASE task[t] = "passed"
    <3>1. P' = P \cup {t} /\ F' = F /\ t \notin P
      BY <1>1, <2>2
    <3>2. checksPassed' = checksPassed + 1 /\ checksFailed' = checksFailed
      BY <2>2 DEF CollectResult, RecordResult
    <3> QED
      BY <1>2, <2>1, <3>1, <3>2, FS_AddElement
  <2>3. CASE task[t] = "failed"
    <3>1. F' = F \cup {t} /\ P' = P /\ t \notin F
      BY <1>1, <2>3
    <3>2. checksFailed' = checksFailed + 1 /\ checksPassed' = checksPassed
      BY <2>3 DEF CollectResult, RecordResult
    <3> QED
      BY <1>2, <2>1, <3>1, <3>2, FS_AddElement
  <2> QED
    BY <1>1, <2>2, <2>3
<1>5. /\ results \in Seq([task : Task, passed : BOOLEAN])
      /\ new \in [task : Task, passed : BOOLEAN]
  BY DEF TypeOK
<1>6. /\ Len(results') = Len(results) + 1
      /\ DOMAIN results = 1 .. Len(results)
      /\ DOMAIN results' = 1 .. (Len(results) + 1)
      /\ Len(results) \in Nat
      /\ \A i \in 1 .. Len(results) : results'[i] = results[i]
      /\ results'[Len(results) + 1] = new
  BY <1>1, <1>5
<1>7. Range(results') = Range(results) \cup {new}
  BY <1>6 DEF Range
<1>8. \A r \in Range(results) : r.task \in joined
  BY DEF ReportInv, ReportCounts, WithResult
<1>9. ReportCounts'
  <2>a. new.task = t /\ new.passed = (task[t] = "passed")
    OBVIOUS
  <2>b. /\ W = {r.task : r \in Range(results)}
        /\ \A r \in Range(results) : r.passed <=> task[r.task] = "passed"
    BY DEF ReportInv, ReportCounts
  <2> HIDE DEF new, W
  <2>1. {r.task : r \in Range(results')} = W'
    BY <1>3, <1>7, <2>a, <2>b
  <2>2. \A r \in Range(results') : r.passed <=> task'[r.task] = "passed"
    BY <1>1, <1>7, <2>a, <2>b
  <2>3. checksCompleted' = Len(results') /\ checksCompleted' = Cardinality(W')
    BY <1>1, <1>2, <1>3, <1>6 DEF ReportInv, ReportCounts, W
  <2> QED
    BY <1>4, <2>1, <2>2, <2>3 DEF ReportCounts, W
<1>10. ResultsInRequestOrder'
  <2> SUFFICES ASSUME NEW i \in DOMAIN results', NEW j \in DOMAIN results', i < j
               PROVE  results'[i].task < results'[j].task
    BY DEF ResultsInRequestOrder
  <2>1. CASE j \in 1 .. Len(results)
    BY <1>6, <2>1 DEF ReportInv, ResultsInRequestOrder
  <2>2. CASE j = Len(results) + 1
    <3>1. i \in 1 .. Len(results) /\ results'[i] = results[i] /\ results'[j] = new
      BY <1>6, <2>2
    <3>2. results[i].task \in joined
      BY <1>6, <1>8, <3>1 DEF Range
    <3> QED
      BY <1>1, <3>1, <3>2 DEF RunPhases
  <2> QED
    BY <1>6, <2>1, <2>2
<1> QED
  BY <1>9, <1>10 DEF ReportInv

(* Every step keeps the report right: CollectResult and CollectError are   *)
(* the only ones that change what it is compared with.                     *)
LEMMA ReportStep ==
    TypeOK /\ RunPhases /\ ReportInv /\ [Next]_vars => ReportInv'
<1> SUFFICES ASSUME TypeOK, RunPhases, ReportInv, [Next]_vars
             PROVE  ReportInv'
  OBVIOUS
<1> USE DEF optionVars, mainVars, apiVars
<1>1. CASE LoadConfig
  BY <1>1, ReportKept DEF LoadConfig
<1>2. CASE PrepareBatches
  BY <1>2, ReportKept DEF PrepareBatches
<1>3. CASE SelectChecks
  BY <1>3, ReportKept DEF SelectChecks, SetTotalChecks
<1>4. CASE StartServer
  BY <1>4, ReportKept DEF StartServer
<1>5. CASE CompleteRun
  BY <1>5, ReportKept DEF CompleteRun, Complete
<1>6. CASE Leave
  BY <1>6, ReportKept DEF Leave
<1>7. ASSUME NEW t \in Task, SpawnCheck(t)
      PROVE  ReportInv'
  <2>1. joined = {} /\ joined' = joined
    BY <1>7 DEF SpawnCheck, RunPhases
  <2> QED
    BY <1>7, <2>1, ReportKept DEF SpawnCheck
<1>8. ASSUME NEW t \in Task, CollectResult(t)
      PROVE  ReportInv'
  BY <1>8, ReportCollected
<1>9. ASSUME NEW t \in Task, CollectError(t)
      PROVE  ReportInv'
  <2>1. /\ joined' = joined \cup {t}
        /\ task' = task
        /\ task[t] \notin {"passed", "failed"}
        /\ UNCHANGED apiVars
    BY <1>9 DEF CollectError
  <2>2. /\ WithResult(joined)' = WithResult(joined)
        /\ {x \in joined : task[x] = "passed"}' = {x \in joined : task[x] = "passed"}
        /\ {x \in joined : task[x] = "failed"}' = {x \in joined : task[x] = "failed"}
    BY <2>1 DEF WithResult
  <2> QED
    BY <2>1, <2>2 DEF ReportInv, ReportCounts, ResultsInRequestOrder
<1>10. ASSUME NEW t \in Task, StartCheck(t)
       PROVE  ReportInv'
  <2>1. t \notin joined /\ \A x \in joined : task'[x] = task[x]
    BY <1>10 DEF StartCheck, RunPhases, Outcome, TypeOK
  <2> QED
    BY <1>10, <2>1, ReportKept DEF StartCheck, MarkStarted
<1>11. ASSUME NEW t \in Task, FinishCheck(t)
       PROVE  ReportInv'
  <2>1. t \notin joined /\ \A x \in joined : task'[x] = task[x]
    BY <1>11 DEF FinishCheck, RunPhases, Outcome, TypeOK
  <2> QED
    BY <1>11, <2>1, ReportKept DEF FinishCheck
<1>12. CASE BindServer
  BY <1>12, ReportKept DEF BindServer
<1>13. CASE UNCHANGED vars
  BY <1>13, ReportKept DEF vars
<1> QED
  BY <1>1, <1>2, <1>3, <1>4, <1>5, <1>6, <1>7, <1>8, <1>9, <1>10, <1>11,
     <1>12, <1>13 DEF Next, Main, CheckTask, Idle
-----------------------------------------------------------------------------
(* No check is current before any has started.                             *)
LEMMA CurrentInit == Init => CurrentHasStarted
BY DEF Init, NewApiState, CurrentHasStarted

(* A check becomes current as it starts; a recorded result, its own or     *)
(* another's, and the verdict leave none.                                  *)
LEMMA CurrentStep ==
    TypeOK /\ RunPhases /\ CurrentHasStarted /\ [Next]_vars => CurrentHasStarted'
<1> SUFFICES ASSUME TypeOK, RunPhases, CurrentHasStarted, [Next]_vars
             PROVE  CurrentHasStarted'
  OBVIOUS
<1> USE DEF optionVars, mainVars, apiVars, WithResult, Requested
<1>1. ASSUME UNCHANGED <<filter, plan, joined, currentCheck, status, task>>
      PROVE  CurrentHasStarted'
  BY <1>1 DEF CurrentHasStarted
<1>2. CASE LoadConfig \/ PrepareBatches \/ StartServer \/ Leave \/ BindServer
           \/ UNCHANGED vars
  BY <1>1, <1>2 DEF LoadConfig, PrepareBatches, StartServer, Leave, BindServer, vars
<1>3. CASE SelectChecks
  <2>1. currentCheck = None
    BY <1>3 DEF SelectChecks, RunPhases, CurrentHasStarted
  <2> QED
    BY <1>3, <2>1 DEF SelectChecks, SetTotalChecks, CurrentHasStarted
<1>4. CASE CompleteRun
  BY <1>4 DEF CompleteRun, Complete, CurrentHasStarted
<1>5. ASSUME NEW t \in Task, SpawnCheck(t)
      PROVE  CurrentHasStarted'
  BY <1>5 DEF SpawnCheck, IsFirst, Unspawned, CurrentHasStarted, TypeOK, RunPhases
<1>6. ASSUME NEW t \in Task, CollectResult(t)
      PROVE  CurrentHasStarted'
  BY <1>6 DEF CollectResult, RecordResult, CurrentHasStarted
<1>7. ASSUME NEW t \in Task, CollectError(t)
      PROVE  CurrentHasStarted'
  BY <1>7 DEF CollectError, CurrentHasStarted
<1>8. ASSUME NEW t \in Task, StartCheck(t)
      PROVE  CurrentHasStarted'
  <2>1. /\ t \in plan \ joined
        /\ task'[t] = "running"
        /\ currentCheck' = Requested[t]
        /\ UNCHANGED <<filter, plan, joined, status>>
    BY <1>8 DEF StartCheck, MarkStarted, RunPhases, TypeOK, Outcome
  <2>2. status = "running"
    BY <1>8, <2>1 DEF RunPhases
  <2> QED
    BY <2>1, <2>2 DEF CurrentHasStarted
<1>9. ASSUME NEW t \in Task, FinishCheck(t)
      PROVE  CurrentHasStarted'
  <2>1. PICK o \in Outcome : task' = [task EXCEPT ![t] = o]
    BY <1>9 DEF FinishCheck
  <2>2. /\ task[t] = "running" /\ t \notin joined
        /\ UNCHANGED <<filter, plan, joined, status, currentCheck>>
    BY <1>9 DEF FinishCheck, RunPhases, Outcome
  <2>3. \A u \in plan \ WithResult(joined) :
           task[u] \notin {"none", "spawned"} =>
              u \notin WithResult(joined)' /\ task'[u] \notin {"none", "spawned"}
    BY <2>1, <2>2 DEF TypeOK, Outcome
  <2> QED
    BY <2>2, <2>3 DEF CurrentHasStarted
<1> QED
  BY <1>2, <1>3, <1>4, <1>5, <1>6, <1>7, <1>8, <1>9 DEF Next, Main, CheckTask, Idle
-----------------------------------------------------------------------------
IInv == TypeOK /\ RunPhases /\ ReportInv /\ CurrentHasStarted

(* It holds at first, and every step keeps it.                             *)
LEMMA InvariantInit == Init => IInv
BY TypeInit, PhasesInit, ReportInit, CurrentInit DEF IInv

(* Every step of run_checks, of its tasks and of the server keeps it.      *)
LEMMA InvariantStep == IInv /\ [Next]_vars => IInv'
BY TypeStep, PhasesStep, ReportStep, CurrentStep DEF IInv

(* The inductive invariant holds in every reachable state.                 *)
LEMMA Invariant == SafetySpec => []IInv
BY InvariantInit, InvariantStep, PTL DEF SafetySpec

(* Every variable keeps its type: in particular current_check always names *)
(* a registered check, even when a filter names unknown ones.              *)
THEOREM TypeCorrect == SafetySpec => []TypeOK
<1>1. IInv => TypeOK
  BY DEF IInv
<1> QED
  BY <1>1, Invariant, PTL

(* The served report holds each collected result once, with its verdict,   *)
(* its counters count exactly those (record_result and main's loop), and a *)
(* check called current has started and has no result there.               *)
THEOREM ReportCorrect == SafetySpec => []ReportMatchesTasks
<1>1. IInv => ReportMatchesTasks
  BY DEF IInv, ReportInv, ReportMatchesTasks
<1> QED
  BY <1>1, Invariant, PTL

(* Results are served in the order the checks were requested.              *)
THEOREM OrderCorrect == SafetySpec => []ResultsInRequestOrder
<1>1. IInv => ResultsInRequestOrder
  BY DEF IInv, ReportInv
<1> QED
  BY <1>1, Invariant, PTL

(* The verdict is published only after every task has been collected, and  *)
(* it is "completed" exactly when all of them passed.                      *)
THEOREM VerdictCorrect == SafetySpec => []VerdictSound
<1>1. IInv => VerdictSound
  <2> SUFFICES ASSUME IInv, status # "running" PROVE VerdictSound
    BY DEF VerdictSound
  <2>1. joined = plan
    BY DEF IInv, RunPhases
  <2>2. status = "completed" <=> \A t \in joined : task[t] = "passed"
    BY DEF IInv, RunPhases
  <2> QED
    BY <2>1, <2>2 DEF VerdictSound
<1> QED
  BY <1>1, Invariant, PTL

(* The exit code of the process tells the verdict.                         *)
THEOREM ExitCodeCorrect == SafetySpec => []ExitCodeSound
<1>1. IInv => ExitCodeSound
  <2> SUFFICES ASSUME IInv, pc = "exited" PROVE ExitCodeSound
    BY DEF ExitCodeSound
  <2>1. joined = plan /\ \A t \in plan : task[t] \in Outcome
    BY DEF IInv, RunPhases
  <2>2. plan # {} => (exitCode = 0 <=> allPassed)
    BY DEF IInv, RunPhases
  <2>3. allPassed <=> \A t \in plan : task[t] = "passed"
    BY <2>1 DEF IInv, RunPhases
  <2>4. plan # {} => (status = "completed" <=> allPassed)
    BY DEF IInv, RunPhases
  <2> QED
    BY <2>1, <2>2, <2>3, <2>4 DEF ExitCodeSound
<1> QED
  BY <1>1, Invariant, PTL

(* With a verdict out, no task is left to start or to collect.             *)
LEMMA FrozenStep == IInv /\ [Next]_vars => (status # "running" => UNCHANGED apiVars)
<1> SUFFICES ASSUME IInv, [Next]_vars, status # "running"
             PROVE  UNCHANGED apiVars
  OBVIOUS
<1>1. /\ pc \in {"report", "keepalive", "exited"}
      /\ \A t \in Task : task[t] # "spawned"
  BY DEF IInv, RunPhases, Outcome
<1> QED
  BY <1>1 DEF Next, Main, CheckTask, Idle, vars, LoadConfig, PrepareBatches,
     SelectChecks, StartServer, CompleteRun, Leave, SpawnCheck, CollectResult,
     CollectError, Awaits, StartCheck, FinishCheck, BindServer

(* Nothing the API serves changes after the verdict.                       *)
THEOREM ReportFrozen == SafetySpec => FrozenAfterVerdict
BY FrozenStep, Invariant, PTL DEF SafetySpec, FrozenAfterVerdict
-----------------------------------------------------------------------------
(* The refinement mapping's view of the tasks.                             *)
Ended(t) == IF task[t] \in Outcome THEN task[t] ELSE "pending"

(* Before anything is loaded, nothing is planned and nothing is announced. *)
LEMMA PromiseInit == Init => Promise!Init
<1> SUFFICES ASSUME Init PROVE Promise!Init
  OBVIOUS
<1>1. \A t \in Task : task[t] \notin Outcome
  BY DEF Init, Outcome
<1> QED
  BY <1>1 DEF Init, NewApiState, Promise!Init

(* A step that leaves alone the plan, the ended tasks and the verdict is a *)
(* stutter of the promise.                                                 *)
LEMMA PromiseStutter ==
    ASSUME UNCHANGED <<plan, status>>,
           \A t \in Task : Ended(t)' = Ended(t)
    PROVE  UNCHANGED Promise!vars
BY DEF Promise!vars, Ended

(* Every step of run_checks is a step of the promise or a stutter.         *)
LEMMA PromiseStep == IInv /\ [Next]_vars => [Promise!Next]_(Promise!vars)
<1> SUFFICES ASSUME IInv, [Next]_vars
             PROVE  [Promise!Next]_(Promise!vars)
  OBVIOUS
<1> USE DEF optionVars, mainVars, apiVars
<1>1. CASE LoadConfig
  BY <1>1, PromiseStutter DEF LoadConfig, Ended
<1>2. CASE PrepareBatches
  BY <1>2, PromiseStutter DEF PrepareBatches, Ended
<1>3. CASE SelectChecks
  <2>1. plan = {} /\ status' = status /\ task' = task /\ plan' = Selected
    BY <1>3 DEF SelectChecks, SetTotalChecks, IInv, RunPhases
  <2>2. CASE Selected = {}
    BY <2>1, <2>2, PromiseStutter DEF Ended
  <2>3. CASE Selected # {}
    <3>1. Selected \in SUBSET Task
      BY SelectedInTask DEF IInv
    <3>2. Promise!Plan
      BY <2>1, <2>3, <3>1 DEF Promise!Plan
    <3> QED
      BY <3>2 DEF Promise!Next
  <2> QED
    BY <2>2, <2>3
<1>4. CASE StartServer
  BY <1>4, PromiseStutter DEF StartServer, Ended
<1>5. CASE CompleteRun
  <2>1. /\ plan # {} /\ status = "running" /\ joined = plan
        /\ UNCHANGED <<plan, task>>
        /\ status' = IF allPassed THEN "completed" ELSE "failed"
    BY <1>5 DEF CompleteRun, Complete, IInv, RunPhases
  <2>2. \A t \in plan : task[t] \in Outcome /\ t \in Task
    BY <2>1 DEF IInv, RunPhases, TypeOK
  <2>3. allPassed <=> \A t \in plan : task[t] = "passed"
    BY <2>1 DEF IInv, RunPhases
  <2>4. Promise!Announce
    BY <2>1, <2>2, <2>3 DEF Promise!Announce, Outcome
  <2> QED
    BY <2>4 DEF Promise!Next
<1>6. CASE Leave
  BY <1>6, PromiseStutter DEF Leave, Ended
<1>7. ASSUME NEW t \in Task, SpawnCheck(t)
      PROVE  UNCHANGED Promise!vars
  <2>1. task[t] = "none" /\ task' = [task EXCEPT ![t] = "spawned"]
    BY <1>7 DEF SpawnCheck, IsFirst, Unspawned
  <2>2. \A u \in Task : Ended(u)' = Ended(u)
    BY <2>1 DEF Ended, Outcome, IInv, TypeOK
  <2> QED
    BY <1>7, <2>2, PromiseStutter DEF SpawnCheck
<1>8. ASSUME NEW t \in Task, CollectResult(t)
      PROVE  UNCHANGED Promise!vars
  BY <1>8, PromiseStutter DEF CollectResult, RecordResult, Ended
<1>9. ASSUME NEW t \in Task, CollectError(t)
      PROVE  UNCHANGED Promise!vars
  BY <1>9, PromiseStutter DEF CollectError, Ended
<1>10. ASSUME NEW t \in Task, StartCheck(t)
       PROVE  UNCHANGED Promise!vars
  <2>1. \A u \in Task : Ended(u)' = Ended(u)
    BY <1>10 DEF StartCheck, Ended, Outcome, IInv, TypeOK
  <2> QED
    BY <1>10, <2>1, PromiseStutter DEF StartCheck, MarkStarted
<1>11. ASSUME NEW t \in Task, FinishCheck(t)
       PROVE  Promise!Next
  <2>1. PICK o \in Outcome : task' = [task EXCEPT ![t] = o]
    BY <1>11 DEF FinishCheck
  <2>2. t \in plan /\ task[t] \notin Outcome /\ UNCHANGED <<plan, status>>
    BY <1>11 DEF FinishCheck, IInv, RunPhases, Outcome
  <2>3. /\ Ended(t) = "pending"
        /\ \A u \in Task : Ended(u)' = IF u = t THEN o ELSE Ended(u)
    BY <2>1, <2>2 DEF Ended, IInv, TypeOK
  <2>4. o \in Promise!Outcome
    BY DEF Outcome, Promise!Outcome
  <2>5. [u \in Task |-> Ended(u)]' = [[u \in Task |-> Ended(u)] EXCEPT ![t] = o]
    BY <2>3
  <2>6. Promise!Finish(t)
    BY <2>2, <2>3, <2>4, <2>5 DEF Promise!Finish, Ended
  <2> QED
    BY <2>6 DEF Promise!Next
<1>12. CASE BindServer
  BY <1>12, PromiseStutter DEF BindServer, Ended
<1>13. CASE UNCHANGED vars
  BY <1>13, PromiseStutter DEF vars, Ended
<1> QED
  BY <1>1, <1>2, <1>3, <1>4, <1>5, <1>6, <1>7, <1>8, <1>9, <1>10, <1>11,
     <1>12, <1>13 DEF Next, Main, CheckTask, Idle

(* run_checks keeps the abstract promise (its safety part): a verdict is   *)
(* announced once, after every planned check has ended, and rightly.       *)
THEOREM RunImplementsPromise == SafetySpec => Promise!SafetySpec
BY PromiseInit, PromiseStep, Invariant, PTL DEF SafetySpec, Promise!SafetySpec
-----------------------------------------------------------------------------
(***************************************************************************)
(* Of the API: what a client may conclude from an answer, though /results  *)
(* and /metrics read the state twice while the runner goes on.             *)
(***************************************************************************)
Result == [task : Task, passed : BOOLEAN]

(* Appending a result lengthens the list by one and adds it to the passed  *)
(* ones or not; what was counted before is still a prefix.                 *)
LEMMA PassedAppended ==
    ASSUME NEW rs \in Seq(Result), NEW r \in Result
    PROVE  /\ PassedAmong(Append(rs, r)) =
                IF r.passed THEN PassedAmong(rs) + 1 ELSE PassedAmong(rs)
           /\ PassedAmong(rs) \in Nat
<1> DEFINE P == {i \in DOMAIN rs : rs[i].passed}
           Q == {i \in DOMAIN Append(rs, r) : Append(rs, r)[i].passed}
<1>1. /\ Len(rs) \in Nat /\ DOMAIN rs = 1..Len(rs)
      /\ DOMAIN Append(rs, r) = 1..(Len(rs) + 1)
      /\ \A i \in 1..Len(rs) : Append(rs, r)[i] = rs[i]
      /\ Append(rs, r)[Len(rs) + 1] = r
  OBVIOUS
<1>2. IsFiniteSet(P) /\ Cardinality(P) \in Nat
  <2>1. IsFiniteSet(1..Len(rs)) /\ P \in SUBSET (1..Len(rs))
    BY <1>1, FS_Interval
  <2> QED
    BY <2>1, FS_Subset, FS_CardinalityType
<1>3. Q = IF r.passed THEN P \cup {Len(rs) + 1} ELSE P
  BY <1>1
<1>4. Len(rs) + 1 \notin P
  BY <1>1
<1> HIDE DEF P, Q
<1>5. Cardinality(Q) = IF r.passed THEN Cardinality(P) + 1 ELSE Cardinality(P)
  BY <1>2, <1>3, <1>4, FS_AddElement
<1> QED
  BY <1>2, <1>5 DEF P, Q, PassedAmong

(* A result more leaves the first ones as they were.                       *)
LEMMA PrefixKept ==
    ASSUME NEW rs \in Seq(Result), NEW r \in Result, NEW k \in Nat, k <= Len(rs)
    PROVE  SubSeq(Append(rs, r), 1, k) = SubSeq(rs, 1, k)
<1> DEFINE s == SubSeq(Append(rs, r), 1, k)
           t == SubSeq(rs, 1, k)
<1>1. /\ Len(rs) \in Nat
      /\ \A i \in 1..k : /\ Append(rs, r)[i] = rs[i]
                         /\ rs[i] \in Result
                         /\ Append(rs, r)[i] \in Result
  OBVIOUS
<1>2. /\ s \in Seq(Result) /\ Len(s) = k
      /\ \A i \in 1..k : s[i] = Append(rs, r)[i]
  BY <1>1, SubSeqProperties
<1>3. /\ t \in Seq(Result) /\ Len(t) = k
      /\ \A i \in 1..k : t[i] = rs[i]
  BY <1>1, SubSeqProperties
<1> HIDE DEF s, t
<1>4. s = t
  BY <1>1, <1>2, <1>3, SeqEqual
<1> QED
  BY <1>4 DEF s, t
-----------------------------------------------------------------------------
(* The counter of passed checks counts the results that passed.            *)
PassedAreListed == checksPassed = PassedAmong(results)

(* What the runner does to the results: nothing, or it appends one and     *)
(* counts it.                                                              *)
LEMMA RunnerStep ==
    ASSUME IInv, [Next]_vars
    PROVE  \/ UNCHANGED <<results, checksCompleted, checksPassed>>
           \/ \E r \in Result :
                 /\ results' = Append(results, r)
                 /\ checksCompleted' = checksCompleted + 1
                 /\ checksPassed' = IF r.passed THEN checksPassed + 1 ELSE checksPassed
<1>1. ASSUME NEW t \in Task, CollectResult(t)
      PROVE  \E r \in Result :
                 /\ results' = Append(results, r)
                 /\ checksCompleted' = checksCompleted + 1
                 /\ checksPassed' = IF r.passed THEN checksPassed + 1 ELSE checksPassed
  <2> DEFINE r == [task |-> t, passed |-> (task[t] = "passed")]
  <2>1. r \in Result /\ r.passed = (task[t] = "passed")
    BY DEF Result
  <2>2. /\ results' = Append(results, r)
        /\ checksCompleted' = checksCompleted + 1
        /\ checksPassed' = IF task[t] = "passed" THEN checksPassed + 1 ELSE checksPassed
    BY <1>1 DEF CollectResult, RecordResult
  <2> QED
    BY <2>1, <2>2
<1>2. ASSUME ~ \E t \in Task : CollectResult(t)
      PROVE  UNCHANGED <<results, checksCompleted, checksPassed>>
  BY <1>2 DEF Next, Main, CheckTask, Idle, vars, apiVars, LoadConfig,
     PrepareBatches, SelectChecks, SetTotalChecks, StartServer, CompleteRun,
     Complete, Leave, SpawnCheck, CollectError, StartCheck, MarkStarted,
     FinishCheck, BindServer
<1> QED
  BY <1>1, <1>2
-----------------------------------------------------------------------------
(* What a scrape may contain: its counters count a prefix of its list, and *)
(* all of it once there is a verdict.                                      *)
Counted(resp, listed) ==
    /\ resp.completed \in Nat
    /\ resp.completed <= Len(listed)
    /\ resp.passed = PassedAmong(SubSeq(listed, 1, resp.completed))
    /\ resp.status # "running" => resp.completed = Len(listed)

(* What a handler has read still holds of the state, as far as it answers  *)
(* with it, and a 200 shows the state for good.                            *)
InStep(h, a) ==
    /\ (h.kind = "results" /\ h.status # "running") => h.status = status
    /\ (a.kind = "results" /\ a.code = 200) =>
           /\ status # "running"
           /\ a = [kind |-> "results", code |-> 200, status |-> status, results |-> results]
           /\ h.kind = "results" => h.status # "running"
    /\ h.kind = "metrics" =>
           /\ Counted(h.response, results)
           /\ h.response.status # "running" => status # "running"
    /\ a.kind = "metrics" => Counted(a.response, a.results)

AnswersInStep ==
    /\ DOMAIN handler = Client /\ DOMAIN answer = Client
    /\ \A c \in Client : InStep(handler[c], answer[c])

ApiInv == IInv /\ PassedAreListed /\ AnswersInStep

(* The counters read at one moment count the whole list of that moment.    *)
LEMMA ResponseCounts ==
    ASSUME IInv, PassedAreListed
    PROVE  Counted(StatusResponse, results)
<1>1. results \in Seq(Result) /\ checksCompleted = Len(results) /\ Len(results) \in Nat
  BY DEF IInv, TypeOK, ReportInv, ReportCounts, Result
<1>2. SubSeq(results, 1, Len(results)) = results
  BY <1>1, SubSeqFull
<1>3. /\ StatusResponse.completed = checksCompleted
      /\ StatusResponse.passed = checksPassed
  BY DEF StatusResponse
<1>4. SubSeq(results, 1, StatusResponse.completed) = results
  BY <1>1, <1>2, <1>3
<1>5. StatusResponse.passed = PassedAmong(results)
  BY <1>3 DEF PassedAreListed
<1>6. /\ StatusResponse.completed \in Nat
      /\ StatusResponse.completed = Len(results)
  BY <1>1, <1>3
<1>7. /\ StatusResponse.completed <= Len(results)
  BY <1>1, <1>6
<1>8. StatusResponse.passed = PassedAmong(SubSeq(results, 1, StatusResponse.completed))
  BY <1>4, <1>5
<1> QED
  BY <1>6, <1>7, <1>8 DEF Counted

(* A step of the runner does not contradict what a handler has read: a     *)
(* result it appends comes after those counted, and none comes after a     *)
(* verdict.                                                                *)
LEMMA RunnerKeepsAnswers ==
    ASSUME ApiInv, Next, UNCHANGED apiTasks
    PROVE  ApiInv'
<1> USE DEF ApiInv
<1>1. IInv'
  BY InvariantStep
<1>2. results \in Seq(Result) /\ Len(results) \in Nat
  BY DEF IInv, TypeOK, Result
<1>3. status # "running" => results' = results /\ status' = status
  BY FrozenStep DEF apiVars
<1>4. PassedAreListed'
  BY <1>2, RunnerStep, PassedAppended DEF PassedAreListed
<1>5. ASSUME NEW resp, Counted(resp, results), resp.status # "running" => status # "running"
      PROVE  Counted(resp, results')
  <2>1. CASE results' = results
    BY <1>5, <2>1
  <2>2. ASSUME NEW r \in Result, results' = Append(results, r)
        PROVE  Counted(resp, results')
    <3>1. results' # results
      BY <1>2, <2>2
    <3>2. resp.status = "running"
      BY <1>3, <1>5, <3>1
    <3>3. Len(results') = Len(results) + 1
      BY <1>2, <2>2
    <3>4. SubSeq(results', 1, resp.completed) = SubSeq(results, 1, resp.completed)
      BY <1>2, <1>5, <2>2, PrefixKept DEF Counted
    <3>5. /\ resp.completed \in Nat /\ resp.completed <= Len(results)
          /\ resp.passed = PassedAmong(SubSeq(results, 1, resp.completed))
      BY <1>5 DEF Counted
    <3>6. resp.completed <= Len(results')
      BY <1>2, <3>3, <3>5
    <3> QED
      BY <3>2, <3>4, <3>5, <3>6 DEF Counted
  <2> QED
    BY <2>1, <2>2, RunnerStep
<1>6. AnswersInStep'
  <2>1. ASSUME NEW h, NEW a, InStep(h, a)
        PROVE  InStep(h, a)'
    BY <1>3, <1>5, <2>1 DEF InStep
  <2> QED
    BY <2>1 DEF AnswersInStep, apiTasks
<1> QED
  BY <1>1, <1>4, <1>6

(* A handler changes what it, and its client, know, and nothing else.      *)
LEMMA HandlerStep ==
    ASSUME ApiInv, NEW c \in Client, Handlers(c)
    PROVE  ApiInv'
<1> USE DEF ApiInv
<1>1. UNCHANGED vars
  BY DEF Handlers, AnswerHealth, AnswerStatus, ResultsHandler, MetricsHandler
<1>2. IInv' /\ PassedAreListed'
  <2>1. IInv'
    BY <1>1, InvariantStep
  <2> QED
    BY <1>1, <2>1 DEF PassedAreListed, vars, apiVars
<1>3. UNCHANGED <<status, results>>
  BY <1>1 DEF vars, apiVars
<1>4. Counted(StatusResponse, results) /\ StatusResponse.status = status
  BY ResponseCounts DEF StatusResponse
<1>5. /\ DOMAIN handler' = Client /\ DOMAIN answer' = Client
      /\ \A d \in Client \ {c} : handler'[d] = handler[d] /\ answer'[d] = answer[d]
  BY DEF AnswersInStep, Handlers, AnswerHealth, AnswerStatus, ResultsHandler,
     MetricsHandler
<1>6. InStep(handler[c], answer[c])
  BY DEF AnswersInStep
<1>7. InStep(handler'[c], answer'[c])
  <2>1. CASE AnswerHealth(c)
    <3>1. handler'[c] = handler[c] /\ answer'[c] = [kind |-> "health", status |-> status]
      BY <2>1 DEF AnswerHealth, AnswersInStep
    <3> QED
      BY <1>6, <3>1 DEF InStep
  <2>2. CASE AnswerStatus(c)
    <3>1. /\ handler'[c] = handler[c]
          /\ answer'[c] = [kind |-> "status", response |-> StatusResponse]
      BY <2>2 DEF AnswerStatus, AnswersInStep
    <3> QED
      BY <1>6, <3>1 DEF InStep
  <2>3. CASE /\ ResultsHandler(c) /\ handler[c] = NoRequest
    <3>1. /\ handler'[c] = [kind |-> "results", status |-> status]
          /\ answer'[c] = answer[c]
      BY <2>3 DEF ResultsHandler, AnswersInStep, NoRequest
    <3> QED
      BY <1>6, <3>1 DEF InStep
  <2>4. CASE /\ ResultsHandler(c) /\ handler[c].kind = "results"
    <3>1. /\ handler'[c] = NoRequest
          /\ answer'[c] = [kind |-> "results", code |-> StatusCode(handler[c].status),
                           status |-> handler[c].status, results |-> results]
      BY <2>4 DEF ResultsHandler, AnswersInStep, NoRequest
    <3>2. StatusCode(handler[c].status) = 200 => handler[c].status # "running"
      BY DEF StatusCode
    <3> QED
      BY <1>6, <2>4, <3>1, <3>2 DEF InStep, NoRequest
  <2>5. CASE /\ MetricsHandler(c) /\ handler[c] = NoRequest
    <3>1. /\ handler'[c] = [kind |-> "metrics", response |-> StatusResponse]
          /\ answer'[c] = answer[c]
      BY <2>5 DEF MetricsHandler, AnswersInStep, NoRequest
    <3> QED
      BY <1>4, <1>6, <3>1 DEF InStep
  <2>6. CASE /\ MetricsHandler(c) /\ handler[c].kind = "metrics"
    <3>1. /\ handler'[c] = NoRequest
          /\ answer'[c] = [kind |-> "metrics", response |-> handler[c].response,
                           results |-> results]
      BY <2>6 DEF MetricsHandler, AnswersInStep, NoRequest
    <3> QED
      BY <1>6, <2>6, <3>1 DEF InStep, NoRequest
  <2> QED
    BY <2>1, <2>2, <2>3, <2>4, <2>5, <2>6 DEF Handlers, ResultsHandler, MetricsHandler
<1>8. \A d \in Client : InStep(handler'[d], answer'[d])
  BY <1>5, <1>7 DEF AnswersInStep
<1>9. \A h, a : InStep(h, a) => InStep(h, a)'
  BY <1>3 DEF InStep
<1>10. AnswersInStep'
  BY <1>5, <1>8, <1>9 DEF AnswersInStep
<1> QED
  BY <1>2, <1>10

(* It holds at first and is kept by every step.                            *)
LEMMA ApiInvariant == ApiSafetySpec => []ApiInv
<1>1. ApiInit => ApiInv
  <2> SUFFICES ASSUME ApiInit PROVE ApiInv
    OBVIOUS
  <2>1. IInv
    BY InvariantInit DEF ApiInit
  <2>2. PassedAreListed
    <3>1. checksPassed = 0 /\ results = <<>>
      BY DEF ApiInit, Init, NewApiState
    <3>2. {i \in DOMAIN results : results[i].passed} = {}
      BY <3>1
    <3> QED
      BY <3>1, <3>2, FS_EmptySet DEF PassedAreListed, PassedAmong
  <2>3. AnswersInStep
    BY DEF ApiInit, NoRequest, AnswersInStep, InStep
  <2> QED
    BY <2>1, <2>2, <2>3 DEF ApiInv
<1>2. ApiInv /\ [ApiNext]_allVars => ApiInv'
  <2> SUFFICES ASSUME ApiInv, [ApiNext]_allVars PROVE ApiInv'
    OBVIOUS
  <2>1. CASE Next /\ UNCHANGED apiTasks
    BY <2>1, RunnerKeepsAnswers
  <2>2. CASE \E c \in Client : Handlers(c)
    BY <2>2, HandlerStep
  <2>3. CASE UNCHANGED allVars
    <3>1. IInv'
      BY <2>3, InvariantStep DEF ApiInv, allVars
    <3> QED
      BY <2>3, <3>1 DEF ApiInv, allVars, vars, apiVars, apiTasks, AnswersInStep,
                        InStep, PassedAreListed
  <2> QED
    BY <2>1, <2>2, <2>3 DEF ApiNext
<1> QED
  BY <1>1, <1>2, PTL DEF ApiSafetySpec
-----------------------------------------------------------------------------
(* A 200 from /results is the final answer: it lists every check that      *)
(* returned a result, and its status agrees with the list.                 *)
THEOREM OkIsFinal == ApiSafetySpec => []OkMeansFinal
<1>1. ApiInv => OkMeansFinal
  <2> SUFFICES ASSUME ApiInv, NEW c \in Client,
                      answer[c].kind = "results", answer[c].code = 200
               PROVE  /\ {r.task : r \in Range(answer[c].results)} = WithResult(plan)
                      /\ answer[c].status = "completed" =>
                           PassedAmong(answer[c].results) = Cardinality(plan)
    BY DEF OkMeansFinal
  <2>1. /\ status # "running" /\ answer[c].status = status
        /\ answer[c].results = results
    BY DEF ApiInv, AnswersInStep, InStep
  <2>2. joined = plan
    BY <2>1 DEF ApiInv, IInv, RunPhases
  <2>3. {r.task : r \in Range(results)} = WithResult(plan)
    BY <2>2 DEF ApiInv, IInv, ReportInv, ReportCounts
  <2>4. ASSUME status = "completed"
        PROVE  PassedAmong(results) = Cardinality(plan)
    <3>1. \A t \in plan : task[t] = "passed"
      BY <2>1, <2>2, <2>4 DEF ApiInv, IInv, RunPhases
    <3>2. {t \in joined : task[t] = "passed"} = plan
      BY <2>2, <3>1
    <3> QED
      BY <3>2 DEF ApiInv, IInv, ReportInv, ReportCounts, PassedAreListed
  <2> QED
    BY <2>1, <2>3, <2>4
<1> QED
  BY <1>1, ApiInvariant, PTL

(* The counters of a scrape count a prefix of the results it lists.        *)
THEOREM MetricsCorrect == ApiSafetySpec => []MetricsListWhatTheyCount
<1>1. ApiInv => MetricsListWhatTheyCount
  BY DEF ApiInv, AnswersInStep, InStep, Counted, MetricsListWhatTheyCount
<1> QED
  BY <1>1, ApiInvariant, PTL

(* A 200 is never taken back: every later answer of /results is the same.  *)
THEOREM OkIsFinalForGood == ApiSafetySpec => OkIsNeverTakenBack
<1>1. ASSUME ApiInv, [ApiNext]_allVars, NEW c \in Client,
             answer[c].kind = "results", answer[c].code = 200,
             answer'[c].kind = "results"
      PROVE  answer'[c] = answer[c]
  <2>1. InStep(handler[c], answer[c]) /\ DOMAIN answer = Client
    BY <1>1 DEF ApiInv, AnswersInStep
  <2>2. CASE UNCHANGED answer
    BY <2>2
  <2>3. CASE \E d \in Client : Handlers(d)
    <3> PICK d \in Client : Handlers(d)
      BY <2>3
    <3>1. CASE d # c
      BY <2>1, <3>1 DEF Handlers, AnswerHealth, AnswerStatus, ResultsHandler, MetricsHandler
    <3>2. CASE d = c /\ ResultsHandler(c) /\ answer' # answer
      <4>1. /\ handler[c].kind = "results"
            /\ answer'[c] = [kind |-> "results", code |-> StatusCode(handler[c].status),
                             status |-> handler[c].status, results |-> results]
        BY <2>1, <3>2 DEF ResultsHandler
      <4>2. handler[c].status = status /\ handler[c].status # "running"
        BY <1>1, <2>1, <4>1 DEF InStep
      <4>3. StatusCode(handler[c].status) = 200
        BY <4>2 DEF StatusCode
      <4>4. answer[c] = [kind |-> "results", code |-> 200, status |-> status,
                         results |-> results]
        BY <1>1, <2>1 DEF InStep
      <4> QED
        BY <4>1, <4>2, <4>3, <4>4
    <3>3. CASE d = c /\ (AnswerHealth(c) \/ AnswerStatus(c) \/ MetricsHandler(c))
      BY <1>1, <2>1, <2>2, <3>3 DEF AnswerHealth, AnswerStatus, MetricsHandler
    <3> QED
      BY <2>2, <3>1, <3>2, <3>3 DEF Handlers
  <2> QED
    BY <1>1, <2>2, <2>3 DEF ApiNext, apiTasks, allVars
<1>2. ApiInv /\ [ApiNext]_allVars =>
        [\A c \in Client :
            (/\ answer[c].kind = "results" /\ answer[c].code = 200
             /\ answer'[c].kind = "results") => answer'[c] = answer[c]]_allVars
  BY <1>1
<1> QED
  BY <1>2, ApiInvariant, PTL DEF ApiSafetySpec, OkIsNeverTakenBack
=============================================================================
