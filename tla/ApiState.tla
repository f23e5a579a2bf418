------------------------------ MODULE ApiState ------------------------------
(***************************************************************************)
(* The state the status API serves: struct InnerState of src/api/state.rs  *)
(* and the methods of ApiState that change or read it.  Every method takes *)
(* the one RwLock for its whole body, so each is a single step here.       *)
(* Timestamps (started_at, completed_at) and the bodies of the             *)
(* CheckResults are left out: a result is the task that produced it and    *)
(* whether it passed.                                                      *)
(***************************************************************************)
EXTENDS Naturals, Sequences

CONSTANT None    \* Option::None of current_check

VARIABLES
    status,            \* ExecutionStatus
    checksTotal,
    checksCompleted,
    checksPassed,
    checksFailed,
    currentCheck,      \* a check's name, or None
    results            \* Vec<CheckResult>

apiVars == <<status, checksTotal, checksCompleted, checksPassed, checksFailed,
             currentCheck, results>>

ExecutionStatus == {"running", "completed", "failed"}

(* ApiState::new *)
NewApiState ==
    /\ status = "running"
    /\ checksTotal = 0
    /\ checksCompleted = 0
    /\ checksPassed = 0
    /\ checksFailed = 0
    /\ currentCheck = None
    /\ results = <<>>

SetTotalChecks(total) ==
    /\ checksTotal' = total
    /\ UNCHANGED <<status, checksCompleted, checksPassed, checksFailed,
                   currentCheck, results>>

(* Many checks run at once, but there is one current_check: the last one   *)
(* to start overwrites it.                                                 *)
MarkStarted(name) ==
    /\ currentCheck' = name
    /\ UNCHANGED <<status, checksTotal, checksCompleted, checksPassed,
                   checksFailed, results>>

(* Mutant: the result is appended but a failed one is not counted.         *)
RecordResultUncounted(task, passed) ==
    /\ checksPassed' = IF passed THEN checksPassed + 1 ELSE checksPassed
    /\ checksCompleted' = checksCompleted + 1
    /\ currentCheck' = None
    /\ results' = Append(results, [task |-> task, passed |-> passed])
    /\ UNCHANGED <<status, checksTotal, checksFailed>>

(* Mutant: results kept newest first.                                      *)
RecordResultInFront(task, passed) ==
    /\ IF passed THEN /\ checksPassed' = checksPassed + 1
                      /\ UNCHANGED checksFailed
                 ELSE /\ checksFailed' = checksFailed + 1
                      /\ UNCHANGED checksPassed
    /\ checksCompleted' = checksCompleted + 1
    /\ currentCheck' = None
    /\ results' = <<[task |-> task, passed |-> passed]>> \o results
    /\ UNCHANGED <<status, checksTotal>>

RecordResult(task, passed) ==
    /\ IF passed THEN /\ checksPassed' = checksPassed + 1
                      /\ UNCHANGED checksFailed
                 ELSE /\ checksFailed' = checksFailed + 1
                      /\ UNCHANGED checksPassed
    /\ checksCompleted' = checksCompleted + 1
    /\ currentCheck' = None
    /\ results' = Append(results, [task |-> task, passed |-> passed])
    /\ UNCHANGED <<status, checksTotal>>

Complete(success) ==
    /\ status' = IF success THEN "completed" ELSE "failed"
    /\ currentCheck' = None
    /\ UNCHANGED <<checksTotal, checksCompleted, checksPassed, checksFailed,
                   results>>

(* get_status_response: one consistent snapshot of everything but the      *)
(* results.                                                                *)
StatusResponse ==
    [status |-> status, total |-> checksTotal, completed |-> checksCompleted,
     passed |-> checksPassed, failed |-> checksFailed, current |-> currentCheck]
=============================================================================
