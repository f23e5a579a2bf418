----------------------------- MODULE TaskProofs -----------------------------
(***************************************************************************)
(* Proofs about ConcurrentTasks and, from them, about PingpongCheck, for   *)
(* every finite set of tasks and every number of retries.                  *)
(*                                                                         *)
(* Of the tasks: the bookkeeping of the joiner and the causes of what      *)
(* happens to a task are inductive, and what Ok and Err mean follows.      *)
(***************************************************************************)
EXTENDS PingpongCheck, FiniteSetTheorems, TLAPS

IInv == TypeOK /\ JoinerKeepsTrack /\ Causes

(* What appending to a queue, and taking its head off, do to it.           *)
LEMMA AppendToQueue ==
    ASSUME NEW q \in Seq(Task), NEW t \in Task
    PROVE  /\ Append(q, t) \in Seq(Task)
           /\ Len(q) \in Nat /\ DOMAIN q = 1..Len(q)
           /\ DOMAIN Append(q, t) = 1..(Len(q) + 1)
           /\ Len(Append(q, t)) = Len(q) + 1
           /\ \A i \in 1..Len(q) : Append(q, t)[i] = q[i]
           /\ Append(q, t)[Len(q) + 1] = t
  OBVIOUS

(* The joiner takes the first of the ended tasks; the others move up.      *)
LEMMA TakeFromQueue ==
    ASSUME NEW q \in Seq(Task), q # <<>>
    PROVE  /\ Head(q) = q[1] /\ Head(q) \in Task /\ 1 \in DOMAIN q
           /\ Tail(q) \in Seq(Task)
           /\ DOMAIN q = 1..Len(q) /\ Len(q) \in Nat \ {0}
           /\ DOMAIN Tail(q) = 1..(Len(q) - 1)
           /\ \A i \in 1..(Len(q) - 1) : Tail(q)[i] = q[i + 1]
<1>1. Len(q) \in Nat \ {0} /\ DOMAIN q = 1..Len(q)
  OBVIOUS
<1>2. Tail(q) \in Seq(Task) /\ Len(Tail(q)) = Len(q) - 1
  BY <1>1
<1> QED
  BY <1>1, <1>2
-----------------------------------------------------------------------------
(* A step of a task that goes on leaves the joiner's books right.          *)
LEMMA TrackGoesOn ==
    ASSUME TypeOK, JoinerKeepsTrack,
           NEW t \in Task, at[t] \notin Final,
           NEW p, p \notin Final, Goto(t, p),
           UNCHANGED <<ended, joinVars>>
    PROVE  JoinerKeepsTrack'
<1>1. at' \in [Task -> {at[u] : u \in Task} \cup {p}]
      /\ \A u \in Task : at'[u] = IF u = t THEN p ELSE at[u]
  BY DEF Goto, TypeOK
<1>2. t \notin joined
  BY DEF JoinerKeepsTrack
<1>3. {u \in joined : at'[u] = "ok"} = {u \in joined : at[u] = "ok"}
  BY <1>1, <1>2 DEF TypeOK
<1>4. \A u \in joined : at'[u] = at[u]
  BY <1>1, <1>2 DEF TypeOK
<1>5. Queued' = Queued
  BY DEF Queued
<1>6. \A u \in Task : at'[u] \in Final <=> at[u] \in Final
  BY <1>1
<1> QED
  BY <1>3, <1>4, <1>5, <1>6 DEF JoinerKeepsTrack, joinVars

(* A task that ends is queued, once.                                       *)
LEMMA TrackEnds ==
    ASSUME TypeOK, JoinerKeepsTrack,
           NEW t \in Task, at[t] \notin Final,
           NEW how \in Final, End(t, how),
           UNCHANGED joinVars
    PROVE  JoinerKeepsTrack'
<1>1. \A u \in Task : at'[u] = IF u = t THEN how ELSE at[u]
  BY DEF End, Goto, TypeOK
<1>2. t \notin joined /\ t \notin Queued
  BY DEF JoinerKeepsTrack
<1>3. \A u \in joined : at'[u] = at[u]
  BY <1>1, <1>2 DEF TypeOK
<1>4. /\ DOMAIN ended = 1..Len(ended) /\ Len(ended) \in Nat
      /\ DOMAIN ended' = 1..(Len(ended) + 1)
      /\ \A i \in 1..Len(ended) : ended'[i] = ended[i]
      /\ ended'[Len(ended) + 1] = t
  BY AppendToQueue DEF End, TypeOK
<1>5. Queued' = Queued \cup {t}
  BY <1>4 DEF Queued
<1>6. \A i, j \in DOMAIN ended' : i # j => ended'[i] # ended'[j]
  <2> SUFFICES ASSUME NEW i \in DOMAIN ended', NEW j \in DOMAIN ended', i < j
               PROVE  ended'[i] # ended'[j]
    BY <1>4
  <2>1. i \in 1..Len(ended) /\ ended'[i] = ended[i] /\ ended[i] \in Queued
    BY <1>4 DEF Queued
  <2>2. CASE j = Len(ended) + 1
    BY <1>2, <1>4, <2>1, <2>2
  <2>3. CASE j \in 1..Len(ended)
    BY <1>4, <2>1, <2>3 DEF JoinerKeepsTrack
  <2> QED
    BY <1>4, <2>2, <2>3
<1>7. \A u \in Task : at'[u] \in Final <=> u \in Queued' \cup joined
  BY <1>1, <1>5 DEF JoinerKeepsTrack
<1>8. {u \in joined : at'[u] = "ok"} = {u \in joined : at[u] = "ok"}
  BY <1>3
<1>9. joined' = joined /\ results' = results /\ firstError' = firstError
      /\ outcome' = outcome
  BY DEF joinVars
<1> QED
  BY <1>2, <1>3, <1>5, <1>6, <1>7, <1>8, <1>9 DEF JoinerKeepsTrack

(* Joining the first queued task moves it from the queue to the joined     *)
(* ones, and its result, or an error, is kept.                             *)
LEMMA TrackJoins ==
    ASSUME TypeOK, JoinerKeepsTrack, JoinNext
    PROVE  JoinerKeepsTrack'
<1> DEFINE t == Head(ended)
<1>1. /\ t = ended[1] /\ t \in Task /\ 1 \in DOMAIN ended
      /\ DOMAIN ended = 1..Len(ended) /\ Len(ended) \in Nat \ {0}
      /\ ended' = Tail(ended)
      /\ DOMAIN ended' = 1..(Len(ended) - 1)
      /\ \A i \in 1..(Len(ended) - 1) : ended'[i] = ended[i + 1]
  BY TakeFromQueue DEF JoinNext, TypeOK
<1>2. joined' = joined \cup {t} /\ at' = at /\ outcome = "pending" /\ outcome' = outcome
  BY DEF JoinNext, taskVars
<1>3. t \in Queued /\ t \notin joined /\ at[t] \in Final
  BY <1>1 DEF Queued, JoinerKeepsTrack
<1> HIDE DEF t
<1>4. \A i \in DOMAIN ended : i # 1 => ended[i] # t
  BY <1>1 DEF JoinerKeepsTrack
<1>5. Queued' = Queued \ {t}
  <2>1. \A u \in Queued' : u \in Queued \ {t}
    <3> SUFFICES ASSUME NEW i \in DOMAIN ended' PROVE ended'[i] \in Queued \ {t}
      BY DEF Queued
    <3>1. i + 1 \in DOMAIN ended /\ i + 1 # 1 /\ ended'[i] = ended[i + 1]
      BY <1>1
    <3> QED
      BY <1>4, <3>1 DEF Queued
  <2>2. \A u \in Queued \ {t} : u \in Queued'
    <3> SUFFICES ASSUME NEW i \in DOMAIN ended, ended[i] # t PROVE ended[i] \in Queued'
      BY DEF Queued
    <3>1. i # 1 /\ i - 1 \in DOMAIN ended' /\ ended'[i - 1] = ended[i]
      BY <1>1
    <3> QED
      BY <3>1 DEF Queued
  <2> QED
    BY <2>1, <2>2
<1>6. \A i, j \in DOMAIN ended' : i # j => ended'[i] # ended'[j]
  <2> SUFFICES ASSUME NEW i \in DOMAIN ended', NEW j \in DOMAIN ended', i # j
               PROVE  ended'[i] # ended'[j]
    OBVIOUS
  <2>1. /\ i + 1 \in DOMAIN ended /\ j + 1 \in DOMAIN ended /\ i + 1 # j + 1
        /\ ended'[i] = ended[i + 1] /\ ended'[j] = ended[j + 1]
    BY <1>1
  <2> QED
    BY <2>1 DEF JoinerKeepsTrack
<1>7. Queued' \cap joined' = {} /\ Queued' \cup joined' = Queued \cup joined
  BY <1>2, <1>3, <1>5 DEF JoinerKeepsTrack
<1>8. IsFiniteSet(Range(results)) /\ Cardinality(Range(results)) \in Nat
  <2>1. Range(results) \subseteq Task
    BY DEF JoinerKeepsTrack, TypeOK
  <2> QED
    BY <2>1, TaskAssumption, FS_Subset, FS_CardinalityType
<1>9. CASE at[t] = "ok"
  <2>1. results' = Append(results, t) /\ firstError' = firstError
    BY <1>9 DEF JoinNext, t
  <2>2. /\ Len(results') = Len(results) + 1
        /\ DOMAIN results = 1..Len(results) /\ DOMAIN results' = 1..(Len(results) + 1)
        /\ Len(results) \in Nat
        /\ \A i \in 1..Len(results) : results'[i] = results[i]
        /\ results'[Len(results) + 1] = t
    BY <1>1, <2>1, AppendToQueue DEF TypeOK
  <2>3. Range(results') = Range(results) \cup {t}
    BY <2>2 DEF Range
  <2>4. t \notin Range(results)
    BY <1>3 DEF JoinerKeepsTrack
  <2>5. Len(results') = Cardinality(Range(results'))
    <3>1. Cardinality(Range(results) \cup {t}) = Cardinality(Range(results)) + 1
      BY <1>8, <2>4, FS_AddElement
    <3>2. Len(results) = Cardinality(Range(results))
      BY DEF JoinerKeepsTrack
    <3> QED
      BY <2>2, <2>3, <3>1, <3>2
  <2>6. Range(results') = {u \in joined' : at'[u] = "ok"}
    BY <1>2, <1>9, <2>3 DEF JoinerKeepsTrack
  <2>7. firstError' = None <=> \A u \in joined' : at'[u] = "ok"
    BY <1>2, <1>9, <2>1 DEF JoinerKeepsTrack
  <2> QED
    BY <1>2, <1>6, <1>7, <2>5, <2>6, <2>7 DEF JoinerKeepsTrack
<1>10. CASE at[t] # "ok"
  <2>1. results' = results /\ firstError' = IF firstError = None THEN t ELSE firstError
    BY <1>10 DEF JoinNext, t
  <2>2. firstError' # None
    BY <1>1, <2>1, NoneAssumption
  <2>3. {u \in joined' : at'[u] = "ok"} = {u \in joined : at[u] = "ok"}
    BY <1>2, <1>10
  <2>4. ~ \A u \in joined' : at'[u] = "ok"
    BY <1>2, <1>10
  <2> QED
    BY <1>2, <1>6, <1>7, <2>1, <2>2, <2>3, <2>4 DEF JoinerKeepsTrack
<1> QED
  BY <1>9, <1>10

(* Returning, when every task is joined, with what the books say.          *)
LEMMA TrackReturns ==
    ASSUME JoinerKeepsTrack, Return
    PROVE  JoinerKeepsTrack'
<1>1. /\ joined = Task /\ outcome' = IF firstError = None THEN "ok" ELSE "err"
      /\ UNCHANGED <<at, ended, joined, results, firstError>>
  BY DEF Return, taskVars
<1>2. Queued' = Queued
  BY <1>1 DEF Queued
<1> QED
  BY <1>1, <1>2 DEF JoinerKeepsTrack
-----------------------------------------------------------------------------
(* A step of a task keeps the types and the causes: the flag is raised     *)
(* only by a task that fails for good, which stays failed.                 *)
LEMMA TaskStep ==
    ASSUME IInv, NEW t \in Task, Step(t)
    PROVE  IInv'
<1> USE DEF IInv
<1>1. ASSUME NEW p \in {"check", "delay", "call", "failing"},
             at[t] \notin Final, Goto(t, p), UNCHANGED <<ended, joinVars>>
      PROVE  JoinerKeepsTrack'
  BY <1>1, TrackGoesOn DEF Final
<1>2. ASSUME NEW how \in Final, at[t] \notin Final, End(t, how), UNCHANGED joinVars
      PROVE  JoinerKeepsTrack' /\ ended' \in Seq(Task)
  BY <1>2, TrackEnds, AppendToQueue DEF End, TypeOK
<1> USE DEF Goto, joinVars
<1>3. CASE CheckCancelled(t)
  <2>1. CASE cancelled
    <3>1. End(t, "cancelled") /\ UNCHANGED <<failFast, attempt, cancelled, joinVars>>
      BY <1>3, <2>1 DEF CheckCancelled
    <3>2. at[t] \notin Final
      BY <1>3 DEF CheckCancelled, Final
    <3>3. JoinerKeepsTrack' /\ ended' \in Seq(Task)
      BY <1>2, <3>1, <3>2 DEF Final
    <3>4. at' = [at EXCEPT ![t] = "cancelled"]
      BY <3>1 DEF End
    <3>5. TypeOK'
      BY <3>1, <3>3, <3>4 DEF TypeOK, Final
    <3>6. Causes'
      <4>1. \A u \in Task : at'[u] = IF u = t THEN "cancelled" ELSE at[u]
        BY <3>4 DEF TypeOK
      <4>2. \A u \in Task : at[u] \in {"failing", "failed", "panicked"} => at'[u] = at[u]
        BY <1>3, <4>1 DEF CheckCancelled
      <4> QED
        BY <2>1, <3>1, <4>1, <4>2 DEF Causes
    <3> QED
      BY <3>3, <3>5, <3>6
  <2>2. CASE ~cancelled
    <3> DEFINE p == IF attempt[t] > 0 THEN "delay" ELSE "call"
    <3>1. Goto(t, p) /\ UNCHANGED <<failFast, attempt, cancelled, ended, joinVars>>
      BY <1>3, <2>2 DEF CheckCancelled
    <3>2. at[t] \in {"start", "check"}
      BY <1>3 DEF CheckCancelled
    <3>3. JoinerKeepsTrack'
      BY <1>1, <3>1, <3>2 DEF Final
    <3> QED
      BY <3>1, <3>2, <3>3 DEF TypeOK, Causes, Final
  <2> QED
    BY <2>1, <2>2
<1>4. CASE EndDelay(t)
  <2>1. JoinerKeepsTrack'
    BY <1>1, <1>4 DEF EndDelay, Final
  <2> QED
    BY <1>4, <2>1 DEF EndDelay, TypeOK, Causes
<1>5. CASE CallSucceeds(t)
  <2>1. JoinerKeepsTrack' /\ ended' \in Seq(Task)
    BY <1>2, <1>5 DEF CallSucceeds, Final
  <2> QED
    BY <1>5, <2>1 DEF CallSucceeds, End, TypeOK, Causes, Final
<1>6. CASE CallFails(t)
  <2>1. CASE attempt[t] = Retries
    <3>1. JoinerKeepsTrack'
      BY <1>1, <1>6, <2>1 DEF CallFails, Final
    <3> QED
      BY <1>6, <2>1, <3>1 DEF CallFails, TypeOK, Causes
  <2>2. CASE attempt[t] # Retries
    <3>1. JoinerKeepsTrack'
      BY <1>1, <1>6, <2>2 DEF CallFails, Final
    <3>2. attempt' \in [Task -> 0..Retries]
      BY <1>6, <2>2, RetriesAssumption DEF CallFails, TypeOK
    <3> QED
      BY <1>6, <2>2, <3>1, <3>2 DEF CallFails, TypeOK, Causes
  <2> QED
    BY <2>1, <2>2
<1>7. CASE EndFailed(t)
  <2>1. JoinerKeepsTrack' /\ ended' \in Seq(Task)
    BY <1>2, <1>7 DEF EndFailed, Final
  <2> QED
    BY <1>7, <2>1 DEF EndFailed, End, TypeOK, Causes, Final
<1>8. CASE CallPanics(t)
  <2>1. JoinerKeepsTrack' /\ ended' \in Seq(Task)
    BY <1>2, <1>8 DEF CallPanics, Final
  <2> QED
    BY <1>8, <2>1 DEF CallPanics, End, TypeOK, Causes, Final
<1>9. CASE EndAborted(t)
  <2>1. JoinerKeepsTrack' /\ ended' \in Seq(Task)
    BY <1>2, <1>9 DEF EndAborted, Awaiting, Final
  <2> QED
    BY <1>9, <2>1 DEF EndAborted, Awaiting, End, TypeOK, Causes, Final
<1> QED
  BY <1>3, <1>4, <1>5, <1>6, <1>7, <1>8, <1>9 DEF Step

(* A step of the joiner: it aborts the others only after it has joined a   *)
(* task that did not succeed, and such a task has a cause.                 *)
LEMMA JoinerStep ==
    ASSUME IInv, JoinNext
    PROVE  IInv'
<1> DEFINE t == Head(ended)
<1>1. t \in Task /\ t = ended[1] /\ 1 \in DOMAIN ended /\ ended' \in Seq(Task)
  BY TakeFromQueue DEF JoinNext, IInv, TypeOK
<1>2. at[t] \in Final
  BY <1>1 DEF IInv, JoinerKeepsTrack, Queued
<1> HIDE DEF t
<1>3. UNCHANGED <<failFast, at, attempt, cancelled, outcome>> /\ joined' = joined \cup {t}
  BY DEF JoinNext, taskVars, t
<1>4. JoinerKeepsTrack'
  BY TrackJoins DEF IInv
<1>5. CASE at[t] = "ok"
  <2>1. results' = Append(results, t) /\ UNCHANGED <<firstError, aborted>>
    BY <1>5 DEF JoinNext, t
  <2>2. results' \in Seq(Task)
    BY <1>1, <2>1, AppendToQueue DEF IInv, TypeOK
  <2> QED
    BY <1>1, <1>3, <1>4, <2>1, <2>2 DEF IInv, TypeOK, Causes
<1>6. CASE at[t] # "ok"
  <2>1. /\ results' = results /\ firstError' \in {t, firstError}
        /\ aborted' = (aborted \/ failFast)
    BY <1>6 DEF JoinNext, t
  <2>2. aborted' \in BOOLEAN /\ firstError' \in Task \cup {None}
    BY <1>1, <2>1 DEF IInv, TypeOK
  <2>3. \E u \in Task : at[u] \in {"failing", "failed", "panicked"}
    <3>1. at[t] \in {"failed", "panicked", "cancelled", "aborted"}
      BY <1>2, <1>6 DEF Final
    <3> QED
      BY <1>1, <3>1 DEF IInv, Causes
  <2>4. TypeOK'
    BY <1>1, <1>3, <2>1, <2>2 DEF IInv, TypeOK
  <2>5. Causes'
    BY <1>3, <2>1, <2>3 DEF IInv, Causes
  <2> QED
    BY <1>4, <2>4, <2>5 DEF IInv
<1> QED
  BY <1>5, <1>6

(* The inductive invariant holds in every reachable state.                 *)
LEMMA Invariant == SafetySpec => []IInv
<1>1. Init => IInv
  <2> SUFFICES ASSUME Init PROVE IInv
    OBVIOUS
  <2>1. TypeOK
    <3>1. <<>> \in Seq(Task) /\ 0 \in 0..Retries
      BY RetriesAssumption
    <3> QED
      BY <3>1 DEF Init, TypeOK
  <2>2. Range(results) = {} /\ Queued = {} /\ Len(results) = 0
    BY DEF Init, Range, Queued
  <2>3. JoinerKeepsTrack
    BY <2>2, FS_EmptySet DEF Init, JoinerKeepsTrack, Final
  <2>4. Causes
    BY DEF Init, Causes
  <2> QED
    BY <2>1, <2>3, <2>4 DEF IInv
<1>2. IInv /\ [Next]_vars => IInv'
  <2> SUFFICES ASSUME IInv, [Next]_vars PROVE IInv'
    OBVIOUS
  <2>1. CASE JoinNext
    BY <2>1, JoinerStep
  <2>2. CASE Return
    <3>1. JoinerKeepsTrack'
      BY <2>2, TrackReturns DEF IInv
    <3> QED
      BY <2>2, <3>1 DEF IInv, Return, taskVars, TypeOK, Causes
  <2>3. CASE \E t \in Task : Step(t)
    BY <2>3, TaskStep
  <2>4. CASE UNCHANGED vars
    <3>1. Queued' = Queued
      BY <2>4 DEF vars, Queued
    <3> QED
      BY <2>4, <3>1 DEF vars, taskVars, joinVars, IInv, TypeOK, JoinerKeepsTrack, Causes
  <2> QED
    BY <2>1, <2>2, <2>3, <2>4 DEF Next, Returned
<1> QED
  BY <1>1, <1>2, PTL DEF SafetySpec
-----------------------------------------------------------------------------
(* Every variable keeps its type: in particular no task makes more than    *)
(* its Retries + 1 attempts.                                               *)
THEOREM TypeCorrect == SafetySpec => []TypeOK
<1>1. IInv => TypeOK
  BY DEF IInv
<1> QED
  BY <1>1, Invariant, PTL

(* The joiner's books and the causes are always right.                     *)
THEOREM BooksCorrect == SafetySpec => []Bookkeeping
<1>1. IInv => Bookkeeping
  BY DEF IInv, Bookkeeping
<1> QED
  BY <1>1, Invariant, PTL

(* Ok is returned only when every task succeeded, with one result each.    *)
THEOREM OkCorrect == SafetySpec => []OkMeansAllSucceeded
<1>1. IInv => OkMeansAllSucceeded
  <2> SUFFICES ASSUME IInv, outcome = "ok" PROVE OkMeansAllSucceeded
    BY DEF OkMeansAllSucceeded
  <2>1. joined = Task /\ firstError = None
    BY DEF IInv, JoinerKeepsTrack
  <2>2. \A t \in Task : at[t] = "ok"
    BY <2>1 DEF IInv, JoinerKeepsTrack
  <2>3. Range(results) = Task
    BY <2>1, <2>2 DEF IInv, JoinerKeepsTrack
  <2> QED
    BY <2>2, <2>3 DEF IInv, JoinerKeepsTrack, OkMeansAllSucceeded
<1> QED
  BY <1>1, Invariant, PTL

(* Err is returned only when some task failed for good or panicked.        *)
THEOREM ErrCorrect == SafetySpec => []ErrMeansSomeFailed
<1>1. IInv => ErrMeansSomeFailed
  <2> SUFFICES ASSUME IInv, outcome = "err" PROVE ErrMeansSomeFailed
    BY DEF ErrMeansSomeFailed
  <2>1. joined = Task /\ firstError # None
    BY DEF IInv, JoinerKeepsTrack
  <2>2. \A t \in Task : at[t] \in Final
    BY <2>1 DEF IInv, JoinerKeepsTrack
  <2>3. PICK t \in Task : at[t] # "ok"
    BY <2>1 DEF IInv, JoinerKeepsTrack
  <2>4. \E u \in Task : at[u] \in {"failing", "failed", "panicked"}
    BY <2>2, <2>3 DEF IInv, Causes, Final
  <2> QED
    BY <2>2, <2>4 DEF ErrMeansSomeFailed, Final
<1> QED
  BY <1>1, Invariant, PTL

(* No task stops early unless fail_fast is set and a task failed, and a    *)
(* task that failed has made all its attempts.                             *)
THEOREM StopsCorrect == SafetySpec => []NobodyIsCutShort
<1>1. IInv => NobodyIsCutShort
  <2> SUFFICES ASSUME IInv, NEW t \in Task
               PROVE  NobodyIsCutShort!(t)
    BY DEF NobodyIsCutShort
  <2>1. /\ at[t] \in {"cancelled", "aborted"} =>
             failFast /\ \E u \in Task : at[u] \in {"failing", "failed", "panicked"}
        /\ at[t] = "failed" => attempt[t] = Retries
    BY DEF IInv, Causes
  <2>2. outcome # "pending" /\ ~failFast => at[t] \in {"ok", "failed", "panicked"}
    BY <2>1 DEF IInv, JoinerKeepsTrack, Final
  <2> QED
    BY <2>1, <2>2
<1> QED
  BY <1>1, Invariant, PTL
-----------------------------------------------------------------------------
(***************************************************************************)
(* Of the check: it only adds to run_concurrent what its calls do, so what *)
(* is proved of ConcurrentTasks holds of it; with the books of the pings of*)
(* a call, which are inductive with it, this gives what its verdict and its*)
(* error mean.                                                             *)
(***************************************************************************)
PingTypeOK ==
    /\ retries \in Nat
    /\ stage \in [Task -> {"addresses", "peers", "ping"}]
    /\ peerCount \in [Task -> Nat]
    /\ successful \in [Task -> Nat]
    /\ failed \in [Task -> Nat]
    /\ tries \in [Task -> Nat]
    /\ answered \in [Task -> SUBSET Nat]
    /\ verdict \in {"none", "passed", "failed", "error"}

(* The counters of a call against the peers that answered, and what they   *)
(* are when it ends.                                                       *)
CallBooks(t) ==
    /\ stage[t] # "ping" => successful[t] = 0 /\ failed[t] = 0
    /\ stage[t] = "ping" => peerCount[t] > 0
    /\ Pinged(t) <= peerCount[t]
    /\ answered[t] \subseteq 1..Pinged(t)
    /\ failed[t] = 0 <=> answered[t] = 1..Pinged(t)
    /\ successful[t] = 0 <=> answered[t] = {}
    /\ at[t] = "ok" => Pinged(t) = peerCount[t] /\ answered[t] # {}
    /\ at[t] \in {"failing", "failed"} => answered[t] = {}
    /\ at[t] # "panicked"

ReportBooks ==
    /\ verdict = "error" => outcome = "err"
    /\ verdict \in {"passed", "failed"} =>
         /\ outcome = "ok"
         /\ nodeResults = [i \in DOMAIN results |-> NodeResult(results[i])]
         /\ verdict = CheckVerdict(nodeResults)

PingInv == PingTypeOK /\ (\A t \in Task : CallBooks(t)) /\ ReportBooks
-----------------------------------------------------------------------------
(* Inside a call run_concurrent does not move, or the call ends.           *)
LEMMA CallIsOneStep ==
    ASSUME NEW t \in Task, PingStep(t)
    PROVE  UNCHANGED vars \/ CallFails(t) \/ CallSucceeds(t)
  BY DEF PingStep, GetAddresses, GetPeers, CannotPing, PeerAnswers, PeerSilent, EndPings

(* Every step of pingpong is one of run_concurrent, or leaves it alone.    *)
LEMMA StepMaps ==
    ASSUME [PingNext]_pingVars
    PROVE  [Next]_vars
<1>1. CASE Join
  BY <1>1 DEF Join, Next
<1>2. CASE ReportPings \/ ReportError \/ Reported \/ UNCHANGED pingVars
  BY <1>2 DEF ReportPings, ReportError, Reported, pingVars
<1>3. ASSUME NEW t \in Task, OutsideCall(t)
      PROVE  Next
  BY <1>3 DEF OutsideCall, Next, Step
<1>4. ASSUME NEW t \in Task, PingStep(t)
      PROVE  [Next]_vars
  BY <1>4, CallIsOneStep DEF Next, Step
<1> QED
  BY <1>1, <1>2, <1>3, <1>4 DEF PingNext

(* pingpong uses run_concurrent as it is: whatever is true of every        *)
(* behaviour of run_concurrent is true of its tasks and its joiner.        *)
THEOREM ImplementsRunConcurrent == PingSafety => SafetySpec
<1>1. PingInit => Init
  BY DEF PingInit
<1>2. [PingNext]_pingVars => [Next]_vars
  BY StepMaps
<1> QED
  BY <1>1, <1>2, PTL DEF PingSafety, SafetySpec
-----------------------------------------------------------------------------
(* Before the first step no peer is pinged and nothing is reported.        *)
LEMMA PingInitially ==
    ASSUME PingInit
    PROVE  PingInv
<1>1. PingTypeOK
  BY PingAssumption DEF PingInit, PingTypeOK
<1>2. ASSUME NEW t \in Task PROVE CallBooks(t)
  BY DEF PingInit, Init, CallBooks, Pinged
<1>3. ReportBooks
  BY DEF PingInit, ReportBooks
<1> QED
  BY <1>1, <1>2, <1>3 DEF PingInv

(* A step that leaves a call's own counters alone keeps its books, if the  *)
(* task does not end by it, or ends without having called.                 *)
LEMMA BooksOutsideCall ==
    ASSUME PingInv, UNCHANGED <<retries, callVars>>,
           NEW t \in Task, CallBooks(t),
           \/ at'[t] = at[t]
           \/ at'[t] \in {"call", "cancelled", "aborted"}
           \/ at'[t] = "failed" /\ at[t] = "failing"
    PROVE  CallBooks(t)'
<1>1. Pinged(t)' = Pinged(t)
  BY DEF Pinged, callVars
<1> QED
  BY <1>1 DEF CallBooks, callVars

(* While a node is in its call nothing has been reported.                  *)
LEMMA NoReportDuringCall ==
    ASSUME IInv, PingInv, NEW t \in Task, at[t] \notin Final
    PROVE  outcome = "pending" /\ verdict = "none"
<1>1. outcome = "pending"
  BY DEF IInv, JoinerKeepsTrack
<1> QED
  BY <1>1 DEF PingInv, PingTypeOK, ReportBooks

(* A step of a call touches the books of its own node only.                *)
LEMMA OtherBooks ==
    ASSUME TypeOK, PingTypeOK, NEW t \in Task, PingStep(t),
           NEW u \in Task, u # t, CallBooks(u)
    PROVE  CallBooks(u)'
<1>1. at'[u] = at[u]
  <2>1. CASE UNCHANGED vars
    BY <2>1 DEF vars, taskVars
  <2>2. CASE CallFails(t) \/ CallSucceeds(t)
    BY <2>2 DEF CallFails, CallSucceeds, End, Goto, TypeOK
  <2> QED
    BY <2>1, <2>2, CallIsOneStep
<1>2. /\ stage'[u] = stage[u] /\ peerCount'[u] = peerCount[u]
      /\ successful'[u] = successful[u] /\ failed'[u] = failed[u]
      /\ answered'[u] = answered[u]
  BY DEF PingStep, GetAddresses, GetPeers, CannotPing, PeerAnswers, PeerSilent,
         EndPings, callVars, PingTypeOK
<1> QED
  BY <1>1, <1>2 DEF CallBooks, Pinged

(* And it keeps those: one more peer has answered, or been silent, and the *)
(* call ends well only when all were pinged and one answered.              *)
LEMMA OwnBooks ==
    ASSUME TypeOK, PingTypeOK, NEW t \in Task, CallBooks(t), PingStep(t)
    PROVE  PingTypeOK' /\ CallBooks(t)'
<1>1. /\ at[t] = "call" /\ UNCHANGED <<retries, verdict>>
      /\ successful[t] \in Nat /\ failed[t] \in Nat /\ peerCount[t] \in Nat
      /\ answered[t] \in SUBSET Nat
  BY DEF PingStep, GetAddresses, GetPeers, CannotPing, PeerAnswers, PeerSilent,
         EndPings, Calling, reportVars, PingTypeOK
<1>2. CASE GetAddresses(t)
  <2>1. PingTypeOK' /\ stage'[t] = "peers" /\ stage[t] = "addresses"
        /\ UNCHANGED <<at, peerCount, successful, failed, answered>>
    BY <1>1, <1>2 DEF GetAddresses, Calling, PingTypeOK, vars, taskVars
  <2> QED
    BY <1>1, <2>1 DEF CallBooks, Pinged
<1>3. CASE GetPeers(t)
  <2>1. PICK n \in 1..MaxPeers : peerCount' = [peerCount EXCEPT ![t] = n]
    BY <1>3 DEF GetPeers
  <2>2. /\ n \in Nat \ {0}
        /\ peerCount'[t] = n /\ stage'[t] = "ping" /\ stage[t] = "peers"
        /\ UNCHANGED <<at, successful, failed, answered>>
    BY <1>1, <1>3, <2>1, PingAssumption DEF GetPeers, Calling, PingTypeOK, vars, taskVars
  <2>3. PingTypeOK'
    BY <1>1, <1>3, <2>1, <2>2 DEF GetPeers, PingTypeOK
  <2> QED
    BY <1>1, <2>2, <2>3 DEF CallBooks, Pinged
<1>4. CASE CannotPing(t)
  <2>1. at'[t] \in {"check", "failing"} /\ UNCHANGED callVars
    BY <1>4 DEF CannotPing, CallFails, Goto, TypeOK
  <2>2. PingTypeOK'
    BY <1>1, <2>1 DEF PingTypeOK, callVars
  <2>3. answered[t] = {}
    BY <1>4, <1>1 DEF CannotPing, CallBooks
  <2> QED
    BY <1>1, <2>1, <2>2, <2>3 DEF CallBooks, Pinged, callVars
<1>5. CASE PeerAnswers(t)
  <2> DEFINE p == Pinged(t) + 1
  <2>1. /\ successful'[t] = successful[t] + 1
        /\ answered'[t] = answered[t] \cup {p}
        /\ Pinged(t) < peerCount[t] /\ stage[t] = "ping"
        /\ UNCHANGED <<at, stage, peerCount, failed>>
    BY <1>5 DEF PeerAnswers, Calling, PingTypeOK, vars, taskVars
  <2>2. Pinged(t) \in Nat /\ Pinged(t)' = p
    BY <1>1, <2>1 DEF Pinged
  <2>3. PingTypeOK'
    BY <1>1, <1>5, <2>2 DEF PeerAnswers, PingTypeOK
  <2>4. 1..p = 1..Pinged(t) \cup {p}
    BY <2>2
  <2>5. answered[t] \subseteq 1..Pinged(t) /\ p \notin 1..Pinged(t)
    BY <2>2 DEF CallBooks
  <2>6. answered'[t] = 1..p <=> answered[t] = 1..Pinged(t)
    BY <2>1, <2>4, <2>5
  <2> QED
    BY <1>1, <2>1, <2>2, <2>3, <2>4, <2>5, <2>6 DEF CallBooks
<1>6. CASE PeerSilent(t)
  <2>1. /\ UNCHANGED <<at, stage, peerCount, successful, answered>>
        /\ Pinged(t) < peerCount[t] /\ stage[t] = "ping"
    BY <1>6 DEF PeerSilent, Calling, vars, taskVars
  <2>2. CASE tries[t] + 1 = MaxTries
    <3>1. failed'[t] = failed[t] + 1
      BY <1>6, <2>2 DEF PeerSilent, PingTypeOK
    <3>2. Pinged(t) \in Nat /\ Pinged(t)' = Pinged(t) + 1
      BY <1>1, <2>1, <3>1 DEF Pinged
    <3>3. PingTypeOK'
      BY <1>1, <1>6, <2>2 DEF PeerSilent, PingTypeOK
    <3>4. answered[t] \subseteq 1..Pinged(t) /\ Pinged(t) + 1 \notin 1..Pinged(t)
      BY <3>2 DEF CallBooks
    <3>5. answered[t] # 1..(Pinged(t) + 1)
      BY <3>2, <3>4
    <3> QED
      BY <1>1, <2>1, <3>1, <3>2, <3>3, <3>4, <3>5 DEF CallBooks
  <2>3. CASE tries[t] + 1 # MaxTries
    <3>1. PingTypeOK' /\ UNCHANGED failed
      BY <1>1, <1>6, <2>3 DEF PeerSilent, PingTypeOK
    <3> QED
      BY <1>1, <2>1, <3>1 DEF CallBooks, Pinged
  <2> QED
    BY <2>2, <2>3
<1>7. CASE EndPings(t)
  <2>1. UNCHANGED callVars /\ Pinged(t) = peerCount[t] /\ stage[t] = "ping"
    BY <1>7 DEF EndPings, Calling
  <2>2. PingTypeOK' /\ Pinged(t)' = Pinged(t)
    BY <1>1, <2>1 DEF PingTypeOK, Pinged, callVars
  <2>3. CASE successful[t] = 0 /\ failed[t] > 0
    <3>1. at'[t] \in {"check", "failing"}
      BY <1>7, <2>3 DEF EndPings, CallFails, Goto, TypeOK
    <3> QED
      BY <2>1, <2>2, <2>3, <3>1 DEF CallBooks, callVars
  <2>4. CASE ~(successful[t] = 0 /\ failed[t] > 0)
    <3>1. at'[t] = "ok"
      BY <1>7, <2>4 DEF EndPings, CallSucceeds, End, Goto, TypeOK
    <3>2. successful[t] # 0
      BY <1>1, <2>1, <2>4 DEF CallBooks, Pinged
    <3> QED
      BY <2>1, <2>2, <3>1, <3>2 DEF CallBooks, callVars
  <2> QED
    BY <2>3, <2>4
<1> QED
  BY <1>2, <1>3, <1>4, <1>5, <1>6, <1>7 DEF PingStep

(* Every step keeps the books of every call and of the report.             *)
LEMMA PingStepKeeps ==
    ASSUME IInv, PingInv, [PingNext]_pingVars
    PROVE  PingInv'
<1> USE DEF PingInv
<1>1. ASSUME NEW t \in Task, PingStep(t)
      PROVE  PingInv'
  <2>1. at[t] \notin Final /\ UNCHANGED verdict
    BY <1>1 DEF PingStep, GetAddresses, GetPeers, CannotPing, PeerAnswers, PeerSilent,
                EndPings, Calling, reportVars, Final
  <2>2. verdict = "none"
    BY <2>1, NoReportDuringCall
  <2>3. ReportBooks'
    BY <2>1, <2>2 DEF ReportBooks
  <2>4. PingTypeOK' /\ CallBooks(t)'
    BY <1>1, OwnBooks DEF IInv
  <2>5. \A u \in Task \ {t} : CallBooks(u)'
    BY <1>1, OtherBooks DEF IInv
  <2> QED
    BY <2>3, <2>4, <2>5
<1>2. ASSUME NEW t \in Task, OutsideCall(t)
      PROVE  PingInv'
  <2>1. at[t] \notin Final /\ UNCHANGED <<retries, callVars, reportVars>>
    BY <1>2 DEF OutsideCall, CheckCancelled, EndFailed, EndAborted, Awaiting, Final
  <2>2. \/ at'[t] \in {"delay", "call", "cancelled", "aborted"}
        \/ at'[t] = "failed" /\ at[t] = "failing"
    BY <1>2 DEF OutsideCall, CheckCancelled, EndFailed, EndAborted, End, Goto, IInv, TypeOK
  <2>3. \A u \in Task \ {t} : at'[u] = at[u]
    BY <1>2 DEF OutsideCall, CheckCancelled, EndFailed, EndAborted, End, Goto, IInv, TypeOK
  <2>4. \A u \in Task : CallBooks(u)'
    BY <2>1, <2>2, <2>3 DEF CallBooks, Pinged, callVars
  <2>5. PingTypeOK'
    BY <2>1 DEF PingTypeOK, callVars, reportVars
  <2>6. ReportBooks'
    BY <2>1, NoReportDuringCall DEF ReportBooks, reportVars
  <2> QED
    BY <2>4, <2>5, <2>6
<1>3. CASE Join
  <2>1. UNCHANGED <<at, retries, callVars, reportVars>> /\ outcome = "pending"
    BY <1>3 DEF Join, JoinNext, Return, taskVars
  <2>2. verdict = "none"
    BY <2>1 DEF PingTypeOK, ReportBooks
  <2>3. \A u \in Task : CallBooks(u)'
    BY <2>1 DEF CallBooks, Pinged, callVars
  <2> QED
    BY <2>1, <2>2, <2>3 DEF PingTypeOK, ReportBooks, callVars, reportVars
<1>4. ASSUME UNCHANGED <<vars, retries, callVars>>, verdict' \in {"none", "passed", "failed", "error"},
             ReportBooks'
      PROVE  PingInv'
  <2>1. \A u \in Task : CallBooks(u)'
    BY <1>4 DEF CallBooks, Pinged, callVars, vars, taskVars
  <2> QED
    BY <1>4, <2>1 DEF PingTypeOK, callVars
<1>5. CASE ReportPings
  <2>1. outcome' = "ok" /\ UNCHANGED <<results, failed>>
    BY <1>5 DEF ReportPings, vars, joinVars, callVars
  <2>2. verdict' \in {"passed", "failed"} /\ verdict' = CheckVerdict(nodeResults')
    BY <1>5 DEF ReportPings, CheckVerdict
  <2>3. nodeResults' = [i \in DOMAIN results |-> NodeResult(results[i])]'
    BY <1>5, <2>1 DEF ReportPings, NodeResult
  <2>4. CheckVerdict(nodeResults)' = CheckVerdict(nodeResults')
    BY DEF CheckVerdict
  <2>5. ReportBooks'
    BY <2>1, <2>2, <2>3, <2>4 DEF ReportBooks
  <2> QED
    BY <1>4, <1>5, <2>2, <2>5 DEF ReportPings
<1>6. CASE ReportError
  <2>1. ReportBooks'
    BY <1>6 DEF ReportError, ReportBooks, vars, joinVars
  <2> QED
    BY <1>4, <1>6, <2>1 DEF ReportError
<1>7. CASE Reported \/ UNCHANGED pingVars
  <2>1. UNCHANGED pingVars
    BY <1>7 DEF Reported
  <2>2. ReportBooks'
    BY <2>1 DEF pingVars, ReportBooks, NodeResult, CheckVerdict, vars, joinVars,
                callVars, reportVars
  <2> QED
    BY <1>4, <2>1, <2>2 DEF pingVars, PingTypeOK, reportVars
<1> QED
  BY <1>1, <1>2, <1>3, <1>5, <1>6, <1>7 DEF PingNext

(* The invariants of run_concurrent and of the pings hold always.          *)
LEMMA PingInvariant == PingSafety => [](IInv /\ PingInv)
<1>1. PingSafety => []IInv
  BY ImplementsRunConcurrent, Invariant, PTL
<1>2. PingInit => PingInv
  BY PingInitially
<1>3. IInv /\ PingInv /\ [PingNext]_pingVars => PingInv'
  BY PingStepKeeps
<1> QED
  BY <1>1, <1>2, <1>3, PTL DEF PingSafety
-----------------------------------------------------------------------------
(* A verdict tells of each node, once, whether it reached all its peers.   *)
THEOREM VerdictCorrect == PingSafety => []VerdictTellsPings
<1>1. IInv /\ PingInv => VerdictTellsPings
  <2> SUFFICES ASSUME IInv, PingInv, verdict \in {"passed", "failed"}
               PROVE  /\ Len(nodeResults) = Cardinality(Task)
                      /\ \A t \in Task :
                            /\ answered[t] # {}
                            /\ \E i \in DOMAIN nodeResults :
                                  nodeResults[i] = [node |-> t, passed |-> answered[t] = Peers(t)]
                      /\ verdict = "passed" <=> \A t \in Task : answered[t] = Peers(t)
    BY DEF VerdictTellsPings
  <2>1. /\ outcome = "ok"
        /\ nodeResults = [i \in DOMAIN results |-> NodeResult(results[i])]
        /\ verdict = CheckVerdict(nodeResults)
    BY DEF PingInv, ReportBooks
  <2>2. \A t \in Task : at[t] = "ok"
    BY <2>1 DEF IInv, JoinerKeepsTrack
  <2>3. Range(results) = Task /\ Len(results) = Cardinality(Task)
    <3>1. joined = Task
      BY <2>1 DEF IInv, JoinerKeepsTrack
    <3> QED
      BY <2>2, <3>1 DEF IInv, JoinerKeepsTrack
  <2>4. \A t \in Task : answered[t] # {} /\ (failed[t] = 0 <=> answered[t] = Peers(t))
    BY <2>2 DEF PingInv, CallBooks, Peers
  <2>5. results \in Seq(Task) /\ DOMAIN results = 1..Len(results) /\ Len(results) \in Nat
    BY DEF IInv, TypeOK
  <2>6. DOMAIN nodeResults = 1..Len(results)
    BY <2>1, <2>5
  <2>7. Len(nodeResults) = Len(results)
    BY <2>1, <2>5, <2>6
  <2>8. \A i \in DOMAIN nodeResults :
           /\ results[i] \in Task
           /\ nodeResults[i] = [node |-> results[i],
                                passed |-> answered[results[i]] = Peers(results[i])]
    <3> SUFFICES ASSUME NEW i \in DOMAIN nodeResults
                 PROVE  /\ results[i] \in Task
                        /\ nodeResults[i] = [node |-> results[i],
                                             passed |-> answered[results[i]] = Peers(results[i])]
      OBVIOUS
    <3>1. results[i] \in Task /\ nodeResults[i] = NodeResult(results[i])
      BY <2>1, <2>5, <2>6
    <3> QED
      BY <2>4, <3>1 DEF NodeResult, Passed, Failed
  <2>9. \A t \in Task : \E i \in DOMAIN nodeResults : results[i] = t
    BY <2>3, <2>5, <2>6 DEF Range
  <2>10. \A t \in Task : \E i \in DOMAIN nodeResults :
            nodeResults[i] = [node |-> t, passed |-> answered[t] = Peers(t)]
    BY <2>8, <2>9
  <2>11. verdict = "passed" <=> \A i \in DOMAIN nodeResults : nodeResults[i].passed
    BY <2>1 DEF CheckVerdict
  <2>12. verdict = "passed" <=> \A t \in Task : answered[t] = Peers(t)
    <3>1. ASSUME NEW i \in DOMAIN nodeResults
          PROVE  nodeResults[i].passed <=> answered[results[i]] = Peers(results[i])
      <4>1. results[i] \in Task /\ nodeResults[i] = NodeResult(results[i])
        BY <2>1, <2>5, <2>6
      <4>2. CASE failed[results[i]] = 0
        BY <2>4, <4>1, <4>2 DEF NodeResult, Passed
      <4>3. CASE failed[results[i]] # 0
        BY <2>4, <4>1, <4>3 DEF NodeResult, Failed
      <4> QED
        BY <4>2, <4>3
    <3>2. ASSUME \A i \in DOMAIN nodeResults : nodeResults[i].passed, NEW t \in Task
          PROVE  answered[t] = Peers(t)
      <4>1. PICK i \in DOMAIN nodeResults : results[i] = t
        BY <2>9
      <4> QED
        BY <3>1, <3>2, <4>1
    <3>3. ASSUME \A t \in Task : answered[t] = Peers(t), NEW i \in DOMAIN nodeResults
          PROVE  nodeResults[i].passed
      BY <2>8, <3>1, <3>3
    <3> QED
      BY <2>11, <3>2, <3>3
  <2> QED
    BY <2>3, <2>4, <2>7, <2>10, <2>12
<1> QED
  BY <1>1, PingInvariant, PTL

(* An error is the fault of a node that reached no peer.                   *)
THEOREM ErrorCorrect == PingSafety => []ErrorMeansNodeLost
<1>1. IInv /\ PingInv => (ErrMeansSomeFailed => ErrorMeansNodeLost)
  <2> SUFFICES ASSUME PingInv, ErrMeansSomeFailed, verdict = "error"
               PROVE  \E t \in Task : at[t] = "failed" /\ answered[t] = {}
    BY DEF ErrorMeansNodeLost
  <2>1. PICK t \in Task : at[t] \in {"failed", "panicked"}
    BY DEF PingInv, ReportBooks, ErrMeansSomeFailed
  <2> QED
    BY <2>1 DEF PingInv, CallBooks
<1>2. PingSafety => []ErrMeansSomeFailed
  BY ImplementsRunConcurrent, ErrCorrect, PTL
<1> QED
  BY <1>1, <1>2, PingInvariant, PTL
=============================================================================
