----------------------------- MODULE StatusApi -----------------------------
(***************************************************************************)
(* The HTTP handlers of src/api/server.rs and src/api/metrics.rs, serving  *)
(* clients while the checks of CheckRunner run.  /results and /metrics     *)
(* read the shared state twice, each time under its own lock, so the       *)
(* runner can change it between the two reads.  A client has one request   *)
(* in flight; its last answer is kept.                                     *)
(***************************************************************************)
EXTENDS CheckRunner

CONSTANT Client

VARIABLES
    handler,   \* the request each client has in flight: what it read so far
    answer     \* the last answer each client got

apiTasks == <<handler, answer>>
allVars == <<vars, apiTasks>>

NoRequest == [kind |-> "none"]

Serving == server = "listening" /\ pc # "exited"

(* /health and /status answer from a single read.                          *)
AnswerHealth(c) ==
    /\ Serving
    /\ handler[c] = NoRequest
    /\ answer' = [answer EXCEPT ![c] = [kind |-> "health", status |-> status]]
    /\ UNCHANGED <<vars, handler>>

AnswerStatus(c) ==
    /\ Serving
    /\ handler[c] = NoRequest
    /\ answer' = [answer EXCEPT ![c] = [kind |-> "status", response |-> StatusResponse]]
    /\ UNCHANGED <<vars, handler>>

StatusCode(s) == IF s = "running" THEN 202 ELSE 200

(* Mutant: the results are read before the status.                         *)
ResultsHandlerSwapped(c) ==
    /\ Serving
    /\ \/ /\ handler[c] = NoRequest
          /\ handler' = [handler EXCEPT ![c] = [kind |-> "results", results |-> results]]
          /\ UNCHANGED answer
       \/ /\ handler[c].kind = "results"
          /\ handler' = [handler EXCEPT ![c] = NoRequest]
          /\ answer' = [answer EXCEPT ![c] =
                [kind |-> "results", code |-> StatusCode(status),
                 status |-> status, results |-> handler[c].results]]
    /\ UNCHANGED vars

(* results_handler: the status under one lock, the results under another.  *)
ResultsHandler(c) ==
    /\ Serving
    /\ \/ /\ handler[c] = NoRequest
          /\ handler' = [handler EXCEPT ![c] = [kind |-> "results", status |-> status]]
          /\ UNCHANGED answer
       \/ /\ handler[c].kind = "results"
          /\ handler' = [handler EXCEPT ![c] = NoRequest]
          /\ answer' = [answer EXCEPT ![c] =
                [kind |-> "results", code |-> StatusCode(handler[c].status),
                 status |-> handler[c].status, results |-> results]]
    /\ UNCHANGED vars

(* Mutant: the results are read before the counters.                       *)
MetricsHandlerSwapped(c) ==
    /\ Serving
    /\ \/ /\ handler[c] = NoRequest
          /\ handler' = [handler EXCEPT ![c] = [kind |-> "metrics", results |-> results]]
          /\ UNCHANGED answer
       \/ /\ handler[c].kind = "metrics"
          /\ handler' = [handler EXCEPT ![c] = NoRequest]
          /\ answer' = [answer EXCEPT ![c] =
                [kind |-> "metrics", response |-> StatusResponse,
                 results |-> handler[c].results]]
    /\ UNCHANGED vars

(* metrics_handler: the counters, then the per-check lines.                *)
MetricsHandler(c) ==
    /\ Serving
    /\ \/ /\ handler[c] = NoRequest
          /\ handler' = [handler EXCEPT ![c] =
                [kind |-> "metrics", response |-> StatusResponse]]
          /\ UNCHANGED answer
       \/ /\ handler[c].kind = "metrics"
          /\ handler' = [handler EXCEPT ![c] = NoRequest]
          /\ answer' = [answer EXCEPT ![c] =
                [kind |-> "metrics", response |-> handler[c].response,
                 results |-> results]]
    /\ UNCHANGED vars
-----------------------------------------------------------------------------
ApiInit ==
    /\ Init
    /\ handler = [c \in Client |-> NoRequest]
    /\ answer = [c \in Client |-> NoRequest]

Handlers(c) ==
    AnswerHealth(c) \/ AnswerStatus(c) \/ ResultsHandler(c) \/ MetricsHandler(c)

ApiNext ==
    \/ Next /\ UNCHANGED apiTasks
    \/ \E c \in Client : Handlers(c)

(* A handler that has begun ends, and a client that polls /results sends   *)
(* another request whenever it can, whatever else it asks.                 *)
ApiFairness ==
    /\ WF_allVars(Main /\ UNCHANGED apiTasks)
    /\ WF_allVars(BindServer /\ UNCHANGED apiTasks)
    /\ \A t \in Task : WF_allVars(CheckTask(t) /\ UNCHANGED apiTasks)
    /\ \A c \in Client : WF_allVars(Handlers(c)) /\ SF_allVars(ResultsHandler(c))

ApiSafetySpec == ApiInit /\ [][ApiNext]_allVars

ApiSpec == ApiSafetySpec /\ ApiFairness
-----------------------------------------------------------------------------
PassedAmong(rs) == Cardinality({i \in DOMAIN rs : rs[i].passed})

(* A 200 from /results is the final answer: its list holds the result of   *)
(* every check that returned one, and its status agrees with them, because *)
(* the status is read before the results (server.rs:68-69).                *)
OkMeansFinal ==
    \A c \in Client :
        (answer[c].kind = "results" /\ answer[c].code = 200) =>
            /\ {r.task : r \in Range(answer[c].results)} = WithResult(plan)
            /\ answer[c].status = "completed" =>
                 PassedAmong(answer[c].results) = Cardinality(plan)

(* The counters of /metrics never run ahead of its per-check lines: the    *)
(* results counted are a prefix of the results listed, and all of them     *)
(* once a verdict is out (metrics.rs:34-35).                               *)
MetricsListWhatTheyCount ==
    \A c \in Client : answer[c].kind = "metrics" =>
        LET resp == answer[c].response
            listed == answer[c].results
        IN  /\ resp.completed <= Len(listed)
            /\ resp.passed = PassedAmong(SubSeq(listed, 1, resp.completed))
            /\ resp.status # "running" => resp.completed = Len(listed)

(* A client that got a 200 never gets a 202, or another list, afterwards.  *)
OkIsNeverTakenBack ==
    [][\A c \in Client :
          (/\ answer[c].kind = "results" /\ answer[c].code = 200
           /\ answer'[c].kind = "results") => answer'[c] = answer[c]]_allVars

(* With --keep-alive, a client that keeps polling /results gets a 200 once *)
(* the server is bound (README: "202 = still working, 200 = done").        *)
PollerLearnsVerdict ==
    \A c \in Client :
        (keepAlive /\ server = "listening") ~>
            (answer[c].kind = "results" /\ answer[c].code = 200)
=============================================================================
