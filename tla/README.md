# A verification project for apiarist

apiarist is a test orchestrator for Swarm (bee) clusters: one command runs a set of
checks against the HTTP APIs of a cluster's nodes and tells whether all of them
passed, on its exit code and, while it runs, through a small status API. This directory holds
TLA+ modules that model it, TLC configurations that check them on small
instances, and proofs that TLAPS checks for all instances.

Paths are relative to the crate (`src/src/` of the checkout): `main.rs:248` is
line 248 of `src/main.rs` of the repository.

## 1. The system

| component | state | operations | talks to |
|---|---|---|---|
| check runner (`main.rs`) | options, list of checks, join handles, `all_passed` | load, prepare batches, select, serve, spawn, await, complete, leave | everything below |
| API state (`api/state.rs`) | status, four counters, `current_check`, results, under one RwLock | `set_total_checks`, `start_check`, `record_result`, `complete`, getters | runner and check tasks write, handlers read |
| status API (`api/server.rs`, `api/metrics.rs`) | none of its own | `/health`, `/status`, `/results`, `/metrics` | API state |
| registry (`checks/registry.rs`) | constant ordered map of checks | lookup, iteration | runner |
| concurrent utilities (`utils/concurrent.rs`) | JoinSet, cancel flag, first error | `run_concurrent`, `run_concurrent_collect` | pingpong |
| batches (`batch.rs`, `client/bee.rs`) | none locally; batches on the nodes | `prepare_batches`, `create_batch_on_node`, `get_or_create_batch` | bee nodes |
| BeeClient (`client/`) | connection pool | one method per endpoint | bee nodes |
| configuration (`config/`) | immutable after loading | parse, `check_config`, `to_check_options`, `to_context` | runner |
| trait and results (`checks/traits.rs`) | per check: options, results | `get_extra`, `CheckResult::new`, node selections | checks |
| smoke, pushsync, pullsync, retrieval, soc, pingpong, peercount, fullconnectivity (`checks/`) | locals of `run` | `run` | bee nodes |
| test kit (`crates/apiarist-testkit`) | mock nodes | for tests only | - |

What is hard about it:

* **Concurrency.** Every selected check is a tokio task; they share the API
  state, which HTTP handlers read, twice per request in two of them. The
  handles are awaited in spawn order, not in the order tasks end. `main`
  preparing batches and several checks asking one node for a batch is a
  list-then-create race. `run_concurrent` has tasks, a shared flag and a
  joiner that aborts.
* **Failure.** Every HTTP request may fail; a check may return an error or
  panic; nodes may be slow, forget batches, or answer with stale peers.
  Nothing is persisted, so there is no recovery to model.
* **Retries and bounds.** Uploads, downloads, looks and the wait for a batch
  are bounded loops with early exits, some of which report and some of which
  do not.
* **Verdicts.** Results flow from requests into per-file statistics, node
  results, a `CheckResult`, the API's counters, a flag and the exit code. Most
  of what could be wrong is a disagreement between two of these.

What makes each part correct:

* runner: the verdict comes last, exactly once, and agrees with every task;
  the report is what was collected; the exit code agrees; the run ends;
* status API: what a client may conclude from one answer, and from two;
* `run_concurrent`: Ok and Err mean what they say, no task is cut short
  without a cause or left behind, the call returns;
* batches: a returned batch is usable, prepared ones are reused, waits end;
* content checks: every chunk or file is accounted for, and a pass implies
  what the check is there to show;
* connectivity checks: a pass implies that the peers were seen.

## 2. Modules

| module | models | extends |
|---|---|---|
| `RunVerdict` | the abstract promise of a run | |
| `ApiState` | `api/state.rs` | |
| `CheckRunner` | `run_checks` and the check tasks | `ApiState`; implements `RunVerdict` |
| `StatusApi` | the HTTP handlers, composed with the runner | `CheckRunner` |
| `RunnerProofs` | theorems about `CheckRunner` and `StatusApi` | `StatusApi` |
| `ConcurrentTasks` | `run_concurrent` | |
| `PostageBatch` | `prepare_batches`, then the checks' `get_or_create_batch` | |
| `PostageBatchProofs` | theorems about `PostageBatch` | `PostageBatch` |
| `CheckReport` | `NodeResult`, `CheckResult::new` | |
| `PingpongCheck` | pingpong, its tasks and its joiner those of `run_concurrent` | `ConcurrentTasks`, `CheckReport` |
| `TaskProofs` | theorems about `ConcurrentTasks` and `PingpongCheck` | `PingpongCheck` |
| `Overlay` | addresses, proximity, `find_closest_node` | |
| `OverlayProofs` | theorems about `Overlay` | `Overlay` |
| `ChunkChecks` | pushsync, retrieval and soc, which send single chunks | `CheckReport`, `Overlay` |
| `ChunkChecksProofs` | theorems about `ChunkChecks` | `ChunkChecks`, `OverlayProofs` |
| `SmokeCheck` | the check of this name | `CheckReport` |
| `SmokeProofs` | theorems about `SmokeCheck` | `SmokeCheck` |
| `PullsyncCheck` | the check of this name | `CheckReport`, `Overlay` |
| `PullsyncProofs` | theorems about `PullsyncCheck` | `PullsyncCheck`, `OverlayProofs` |
| `ConnectivityChecks` | fullconnectivity and peercount | `CheckReport` |
| `ConnectivityProofs` | theorems about `ConnectivityChecks` | `ConnectivityChecks` |

Each `MC...` module extends the module it is named after and defines what its
`.cfg` files give to the constants; its comment says why the instance is big
enough. `map` in `PROJECT.json` gives, for each definition, the lines of code it
stands for. An operator whose comment begins with "Mutant" is a plausible bug
in the definition that follows it; no specification uses it.

### CheckRunner and ApiState

`pc` is where `run_checks` is: load, prepare, select, serve, spawn, join,
report, then exited or keepalive. A task is a position in the list that was
selected from, so a filter naming a check twice makes two tasks (as
`main.rs:171-191` does). `plan` is the set of selected tasks, `task[t]` what
became of each, `joined` those whose handles were awaited. `SpawnCheck`,
`StartCheck` (which calls `start_check` from inside the task), `FinishCheck`,
`CollectResult` and `CollectError` interleave freely, except that handles are
awaited in order. Each method of `ApiState` takes the write lock for its whole
body and so is one step. A failed preparation is only logged, and a server
that cannot bind is only logged: both are nondeterministic choices that the
runner does not look at.

### StatusApi

A client has one request in flight. `/health` and `/status` read once.
`/results` reads the status under one lock and then the results under another
(`server.rs:68-69`); `/metrics` reads the counters and then the results
(`metrics.rs:34-35`). Each of the two is a pair of steps and the runner may take
any number of its own in between. The handlers die with the process.

### ConcurrentTasks

`at[t]` walks start, delay, call and, for a task whose last attempt failed, the
point between raising the flag and returning. The joiner takes ended tasks in
the order they ended. After `abort_all` a task ends as aborted where it awaits,
or otherwise runs on to its next await or its end. The flag is a relaxed atomic;
a load is a step of its own, so a task may miss a store that has just been made.

### PostageBatch

A caller is either a full node's slot in `prepare_batches`, or a call of
`get_or_create_batch` by a check. Such a call may be on any node: smoke, pushsync and
retrieval upload to full nodes, which are prepared, but soc takes a boot node too
(`checks/soc.rs:206`) and pullsync any node (`checks/pullsync.rs:424-455`), so the
nodes that are prepared, `full`, are any of them; they are none when no data check was
asked for and nothing is prepared. `Layouts` are the configurations considered. Each request is a step, so calls on the same node interleave between
listing and creating. The node confirms a batch at any time and lets it expire, fill
up, or vanish at any time. Preparation runs before any check starts
(`main.rs:154-169`) and the phase says so. `offered` is an observer, the batches that
had been returned to any call when this one listed the node's batches. What amount and depth a batch has is abstracted to whether it fits.

### PingpongCheck

The one caller of `run_concurrent`. A node's call is refined into the stages of
`ping_node_peers`: its addresses, its list of peers, then each peer in turn, with
`max(1, retries)` attempts each. Failing the call is the action `CallFails` of
`ConcurrentTasks` itself, so a node that reaches none of its peers raises the flag
that stops the others, or has the joiner abort them in the middle of a ping. A
stage is not undone by being aborted: the report only ever looks at nodes whose
results were joined. `answered` is an observer, the peers that answered.

### The other checks

Every request may succeed or fail at each attempt. `SmokeCheck` has an observer
variable `fates`, the fate of each file, against which statistics, results and
verdict are compared. `ChunkChecks` numbers nodes in the order of `ctx.nodes`. Its
pushsync and retrieval share the loops over upload nodes and chunks, with an
upload node left at once when it gets no batch; they differ in where a chunk is
looked for (the closest node whose address is known, several times; or the next
full node, once) and in what each attempt reports. pushsync draws each chunk's
address at random, and an arriving chunk may be found at any look. soc has one
node, one chunk and no retries, and most of its failures end it with an error
instead of a result. Observers record the upload nodes that got no batch and which
chunk was fetched where. In `PullsyncCheck` the set `holders` of nodes that hold the
chunk grows at any time, also between a look and the next one and between the replication
counter's requests, which are a step each, so that the count belongs to no single
moment; the observers `silent` and `heldBefore` are the nodes that did not answer it and
the holders when it began. That holders only grow is an assumption about bee: the
chunk's batch pays for longer than the check takes. In `ConnectivityChecks` each node
answers with any set of peers, since connections change between two requests. Both
checks take the length of a list of peers, and the sets of the model assume that a
bee node lists each peer once and never itself.

## 3. Runs

| run | bounds | what it shows |
|---|---|---|
| `runner` | three registered checks; filters with a repeated, an unknown and a reordered name; every set of enabled checks | report, order, verdict, exit code, freeze, decision, exit, refinement of `RunVerdict` |
| `api` | two checks, one client | what a client may conclude from an answer |
| `tasks` | three tasks, one retry, with and without `fail_fast` | `run_concurrent` |
| `pingpong` | three nodes, up to two peers each; `retries` configured as 0, which makes one attempt, or left at the default, here two | what a verdict and an error tell, and that the check ends |
| `batches` | two full nodes and a check, one full node of two and two checks on the same or different nodes, or no full node; three batches, two polls | preparation, what a call returns, that none is created where one handed out before would do, that calls end |
| `smoke` | two files, two iterations, three attempts, both modes | results, totals, verdict |
| `chunks` | up to three nodes of any types, up to two chunks per node, any number of upload nodes | pushsync, retrieval and soc: accounting, message and verdict, what a pass means |
| `pullsync` | up to three nodes, addresses of two bits, two depth maps, two attempts, thresholds 2 and 3 | what a passing chunk means, what the count of replicas tells, termination |
| `connectivity` | three nodes of any types and answers | what a pass means, counters |
| `runner_order`, `smoke_mismatch`, `connectivity_mesh` | as the run they belong to | three disagreements, see section 6 |

Why these bounds are enough. Three checks let one be collected, one be running
and one not have started. Two
checks let a result be recorded between the two reads of a handler and another
one after them; handlers only read, so a second client adds no behaviour to
the first. Three concurrent tasks let one fail, one be told to stop and one be
in its call; so do three nodes of pingpong, and two peers let a node reach one and
not the other. Two nodes let a preparation succeed on one and fail on the other. Two checks let two
calls list before either creates, on the prepared node or on the other one; three
batches let each of three callers create one, or two of them beside an old one.
Two files and two iterations let a file follow another within an iteration and
across two. Three nodes let a full node be neither the uploader nor the closest
node, let the node retrieval downloads from be another one than the uploader or,
with a single full node, the same, and let two full nodes be joined only through a
third. Where a bound is
smaller than the code's constant (120 polls, 5 retries, 256 bits) only the
length of a loop changes. Every counter is bounded by the length of such a
loop or by the number of tasks, except the data bounds named `Max...` in the
modules.

Deadlock is checked in every run. Modules whose system stops have an explicit
`Done`, `Idle` or `Finished` step that stutters there, so any other stop is
reported.

### Fairness

* `CheckRunner`: weak fairness of `run_checks`, of the binding of the server
  and of every check task: the tokio runtime polls whatever can go on. That
  a check ends at all rests on the HTTP client's request and connection timeouts
  (`client/bee.rs:77-78`) and on the bounds of the loops, not on the
  `timeout` option, which nothing reads.
* `StatusApi`: as above, a handler that has begun ends, and the client of the
  liveness property polls `/results` again and again (strong fairness of that
  request, as the client may also ask for other things). Nothing obliges the
  process to wait for a client: the property holds for runs kept alive.
* `ConcurrentTasks`: weak fairness of each task and of the joiner.
* `PingpongCheck`: the same of each task with its pings, and of the joiner with the
  report that follows it; nothing is assumed of nodes and peers beyond that a
  request ends, in an answer or in the client's timeout.
* `PostageBatch`: weak fairness of each call and of the preparation's end;
  nothing is assumed of the nodes, which may never confirm a batch.
* `PullsyncCheck`: weak fairness of the check alone; nodes may never pull.

The other modules state no fairness and no liveness: they are straight loops
over lists, whose end would only restate their bounds.

## 4. Proofs

Eight modules hold proofs. All but `OverlayProofs` state an inductive invariant, show that it holds
at first and that every action keeps it, one step per action, and draw the
promises from it. The constants are arbitrary within the named assumptions; the
runs of the same name check the same formulas on small instances.

### RunnerProofs, the runner: every registry, every set of filters

| theorem | says |
|---|---|
| `TypeCorrect` | `TypeOK` always |
| `ReportCorrect` | the report is what was collected, and the check called current has started and is not in it: `ReportMatchesTasks` |
| `OrderCorrect` | results are in request order |
| `VerdictCorrect` | a verdict comes last, and is right |
| `ExitCodeCorrect` | so is the exit code |
| `ReportFrozen` | nothing served changes after the verdict |
| `RunImplementsPromise` | the safety part of `RunVerdict` is implemented |

Assumed: `RegistryAssumption`, `FiltersAssumption` and `MaxChecksAssumption`:
names are strings, and no list is longer than `MaxChecks`, which is only the size
of the index set.

None of the promises is inductive alone: that the verdict agrees with the tasks
needs that `all_passed` agrees with the joined ones, which needs that a joined
task has ended and that the loop goes through the plan in order; that results
are in order needs that they are exactly the joined tasks with a result, and
that every task still to be joined has a higher number. `RunPhases` names these
facts, phase by phase, and the invariant is

    IInv == TypeOK /\ RunPhases /\ ReportInv /\ CurrentHasStarted

where `ReportInv` is the counting part of `ReportMatchesTasks` together with
`ResultsInRequestOrder`, and `CurrentHasStarted` is its part about `current_check`.
`RunPhases` is proved and not a property of a run of its own. The verdict and exit
code follow from the invariant by themselves; the
freeze follows because, with a verdict published, no task is left to start or
to collect; and each action maps to `Plan`, `Finish`, `Announce` or a stutter of
`RunVerdict`, where `Announce` needs the invariant to know that every outcome
is in.

### RunnerProofs, the status API: every set of clients besides

| theorem | says |
|---|---|
| `OkIsFinal` | a 200 of `/results` lists every result there will be, and its status agrees with them |
| `MetricsCorrect` | the counters of a scrape count a prefix of what it lists |
| `OkIsFinalForGood` | a later answer of `/results` does not differ from a 200 |

Nothing more is assumed. The invariant adds to that of `CheckRunner` what is
between the two reads of a handler: a verdict it has read is still the status, and
the counters it has read count a prefix of the results (`AnswersInStep`), with the
counter of passed checks counting the results that passed (`PassedAreListed`). A
step of the runner keeps it because it only appends to the results, and, by the
freeze, not even that once a handler may have seen a verdict.

### TaskProofs, run_concurrent: every finite set of tasks, any number of retries

| theorem | says |
|---|---|
| `TypeCorrect` | `TypeOK` always; no task makes an attempt too many |
| `BooksCorrect` | the joiner loses no task and counts none twice; every stop has a cause |
| `OkCorrect`, `ErrCorrect` | what Ok and Err mean; with an Err every task has ended |
| `StopsCorrect` | no task is cut short unless `fail_fast` is set and a task failed, and a failed task made all its attempts: `NobodyIsCutShort` |

Assumed: `TaskAssumption` (the items are finitely many), `RetriesAssumption`,
`NoneAssumption` (no item is the absent value). The invariant is `TypeOK /\
JoinerKeepsTrack /\ Causes`: the tasks that have ended are the queued and the
joined ones, each once, and the results are the joined successes; and whoever was
cancelled or aborted was so because some task failed, so the first error cannot
be all there is to an Err. Both parts together are `Bookkeeping`, which the run
`tasks` checks.

### TaskProofs, pingpong: every finite set of nodes, any number of peers and retries

| theorem | says |
|---|---|
| `ImplementsRunConcurrent` | every behaviour of the check is one of `ConcurrentTasks` |
| `VerdictCorrect` | a verdict tells of each node, once, whether it reached all its peers |
| `ErrorCorrect` | an error is the fault of a node that reached no peer |

Assumed besides: `NoTaskRetries` (`ConcurrentOpts::default()`) and
`PingAssumption`. Each action of a call either stutters for `run_concurrent` or is
one of its actions, so its invariant comes for free. What is added is each node's
books: the peers that answered are among those pinged, they are all of them exactly
when none was counted as failed and none exactly when none was counted as
successful; a call that succeeded has pinged every peer and reached one, and a call
that failed has reached none. The verdict needs both: that the results are
exactly the successful tasks, each once (`OkCorrect`), and what success of a task
means.

### OverlayProofs: every length of addresses

| theorem | says |
|---|---|
| `ClosestIsClosest` | `find_closest_node` returns one of the nodes, and no other is closer |
| `ClosestIsNearest` | no node shares a longer prefix with the chunk than that one |

Assumed: `BitsAssumption`, and that different nodes have different addresses. Two
different distances differ in a first bit, which makes `Closer` total and
transitive, so a finite set of nodes has a closest one; and who shares more bits is
closer.

### ChunkChecksProofs: every cluster, any number of chunks, upload nodes and retries

| theorem | says |
|---|---|
| `Invariance` | the inductive invariant below |
| `ReportsComplete` | every chunk is counted and reported once: `EveryChunkReported` |
| `VerdictAgrees` | message and verdict cannot contradict each other |
| `PassIsEarned` | a pass means that every chunk was fetched where it had to be |

Assumed: `MaxNodesAssumption`, `RetriesAssumption`, `OverlayAssumption` (nodes have
different addresses). The promises are about the points between two upload nodes or
after the last one; to be inductive they must hold within the loops as well:

    IInv == TypeOK /\ PlaceOK /\ VerdictOK /\ Books /\ AllFetched

`PlaceOK` says where the loops may be, `VerdictOK` that a verdict comes last and
from the results. `Books` balances the counters with the results in the middle of a
chunk: of the chunks counted one may be in progress, and the upload nodes that are
`Through` each owe `chunksPerNode` chunks or have no batch. Without the set of
nodes that have no batch being one of nodes that are through, each once, the next
failure could be counted for the same node again. `AllFetched` is the promise of a
pass for the chunks done with so far, kept as long as nothing has failed: the number
of failed results never decreases, so it need only be shown for steps that report
no failure. That the target of a chunk is one of the known nodes comes from
`ClosestIsClosest`, and that the download node is not the uploader from the numbers
of two full nodes being different (`FullNodes`).

### PostageBatchProofs: every finite set of nodes, every set of checks and batches

| theorem | says |
|---|---|
| `TypeCorrect` | `TypeOK` always |
| `CallsCorrect` | what a call has created, polled and returned at each point: `CallsInOrder` |
| `ReturnsCorrect` | a returned batch is confirmed, has the asked label and is on the asked node |
| `ReuseCorrect` | no call creates a batch where one handed out before it listed is still good: `ReturnedBatchesAreReused` |
| `CountsCorrect` | the counts of the preparation add up |

Assumed: `NodeAssumption` (finitely many), `LayoutsAssumption` (prepared and called are
nodes), `MaxPollsAssumption` (at least one),
`CallersAssumption` (the calls of the preparation are not those of checks) and
`NoneAssumption`. The invariant is `TypeOK /\ CallsInOrder /\ ReturnsUsableBatch
/\ ReturnedBatchesAreReused`. They are inductive together because a batch never
loses its confirmation, its label or its node, and one that is spent or gone
stays so: a batch that had been handed out when a call listed was confirmed and ours
then, so it was in the list if it is on that node, and the call went on to create only
because it was spent or gone, which it still is. `CallsInOrder` carries this from the
list to the creation. What remains possible is two calls that each listed before the
other got its batch; the prepared batches are out of that race, as all were handed out
before a check starts. The counts follow from `CallsInOrder`.

### SmokeProofs: any number of files, iterations and attempts

| theorem | says |
|---|---|
| `Invariant` | the inductive invariant below |
| `ReportsTell` | the report has one stretch of results for each file, in order, without gap or overlap; in long-running mode that of the last file: `ReportsTellFates` |
| `TotalsCount` | the totals count every file of every iteration once |
| `VerdictTells` | the check passes exactly when every file, or in long-running mode the last one, came back intact |
| `SingleShotMeansNoMismatch` | a check that runs once passes only if it has seen no mismatch |

Assumed: `BoundsAssumption`. What the report and the totals say is only true between
two files. The invariant says what the locals of the loop hold at each of its
points, and how far behind the totals are:

    IInv == TypeOK /\ FileBooks /\ TotalBooks /\ ReportBooks /\ VerdictOfReport

`FileBooks` ties the statistics and results of the file being processed to its fate,
`TotalBooks` and `ReportBooks` account for the `Merged` files. "Without gap or
overlap" needs both directions: every result a file leaves is at its place, and
every result in the list is that of some file (`AllTold`). The place is
stated by counting: before file `i` there is one result of each earlier file and a
second one of each that was uploaded. A concatenation over the list of files would say
the same, but nothing about it could be proved for lists of every length, as that takes
induction over data.

The last theorem is the property of run `smoke_mismatch` for single-shot checks: the
disagreement of section 6 is one of the long-running mode only.

### PullsyncProofs: every cluster, all depths, addresses of any length

| theorem | says |
|---|---|
| `Invariant` | the inductive invariant below |
| `NeighbourhoodHolds` | every known peer in whose neighbourhood a passed chunk lies holds it: `NeighbourhoodHoldsChunk` |
| `Replicated` | a passed chunk is held by as many nodes as the threshold asks |
| `CountIsRight` | the count of replicas lies between the holders at its start that answered and the holders at its end: `CountIsBetween` |
| `EveryChunkLeaves` | every chunk of a passed check left a result of a node that was verified |

Assumed: `BoundsAssumption`, `BitsAssumption`. All are about
`SafetySpec`, that is without the fairness of `Spec`, which implies it.

    IInv == TypeOK /\ DepthKept /\ LookedAt /\ ChunkPlaced /\ ResultsOwed /\ Ending
            /\ Counted

`DepthKept`: the depth the check goes by is the node's own or, where it could not be
read, 0, so never more; the nodes that are verified therefore include all those the
property asks about. `LookedAt`: they are split into the ones pending and the ones
found to hold the chunk. It survives nodes pulling the chunk at any moment because
holders only grow. `Counted` is about the middle of a count: what has been counted so
far is at least the holders at its start that were asked and answered, and at most the
present holders that were asked; a node that pulls after it was asked only widens the
gap, and one that fails to answer leaves the first set and adds nothing. With nobody
left to ask this is `CountIsBetween`, and what the comparison with the threshold
rests on. `ResultsOwed` balances results with the chunks done; the products of chunks
and upload nodes are put into lemmas of their own.

### ConnectivityProofs: any number of nodes of any types

| theorem | says |
|---|---|
| `Invariant` | the inductive invariant below |
| `StatsTell_Invariant` | the counters of the message are those of the results, type by type: `StatsTellResults` |
| `PassMeans_Invariant` | what a pass means: `PassMeansPeersSeen` |
| `MeshWithoutLightNodes` | in a cluster without light nodes whose answers agree on who is connected, a pass is the full mesh of the documentation |

Assumed: `NodeCountAssumption`, `MinPeersAssumption`, `StrangerAssumption`. Both
checks visit the nodes in order, so the results are those of nodes `1` to `next - 1`:

    IInv == TypeOK /\ ResultsInOrder /\ Judged /\ Totalled /\ VerdictIsOfResults
            /\ StatsTellResults

`Judged` keeps what a node said when it was judged, `Totalled` the
lower bound of `total_peers` as long as all have passed. The three ways a node is
answered are abstracted to one predicate, `Answered(n, r)`, about the result `r` they
append; what such a step does to each conjunct is shown once, from the predicate. That numbers are compared and not sets is made
up for by set theory: a set of `n - 1` peers, none of them the node itself or a
stranger, is all the others.

`MeshWithoutLightNodes` is the property of run `connectivity_mesh`, with the premise
that its counterexample lacks.

### Only model-checked

Every invariant of a passing run is stated by a theorem, and so are the action
properties. What is left to TLC is liveness, as fairness and `ENABLED` are out of this
prover's reach: `EventuallyDecided`, `ExitsUnlessKeptAlive`, `PollerLearnsVerdict`,
`AlwaysReturns`, `CheckEnds`, `EveryCallEnds`, `Ends`, and the fairness part of
`ImplementsPromise`.

## 5. Not modelled

* `BeeClient`'s endpoints, wire types and configuration parsing: one request or
  one conversion each, without state.
* The bytes of chunks and files and how they are generated, hashes and
  signatures: pure functions, of which the properties need only whether a step can
  fail and whether data came back unchanged.
* Timestamps, durations, byte counts, messages and log lines, the Prometheus
  text.
* `run_concurrent_collect`: nothing in the program calls it, only its own test.
* The `init`, `list` and `validate` subcommands, the test kit, packaging.

## 6. Where the code and its words part

Checked, each by a run that TLC finds violated:

1. `runner_order`: "Content checks run after connectivity is verified"
   (`checks/registry.rs:10`), but all are spawned at once
   (`main.rs:225-244`); the order only decides in which order results are
   listed.
2. `smoke_mismatch`: in long-running mode every file's results replace those of
   the one before (`checks/smoke.rs:408-412`), so a mismatch is forgotten and the
   check passes; the totals know of it but are only logged. Without that
   mode it cannot happen (`SingleShotMeansNoMismatch`).
3. `connectivity_mesh`: "Must connect to all other full-capable nodes"
   (`checks/fullconnectivity.rs:7`) is checked by number only, and light peers
   count. Without light nodes the claim holds (`MeshWithoutLightNodes`).

Seen while reading, modelled as the code has it, and not made into runs:

* `apiarist_checks_failed` ("Number of checks failed", `api/metrics.rs:11`) does
  not count checks that errored or panicked (`main.rs:293-302`).
* "If keep_alive is set and API is running" (`main.rs:315`), but only that a port
  was asked for is tested.
* `run_concurrent` "returns `Err` on first failure" (`utils/concurrent.rs:163`),
  but the error kept may be the `Cancelled` of another task that was joined
  first; `max_concurrency` is not enforced there, as its comment admits.
* `retries` in a check's section never reaches pushsync, which looks for it in `extra`
  (`checks/pushsync.rs:206`) while serde puts it in the field of that name
  (`config/cluster.rs:140`): the number of looks is always the default.
* "Download the chunk from a different node" (`checks/retrieval.rs:10`), but with one
  full node among the nodes that is the uploader itself.
* An upload node that gets no batch leaves one failed result in pushsync and
  retrieval, but its chunks are missing from the numbers of the message.
* Batches are prepared when a check of a fixed list is asked for or enabled
  (`main.rs:149`); soc and pullsync, which need batches too, are not in it.
* `create_batch_on_node` says whether a batch "was created" (`batch.rs:125-126`),
  but calls every batch created that its own listing did not find.
* smoke, pushsync and retrieval pass when there is nothing to do (`file_sizes` empty,
  `chunks_per_node` 0), because no result is a failed one, although the `passed` that
  they log is then false (`checks/smoke.rs:448`, `checks/pushsync.rs:468`,
  `checks/retrieval.rs:331`).
* pullsync never verifies the closest node itself nor peers whose address it does
  not know, and panics when it did not learn the uploader's.
* `--timeout` is accepted and dropped (`main.rs:105`).

## 7. Plan

Done in this order: the runner with its state, its promise and its proofs; the
status API on top of it, and its proofs; `run_concurrent` and batches, with
theirs; the checks with the most control (smoke, pushsync, pullsync) and the
connectivity checks; pingpong on top of `run_concurrent`, with its proofs;
retrieval and soc with pushsync in one module; overlay distance and these three
checks proved; then smoke, pullsync and the connectivity checks, so that every
invariant and action property of a passing run has its theorem.

Next:

1. An abstract specification of one check (it reports at most once, its verdict is
   drawn from its results and never changes), with `SmokeCheck`, `PullsyncCheck`,
   `ChunkChecks` and `ConnectivityChecks` shown to implement it.
2. The promises of `/status` and `/health` beside those of `/results` and `/metrics`,
   and what a client may conclude from one after the other.
3. Action properties of batches: what a request of one call may do to the batches
   another call has been handed.
