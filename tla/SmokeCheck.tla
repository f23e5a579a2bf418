---------------------------- MODULE SmokeCheck ----------------------------
(***************************************************************************)
(* The smoke check, src/checks/smoke.rs: upload a file to the first full   *)
(* node, download it from the second, once for every file size and, in     *)
(* long-running mode, again and again until its duration is over.  Every   *)
(* request may fail; a download may bring other data than was uploaded.    *)
(* Sizes, bytes and the waits between requests are left out.               *)
(***************************************************************************)
EXTENDS CheckReport, SequencesExt

CONSTANTS
    Retries,        \* DEFAULT_RETRIES
    MaxFiles,       \* bound: the longest file_sizes list considered
    MaxIterations   \* bound: the duration is over by then

ASSUME RetriesAssumption == Retries \in Nat \ {0}
ASSUME BoundsAssumption == MaxFiles \in Nat /\ MaxIterations \in Nat \ {0}

VARIABLES
    fullNodes,      \* how many full nodes the cluster has
    files,          \* file_sizes.len()
    longRunning,    \* duration_secs > 0
    pc, iteration, file, attempt,
    stats,          \* of the file being tested
    totalStats,
    iterResults,    \* of the file being tested
    nodeResults,    \* all_node_results
    verdict,
    fates           \* observer: what became of each file tested, in order

optVars == <<fullNodes, files, longRunning>>
statVars == <<stats, totalStats>>
resultVars == <<iterResults, nodeResults>>
vars == <<optVars, pc, iteration, file, attempt, statVars, resultVars, verdict, fates>>

Fate == {"notUploaded", "notDownloaded", "mismatch", "match"}

(* IterationStats, without the attempts and the bytes, which are logged.   *)
NoStats == [uploads |-> 0, downloads |-> 0, mismatches |-> 0]

Init ==
    /\ fullNodes \in 1..2
    /\ files \in 0..MaxFiles
    /\ longRunning \in BOOLEAN
    /\ pc = "start"
    /\ iteration = 0
    /\ file = 0
    /\ attempt = 0
    /\ stats = NoStats
    /\ totalStats = NoStats
    /\ iterResults = <<>>
    /\ nodeResults = <<>>
    /\ verdict = "none"
    /\ fates = <<>>
-----------------------------------------------------------------------------
Fail == pc' = "done" /\ verdict' = "error"

Start ==
    /\ pc = "start"
    /\ IF fullNodes < 2 THEN Fail ELSE pc' = "batch" /\ UNCHANGED verdict
    /\ UNCHANGED <<optVars, iteration, file, attempt, statVars, resultVars, fates>>

(* A batch of get_or_create_batch, or the one the options name.            *)
GetBatch ==
    /\ pc = "batch"
    /\ \/ Fail /\ UNCHANGED iteration
       \/ pc' = "next" /\ iteration' = 1 /\ UNCHANGED verdict
    /\ UNCHANGED <<optVars, file, attempt, statVars, resultVars, fates>>

(* Mutant: the statistics of the previous file are not cleared.            *)
StartFileKeepStats ==
    /\ pc = "next"
    /\ file < files
    /\ pc' = "upload"
    /\ file' = file + 1
    /\ attempt' = 0
    /\ iterResults' = <<>>
    /\ UNCHANGED <<optVars, iteration, statVars, nodeResults, verdict, fates>>

StartFile ==
    /\ pc = "next"
    /\ file < files
    /\ pc' = "upload"
    /\ file' = file + 1
    /\ attempt' = 0
    /\ stats' = NoStats
    /\ iterResults' = <<>>
    /\ UNCHANGED <<optVars, iteration, totalStats, nodeResults, verdict, fates>>

Report(result) == iterResults' = Append(iterResults, result)

Seal(fate) == pc' = "merge" /\ fates' = Append(fates, fate)

UploadSucceeds ==
    /\ pc = "upload"
    /\ pc' = "download"
    /\ attempt' = 0
    /\ stats' = [stats EXCEPT !.uploads = @ + 1]
    /\ Report(Passed("uploader"))
    /\ UNCHANGED <<optVars, iteration, file, totalStats, nodeResults, verdict, fates>>

UploadFails ==
    /\ pc = "upload"
    /\ attempt' = attempt + 1
    /\ IF attempt' = Retries
       THEN Seal("notUploaded") /\ Report(Failed("uploader"))
       ELSE UNCHANGED <<pc, fates, iterResults>>
    /\ UNCHANGED <<optVars, iteration, file, statVars, nodeResults, verdict>>

DownloadMatches ==
    /\ pc = "download"
    /\ Seal("match")
    /\ stats' = [stats EXCEPT !.downloads = @ + 1]
    /\ Report(Passed("downloader"))
    /\ UNCHANGED <<optVars, iteration, file, attempt, totalStats, nodeResults, verdict>>

(* A mismatch is not retried.                                              *)
DownloadMismatches ==
    /\ pc = "download"
    /\ Seal("mismatch")
    /\ stats' = [stats EXCEPT !.mismatches = @ + 1]
    /\ Report(Failed("downloader"))
    /\ UNCHANGED <<optVars, iteration, file, attempt, totalStats, nodeResults, verdict>>

(* The last failed attempt is reported unless a mismatch already was.      *)
DownloadFails ==
    /\ pc = "download"
    /\ attempt' = attempt + 1
    /\ IF attempt' = Retries
       THEN /\ Seal("notDownloaded")
            /\ IF stats.mismatches = 0
               THEN Report(Failed("downloader")) ELSE UNCHANGED iterResults
       ELSE UNCHANGED <<pc, fates, iterResults>>
    /\ UNCHANGED <<optVars, iteration, file, statVars, nodeResults, verdict>>

(* Mutant: the totals are those of the last file.                          *)
MergeOverwrites ==
    /\ pc = "merge"
    /\ pc' = "next"
    /\ totalStats' = stats
    /\ nodeResults' = IF longRunning THEN iterResults ELSE nodeResults \o iterResults
    /\ UNCHANGED <<optVars, iteration, file, attempt, stats, iterResults, verdict, fates>>

(* Long-running mode keeps the results of the last file only.              *)
Merge ==
    /\ pc = "merge"
    /\ pc' = "next"
    /\ totalStats' = [f \in DOMAIN totalStats |-> totalStats[f] + stats[f]]
    /\ nodeResults' = IF longRunning THEN iterResults ELSE nodeResults \o iterResults
    /\ UNCHANGED <<optVars, iteration, file, attempt, stats, iterResults, verdict, fates>>

(* Stop after the one iteration, or when the duration is over.             *)
EndIteration ==
    /\ pc = "next"
    /\ file = files
    /\ \/ pc' = "finish" /\ UNCHANGED <<iteration, file>>
       \/ /\ longRunning /\ iteration < MaxIterations
          /\ iteration' = iteration + 1
          /\ file' = 0
          /\ UNCHANGED pc
    /\ UNCHANGED <<optVars, attempt, statVars, resultVars, verdict, fates>>

(* Mutant: the verdict only looks for mismatches.                          *)
FinishOnMismatches ==
    /\ pc = "finish"
    /\ pc' = "done"
    /\ verdict' = IF totalStats.mismatches = 0 THEN "passed" ELSE "failed"
    /\ UNCHANGED <<optVars, iteration, file, attempt, statVars, resultVars, fates>>

(* The flag `passed` of smoke.rs:448-451 is only logged.                   *)
Finish ==
    /\ pc = "finish"
    /\ pc' = "done"
    /\ verdict' = CheckVerdict(nodeResults)
    /\ UNCHANGED <<optVars, iteration, file, attempt, statVars, resultVars, fates>>

Done == pc = "done" /\ UNCHANGED vars
-----------------------------------------------------------------------------
RunIteration ==
    \/ UploadSucceeds \/ UploadFails
    \/ DownloadMatches \/ DownloadMismatches \/ DownloadFails

Next ==
    \/ Start \/ GetBatch \/ StartFile \/ RunIteration \/ Merge \/ EndIteration
    \/ Finish \/ Done

Spec == Init /\ [][Next]_vars
-----------------------------------------------------------------------------
(* The results a file must have left: one for its upload and, if it was    *)
(* uploaded, one for its download.                                         *)
Expected(fate) ==
    CASE fate = "notUploaded" -> <<Failed("uploader")>>
      [] fate = "match"       -> <<Passed("uploader"), Passed("downloader")>>
      [] OTHER                -> <<Passed("uploader"), Failed("downloader")>>

(* How many of the first n files tested had such a fate.                   *)
CountTo(n, fs) == Cardinality({i \in 1..n : fates[i] \in fs})

Count(fs) == CountTo(Len(fates), fs)

Uploaded == Fate \ {"notUploaded"}

(* Where the results of the i-th file begin when every file has left one   *)
(* for its upload and every uploaded file one for its download.            *)
Before(i) == (i - 1) + CountTo(i - 1, Uploaded)

(* Between two files the report tells what became of each file, in order   *)
(* and each once; in long-running mode, of the last one.  The guard        *)
(* `stats.mismatches == 0` (smoke.rs:271) must neither hide a failed       *)
(* download nor report a mismatch twice.                                   *)
ReportsTellFates ==
    pc \in {"next", "finish", "done"} =>
        IF longRunning /\ fates # <<>>
        THEN nodeResults = Expected(Last(fates))
        ELSE /\ Len(nodeResults) = Before(Len(fates) + 1)
             /\ \A i \in DOMAIN fates : \A k \in DOMAIN Expected(fates[i]) :
                   nodeResults[Before(i) + k] = Expected(fates[i])[k]

(* The totals the check logs and puts in its message count every file of   *)
(* every iteration once (merge, smoke.rs:69-77 and 404).                   *)
TotalsCountFates ==
    pc \in {"next", "finish", "done"} =>
        /\ totalStats.uploads = Count(Uploaded)
        /\ totalStats.downloads = Count({"match"})
        /\ totalStats.mismatches = Count({"mismatch"})

(* A single-shot run passes exactly when every file came back intact; a    *)
(* long-running one exactly when the last file of the last iteration did   *)
(* (smoke.rs:408-412, CheckResult::new).                                   *)
VerdictTellsFates ==
    verdict \in {"passed", "failed"} =>
        (verdict = "passed" <=>
            IF longRunning
            THEN fates # <<>> => Last(fates) = "match"
            ELSE \A i \in DOMAIN fates : fates[i] = "match")
-----------------------------------------------------------------------------
(* "3. Downloaded data matches uploaded data" (smoke.rs:9): no check that  *)
(* saw other data passes.                                                  *)
PassMeansNoMismatch == verdict = "passed" => Count({"mismatch"}) = 0
=============================================================================
