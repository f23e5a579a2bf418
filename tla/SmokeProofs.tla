----------------------------- MODULE SmokeProofs -----------------------------
(***************************************************************************)
(* Proofs about SmokeCheck, for any number of files, iterations and        *)
(* retries: what is noted of a file tells its fate, merging keeps report   *)
(* and totals in step with the fates, and the verdict follows from them.   *)
(***************************************************************************)
EXTENDS SmokeCheck, FiniteSetTheorems, SequenceTheorems, TLAPS

Result == [node : {"uploader", "downloader"}, passed : BOOLEAN]

Counters == [uploads : Nat, downloads : Nat, mismatches : Nat]

TypeOK ==
    /\ files \in Nat
    /\ longRunning \in BOOLEAN
    /\ pc \in {"start", "batch", "next", "upload", "download", "merge", "finish", "done"}
    /\ stats \in Counters
    /\ totalStats \in Counters
    /\ iterResults \in Seq(Result)
    /\ nodeResults \in Seq(Result)
    /\ verdict \in {"none", "passed", "failed", "error"}
    /\ fates \in Seq(Fate)

(* The statistics of a file with such a fate.                              *)
StatsOf(fate) ==
    CASE fate = "notUploaded"   -> NoStats
      [] fate = "notDownloaded" -> [uploads |-> 1, downloads |-> 0, mismatches |-> 0]
      [] fate = "mismatch"      -> [uploads |-> 1, downloads |-> 0, mismatches |-> 1]
      [] fate = "match"         -> [uploads |-> 1, downloads |-> 1, mismatches |-> 0]

(* What has been noted of the file being tested.                           *)
FileBooks ==
    /\ pc = "upload" => stats = NoStats /\ iterResults = <<>>
    /\ pc = "download" =>
          /\ stats = [uploads |-> 1, downloads |-> 0, mismatches |-> 0]
          /\ iterResults = <<Passed("uploader")>>
    /\ pc = "merge" =>
          /\ Len(fates) > 0
          /\ stats = StatsOf(fates[Len(fates)])
          /\ iterResults = Expected(fates[Len(fates)])

(* The files that are tested and merged.                                   *)
Merged == IF pc = "merge" THEN Len(fates) - 1 ELSE Len(fates)

TotalBooks ==
    /\ totalStats.uploads = CountTo(Merged, Uploaded)
    /\ totalStats.downloads = CountTo(Merged, {"match"})
    /\ totalStats.mismatches = CountTo(Merged, {"mismatch"})

(* The k-th result of the i-th file.                                       *)
Tells(i, k) ==
    /\ Before(i) + k \in DOMAIN nodeResults
    /\ nodeResults[Before(i) + k] = Expected(fates[i])[k]

(* Every result is that of a merged file, and every merged file has its.   *)
AllTold ==
    /\ Len(nodeResults) = Before(Merged + 1)
    /\ \A i \in 1..Merged : \A k \in DOMAIN Expected(fates[i]) : Tells(i, k)
    /\ \A x \in DOMAIN nodeResults :
          \E i \in 1..Merged : \E k \in DOMAIN Expected(fates[i]) : x = Before(i) + k

ReportBooks ==
    IF longRunning /\ Merged > 0
    THEN nodeResults = Expected(fates[Merged])
    ELSE AllTold

VerdictOfReport ==
    /\ verdict # "none" => pc = "done"
    /\ verdict \in {"passed", "failed"} => verdict = CheckVerdict(nodeResults)

IInv == TypeOK /\ FileBooks /\ TotalBooks /\ ReportBooks /\ VerdictOfReport
-----------------------------------------------------------------------------
(* How many results a file leaves, and when all of them are passes.        *)
LEMMA ExpectedResults ==
    ASSUME NEW fate \in Fate
    PROVE  /\ Expected(fate) \in Seq(Result)
           /\ Len(Expected(fate)) = IF fate \in Uploaded THEN 2 ELSE 1
           /\ DOMAIN Expected(fate) = 1..Len(Expected(fate))
           /\ (\A k \in DOMAIN Expected(fate) : Expected(fate)[k].passed) <=> fate = "match"
<1>1. \A node \in {"uploader", "downloader"} :
          /\ Passed(node) \in Result /\ Passed(node).passed
          /\ Failed(node) \in Result /\ ~Failed(node).passed
  BY DEF Passed, Failed, Result
<1>2. CASE fate = "notUploaded"
  <2>1. Expected(fate) = <<Failed("uploader")>>
    BY <1>2 DEF Expected
  <2>2. \A r : <<r>>[1] = r /\ Len(<<r>>) = 1 /\ DOMAIN <<r>> = {1}
    OBVIOUS
  <2>3. Expected(fate) \in Seq(Result)
    BY <1>1, <2>1
  <2>4. fate \notin Uploaded /\ fate # "match"
    BY <1>2 DEF Uploaded
  <2> QED
    BY <1>1, <2>1, <2>2, <2>3, <2>4
<1>3. CASE fate = "match"
  <2>1. Expected(fate) = <<Passed("uploader"), Passed("downloader")>>
    BY <1>3 DEF Expected
  <2>2. \A r, s : /\ <<r, s>>[1] = r /\ <<r, s>>[2] = s
                  /\ Len(<<r, s>>) = 2 /\ DOMAIN <<r, s>> = {1, 2}
    OBVIOUS
  <2>3. Expected(fate) \in Seq(Result)
    BY <1>1, <2>1
  <2>4. fate \in Uploaded
    BY <1>3 DEF Uploaded, Fate
  <2> QED
    BY <1>1, <1>3, <2>1, <2>2, <2>3, <2>4
<1>4. CASE fate \notin {"notUploaded", "match"}
  <2>1. Expected(fate) = <<Passed("uploader"), Failed("downloader")>>
    BY <1>4 DEF Expected
  <2>2. \A r, s : /\ <<r, s>>[1] = r /\ <<r, s>>[2] = s
                  /\ Len(<<r, s>>) = 2 /\ DOMAIN <<r, s>> = {1, 2}
    OBVIOUS
  <2>3. Expected(fate) \in Seq(Result)
    BY <1>1, <2>1
  <2>4. fate \in Uploaded /\ fate # "match"
    BY <1>4 DEF Uploaded
  <2> QED
    BY <1>1, <2>1, <2>2, <2>3, <2>4
<1> QED
  BY <1>2, <1>3, <1>4

(* Counting one file more.                                                 *)
LEMMA CountOneMore ==
    ASSUME NEW n \in Nat, NEW fs
    PROVE  /\ CountTo(n, fs) \in Nat
           /\ CountTo(n + 1, fs) = IF fates[n + 1] \in fs THEN CountTo(n, fs) + 1
                                                          ELSE CountTo(n, fs)
<1> DEFINE S == {i \in 1..n : fates[i] \in fs}
           T == {i \in 1..(n + 1) : fates[i] \in fs}
<1>1. IsFiniteSet(S) /\ n + 1 \notin S
  <2>1. IsFiniteSet(1..n)
    BY FS_Interval
  <2> QED
    BY <2>1, FS_Subset
<1>2. T = IF fates[n + 1] \in fs THEN S \cup {n + 1} ELSE S
  OBVIOUS
<1>3. CountTo(n, fs) = Cardinality(S) /\ CountTo(n + 1, fs) = Cardinality(T)
  BY DEF CountTo
<1> HIDE DEF S, T
<1> QED
  BY <1>1, <1>2, <1>3, FS_AddElement, FS_CardinalityType

(* Nothing is counted of no file.                                          *)
LEMMA CountNone == \A fs : CountTo(0, fs) = 0
<1> SUFFICES ASSUME NEW fs PROVE CountTo(0, fs) = 0
  OBVIOUS
<1>1. {i \in 1..0 : fates[i] \in fs} = {}
  OBVIOUS
<1> QED
  BY <1>1, FS_EmptySet DEF CountTo

(* The next file's results begin where the results of a file end.          *)
LEMMA BeforeNext ==
    ASSUME NEW i \in Nat \ {0}, fates[i] \in Fate
    PROVE  /\ Before(i) \in Nat
           /\ Before(i + 1) = Before(i) + Len(Expected(fates[i]))
<1>1. /\ i - 1 \in Nat /\ (i - 1) + 1 = i /\ (i + 1) - 1 = i
  OBVIOUS
<1>2. CountTo(i - 1, Uploaded) \in Nat
      /\ CountTo(i, Uploaded) = IF fates[i] \in Uploaded THEN CountTo(i - 1, Uploaded) + 1
                                                         ELSE CountTo(i - 1, Uploaded)
  BY <1>1, CountOneMore
<1>3. Before(i) = (i - 1) + CountTo(i - 1, Uploaded) /\ Before(i + 1) = i + CountTo(i, Uploaded)
  BY <1>1 DEF Before
<1>4. Len(Expected(fates[i])) = IF fates[i] \in Uploaded THEN 2 ELSE 1
  BY ExpectedResults
<1> QED
  BY <1>1, <1>2, <1>3, <1>4

(* Sealing the fate of a file leaves those of the others as they are.      *)
LEMMA SealedOthers ==
    ASSUME TypeOK, NEW fate \in Fate, fates' = Append(fates, fate)
    PROVE  /\ fates' \in Seq(Fate) /\ Len(fates') = Len(fates) + 1 /\ Len(fates) \in Nat
           /\ fates'[Len(fates')] = fate
           /\ \A i \in 1..Len(fates) : fates'[i] = fates[i]
           /\ \A n \in 0..Len(fates) : \A fs : CountTo(n, fs)' = CountTo(n, fs)
           /\ \A i \in 1..(Len(fates) + 1) : Before(i)' = Before(i)
<1>1. /\ fates' \in Seq(Fate) /\ Len(fates') = Len(fates) + 1 /\ Len(fates) \in Nat
      /\ fates'[Len(fates')] = fate
      /\ \A i \in 1..Len(fates) : fates'[i] = fates[i]
  BY DEF TypeOK
<1>2. ASSUME NEW n \in 0..Len(fates), NEW fs
      PROVE  CountTo(n, fs)' = CountTo(n, fs)
  <2>1. {i \in 1..n : fates'[i] \in fs} = {i \in 1..n : fates[i] \in fs}
    BY <1>1
  <2> QED
    BY <2>1 DEF CountTo
<1>3. ASSUME NEW i \in 1..(Len(fates) + 1)
      PROVE  Before(i)' = Before(i)
  <2>1. i - 1 \in 0..Len(fates)
    BY <1>1
  <2> QED
    BY <1>2, <2>1 DEF Before
<1> QED
  BY <1>1, <1>2, <1>3
-----------------------------------------------------------------------------
(* The report is not touched while a file is being tested.                 *)
LEMMA QuietBooks ==
    ASSUME TotalBooks, ReportBooks,
           UNCHANGED <<fates, nodeResults, totalStats, longRunning>>, Merged' = Merged
    PROVE  TotalBooks' /\ ReportBooks'
<1>1. \A n, fs : CountTo(n, fs)' = CountTo(n, fs)
  BY DEF CountTo
<1>2. \A i : Before(i)' = Before(i)
  BY DEF Before, CountTo
<1>3. TotalBooks'
  BY <1>1 DEF TotalBooks, CountTo
<1>4. AllTold => AllTold'
  <2>1. Before(Merged + 1)' = Before(Merged + 1)
    BY DEF Before, CountTo
  <2>2. \A i, k : Tells(i, k)' <=> Tells(i, k)
    BY <1>2 DEF Tells
  <2> QED
    BY <1>2, <2>1, <2>2 DEF AllTold
<1> QED
  BY <1>3, <1>4 DEF ReportBooks

(* Nor when its fate is sealed.                                            *)
LEMMA SealedBooks ==
    ASSUME TypeOK, TotalBooks, ReportBooks, NEW fate \in Fate, pc # "merge", Seal(fate),
           UNCHANGED <<nodeResults, totalStats, longRunning>>
    PROVE  TotalBooks' /\ ReportBooks'
<1>1. /\ fates' = Append(fates, fate) /\ pc' = "merge"
  BY DEF Seal
<1>2. /\ Len(fates') = Len(fates) + 1 /\ Len(fates) \in Nat
      /\ \A i \in 1..Len(fates) : fates'[i] = fates[i]
      /\ \A n \in 0..Len(fates) : \A fs : CountTo(n, fs)' = CountTo(n, fs)
      /\ \A i \in 1..(Len(fates) + 1) : Before(i)' = Before(i)
  BY <1>1, SealedOthers
<1>3. Merged = Len(fates) /\ Merged' = Len(fates)
  BY <1>1, <1>2 DEF Merged
<1>4. TotalBooks'
  <2>1. \A fs : CountTo(Merged, fs)' = CountTo(Merged, fs)
    <3>1. \A fs : CountTo(Merged, fs)' = Cardinality({i \in 1..Len(fates) : fates'[i] \in fs})
      BY <1>3 DEF CountTo
    <3>2. \A fs : {i \in 1..Len(fates) : fates'[i] \in fs} = {i \in 1..Len(fates) : fates[i] \in fs}
      BY <1>2
    <3> QED
      BY <1>3, <3>1, <3>2 DEF CountTo
  <2> QED
    BY <2>1 DEF TotalBooks
<1>5. \A i \in 1..Merged : i \in 1..Len(fates) /\ i \in 1..(Len(fates) + 1)
  BY <1>2, <1>3
<1>6. AllTold => AllTold'
  <2> SUFFICES ASSUME AllTold PROVE AllTold'
    OBVIOUS
  <2>1. Before(Merged + 1)' = Before(Merged + 1)
    <3>1. Merged + 1 \in 1..(Len(fates) + 1) /\ Merged' + 1 = Merged + 1
      BY <1>2, <1>3
    <3> QED
      BY <1>2, <1>3, <3>1 DEF Before, CountTo
  <2>2. \A i \in 1..Merged : Before(i)' = Before(i) /\ Expected(fates'[i]) = Expected(fates[i])
    BY <1>2, <1>5
  <2>3. Merged' = Merged
    BY <1>3
  <2>4. \A i \in 1..Merged' : \A k \in DOMAIN Expected(fates'[i]) : Tells(i, k)'
    BY <2>2, <2>3 DEF AllTold, Tells
  <2>5. \A x \in DOMAIN nodeResults' :
          \E i \in 1..Merged' : \E k \in DOMAIN Expected(fates'[i]) : x = Before(i)' + k
    BY <2>2, <2>3 DEF AllTold
  <2>6. Len(nodeResults') = Before(Merged + 1)'
    BY <2>1 DEF AllTold
  <2> QED
    BY <2>4, <2>5, <2>6 DEF AllTold
<1>7. Merged > 0 => fates'[Merged] = fates[Merged]
  BY <1>2, <1>3
<1> QED
  BY <1>3, <1>4, <1>6, <1>7 DEF ReportBooks
-----------------------------------------------------------------------------
(* Merging counts the file whose fate was sealed last ...                  *)
LEMMA MergedTotals ==
    ASSUME TypeOK, FileBooks, TotalBooks, Merge
    PROVE  TotalBooks'
<1> DEFINE n == Len(fates)
<1>1. n \in Nat \ {0} /\ fates[n] \in Fate /\ n - 1 \in Nat /\ (n - 1) + 1 = n
  BY DEF Merge, FileBooks, TypeOK
<1>2. stats = StatsOf(fates[n]) /\ pc = "merge" /\ pc' = "next" /\ fates' = fates
  BY DEF Merge, FileBooks
<1>3. Merged = n - 1 /\ Merged' = n
  BY <1>2 DEF Merged
<1>4. /\ totalStats'.uploads = totalStats.uploads + stats.uploads
      /\ totalStats'.downloads = totalStats.downloads + stats.downloads
      /\ totalStats'.mismatches = totalStats.mismatches + stats.mismatches
  BY DEF Merge, TypeOK, Counters
<1>5. /\ totalStats.uploads = CountTo(n - 1, Uploaded)
      /\ totalStats.downloads = CountTo(n - 1, {"match"})
      /\ totalStats.mismatches = CountTo(n - 1, {"mismatch"})
  BY <1>3 DEF TotalBooks
<1>6. \A fs : /\ CountTo(n - 1, fs) \in Nat
              /\ CountTo(n, fs) = IF fates[n] \in fs THEN CountTo(n - 1, fs) + 1
                                                     ELSE CountTo(n - 1, fs)
  BY <1>1, CountOneMore
<1>7. \A fs : CountTo(Merged, fs)' = CountTo(n, fs)
  BY <1>2, <1>3 DEF CountTo
<1> HIDE DEF n
<1>8. /\ stats.uploads = IF fates[n] \in Uploaded THEN 1 ELSE 0
      /\ stats.downloads = IF fates[n] \in {"match"} THEN 1 ELSE 0
      /\ stats.mismatches = IF fates[n] \in {"mismatch"} THEN 1 ELSE 0
  BY <1>1, <1>2 DEF StatsOf, NoStats, Fate, Uploaded
<1>9. /\ totalStats'.uploads = CountTo(n, Uploaded)
      /\ totalStats'.downloads = CountTo(n, {"match"})
      /\ totalStats'.mismatches = CountTo(n, {"mismatch"})
  BY <1>4, <1>5, <1>6, <1>8
<1> QED
  BY <1>7, <1>9 DEF TotalBooks

(* ... and tells of it, after all the others or in their place.            *)
LEMMA MergedReport ==
    ASSUME TypeOK, FileBooks, ReportBooks, Merge
    PROVE  ReportBooks'
<1> DEFINE n == Len(fates)
           e == Expected(fates[n])
<1>1. n \in Nat \ {0} /\ \A i \in 1..n : fates[i] \in Fate
  BY DEF Merge, FileBooks, TypeOK
<1>2. iterResults = e /\ pc = "merge" /\ pc' = "next" /\ fates' = fates
      /\ longRunning' = longRunning
  BY DEF Merge, FileBooks, optVars
<1>3. Merged = n - 1 /\ Merged' = n
  BY <1>2 DEF Merged
<1>4. CASE longRunning
  <2>1. nodeResults' = e
    BY <1>2, <1>4 DEF Merge
  <2> QED
    BY <1>1, <1>2, <1>3, <1>4, <2>1 DEF ReportBooks
<1>5. CASE ~longRunning
  <2>1. nodeResults' = nodeResults \o e /\ AllTold
    BY <1>2, <1>5 DEF Merge, ReportBooks
  <2>2. e \in Seq(Result) /\ Len(e) \in Nat /\ DOMAIN e = 1..Len(e)
    BY <1>1, ExpectedResults
  <2>3. nodeResults \in Seq(Result)
    BY DEF TypeOK
  <2>4. /\ Len(nodeResults) \in Nat /\ DOMAIN nodeResults = 1..Len(nodeResults)
        /\ DOMAIN nodeResults' = 1..(Len(nodeResults) + Len(e))
        /\ Len(nodeResults') = Len(nodeResults) + Len(e)
        /\ \A x \in 1..Len(nodeResults) : nodeResults'[x] = nodeResults[x]
        /\ \A k \in 1..Len(e) : nodeResults'[Len(nodeResults) + k] = e[k]
    <3> HIDE DEF e
    <3> QED
      BY <2>1, <2>2, <2>3
  <2>5. /\ Len(nodeResults) = Before(n)
        /\ \A i \in 1..(n - 1) : \A k \in DOMAIN Expected(fates[i]) : Tells(i, k)
        /\ \A x \in DOMAIN nodeResults :
              \E i \in 1..(n - 1) : \E k \in DOMAIN Expected(fates[i]) : x = Before(i) + k
    <3>1. Before(Merged + 1) = Before(n)
      BY <1>1, <1>3
    <3> QED
      BY <1>3, <2>1, <3>1 DEF AllTold
  <2>6. Before(n + 1) = Before(n) + Len(e) /\ Before(n) \in Nat
    BY <1>1, BeforeNext
  <2>7. \A i : Before(i)' = Before(i)
    BY <1>2 DEF Before, CountTo
  <2> HIDE DEF e, n
  <2>8. ASSUME NEW i \in 1..n, NEW k \in DOMAIN Expected(fates[i])
        PROVE  Tells(i, k)'
    <3>1. CASE i # n
      <4>1. Tells(i, k)
        BY <1>1, <2>5, <2>8, <3>1
      <4> QED
        BY <1>2, <2>4, <2>7, <4>1 DEF Tells
    <3>2. CASE i = n
      <4>1. Before(i) + k = Len(nodeResults) + k /\ k \in 1..Len(e)
        BY <2>2, <2>5, <2>8, <3>2 DEF e
      <4>2. Len(nodeResults) + k \in DOMAIN nodeResults'
        BY <2>2, <2>4, <4>1
      <4>3. nodeResults'[Before(i) + k] = Expected(fates[i])[k]
        BY <2>4, <3>2, <4>1 DEF e
      <4> QED
        BY <1>2, <2>7, <4>1, <4>2, <4>3 DEF Tells
    <3> QED
      BY <3>1, <3>2
  <2>9. ASSUME NEW x \in DOMAIN nodeResults'
        PROVE  \E i \in 1..n : \E k \in DOMAIN Expected(fates[i]) : x = Before(i) + k
    <3>1. CASE x \in DOMAIN nodeResults
      <4>1. PICK i \in 1..(n - 1) : \E k \in DOMAIN Expected(fates[i]) : x = Before(i) + k
        BY <2>5, <3>1
      <4>2. i \in 1..n
        BY <1>1
      <4> QED
        BY <4>1, <4>2
    <3>2. CASE x \notin DOMAIN nodeResults
      <4>1. x - Len(nodeResults) \in 1..Len(e) /\ x = Before(n) + (x - Len(nodeResults))
        BY <2>2, <2>4, <2>5, <2>9, <3>2
      <4>2. x - Len(nodeResults) \in DOMAIN Expected(fates[n]) /\ n \in 1..n
        BY <1>1, <2>2, <4>1 DEF e
      <4> QED
        BY <4>1, <4>2
    <3> QED
      BY <3>1, <3>2
  <2>10. Len(nodeResults') = Before(Merged + 1)'
    <3>1. Before(Merged + 1)' = Before(n + 1)
      BY <1>2, <1>3 DEF Before, CountTo
    <3> QED
      BY <2>4, <2>5, <2>6, <3>1
  <2>11. AllTold'
    BY <1>2, <1>3, <2>7, <2>8, <2>9, <2>10 DEF AllTold
  <2> QED
    BY <1>2, <1>5, <2>11 DEF ReportBooks
<1> QED
  BY <1>4, <1>5 DEF TypeOK
-----------------------------------------------------------------------------
(* The report and its lists keep their types.                              *)
LEMMA ReportTyped ==
    ASSUME TypeOK
    PROVE  /\ \A node \in {"uploader", "downloader"} :
                 /\ Passed(node) \in Result /\ Append(iterResults, Passed(node)) \in Seq(Result)
                 /\ Failed(node) \in Result /\ Append(iterResults, Failed(node)) \in Seq(Result)
           /\ nodeResults \o iterResults \in Seq(Result)
<1>1. ASSUME NEW node \in {"uploader", "downloader"}
      PROVE  Passed(node) \in Result /\ Failed(node) \in Result
  BY DEF Passed, Failed, Result
<1>2. nodeResults \o iterResults \in Seq(Result)
  BY DEF TypeOK
<1>3. \A r \in Result : Append(iterResults, r) \in Seq(Result)
  BY DEF TypeOK
<1> QED
  BY <1>1, <1>2, <1>3

(* A sealed fate is a fate, and the last.                                  *)
LEMMA SealedLast ==
    ASSUME TypeOK, NEW fate \in Fate, Seal(fate)
    PROVE  /\ pc' = "merge" /\ fates' \in Seq(Fate)
           /\ Len(fates') > 0 /\ fates'[Len(fates')] = fate
<1>1. pc' = "merge" /\ fates' = Append(fates, fate)
  BY DEF Seal
<1> QED
  BY <1>1, SealedOthers

(* At the start nothing is noted.                                          *)
LEMMA InitInvariant == Init => IInv
<1> SUFFICES ASSUME Init PROVE IInv
  OBVIOUS
<1>1. stats \in Counters /\ totalStats \in Counters
  BY DEF Init, NoStats, Counters
<1>2. TypeOK
  BY <1>1, BoundsAssumption DEF Init, TypeOK
<1>3. Merged = 0 /\ Len(fates) = 0 /\ Before(1) = 0 /\ DOMAIN nodeResults = {} /\ 1..Merged = {}
      /\ Len(nodeResults) = 0 /\ Merged + 1 = 1
  BY CountNone DEF Init, Merged, Before
<1>4. TotalBooks
  BY <1>3, CountNone DEF Init, NoStats, TotalBooks
<1>5. ReportBooks
  BY <1>3 DEF ReportBooks, AllTold
<1>6. FileBooks /\ VerdictOfReport
  BY DEF Init, FileBooks, VerdictOfReport
<1> QED
  BY <1>2, <1>4, <1>5, <1>6 DEF IInv
-----------------------------------------------------------------------------
(* Every step of the check itself keeps the invariant.                     *)
LEMMA CheckStep ==
    ASSUME IInv, Start \/ GetBatch \/ StartFile \/ Merge \/ EndIteration \/ Finish
    PROVE  IInv'
<1> USE DEF Fail, statVars, resultVars, optVars
<1>1. CASE Start \/ GetBatch \/ StartFile \/ EndIteration
  <2>1. /\ UNCHANGED <<files, longRunning, totalStats, nodeResults, fates>>
        /\ pc # "merge" /\ pc # "done" /\ pc' \notin {"merge", "download"}
        /\ verdict' = verdict \/ (verdict' = "error" /\ pc' = "done")
        /\ pc' = "done" => verdict' = "error"
        /\ pc' = "upload" => stats' = NoStats /\ iterResults' = <<>>
        /\ pc' \in {"batch", "next", "upload", "finish", "done"}
        /\ stats' \in {stats, NoStats} /\ iterResults' \in {iterResults, <<>>}
    BY <1>1 DEF Start, GetBatch, StartFile, EndIteration
  <2>2. TypeOK'
    <3>1. NoStats \in Counters /\ <<>> \in Seq(Result)
      BY DEF NoStats, Counters
    <3> QED
      BY <2>1, <3>1 DEF IInv, TypeOK
  <2>3. Merged' = Merged
    BY <2>1 DEF Merged
  <2>4. TotalBooks' /\ ReportBooks'
    BY <2>1, <2>3, QuietBooks DEF IInv
  <2>5. FileBooks'
    BY <2>1 DEF FileBooks
  <2>6. VerdictOfReport'
    BY <2>1 DEF IInv, VerdictOfReport
  <2> QED
    BY <2>2, <2>4, <2>5, <2>6 DEF IInv
<1>2. CASE Merge
  <2>1. TotalBooks' /\ ReportBooks'
    BY <1>2, MergedTotals, MergedReport DEF IInv
  <2>2. totalStats' \in Counters
    BY <1>2 DEF Merge, IInv, TypeOK, Counters
  <2>3. nodeResults' \in Seq(Result)
    BY <1>2, ReportTyped DEF Merge, IInv, TypeOK
  <2>4. TypeOK'
    BY <1>2, <2>2, <2>3 DEF Merge, IInv, TypeOK
  <2>5. pc = "merge" /\ pc' = "next" /\ verdict' = verdict
    BY <1>2 DEF Merge
  <2>6. FileBooks' /\ VerdictOfReport'
    BY <2>5 DEF IInv, FileBooks, VerdictOfReport
  <2> QED
    BY <2>1, <2>4, <2>6 DEF IInv
<1>3. CASE Finish
  <2>1. /\ UNCHANGED <<files, longRunning, stats, totalStats, iterResults, nodeResults, fates>>
        /\ pc = "finish" /\ pc' = "done" /\ verdict' = CheckVerdict(nodeResults)
    BY <1>3 DEF Finish
  <2>2. CheckVerdict(nodeResults) \in {"passed", "failed"}
    BY DEF CheckVerdict
  <2>3. TypeOK'
    BY <2>1, <2>2 DEF IInv, TypeOK
  <2>4. Merged' = Merged
    BY <2>1 DEF Merged
  <2>5. TotalBooks' /\ ReportBooks'
    BY <2>1, <2>4, QuietBooks DEF IInv
  <2>6. FileBooks' /\ VerdictOfReport'
    BY <2>1 DEF FileBooks, VerdictOfReport, CheckVerdict
  <2> QED
    BY <2>3, <2>5, <2>6 DEF IInv
<1> QED
  BY <1>1, <1>2, <1>3

(* A request that fails but is tried again is not noted.                   *)
LEMMA RetryStep ==
    ASSUME IInv, pc \in {"upload", "download"},
           UNCHANGED <<optVars, pc, statVars, resultVars, verdict, fates>>
    PROVE  IInv'
<1>1. UNCHANGED <<files, longRunning, pc, stats, totalStats, iterResults, nodeResults, verdict,
                  fates>>
  BY DEF optVars, statVars, resultVars
<1>2. Merged' = Merged
  BY <1>1 DEF Merged
<1>3. TotalBooks' /\ ReportBooks'
  BY <1>1, <1>2, QuietBooks DEF IInv
<1>4. TypeOK' /\ FileBooks' /\ VerdictOfReport'
  BY <1>1 DEF IInv, TypeOK, FileBooks, VerdictOfReport, CheckVerdict
<1> QED
  BY <1>3, <1>4 DEF IInv

(* A file whose fate is sealed has been noted as it ended.                 *)
LEMMA SealStep ==
    ASSUME IInv, pc \in {"upload", "download"}, NEW fate \in Fate, Seal(fate),
           stats' \in Counters, stats' = StatsOf(fate),
           iterResults' \in Seq(Result), iterResults' = Expected(fate),
           UNCHANGED <<optVars, totalStats, nodeResults, verdict>>
    PROVE  IInv'
<1>1. UNCHANGED <<files, longRunning, totalStats, nodeResults, verdict>> /\ verdict = "none"
  BY DEF optVars, IInv, VerdictOfReport
<1>2. /\ pc' = "merge" /\ fates' \in Seq(Fate)
      /\ Len(fates') > 0 /\ fates'[Len(fates')] = fate
  BY SealedLast DEF IInv
<1>3. TotalBooks' /\ ReportBooks'
  BY <1>1, SealedBooks DEF IInv
<1>4. TypeOK'
  BY <1>1, <1>2 DEF IInv, TypeOK
<1>5. FileBooks' /\ VerdictOfReport'
  BY <1>1, <1>2 DEF FileBooks, VerdictOfReport
<1> QED
  BY <1>3, <1>4, <1>5 DEF IInv

(* A download's result comes after that of the upload.                     *)
LEMMA AppendSecond ==
    ASSUME NEW a \in Result, NEW b \in Result
    PROVE  Append(<<a>>, b) = <<a, b>>
<1> DEFINE s == <<a>>
           t == <<a, b>>
<1>1. s \in Seq(Result) /\ Len(s) = 1 /\ s[1] = a
  OBVIOUS
<1>2. t \in Seq(Result) /\ Len(t) = 2 /\ t[1] = a /\ t[2] = b
  OBVIOUS
<1> HIDE DEF s, t
<1>3. /\ Append(s, b) \in Seq(Result) /\ Len(Append(s, b)) = 2
      /\ Append(s, b)[1] = a /\ Append(s, b)[2] = b
  <2>1. \A q \in Seq(Result) :
           /\ Append(q, b) \in Seq(Result) /\ Len(Append(q, b)) = Len(q) + 1
           /\ \A i \in 1..Len(q) : Append(q, b)[i] = q[i]
           /\ Append(q, b)[Len(q) + 1] = b
    OBVIOUS
  <2>2. 1 \in 1..Len(s) /\ Len(s) + 1 = 2
    BY <1>1
  <2> QED
    BY <1>1, <2>1, <2>2
<1>4. \A i \in 1..2 : i = 1 \/ i = 2
  OBVIOUS
<1>5. Append(s, b) = t
  BY <1>2, <1>3, <1>4, SeqEqual
<1> QED
  BY <1>5 DEF s, t

(* Every step of a file's test keeps the invariant.                        *)
LEMMA FileStep ==
    ASSUME IInv, RunIteration
    PROVE  IInv'
<1> USE DEF Report
<1>0. /\ stats \in Counters /\ iterResults \in Seq(Result)
      /\ pc = "upload" => stats = NoStats /\ iterResults = <<>>
      /\ pc = "download" =>
            /\ stats = [uploads |-> 1, downloads |-> 0, mismatches |-> 0]
            /\ iterResults = <<Passed("uploader")>>
      /\ pc = "upload" \/ pc = "download" => verdict = "none"
  BY DEF IInv, TypeOK, FileBooks, VerdictOfReport
<1>1. CASE UploadSucceeds
  <2>1. /\ pc = "upload" /\ pc' = "download"
        /\ stats' = [stats EXCEPT !.uploads = @ + 1]
        /\ iterResults' = Append(iterResults, Passed("uploader"))
        /\ UNCHANGED <<files, longRunning, totalStats, nodeResults, verdict, fates>>
    BY <1>1 DEF UploadSucceeds, optVars
  <2>2. stats' = [uploads |-> 1, downloads |-> 0, mismatches |-> 0]
    BY <1>0, <2>1 DEF NoStats
  <2>3. iterResults' = <<Passed("uploader")>>
    BY <1>0, <2>1
  <2>4. stats' \in Counters /\ iterResults' \in Seq(Result)
    <3>1. iterResults' \in Seq(Result)
      BY <2>1, ReportTyped DEF IInv
    <3> QED
      BY <2>2, <3>1 DEF Counters
  <2>5. TypeOK'
    BY <2>1, <2>4 DEF IInv, TypeOK
  <2>6. Merged' = Merged
    BY <2>1 DEF Merged
  <2>7. TotalBooks' /\ ReportBooks'
    BY <2>1, <2>6, QuietBooks DEF IInv
  <2>8. FileBooks' /\ VerdictOfReport'
    BY <1>0, <2>1, <2>2, <2>3 DEF FileBooks, VerdictOfReport
  <2> QED
    BY <2>5, <2>7, <2>8 DEF IInv
<1>2. CASE UploadFails
  <2>1. CASE attempt' = Retries
    <3>1. /\ pc = "upload" /\ Seal("notUploaded") /\ "notUploaded" \in Fate
          /\ iterResults' = Append(iterResults, Failed("uploader"))
          /\ UNCHANGED <<optVars, stats, totalStats, nodeResults, verdict>>
      BY <1>2, <2>1 DEF UploadFails, statVars, Fate
    <3>2. stats' = StatsOf("notUploaded")
      BY <1>0, <3>1 DEF StatsOf
    <3>3. iterResults' = Expected("notUploaded")
      BY <1>0, <3>1 DEF Expected
    <3>4. stats' \in Counters /\ iterResults' \in Seq(Result)
      BY <1>0, <3>1, ReportTyped DEF IInv
    <3> QED
      BY <3>1, <3>2, <3>3, <3>4, SealStep
  <2>2. CASE attempt' # Retries
    BY <1>2, <2>2, RetryStep DEF UploadFails, statVars, resultVars
  <2> QED
    BY <2>1, <2>2
<1>3. CASE DownloadMatches
  <2>1. /\ pc = "download" /\ Seal("match") /\ "match" \in Fate
        /\ stats' = [stats EXCEPT !.downloads = @ + 1]
        /\ iterResults' = Append(iterResults, Passed("downloader"))
        /\ UNCHANGED <<optVars, totalStats, nodeResults, verdict>>
    BY <1>3 DEF DownloadMatches, Fate
  <2>2. stats' = [uploads |-> 1, downloads |-> 1, mismatches |-> 0]
    BY <1>0, <2>1
  <2>3. iterResults' = <<Passed("uploader"), Passed("downloader")>>
    BY <1>0, <2>1, ReportTyped, AppendSecond DEF IInv
  <2>4. stats' \in Counters /\ iterResults' \in Seq(Result)
    <3>1. iterResults' \in Seq(Result)
      BY <2>1, ReportTyped DEF IInv
    <3> QED
      BY <2>2, <3>1 DEF Counters
  <2>5. stats' = StatsOf("match") /\ iterResults' = Expected("match")
    BY <2>2, <2>3 DEF StatsOf, Expected
  <2> QED
    BY <2>1, <2>4, <2>5, SealStep
<1>4. CASE DownloadMismatches
  <2>1. /\ pc = "download" /\ Seal("mismatch") /\ "mismatch" \in Fate
        /\ stats' = [stats EXCEPT !.mismatches = @ + 1]
        /\ iterResults' = Append(iterResults, Failed("downloader"))
        /\ UNCHANGED <<optVars, totalStats, nodeResults, verdict>>
    BY <1>4 DEF DownloadMismatches, Fate
  <2>2. stats' = [uploads |-> 1, downloads |-> 0, mismatches |-> 1]
    BY <1>0, <2>1
  <2>3. iterResults' = <<Passed("uploader"), Failed("downloader")>>
    BY <1>0, <2>1, ReportTyped, AppendSecond DEF IInv
  <2>4. stats' \in Counters /\ iterResults' \in Seq(Result)
    <3>1. iterResults' \in Seq(Result)
      BY <2>1, ReportTyped DEF IInv
    <3> QED
      BY <2>2, <3>1 DEF Counters
  <2>5. stats' = StatsOf("mismatch") /\ iterResults' = Expected("mismatch")
    BY <2>2, <2>3 DEF StatsOf, Expected
  <2> QED
    BY <2>1, <2>4, <2>5, SealStep
<1>5. CASE DownloadFails
  <2>1. CASE attempt' = Retries
    <3>1. /\ pc = "download" /\ Seal("notDownloaded") /\ "notDownloaded" \in Fate
          /\ stats.mismatches = 0 => iterResults' = Append(iterResults, Failed("downloader"))
          /\ UNCHANGED <<optVars, stats, totalStats, nodeResults, verdict>>
      BY <1>5, <2>1 DEF DownloadFails, statVars, Fate
    <3>2. stats' = StatsOf("notDownloaded")
      BY <1>0, <3>1 DEF StatsOf
    <3>3. iterResults' = Append(iterResults, Failed("downloader"))
      BY <1>0, <3>1
    <3>4. iterResults' = <<Passed("uploader"), Failed("downloader")>>
      BY <1>0, <3>1, <3>3, ReportTyped, AppendSecond DEF IInv
    <3>5. iterResults' = Expected("notDownloaded")
      BY <3>4 DEF Expected
    <3>6. stats' \in Counters /\ iterResults' \in Seq(Result)
      BY <1>0, <3>1, <3>3, ReportTyped DEF IInv
    <3> QED
      BY <3>1, <3>2, <3>5, <3>6, SealStep
  <2>2. CASE attempt' # Retries
    BY <1>5, <2>2, RetryStep DEF DownloadFails, statVars, resultVars
  <2> QED
    BY <2>1, <2>2
<1> QED
  BY <1>1, <1>2, <1>3, <1>4, <1>5 DEF RunIteration

(* Every step keeps the invariant, also one that changes nothing.          *)
LEMMA StepInvariant == IInv /\ [Next]_vars => IInv'
<1> SUFFICES ASSUME IInv, [Next]_vars PROVE IInv'
  OBVIOUS
<1>1. CASE Start \/ GetBatch \/ StartFile \/ Merge \/ EndIteration \/ Finish
  BY <1>1, CheckStep
<1>2. CASE RunIteration
  BY <1>2, FileStep
<1>3. CASE Done \/ UNCHANGED vars
  <2>1. UNCHANGED <<files, longRunning, pc, stats, totalStats, iterResults, nodeResults,
                    verdict, fates>>
    BY <1>3 DEF Done, vars, optVars, statVars, resultVars
  <2>2. Merged' = Merged
    BY <2>1 DEF Merged
  <2>3. TotalBooks' /\ ReportBooks'
    BY <2>1, <2>2, QuietBooks DEF IInv
  <2>4. TypeOK' /\ FileBooks' /\ VerdictOfReport'
    BY <2>1 DEF IInv, TypeOK, FileBooks, VerdictOfReport, CheckVerdict
  <2> QED
    BY <2>3, <2>4 DEF IInv
<1> QED
  BY <1>1, <1>2, <1>3 DEF Next

(* Types, what is noted of the file being tested, and report and totals of *)
(* the files merged so far hold in every state.                            *)
THEOREM Invariant == Spec => []IInv
<1> QED
  BY InitInvariant, StepInvariant, PTL DEF Spec
-----------------------------------------------------------------------------
(* Between two files nothing is left to merge.                             *)
LEMMA NothingLeft ==
    ASSUME IInv, pc # "merge"
    PROVE  /\ Merged = Len(fates) /\ Len(fates) \in Nat
           /\ DOMAIN fates = 1..Len(fates)
           /\ (fates # <<>> <=> Len(fates) > 0)
           /\ (fates # <<>> => Last(fates) = fates[Len(fates)])
           /\ \A i \in 1..Len(fates) : fates[i] \in Fate
<1>1. fates \in Seq(Fate)
  BY DEF IInv, TypeOK
<1> QED
  BY <1>1 DEF Merged, Last

(* The report tells the fates: one stretch of results a file, in order,    *)
(* without gap or overlap; in long-running mode that of the last file      *)
(* (smoke.rs:107-285 and 404-412).                                         *)
THEOREM ReportsTell == Spec => []ReportsTellFates
<1>1. IInv => ReportsTellFates
  <2> SUFFICES ASSUME IInv, pc \in {"next", "finish", "done"} PROVE ReportsTellFates
    BY DEF ReportsTellFates
  <2>1. CASE longRunning /\ fates # <<>>
    BY <2>1, NothingLeft DEF IInv, ReportBooks, ReportsTellFates
  <2>2. CASE ~(longRunning /\ fates # <<>>)
    <3>1. AllTold
      BY <2>2, NothingLeft DEF IInv, ReportBooks
    <3> QED
      BY <2>2, <3>1, NothingLeft DEF AllTold, Tells, ReportsTellFates
  <2> QED
    BY <2>1, <2>2
<1> QED
  BY <1>1, Invariant, PTL

(* The totals of the message count every file of every iteration once      *)
(* (IterationStats::merge, smoke.rs:69-77 and 404).                        *)
THEOREM TotalsCount == Spec => []TotalsCountFates
<1>1. IInv => TotalsCountFates
  <2> SUFFICES ASSUME IInv, pc \in {"next", "finish", "done"} PROVE TotalsCountFates
    BY DEF TotalsCountFates
  <2> QED
    BY NothingLeft DEF IInv, TotalBooks, TotalsCountFates, Count
<1> QED
  BY <1>1, Invariant, PTL

(* A single-shot run passes exactly when every file came back intact, a    *)
(* long-running one exactly when the last file did (smoke.rs:408-412 and   *)
(* CheckResult::new).                                                      *)
THEOREM VerdictTells == Spec => []VerdictTellsFates
<1>1. IInv => VerdictTellsFates
  <2> SUFFICES ASSUME IInv, verdict \in {"passed", "failed"}
               PROVE  verdict = "passed" <=>
                        IF longRunning
                        THEN fates # <<>> => Last(fates) = "match"
                        ELSE \A i \in DOMAIN fates : fates[i] = "match"
    BY DEF VerdictTellsFates
  <2>1. /\ pc # "merge"
        /\ verdict = "passed" <=> \A x \in DOMAIN nodeResults : nodeResults[x].passed
    BY DEF IInv, VerdictOfReport, CheckVerdict
  <2>2. CASE longRunning /\ fates # <<>>
    <3>1. /\ nodeResults = Expected(fates[Len(fates)]) /\ fates[Len(fates)] \in Fate
          /\ Last(fates) = fates[Len(fates)]
      BY <2>1, <2>2, NothingLeft DEF IInv, ReportBooks
    <3> QED
      BY <2>1, <2>2, <3>1, ExpectedResults
  <2>3. CASE ~(longRunning /\ fates # <<>>)
    <3>1. AllTold /\ Merged = Len(fates) /\ DOMAIN fates = 1..Merged
      BY <2>1, <2>3, NothingLeft DEF IInv, ReportBooks
    <3>2. \A i \in 1..Merged : fates[i] \in Fate
      BY <2>1, <3>1, NothingLeft
    <3>3. ASSUME \A x \in DOMAIN nodeResults : nodeResults[x].passed, NEW i \in 1..Merged
          PROVE  fates[i] = "match"
      <4>1. \A k \in DOMAIN Expected(fates[i]) : Expected(fates[i])[k].passed
        BY <3>1, <3>3 DEF AllTold, Tells
      <4> QED
        BY <3>2, <4>1, ExpectedResults
    <3>4. ASSUME \A i \in 1..Merged : fates[i] = "match", NEW x \in DOMAIN nodeResults
          PROVE  nodeResults[x].passed
      <4>1. PICK i \in 1..Merged : \E k \in DOMAIN Expected(fates[i]) : x = Before(i) + k
        BY <3>1 DEF AllTold
      <4>2. PICK k \in DOMAIN Expected(fates[i]) : x = Before(i) + k
        BY <4>1
      <4>3. nodeResults[x] = Expected(fates[i])[k]
        BY <3>1, <4>2 DEF AllTold, Tells
      <4>4. Expected(fates[i])[k].passed
        BY <3>2, <3>4, <4>2, ExpectedResults
      <4> QED
        BY <4>3, <4>4
    <3>5. verdict = "passed" <=> \A i \in DOMAIN fates : fates[i] = "match"
      BY <2>1, <3>1, <3>3, <3>4
    <3>6. longRunning => fates = <<>> /\ \A i \in DOMAIN fates : fates[i] = "match"
      BY <2>3
    <3> QED
      BY <3>5, <3>6
  <2> QED
    BY <2>2, <2>3
<1> QED
  BY <1>1, Invariant, PTL
-----------------------------------------------------------------------------
(* "3. Downloaded data matches uploaded data" (smoke.rs:9) is kept where   *)
(* the check runs once: there no result is dropped, so no mismatch is.     *)
THEOREM SingleShotMeansNoMismatch == Spec => [](~longRunning => PassMeansNoMismatch)
<1>1. IInv /\ VerdictTellsFates => (~longRunning => PassMeansNoMismatch)
  <2> SUFFICES ASSUME IInv, VerdictTellsFates, ~longRunning, verdict = "passed"
               PROVE  Count({"mismatch"}) = 0
    BY DEF PassMeansNoMismatch
  <2>1. \A i \in 1..Len(fates) : fates[i] = "match"
    <3>1. pc # "merge"
      BY DEF IInv, VerdictOfReport
    <3> QED
      BY <3>1, NothingLeft DEF VerdictTellsFates
  <2>2. {i \in 1..Len(fates) : fates[i] \in {"mismatch"}} = {}
    BY <2>1
  <2> QED
    BY <2>2, FS_EmptySet DEF Count, CountTo
<1> QED
  BY <1>1, Invariant, VerdictTells, PTL
=============================================================================
