------------------------- MODULE ChunkChecksProofs -------------------------
(***************************************************************************)
(* Proofs about ChunkChecks, for every cluster, every choice of full       *)
(* nodes, every length of addresses and every number of chunks, upload     *)
(* nodes and retries: the reports are complete, message and verdict agree, *)
(* and a pass means that every chunk was fetched where it had to be.       *)
(***************************************************************************)
EXTENDS ChunkChecks, OverlayProofs, SequenceTheorems

InLoop == check # "soc" /\ pc \in {"batch", "chunk", "upload", "look"}

(* The upload nodes that are through, the chunks of the current one that   *)
(* are counted, and the one that is counted but not done with.             *)
Through == IF InLoop THEN uploader - 1 ELSE uploader
Counted == IF InLoop /\ pc # "batch" THEN chunk ELSE 0
InProgress == IF InLoop /\ pc \in {"upload", "look"} THEN 1 ELSE 0
Uploading == IF pc = "upload" THEN 1 ELSE 0
Looking == IF pc = "look" THEN 1 ELSE 0

Result == [node : Node, passed : BOOLEAN]

TypeOK ==
    /\ check \in {"pushsync", "retrieval", "soc"}
    /\ cluster \in SUBSET Node
    /\ full \in SUBSET cluster
    /\ boot \in SUBSET cluster
    /\ chunksPerNode \in Nat
    /\ uploadNodeCount \in Nat
    /\ pc \in IF check = "soc"
              THEN {"start", "batch", "make", "uploadSoc", "downloadSoc", "finish", "done"}
              ELSE {"start", "overlays", "node", "batch", "chunk", "upload", "look",
                    "finish", "done"}
    /\ overlays \in SUBSET full
    /\ unread \in SUBSET full
    /\ uploader \in Nat
    /\ chunk \in Nat
    /\ target \in Node \cup {Nobody}
    /\ totalChunks \in Nat
    /\ foundChunks \in Nat
    /\ mismatches \in Nat
    /\ results \in Seq(Result)
    /\ verdict \in {"none", "passed", "failed", "error"}
    /\ batchless \in SUBSET Node

(* Where the loops are.                                                    *)
PlaceOK ==
    /\ uploader <= UploadCount
    /\ chunk <= chunksPerNode
    /\ InLoop => full # {} /\ uploader >= 1
    /\ pc = "node" => full # {}
    /\ pc \in {"upload", "look"} => chunk >= 1
    /\ check = "retrieval" /\ InLoop => target = FullNode((uploader % Cardinality(full)) + 1)
    /\ check = "pushsync" /\ InLoop => overlays # {}
    /\ check = "pushsync" /\ pc = "node" => overlays # {}
    /\ check = "pushsync" /\ pc = "look" => target \in overlays
    /\ check = "soc" /\ pc \notin {"start", "done"} => target \in Node
    /\ check = "soc" => chunksPerNode = 1

(* What the verdict says, once there is one.                               *)
VerdictOK ==
    /\ pc = "done" <=> verdict # "none"
    /\ verdict \in {"passed", "failed"} => verdict = CheckVerdict(results)
    /\ check # "soc" /\ (pc = "finish" \/ verdict \in {"passed", "failed"}) =>
          uploader = UploadCount

Failures == Count(FALSE)
Passes == Count(TRUE)
Without == Cardinality(batchless)
Due == chunksPerNode * (Through - Without)

(* The counters against the results.                                       *)
Tally ==
    /\ foundChunks + mismatches + InProgress <= totalChunks
    /\ totalChunks = Due + Counted
    /\ Failures + foundChunks + InProgress = totalChunks + Without
    /\ check = "pushsync" => Passes = foundChunks
    /\ check = "retrieval" =>
          /\ 2 * foundChunks + Looking <= Passes
          /\ Passes + Uploading <= totalChunks + foundChunks

(* Only nodes that are through are known to have no batch.                 *)
Named == batchless \subseteq {FullNode(i) : i \in 1..Through}

Books == check # "soc" => Tally /\ Named

(* A node on which the i-th upload node's chunks may count as found.       *)
MayFind(i, n) ==
    /\ n \in Node
    /\ check = "pushsync" => n \in overlays
    /\ check = "retrieval" /\ Cardinality(full) > 1 => n # FullNode(i)

DoneWith(i) == IF i <= Through THEN chunksPerNode ELSE Counted - InProgress

(* While nothing has failed, every chunk done with was found.              *)
AllFetched ==
    Failures = 0 =>
        /\ check # "soc" =>
              \A i \in 1..uploader : \A c \in 1..DoneWith(i) :
                  \E n \in Node : MayFind(i, n) /\ <<FullNode(i), c, n>> \in fetched
        /\ check = "soc" /\ (pc = "finish" \/ verdict \in {"passed", "failed"}) =>
              <<target, 1, target>> \in fetched /\ target \in Node

IInv == TypeOK /\ PlaceOK /\ VerdictOK /\ Books /\ AllFetched
-----------------------------------------------------------------------------
(* Nodes, ranks and counts *)

(* Nodes are finitely many numbers.                                         *)
LEMMA NodeIsFinite == IsFiniteSet(Node) /\ Node \in SUBSET Nat
BY MaxNodesAssumption, FS_Interval DEF Node

(* Every rank is that of an element.                                       *)
LEMMA RankIsOnto ==
    ASSUME NEW S \in SUBSET Nat, IsFiniteSet(S), NEW i \in 1..Cardinality(S)
    PROVE  \E n \in S : Cardinality({m \in S : m <= n}) = i
<1> DEFINE UpTo(n) == {m \in S : m <= n}
           rank == [n \in S |-> Cardinality(UpTo(n))]
           c == Cardinality(S)
<1>1. c \in Nat
    BY FS_CardinalityType
<1>2. \A n \in S : /\ IsFiniteSet(UpTo(n)) /\ Cardinality(UpTo(n)) \in Nat
                   /\ Cardinality(UpTo(n)) <= c
                   /\ Cardinality(UpTo(n)) # 0
    BY FS_Subset, FS_CardinalityType, FS_EmptySet
<1>3. rank \in [S -> 1..c]
    <2> HIDE DEF UpTo
    <2>1. \A n \in S : Cardinality(UpTo(n)) \in 1..c
        BY <1>1, <1>2
    <2> QED BY <2>1
<1>4. ASSUME NEW m \in S, NEW n \in S, m < n
      PROVE  Cardinality(UpTo(m)) # Cardinality(UpTo(n))
    <2>1. m \in Nat /\ n \in Nat /\ ~(n <= m) /\ \A k \in S : k \in Nat /\ (k <= m => k <= n)
        BY <1>4
    <2>2. \A k \in UpTo(m) : k \in UpTo(n)
        BY <2>1
    <2>3. n \in UpTo(n) /\ n \notin UpTo(m)
        BY <2>1
    <2> HIDE DEF UpTo
    <2>4. UpTo(m) \in SUBSET UpTo(n) /\ UpTo(m) # UpTo(n)
        BY <2>2, <2>3
    <2> QED BY <1>2, <2>4, FS_Subset
<1>5. rank \in Injection(S, 1..c)
    <2>1. \A m, n \in S : rank[m] = rank[n] => m = n
        <3> HIDE DEF UpTo
        <3>1. \A m, n \in S : m < n \/ n < m \/ m = n
            OBVIOUS
        <3> QED BY <1>4, <3>1
    <2> QED BY <1>3, <2>1 DEF Injection, IsInjective
<1>6. IsFiniteSet(1..c) /\ Cardinality(1..c) = c
    BY <1>1, FS_Interval
<1>7. rank \in Surjection(S, 1..c)
    BY <1>5, <1>6, FS_Injection
<1>8. PICK n \in S : rank[n] = i
    BY <1>7 DEF Surjection
<1> QED BY <1>8

(* full_nodes[i - 1] exists for every i up to the number of full nodes,    *)
(* and different places hold different nodes.                              *)
LEMMA FullNodes ==
    ASSUME full \in SUBSET Node
    PROVE  /\ IsFiniteSet(full)
           /\ Cardinality(full) \in Nat
           /\ \A i \in 1..Cardinality(full) : FullNode(i) \in full
           /\ \A i, j \in 1..Cardinality(full) : i # j => FullNode(i) # FullNode(j)
<1>1. IsFiniteSet(full) /\ Cardinality(full) \in Nat /\ full \in SUBSET Nat
    BY NodeIsFinite, FS_Subset, FS_CardinalityType
<1>2. \A i \in 1..Cardinality(full) :
         FullNode(i) \in full /\ Cardinality({m \in full : m <= FullNode(i)}) = i
    BY <1>1, RankIsOnto DEF FullNode
<1> QED BY <1>1, <1>2

(* actual_upload_count is at least one and no more than there are full     *)
(* nodes.                                                                  *)
LEMMA UploadCountBounds ==
    ASSUME uploadNodeCount \in Nat, full \in SUBSET Node
    PROVE  /\ UploadCount \in Nat \ {0}
           /\ full # {} => UploadCount <= Cardinality(full)
<1>1. Cardinality(full) \in Nat /\ (full # {} => Cardinality(full) # 0)
    BY FullNodes, FS_EmptySet
<1> QED BY <1>1, MinOfTwo, MaxOfTwo DEF UploadCount

CountIn(s, flag) == Cardinality({i \in DOMAIN s : s[i].passed = flag})

(* The counts are natural numbers.                                         *)
LEMMA CountIsNat ==
    ASSUME NEW s \in Seq(Result), NEW flag
    PROVE  CountIn(s, flag) \in Nat /\ IsFiniteSet({i \in DOMAIN s : s[i].passed = flag})
<1>1. DOMAIN s = 1..Len(s) /\ Len(s) \in Nat
    OBVIOUS
<1>2. IsFiniteSet(DOMAIN s)
    BY <1>1, FS_Interval
<1> QED BY <1>2, FS_Subset, FS_CardinalityType DEF CountIn

(* A result more counts for its own flag.                                  *)
LEMMA CountAppended ==
    ASSUME NEW s \in Seq(Result), NEW r \in Result, NEW flag \in BOOLEAN
    PROVE  CountIn(Append(s, r), flag) = CountIn(s, flag) + IF r.passed = flag THEN 1 ELSE 0
<1> DEFINE S == {i \in DOMAIN s : s[i].passed = flag}
           t == Append(s, r)
           T == {i \in DOMAIN t : t[i].passed = flag}
           k == Len(s) + 1
<1>1. /\ Len(s) \in Nat /\ DOMAIN s = 1..Len(s) /\ DOMAIN t = 1..k
      /\ t[k] = r /\ \A i \in 1..Len(s) : t[i] = s[i]
    <2>1. t \in Seq(Result) /\ Len(t) = k /\ t[k] = r /\ \A i \in 1..Len(s) : t[i] = s[i]
        BY AppendProperties
    <2> HIDE DEF t
    <2> QED BY <2>1
<1> HIDE DEF t
<1>2. k \notin S /\ IsFiniteSet(S) /\ Cardinality(S) \in Nat
    <2>1. k \notin S
        BY <1>1
    <2>2. IsFiniteSet(S)
        BY CountIsNat
    <2> QED BY <2>1, <2>2, FS_CardinalityType
<1>3. CASE r.passed = flag
    <2>1. T = S \cup {k}
        BY <1>1, <1>3
    <2>2. Cardinality(T) = Cardinality(S) + 1
        <3> HIDE DEF S, T, k
        <3> QED BY <1>2, <2>1, FS_AddElement
    <2> QED BY <1>3, <2>2 DEF CountIn, t
<1>4. CASE r.passed # flag
    <2>1. T = S
        BY <1>1, <1>4
    <2>2. Cardinality(T) = Cardinality(S) + 0
        <3> HIDE DEF S, T
        <3> QED BY <1>2, <2>1
    <2> QED BY <1>4, <2>2 DEF CountIn, t
<1> QED BY <1>3, <1>4

(* CheckResult::new passes when no result failed.                          *)
LEMMA VerdictCounts ==
    ASSUME NEW s \in Seq(Result)
    PROVE  /\ CheckVerdict(s) = "passed" <=> CountIn(s, FALSE) = 0
           /\ CheckVerdict(s) \in {"passed", "failed"}
<1>1. CountIn(s, FALSE) = 0 <=> {i \in DOMAIN s : s[i].passed = FALSE} = {}
    BY CountIsNat, FS_EmptySet DEF CountIn
<1>2. \A i \in DOMAIN s : s[i] \in Result
    OBVIOUS
<1>3. \A i \in DOMAIN s : s[i].passed \in BOOLEAN
    BY <1>2 DEF Result
<1> QED BY <1>1, <1>3 DEF CheckVerdict
-----------------------------------------------------------------------------
(* What no step changes *)

(* The options, and with them the upload nodes, stay as they were.         *)
LEMMA OptionsKept ==
    ASSUME [Next]_vars
    PROVE  /\ UNCHANGED optVars
           /\ UploadCount' = UploadCount
           /\ \A i : FullNode(i)' = FullNode(i)
<1>1. UNCHANGED optVars
    BY DEF Next, vars, Pushsync, Retrieval, Soc, Start, GetOverlay, EndOverlays,
       NextUploadNode, UploadSucceeds, UploadFails, ChunkFound, ChunkMissing, Found,
       StartRetrieval, NextNodePair, UploadReported, DownloadMatches, DownloadDiffers,
       DownloadFails, StartSoc, GetSocBatch, MakeSoc, UploadSoc, DownloadSoc, GetBatch,
       NextChunk, EndChunks, EndUploads, Finish, Done
<1> QED BY <1>1 DEF optVars, UploadCount, FullNode

(* The node that is uploaded to, and the one retrieval downloads from.     *)
LEMMA UploadNodes ==
    ASSUME TypeOK, PlaceOK, InLoop
    PROVE  /\ uploader \in 1..Cardinality(full)
           /\ UploadNode \in full /\ UploadNode \in Node
           /\ check = "retrieval" =>
                 /\ target \in full
                 /\ Cardinality(full) > 1 => target # UploadNode
<1> DEFINE k == Cardinality(full)
           j == (uploader % k) + 1
<1>1. full \in SUBSET Node /\ full # {} /\ uploader >= 1
    BY DEF TypeOK, PlaceOK
<1>2. k \in Nat /\ uploader \in 1..k
    BY <1>1, FullNodes, UploadCountBounds DEF TypeOK, PlaceOK
<1>3. UploadNode \in full
    BY <1>1, <1>2, FullNodes DEF UploadNode
<1>4. j \in 1..k /\ (k > 1 => j # uploader)
    <2> HIDE DEF k
    <2>1. CASE uploader < k
        <3>1. uploader % k = uploader
            BY <1>2, <2>1
        <3> QED BY <1>2, <2>1, <3>1
    <2>2. CASE uploader = k
        <3>1. uploader % k = 0
            BY <1>2, <2>2
        <3> QED BY <1>2, <2>2, <3>1
    <2> QED BY <1>2, <2>1, <2>2
<1>5. FullNode(j) \in full /\ (k > 1 => FullNode(j) # UploadNode)
    BY <1>1, <1>2, <1>4, FullNodes DEF UploadNode
<1>6. check = "retrieval" => target = FullNode(j)
    BY DEF PlaceOK
<1> QED BY <1>1, <1>2, <1>3, <1>5, <1>6

(* Reports are lists of results.                                           *)
LEMMA ResultsAreTyped ==
    ASSUME NEW n \in Node, results \in Seq(Result)
    PROVE  /\ Append(results, Failed(n)) \in Seq(Result)
           /\ Append(results, Passed(n)) \in Seq(Result)
BY DEF Failed, Passed, Result

(* pushsync looks for the chunk on a node whose address it knows.          *)
LEMMA TargetIsKnown ==
    ASSUME TypeOK, overlays # {}, NEW address \in Address
    PROVE  FindClosestNode(address, OverlayOf, overlays) \in overlays
<1>1. overlays \in SUBSET Node /\ IsFiniteSet(overlays)
    BY NodeIsFinite, FS_Subset DEF TypeOK
<1>2. /\ \A n \in overlays : OverlayOf[n] \in Address
      /\ \A m, n \in overlays : m # n => OverlayOf[m] # OverlayOf[n]
    BY <1>1, OverlayAssumption
<1> HIDE DEF FindClosestNode
<1> QED BY <1>1, <1>2, ClosestIsClosest
-----------------------------------------------------------------------------
(* The invariant holds at first *)

(* Before the first step nothing is counted, reported or promised.         *)
LEMMA InvInit == Init => IInv
<1> SUFFICES ASSUME Init
             PROVE  IInv
    OBVIOUS
<1>1. cluster \in SUBSET Node /\ full \in SUBSET cluster /\ boot \in SUBSET cluster
    <2>1. \A n \in Node : 1..n \in SUBSET Node
        BY MaxNodesAssumption DEF Node
    <2>2. cluster \in SUBSET Node /\ full \in SUBSET cluster
        BY <2>1 DEF Init
    <2>3. boot \in SUBSET cluster
        <3>1. CASE check = "soc"
            BY <3>1 DEF Init
        <3>2. CASE check # "soc"
            BY <3>2 DEF Init
        <3> QED BY <3>1, <3>2
    <2> QED BY <2>2, <2>3
<1>2. IsFiniteSet(full) /\ Cardinality(full) \in Nat
    BY <1>1, FullNodes
<1>3. chunksPerNode \in Nat /\ uploadNodeCount \in Nat
    <2>1. 0..MaxChunks \in SUBSET Nat /\ 0..Cardinality(full) \in SUBSET Nat
        BY <1>2, RetriesAssumption
    <2> QED BY <2>1 DEF Init
<1>4. TypeOK
    BY <1>1, <1>3 DEF Init, TypeOK
<1>5. UploadCount \in Nat \ {0}
    BY <1>1, <1>3, UploadCountBounds
<1>6. PlaceOK
    BY <1>5 DEF Init, PlaceOK, InLoop
<1>7. VerdictOK
    BY DEF Init, VerdictOK
<1>8. Passes = 0 /\ Failures = 0
    BY FS_EmptySet DEF Init, Count, Passes, Failures
<1>9. Books
    <2>1. Through = 0 /\ Counted = 0 /\ InProgress = 0 /\ Looking = 0 /\ Uploading = 0
        BY DEF Init, InLoop, Through, Counted, InProgress, Looking, Uploading
    <2>2. Without = 0 /\ batchless = {}
        BY FS_EmptySet DEF Init, Without
    <2>3. totalChunks = 0 /\ foundChunks = 0 /\ mismatches = 0
        BY DEF Init
    <2>4. Due = 0
        BY <1>3, <2>1, <2>2 DEF Due
    <2>5. Tally
        BY <1>8, <2>1, <2>2, <2>3, <2>4 DEF Tally
    <2> QED BY <2>2, <2>5 DEF Books, Named
<1>10. AllFetched
    BY DEF Init, AllFetched
<1> QED BY <1>4, <1>6, <1>7, <1>9, <1>10 DEF IInv
-----------------------------------------------------------------------------
(* Every step keeps the types *)

(* No step gives a variable a value of another type.                       *)
LEMMA TypeStep == TypeOK /\ PlaceOK /\ [Next]_vars => TypeOK'
<1> SUFFICES ASSUME TypeOK, PlaceOK, [Next]_vars
             PROVE  TypeOK'
    OBVIOUS
<1>1. /\ check' = check /\ cluster' = cluster /\ full' = full /\ boot' = boot
      /\ chunksPerNode' = chunksPerNode /\ uploadNodeCount' = uploadNodeCount
    BY OptionsKept DEF optVars
<1>2. full \in SUBSET Node /\ boot \in SUBSET Node
    BY DEF TypeOK
<1>3. InLoop => UploadNode \in Node /\ (check = "retrieval" => target \in Node)
    BY <1>2, UploadNodes
<1>4. InLoop =>
         /\ Append(results, Failed(UploadNode)) \in Seq(Result)
         /\ Append(results, Passed(UploadNode)) \in Seq(Result)
    BY <1>3, ResultsAreTyped DEF TypeOK
<1>5. (InLoop /\ check = "retrieval") \/ (check = "pushsync" /\ pc = "look")
      \/ (check = "soc" /\ pc \notin {"start", "done"}) =>
         /\ Append(results, Failed(target)) \in Seq(Result)
         /\ Append(results, Passed(target)) \in Seq(Result)
    <2>1. overlays \in SUBSET Node
        BY <1>2 DEF TypeOK
    <2>2. (InLoop /\ check = "retrieval") \/ (check = "pushsync" /\ pc = "look")
          \/ (check = "soc" /\ pc \notin {"start", "done"}) => target \in Node
        BY <1>3, <2>1 DEF PlaceOK
    <2> QED BY <2>2, ResultsAreTyped DEF TypeOK
<1>6. CheckVerdict(results) \in {"passed", "failed"}
    BY VerdictCounts DEF TypeOK
<1>7. CASE Start \/ StartRetrieval \/ EndOverlays \/ EndChunks \/ EndUploads \/ Done
    BY <1>1, <1>7 DEF TypeOK, Start, StartRetrieval, EndOverlays, EndChunks, EndUploads, Done,
       Fail, optVars, readVars, placeVars, countVars, seenVars, vars
<1>8. CASE GetOverlay
    <2>1. unread # {} /\ unread \in SUBSET Nat
        BY <1>2, <1>8, NodeIsFinite DEF TypeOK, GetOverlay
    <2>2. Min(unread) \in unread
        <3>1. PICK x \in unread : \A y \in unread : x <= y
            BY <2>1, LeastNat
        <3> QED BY <3>1 DEF Min
    <2> QED BY <1>1, <1>8, <2>2 DEF TypeOK, GetOverlay, optVars, placeVars, countVars, seenVars
<1>9. CASE NextUploadNode
    BY <1>1, <1>9 DEF TypeOK, NextUploadNode, optVars, readVars, countVars, seenVars
<1>10. CASE NextNodePair
    <2>1. FullNode(((uploader + 1) % Cardinality(full)) + 1) \in Node
        <3>1. Cardinality(full) \in Nat \ {0}
            BY <1>2, <1>10, FullNodes, FS_EmptySet DEF PlaceOK, NextNodePair
        <3>2. ((uploader + 1) % Cardinality(full)) + 1 \in 1..Cardinality(full)
            BY <3>1 DEF TypeOK
        <3> QED BY <1>2, <3>2, FullNodes
    <2> QED BY <1>1, <1>10, <2>1 DEF TypeOK, NextNodePair, optVars, readVars, countVars, seenVars
<1>11. CASE GetBatch
    <2>1. InLoop
        BY <1>11 DEF InLoop, GetBatch
    <2> QED BY <1>1, <1>3, <1>4, <1>11, <2>1
            DEF TypeOK, GetBatch, Report, optVars, readVars, countVars, seenVars
<1>12. CASE NextChunk
    <2>1. InLoop
        BY <1>12 DEF InLoop, NextChunk, TypeOK
    <2> QED BY <1>1, <1>4, <1>12, <2>1
            DEF TypeOK, NextChunk, ChunkOver, Report, optVars, readVars, countVars, seenVars
<1>13. CASE UploadSucceeds
    <2>1. overlays # {} /\ overlays \in SUBSET Node
        BY <1>2, <1>13 DEF UploadSucceeds, PlaceOK, InLoop, TypeOK
    <2>2. target' \in Node
        BY <1>13, <2>1, TargetIsKnown DEF UploadSucceeds
    <2> QED BY <1>1, <1>13, <2>2
            DEF TypeOK, UploadSucceeds, optVars, readVars, countVars, seenVars
<1>14. CASE UploadFails \/ UploadReported
    <2>1. InLoop
        BY <1>14 DEF InLoop, UploadFails, UploadReported
    <2> QED BY <1>1, <1>4, <1>14, <2>1
            DEF TypeOK, UploadFails, UploadReported, ChunkOver, Report, optVars, readVars,
                placeVars, countVars, seenVars
<1>15. CASE ChunkFound \/ DownloadMatches
    <2>1. (InLoop /\ check = "retrieval") \/ (check = "pushsync" /\ pc = "look")
        BY <1>15 DEF InLoop, ChunkFound, DownloadMatches
    <2> QED BY <1>1, <1>5, <1>15, <2>1
            DEF TypeOK, ChunkFound, DownloadMatches, Found, ChunkOver, Report, optVars,
                readVars, placeVars, countVars, seenVars
<1>16. CASE ChunkMissing \/ DownloadDiffers \/ DownloadFails
    <2>1. (InLoop /\ check = "retrieval") \/ (check = "pushsync" /\ pc = "look")
        BY <1>16 DEF InLoop, ChunkMissing, DownloadDiffers, DownloadFails
    <2>2. results' \in Seq(Result) /\ mismatches' \in Nat /\ pc' \in {"chunk", "look"}
        BY <1>5, <1>16, <2>1 DEF TypeOK, ChunkMissing, DownloadDiffers, DownloadFails, ChunkOver,
           Report, countVars
    <2> QED BY <1>1, <1>16, <2>1, <2>2
            DEF TypeOK, ChunkMissing, DownloadDiffers, DownloadFails, ChunkOver, Report,
                optVars, readVars, placeVars, countVars, seenVars
<1>17. CASE StartSoc \/ GetSocBatch \/ MakeSoc
    BY <1>1, <1>2, <1>17
       DEF TypeOK, StartSoc, GetSocBatch, MakeSoc, Fail, optVars, readVars, placeVars,
           countVars, seenVars
<1>18. CASE UploadSoc \/ DownloadSoc
    <2>1. check = "soc" /\ pc \notin {"start", "done"}
        BY <1>18 DEF TypeOK, UploadSoc, DownloadSoc
    <2> QED BY <1>1, <1>5, <1>18, <2>1
            DEF TypeOK, UploadSoc, DownloadSoc, Report, optVars, readVars, placeVars,
                countVars, seenVars
<1>19. CASE Finish
    BY <1>1, <1>6, <1>19
       DEF TypeOK, Finish, optVars, readVars, placeVars, countVars, seenVars
<1>20. CASE UNCHANGED vars
    BY <1>20 DEF TypeOK, vars, optVars, readVars, placeVars, countVars, seenVars
<1> QED BY <1>7, <1>8, <1>9, <1>10, <1>11, <1>12, <1>13, <1>14, <1>15, <1>16, <1>17, <1>18,
           <1>19, <1>20 DEF Next, Pushsync, Retrieval, Soc
-----------------------------------------------------------------------------
(* Every step keeps the places *)

(* No step leaves the loops or looks for a chunk nowhere.                  *)
LEMMA PlaceStep == TypeOK /\ PlaceOK /\ VerdictOK /\ [Next]_vars => PlaceOK'
<1> SUFFICES ASSUME TypeOK, PlaceOK, VerdictOK, [Next]_vars
             PROVE  PlaceOK'
    OBVIOUS
<1>1. /\ check' = check /\ full' = full /\ chunksPerNode' = chunksPerNode
      /\ UploadCount' = UploadCount /\ \A i : FullNode(i)' = FullNode(i)
    BY OptionsKept DEF optVars
<1>2. full \in SUBSET Node /\ boot \in SUBSET Node /\ Cardinality(full) \in Nat
    BY FullNodes DEF TypeOK
<1>3. UploadCount \in Nat \ {0}
    BY <1>2, UploadCountBounds DEF TypeOK
<1> USE DEF PlaceOK, InLoop, optVars, readVars, placeVars, countVars, seenVars
<1>4. CASE Start
    BY <1>1, <1>4 DEF Start, Fail, TypeOK
<1>5. CASE StartRetrieval
    BY <1>1, <1>5 DEF StartRetrieval, Fail, TypeOK
<1>6. CASE GetOverlay
    BY <1>1, <1>6 DEF GetOverlay, TypeOK
<1>7. CASE EndOverlays
    <2>1. overlays # {} => full # {}
        BY DEF TypeOK
    <2> QED BY <1>1, <1>7, <2>1 DEF EndOverlays, Fail, TypeOK
<1>8. CASE NextUploadNode
    BY <1>1, <1>3, <1>8 DEF NextUploadNode, TypeOK
<1>9. CASE NextNodePair
    BY <1>1, <1>3, <1>9 DEF NextNodePair, TypeOK
<1>10. CASE GetBatch
    BY <1>1, <1>10 DEF GetBatch, TypeOK
<1>11. CASE NextChunk
    BY <1>1, <1>11 DEF NextChunk, ChunkOver, TypeOK
<1>12. CASE EndChunks
    BY <1>1, <1>12 DEF EndChunks, TypeOK
<1>13. CASE UploadSucceeds
    <2>1. target' \in overlays
        BY <1>13, TargetIsKnown DEF UploadSucceeds
    <2> QED BY <1>1, <1>13, <2>1 DEF UploadSucceeds, TypeOK
<1>14. CASE UploadFails \/ UploadReported
    BY <1>1, <1>14 DEF UploadFails, UploadReported, ChunkOver, TypeOK
<1>15. CASE ChunkFound \/ DownloadMatches
    BY <1>1, <1>15 DEF ChunkFound, DownloadMatches, Found, ChunkOver, TypeOK
<1>16. CASE ChunkMissing \/ DownloadDiffers \/ DownloadFails
    BY <1>1, <1>16 DEF ChunkMissing, DownloadDiffers, DownloadFails, ChunkOver, TypeOK
<1>17. CASE StartSoc
    <2>1. check = "soc" /\ (pc' = "done" \/ target' \in Node)
          /\ uploader' = uploader /\ chunk' = chunk /\ pc' \in {"done", "batch", "make"}
        BY <1>2, <1>17 DEF StartSoc, Fail
    <2> QED BY <1>1, <2>1
<1>18. CASE GetSocBatch \/ MakeSoc
    BY <1>1, <1>18 DEF GetSocBatch, MakeSoc, Fail, TypeOK
<1>19. CASE UploadSoc \/ DownloadSoc
    BY <1>1, <1>19 DEF UploadSoc, DownloadSoc, TypeOK
<1>20. CASE EndUploads \/ Finish
    BY <1>1, <1>20 DEF EndUploads, Finish, TypeOK
<1>21. CASE Done \/ UNCHANGED vars
    BY <1>1, <1>21 DEF Done, vars
<1> QED BY <1>4, <1>5, <1>6, <1>7, <1>8, <1>9, <1>10, <1>11, <1>12, <1>13, <1>14, <1>15,
           <1>16, <1>17, <1>18, <1>19, <1>20, <1>21 DEF Next, Pushsync, Retrieval, Soc
-----------------------------------------------------------------------------
(* Every step keeps the verdict *)

(* A verdict is given once, at the end, from the results.                  *)
LEMMA VerdictStep == TypeOK /\ VerdictOK /\ [Next]_vars => VerdictOK'
<1> SUFFICES ASSUME TypeOK, VerdictOK, [Next]_vars
             PROVE  VerdictOK'
    OBVIOUS
<1>1. check' = check /\ UploadCount' = UploadCount
    BY OptionsKept DEF optVars
<1>2. CheckVerdict(results) \in {"passed", "failed"}
    BY VerdictCounts DEF TypeOK
<1>3. pc # "done" => verdict = "none"
    BY DEF VerdictOK
<1> USE DEF VerdictOK, optVars, readVars, placeVars, countVars, seenVars
<1>4. CASE Start \/ StartRetrieval \/ EndOverlays \/ StartSoc \/ GetSocBatch \/ MakeSoc
    <2>1. \/ pc' = "done" /\ verdict' = "error"
          \/ pc' \in {"overlays", "node", "batch", "make", "uploadSoc"} /\ verdict' = "none"
        BY <1>3, <1>4 DEF Start, StartRetrieval, EndOverlays, StartSoc, GetSocBatch, MakeSoc, Fail
    <2> QED BY <2>1
<1>5. CASE \/ GetOverlay \/ NextUploadNode \/ NextNodePair \/ GetBatch \/ NextChunk \/ EndChunks
           \/ UploadSucceeds \/ UploadFails \/ UploadReported \/ ChunkFound \/ DownloadMatches
           \/ ChunkMissing \/ DownloadDiffers \/ DownloadFails \/ UploadSoc
    <2>1. verdict' = verdict /\ pc # "done" /\ pc' # "done" /\ (pc' = "finish" => check = "soc")
        BY <1>5 DEF GetOverlay, NextUploadNode, NextNodePair, GetBatch, NextChunk, EndChunks,
           UploadSucceeds, UploadFails, UploadReported, ChunkFound, DownloadMatches, Found,
           ChunkMissing, DownloadDiffers, DownloadFails, ChunkOver, UploadSoc, TypeOK
    <2> QED BY <1>1, <1>3, <2>1
<1>6. CASE DownloadSoc
    BY <1>1, <1>3, <1>6 DEF DownloadSoc, TypeOK
<1>7. CASE EndUploads
    BY <1>1, <1>3, <1>7 DEF EndUploads
<1>8. CASE Finish
    <2>1. CheckVerdict(results)' = CheckVerdict(results)
        BY <1>8 DEF Finish, CheckVerdict
    <2> QED BY <1>1, <1>2, <1>3, <1>8, <2>1 DEF Finish
<1>9. CASE Done \/ UNCHANGED vars
    BY <1>1, <1>9 DEF Done, vars, CheckVerdict
<1> QED BY <1>4, <1>5, <1>6, <1>7, <1>8, <1>9 DEF Next, Pushsync, Retrieval, Soc
-----------------------------------------------------------------------------
(* Every step keeps the books *)

(* What one result more does to the counts.                                *)
LEMMA CountsOfStep ==
    ASSUME results \in Seq(Result)
    PROVE  /\ Passes \in Nat /\ Failures \in Nat
           /\ results' = results => Passes' = Passes /\ Failures' = Failures
           /\ \A n \in Node : results' = Append(results, Failed(n)) =>
                 Passes' = Passes /\ Failures' = Failures + 1
           /\ \A n \in Node : results' = Append(results, Passed(n)) =>
                 Passes' = Passes + 1 /\ Failures' = Failures
<1>1. /\ Passes = CountIn(results, TRUE) /\ Passes' = CountIn(results', TRUE)
      /\ Failures = CountIn(results, FALSE) /\ Failures' = CountIn(results', FALSE)
    BY DEF Passes, Failures, Count, CountIn
<1>2. Passes \in Nat /\ Failures \in Nat
    BY <1>1, CountIsNat
<1>3. ASSUME NEW n \in Node, results' = Append(results, Failed(n))
      PROVE  Passes' = Passes /\ Failures' = Failures + 1
    <2>1. Failed(n) \in Result /\ Failed(n).passed = FALSE
        BY DEF Failed, Result
    <2>2. /\ CountIn(results', TRUE) = CountIn(results, TRUE) + 0
          /\ CountIn(results', FALSE) = CountIn(results, FALSE) + 1
        BY <1>3, <2>1, CountAppended
    <2>3. Passes' = Passes + 0 /\ Failures' = Failures + 1
        BY <1>1, <2>2, Zenon
    <2> QED BY <1>2, <2>3
<1>4. ASSUME NEW n \in Node, results' = Append(results, Passed(n))
      PROVE  Passes' = Passes + 1 /\ Failures' = Failures
    <2>1. Passed(n) \in Result /\ Passed(n).passed = TRUE
        BY DEF Passed, Result
    <2>2. /\ CountIn(results', TRUE) = CountIn(results, TRUE) + 1
          /\ CountIn(results', FALSE) = CountIn(results, FALSE) + 0
        BY <1>4, <2>1, CountAppended
    <2>3. Passes' = Passes + 1 /\ Failures' = Failures + 0
        BY <1>1, <2>2, Zenon
    <2> QED BY <1>2, <2>3
<1> QED BY <1>1, <1>2, <1>3, <1>4

(* What the loops still owe.                                               *)
LEMMA DueOfStep ==
    ASSUME TypeOK, [Next]_vars, Through \in Int
    PROVE  /\ Without \in Nat /\ Due \in Int
           /\ batchless' = batchless => Without' = Without
           /\ Through' = Through /\ Without' = Without => Due' = Due
           /\ Through' = Through + 1 /\ Without' = Without + 1 => Due' = Due
           /\ Through' = Through + 1 /\ Without' = Without => Due' = Due + chunksPerNode
<1>1. chunksPerNode \in Nat /\ chunksPerNode' = chunksPerNode
    BY OptionsKept DEF TypeOK, optVars
<1>2. Without \in Nat
    BY NodeIsFinite, FS_Subset, FS_CardinalityType DEF TypeOK, Without
<1>3. \A c \in Nat, k \in Int : c * k \in Int /\ c * (k + 1) = c * k + c
    OBVIOUS
<1>4. Due \in Int
    BY <1>1, <1>2, <1>3 DEF Due
<1>5. ASSUME Through' = Through + 1, Without' = Without
      PROVE  Due' = Due + chunksPerNode
    <2>1. Through' - Without' = (Through - Without) + 1
        BY <1>2, <1>5
    <2>2. Through - Without \in Int
        BY <1>2
    <2> QED BY <1>1, <1>3, <2>1, <2>2 DEF Due
<1>6. ASSUME Through' = Through + 1, Without' = Without + 1
      PROVE  Due' = Due
    <2>1. Through' - Without' = Through - Without
        BY <1>2, <1>6
    <2> QED BY <1>1, <2>1 DEF Due
<1>7. ASSUME Through' = Through, Without' = Without
      PROVE  Due' = Due
    BY <1>1, <1>7 DEF Due
<1> QED BY <1>2, <1>4, <1>5, <1>6, <1>7 DEF Without

(* Whatever a step counts it also reports, at the nodes, at the chunks and *)
(* within a chunk.                                                         *)
LEMMA BooksStep == TypeOK /\ TypeOK' /\ PlaceOK /\ Books /\ [Next]_vars => Books'
<1> SUFFICES ASSUME TypeOK, TypeOK', PlaceOK, Books, [Next]_vars, check # "soc"
             PROVE  Books'
    BY OptionsKept DEF Books, optVars
<1>1. /\ check' = check /\ chunksPerNode' = chunksPerNode /\ full' = full
      /\ \A i : FullNode(i)' = FullNode(i)
    BY OptionsKept DEF optVars
<1>2. /\ uploader \in Nat /\ chunk \in Nat /\ totalChunks \in Nat /\ foundChunks \in Nat
      /\ mismatches \in Nat /\ chunksPerNode \in Nat /\ check \in {"pushsync", "retrieval"}
      /\ pc \in {"start", "overlays", "node", "batch", "chunk", "upload", "look",
                 "finish", "done"}
    BY DEF TypeOK
<1>3. Through \in Nat
    BY <1>2 DEF Through, PlaceOK, InLoop
<1>4. /\ Passes \in Nat /\ Failures \in Nat
      /\ results' = results => Passes' = Passes /\ Failures' = Failures
      /\ \A n \in Node : results' = Append(results, Failed(n)) =>
            Passes' = Passes /\ Failures' = Failures + 1
      /\ \A n \in Node : results' = Append(results, Passed(n)) =>
            Passes' = Passes + 1 /\ Failures' = Failures
    BY CountsOfStep DEF TypeOK
<1>5. /\ Without \in Nat /\ Due \in Int
      /\ batchless' = batchless => Without' = Without
      /\ Through' = Through /\ Without' = Without => Due' = Due
      /\ Through' = Through + 1 /\ Without' = Without + 1 => Due' = Due
      /\ Through' = Through + 1 /\ Without' = Without => Due' = Due + chunksPerNode
    BY <1>3, DueOfStep
<1>6. InLoop => UploadNode \in Node /\ (check = "retrieval" => target \in Node)
    <2>1. full \in SUBSET Node
        BY DEF TypeOK
    <2> QED BY <2>1, UploadNodes
<1>7. check = "pushsync" /\ pc = "look" => target \in Node
    <2>1. overlays \in SUBSET Node
        BY DEF TypeOK
    <2> QED BY <2>1 DEF PlaceOK
<1>8. Tally /\ Named
    BY DEF Books
<1>9. Through <= Through' /\ Through' \in Nat /\ batchless' = batchless => Named'
    <2> SUFFICES ASSUME Through <= Through', Through' \in Nat, batchless' = batchless
                 PROVE  batchless' \subseteq {FullNode(i)' : i \in 1..Through'}
        BY DEF Named
    <2>1. \A i \in 1..Through : i \in 1..Through'
        BY <1>3
    <2> QED BY <1>1, <1>8, <2>1 DEF Named
<1> USE DEF optVars, readVars, placeVars, countVars, seenVars
<1>10. SUFFICES Tally' /\ Named'
    BY DEF Books
<1>11. CASE \/ Start \/ StartRetrieval \/ GetOverlay \/ EndOverlays \/ NextUploadNode
            \/ NextNodePair \/ EndUploads \/ Finish \/ Done \/ UNCHANGED vars
    <2>1. /\ totalChunks' = totalChunks /\ foundChunks' = foundChunks
          /\ mismatches' = mismatches /\ results' = results /\ batchless' = batchless
        BY <1>11 DEF Start, StartRetrieval, GetOverlay, EndOverlays, NextUploadNode,
           NextNodePair, EndUploads, Finish, Done, vars
    <2>2. /\ Through' = Through /\ Counted' = Counted /\ InProgress' = InProgress
          /\ Looking' = Looking /\ Uploading' = Uploading
        BY <1>1, <1>2, <1>11
           DEF Start, StartRetrieval, GetOverlay, EndOverlays, NextUploadNode, NextNodePair,
               EndUploads, Finish, Done, vars, Fail, Through, Counted, InProgress, Looking,
               Uploading, InLoop
    <2> QED BY <1>1, <1>3, <1>4, <1>5, <1>8, <1>9, <2>1, <2>2 DEF Tally
<1>12. CASE GetBatch
    <2>1. /\ InLoop /\ UploadNode \in Node
          /\ totalChunks' = totalChunks /\ foundChunks' = foundChunks
          /\ mismatches' = mismatches
          /\ Counted = 0 /\ Counted' = 0 /\ InProgress = 0 /\ InProgress' = 0
          /\ Looking = 0 /\ Looking' = 0 /\ Uploading = 0 /\ Uploading' = 0
        BY <1>1, <1>2, <1>6, <1>12
           DEF GetBatch, InLoop, Counted, InProgress, Looking, Uploading
    <2>2. CASE pc' = "chunk"
        <3>1. Through' = Through /\ results' = results /\ batchless' = batchless
            BY <1>1, <1>12, <2>2 DEF GetBatch, Through, InLoop
        <3> QED BY <1>1, <1>3, <1>4, <1>5, <1>8, <1>9, <2>1, <3>1 DEF Tally
    <2>3. CASE pc' = "node"
        <3>1. /\ Through' = Through + 1 /\ Through' = uploader
              /\ results' = Append(results, Failed(UploadNode))
              /\ batchless' = batchless \cup {FullNode(uploader)}
            BY <1>1, <1>2, <1>12, <2>3 DEF GetBatch, Report, UploadNode, Through, InLoop
        <3>2. FullNode(uploader) \notin batchless
            <4>1. full \in SUBSET Node /\ uploader \in 1..Cardinality(full)
                BY <2>1, UploadNodes DEF TypeOK
            <4>2. \A i \in 1..Through : i \in 1..Cardinality(full) /\ i # uploader
                BY <1>3, <3>1, <4>1, FullNodes
            <4> QED BY <1>8, <4>1, <4>2, FullNodes DEF Named
        <3>3. Without' = Without + 1
            <4>1. IsFiniteSet(batchless)
                BY NodeIsFinite, FS_Subset DEF TypeOK
            <4> QED BY <3>1, <3>2, <4>1, FS_AddElement DEF Without
        <3>4. Named'
            <4>1. \A i \in 1..Through : i \in 1..Through'
                BY <1>3, <3>1
            <4>2. uploader \in 1..Through'
                BY <1>3, <3>1
            <4> QED BY <1>1, <1>8, <3>1, <4>1, <4>2 DEF Named
        <3>5. Failures' = Failures + 1 /\ Passes' = Passes
            BY <1>4, <2>1, <3>1
        <3>6. Due' = Due
            BY <1>5, <3>1, <3>3
        <3> QED BY <1>1, <1>2, <1>4, <1>5, <1>8, <2>1, <3>3, <3>4, <3>5, <3>6 DEF Tally
    <2> QED BY <1>12, <2>2, <2>3 DEF GetBatch
<1>13. CASE NextChunk
    <2>1. /\ InLoop /\ UploadNode \in Node
          /\ totalChunks' = totalChunks + 1 /\ foundChunks' = foundChunks
          /\ mismatches' = mismatches /\ batchless' = batchless
          /\ Through' = Through /\ Counted \in Nat /\ Counted' = Counted + 1 /\ InProgress = 0
          /\ Looking = 0 /\ Looking' = 0 /\ Uploading = 0
        BY <1>1, <1>2, <1>6, <1>13
           DEF NextChunk, ChunkOver, InLoop, Through, Counted, InProgress, Looking, Uploading
    <2>2. \/ InProgress' = 1 /\ Uploading' = 1 /\ results' = results
          \/ /\ InProgress' = 0 /\ Uploading' = 0
             /\ results' = Append(results, Failed(UploadNode))
        BY <1>1, <1>2, <1>13 DEF NextChunk, ChunkOver, Report, InLoop, InProgress, Uploading
    <2>3. \/ InProgress' = 1 /\ Uploading' = 1 /\ Failures' = Failures /\ Passes' = Passes
          \/ /\ InProgress' = 0 /\ Uploading' = 0 /\ Failures' = Failures + 1
             /\ Passes' = Passes
        BY <1>4, <2>1, <2>2
    <2> QED BY <1>1, <1>2, <1>3, <1>4, <1>5, <1>8, <1>9, <2>1, <2>3 DEF Tally
<1>14. CASE EndChunks
    <2>1. /\ totalChunks' = totalChunks /\ foundChunks' = foundChunks /\ results' = results
          /\ mismatches' = mismatches /\ batchless' = batchless
          /\ Through' = Through + 1 /\ Counted = chunksPerNode /\ Counted' = 0
          /\ InProgress = 0 /\ InProgress' = 0
          /\ Looking = 0 /\ Looking' = 0 /\ Uploading = 0 /\ Uploading' = 0
        BY <1>1, <1>2, <1>14
           DEF EndChunks, InLoop, Through, Counted, InProgress, Looking, Uploading
    <2> QED BY <1>1, <1>2, <1>3, <1>4, <1>5, <1>8, <1>9, <2>1 DEF Tally
<1>15. CASE UploadSucceeds
    <2>1. /\ totalChunks' = totalChunks /\ foundChunks' = foundChunks /\ results' = results
          /\ mismatches' = mismatches /\ batchless' = batchless
          /\ Through' = Through /\ Counted' = Counted /\ InProgress' = InProgress
          /\ check = "pushsync"
        BY <1>1, <1>2, <1>15 DEF UploadSucceeds, InLoop, Through, Counted, InProgress
    <2> QED BY <1>1, <1>3, <1>4, <1>5, <1>8, <1>9, <2>1 DEF Tally
<1>16. CASE UploadReported
    <2>1. /\ totalChunks' = totalChunks /\ foundChunks' = foundChunks
          /\ mismatches' = mismatches /\ batchless' = batchless
          /\ Through' = Through /\ Counted' = Counted /\ InProgress = 1
          /\ Looking = 0 /\ Uploading = 1 /\ Uploading' = 0
          /\ check = "retrieval" /\ UploadNode \in Node
        BY <1>1, <1>2, <1>6, <1>16
           DEF UploadReported, ChunkOver, InLoop, Through, Counted, InProgress, Looking, Uploading
    <2>2. \/ /\ InProgress' = 1 /\ Looking' = 1
             /\ results' = Append(results, Passed(UploadNode))
          \/ /\ InProgress' = 0 /\ Looking' = 0
             /\ results' = Append(results, Failed(UploadNode))
        BY <1>1, <1>2, <1>16
           DEF UploadReported, ChunkOver, Report, InLoop, InProgress, Looking
    <2>3. \/ InProgress' = 1 /\ Looking' = 1 /\ Passes' = Passes + 1 /\ Failures' = Failures
          \/ InProgress' = 0 /\ Looking' = 0 /\ Passes' = Passes /\ Failures' = Failures + 1
        BY <1>4, <2>1, <2>2
    <2> QED BY <1>1, <1>2, <1>3, <1>4, <1>5, <1>8, <1>9, <2>1, <2>3 DEF Tally
<1>17. CASE ChunkFound \/ DownloadMatches
    <2>1. /\ totalChunks' = totalChunks /\ foundChunks' = foundChunks + 1
          /\ mismatches' = mismatches /\ batchless' = batchless
          /\ Through' = Through /\ Counted' = Counted /\ InProgress = 1 /\ InProgress' = 0
          /\ Looking = 1 /\ Looking' = 0 /\ Uploading = 0 /\ Uploading' = 0
          /\ results' = Append(results, Passed(target)) /\ target \in Node
        BY <1>1, <1>2, <1>6, <1>7, <1>17
           DEF ChunkFound, DownloadMatches, Found, ChunkOver, Report, InLoop, Through, Counted,
               InProgress, Looking, Uploading
    <2>2. Passes' = Passes + 1 /\ Failures' = Failures
        BY <1>4, <2>1
    <2> QED BY <1>1, <1>2, <1>3, <1>4, <1>5, <1>8, <1>9, <2>1, <2>2 DEF Tally
<1>18. CASE UploadFails \/ ChunkMissing
    <2>1. /\ totalChunks' = totalChunks /\ foundChunks' = foundChunks
          /\ mismatches' = mismatches /\ batchless' = batchless
          /\ Through' = Through /\ Counted' = Counted /\ InProgress = 1
          /\ check = "pushsync"
          /\ UploadFails => UploadNode \in Node
          /\ ChunkMissing => target \in Node
        BY <1>1, <1>2, <1>6, <1>7, <1>18
           DEF UploadFails, ChunkMissing, ChunkOver, InLoop, Through, Counted, InProgress
    <2>2. \/ InProgress' = 1 /\ results' = results
          \/ \E n \in Node : InProgress' = 0 /\ results' = Append(results, Failed(n))
        BY <1>1, <1>2, <1>18, <2>1
           DEF UploadFails, ChunkMissing, ChunkOver, Report, InLoop, InProgress
    <2>3. \/ InProgress' = 1 /\ Passes' = Passes /\ Failures' = Failures
          \/ InProgress' = 0 /\ Passes' = Passes /\ Failures' = Failures + 1
        BY <1>4, <2>2
    <2> QED BY <1>1, <1>2, <1>3, <1>4, <1>5, <1>8, <1>9, <2>1, <2>3 DEF Tally
<1>19. CASE DownloadDiffers \/ DownloadFails
    <2>1. /\ totalChunks' = totalChunks /\ foundChunks' = foundChunks
          /\ mismatches' \in {mismatches, mismatches + 1} /\ batchless' = batchless
          /\ Through' = Through /\ Counted' = Counted /\ InProgress = 1 /\ InProgress' = 0
          /\ Looking = 1 /\ Looking' = 0 /\ Uploading = 0 /\ Uploading' = 0
          /\ results' = Append(results, Failed(target)) /\ target \in Node
          /\ check = "retrieval"
        BY <1>1, <1>2, <1>6, <1>19
           DEF DownloadDiffers, DownloadFails, ChunkOver, Report, InLoop, Through, Counted,
               InProgress, Looking, Uploading
    <2>2. Passes' = Passes /\ Failures' = Failures + 1
        BY <1>4, <2>1
    <2> QED BY <1>1, <1>2, <1>3, <1>4, <1>5, <1>8, <1>9, <2>1, <2>2 DEF Tally
<1>20. ~(StartSoc \/ GetSocBatch \/ MakeSoc \/ UploadSoc \/ DownloadSoc)
    BY <1>2 DEF StartSoc, GetSocBatch, MakeSoc, UploadSoc, DownloadSoc
<1> QED BY <1>11, <1>12, <1>13, <1>14, <1>15, <1>16, <1>17, <1>18, <1>19, <1>20
        DEF Next, Pushsync, Retrieval, Soc
-----------------------------------------------------------------------------
(* While nothing has failed, everything done with was found *)

(* No step is done with a chunk that it neither found nor reported.        *)
LEMMA FetchedStep ==
    TypeOK /\ PlaceOK /\ VerdictOK /\ AllFetched /\ [Next]_vars => AllFetched'
<1> SUFFICES ASSUME TypeOK, PlaceOK, VerdictOK, AllFetched, [Next]_vars, Failures' = 0
             PROVE  /\ check' # "soc" =>
                          \A i \in 1..uploader' : \A c \in 1..DoneWith(i)' :
                              \E n \in Node : /\ MayFind(i, n)'
                                              /\ <<FullNode(i)', c, n>> \in fetched'
                    /\ (check' = "soc" /\ (pc' = "finish" \/ verdict' \in {"passed", "failed"})) =>
                          <<target', 1, target'>> \in fetched' /\ target' \in Node
    BY DEF AllFetched
<1>1. /\ check' = check /\ chunksPerNode' = chunksPerNode /\ full' = full
      /\ \A i : FullNode(i)' = FullNode(i)
    BY OptionsKept DEF optVars
<1>2. /\ uploader \in Nat /\ chunk \in Nat /\ chunksPerNode \in Nat
    BY DEF TypeOK
<1>3. /\ Passes \in Nat /\ Failures \in Nat
      /\ results' = results => Passes' = Passes /\ Failures' = Failures
      /\ \A n \in Node : results' = Append(results, Failed(n)) =>
            Passes' = Passes /\ Failures' = Failures + 1
      /\ \A n \in Node : results' = Append(results, Passed(n)) =>
            Passes' = Passes + 1 /\ Failures' = Failures
    BY CountsOfStep DEF TypeOK
<1>4. \A n \in Node : results' # Append(results, Failed(n))
    BY <1>3
<1>5. results' = results \/ (\E n \in Node : results' = Append(results, Passed(n))) =>
         Failures = 0
    BY <1>3
<1> USE DEF optVars, readVars, placeVars, countVars, seenVars
<1>6. CASE check # "soc"
    <2>1. /\ pc \in {"start", "overlays", "node", "batch", "chunk", "upload", "look",
                     "finish", "done"}
          /\ ~(StartSoc \/ GetSocBatch \/ MakeSoc \/ UploadSoc \/ DownloadSoc)
        BY <1>6 DEF TypeOK, StartSoc, GetSocBatch, MakeSoc, UploadSoc, DownloadSoc
    <2>2. InLoop =>
             UploadNode \in Node /\ uploader \in 1..Cardinality(full)
             /\ (check = "retrieval" => target \in Node)
        <3>1. full \in SUBSET Node
            BY DEF TypeOK
        <3> QED BY <3>1, UploadNodes
    <2>3. check = "pushsync" /\ pc = "look" => target \in Node /\ target \in overlays
        <3>1. overlays \in SUBSET Node
            BY DEF TypeOK
        <3> QED BY <3>1 DEF PlaceOK
    <2> DEFINE Old(i, c) == i \in 1..uploader /\ c \in 1..DoneWith(i)
               Kept == \A i \in 1..uploader' : \A c \in 1..DoneWith(i)' : Old(i, c)
               NewlyFound == /\ uploader' = uploader /\ overlays' = overlays
                             /\ fetched' = fetched \cup {<<FullNode(uploader), chunk, target>>}
                             /\ MayFind(uploader, target)
                             /\ \A i \in 1..uploader : \A c \in 1..DoneWith(i)' :
                                   Old(i, c) \/ (i = uploader /\ c = chunk)
    <2>4. Failures = 0 /\ Kept /\ overlays \in SUBSET overlays' /\ fetched' = fetched
          => \A i \in 1..uploader' : \A c \in 1..DoneWith(i)' :
                \E n \in Node : MayFind(i, n)' /\ <<FullNode(i)', c, n>> \in fetched'
        <3> SUFFICES ASSUME Failures = 0, Kept, overlays \in SUBSET overlays',
                            fetched' = fetched,
                            NEW i \in 1..uploader', NEW c \in 1..DoneWith(i)'
                     PROVE  \E n \in Node : MayFind(i, n)' /\ <<FullNode(i)', c, n>> \in fetched'
            OBVIOUS
        <3>1. PICK n \in Node : MayFind(i, n) /\ <<FullNode(i), c, n>> \in fetched
            BY <1>6 DEF AllFetched
        <3>2. MayFind(i, n)'
            BY <1>1, <3>1 DEF MayFind
        <3> QED BY <1>1, <3>1, <3>2
    <2>5. Failures = 0 /\ NewlyFound
          => \A i \in 1..uploader' : \A c \in 1..DoneWith(i)' :
                \E n \in Node : MayFind(i, n)' /\ <<FullNode(i)', c, n>> \in fetched'
        <3> SUFFICES ASSUME Failures = 0, NewlyFound,
                            NEW i \in 1..uploader', NEW c \in 1..DoneWith(i)'
                     PROVE  \E n \in Node : MayFind(i, n)' /\ <<FullNode(i)', c, n>> \in fetched'
            OBVIOUS
        <3>1. \A n \in Node : MayFind(i, n) => MayFind(i, n)'
            BY <1>1 DEF MayFind
        <3>2. CASE Old(i, c)
            <4>1. PICK n \in Node : MayFind(i, n) /\ <<FullNode(i), c, n>> \in fetched
                BY <1>6, <3>2 DEF AllFetched
            <4> QED BY <1>1, <3>1, <4>1
        <3>3. CASE i = uploader /\ c = chunk
            <4>1. target \in Node
                BY DEF MayFind
            <4> QED BY <1>1, <3>1, <3>3, <4>1
        <3> QED BY <3>2, <3>3
    <2> SUFFICES \/ Failures = 0 /\ Kept /\ overlays \in SUBSET overlays' /\ fetched' = fetched
                 \/ Failures = 0 /\ NewlyFound
        <3> HIDE DEF Kept, NewlyFound
        <3> QED BY <1>1, <1>6, <2>4, <2>5
    <2>6. CASE \/ Start \/ StartRetrieval \/ GetOverlay \/ EndOverlays \/ EndUploads
               \/ Finish \/ Done \/ UNCHANGED vars
        <3>1. /\ results' = results /\ overlays \in SUBSET overlays' /\ fetched' = fetched
              /\ uploader' = uploader
            BY <2>6 DEF Start, StartRetrieval, GetOverlay, EndOverlays, EndUploads, Finish,
               Done, vars
        <3>2. Through' = Through /\ Counted' = Counted /\ InProgress' = InProgress
            BY <1>1, <2>1, <2>6
               DEF Start, StartRetrieval, GetOverlay, EndOverlays, EndUploads, Finish, Done,
                   vars, Fail, Through, Counted, InProgress, InLoop
        <3>3. \A i : DoneWith(i)' = DoneWith(i)
            BY <1>1, <3>2 DEF DoneWith
        <3> QED BY <1>5, <3>1, <3>3
    <2>7. CASE NextUploadNode \/ NextNodePair
        <3>1. /\ results' = results /\ overlays' = overlays /\ fetched' = fetched
              /\ uploader' = uploader + 1 /\ Through = uploader /\ Through' = uploader
              /\ Counted' = 0 /\ InProgress' = 0
            BY <1>1, <1>2, <1>6, <2>7
               DEF NextUploadNode, NextNodePair, Through, Counted, InProgress, InLoop
        <3>2. \A i \in 1..uploader :
                 DoneWith(i)' = chunksPerNode /\ DoneWith(i) = chunksPerNode
            BY <1>1, <1>2, <3>1 DEF DoneWith
        <3>3. \A i \in 1..uploader' : i \in 1..uploader \/ DoneWith(i)' = 0
            BY <1>2, <3>1 DEF DoneWith
        <3>4. \A i \in 1..uploader' : \A c \in 1..DoneWith(i)' : Old(i, c)
            BY <3>2, <3>3
        <3> QED BY <1>5, <3>1, <3>4
    <2>8. CASE \/ GetBatch \/ NextChunk \/ UploadSucceeds \/ UploadFails \/ ChunkMissing
               \/ UploadReported
        <3>1. /\ overlays' = overlays /\ fetched' = fetched /\ uploader' = uploader
              /\ InLoop
            BY <1>6, <2>8 DEF GetBatch, NextChunk, UploadSucceeds, UploadFails, ChunkMissing,
               UploadReported, InLoop
        <3>2. /\ results' = results \/ results' = Append(results, Passed(UploadNode))
              /\ GetBatch => pc' = "chunk" /\ chunk' = 0
              /\ NextChunk => pc' = "upload" /\ chunk' = chunk + 1
              /\ UploadSucceeds \/ UploadFails \/ ChunkMissing \/ UploadReported =>
                    pc' \in {"upload", "look"} /\ chunk' = chunk
            <4>1. /\ results' # Append(results, Failed(UploadNode))
                  /\ ChunkMissing => results' # Append(results, Failed(target))
                BY <1>4, <2>2, <2>3, <3>1 DEF ChunkMissing
            <4>2. CASE GetBatch
                <5>1. pc = "batch" /\ results' = results /\ pc' = "chunk" /\ chunk' = 0
                    BY <4>1, <4>2 DEF GetBatch, Report
                <5> QED BY <5>1 DEF NextChunk, UploadSucceeds, UploadFails, ChunkMissing,
                        UploadReported
            <4>3. CASE NextChunk
                <5>1. pc = "chunk" /\ results' = results /\ pc' = "upload" /\ chunk' = chunk + 1
                    BY <4>1, <4>3 DEF NextChunk, ChunkOver, Report
                <5> QED BY <5>1 DEF GetBatch, UploadSucceeds, UploadFails, ChunkMissing,
                        UploadReported
            <4>4. CASE UploadSucceeds \/ UploadFails \/ ChunkMissing \/ UploadReported
                BY <2>1, <4>1, <4>4 DEF GetBatch, Report, ChunkOver, NextChunk, UploadSucceeds,
                   UploadFails, ChunkMissing, UploadReported
            <4> QED BY <2>8, <4>2, <4>3, <4>4
        <3>3. /\ Through' = Through
              /\ Counted' - InProgress' = Counted - InProgress
            <4>1. CASE GetBatch
                BY <1>1, <1>6, <3>1, <3>2, <4>1
                   DEF GetBatch, Through, Counted, InProgress, InLoop
            <4>2. CASE NextChunk
                BY <1>1, <1>2, <1>6, <3>1, <3>2, <4>2
                   DEF NextChunk, Through, Counted, InProgress, InLoop
            <4>3. CASE UploadSucceeds \/ UploadFails \/ ChunkMissing \/ UploadReported
                <5>1. pc \in {"upload", "look"} /\ pc' \in {"upload", "look"}
                    BY <3>2, <4>3 DEF UploadSucceeds, UploadFails, ChunkMissing, UploadReported
                <5> QED BY <1>1, <1>6, <3>1, <3>2, <4>3, <5>1
                        DEF Through, Counted, InProgress, InLoop
            <4> QED BY <2>8, <4>1, <4>2, <4>3
        <3>4. \A i : DoneWith(i)' = DoneWith(i)
            BY <1>1, <3>3 DEF DoneWith
        <3> QED BY <1>5, <2>2, <3>1, <3>2, <3>4
    <2>9. CASE EndChunks
        <3>1. /\ results' = results /\ overlays' = overlays /\ fetched' = fetched
              /\ uploader' = uploader /\ Through = uploader - 1 /\ Through' = uploader
              /\ Counted = chunksPerNode /\ InProgress = 0
            BY <1>1, <1>2, <1>6, <2>9
               DEF EndChunks, Through, Counted, InProgress, InLoop
        <3>2. \A i \in 1..uploader :
                 DoneWith(i)' = chunksPerNode /\ DoneWith(i) = chunksPerNode
            BY <1>1, <1>2, <3>1 DEF DoneWith
        <3> QED BY <1>5, <3>1, <3>2
    <2>10. CASE ChunkFound \/ DownloadMatches
        <3>1. /\ overlays' = overlays /\ uploader' = uploader /\ target \in Node
              /\ fetched' = fetched \cup {<<FullNode(uploader), chunk, target>>}
              /\ results' = Append(results, Passed(target))
              /\ Through' = Through /\ Through = uploader - 1
              /\ Counted' = chunk /\ InProgress' = 0 /\ Counted = chunk /\ InProgress = 1
            BY <1>1, <1>6, <2>2, <2>3, <2>10
               DEF ChunkFound, DownloadMatches, Found, ChunkOver, Report, UploadNode,
                   Through, Counted, InProgress, InLoop
        <3>2. MayFind(uploader, target)
            <4>1. check = "retrieval" /\ InLoop /\ Cardinality(full) > 1 =>
                     target # FullNode(uploader)
                BY UploadNodes DEF UploadNode
            <4> QED BY <2>3, <2>10, <3>1, <4>1
                    DEF ChunkFound, DownloadMatches, InLoop, MayFind
        <3>3. \A i \in 1..uploader : \A c \in 1..DoneWith(i)' :
                 Old(i, c) \/ (i = uploader /\ c = chunk)
            BY <1>1, <1>2, <3>1 DEF DoneWith
        <3> QED BY <1>5, <3>1, <3>2, <3>3
    <2>11. CASE DownloadDiffers \/ DownloadFails
        <3>1. InLoop /\ check = "retrieval" /\ results' = Append(results, Failed(target))
            BY <2>11 DEF DownloadDiffers, DownloadFails, ChunkOver, Report, InLoop
        <3> QED BY <1>4, <2>2, <3>1
    <2> QED BY <2>1, <2>6, <2>7, <2>8, <2>9, <2>10, <2>11 DEF Next, Pushsync, Retrieval, Soc
<1>7. CASE check = "soc"
    <2> SUFFICES ASSUME pc' = "finish" \/ verdict' \in {"passed", "failed"}
                 PROVE  <<target', 1, target'>> \in fetched' /\ target' \in Node
        BY <1>1, <1>7
    <2>1. pc \in {"start", "batch", "make", "uploadSoc", "downloadSoc", "finish", "done"}
          /\ (pc # "done" => verdict = "none")
          /\ (pc \notin {"start", "done"} => target \in Node)
        BY <1>7 DEF TypeOK, PlaceOK, VerdictOK
    <2>2. CASE Finish \/ Done \/ UNCHANGED vars
        <3>1. /\ results' = results /\ fetched' = fetched /\ target' = target
              /\ pc = "finish" \/ verdict \in {"passed", "failed"}
            BY <2>2 DEF Finish, Done, vars
        <3> QED BY <1>5, <1>7, <3>1 DEF AllFetched
    <2>3. CASE UploadSoc \/ DownloadSoc
        <3>1. /\ pc \in {"uploadSoc", "downloadSoc"} /\ target' = target
              /\ pc' \in {"downloadSoc", "finish"} /\ verdict' = "none"
              /\ pc' = "finish" => \/ results' = Append(results, Failed(target))
                                   \/ fetched' = {<<target, 1, target>>}
            BY <2>1, <2>3 DEF UploadSoc, DownloadSoc, Report
        <3> QED BY <1>4, <2>1, <3>1
    <2>4. ~(StartSoc \/ GetSocBatch \/ MakeSoc)
        BY <2>1 DEF StartSoc, GetSocBatch, MakeSoc, Fail
    <2>5. ~(Pushsync \/ Retrieval \/ GetBatch \/ NextChunk \/ EndChunks \/ EndUploads)
        BY <1>7, <2>1
           DEF Pushsync, Start, GetOverlay, EndOverlays, NextUploadNode, UploadSucceeds,
               UploadFails, ChunkFound, ChunkMissing, Retrieval, StartRetrieval, NextNodePair,
               UploadReported, DownloadMatches, DownloadDiffers, DownloadFails, GetBatch,
               NextChunk, EndChunks, EndUploads
    <2> QED BY <2>2, <2>3, <2>4, <2>5 DEF Next, Soc
<1> QED BY <1>6, <1>7
-----------------------------------------------------------------------------
(* The theorems *)

(* The inductive invariant holds in every reachable state: the counters of *)
(* pushsync and retrieval agree with their results wherever the loops are, *)
(* and as long as nothing has failed every chunk done with was found.      *)
THEOREM Invariance == Spec => []IInv
<1>1. Init => IInv
    BY InvInit
<1>2. IInv /\ [Next]_vars => IInv'
    BY TypeStep, PlaceStep, VerdictStep, BooksStep, FetchedStep DEF IInv
<1> QED BY <1>1, <1>2, PTL DEF Spec

(* Whatever fails, and wherever pushsync and retrieval leave their loops   *)
(* early, each of their chunks is counted and reported once                *)
(* (pushsync.rs:259, retrieval.rs:185).                                    *)
THEOREM ReportsComplete == Spec => []EveryChunkReported
<1>1. IInv => EveryChunkReported
    <2> SUFFICES ASSUME IInv, check # "soc", pc \in {"node", "finish", "done"}
                 PROVE  /\ totalChunks = chunksPerNode * (uploader - Cardinality(batchless))
                        /\ Count(FALSE) = totalChunks - foundChunks + Cardinality(batchless)
                        /\ Count(TRUE) \in IF check = "retrieval"
                                           THEN 2 * foundChunks .. totalChunks + foundChunks
                                           ELSE {foundChunks}
        BY DEF EveryChunkReported
    <2>1. /\ Through = uploader /\ Counted = 0 /\ InProgress = 0
          /\ Looking = 0 /\ Uploading = 0
        BY DEF Through, Counted, InProgress, Looking, Uploading, InLoop
    <2>2. /\ totalChunks \in Nat /\ foundChunks \in Nat /\ chunksPerNode \in Nat
          /\ uploader \in Nat /\ check \in {"pushsync", "retrieval"}
          /\ Passes \in Nat /\ Failures \in Nat /\ Without \in Nat
        <3>1. Without \in Nat
            BY NodeIsFinite, FS_Subset, FS_CardinalityType DEF IInv, TypeOK, Without
        <3> QED BY <3>1, CountsOfStep DEF IInv, TypeOK
    <2>3. Due = chunksPerNode * (uploader - Without) /\ Due \in Int
        BY <2>1, <2>2 DEF Due
    <2>4. /\ totalChunks = Due
          /\ Failures = totalChunks - foundChunks + Without
          /\ Passes \in IF check = "retrieval"
                        THEN 2 * foundChunks .. totalChunks + foundChunks
                        ELSE {foundChunks}
        BY <2>1, <2>2, <2>3 DEF IInv, Books, Tally
    <2> QED BY <2>3, <2>4, Zenon DEF Passes, Failures, Without
<1> QED BY <1>1, Invariance, PTL

(* No combination of failures makes the message and the verdict of         *)
(* pushsync or retrieval contradict each other (pushsync.rs:467,           *)
(* retrieval.rs:331).                                                      *)
THEOREM VerdictAgrees == Spec => []VerdictMatchesMessage
<1>1. IInv => VerdictMatchesMessage
    <2> SUFFICES ASSUME IInv, check # "soc", verdict \in {"passed", "failed"}
                 PROVE  /\ verdict = "passed" <=> foundChunks = totalChunks /\ batchless = {}
                        /\ foundChunks + mismatches <= totalChunks
        BY DEF VerdictMatchesMessage
    <2>1. InProgress = 0
        BY DEF IInv, VerdictOK, InProgress, InLoop
    <2>2. /\ totalChunks \in Nat /\ foundChunks \in Nat /\ mismatches \in Nat
          /\ Failures \in Nat
          /\ Without \in Nat /\ (Without = 0 <=> batchless = {})
        <3>1. IsFiniteSet(batchless)
            BY NodeIsFinite, FS_Subset DEF IInv, TypeOK
        <3>2. Without \in Nat /\ (Without = 0 <=> batchless = {})
            BY <3>1, FS_EmptySet, FS_CardinalityType DEF Without
        <3> QED BY <3>2, CountsOfStep DEF IInv, TypeOK
    <2>3. /\ foundChunks + mismatches <= totalChunks
          /\ Failures + foundChunks = totalChunks + Without
        BY <2>1, <2>2 DEF IInv, Books, Tally
    <2>4. Failures = 0 <=> foundChunks = totalChunks /\ Without = 0
        BY <2>2, <2>3
    <2>5. verdict = "passed" <=> Failures = 0
        <3>1. verdict = "passed" <=> CountIn(results, FALSE) = 0
            BY VerdictCounts DEF IInv, TypeOK, VerdictOK
        <3> QED BY <3>1 DEF Failures, Count, CountIn
    <2> QED BY <2>2, <2>3, <2>4, <2>5
<1> QED BY <1>1, Invariance, PTL

(* A pass is never given for a chunk that was not fetched, nor by          *)
(* retrieval for one fetched where it had been uploaded, unless there is   *)
(* only one full node (retrieval.rs:174).                                  *)
THEOREM PassIsEarned == Spec => []PassMeansFetched
<1>1. IInv => PassMeansFetched
    <2> SUFFICES ASSUME IInv, verdict = "passed"
                 PROVE  PassMeansFetched
        BY DEF PassMeansFetched
    <2>1. Failures = 0
        <3>1. CountIn(results, FALSE) = 0
            BY VerdictCounts DEF IInv, TypeOK, VerdictOK
        <3> QED BY <3>1 DEF Failures, Count, CountIn
    <2>2. pc = "done" /\ chunksPerNode \in Nat /\ UploadCount \in Nat
        <3>1. full \in SUBSET Node
            BY DEF IInv, TypeOK
        <3> QED BY <3>1, UploadCountBounds DEF IInv, VerdictOK, TypeOK
    <2>3. CASE check = "soc"
        <3>1. <<target, 1, target>> \in fetched /\ target \in Node /\ chunksPerNode = 1
            BY <2>1, <2>3 DEF IInv, AllFetched, PlaceOK
        <3>2. \A c \in 1..chunksPerNode : c = 1
            BY <3>1
        <3> QED BY <2>3, <3>1, <3>2 DEF PassMeansFetched
    <2>4. CASE check # "soc"
        <3>1. uploader = UploadCount /\ Through = uploader
            BY <2>2, <2>4 DEF IInv, VerdictOK, Through, InLoop
        <3>2. \A i \in 1..UploadCount : DoneWith(i) = chunksPerNode
            BY <2>2, <3>1 DEF DoneWith
        <3>3. \A i \in 1..UploadCount : \A c \in 1..chunksPerNode :
                 \E n \in Node : MayFind(i, n) /\ <<FullNode(i), c, n>> \in fetched
            BY <2>1, <2>4, <3>1, <3>2 DEF IInv, AllFetched
        <3> QED BY <2>4, <3>3 DEF PassMeansFetched, MayFind
    <2> QED BY <2>3, <2>4
<1> QED BY <1>1, Invariance, PTL
=============================================================================
