--------------------------- MODULE PullsyncProofs ---------------------------
(***************************************************************************)
(* Proofs about PullsyncCheck, for every cluster, every length of          *)
(* addresses and all depths, and any number of chunks, upload nodes and    *)
(* retries: what holds of a chunk when the check goes on to the next one,  *)
(* what the count of its replicas tells, and that no chunk is passed over. *)
(***************************************************************************)
EXTENDS PullsyncCheck, OverlayProofs, SequenceTheorems

Result == [node : Node, passed : {TRUE}]

(* A chunk is being looked at; the check is at one of an upload node's.    *)
OnChunk == pc \in {"closest", "verify", "look", "count"}
OnUploader == pc = "batch" \/ pc = "chunk" \/ OnChunk

TypeOK ==
    /\ cluster \in {1..n : n \in Node}
    /\ depthOf \in Depths
    /\ chunksPerNode \in Nat /\ uploadNodeCount \in Nat /\ threshold \in Nat
    /\ infoLogged \in BOOLEAN
    /\ pc \in {"start", "overlays", "topologies", "node", "batch", "chunk", "closest",
              "verify", "look", "count", "finish", "done"}
    /\ overlays \subseteq cluster
    /\ depth \in [Node -> 0..Bits]
    /\ uploader \in Nat /\ uploader <= UploadCount
    /\ chunk \in Nat
    /\ chunkAddress \in Address
    /\ peers \subseteq cluster
    /\ replicating \subseteq Node
    /\ pending \subseteq Node
    /\ attempt \in Nat
    /\ unasked \subseteq cluster /\ rf \in Nat
    /\ silent \subseteq Node /\ heldBefore \subseteq cluster
    /\ results \in Seq(Result)
    /\ verdict \in {"none", "passed", "failed", "error", "panic"}
    /\ holders \subseteq cluster

(* No depth is taken to be greater than it is.                             *)
DepthKept == \A n \in Node : depth[n] <= depthOf[n]

(* The peers the chunk falls to.                                           *)
Designated == {n \in peers \cap overlays : InDepth(n)}

(* Whoever is no longer pending holds the chunk.                           *)
LookedAt ==
    /\ pc \in {"verify", "look", "count"} =>
          /\ replicating = Designated /\ replicating # {}
          /\ \A n \in replicating \ pending : n \in holders
    /\ pc = "look" => pivot \in pending
    /\ pc = "count" => pending = {}

(* How far the count is: it has missed nobody who held the chunk when it   *)
(* began and has answered, and counted nobody who does not hold it now.    *)
Counted ==
    pc = "count" =>
        /\ heldBefore \subseteq holders
        /\ Cardinality(heldBefore \ (silent \cup unasked)) <= rf
        /\ rf <= Cardinality(holders \ unasked)

(* A chunk is left behind only where it belongs, and often enough.         *)
ChunkPlaced ==
    (pc = "chunk" /\ chunk > 0) =>
        Designated \subseteq holders /\ Cardinality(holders) >= threshold

(* Every chunk that is done with has left a result.                        *)
Owed(k) == k * chunksPerNode

ResultsOwed ==
    /\ pc \in {"start", "overlays", "topologies"} => uploader = 0
    /\ OnUploader => uploader > 0
    /\ OnChunk => chunk > 0
    /\ pc = "node" => Len(results) >= Owed(uploader)
    /\ pc = "batch" => Len(results) >= Owed(uploader - 1)
    /\ pc = "chunk" => Len(results) >= Owed(uploader - 1) + chunk
    /\ OnChunk => Len(results) >= Owed(uploader - 1) + (chunk - 1)
    /\ pc = "finish" \/ verdict = "passed" =>
          uploader = UploadCount /\ Len(results) >= Owed(uploader)

Ending ==
    /\ verdict = "none" <=> pc # "done"
    /\ verdict # "failed"

IInv ==
    /\ TypeOK /\ DepthKept /\ LookedAt /\ Counted /\ ChunkPlaced /\ ResultsOwed /\ Ending
-----------------------------------------------------------------------------
(* The options never change, nor what is derived from them.                *)
LEMMA OptionsStay ==
    ASSUME UNCHANGED optVars
    PROVE  /\ UNCHANGED <<cluster, depthOf, chunksPerNode, uploadNodeCount, threshold,
                          infoLogged>>
           /\ UploadCount' = UploadCount
           /\ \A k : Owed(k)' = Owed(k)
BY DEF optVars, UploadCount, Owed

(* The cluster is a finite set of nodes, and so is what is taken of it.    *)
LEMMA ClusterFinite ==
    ASSUME TypeOK, NEW S \in SUBSET cluster
    PROVE  IsFiniteSet(S) /\ Cardinality(S) \in Nat /\ S \subseteq Node
<1>1. PICK n \in Node : cluster = 1..n
    BY DEF TypeOK
<1>2. n \in Nat /\ n <= MaxNodes /\ MaxNodes \in Nat
    BY BoundsAssumption DEF Node
<1>3. IsFiniteSet(cluster)
    BY <1>1, <1>2, FS_Interval
<1>4. cluster \subseteq Node
    BY <1>1, <1>2 DEF Node
<1> QED BY <1>3, <1>4, FS_Subset, FS_CardinalityType

(* At least one node uploads.                                              *)
LEMMA UploadCountPositive ==
    ASSUME uploadNodeCount \in Nat, Cardinality(cluster) \in Nat
    PROVE  UploadCount \in Nat \ {0}
BY MinOfTwo, MaxOfTwo DEF UploadCount

(* SetToSeq lists a finite set: as many results as there are.              *)
LEMMA SetListed ==
    ASSUME NEW S, IsFiniteSet(S)
    PROVE  SetToSeq(S) \in Seq(S) /\ Len(SetToSeq(S)) = Cardinality(S)
<1> DEFINE n == Cardinality(S)
<1>1. n \in Nat /\ ExistsBijection(1..n, S)
    BY FS_CardinalityType
<1>2. PICK f \in Bijection(1..n, S) : TRUE
    BY <1>1 DEF ExistsBijection
<1>3. f \in [1..n -> S] /\ IsInjective(f)
    BY <1>2 DEF Bijection, Injection, IsInjective
<1>4. SetToSeq(S) \in [1..n -> S]
    BY <1>3 DEF SetToSeq
<1> HIDE DEF n
<1>5. \A g \in [1..n -> S] : g \in Seq(S) /\ Len(g) = n
    BY <1>1
<1> QED BY <1>4, <1>5 DEF n

(* What a chunk adds to the results when its peers are verified.           *)
LEMMA ResultsOfReplicators ==
    ASSUME NEW R \in SUBSET Node, IsFiniteSet(R), R # {}
    PROVE  LET s == SetToSeq({Passed(n) : n \in R})
           IN  s \in Seq(Result) /\ Len(s) >= 1
<1> DEFINE S == {Passed(n) : n \in R}
<1>1. S \subseteq Result /\ S # {}
    <2>1. \A n \in Node : Passed(n) \in Result
        BY DEF Passed, Result
    <2> QED BY <2>1
<1>2. IsFiniteSet(S)
    <2> DEFINE f == [n \in R |-> Passed(n)]
    <2>1. f \in Surjection(R, S)
        BY DEF Surjection
    <2> QED BY <2>1, FS_Surjection
<1> HIDE DEF S
<1>3. SetToSeq(S) \in Seq(S) /\ Len(SetToSeq(S)) = Cardinality(S)
    BY <1>2, SetListed
<1>4. Cardinality(S) \in Nat /\ Cardinality(S) # 0
    BY <1>1, <1>2, FS_EmptySet, FS_CardinalityType
<1>5. SetToSeq(S) \in Seq(Result)
    BY <1>1, <1>3
<1> QED BY <1>3, <1>4, <1>5 DEF S
-----------------------------------------------------------------------------
(* At the start every conjunct holds.                                      *)
LEMMA InitInvariant == Init => IInv
<1> SUFFICES ASSUME Init PROVE IInv
    OBVIOUS
<1>1. PICK n \in Node : cluster = 1..n
    BY DEF Init
<1>2. n \in Nat /\ Cardinality(cluster) \in Nat
    BY <1>1, FS_Interval, FS_CardinalityType DEF Node
<1>3. /\ depthOf \in [Node -> 0..Bits] /\ chunksPerNode \in Nat
      /\ uploadNodeCount \in Nat /\ threshold \in Nat
    BY BoundsAssumption DEF Init
<1>4. UploadCount \in Nat \ {0}
    BY <1>2, <1>3, UploadCountPositive
<1>5. chunkAddress \in Address
    BY DEF Init, Address
<1>6. depth \in [Node -> 0..Bits] /\ DepthKept
    BY <1>3, BitsAssumption DEF Init, DepthKept
<1>7. results \in Seq(Result) /\ Len(results) = 0
    BY DEF Init
<1>8. TypeOK
    BY <1>3, <1>4, <1>5, <1>6, <1>7 DEF Init, TypeOK
<1>9. ResultsOwed
    BY DEF Init, ResultsOwed, OnUploader, OnChunk
<1>10. LookedAt /\ Counted /\ ChunkPlaced /\ Ending
    BY DEF Init, LookedAt, Counted, ChunkPlaced, Ending
<1> QED BY <1>6, <1>8, <1>9, <1>10 DEF IInv
-----------------------------------------------------------------------------
(* Every step keeps the types.                                             *)
LEMMA TypesKept ==
    ASSUME IInv, Next
    PROVE  TypeOK'
<1> USE DEF IInv, Fail, Panic, netVars, chunkVars, countVars, lookVars, outVars
<1>0. ASSUME UNCHANGED optVars
      PROVE  /\ UNCHANGED <<cluster, depthOf, chunksPerNode, uploadNodeCount, threshold,
                            infoLogged>>
             /\ UploadCount' = UploadCount
    BY <1>0, OptionsStay
<1>1. CASE Start
    BY <1>0, <1>1 DEF Start, TypeOK
<1>2. CASE GetOverlays
    BY <1>0, <1>2 DEF GetOverlays, TypeOK
<1>3. CASE GetTopologies
    <2>1. depth' \in [Node -> 0..Bits]
        BY <1>3, BoundsAssumption, BitsAssumption DEF GetTopologies, TypeOK
    <2> QED BY <1>0, <1>3, <2>1 DEF GetTopologies, TypeOK
<1>4. CASE NextUploadNode
    <2>1. UploadCount \in Nat \ {0}
        BY ClusterFinite, UploadCountPositive DEF TypeOK
    <2> QED BY <1>0, <1>4, <2>1 DEF NextUploadNode, TypeOK
<1>5. CASE GetBatch
    BY <1>0, <1>5 DEF GetBatch, TypeOK
<1>6. CASE UploadChunk
    BY <1>0, <1>6 DEF UploadChunk, TypeOK
<1>7. CASE EndChunks
    BY <1>0, <1>7 DEF EndChunks, TypeOK
<1>8. CASE FindReplicatingNodes
    <2>1. peers' \subseteq cluster /\ replicating' \subseteq Node /\ pending' \subseteq Node
        <3>1. overlays \subseteq Node
            BY ClusterFinite DEF TypeOK
        <3> QED BY <1>8, <3>1 DEF FindReplicatingNodes, TypeOK
    <2> QED BY <1>0, <1>8, <2>1 DEF FindReplicatingNodes, TypeOK
<1>9. CASE NextPivot
    BY <1>0, <1>9 DEF NextPivot, TypeOK
<1>10. CASE PivotHasChunk
    BY <1>0, <1>10 DEF PivotHasChunk, TypeOK
<1>11. CASE PivotLacksChunk
    BY <1>0, <1>11 DEF PivotLacksChunk, TypeOK
<1>12. CASE LookFails
    BY <1>0, <1>12 DEF LookFails, TypeOK
<1>13. CASE CompareCount
    <2>1. results' \in Seq(Result)
        <3>1. CASE results' = results
            BY <3>1 DEF TypeOK
        <3>2. CASE results' = results \o SetToSeq({Passed(n) : n \in replicating})
            <4>1. replicating \in SUBSET cluster /\ replicating # {} /\ IsFiniteSet(replicating)
                BY <1>13, ClusterFinite DEF CompareCount, LookedAt, Designated, TypeOK
            <4>2. SetToSeq({Passed(n) : n \in replicating}) \in Seq(Result)
                BY <4>1, ResultsOfReplicators DEF TypeOK
            <4> QED BY <3>2, <4>2, ConcatProperties DEF TypeOK
        <3> QED BY <1>13, <3>1, <3>2 DEF CompareCount
    <2> QED BY <1>0, <1>13, <2>1 DEF CompareCount, TypeOK
<1>14. CASE Finish
    BY <1>0, <1>14 DEF Finish, CheckVerdict, TypeOK
<1>15. CASE Done
    BY <1>0, <1>15 DEF Done, vars, TypeOK
<1>16. ASSUME NEW n \in Node, Pull(n)
       PROVE  TypeOK'
    BY <1>0, <1>16 DEF Pull, TypeOK
<1>17. ASSUME NEW n \in Node, AskNode(n)
       PROVE  TypeOK'
    BY <1>0, <1>17 DEF AskNode, TypeOK
<1> QED
    BY <1>1, <1>2, <1>3, <1>4, <1>5, <1>6, <1>7, <1>8, <1>9, <1>10, <1>11, <1>12, <1>13,
       <1>14, <1>15, <1>16, <1>17 DEF Next, Check

(* Every step keeps the depths from being overrated.                       *)
LEMMA DepthsKept ==
    ASSUME IInv, Next
    PROVE  DepthKept'
<1>1. depthOf' = depthOf
    <2>1. UNCHANGED optVars
        BY DEF Next, Check, Start, GetOverlays, GetTopologies, NextUploadNode, GetBatch,
               UploadChunk, EndChunks, FindReplicatingNodes, NextPivot, PivotHasChunk,
               PivotLacksChunk, LookFails, AskNode, CompareCount, Finish, Done, Pull, vars
    <2> QED BY <2>1, OptionsStay
<1>2. CASE GetTopologies
    <2>1. depthOf \in [Node -> 0..Bits]
        BY BoundsAssumption DEF IInv, TypeOK
    <2>2. \A n \in Node : depthOf[n] <= depthOf[n] /\ 0 <= depthOf[n]
        BY <2>1, BitsAssumption
    <2> QED BY <1>1, <1>2, <2>2 DEF GetTopologies, DepthKept
<1>3. CASE depth' = depth
    BY <1>1, <1>3 DEF IInv, DepthKept
<1> QED
    BY <1>2, <1>3 DEF Next, Check, Start, GetOverlays, NextUploadNode, GetBatch,
       UploadChunk, EndChunks, FindReplicatingNodes, NextPivot, PivotHasChunk,
       PivotLacksChunk, LookFails, AskNode, CompareCount, Finish, Done, Pull, vars, netVars
-----------------------------------------------------------------------------
(* The peers a chunk falls to only change with the chunk.                  *)
LEMMA DesignatedStay ==
    ASSUME UNCHANGED <<overlays, depth, chunkAddress, peers>>
    PROVE  Designated' = Designated
BY DEF Designated, InDepth

(* What was looked at is not forgotten.                                    *)
LEMMA LookedKept ==
    ASSUME IInv, Next
    PROVE  LookedAt'
<1> USE DEF Fail, Panic, netVars, chunkVars, countVars, lookVars, outVars
<1>1. ASSUME pc' \notin {"verify", "look", "count"}
      PROVE  LookedAt'
    BY <1>1 DEF LookedAt
<1>2. CASE \/ Start \/ GetOverlays \/ GetTopologies \/ NextUploadNode \/ GetBatch
           \/ UploadChunk \/ EndChunks \/ LookFails \/ CompareCount \/ Finish
    <2>1. pc' \notin {"verify", "look", "count"}
        BY <1>2 DEF Start, GetOverlays, GetTopologies, NextUploadNode, GetBatch, UploadChunk,
                    EndChunks, LookFails, CompareCount, Finish, IInv, TypeOK
    <2> QED BY <1>1, <2>1
<1>3. CASE FindReplicatingNodes
    <2>1. CASE pc' # "verify"
        BY <1>1, <1>3, <2>1 DEF FindReplicatingNodes
    <2>2. CASE pc' = "verify"
        <3>1. /\ replicating' = {n \in peers' \cap overlays : InDepth(n)}
              /\ pending' = replicating' /\ replicating' # {}
              /\ UNCHANGED <<overlays, depth, chunkAddress>>
            BY <1>3, <2>2 DEF FindReplicatingNodes
        <3>2. Designated' = {n \in peers' \cap overlays : InDepth(n)}
            BY <3>1 DEF Designated, InDepth
        <3> QED BY <2>2, <3>1, <3>2 DEF LookedAt
    <2> QED BY <2>1, <2>2
<1>4. CASE NextPivot
    <2>1. Designated' = Designated
        BY <1>4, DesignatedStay DEF NextPivot
    <2> QED BY <1>4, <2>1 DEF NextPivot, IInv, LookedAt
<1>5. CASE PivotHasChunk
    <2>1. Designated' = Designated
        BY <1>5, DesignatedStay DEF PivotHasChunk
    <2> QED BY <1>5, <2>1 DEF PivotHasChunk, IInv, LookedAt
<1>6. CASE PivotLacksChunk
    <2>1. Designated' = Designated
        BY <1>6, DesignatedStay DEF PivotLacksChunk
    <2> QED BY <1>6, <2>1 DEF PivotLacksChunk, IInv, LookedAt
<1>7. ASSUME NEW n \in Node, Pull(n)
      PROVE  LookedAt'
    <2>1. Designated' = Designated
        BY <1>7, DesignatedStay DEF Pull
    <2> QED BY <1>7, <2>1 DEF Pull, IInv, LookedAt
<1>8. CASE Done
    BY <1>1, <1>8 DEF Done, vars
<1>9. ASSUME NEW n \in Node, AskNode(n)
      PROVE  LookedAt'
    <2>1. Designated' = Designated
        BY <1>9, DesignatedStay DEF AskNode
    <2> QED BY <1>9, <2>1 DEF AskNode, IInv, LookedAt
<1> QED BY <1>2, <1>3, <1>4, <1>5, <1>6, <1>7, <1>8, <1>9 DEF Next, Check

(* The count stays between the two bounds, while nodes pull.               *)
LEMMA CountKept ==
    ASSUME IInv, Next
    PROVE  Counted'
<1> USE DEF Fail, Panic, netVars, chunkVars, countVars, lookVars, outVars
<1>0. /\ IsFiniteSet(holders) /\ rf \in Nat
      /\ \A S \in SUBSET cluster : IsFiniteSet(S) /\ Cardinality(S) \in Nat
      /\ holders \subseteq cluster /\ heldBefore \subseteq cluster /\ unasked \subseteq cluster
    BY ClusterFinite DEF IInv, TypeOK
<1>1. ASSUME pc' # "count"
      PROVE  Counted'
    BY <1>1 DEF Counted
<1>2. CASE \/ Start \/ GetOverlays \/ GetTopologies \/ NextUploadNode \/ GetBatch
           \/ UploadChunk \/ EndChunks \/ FindReplicatingNodes \/ PivotHasChunk
           \/ PivotLacksChunk \/ LookFails \/ CompareCount \/ Finish \/ Done
    <2>1. pc' # "count"
        BY <1>2 DEF Start, GetOverlays, GetTopologies, NextUploadNode, GetBatch, UploadChunk,
           EndChunks, FindReplicatingNodes, PivotHasChunk, PivotLacksChunk, LookFails,
           CompareCount, Finish, Done, vars
    <2> QED BY <1>1, <2>1
<1>3. CASE NextPivot
    <2>1. CASE pending = {}
        <3>1. /\ unasked' = cluster /\ rf' = 0 /\ heldBefore' = holders /\ holders' = holders
            BY <1>3, <2>1 DEF NextPivot
        <3>2. heldBefore' \ (silent' \cup unasked') = {} /\ holders' \ unasked' = {}
            BY <1>0, <3>1
        <3>3. Cardinality({}) = 0
            BY FS_EmptySet
        <3>4. Cardinality(heldBefore' \ (silent' \cup unasked')) = 0
            BY <3>2, <3>3
        <3>5. Cardinality(holders' \ unasked') = 0
            BY <3>2, <3>3
        <3> QED BY <3>1, <3>4, <3>5 DEF Counted
    <2>2. CASE pending # {}
        BY <1>1, <1>3, <2>2 DEF NextPivot
    <2> QED BY <2>1, <2>2
<1>4. ASSUME NEW n \in Node, AskNode(n)
      PROVE  Counted'
    <2> DEFINE low  == heldBefore \ (silent \cup unasked)
               high == holders \ unasked
    <2>1. /\ pc = "count" /\ n \in unasked /\ unasked' = unasked \ {n}
          /\ heldBefore' = heldBefore /\ holders' = holders
          /\ heldBefore \subseteq holders
          /\ Cardinality(low) <= rf /\ rf <= Cardinality(high)
        BY <1>4 DEF AskNode, IInv, Counted
    <2>2. /\ IsFiniteSet(low) /\ Cardinality(low) \in Nat
          /\ IsFiniteSet(high) /\ Cardinality(high) \in Nat
          /\ n \notin low /\ n \notin high
        BY <1>0, <2>1
    <2>3. IsFiniteSet(high \cup {n}) /\ Cardinality(high \cup {n}) = Cardinality(high) + 1
        BY <2>2, FS_AddElement
    <2>4. IsFiniteSet(low \cup {n}) /\ Cardinality(low \cup {n}) = Cardinality(low) + 1
        BY <2>2, FS_AddElement
    <2>5. CASE silent' = silent /\ n \in holders /\ rf' = rf + 1
        <3>1. holders' \ unasked' = high \cup {n}
            BY <2>1, <2>5
        <3>2. heldBefore' \ (silent' \cup unasked') \in SUBSET (low \cup {n})
            BY <2>1, <2>5
        <3> DEFINE low2 == heldBefore' \ (silent' \cup unasked')
        <3>3. Cardinality(low2) <= Cardinality(low) + 1 /\ Cardinality(low2) \in Nat
            BY <2>4, <3>2, FS_Subset, FS_CardinalityType
        <3>4. Cardinality(holders' \ unasked') = Cardinality(high) + 1
            BY <2>3, <3>1
        <3> HIDE DEF low, high
        <3>5. Cardinality(low2) <= rf' /\ rf' <= Cardinality(high) + 1
            BY <1>0, <2>1, <2>2, <2>5, <3>3
        <3> QED BY <2>1, <3>4, <3>5 DEF Counted
    <2>6. CASE silent' = silent /\ n \notin holders /\ rf' = rf
        <3>1. holders' \ unasked' = high
            BY <2>1, <2>6
        <3>2. heldBefore' \ (silent' \cup unasked') = low
            BY <2>1, <2>6
        <3> HIDE DEF low, high
        <3> QED BY <2>1, <2>6, <3>1, <3>2 DEF Counted
    <2>7. CASE silent' = silent \cup {n} /\ rf' = rf
        <3>1. heldBefore' \ (silent' \cup unasked') = low
            BY <2>1, <2>7
        <3>2. holders' \ unasked' \in SUBSET (high \cup {n}) /\ high \in SUBSET (holders' \ unasked')
            BY <2>1
        <3>3. IsFiniteSet(holders' \ unasked')
            BY <2>3, <3>2, FS_Subset
        <3>4. Cardinality(high) <= Cardinality(holders' \ unasked')
            BY <3>2, <3>3, FS_Subset
        <3>5. Cardinality(holders' \ unasked') \in Nat
            BY <3>3, FS_CardinalityType
        <3> HIDE DEF low, high
        <3>6. rf' <= Cardinality(holders' \ unasked')
            BY <1>0, <2>1, <2>2, <2>7, <3>4, <3>5
        <3> QED BY <2>1, <2>7, <3>1, <3>6 DEF Counted
    <2> QED BY <1>4, <2>5, <2>6, <2>7 DEF AskNode
<1>5. ASSUME NEW n \in Node, Pull(n)
      PROVE  Counted'
    <2>1. CASE pc # "count"
        BY <1>1, <1>5, <2>1 DEF Pull
    <2>2. CASE pc = "count"
        <3>1. /\ holders' = holders \cup {n} /\ n \in cluster
              /\ UNCHANGED <<unasked, rf, silent, heldBefore>>
              /\ heldBefore \subseteq holders
              /\ Cardinality(heldBefore \ (silent \cup unasked)) <= rf
              /\ rf <= Cardinality(holders \ unasked)
            BY <1>5, <2>2 DEF Pull, IInv, Counted
        <3> DEFINE now == holders' \ unasked
        <3>2. now \in SUBSET cluster /\ holders \ unasked \in SUBSET now
            BY <1>0, <3>1
        <3>3. Cardinality(holders \ unasked) <= Cardinality(now)
            BY <1>0, <3>2, FS_Subset
        <3>4. Cardinality(now) \in Nat /\ Cardinality(holders \ unasked) \in Nat
            BY <1>0, <3>2
        <3> HIDE DEF now
        <3>5. rf <= Cardinality(now)
            BY <1>0, <3>1, <3>3, <3>4
        <3> QED BY <3>1, <3>5 DEF Counted, now
    <2> QED BY <2>1, <2>2
<1> QED BY <1>2, <1>3, <1>4, <1>5 DEF Next, Check

(* The check goes on from a chunk only when it is placed, and the nodes    *)
(* stop pulling it then.                                                   *)
LEMMA PlacedKept ==
    ASSUME IInv, Next
    PROVE  ChunkPlaced'
<1> USE DEF Fail, Panic, netVars, chunkVars, countVars, lookVars, outVars
<1>1. ASSUME pc' # "chunk"
      PROVE  ChunkPlaced'
    BY <1>1 DEF ChunkPlaced
<1>2. CASE \/ Start \/ GetOverlays \/ GetTopologies \/ NextUploadNode
           \/ UploadChunk \/ EndChunks \/ FindReplicatingNodes \/ NextPivot
           \/ PivotHasChunk \/ PivotLacksChunk \/ LookFails \/ Finish
           \/ Done \/ \E n \in Node : AskNode(n) \/ Pull(n)
    <2>1. pc' # "chunk"
        BY <1>2 DEF Start, GetOverlays, GetTopologies, NextUploadNode, UploadChunk, EndChunks,
           FindReplicatingNodes, NextPivot, PivotHasChunk, PivotLacksChunk, LookFails, Finish,
           Done, vars, AskNode, Pull
    <2> QED BY <1>1, <2>1
<1>3. CASE GetBatch
    BY <1>3 DEF GetBatch, ChunkPlaced
<1>4. CASE CompareCount
    <2>1. SUFFICES ASSUME pc' = "chunk"
                   PROVE  Designated' \subseteq holders' /\ Cardinality(holders') >= threshold'
        BY DEF ChunkPlaced
    <2>2. /\ ~(rf < threshold) /\ pc = "count" /\ unasked = {}
          /\ UNCHANGED <<optVars, overlays, depth, chunkAddress, peers, holders>>
        BY <1>4, <2>1 DEF CompareCount
    <2>3. Designated' = Designated /\ threshold' = threshold
        BY <2>2, DesignatedStay, OptionsStay
    <2>4. Designated \subseteq holders
        BY <2>2 DEF IInv, LookedAt
    <2>5. Cardinality(holders) >= threshold
        <3>1. Cardinality(holders) \in Nat /\ rf \in Nat /\ threshold \in Nat
            BY ClusterFinite DEF IInv, TypeOK
        <3>2. holders \ unasked = holders
            BY <2>2
        <3>3. rf <= Cardinality(holders)
            BY <2>2, <3>2 DEF IInv, Counted
        <3> QED BY <2>2, <3>1, <3>3
    <2> QED BY <2>2, <2>3, <2>4, <2>5
<1> QED BY <1>2, <1>3, <1>4 DEF Next, Check

(* A verdict ends the check, and nothing follows it.                         *)
LEMMA EndingKept ==
    ASSUME IInv, Next
    PROVE  Ending'
<1> USE DEF Fail, Panic, netVars, chunkVars, countVars, lookVars, outVars
<1>1. CASE \/ Start \/ GetOverlays \/ GetTopologies \/ NextUploadNode \/ GetBatch
           \/ UploadChunk \/ EndChunks \/ FindReplicatingNodes \/ NextPivot
           \/ PivotHasChunk \/ LookFails \/ CompareCount
           \/ \E n \in Node : AskNode(n)
    <2>1. /\ verdict = "none" /\ verdict' \in {"none", "error"}
          /\ verdict' = "none" <=> pc' # "done"
        BY <1>1 DEF Start, GetOverlays, GetTopologies, NextUploadNode, GetBatch, UploadChunk,
           EndChunks, FindReplicatingNodes, NextPivot, PivotHasChunk, LookFails,
           CompareCount, AskNode, IInv, Ending
    <2> QED BY <2>1 DEF Ending
<1>2. CASE PivotLacksChunk
    <2>1. /\ pc = "look" /\ pivot \notin holders
          /\ UNCHANGED <<overlays, uploader, pivot, holders>>
          /\ \/ pc' = "done" /\ verdict' = "panic" /\ uploader \notin overlays
             \/ pc' = "done" /\ verdict' = "error"
             \/ pc' = pc /\ verdict' = verdict
        BY <1>2 DEF PivotLacksChunk
    <2> QED BY <2>1 DEF IInv, Ending
<1>3. CASE Finish
    <2>1. \A i \in DOMAIN results : results[i].passed
        <3>1. \A r \in Result : r.passed
            BY DEF Result
        <3> QED BY <3>1 DEF IInv, TypeOK
    <2>2. verdict' = "passed" /\ pc' = "done"
        BY <1>3, <2>1 DEF Finish, CheckVerdict
    <2> QED BY <2>2 DEF Ending
<1>4. CASE Done
    BY <1>4 DEF Done, vars, IInv, Ending
<1>5. ASSUME NEW n \in Node, Pull(n)
      PROVE  Ending'
    BY <1>5 DEF Pull, IInv, Ending
<1> QED BY <1>1, <1>2, <1>3, <1>4, <1>5 DEF Next, Check
-----------------------------------------------------------------------------
(* One more upload node owes its chunks.                                   *)
LEMMA OwedGrows ==
    ASSUME TypeOK, NEW k \in Nat
    PROVE  /\ Owed(k) \in Nat
           /\ Owed(k + 1) = Owed(k) + chunksPerNode
BY DEF TypeOK, Owed

(* The results keep up with the chunks.                                    *)
LEMMA OwedKept ==
    ASSUME IInv, Next
    PROVE  ResultsOwed'
<1> USE DEF Fail, Panic, netVars, chunkVars, countVars, lookVars, outVars, OnUploader, OnChunk
<1>1. /\ uploader \in Nat /\ chunk \in Nat /\ chunksPerNode \in Nat /\ Len(results) \in Nat
      /\ UploadCount \in Nat \ {0}
    BY ClusterFinite, UploadCountPositive DEF IInv, TypeOK
<1>2. Owed(0) = 0
    BY <1>1 DEF Owed
<1>3. ASSUME UNCHANGED optVars
      PROVE  /\ \A k : Owed(k)' = Owed(k)
             /\ chunksPerNode' = chunksPerNode /\ UploadCount' = UploadCount
    BY <1>3, OptionsStay
<1>4. ASSUME pc' = "done", verdict' # "passed"
      PROVE  ResultsOwed'
    BY <1>4 DEF ResultsOwed
<1>5. ASSUME verdict' # "passed", pc' \in {"overlays", "topologies"}, uploader' = uploader,
             uploader = 0
      PROVE  ResultsOwed'
    BY <1>5 DEF ResultsOwed
<1>6. verdict # "passed" \/ pc = "done"
    BY DEF IInv, Ending
<1>7. CASE Start
    BY <1>4, <1>5, <1>6, <1>7 DEF Start, IInv, ResultsOwed
<1>8. CASE GetOverlays
    BY <1>4, <1>5, <1>6, <1>8 DEF GetOverlays, IInv, ResultsOwed
<1>9. CASE GetTopologies
    <2>1. pc' = "node" /\ uploader' = 0 /\ results' = results /\ verdict' # "passed"
          /\ UNCHANGED optVars
        BY <1>6, <1>9 DEF GetTopologies, IInv, ResultsOwed
    <2>2. Owed(uploader)' = 0
        BY <1>2, <1>3, <2>1 DEF Owed
    <2> QED BY <1>1, <2>1, <2>2 DEF ResultsOwed
<1>10. CASE NextUploadNode
    <2>1. /\ pc = "node" /\ results' = results /\ verdict' = verdict /\ verdict # "passed"
          /\ UNCHANGED optVars /\ Len(results) >= Owed(uploader)
        BY <1>6, <1>10 DEF NextUploadNode, IInv, ResultsOwed
    <2>2. CASE uploader < UploadCount
        <3>1. pc' = "batch" /\ uploader' = uploader + 1 /\ uploader' - 1 = uploader
            BY <1>1, <1>10, <2>2 DEF NextUploadNode
        <3>2. Len(results') >= Owed(uploader - 1)'
            BY <2>1, <3>1 DEF Owed, optVars
        <3> QED BY <1>1, <2>1, <3>1, <3>2 DEF ResultsOwed
    <2>3. CASE ~(uploader < UploadCount)
        <3>1. pc' = "finish" /\ uploader' = uploader
            BY <1>10, <2>3 DEF NextUploadNode
        <3>2. uploader = UploadCount
            BY <1>1, <2>3 DEF IInv, TypeOK
        <3>3. Owed(uploader)' = Owed(uploader) /\ UploadCount' = UploadCount
            BY <1>3, <2>1, <3>1 DEF Owed
        <3> QED BY <2>1, <3>1, <3>2, <3>3 DEF ResultsOwed
    <2> QED BY <2>2, <2>3
<1>11. CASE GetBatch
    <2>1. /\ pc = "batch" /\ results' = results /\ uploader' = uploader /\ chunk' = 0
          /\ UNCHANGED optVars /\ verdict # "passed"
          /\ \/ pc' = "done" /\ verdict' = "error"
             \/ pc' = "chunk" /\ verdict' = verdict
          /\ uploader > 0 /\ Len(results) >= Owed(uploader - 1)
        BY <1>6, <1>11 DEF GetBatch, IInv, ResultsOwed
    <2>2. Owed(uploader - 1)' = Owed(uploader - 1) /\ Owed(uploader - 1) \in Nat
        BY <1>1, <2>1, OwedGrows DEF IInv, Owed, optVars
    <2> QED BY <1>1, <1>4, <2>1, <2>2 DEF ResultsOwed
<1>12. CASE UploadChunk
    <2>1. /\ pc = "chunk" /\ results' = results /\ uploader' = uploader /\ chunk' = chunk + 1
          /\ UNCHANGED optVars /\ verdict # "passed"
          /\ \/ pc' = "done" /\ verdict' = "error"
             \/ pc' = "closest" /\ verdict' = verdict
          /\ uploader > 0 /\ Len(results) >= Owed(uploader - 1) + chunk
        BY <1>6, <1>12 DEF UploadChunk, IInv, ResultsOwed
    <2>2. Owed(uploader - 1)' = Owed(uploader - 1) /\ Owed(uploader - 1) \in Nat
        BY <1>1, <2>1, OwedGrows DEF IInv, Owed, optVars
    <2> QED BY <1>1, <1>4, <2>1, <2>2 DEF ResultsOwed
<1>13. CASE EndChunks
    <2>1. /\ pc = "chunk" /\ results' = results /\ uploader' = uploader
          /\ chunk = chunksPerNode
          /\ UNCHANGED optVars /\ verdict # "passed" /\ verdict' = verdict /\ pc' = "node"
          /\ uploader > 0 /\ Len(results) >= Owed(uploader - 1) + chunk
        BY <1>6, <1>13 DEF EndChunks, IInv, ResultsOwed
    <2>2. Owed(uploader)' = Owed(uploader) /\ Owed(uploader) = Owed(uploader - 1) + chunksPerNode
        <3>1. uploader - 1 \in Nat /\ (uploader - 1) + 1 = uploader
            BY <1>1, <2>1
        <3> QED BY <2>1, <3>1, OwedGrows DEF IInv, Owed, optVars
    <2> QED BY <2>1, <2>2 DEF ResultsOwed
<1>14. CASE \/ FindReplicatingNodes \/ NextPivot \/ PivotHasChunk \/ PivotLacksChunk
            \/ LookFails \/ \E n \in Node : AskNode(n) \/ Pull(n)
    <2>1. /\ OnChunk /\ UNCHANGED <<uploader, chunk, results, optVars>>
          /\ \/ pc' = "done" /\ verdict' # "passed"
             \/ OnChunk' /\ verdict' = verdict
        BY <1>14 DEF FindReplicatingNodes, NextPivot, PivotHasChunk, PivotLacksChunk,
                     LookFails, AskNode, Pull
    <2>2. /\ uploader > 0 /\ chunk > 0 /\ Len(results) >= Owed(uploader - 1) + (chunk - 1)
          /\ verdict # "passed"
        BY <1>6, <2>1 DEF IInv, ResultsOwed
    <2>3. Owed(uploader - 1)' = Owed(uploader - 1)
        BY <2>1 DEF Owed, optVars
    <2> QED BY <1>4, <2>1, <2>2, <2>3 DEF ResultsOwed
<1>15. CASE CompareCount
    <2>1. /\ pc = "count" /\ UNCHANGED <<uploader, chunk, optVars>>
          /\ uploader > 0 /\ chunk > 0 /\ Len(results) >= Owed(uploader - 1) + (chunk - 1)
          /\ verdict # "passed"
          /\ \/ pc' = "done" /\ verdict' = "error"
             \/ /\ pc' = "chunk" /\ verdict' = verdict
                /\ results' = results \o SetToSeq({Passed(n) : n \in replicating})
        BY <1>6, <1>15 DEF CompareCount, IInv, ResultsOwed
    <2>2. CASE pc' = "done"
        BY <1>4, <2>1, <2>2
    <2>3. CASE pc' = "chunk"
        <3>1. replicating \in SUBSET cluster /\ replicating # {}
            BY <2>1 DEF IInv, LookedAt, Designated, TypeOK
        <3>2. IsFiniteSet(replicating) /\ replicating \in SUBSET Node
            BY <3>1, ClusterFinite DEF IInv
        <3> DEFINE s == SetToSeq({Passed(n) : n \in replicating})
        <3>3. s \in Seq(Result) /\ Len(s) >= 1 /\ Len(s) \in Nat
            BY <3>1, <3>2, ResultsOfReplicators
        <3>4. results' = results \o s
            BY <2>1, <2>3
        <3> HIDE DEF s
        <3>5. Len(results') = Len(results) + Len(s)
            BY <3>3, <3>4, ConcatProperties DEF IInv, TypeOK
        <3>6. Owed(uploader - 1)' = Owed(uploader - 1) /\ Owed(uploader - 1) \in Nat
            BY <1>1, <2>1, OwedGrows DEF IInv, Owed, optVars
        <3>7. Len(results') >= Owed(uploader - 1) + chunk
            BY <1>1, <2>1, <3>3, <3>5, <3>6
        <3> QED BY <2>1, <2>3, <3>6, <3>7 DEF ResultsOwed
    <2> QED BY <2>1, <2>2, <2>3
<1>16. CASE Finish
    <2>1. /\ pc' = "done" /\ UNCHANGED <<uploader, results, optVars>>
          /\ uploader = UploadCount /\ Len(results) >= Owed(uploader)
        BY <1>16 DEF Finish, IInv, ResultsOwed
    <2>2. Owed(uploader)' = Owed(uploader) /\ UploadCount' = UploadCount
        BY <1>3, <2>1 DEF Owed, optVars
    <2> QED BY <2>1, <2>2 DEF ResultsOwed
<1>17. CASE Done
    <2>1. pc' = "done" /\ UNCHANGED <<uploader, results, optVars, verdict>>
        BY <1>17 DEF Done, vars
    <2>2. Owed(uploader)' = Owed(uploader) /\ UploadCount' = UploadCount
        BY <1>3, <2>1 DEF Owed, optVars
    <2> QED BY <2>1, <2>2 DEF IInv, ResultsOwed
<1> QED
    BY <1>7, <1>8, <1>9, <1>10, <1>11, <1>12, <1>13, <1>14, <1>15, <1>16, <1>17
    DEF Next, Check
-----------------------------------------------------------------------------
(* Every step keeps the invariant, also one that changes nothing.          *)
LEMMA StepInvariant == IInv /\ [Next]_vars => IInv'
<1> SUFFICES ASSUME IInv, [Next]_vars PROVE IInv'
    OBVIOUS
<1>1. CASE Next
    BY <1>1, TypesKept, DepthsKept, LookedKept, CountKept, PlacedKept, EndingKept, OwedKept DEF IInv
<1>2. CASE UNCHANGED vars
    <2> USE <1>2 DEF vars, optVars, netVars, chunkVars, countVars, lookVars, outVars, OnChunk, OnUploader
    <2>1. UploadCount' = UploadCount /\ \A k : Owed(k)' = Owed(k)
        BY OptionsStay
    <2>2. Designated' = Designated
        BY DesignatedStay
    <2>3. TypeOK'
        BY <2>1 DEF IInv, TypeOK
    <2>4. LookedAt' /\ Counted' /\ ChunkPlaced' /\ DepthKept'
        BY <2>2 DEF IInv, LookedAt, Counted, ChunkPlaced, DepthKept
    <2>5. ResultsOwed'
        BY <2>1 DEF IInv, ResultsOwed, Owed
    <2>6. Ending'
        BY DEF IInv, Ending
    <2> QED BY <2>3, <2>4, <2>5, <2>6 DEF IInv
<1> QED BY <1>1, <1>2

(* Types, what is known of the chunk being looked at, and the results owed *)
(* so far hold in every state.                                             *)
THEOREM Invariant == SafetySpec => []IInv
<1> QED BY InitInvariant, StepInvariant, PTL DEF SafetySpec

(* When the check goes on to another chunk, every peer of the closest node *)
(* in whose neighbourhood the chunk lies holds it, also one that did not   *)
(* tell its depth (pullsync.rs:223-330, 541-601).                          *)
THEOREM NeighbourhoodHolds == SafetySpec => []NeighbourhoodHoldsChunk
<1>1. IInv => NeighbourhoodHoldsChunk
    <2> SUFFICES ASSUME IInv, pc = "chunk", chunk > 0, NEW n \in peers \cap overlays,
                        Proximity(chunkAddress, OverlayOf[n]) >= depthOf[n]
                 PROVE  n \in holders
        BY DEF NeighbourhoodHoldsChunk
    <2>1. n \in Node /\ depth[n] <= depthOf[n]
        BY ClusterFinite DEF IInv, TypeOK, DepthKept
    <2>2. depth[n] \in Nat /\ depthOf[n] \in Nat
        BY <2>1, BoundsAssumption, BitsAssumption DEF IInv, TypeOK
    <2>3. Proximity(chunkAddress, OverlayOf[n]) \in Nat
        BY ProximityBounded, BitsAssumption
    <2>4. InDepth(n)
        BY <2>1, <2>2, <2>3 DEF InDepth
    <2> QED BY <2>4 DEF IInv, ChunkPlaced, Designated
<1> QED BY <1>1, Invariant, PTL

(* The count, made of answers that belong to different moments, is no less *)
(* than the nodes that held the chunk when it began and answered, and no   *)
(* more than those that hold it when it ends (pullsync.rs:340-352).        *)
THEOREM CountIsRight == SafetySpec => []CountIsBetween
<1>1. IInv => CountIsBetween
    <2> SUFFICES ASSUME IInv, pc = "count", unasked = {}
                 PROVE  /\ Cardinality(heldBefore \ silent) <= rf
                        /\ rf <= Cardinality(holders)
        BY DEF CountIsBetween
    <2>1. heldBefore \ (silent \cup unasked) = heldBefore \ silent /\ holders \ unasked = holders
        OBVIOUS
    <2> QED BY <2>1 DEF IInv, Counted
<1> QED BY <1>1, Invariant, PTL

(* So many nodes hold the chunk as the threshold asks, because of what the *)
(* count tells, whoever failed to answer and whoever pulled meanwhile      *)
(* (global_replication_factor, pullsync.rs:334-355, and 604-611).          *)
THEOREM Replicated == SafetySpec => []ReplicatedToThreshold
<1>1. IInv => ReplicatedToThreshold
    BY DEF IInv, ChunkPlaced, ReplicatedToThreshold
<1> QED BY <1>1, Invariant, PTL

(* Every chunk of every upload node has left a result when the check       *)
(* passes, and the check never fails with a report: it passes or ends in   *)
(* an error (pullsync.rs:527-533, 616-623).                                *)
THEOREM EveryChunkLeaves == SafetySpec => []EveryChunkLeavesAResult
<1>1. IInv => EveryChunkLeavesAResult
    BY DEF IInv, Ending, ResultsOwed, Owed, EveryChunkLeavesAResult
<1> QED BY <1>1, Invariant, PTL
=============================================================================
