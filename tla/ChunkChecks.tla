---------------------------- MODULE ChunkChecks ----------------------------
(***************************************************************************)
(* The checks that upload single chunks and look for them again:           *)
(*   - pushsync, src/checks/pushsync.rs, looks for each chunk on the full  *)
(*     node whose overlay is closest to it;                                *)
(*   - retrieval, src/checks/retrieval.rs, downloads it from the full node *)
(*     after the one it was uploaded to;                                   *)
(*   - soc, src/checks/soc.rs, uploads one single owner chunk to one node  *)
(*     and downloads it from there.                                        *)
(* The first two share a skeleton: upload nodes one after the other, a     *)
(* batch for each, its chunks one after the other.  Every request may fail.*)
(*                                                                         *)
(* Nodes are numbered in the order of ctx.nodes.  A chunk's address is     *)
(* drawn at random.                                                        *)
(***************************************************************************)
EXTENDS CheckReport, Overlay

CONSTANTS
    MaxNodes,         \* bound: the largest cluster considered
    OverlayOf,        \* the nodes' addresses
    UploadRetries,    \* DEFAULT_UPLOAD_RETRIES of pushsync
    LookRetries,      \* DEFAULT_RETRIES of pushsync, which looks for
                      \* `retries` where no configuration can put it
    MaxChunks,        \* bound: the highest chunks_per_node considered
    Nobody

ASSUME MaxNodesAssumption == MaxNodes \in Nat

Node == 1..MaxNodes

ASSUME RetriesAssumption ==
    /\ UploadRetries \in Nat \ {0}
    /\ LookRetries \in Nat
    /\ MaxChunks \in Nat
    /\ Nobody \notin Node

ASSUME OverlayAssumption ==
    /\ OverlayOf \in [Node -> Address]
    /\ \A m, n \in Node : m # n => OverlayOf[m] # OverlayOf[n]

VARIABLES
    check,                  \* which of the three checks runs
    cluster, full, boot,    \* the nodes, and those of types full and boot
    chunksPerNode, uploadNodeCount,   \* options
    pc,
    overlays,               \* full nodes whose overlay address is known
    unread,                 \* full nodes not asked for it yet
    uploader,               \* upload_idx + 1
    chunk, attempt,
    target,                 \* the node on which the chunk is looked for
    totalChunks,
    foundChunks,            \* synced_chunks, retrieved_chunks
    mismatches, results, verdict,
    batchless,              \* observer: upload nodes that got no batch
    fetched                 \* observer: which chunk was found where

optVars == <<check, cluster, full, boot, chunksPerNode, uploadNodeCount>>
readVars == <<overlays, unread>>
placeVars == <<uploader, chunk, attempt, target>>
countVars == <<totalChunks, foundChunks, mismatches>>
seenVars == <<batchless, fetched>>
vars == <<optVars, pc, readVars, placeVars, countVars, results, verdict, seenVars>>

(* Only soc looks at nodes of type boot; it has neither of the options.    *)
Init ==
    /\ check \in {"pushsync", "retrieval", "soc"}
    /\ cluster \in {1..n : n \in Node}
    /\ full \in SUBSET cluster
    /\ boot \in IF check = "soc" THEN SUBSET (cluster \ full) ELSE {{}}
    /\ chunksPerNode \in IF check = "soc" THEN {1} ELSE 0..MaxChunks
    /\ uploadNodeCount \in IF check = "soc" THEN {1} ELSE 0..Cardinality(full)
    /\ pc = "start"
    /\ overlays = {}
    /\ unread = full
    /\ uploader = 0
    /\ chunk = 0
    /\ attempt = 0
    /\ target = Nobody
    /\ totalChunks = 0
    /\ foundChunks = 0
    /\ mismatches = 0
    /\ results = <<>>
    /\ verdict = "none"
    /\ batchless = {}
    /\ fetched = {}

UploadCount == Max({1, Min({uploadNodeCount, Cardinality(full)})})

(* full_nodes[i - 1]                                                       *)
FullNode(i) == CHOOSE n \in full : Cardinality({m \in full : m <= n}) = i

UploadNode == FullNode(uploader)
-----------------------------------------------------------------------------
Fail == pc' = "done" /\ verdict' = "error"

Report(r) == results' = Append(results, r)

(* The chunk is done with, one way or the other.                           *)
ChunkOver(r) == pc' = "chunk" /\ Report(r)

Start ==
    /\ pc = "start"
    /\ check = "pushsync"
    /\ IF Cardinality(cluster) < 2 THEN Fail ELSE pc' = "overlays" /\ UNCHANGED verdict
    /\ UNCHANGED <<optVars, readVars, placeVars, countVars, results, seenVars>>

StartRetrieval ==
    /\ pc = "start"
    /\ check = "retrieval"
    /\ IF Cardinality(cluster) < 2 \/ full = {}
       THEN Fail
       ELSE pc' = "node" /\ UNCHANGED verdict
    /\ UNCHANGED <<optVars, readVars, placeVars, countVars, results, seenVars>>

(* A node that does not answer, or not with 32 bytes, is left out.         *)
GetOverlay ==
    /\ pc = "overlays"
    /\ unread # {}
    /\ LET n == Min(unread)
       IN  unread' = unread \ {n} /\ overlays' \in {overlays, overlays \cup {n}}
    /\ UNCHANGED <<optVars, pc, placeVars, countVars, results, verdict, seenVars>>

EndOverlays ==
    /\ pc = "overlays"
    /\ unread = {}
    /\ IF overlays = {} THEN Fail ELSE pc' = "node" /\ UNCHANGED verdict
    /\ UNCHANGED <<optVars, readVars, placeVars, countVars, results, seenVars>>
-----------------------------------------------------------------------------
(* The loops of pushsync and retrieval *)

NextUploadNode ==
    /\ pc = "node"
    /\ uploader < UploadCount
    /\ check = "pushsync"
    /\ pc' = "batch"
    /\ uploader' = uploader + 1
    /\ UNCHANGED <<optVars, readVars, chunk, attempt, target, countVars, results,
                   verdict, seenVars>>

(* Mutant: the chunk is downloaded from the node it was uploaded to.       *)
NextNodePairSame ==
    /\ pc = "node"
    /\ uploader < UploadCount
    /\ check = "retrieval"
    /\ pc' = "batch"
    /\ uploader' = uploader + 1
    /\ target' = FullNode((uploader % Cardinality(full)) + 1)
    /\ UNCHANGED <<optVars, readVars, chunk, attempt, countVars, results, verdict, seenVars>>

(* retrieval downloads from the full node after the uploader, round and    *)
(* round.                                                                  *)
NextNodePair ==
    /\ pc = "node"
    /\ uploader < UploadCount
    /\ check = "retrieval"
    /\ pc' = "batch"
    /\ uploader' = uploader + 1
    /\ target' = FullNode(((uploader + 1) % Cardinality(full)) + 1)
    /\ UNCHANGED <<optVars, readVars, chunk, attempt, countVars, results, verdict, seenVars>>

(* Mutant: an upload node without a batch is skipped in silence.           *)
GetBatchSkips ==
    /\ pc = "batch"
    /\ check # "soc"
    /\ \/ /\ pc' = "chunk"
          /\ chunk' = 0
          /\ UNCHANGED batchless
       \/ /\ pc' = "node"
          /\ batchless' = batchless \cup {UploadNode}
          /\ UNCHANGED chunk
    /\ UNCHANGED <<optVars, readVars, uploader, attempt, target, countVars, results,
                   verdict, fetched>>

(* Without a batch an upload node has one failed result, and none of its   *)
(* chunks is counted.                                                      *)
GetBatch ==
    /\ pc = "batch"
    /\ check # "soc"
    /\ \/ /\ pc' = "chunk"
          /\ chunk' = 0
          /\ UNCHANGED <<results, batchless>>
       \/ /\ pc' = "node"
          /\ Report(Failed(UploadNode))
          /\ batchless' = batchless \cup {UploadNode}
          /\ UNCHANGED chunk
    /\ UNCHANGED <<optVars, readVars, uploader, attempt, target, countVars, verdict, fetched>>

(* The chunk is counted before it is made, which can fail.                 *)
NextChunk ==
    /\ pc = "chunk"
    /\ chunk < chunksPerNode
    /\ chunk' = chunk + 1
    /\ totalChunks' = totalChunks + 1
    /\ attempt' = 0
    /\ \/ pc' = "upload" /\ UNCHANGED results
       \/ ChunkOver(Failed(UploadNode))
    /\ UNCHANGED <<optVars, readVars, uploader, target, foundChunks, mismatches,
                   verdict, seenVars>>

EndChunks ==
    /\ pc = "chunk"
    /\ chunk = chunksPerNode
    /\ pc' = "node"
    /\ UNCHANGED <<optVars, readVars, placeVars, countVars, results, verdict, seenVars>>
-----------------------------------------------------------------------------
(* A chunk of pushsync *)

UploadSucceeds ==
    /\ pc = "upload"
    /\ check = "pushsync"
    /\ pc' = "look"
    /\ attempt' = 0
    /\ \E address \in Address :
          target' = FindClosestNode(address, OverlayOf, overlays)
    /\ UNCHANGED <<optVars, readVars, uploader, chunk, countVars, results, verdict, seenVars>>

UploadFails ==
    /\ pc = "upload"
    /\ check = "pushsync"
    /\ attempt' = attempt + 1
    /\ IF attempt' = UploadRetries
       THEN ChunkOver(Failed(UploadNode))
       ELSE UNCHANGED <<pc, results>>
    /\ UNCHANGED <<optVars, readVars, uploader, chunk, target, countVars, verdict, seenVars>>

Found ==
    /\ ChunkOver(Passed(target))
    /\ foundChunks' = foundChunks + 1
    /\ fetched' = fetched \cup {<<UploadNode, chunk, target>>}
    /\ UNCHANGED <<optVars, readVars, placeVars, totalChunks, mismatches, verdict, batchless>>

ChunkFound == pc = "look" /\ check = "pushsync" /\ Found

(* The chunk is not there yet, or the node does not answer.                *)
ChunkMissing ==
    /\ pc = "look"
    /\ check = "pushsync"
    /\ attempt' = attempt + 1
    /\ IF attempt' > LookRetries
       THEN ChunkOver(Failed(target))
       ELSE UNCHANGED <<pc, results>>
    /\ UNCHANGED <<optVars, readVars, uploader, chunk, target, countVars, verdict, seenVars>>
-----------------------------------------------------------------------------
(* A chunk of retrieval: one upload, reported either way, and one download *)

UploadReported ==
    /\ pc = "upload"
    /\ check = "retrieval"
    /\ \/ pc' = "look" /\ Report(Passed(UploadNode))
       \/ ChunkOver(Failed(UploadNode))
    /\ UNCHANGED <<optVars, readVars, placeVars, countVars, verdict, seenVars>>

DownloadMatches == pc = "look" /\ check = "retrieval" /\ Found

DownloadDiffers ==
    /\ pc = "look"
    /\ check = "retrieval"
    /\ ChunkOver(Failed(target))
    /\ mismatches' = mismatches + 1
    /\ UNCHANGED <<optVars, readVars, placeVars, totalChunks, foundChunks, verdict, seenVars>>

DownloadFails ==
    /\ pc = "look"
    /\ check = "retrieval"
    /\ ChunkOver(Failed(target))
    /\ UNCHANGED <<optVars, readVars, placeVars, countVars, verdict, seenVars>>
-----------------------------------------------------------------------------
(* soc: one chunk, from one node and back *)

(* Any full-capable node will do; a batch may be given as an option.       *)
StartSoc ==
    /\ pc = "start"
    /\ check = "soc"
    /\ \/ /\ full \cup boot = {}
          /\ Fail
          /\ UNCHANGED target
       \/ /\ target' \in full \cup boot
          /\ pc' \in {"batch", "make"}
          /\ UNCHANGED verdict
    /\ UNCHANGED <<optVars, readVars, uploader, chunk, attempt, countVars, results, seenVars>>

GetSocBatch ==
    /\ pc = "batch"
    /\ check = "soc"
    /\ \/ pc' = "make" /\ UNCHANGED verdict
       \/ Fail
    /\ UNCHANGED <<optVars, readVars, placeVars, countVars, results, seenVars>>

(* The content chunk, its address and its signature: CheckError::Internal  *)
(* if one cannot be made.                                                  *)
MakeSoc ==
    /\ pc = "make"
    /\ \/ pc' = "uploadSoc" /\ UNCHANGED verdict
       \/ Fail
    /\ UNCHANGED <<optVars, readVars, placeVars, countVars, results, seenVars>>

UploadSoc ==
    /\ pc = "uploadSoc"
    /\ \/ pc' = "downloadSoc" /\ UNCHANGED results
       \/ pc' = "finish" /\ Report(Failed(target))
    /\ UNCHANGED <<optVars, readVars, placeVars, countVars, verdict, seenVars>>

(* The download fails, brings other data, or what was uploaded.            *)
DownloadSoc ==
    /\ pc = "downloadSoc"
    /\ pc' = "finish"
    /\ \/ Report(Failed(target)) /\ UNCHANGED fetched
       \/ Report(Passed(target)) /\ fetched' = {<<target, 1, target>>}
    /\ UNCHANGED <<optVars, readVars, placeVars, countVars, verdict, batchless>>
-----------------------------------------------------------------------------
(* When all upload nodes are through.                                      *)
EndUploads ==
    /\ pc = "node"
    /\ uploader = UploadCount
    /\ pc' = "finish"
    /\ UNCHANGED <<optVars, readVars, placeVars, countVars, results, verdict, seenVars>>

(* Mutant: the verdict is drawn from the counters.                         *)
FinishByCounters ==
    /\ pc = "finish"
    /\ pc' = "done"
    /\ verdict' = IF foundChunks = totalChunks THEN "passed" ELSE "failed"
    /\ UNCHANGED <<optVars, readVars, placeVars, countVars, results, seenVars>>

(* The flags `passed` of pushsync.rs:468 and retrieval.rs:331 are only     *)
(* logged.                                                                 *)
Finish ==
    /\ pc = "finish"
    /\ pc' = "done"
    /\ verdict' = CheckVerdict(results)
    /\ UNCHANGED <<optVars, readVars, placeVars, countVars, results, seenVars>>

Done == pc = "done" /\ UNCHANGED vars
-----------------------------------------------------------------------------
Pushsync ==
    \/ Start \/ GetOverlay \/ EndOverlays \/ NextUploadNode
    \/ UploadSucceeds \/ UploadFails \/ ChunkFound \/ ChunkMissing

Retrieval ==
    \/ StartRetrieval \/ NextNodePair
    \/ UploadReported \/ DownloadMatches \/ DownloadDiffers \/ DownloadFails

Soc == StartSoc \/ GetSocBatch \/ MakeSoc \/ UploadSoc \/ DownloadSoc

Next ==
    \/ Pushsync \/ Retrieval \/ Soc
    \/ GetBatch \/ NextChunk \/ EndChunks \/ EndUploads \/ Finish \/ Done

Spec == Init /\ [][Next]_vars
-----------------------------------------------------------------------------
Count(flag) == Cardinality({i \in DOMAIN results : results[i].passed = flag})

(* When pushsync or retrieval has gone through its upload nodes, each of   *)
(* them that had a batch has had all its chunks counted, and each chunk    *)
(* that was not found and each node without a batch has left exactly one   *)
(* failed result, wherever the loops were left early; each found chunk has *)
(* left its passed ones.                                                   *)
EveryChunkReported ==
    (check # "soc" /\ pc \in {"node", "finish", "done"} /\ verdict # "error") =>
        /\ totalChunks = chunksPerNode * (uploader - Cardinality(batchless))
        /\ Count(FALSE) = totalChunks - foundChunks + Cardinality(batchless)
        /\ Count(TRUE) \in IF check = "retrieval"
                           THEN 2 * foundChunks .. totalChunks + foundChunks
                           ELSE {foundChunks}

(* The counters in the message and the verdict cannot contradict each      *)
(* other: pushsync and retrieval pass exactly when every counted chunk was *)
(* found and every upload node had a batch (pushsync.rs:467-483,           *)
(* retrieval.rs:331-347).                                                  *)
VerdictMatchesMessage ==
    (check # "soc" /\ verdict \in {"passed", "failed"}) =>
        /\ verdict = "passed" <=> foundChunks = totalChunks /\ batchless = {}
        /\ foundChunks + mismatches <= totalChunks

(* A pass is worth what the check is there for: every chunk of every       *)
(* upload node was found, by retrieval on another node whenever there is   *)
(* another full node ("Download the chunk from a different node",          *)
(* retrieval.rs:10), by pushsync on a node whose address is known.         *)
PassMeansFetched ==
    verdict = "passed" =>
        \A u \in IF check = "soc" THEN {target} ELSE {FullNode(i) : i \in 1..UploadCount} :
            \A c \in 1..chunksPerNode :
                \E n \in Node :
                    /\ <<u, c, n>> \in fetched
                    /\ check = "pushsync" => n \in overlays
                    /\ check = "retrieval" /\ Cardinality(full) > 1 => n # u
=============================================================================
