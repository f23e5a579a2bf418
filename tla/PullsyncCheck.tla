--------------------------- MODULE PullsyncCheck ---------------------------
(***************************************************************************)
(* The pullsync check, src/checks/pullsync.rs: upload a chunk, ask the     *)
(* node closest to it for its peers, and wait until every peer in whose    *)
(* neighbourhood the chunk lies holds it; then count how many nodes hold   *)
(* it, by asking each in turn.  Meanwhile the nodes pull the chunk from    *)
(* each other; what a node holds it keeps, as the batch of the check pays  *)
(* for it.  Whatever fails ends the check with an error.                   *)
(*                                                                         *)
(* Nodes are numbered in the order of their names, which is the order of   *)
(* sorted_nodes.                                                           *)
(***************************************************************************)
EXTENDS CheckReport, SequencesExt, Overlay

CONSTANTS
    MaxNodes,        \* bound: the largest cluster considered
    OverlayOf,       \* the nodes' addresses
    RetryAttempts,   \* RETRY_ATTEMPTS
    Depths,          \* the nodes' storage depths considered
    MaxChunks,       \* bound: the highest chunks_per_node considered
    MaxUploaders,    \* bound: the highest upload_node_count considered
    Thresholds,      \* the replication_factor_threshold values considered
    NoNode

Node == 1..MaxNodes

ASSUME OverlayAssumption ==
    /\ OverlayOf \in [Node -> Address]
    /\ \A m, n \in Node : m # n => OverlayOf[m] # OverlayOf[n]
ASSUME BoundsAssumption ==
    /\ MaxNodes \in Nat /\ MaxChunks \in Nat /\ MaxUploaders \in Nat
    /\ Depths \subseteq [Node -> 0..Bits]
    /\ RetryAttempts \in Nat \ {0}
    /\ Thresholds \subseteq Nat
    /\ NoNode \notin Node

VARIABLES
    cluster, depthOf,            \* the nodes, and how deep each one stores
    chunksPerNode, uploadNodeCount, threshold,   \* options
    infoLogged,                  \* the log shows info events
    pc,
    overlays,                    \* the nodes whose address is known
    depth,                       \* what get_topologies kept of each of them
    uploader, chunk,
    chunkAddress,
    peers,                       \* connected to the closest node when asked
    replicating,                 \* find_replicating_nodes
    pending,                     \* those of them not verified yet
    pivot, attempt,              \* the one being looked at, and how often
    unasked, rf,                 \* global_replication_factor: nodes to come, count
    silent, heldBefore,          \* observed: the nodes whose answer failed, and who
                                 \* held the chunk when the count began
    results, verdict,
    holders                      \* the nodes that hold the chunk

optVars == <<cluster, depthOf, chunksPerNode, uploadNodeCount, threshold, infoLogged>>
netVars == <<overlays, depth>>
chunkVars == <<chunkAddress, peers, replicating>>
countVars == <<unasked, rf, silent, heldBefore>>
lookVars == <<pending, pivot, attempt, countVars>>
outVars == <<results, verdict>>
vars == <<optVars, pc, netVars, uploader, chunk, chunkVars, lookVars, outVars, holders>>

Init ==
    /\ cluster \in {1..n : n \in Node}
    /\ depthOf \in Depths
    /\ chunksPerNode \in 0..MaxChunks
    /\ uploadNodeCount \in 0..MaxUploaders
    /\ threshold \in Thresholds
    /\ infoLogged \in BOOLEAN
    /\ pc = "start"
    /\ overlays = {}
    /\ depth = [n \in Node |-> 0]
    /\ uploader = 0
    /\ chunk = 0
    /\ chunkAddress = [i \in 1..Bits |-> 0]
    /\ peers = {}
    /\ replicating = {}
    /\ pending = {}
    /\ pivot = NoNode
    /\ attempt = 0
    /\ unasked = {}
    /\ rf = 0
    /\ silent = {}
    /\ heldBefore = {}
    /\ results = <<>>
    /\ verdict = "none"
    /\ holders = {}

UploadCount == Max({1, Min({uploadNodeCount, Cardinality(cluster)})})
-----------------------------------------------------------------------------
Fail == pc' = "done" /\ verdict' = "error"

Panic == pc' = "done" /\ verdict' = "panic"

Start ==
    /\ pc = "start"
    /\ IF Cardinality(cluster) < 2 THEN Fail ELSE pc' = "overlays" /\ UNCHANGED verdict
    /\ UNCHANGED <<optVars, netVars, uploader, chunk, chunkVars, lookVars, results,
                   holders>>

(* A node that does not answer, or not with 32 bytes, is left out.         *)
GetOverlays ==
    /\ pc = "overlays"
    /\ overlays' \in SUBSET cluster
    /\ IF overlays' = {} THEN Fail ELSE pc' = "topologies" /\ UNCHANGED verdict
    /\ UNCHANGED <<optVars, depth, uploader, chunk, chunkVars, lookVars, results,
                   holders>>

(* Mutant: a node that does not tell its depth is left out, as if it       *)
(* stored only what is as near to it as can be.                            *)
GetTopologiesSkipping ==
    /\ pc = "topologies"
    /\ \E answered \in SUBSET overlays :
          depth' = [n \in Node |-> IF n \in answered THEN depthOf[n] ELSE Bits]
    /\ pc' = "node"
    /\ UNCHANGED <<optVars, overlays, uploader, chunk, chunkVars, lookVars, outVars,
                   holders>>

(* A node that does not tell its depth is taken to store everything.  Told *)
(* depths are at most Bits, which `as u8` (pullsync.rs:174) leaves alone.  *)
GetTopologies ==
    /\ pc = "topologies"
    /\ \E answered \in SUBSET overlays :
          depth' = [n \in Node |-> IF n \in answered THEN depthOf[n] ELSE 0]
    /\ pc' = "node"
    /\ UNCHANGED <<optVars, overlays, uploader, chunk, chunkVars, lookVars, outVars,
                   holders>>

NextUploadNode ==
    /\ pc = "node"
    /\ IF uploader < UploadCount
       THEN pc' = "batch" /\ uploader' = uploader + 1
       ELSE pc' = "finish" /\ UNCHANGED uploader
    /\ UNCHANGED <<optVars, netVars, chunk, chunkVars, lookVars, outVars, holders>>

GetBatch ==
    /\ pc = "batch"
    /\ chunk' = 0
    /\ \/ Fail
       \/ pc' = "chunk" /\ UNCHANGED verdict
    /\ UNCHANGED <<optVars, netVars, uploader, chunkVars, lookVars, results, holders>>

(* One chunk, at a random place of the address space, held by nobody.      *)
UploadChunk ==
    /\ pc = "chunk"
    /\ chunk < chunksPerNode
    /\ chunk' = chunk + 1
    /\ chunkAddress' \in Address
    /\ holders' = {}
    /\ \/ Fail
       \/ pc' = "closest" /\ UNCHANGED verdict
    /\ UNCHANGED <<optVars, netVars, uploader, peers, replicating, lookVars, results>>

EndChunks ==
    /\ pc = "chunk"
    /\ chunk = chunksPerNode
    /\ pc' = "node"
    /\ UNCHANGED <<optVars, netVars, uploader, chunk, chunkVars, lookVars, outVars,
                   holders>>

(* The nodes push and pull the chunk at their own pace.                    *)
Pull(n) ==
    /\ pc \in {"closest", "verify", "look", "count"}
    /\ n \in cluster \ holders
    /\ holders' = holders \cup {n}
    /\ UNCHANGED <<optVars, pc, netVars, uploader, chunk, chunkVars, lookVars, outVars>>

Closest == FindClosestNode(chunkAddress, OverlayOf, overlays)

InDepth(n) == Proximity(chunkAddress, OverlayOf[n]) >= depth[n]

(* Mutant: a chunk that no peer has to store needs no verification.        *)
FindReplicatingNodesLeniently ==
    /\ pc = "closest"
    /\ peers' \in SUBSET (cluster \ {Closest})
    /\ replicating' = {n \in peers' \cap overlays : InDepth(n)}
    /\ pending' = replicating'
    /\ pc' = "verify"
    /\ UNCHANGED <<optVars, netVars, uploader, chunk, chunkAddress, pivot, attempt,
                   countVars, outVars, holders>>

(* find_replicating_nodes: the closest node's topology can fail, and lists *)
(* peers whose address is not known, which are left out.                   *)
FindReplicatingNodes ==
    /\ pc = "closest"
    /\ \/ Fail /\ UNCHANGED <<peers, replicating, pending>>
       \/ /\ peers' \in SUBSET (cluster \ {Closest})
          /\ replicating' = {n \in peers' \cap overlays : InDepth(n)}
          /\ pending' = replicating'
          /\ IF replicating' = {} THEN Fail ELSE pc' = "verify" /\ UNCHANGED verdict
    /\ UNCHANGED <<optVars, netVars, uploader, chunk, chunkAddress, pivot, attempt,
                   countVars, results, holders>>

(* When all are verified, the count of all nodes begins.                   *)
NextPivot ==
    /\ pc = "verify"
    /\ IF pending = {}
       THEN /\ pc' = "count"
            /\ unasked' = cluster /\ rf' = 0
            /\ silent' = {} /\ heldBefore' = holders
            /\ UNCHANGED <<pivot, attempt>>
       ELSE /\ pc' = "look" /\ pivot' \in pending /\ attempt' = 0
            /\ UNCHANGED countVars
    /\ UNCHANGED <<optVars, netVars, uploader, chunk, chunkVars, pending, outVars,
                   holders>>

PivotHasChunk ==
    /\ pc = "look"
    /\ pivot \in holders
    /\ pending' = pending \ {pivot}
    /\ pivot' = NoNode
    /\ attempt' = 0
    /\ pc' = "verify"
    /\ UNCHANGED <<optVars, netVars, uploader, chunk, chunkVars, countVars, outVars, holders>>

(* Mutant: it is looked for again and again.                               *)
PivotLacksChunkForever ==
    /\ pc = "look"
    /\ pivot \notin holders
    /\ attempt' = (attempt + 1) % RetryAttempts
    /\ UNCHANGED <<optVars, pc, netVars, uploader, chunk, chunkVars, pending, pivot,
                   countVars, outVars, holders>>

(* Both the event that a retry logs and the last attempt's error message   *)
(* index `overlays` with the uploader's name, which may not be there.      *)
PivotLacksChunk ==
    /\ pc = "look"
    /\ pivot \notin holders
    /\ attempt' = attempt + 1
    /\ IF uploader \notin overlays /\ (infoLogged \/ attempt' = RetryAttempts)
       THEN Panic
       ELSE IF attempt' = RetryAttempts THEN Fail ELSE UNCHANGED <<pc, verdict>>
    /\ UNCHANGED <<optVars, netVars, uploader, chunk, chunkVars, pending, pivot,
                   countVars, results, holders>>

(* A look that fails is not repeated.                                      *)
LookFails ==
    /\ pc = "look"
    /\ Fail
    /\ UNCHANGED <<optVars, netVars, uploader, chunk, chunkVars, lookVars, results,
                   holders>>

(* Mutant: the count is over when a node fails to answer.                  *)
AskNodeStopping(n) ==
    /\ pc = "count"
    /\ n \in unasked
    /\ \/ /\ rf' = IF n \in holders THEN rf + 1 ELSE rf
          /\ unasked' = unasked \ {n}
          /\ UNCHANGED silent
       \/ silent' = silent \cup {n} /\ unasked' = {} /\ UNCHANGED rf
    /\ UNCHANGED <<optVars, pc, netVars, uploader, chunk, chunkVars, pending, pivot, attempt,
                   heldBefore, outVars, holders>>

(* Mutant: a node that fails to answer counts as one that has the chunk.   *)
AskNodeGenerously(n) ==
    /\ pc = "count"
    /\ n \in unasked
    /\ unasked' = unasked \ {n}
    /\ \/ rf' = (IF n \in holders THEN rf + 1 ELSE rf) /\ UNCHANGED silent
       \/ silent' = silent \cup {n} /\ rf' = rf + 1
    /\ UNCHANGED <<optVars, pc, netVars, uploader, chunk, chunkVars, pending, pivot, attempt,
                   heldBefore, outVars, holders>>

(* global_replication_factor asks every node of the cluster, here in any   *)
(* order; one that fails to answer is only logged.                         *)
AskNode(n) ==
    /\ pc = "count"
    /\ n \in unasked
    /\ unasked' = unasked \ {n}
    /\ \/ rf' = (IF n \in holders THEN rf + 1 ELSE rf) /\ UNCHANGED silent
       \/ silent' = silent \cup {n} /\ UNCHANGED rf
    /\ UNCHANGED <<optVars, pc, netVars, uploader, chunk, chunkVars, pending, pivot, attempt,
                   heldBefore, outVars, holders>>

CompareCount ==
    /\ pc = "count"
    /\ unasked = {}
    /\ IF rf < threshold
       THEN Fail /\ UNCHANGED results
       ELSE /\ pc' = "chunk"
            /\ results' = results \o SetToSeq({Passed(n) : n \in replicating})
            /\ UNCHANGED verdict
    /\ unasked' = {} /\ rf' = 0 /\ silent' = {} /\ heldBefore' = {}
    /\ UNCHANGED <<optVars, netVars, uploader, chunk, chunkVars, pending, pivot, attempt,
                   holders>>

Finish ==
    /\ pc = "finish"
    /\ pc' = "done"
    /\ verdict' = CheckVerdict(results)
    /\ UNCHANGED <<optVars, netVars, uploader, chunk, chunkVars, lookVars, results,
                   holders>>

Done == pc = "done" /\ UNCHANGED vars
-----------------------------------------------------------------------------
Check ==
    \/ Start \/ GetOverlays \/ GetTopologies \/ NextUploadNode \/ GetBatch
    \/ UploadChunk \/ EndChunks \/ FindReplicatingNodes \/ NextPivot
    \/ PivotHasChunk \/ PivotLacksChunk \/ LookFails
    \/ (\E n \in Node : AskNode(n)) \/ CompareCount \/ Finish

Next == Check \/ Done \/ \E n \in Node : Pull(n)

SafetySpec == Init /\ [][Next]_vars

(* One task, whose requests end with an answer or by their timeout; of the *)
(* nodes nothing is assumed.                                               *)
Spec == SafetySpec /\ WF_vars(Check)
-----------------------------------------------------------------------------
(* "Verify the chunk exists on ALL such nodes" (pullsync.rs:15): when the  *)
(* check goes on to another chunk, every peer the closest node named whose *)
(* address is known and whose own depth covers the chunk holds it, also    *)
(* when the peer did not tell its depth.                                   *)
NeighbourhoodHoldsChunk ==
    (pc = "chunk" /\ chunk > 0) =>
        \A n \in peers \cap overlays :
            Proximity(chunkAddress, OverlayOf[n]) >= depthOf[n] => n \in holders

(* "Calculate global replication factor and verify it meets the threshold" *)
(* (pullsync.rs:16): so many nodes really hold the chunk when the check    *)
(* goes on, although the nodes were asked one after another, some failed   *)
(* to answer and others got the chunk meanwhile.                           *)
ReplicatedToThreshold ==
    (pc = "chunk" /\ chunk > 0) => Cardinality(holders) >= threshold

(* The count belongs to no single moment, nodes being asked in turn while  *)
(* they pull (pullsync.rs:340-352).  It is still no less than what it was  *)
(* when it began, but for the nodes that failed to answer, and no more     *)
(* than what it is when it ends: a chunk is never given up for its         *)
(* replication factor when enough nodes held it and answered, nor passed   *)
(* when too few do.                                                        *)
CountIsBetween ==
    (pc = "count" /\ unasked = {}) =>
        /\ Cardinality(heldBefore \ silent) <= rf
        /\ rf <= Cardinality(holders)

(* No chunk passes for want of a node to look at: every chunk of every     *)
(* upload node has left the result of at least one node that was verified  *)
(* (a chunk without designated replicators is an error, pullsync.rs:527),  *)
(* and a result is never a failure, so a bad chunk ends in an error only.  *)
EveryChunkLeavesAResult ==
    /\ verdict = "passed" => Len(results) >= UploadCount * chunksPerNode
    /\ verdict # "failed"

(* The check ends, whatever the nodes answer and however slowly they pull. *)
Ends == <>(verdict # "none")
=============================================================================
