------------------------- MODULE ConnectivityChecks -------------------------
(***************************************************************************)
(* The two checks that only read the nodes' peer lists:                    *)
(* src/checks/fullconnectivity.rs, which first learns every node's address *)
(* and expects of each node the peers its type calls for, and              *)
(* src/checks/peercount.rs, which expects a minimum.                       *)
(*                                                                         *)
(* Peers come and go between two requests, so each node answers with any   *)
(* set of peers, strangers to the cluster included, or not at all.         *)
(***************************************************************************)
EXTENDS CheckReport, FiniteSetsExt

CONSTANTS
    NodeCount,     \* ctx.nodes, in order
    MinPeers,      \* the min_peers values considered
    Stranger       \* a peer outside the cluster

Node == 1..NodeCount
NodeType == {"boot", "full", "light"}

ASSUME NodeCountAssumption == NodeCount \in Nat \ {0}
ASSUME MinPeersAssumption == MinPeers \subseteq Nat
ASSUME StrangerAssumption == Stranger \notin Node

VARIABLES
    check,         \* which of the two runs
    nodeType, minPeers,
    pc,
    known,         \* nodes whose address is in overlay_set
    next,          \* the node asked next
    seen,          \* observer: the peers each node has named
    stats,         \* ConnectivityStats
    totalPeers, results, verdict

optVars == <<check, nodeType, minPeers>>
vars == <<optVars, pc, known, next, seen, stats, totalPeers, results, verdict>>

Init ==
    /\ check \in {"fullconnectivity", "peercount"}
    /\ nodeType \in [Node -> NodeType]
    /\ minPeers \in MinPeers
    /\ pc = IF check = "peercount" THEN "peers" ELSE "addresses"
    /\ known = {}
    /\ next = 1
    /\ seen = [n \in Node |-> {}]
    /\ stats = [t \in NodeType |-> [passed |-> 0, failed |-> 0]]
    /\ totalPeers = 0
    /\ results = <<>>
    /\ verdict = "none"

FullCapable == {n \in Node : nodeType[n] \in {"boot", "full"}}

ExpectedPeers(n) ==
    CASE nodeType[n] = "boot"  -> NodeCount - 1
      [] nodeType[n] = "full"  -> Cardinality(FullCapable) - 1
      [] nodeType[n] = "light" -> 1

(* What /peers lists: the checks take the length of a Vec, and this is the *)
(* number of peers because bee, being external, is assumed to list each    *)
(* peer once and never the node that is asked.                             *)
PeerSets(n) == SUBSET ((Node \ {n}) \cup {Stranger})
-----------------------------------------------------------------------------
(* A node that fails to tell its address is missing from the set.          *)
GetAddresses ==
    /\ pc = "addresses"
    /\ known' \in SUBSET Node
    /\ pc' = "peers"
    /\ UNCHANGED <<optVars, next, seen, stats, totalPeers, results, verdict>>

Ask(n) == pc = "peers" /\ n = next /\ next' = next + 1

Report(n, ok) == results' = Append(results, IF ok THEN Passed(n) ELSE Failed(n))

Count(n, ok) ==
    stats' = IF ok THEN [stats EXCEPT ![nodeType[n]].passed = @ + 1]
                   ELSE [stats EXCEPT ![nodeType[n]].failed = @ + 1]

(* Mutant: strangers do as peers.                                          *)
AcceptsAnyone(n, peers) == Cardinality(peers) >= ExpectedPeers(n)

(* has_enough_peers && has_valid_peers                                     *)
Accepts(n, peers) == Cardinality(peers) >= ExpectedPeers(n) /\ peers \subseteq known

ValidatePeers(n) ==
    /\ check = "fullconnectivity"
    /\ Ask(n)
    /\ \E peers \in PeerSets(n) :
          /\ seen' = [seen EXCEPT ![n] = peers]
          /\ Report(n, Accepts(n, peers))
          /\ Count(n, Accepts(n, peers))
    /\ UNCHANGED <<optVars, pc, known, totalPeers, verdict>>

CountPeers(n) ==
    /\ check = "peercount"
    /\ Ask(n)
    /\ \E peers \in PeerSets(n) :
          /\ seen' = [seen EXCEPT ![n] = peers]
          /\ totalPeers' = totalPeers + Cardinality(peers)
          /\ Report(n, Cardinality(peers) >= minPeers)
    /\ UNCHANGED <<optVars, pc, known, stats, verdict>>

(* Mutant: the failure is reported but not counted.                        *)
PeersFailUncounted(n) ==
    /\ Ask(n)
    /\ Report(n, FALSE)
    /\ UNCHANGED <<optVars, pc, known, seen, stats, totalPeers, verdict>>

(* A node that does not answer has failed either check.                    *)
PeersFail(n) ==
    /\ Ask(n)
    /\ Report(n, FALSE)
    /\ IF check = "fullconnectivity" THEN Count(n, FALSE) ELSE UNCHANGED stats
    /\ UNCHANGED <<optVars, pc, known, seen, totalPeers, verdict>>

Finish ==
    /\ pc = "peers"
    /\ next > NodeCount
    /\ pc' = "done"
    /\ verdict' = CheckVerdict(results)
    /\ UNCHANGED <<optVars, known, next, seen, stats, totalPeers, results>>

Done == pc = "done" /\ UNCHANGED vars

Next ==
    \/ GetAddresses \/ Finish \/ Done
    \/ \E n \in Node : ValidatePeers(n) \/ CountPeers(n) \/ PeersFail(n)

Spec == Init /\ [][Next]_vars
-----------------------------------------------------------------------------
(* The message of fullconnectivity ("Boot: 1/1, Full: 2/3, ...") cannot    *)
(* contradict its verdict: the counters are those of the results, type by  *)
(* type, and every node is in one of them (fullconnectivity.rs:231-248).   *)
StatsTellResults ==
    check = "fullconnectivity" => \A t \in NodeType :
        LET asked == {n \in Node : n < next /\ nodeType[n] = t}
        IN  /\ stats[t].passed + stats[t].failed = Cardinality(asked)
            /\ stats[t].failed =
                 Cardinality({i \in DOMAIN results :
                                 results[i].node \in asked /\ ~results[i].passed})

(* What a pass tells although only numbers are compared.  fullconnectivity *)
(* (136-151): each boot node saw every other node, no node saw a stranger  *)
(* and, where it needs company, nobody.  peercount (63-108): every node    *)
(* answered, and the total of the message is no less than the minima.      *)
PassMeansPeersSeen ==
    verdict = "passed" =>
        IF check = "fullconnectivity"
        THEN \A n \in Node :
                /\ Stranger \notin seen[n]
                /\ nodeType[n] = "boot" => seen[n] = Node \ {n}
                /\ nodeType[n] = "light" \/ Cardinality(FullCapable) > 1 => seen[n] # {}
        ELSE /\ \A n \in Node : Cardinality(seen[n]) >= minPeers
             /\ totalPeers >= minPeers * NodeCount
-----------------------------------------------------------------------------
(* "Full nodes: Must connect to all other full-capable nodes"              *)
(* (fullconnectivity.rs:7), "Full mesh - every node can reach every other  *)
(* node" (README.md:85): when the answers agree on who is connected to     *)
(* whom and the check passes, the full nodes see each other.               *)
FullNodesSeeEachOther ==
    (/\ check = "fullconnectivity" /\ verdict = "passed"
     /\ \A m, n \in Node : m \in seen[n] <=> n \in seen[m]) =>
        \A m, n \in FullCapable : m # n => m \in seen[n]
=============================================================================
