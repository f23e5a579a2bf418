------------------------- MODULE ConnectivityProofs -------------------------
(***************************************************************************)
(* Proofs about ConnectivityChecks, for any number of nodes of any types   *)
(* and any minimum of peers: the results stand in the order of the nodes,  *)
(* each judges what its node said it saw, and the counters and totals are  *)
(* those of the results.                                                   *)
(***************************************************************************)
EXTENDS ConnectivityChecks, FiniteSetTheorems, TLAPS

Result == [node : Node, passed : BOOLEAN]

Peer == Node \cup {Stranger}

TypeOK ==
    /\ check \in {"fullconnectivity", "peercount"}
    /\ nodeType \in [Node -> NodeType]
    /\ minPeers \in MinPeers
    /\ pc \in {"addresses", "peers", "done"}
    /\ known \subseteq Node
    /\ next \in 1..(NodeCount + 1)
    /\ seen \in [Node -> SUBSET Peer]
    /\ stats \in [NodeType -> [passed : Nat, failed : Nat]]
    /\ totalPeers \in Nat
    /\ results \in Seq(Result)
    /\ verdict \in {"none", "passed", "failed"}

(* The nodes are asked one after the other, once their addresses are       *)
(* known, and each leaves its result; none counts itself as a peer.        *)
ResultsInOrder ==
    /\ Len(results) = next - 1
    /\ \A i \in 1..Len(results) : results[i].node = i
    /\ pc = "addresses" => next = 1
    /\ \A n \in Node : n \notin seen[n]

(* A result judges what its node said.                                     *)
Judged ==
    \A i \in 1..Len(results) : results[i].passed =>
        IF check = "fullconnectivity"
        THEN Accepts(i, seen[i])
        ELSE Cardinality(seen[i]) >= minPeers

AllPassed == \A i \in 1..Len(results) : results[i].passed

(* The total is no less than what the passed nodes must have contributed.  *)
Totalled ==
    (check = "peercount" /\ AllPassed) => totalPeers >= minPeers * Len(results)

VerdictIsOfResults ==
    verdict # "none" =>
        pc = "done" /\ Len(results) = NodeCount /\ verdict = CheckVerdict(results)

IInv ==
    /\ TypeOK /\ ResultsInOrder /\ Judged /\ Totalled /\ VerdictIsOfResults
    /\ StatsTellResults
-----------------------------------------------------------------------------
(* Where a result lands when it is appended.                               *)
LEMMA AppendResult ==
    ASSUME NEW s \in Seq(Result), NEW r \in Result
    PROVE  /\ Append(s, r) \in Seq(Result)
           /\ Len(s) \in Nat
           /\ DOMAIN s = 1..Len(s)
           /\ Len(Append(s, r)) = Len(s) + 1
           /\ DOMAIN Append(s, r) = 1..(Len(s) + 1)
           /\ \A i \in 1..Len(s) : Append(s, r)[i] = s[i]
           /\ Append(s, r)[Len(s) + 1] = r
  OBVIOUS

(* Every set of peers a node can name is finite.                           *)
LEMMA PeersFinite ==
    /\ IsFiniteSet(Node) /\ Cardinality(Node) = NodeCount
    /\ \A S \in SUBSET Peer : IsFiniteSet(S) /\ Cardinality(S) \in Nat
<1>1. IsFiniteSet(Node) /\ Cardinality(Node) = NodeCount
  BY NodeCountAssumption, FS_Interval DEF Node
<1>2. IsFiniteSet(Peer)
  BY <1>1, FS_AddElement DEF Peer
<1>3. ASSUME NEW S \in SUBSET Peer
      PROVE  IsFiniteSet(S) /\ Cardinality(S) \in Nat
  BY <1>2, <1>3, FS_Subset, FS_CardinalityType
<1> QED
  BY <1>1, <1>3

(* At the start every variable has its type.                               *)
LEMMA InitTyped == Init => TypeOK
<1> SUFFICES ASSUME Init PROVE TypeOK
  OBVIOUS
<1>1. next \in 1..(NodeCount + 1)
  BY NodeCountAssumption DEF Init
<1>2. results \in Seq(Result) /\ totalPeers \in Nat
  BY DEF Init
<1>3. stats \in [NodeType -> [passed : Nat, failed : Nat]]
  BY DEF Init
<1> QED
  BY <1>1, <1>2, <1>3 DEF Init, TypeOK
-----------------------------------------------------------------------------
(* What asking a node does, whichever check asks and whatever it answers:  *)
(* there is a result r that names the node, and the rest follows from it.  *)
Answered(n, r) ==
    /\ pc = "peers" /\ n = next /\ next' = next + 1
    /\ r \in {Passed(n), Failed(n)}
    /\ results' = Append(results, r)
    /\ seen' \in [Node -> SUBSET Peer]
    /\ \A m \in Node : m # n => seen'[m] = seen[m]
    /\ n \notin seen'[n]
    /\ r.passed =>
         IF check = "fullconnectivity"
         THEN Accepts(n, seen'[n])
         ELSE /\ Cardinality(seen'[n]) >= minPeers
              /\ totalPeers' = totalPeers + Cardinality(seen'[n])
    /\ totalPeers' \in Nat
    /\ IF check = "fullconnectivity"
       THEN stats' = IF r = Passed(n) THEN [stats EXCEPT ![nodeType[n]].passed = @ + 1]
                                      ELSE [stats EXCEPT ![nodeType[n]].failed = @ + 1]
       ELSE UNCHANGED stats
    /\ UNCHANGED <<optVars, pc, known, verdict>>

(* fullconnectivity judges the peers a node names.                         *)
LEMMA ValidateAnswers ==
    ASSUME TypeOK, ResultsInOrder, NEW n \in Node, ValidatePeers(n)
    PROVE  \E r : Answered(n, r)
<1>1. PICK peers \in PeerSets(n) :
          /\ seen' = [seen EXCEPT ![n] = peers]
          /\ Report(n, Accepts(n, peers))
          /\ Count(n, Accepts(n, peers))
  BY DEF ValidatePeers
<1>2. /\ seen' \in [Node -> SUBSET Peer] /\ seen'[n] = peers /\ n \notin peers
      /\ \A m \in Node : m # n => seen'[m] = seen[m]
  BY <1>1, StrangerAssumption DEF TypeOK, PeerSets, Peer
<1>3. /\ check = "fullconnectivity" /\ pc = "peers" /\ n = next /\ next' = next + 1
      /\ UNCHANGED <<optVars, pc, known, totalPeers, verdict>>
  BY DEF ValidatePeers, Ask
<1>4. Passed(n) # Failed(n) /\ ~Failed(n).passed
  BY DEF Passed, Failed
<1>5. CASE Accepts(n, peers)
  <2>1. results' = Append(results, Passed(n))
    BY <1>1, <1>5 DEF Report
  <2>2. stats' = [stats EXCEPT ![nodeType[n]].passed = @ + 1]
    BY <1>1, <1>5 DEF Count
  <2>3. Answered(n, Passed(n))
    BY <1>2, <1>3, <1>5, <2>1, <2>2 DEF Answered, TypeOK
  <2> QED
    BY <2>3
<1>6. CASE ~Accepts(n, peers)
  <2>1. results' = Append(results, Failed(n))
    BY <1>1, <1>6 DEF Report
  <2>2. stats' = [stats EXCEPT ![nodeType[n]].failed = @ + 1]
    BY <1>1, <1>6 DEF Count
  <2>3. Answered(n, Failed(n))
    BY <1>2, <1>3, <1>4, <2>1, <2>2 DEF Answered, TypeOK
  <2> QED
    BY <2>3
<1> QED
  BY <1>5, <1>6

(* peercount counts them.                                                  *)
LEMMA CountAnswers ==
    ASSUME TypeOK, ResultsInOrder, NEW n \in Node, CountPeers(n)
    PROVE  \E r : Answered(n, r)
<1>1. PICK peers \in PeerSets(n) :
          /\ seen' = [seen EXCEPT ![n] = peers]
          /\ totalPeers' = totalPeers + Cardinality(peers)
          /\ Report(n, Cardinality(peers) >= minPeers)
  BY DEF CountPeers
<1>2. /\ seen' \in [Node -> SUBSET Peer] /\ seen'[n] = peers /\ n \notin peers
      /\ \A m \in Node : m # n => seen'[m] = seen[m]
  BY <1>1, StrangerAssumption DEF TypeOK, PeerSets, Peer
<1>3. /\ check # "fullconnectivity" /\ pc = "peers" /\ n = next /\ next' = next + 1
      /\ UNCHANGED <<optVars, pc, known, stats, verdict>>
  BY DEF CountPeers, Ask
<1>4. totalPeers' \in Nat
  <2>1. Cardinality(peers) \in Nat
    BY <1>2, PeersFinite
  <2> QED
    BY <1>1, <2>1 DEF TypeOK
<1>5. ~Failed(n).passed
  BY DEF Failed
<1>6. CASE Cardinality(peers) >= minPeers
  <2>1. results' = Append(results, Passed(n))
    BY <1>1, <1>6 DEF Report
  <2>2. Answered(n, Passed(n))
    BY <1>1, <1>2, <1>3, <1>4, <1>6, <2>1 DEF Answered
  <2> QED
    BY <2>2
<1>7. CASE ~(Cardinality(peers) >= minPeers)
  <2>1. results' = Append(results, Failed(n))
    BY <1>1, <1>7 DEF Report
  <2>2. Answered(n, Failed(n))
    BY <1>2, <1>3, <1>4, <1>5, <2>1 DEF Answered
  <2> QED
    BY <2>2
<1> QED
  BY <1>6, <1>7

(* A node that does not answer fails either check.                         *)
LEMMA FailureAnswers ==
    ASSUME TypeOK, ResultsInOrder, NEW n \in Node, PeersFail(n)
    PROVE  Answered(n, Failed(n))
<1>1. Passed(n) # Failed(n) /\ ~Failed(n).passed
  BY DEF Passed, Failed
<1>2. /\ pc = "peers" /\ n = next /\ next' = next + 1
      /\ results' = Append(results, Failed(n))
      /\ IF check = "fullconnectivity"
         THEN stats' = [stats EXCEPT ![nodeType[n]].failed = @ + 1]
         ELSE UNCHANGED stats
      /\ UNCHANGED <<optVars, pc, known, seen, totalPeers, verdict>>
  BY DEF PeersFail, Ask, Report, Count
<1> QED
  BY <1>1, <1>2 DEF Answered, TypeOK, ResultsInOrder
-----------------------------------------------------------------------------
(* An answer is of the right types.                                        *)
LEMMA AnswerTyped ==
    ASSUME TypeOK, NEW n \in Node, NEW r, Answered(n, r)
    PROVE  /\ TypeOK'
           /\ r \in Result /\ r.node = n
           /\ Len(results) \in Nat /\ Len(results') = Len(results) + 1
           /\ DOMAIN results = 1..Len(results) /\ DOMAIN results' = 1..(Len(results) + 1)
           /\ \A i \in 1..Len(results) : results'[i] = results[i]
           /\ results'[Len(results) + 1] = r
<1>1. r \in Result /\ r.node = n
  <2>1. r = Passed(n) \/ r = Failed(n)
    BY DEF Answered
  <2>2. Passed(n) \in Result /\ Passed(n).node = n
    BY DEF Passed, Result
  <2>3. Failed(n) \in Result /\ Failed(n).node = n
    BY DEF Failed, Result
  <2> QED
    BY <2>1, <2>2, <2>3
<1>2. results' = Append(results, r) /\ results \in Seq(Result)
  BY DEF Answered, TypeOK
<1>3. /\ results' \in Seq(Result)
      /\ Len(results) \in Nat /\ Len(results') = Len(results) + 1
      /\ DOMAIN results = 1..Len(results) /\ DOMAIN results' = 1..(Len(results) + 1)
      /\ \A i \in 1..Len(results) : results'[i] = results[i]
      /\ results'[Len(results) + 1] = r
  BY <1>1, <1>2, AppendResult
<1>4. next' \in 1..(NodeCount + 1)
  BY NodeCountAssumption DEF Answered, Node
<1>5. stats' \in [NodeType -> [passed : Nat, failed : Nat]]
  <2>1. nodeType[n] \in NodeType /\ stats \in [NodeType -> [passed : Nat, failed : Nat]]
    BY DEF TypeOK
  <2>2. \/ stats' = [stats EXCEPT ![nodeType[n]].passed = @ + 1]
        \/ stats' = [stats EXCEPT ![nodeType[n]].failed = @ + 1]
        \/ stats' = stats
    BY DEF Answered
  <2> QED
    BY <2>1, <2>2
<1>6. TypeOK'
  BY <1>3, <1>4, <1>5 DEF Answered, TypeOK, optVars
<1> QED
  BY <1>1, <1>3, <1>6

(* The results stay in the order of the nodes, the one being last that was *)
(* asked last.                                                             *)
LEMMA AnswerInOrder ==
    ASSUME TypeOK, ResultsInOrder, NEW n \in Node, NEW r, Answered(n, r)
    PROVE  ResultsInOrder' /\ n = Len(results) + 1
<1>1. /\ r.node = n
      /\ Len(results) \in Nat /\ Len(results') = Len(results) + 1
      /\ \A i \in 1..Len(results) : results'[i] = results[i]
      /\ results'[Len(results) + 1] = r
  BY AnswerTyped
<1>2. pc = "peers" /\ n = next /\ next' = next + 1 /\ pc' = pc /\ n \notin seen'[n]
      /\ \A m \in Node : m # n => seen'[m] = seen[m]
  BY DEF Answered
<1>3. n = Len(results) + 1 /\ n \in Nat
  BY <1>1, <1>2 DEF ResultsInOrder, TypeOK
<1>4. \A i \in 1..Len(results') : results'[i].node = i
  BY <1>1, <1>3 DEF ResultsInOrder
<1>5. Len(results') = next' - 1
  BY <1>1, <1>2, <1>3
<1>6. \A m \in Node : m \notin seen'[m]
  BY <1>2 DEF ResultsInOrder
<1> QED
  BY <1>2, <1>3, <1>4, <1>5, <1>6 DEF ResultsInOrder

(* A node that was asked before has not been heard since.                  *)
LEMMA AnswerJudged ==
    ASSUME TypeOK, ResultsInOrder, Judged, NEW n \in Node, NEW r, Answered(n, r)
    PROVE  Judged'
<1>1. /\ n = Len(results) + 1 /\ Len(results) \in Nat /\ Len(results') = n
      /\ \A i \in 1..Len(results) : results'[i] = results[i]
      /\ results'[n] = r
  BY AnswerTyped, AnswerInOrder
<1>2. /\ \A m \in Node : m # n => seen'[m] = seen[m]
      /\ r.passed => IF check = "fullconnectivity"
                     THEN Accepts(n, seen'[n])
                     ELSE Cardinality(seen'[n]) >= minPeers
      /\ check' = check /\ minPeers' = minPeers /\ known' = known /\ nodeType' = nodeType
  BY DEF Answered, optVars
<1> SUFFICES ASSUME NEW i \in 1..Len(results'), results'[i].passed
             PROVE  IF check = "fullconnectivity"
                    THEN Accepts(i, seen'[i])
                    ELSE Cardinality(seen'[i]) >= minPeers
  BY <1>2 DEF Judged, Accepts, ExpectedPeers, FullCapable
<1>4. CASE i = n
  BY <1>1, <1>2, <1>4
<1>5. CASE i \in 1..Len(results)
  <2>1. i # n /\ i \in Node
    BY <1>1, <1>5, NodeCountAssumption DEF Node
  <2> QED
    BY <1>1, <1>2, <1>5, <2>1 DEF Judged
<1> QED
  BY <1>1, <1>4, <1>5

(* A pass adds at least the minimum to the total.                          *)
LEMMA AnswerTotalled ==
    ASSUME TypeOK, ResultsInOrder, Totalled, NEW n \in Node, NEW r, Answered(n, r)
    PROVE  Totalled'
<1> DEFINE Owed == minPeers * Len(results)
<1>1. /\ n = Len(results) + 1 /\ Len(results) \in Nat
      /\ Len(results') = Len(results) + 1
      /\ \A i \in 1..Len(results) : results'[i] = results[i]
      /\ results'[n] = r
  BY AnswerTyped, AnswerInOrder
<1>2. check' = check /\ minPeers' = minPeers
  BY DEF Answered, optVars
<1>3. minPeers \in Nat
  BY MinPeersAssumption DEF TypeOK
<1> SUFFICES ASSUME check = "peercount", AllPassed'
             PROVE  totalPeers' >= minPeers * Len(results')
  BY <1>2 DEF Totalled
<1>4. AllPassed /\ r.passed
  BY <1>1 DEF AllPassed
<1>5. totalPeers >= Owed
  BY <1>4 DEF Totalled
<1>6. minPeers * (Len(results) + 1) = Owed + minPeers /\ Owed \in Nat
  BY <1>1, <1>3
<1>7. totalPeers' = totalPeers + Cardinality(seen'[n]) /\ Cardinality(seen'[n]) >= minPeers
  BY <1>4 DEF Answered
<1>8. Cardinality(seen'[n]) \in Nat /\ totalPeers \in Nat
  BY PeersFinite DEF Answered, TypeOK
<1> HIDE DEF Owed
<1>9. totalPeers' >= Owed + minPeers
  BY <1>3, <1>5, <1>6, <1>7, <1>8
<1> QED
  BY <1>1, <1>6, <1>9
-----------------------------------------------------------------------------
(* The nodes of a type asked so far, and the failed results among theirs.  *)
Asked(t) == {n \in Node : n < next /\ nodeType[n] = t}

FailedOf(t) == {i \in DOMAIN results : results[i].node \in Asked(t) /\ ~results[i].passed}

StatsTell(t) ==
    /\ stats[t].passed + stats[t].failed = Cardinality(Asked(t))
    /\ stats[t].failed = Cardinality(FailedOf(t))

(* The counters of every type tell its nodes.                              *)
LEMMA StatsTellAll ==
    StatsTellResults <=> (check = "fullconnectivity" => \A t \in NodeType : StatsTell(t))
  BY DEF StatsTellResults, StatsTell, Asked, FailedOf

(* Both sets are finite.                                                   *)
LEMMA AskedFinite ==
    ASSUME TypeOK, NEW t \in NodeType
    PROVE  /\ IsFiniteSet(Asked(t)) /\ IsFiniteSet(FailedOf(t))
           /\ Cardinality(Asked(t)) \in Nat /\ Cardinality(FailedOf(t)) \in Nat
<1>1. IsFiniteSet(Asked(t))
  BY PeersFinite, FS_Subset DEF Asked
<1>2. IsFiniteSet(1..Len(results)) /\ DOMAIN results = 1..Len(results)
  BY FS_Interval DEF TypeOK
<1>3. IsFiniteSet(FailedOf(t))
  BY <1>2, FS_Subset DEF FailedOf
<1> QED
  BY <1>1, <1>3, FS_CardinalityType

(* What an answer does to the two sets.                                    *)
LEMMA AnswerAsks ==
    ASSUME TypeOK, ResultsInOrder, NEW n \in Node, NEW r, Answered(n, r), NEW t \in NodeType
    PROVE  /\ Asked(t)' = IF nodeType[n] = t THEN Asked(t) \cup {n} ELSE Asked(t)
           /\ FailedOf(t)' = IF nodeType[n] = t /\ ~r.passed
                             THEN FailedOf(t) \cup {n} ELSE FailedOf(t)
           /\ n \notin Asked(t) /\ n \notin FailedOf(t)
<1>1. /\ n = Len(results) + 1 /\ Len(results) \in Nat
      /\ DOMAIN results = 1..Len(results) /\ DOMAIN results' = 1..(Len(results) + 1)
      /\ \A i \in 1..Len(results) : results'[i] = results[i]
      /\ results'[n] = r /\ r.node = n
  BY AnswerTyped, AnswerInOrder
<1>2. n = next /\ next' = next + 1 /\ nodeType' = nodeType
  BY DEF Answered, optVars
<1>3. n \in Nat /\ Node \subseteq Nat
  BY DEF Node
<1>4. Asked(t)' = IF nodeType[n] = t THEN Asked(t) \cup {n} ELSE Asked(t)
  <2>1. \A m \in Node : m < next' <=> m < next \/ m = n
    BY <1>2, <1>3
  <2>2. Asked(t)' = {m \in Node : m < next' /\ nodeType[m] = t}
    BY <1>2 DEF Asked
  <2>3. \A m : m \in Asked(t)' <=> m \in Asked(t) \/ (m = n /\ nodeType[n] = t)
    BY <2>1, <2>2 DEF Asked
  <2> QED
    BY <2>3
<1>5. n \notin Asked(t) /\ n \notin FailedOf(t)
  BY <1>1, <1>2, <1>3 DEF Asked, FailedOf
<1>6. \A i \in 1..Len(results) : results[i].node = i /\ i # n
  BY <1>1 DEF ResultsInOrder
<1>7. \A i \in 1..Len(results) : i \in Asked(t)' <=> i \in Asked(t)
  BY <1>4, <1>6
<1>8. n \in Asked(t)' <=> nodeType[n] = t
  BY <1>4, <1>5
<1>9. \A i : i \in DOMAIN results' <=> i \in DOMAIN results \/ i = n
  BY <1>1
<1>10. FailedOf(t)' = {i \in DOMAIN results' : results'[i].node \in Asked(t)' /\ ~results'[i].passed}
  BY DEF FailedOf
<1>11. \A i : i \in FailedOf(t)' <=> i \in FailedOf(t) \/ (i = n /\ nodeType[n] = t /\ ~r.passed)
  BY <1>1, <1>6, <1>7, <1>8, <1>9, <1>10 DEF FailedOf
<1> QED
  BY <1>4, <1>5, <1>11

(* The counter that is raised is that of the result.                       *)
LEMMA AnswerStats ==
    ASSUME TypeOK, ResultsInOrder, StatsTellResults, NEW n \in Node, NEW r, Answered(n, r)
    PROVE  StatsTellResults'
<1>1. check' = check
  BY DEF Answered, optVars
<1> SUFFICES ASSUME check = "fullconnectivity", NEW t \in NodeType
             PROVE  StatsTell(t)'
  BY <1>1 DEF StatsTellResults, StatsTell, Asked, FailedOf
<1> DEFINE A == Asked(t)
           F == FailedOf(t)
<1>2. /\ IsFiniteSet(A) /\ IsFiniteSet(F) /\ n \notin A /\ n \notin F
      /\ Cardinality(A) \in Nat /\ Cardinality(F) \in Nat
      /\ Asked(t)' = IF nodeType[n] = t THEN A \cup {n} ELSE A
      /\ FailedOf(t)' = IF nodeType[n] = t /\ ~r.passed THEN F \cup {n} ELSE F
  BY AskedFinite, AnswerAsks
<1>3. stats[t].passed + stats[t].failed = Cardinality(A) /\ stats[t].failed = Cardinality(F)
  BY StatsTellAll DEF StatsTell
<1> HIDE DEF A, F
<1>4. /\ Cardinality(A \cup {n}) = Cardinality(A) + 1
      /\ Cardinality(F \cup {n}) = Cardinality(F) + 1
  BY <1>2, FS_AddElement
<1>5. /\ stats \in [NodeType -> [passed : Nat, failed : Nat]]
      /\ nodeType[n] \in NodeType
      /\ stats[t].passed \in Nat /\ stats[t].failed \in Nat
  BY DEF TypeOK
<1>6. r = Passed(n) \/ r = Failed(n)
  BY DEF Answered
<1>7. Passed(n).passed /\ ~Failed(n).passed /\ Passed(n) # Failed(n)
  BY DEF Passed, Failed
<1>8. stats' = IF r = Passed(n) THEN [stats EXCEPT ![nodeType[n]].passed = @ + 1]
                                ELSE [stats EXCEPT ![nodeType[n]].failed = @ + 1]
  BY DEF Answered
<1>9. CASE nodeType[n] # t
  <2>1. stats'[t] = stats[t]
    BY <1>5, <1>8, <1>9
  <2> QED
    BY <1>2, <1>3, <1>9, <2>1 DEF StatsTell
<1>10. CASE nodeType[n] = t /\ r = Passed(n)
  <2>1. stats'[t].passed = stats[t].passed + 1 /\ stats'[t].failed = stats[t].failed
    BY <1>5, <1>8, <1>10
  <2>2. Asked(t)' = A \cup {n} /\ FailedOf(t)' = F
    BY <1>2, <1>7, <1>10
  <2> QED
    BY <1>2, <1>3, <1>4, <1>5, <2>1, <2>2 DEF StatsTell
<1>11. CASE nodeType[n] = t /\ r = Failed(n)
  <2>1. stats'[t].passed = stats[t].passed /\ stats'[t].failed = stats[t].failed + 1
    BY <1>5, <1>7, <1>8, <1>11
  <2>2. Asked(t)' = A \cup {n} /\ FailedOf(t)' = F \cup {n}
    BY <1>2, <1>7, <1>11
  <2> QED
    BY <1>2, <1>3, <1>4, <1>5, <2>1, <2>2 DEF StatsTell
<1> QED
  BY <1>6, <1>9, <1>10, <1>11

(* An answer keeps the whole invariant.                                    *)
LEMMA AnswerStep ==
    ASSUME IInv, NEW n \in Node, NEW r, Answered(n, r)
    PROVE  IInv'
<1>1. TypeOK' /\ ResultsInOrder' /\ Judged' /\ Totalled' /\ StatsTellResults'
  BY AnswerTyped, AnswerInOrder, AnswerJudged, AnswerTotalled, AnswerStats DEF IInv
<1>2. verdict' = "none"
  BY DEF Answered, IInv, VerdictIsOfResults
<1> QED
  BY <1>1, <1>2 DEF IInv, VerdictIsOfResults
-----------------------------------------------------------------------------
(* The invariant holds at the start ...                                    *)
LEMMA InitInvariant == Init => IInv
<1> SUFFICES ASSUME Init PROVE IInv
  OBVIOUS
<1>1. TypeOK
  BY InitTyped
<1>2. results = <<>> /\ Len(results) = 0 /\ DOMAIN results = {} /\ 1..Len(results) = {}
  BY DEF Init
<1>3. ResultsInOrder
  BY <1>2 DEF Init, ResultsInOrder
<1>4. Judged
  BY <1>2 DEF Judged
<1>5. Totalled
  <2>1. minPeers \in Nat
    BY <1>1, MinPeersAssumption DEF TypeOK
  <2> QED
    BY <1>2, <2>1 DEF Init, Totalled
<1>6. VerdictIsOfResults
  BY DEF Init, VerdictIsOfResults
<1>7. StatsTellResults
  <2>1. \A t \in NodeType : Asked(t) = {} /\ FailedOf(t) = {}
    BY <1>2 DEF Init, Asked, FailedOf, Node
  <2>2. \A t \in NodeType : stats[t].passed = 0 /\ stats[t].failed = 0
    BY DEF Init
  <2>3. \A t \in NodeType : StatsTell(t)
    BY <2>1, <2>2, FS_EmptySet DEF StatsTell
  <2> QED
    BY <2>3, StatsTellAll
<1> QED
  BY <1>1, <1>3, <1>4, <1>5, <1>6, <1>7 DEF IInv

(* ... and every step keeps it.                                            *)
LEMMA StepInvariant == IInv /\ [Next]_vars => IInv'
<1> SUFFICES ASSUME IInv, [Next]_vars PROVE IInv'
  OBVIOUS
<1>1. CASE GetAddresses
  <2>1. UNCHANGED <<optVars, next, seen, stats, totalPeers, results, verdict>>
        /\ pc = "addresses" /\ pc' = "peers" /\ known' \subseteq Node
    BY <1>1 DEF GetAddresses
  <2>2. Len(results) = 0
    BY <2>1 DEF IInv, TypeOK, ResultsInOrder
  <2>3. TypeOK' /\ ResultsInOrder' /\ Totalled' /\ StatsTellResults'
    BY <2>1 DEF IInv, TypeOK, ResultsInOrder, Totalled, AllPassed, StatsTellResults, optVars
  <2>4. Judged'
    BY <2>1, <2>2 DEF Judged
  <2>5. VerdictIsOfResults'
    BY <2>1 DEF IInv, VerdictIsOfResults
  <2> QED
    BY <2>3, <2>4, <2>5 DEF IInv
<1>2. CASE Finish
  <2>1. /\ UNCHANGED <<optVars, known, next, seen, stats, totalPeers, results>>
        /\ pc = "peers" /\ pc' = "done" /\ verdict' = CheckVerdict(results)
        /\ next > NodeCount
    BY <1>2 DEF Finish
  <2>2. verdict' \in {"passed", "failed"}
    BY <2>1 DEF CheckVerdict
  <2>3. TypeOK' /\ ResultsInOrder' /\ Totalled' /\ StatsTellResults'
    BY <2>1, <2>2
    DEF IInv, TypeOK, ResultsInOrder, Totalled, AllPassed, StatsTellResults, optVars
  <2>4. Judged'
    BY <2>1 DEF IInv, Judged, Accepts, ExpectedPeers, FullCapable, optVars
  <2>5. Len(results) = NodeCount
    BY <2>1, NodeCountAssumption DEF IInv, ResultsInOrder, TypeOK
  <2>6. VerdictIsOfResults'
    BY <2>1, <2>5 DEF VerdictIsOfResults, CheckVerdict
  <2> QED
    BY <2>3, <2>4, <2>6 DEF IInv
<1>3. ASSUME NEW n \in Node, ValidatePeers(n) \/ CountPeers(n) \/ PeersFail(n)
      PROVE  IInv'
  BY <1>3, ValidateAnswers, CountAnswers, FailureAnswers, AnswerStep DEF IInv
<1>4. CASE UNCHANGED vars
  <2>1. UNCHANGED <<check, nodeType, minPeers, pc, known, next, seen, stats, totalPeers,
                    results, verdict>>
    BY <1>4 DEF vars, optVars
  <2>2. TypeOK' /\ ResultsInOrder' /\ Totalled' /\ VerdictIsOfResults'
    BY <2>1
    DEF IInv, TypeOK, ResultsInOrder, Totalled, AllPassed, VerdictIsOfResults, CheckVerdict
  <2>3. Judged'
    BY <2>1 DEF IInv, Judged, Accepts, ExpectedPeers, FullCapable
  <2>4. StatsTellResults'
    BY <2>1 DEF IInv, StatsTellResults
  <2> QED
    BY <2>2, <2>3, <2>4 DEF IInv
<1> QED
  BY <1>1, <1>2, <1>3, <1>4 DEF Next, Done

(* Every reachable state is of the right types, and every result stands    *)
(* where its node stands among the nodes (fullconnectivity.rs:115-228,     *)
(* peercount.rs:50-98).                                                    *)
THEOREM Invariant == Spec => []IInv
<1> QED
  BY InitInvariant, StepInvariant, PTL DEF Spec

(* The counters of the message of fullconnectivity are those of the        *)
(* results, type by type, and no node is missed (fullconnectivity.rs:      *)
(* 231-248).                                                               *)
THEOREM StatsTell_Invariant == Spec => []StatsTellResults
<1>1. IInv => StatsTellResults
  BY DEF IInv
<1> QED
  BY <1>1, Invariant, PTL
-----------------------------------------------------------------------------
(* A boot node is content with nothing less than all the others; whoever   *)
(* needs company has it.                                                   *)
LEMMA AcceptedSaw ==
    ASSUME IInv, NEW n \in Node, Accepts(n, seen[n])
    PROVE  /\ Stranger \notin seen[n]
           /\ nodeType[n] = "boot" => seen[n] = Node \ {n}
           /\ nodeType[n] = "light" \/ Cardinality(FullCapable) > 1 => seen[n] # {}
<1>1. /\ seen[n] \subseteq Node \ {n} /\ nodeType[n] \in NodeType
      /\ Cardinality(seen[n]) >= ExpectedPeers(n)
  BY DEF IInv, TypeOK, ResultsInOrder, Accepts
<1>2. Stranger \notin seen[n]
  BY <1>1, StrangerAssumption
<1>3. /\ IsFiniteSet(Node \ {n}) /\ Cardinality(Node \ {n}) = NodeCount - 1
  BY PeersFinite, FS_RemoveElement
<1>4. Cardinality(seen[n]) \in Nat /\ Cardinality(seen[n]) <= NodeCount - 1
      /\ (Cardinality(Node \ {n}) = Cardinality(seen[n]) => Node \ {n} = seen[n])
      /\ IsFiniteSet(seen[n])
  BY <1>1, <1>3, FS_Subset, FS_CardinalityType
<1>5. nodeType[n] = "boot" => seen[n] = Node \ {n}
  <2>1. nodeType[n] = "boot" => ExpectedPeers(n) = NodeCount - 1
    BY DEF ExpectedPeers
  <2> QED
    BY <1>1, <1>3, <1>4, <2>1, NodeCountAssumption
<1>6. IsFiniteSet(FullCapable) /\ Cardinality(FullCapable) \in Nat
      /\ Cardinality(FullCapable) <= NodeCount
  BY PeersFinite, FS_Subset, FS_CardinalityType DEF FullCapable
<1>7. nodeType[n] = "light" \/ Cardinality(FullCapable) > 1 => ExpectedPeers(n) >= 1
  BY <1>1, <1>6, NodeCountAssumption DEF ExpectedPeers, NodeType
<1>8. nodeType[n] = "light" \/ Cardinality(FullCapable) > 1 => seen[n] # {}
  <2>1. ExpectedPeers(n) \in Int
    BY <1>1, <1>6, NodeCountAssumption DEF ExpectedPeers, NodeType
  <2>2. Cardinality({}) = 0
    BY FS_EmptySet
  <2> QED
    BY <1>1, <1>4, <1>7, <2>1, <2>2
<1> QED
  BY <1>2, <1>5, <1>8

(* A pass that only compares numbers tells who is connected to whom        *)
(* (fullconnectivity.rs:136-151) and how many peers there are at least     *)
(* (peercount.rs:63-108).                                                  *)
THEOREM PassMeans_Invariant == Spec => []PassMeansPeersSeen
<1>1. IInv => PassMeansPeersSeen
  <2> SUFFICES ASSUME IInv, verdict = "passed" PROVE PassMeansPeersSeen
    BY DEF PassMeansPeersSeen
  <2>1. Len(results) = NodeCount /\ verdict = CheckVerdict(results)
    BY DEF IInv, VerdictIsOfResults
  <2>2. DOMAIN results = 1..Len(results)
    BY DEF IInv, TypeOK
  <2>3. \A n \in Node : results[n].passed
    BY <2>1, <2>2 DEF CheckVerdict, Node
  <2>4. AllPassed
    BY <2>1, <2>3 DEF AllPassed, Node
  <2>5. CASE check = "fullconnectivity"
    <3>1. \A n \in Node : Accepts(n, seen[n])
      BY <2>1, <2>3, <2>5 DEF IInv, Judged, Node
    <3> QED
      BY <2>5, <3>1, AcceptedSaw DEF PassMeansPeersSeen
  <2>6. CASE check = "peercount"
    <3>1. \A n \in Node : Cardinality(seen[n]) >= minPeers
      BY <2>1, <2>3, <2>6 DEF IInv, Judged, Node
    <3>2. totalPeers >= minPeers * NodeCount
      BY <2>1, <2>4, <2>6 DEF IInv, Totalled
    <3> QED
      BY <2>6, <3>1, <3>2 DEF PassMeansPeersSeen
  <2> QED
    BY <2>5, <2>6 DEF IInv, TypeOK
<1> QED
  BY <1>1, Invariant, PTL
-----------------------------------------------------------------------------
(* "Full nodes: Must connect to all other full-capable nodes"              *)
(* (fullconnectivity.rs:7) is kept where no light node can stand in for a  *)
(* full one, even when nodes disagree on who is connected to whom.         *)
THEOREM MeshWithoutLightNodes ==
    Spec => []((\A n \in Node : nodeType[n] # "light") => FullNodesSeeEachOther)
<1>1. IInv => ((\A n \in Node : nodeType[n] # "light") => FullNodesSeeEachOther)
  <2> SUFFICES ASSUME IInv, \A n \in Node : nodeType[n] # "light",
                      check = "fullconnectivity", verdict = "passed",
                      NEW m \in Node, NEW n \in Node, m # n
               PROVE  m \in seen[n]
    BY DEF FullNodesSeeEachOther, FullCapable
  <2>1. Len(results) = NodeCount /\ verdict = CheckVerdict(results) /\ DOMAIN results = 1..NodeCount
    BY DEF IInv, VerdictIsOfResults, TypeOK
  <2>2. Accepts(n, seen[n])
    BY <2>1 DEF CheckVerdict, IInv, Judged, Node
  <2>3. FullCapable = Node
    BY DEF FullCapable, IInv, TypeOK, NodeType
  <2>4. ExpectedPeers(n) = NodeCount - 1
    BY <2>3, PeersFinite DEF ExpectedPeers, IInv, TypeOK, NodeType
  <2>5. IsFiniteSet(Node \ {n}) /\ Cardinality(Node \ {n}) = NodeCount - 1
    BY PeersFinite, FS_RemoveElement
  <2>6. seen[n] \subseteq Node \ {n} /\ Cardinality(seen[n]) >= NodeCount - 1
    BY <2>2, <2>4 DEF Accepts, IInv, TypeOK, ResultsInOrder
  <2>7. seen[n] = Node \ {n}
    <3>1. /\ Cardinality(seen[n]) \in Nat /\ Cardinality(seen[n]) <= NodeCount - 1
          /\ Cardinality(Node \ {n}) = Cardinality(seen[n]) => Node \ {n} = seen[n]
      BY <2>5, <2>6, FS_Subset, FS_CardinalityType
    <3> QED
      BY <2>5, <2>6, <3>1, NodeCountAssumption
  <2> QED
    BY <2>7
<1> QED
  BY <1>1, Invariant, PTL
=============================================================================
