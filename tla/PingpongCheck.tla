--------------------------- MODULE PingpongCheck ---------------------------
(***************************************************************************)
(* The pingpong check, src/checks/pingpong.rs, on top of run_concurrent:   *)
(* one task per node asks the node for its addresses and its peers and has *)
(* it ping each peer, with retries.  A peer that never answers is only     *)
(* recorded; a node that cannot be asked, has no peers or reaches none of  *)
(* them fails its task and, by fail_fast, the check.                       *)
(*                                                                         *)
(* The states of a call refine the place "call" of ConcurrentTasks.  A     *)
(* peer is its position in the list of the node's peers.  Durations and    *)
(* the totals that only the message has are left out.                      *)
(***************************************************************************)
EXTENDS ConcurrentTasks, CheckReport

CONSTANTS
    MaxPeers,          \* bound: the longest list of peers considered
    Configured,        \* the values of `retries` a configuration may give
    DefaultRetries     \* default_options().retries

(* ConcurrentOpts::default(): the retries are those of the pings.          *)
ASSUME NoTaskRetries == Retries = 0

ASSUME PingAssumption ==
    MaxPeers \in Nat /\ Configured \subseteq Nat /\ DefaultRetries \in Nat

VARIABLES
    retries,       \* opts.retries
    stage,         \* how far the call of each node is
    peerCount,     \* peers.peers.len()
    successful,    \* successful_pings
    failed,        \* failed_pings
    tries,         \* attempts made at the current peer
    nodeResults, verdict,
    answered       \* observer: the peers that answered each node

callVars == <<stage, peerCount, successful, failed, tries, answered>>
reportVars == <<nodeResults, verdict>>
pingVars == <<vars, retries, callVars, reportVars>>

PingInit ==
    /\ Init
    /\ failFast
    /\ retries \in Configured \cup {DefaultRetries}
    /\ stage = [t \in Task |-> "addresses"]
    /\ peerCount = [t \in Task |-> 0]
    /\ successful = [t \in Task |-> 0]
    /\ failed = [t \in Task |-> 0]
    /\ tries = [t \in Task |-> 0]
    /\ answered = [t \in Task |-> {}]
    /\ nodeResults = <<>>
    /\ verdict = "none"

(* opts.retries.max(1)                                                     *)
MaxTries == IF retries = 0 THEN 1 ELSE retries
-----------------------------------------------------------------------------
(* The call of a node *)

Calling(t, place) == at[t] = "call" /\ stage[t] = place

GetAddresses(t) ==
    /\ Calling(t, "addresses")
    /\ stage' = [stage EXCEPT ![t] = "peers"]
    /\ UNCHANGED <<vars, peerCount, successful, failed, tries, answered>>

GetPeers(t) ==
    /\ Calling(t, "peers")
    /\ \E n \in 1..MaxPeers : peerCount' = [peerCount EXCEPT ![t] = n]
    /\ stage' = [stage EXCEPT ![t] = "ping"]
    /\ UNCHANGED <<vars, successful, failed, tries, answered>>

(* Either request fails, or the list of peers is empty.                    *)
CannotPing(t) ==
    /\ at[t] = "call"
    /\ stage[t] \in {"addresses", "peers"}
    /\ CallFails(t)
    /\ UNCHANGED callVars

Pinged(t) == successful[t] + failed[t]

PeerAnswers(t) ==
    /\ Calling(t, "ping")
    /\ Pinged(t) < peerCount[t]
    /\ successful' = [successful EXCEPT ![t] = successful[t] + 1]
    /\ tries' = [tries EXCEPT ![t] = 0]
    /\ answered' = [answered EXCEPT ![t] = answered[t] \cup {Pinged(t) + 1}]
    /\ UNCHANGED <<vars, stage, peerCount, failed>>

(* Mutant: after the last attempt the attempts at a peer start anew.       *)
PeerSilentForever(t) ==
    /\ Calling(t, "ping")
    /\ Pinged(t) < peerCount[t]
    /\ tries' = [tries EXCEPT ![t] = (tries[t] + 1) % MaxTries]
    /\ UNCHANGED <<vars, stage, peerCount, successful, failed, answered>>

(* A peer that was silent to every attempt is counted, and the next one is *)
(* pinged.                                                                 *)
PeerSilent(t) ==
    /\ Calling(t, "ping")
    /\ Pinged(t) < peerCount[t]
    /\ IF tries[t] + 1 = MaxTries
       THEN /\ failed' = [failed EXCEPT ![t] = failed[t] + 1]
            /\ tries' = [tries EXCEPT ![t] = 0]
       ELSE /\ tries' = [tries EXCEPT ![t] = tries[t] + 1]
            /\ UNCHANGED failed
    /\ UNCHANGED <<vars, stage, peerCount, successful, answered>>

(* Mutant: one silent peer is enough for the node to fail.                 *)
EndPingsStrictly(t) ==
    /\ Calling(t, "ping")
    /\ Pinged(t) = peerCount[t]
    /\ IF failed[t] > 0 THEN CallFails(t) ELSE CallSucceeds(t)
    /\ UNCHANGED callVars

EndPings(t) ==
    /\ Calling(t, "ping")
    /\ Pinged(t) = peerCount[t]
    /\ IF successful[t] = 0 /\ failed[t] > 0 THEN CallFails(t) ELSE CallSucceeds(t)
    /\ UNCHANGED callVars

PingStep(t) ==
    /\ \/ GetAddresses(t) \/ GetPeers(t) \/ CannotPing(t)
       \/ PeerAnswers(t) \/ PeerSilent(t) \/ EndPings(t)
    /\ UNCHANGED <<retries, reportVars>>

(* What the task does outside of its call.                                 *)
OutsideCall(t) ==
    /\ CheckCancelled(t) \/ EndFailed(t) \/ EndAborted(t)
    /\ UNCHANGED <<retries, callVars, reportVars>>
-----------------------------------------------------------------------------
Join == (JoinNext \/ Return) /\ UNCHANGED <<retries, callVars, reportVars>>

NodeResult(t) == IF failed[t] = 0 THEN Passed(t) ELSE Failed(t)

(* Mutant: a node that reaches some peer passes.                           *)
ReportPingsLeniently ==
    /\ outcome = "ok"
    /\ verdict = "none"
    /\ nodeResults' = [i \in DOMAIN results |-> Passed(results[i])]
    /\ verdict' = CheckVerdict(nodeResults')
    /\ UNCHANGED <<vars, retries, callVars>>

ReportPings ==
    /\ outcome = "ok"
    /\ verdict = "none"
    /\ nodeResults' = [i \in DOMAIN results |-> NodeResult(results[i])]
    /\ verdict' = CheckVerdict(nodeResults')
    /\ UNCHANGED <<vars, retries, callVars>>

(* CheckError::Failed, and no results.                                     *)
ReportError ==
    /\ outcome = "err"
    /\ verdict = "none"
    /\ verdict' = "error"
    /\ UNCHANGED <<vars, retries, callVars, nodeResults>>

Reported == verdict # "none" /\ UNCHANGED pingVars

PingNext ==
    \/ Join \/ ReportPings \/ ReportError \/ Reported
    \/ \E t \in Task : OutsideCall(t) \/ PingStep(t)

PingSafety == PingInit /\ [][PingNext]_pingVars

(* As in ConcurrentTasks; the report follows without an await.             *)
PingFairness ==
    /\ WF_pingVars(Join \/ ReportPings \/ ReportError)
    /\ \A t \in Task : WF_pingVars(OutsideCall(t) \/ PingStep(t))

PingSpec == PingSafety /\ PingFairness
-----------------------------------------------------------------------------
Peers(t) == 1..peerCount[t]

(* A verdict other than an error tells, for each node and once, whether it *)
(* reached all of its peers; and every node has reached some: a node that  *)
(* failed, or was stopped because another did, is never reported as good.  *)
VerdictTellsPings ==
    verdict \in {"passed", "failed"} =>
        /\ Len(nodeResults) = Cardinality(Task)
        /\ \A t \in Task :
              /\ answered[t] # {}
              /\ \E i \in DOMAIN nodeResults :
                    nodeResults[i] = [node |-> t, passed |-> answered[t] = Peers(t)]
        /\ verdict = "passed" <=> \A t \in Task : answered[t] = Peers(t)

(* The check loses all its results only for a node that reached none of    *)
(* its peers: "Individual ping failures are recorded but don't cause early *)
(* return" (pingpong.rs:164).                                              *)
ErrorMeansNodeLost ==
    verdict = "error" => \E t \in Task : at[t] = "failed" /\ answered[t] = {}

(* The check ends, whatever nodes and peers do or leave undone.            *)
CheckEnds == <>(verdict # "none")
=============================================================================
