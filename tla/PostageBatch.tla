---------------------------- MODULE PostageBatch ----------------------------
(***************************************************************************)
(* How postage batches come to be on the nodes: prepare_batches of         *)
(* src/batch.rs on the full nodes, which main runs before any check, and   *)
(* then the checks, which all call get_or_create_batch (src/client/bee.rs) *)
(* at once, some of them on the same node.                                 *)
(*                                                                         *)
(* Both functions list the node's batches, and create one when none fits:  *)
(* two requests with the whole network in between.  The node itself is     *)
(* external: it confirms a created batch at some time, and batches fill    *)
(* up, expire or vanish by themselves.  A request to it can always fail.   *)
(***************************************************************************)
EXTENDS Naturals, FiniteSets

CONSTANTS
    Node,       \* the nodes that calls are made on
    Check,      \* the calls of get_or_create_batch made by checks
    Layouts,    \* which nodes are prepared and which checks call which node:
                \* the configurations considered
    Batch,      \* the batches that may ever exist
    MaxPolls,   \* max_attempts of the wait for a new batch (120 in the code)
    None

ASSUME NodeAssumption == IsFiniteSet(Node)
ASSUME LayoutsAssumption ==
    \A l \in Layouts : /\ l.full \subseteq Node
                       /\ DOMAIN l.target \subseteq Check
                       /\ l.target \in [DOMAIN l.target -> Node]
ASSUME MaxPollsAssumption == MaxPolls \in Nat \ {0}
ASSUME CallersAssumption == Node \cap Check = {}

VARIABLES
    batch,      \* what the nodes hold: Batch -> a record, or None
    phase,      \* "prepare", then "checks"
    full,       \* the nodes main prepares: the full ones, or none without a data check
    target,     \* the node each check calls
    at,         \* where each call is
    own,        \* the batch the call created, or None
    result,     \* the batch the call returned, or None
    polls,      \* attempts made by the wait
    offered,    \* the batches returned to any call when this one listed
    created, reused, prepared   \* what prepare_batches returned

callVars == <<at, own, result, polls, offered>>
countVars == <<created, reused, prepared>>
optVars == <<full, target>>
vars == <<batch, phase, optVars, callVars, countVars>>

(* prepare_batches has one call per full node, named after the node.  The  *)
(* checks call what they upload to: smoke, pushsync and retrieval a full   *)
(* node, soc a boot node too, and pullsync any node.                       *)
Caller == full \cup DOMAIN target

Known == {b \in Batch : batch[b] # None}

On(c) == IF c \in full THEN c ELSE target[c]

(* What the program reads of a batch: ours is a mutable batch with the     *)
(* asked label, spent one whose TTL is 0 or whose utilization has reached  *)
(* its capacity, gone one whose exists flag is false.                      *)
BatchRecord ==
    [node : Node, usable : BOOLEAN, ours : BOOLEAN, spent : BOOLEAN, gone : BOOLEAN]

ASSUME NoneAssumption == None \notin Batch /\ None \notin BatchRecord

(* The tests of bee.rs:681-717 and of batch.rs:136-159, which differ only  *)
(* in that batch.rs does not look at the exists flag.                      *)
Fits(b) == batch[b].usable /\ batch[b].ours /\ ~batch[b].spent

FitsAndExists(b) == Fits(b) /\ ~batch[b].gone

Returned == {result[c] : c \in Caller} \ {None}

Listed(n) == {b \in Known : batch[b].node = n}

(* An identity no batch has yet; which one makes no difference.            *)
Fresh(known) == CHOOSE b \in Batch : b \notin known

Init ==
    /\ \E r \in BatchRecord \cup {None} :
          batch = [b \in Batch |-> IF b = Fresh({}) THEN r ELSE None]
    /\ phase = "prepare"
    /\ \E l \in Layouts : full = l.full /\ target = l.target
    /\ at = [c \in Caller |-> IF c \in full THEN "find" ELSE "idle"]
    /\ own = [c \in Caller |-> None]
    /\ result = [c \in Caller |-> None]
    /\ polls = [c \in Caller |-> 0]
    /\ offered = [c \in Caller |-> {}]
    /\ created = 0
    /\ reused = 0
    /\ prepared = "pending"
-----------------------------------------------------------------------------
(* The node *)

Confirm(b) ==
    /\ b \in Known
    /\ ~batch[b].usable
    /\ batch' = [batch EXCEPT ![b].usable = TRUE]
    /\ UNCHANGED <<phase, optVars, callVars, countVars>>

Wear(b) ==
    /\ b \in Known
    /\ \/ ~batch[b].spent /\ batch' = [batch EXCEPT ![b].spent = TRUE]
       \/ ~batch[b].gone /\ batch' = [batch EXCEPT ![b].gone = TRUE]
    /\ UNCHANGED <<phase, optVars, callVars, countVars>>
-----------------------------------------------------------------------------
(* The calls *)

Move(c, from, to) == at[c] = from /\ at' = [at EXCEPT ![c] = to]

Return(c, b) == result' = [result EXCEPT ![c] = b]

(* A failed request ends the call, with `?`.                               *)
RequestFails(c) ==
    /\ at[c] \in {"find", "list", "create"}
    /\ at' = [at EXCEPT ![c] = "failed"]
    /\ UNCHANGED <<batch, phase, optVars, own, result, polls, offered, countVars>>

(* create_batch_on_node: its own look at the node's batches.               *)
FindBatch(c) ==
    /\ IF \E b \in Listed(On(c)) : Fits(b)
       THEN \E b \in Listed(On(c)) :
               Fits(b) /\ Return(c, b) /\ Move(c, "find", "reused")
       ELSE Move(c, "find", "list") /\ UNCHANGED result
    /\ UNCHANGED <<batch, phase, optVars, own, polls, offered, countVars>>

(* Mutant: a check does not look for a batch before it creates one.        *)
ListStampsBlindly(c) ==
    /\ Move(c, "list", "create")
    /\ offered' = [offered EXCEPT ![c] = Returned]
    /\ UNCHANGED <<batch, phase, optVars, own, result, polls, countVars>>

(* Mutant: usability is not asked of a listed batch.                       *)
ListStampsUnconfirmed(c) ==
    /\ IF \E b \in Listed(On(c)) : batch[b].ours
       THEN \E b \in Listed(On(c)) :
               batch[b].ours /\ Return(c, b) /\ Move(c, "list", "done")
       ELSE Move(c, "list", "create") /\ UNCHANGED result
    /\ offered' = [offered EXCEPT ![c] = Returned]
    /\ UNCHANGED <<batch, phase, optVars, own, polls, countVars>>

(* get_or_create_batch, the search.                                        *)
ListStamps(c) ==
    /\ IF \E b \in Listed(On(c)) : FitsAndExists(b)
       THEN \E b \in Listed(On(c)) :
               FitsAndExists(b) /\ Return(c, b) /\ Move(c, "list", "done")
       ELSE Move(c, "list", "create") /\ UNCHANGED result
    /\ offered' = [offered EXCEPT ![c] = Returned]
    /\ UNCHANGED <<batch, phase, optVars, own, polls, countVars>>

NewBatch(n) ==
    [node |-> n, usable |-> FALSE, ours |-> TRUE, spent |-> FALSE, gone |-> FALSE]

CreateStamp(c) ==
    /\ Move(c, "create", "poll")
    /\ Known # Batch
    /\ batch' = [batch EXCEPT ![Fresh(Known)] = NewBatch(On(c))]
    /\ own' = [own EXCEPT ![c] = Fresh(Known)]
    /\ UNCHANGED <<phase, optVars, result, polls, offered, countVars>>

(* Mutant: the wait has no last attempt.                                   *)
PollStampForever(c) ==
    /\ at[c] = "poll"
    /\ polls' = [polls EXCEPT ![c] = 1]
    /\ IF batch[own[c]].usable
       THEN Move(c, "poll", "done") /\ Return(c, own[c])
       ELSE UNCHANGED <<at, result>>
    /\ UNCHANGED <<batch, phase, optVars, own, offered, countVars>>

(* Mutant: the wait makes one attempt too many.                            *)
PollStampOneMore(c) ==
    /\ at[c] = "poll"
    /\ polls' = [polls EXCEPT ![c] = polls[c] + 1]
    /\ \/ /\ batch[own[c]].usable
          /\ Move(c, "poll", "done")
          /\ Return(c, own[c])
       \/ /\ at' = [at EXCEPT ![c] =
                       IF polls[c] = MaxPolls THEN "failed" ELSE "poll"]
          /\ UNCHANGED result
    /\ UNCHANGED <<batch, phase, optVars, own, offered, countVars>>

(* One attempt of the wait: get_stamp answers, or it fails and is retried  *)
(* like an answer that says "not yet"; the last attempt gives up.          *)
PollStamp(c) ==
    /\ at[c] = "poll"
    /\ polls' = [polls EXCEPT ![c] = polls[c] + 1]
    /\ \/ /\ batch[own[c]].usable
          /\ Move(c, "poll", "done")
          /\ Return(c, own[c])
       \/ /\ at' = [at EXCEPT ![c] =
                       IF polls[c] + 1 = MaxPolls THEN "failed" ELSE "poll"]
          /\ UNCHANGED result
    /\ UNCHANGED <<batch, phase, optVars, own, offered, countVars>>

Ended(c) == at[c] \in {"reused", "done", "failed"}

(* Mutant: one node without a batch makes the preparation an error.        *)
FinishPrepareStrict ==
    /\ phase = "prepare"
    /\ \A n \in full : Ended(n)
    /\ created' = Cardinality({n \in full : at[n] = "done"})
    /\ reused' = Cardinality({n \in full : at[n] = "reused"})
    /\ prepared' = IF created' = 0 \/ reused' = 0 THEN "err" ELSE "ok"
    /\ phase' = "checks"
    /\ at' = [c \in Caller |-> IF c \in full THEN at[c] ELSE "list"]
    /\ UNCHANGED <<batch, optVars, own, result, polls, offered>>

(* prepare_batches has awaited every node: whatever went through           *)
(* get_or_create_batch counts as created.  An error is only logged by      *)
(* main, so the checks start in any case.                                  *)
FinishPrepare ==
    /\ phase = "prepare"
    /\ \A n \in full : Ended(n)
    /\ created' = Cardinality({n \in full : at[n] = "done"})
    /\ reused' = Cardinality({n \in full : at[n] = "reused"})
    /\ prepared' = IF created' = 0 /\ reused' = 0 /\ full # {}
                    THEN "err" ELSE "ok"
    /\ phase' = "checks"
    /\ at' = [c \in Caller |-> IF c \in full THEN at[c] ELSE "list"]
    /\ UNCHANGED <<batch, optVars, own, result, polls, offered>>

Finished ==
    /\ phase = "checks"
    /\ \A c \in Caller : Ended(c)
    /\ UNCHANGED vars
-----------------------------------------------------------------------------
Call(c) ==
    RequestFails(c) \/ FindBatch(c) \/ ListStamps(c) \/ CreateStamp(c) \/ PollStamp(c)

Next ==
    \/ \E c \in Caller : Call(c)
    \/ FinishPrepare
    \/ \E b \in Batch : Confirm(b) \/ Wear(b)
    \/ Finished

(* A call goes on: its requests end, with an answer or by their timeout,   *)
(* and the wait sleeps one second between attempts.  Nothing is assumed of *)
(* the node.                                                               *)
Fairness ==
    /\ WF_vars(FinishPrepare)
    /\ \A c \in Node \cup Check : WF_vars(c \in Caller /\ Call(c))

SafetySpec == Init /\ [][Next]_vars

Spec == SafetySpec /\ Fairness
-----------------------------------------------------------------------------
TypeOK ==
    /\ batch \in [Batch -> BatchRecord \cup {None}]
    /\ phase \in {"prepare", "checks"}
    /\ full \subseteq Node
    /\ DOMAIN target \subseteq Check /\ target \in [DOMAIN target -> Node]
    /\ at \in [Caller -> {"idle", "find", "list", "create", "poll", "reused",
                          "done", "failed"}]
    /\ own \in [Caller -> Known \cup {None}]
    /\ result \in [Caller -> Known \cup {None}]
    /\ polls \in [Caller -> 0..MaxPolls]
    /\ offered \in [Caller -> SUBSET Known]
    /\ created \in Nat /\ reused \in Nat
    /\ prepared \in {"pending", "ok", "err"}

(* Whatever a call returns is a confirmed, mutable batch with the asked    *)
(* label, on the node that was asked, whether it was found or awaited.     *)
ReturnsUsableBatch ==
    \A c \in Caller : result[c] # None =>
        /\ batch[result[c]].usable
        /\ batch[result[c]].ours
        /\ batch[result[c]].node = On(c)

(* No batch is created where one that was handed out would do: when a call *)
(* has created a batch, every batch of that node that some call had got    *)
(* when this one listed is spent or gone.  So no check creates a batch on  *)
(* a prepared node whose batch is good ("prepare batches upfront to avoid  *)
(* per-check batch creation delays", main.rs:148), and of two calls that   *)
(* both create, each listed before the other had its batch.                *)
ReturnedBatchesAreReused ==
    \A c \in Caller : own[c] # None =>
        \A b \in offered[c] : batch[b].node = On(c) => ~FitsAndExists(b)

(* prepare_batches fails only when there are full nodes and none of them   *)
(* got a batch, and its counts add up to the nodes that did                *)
(* (batch.rs:62-69, 82-114).                                               *)
PreparationCounts ==
    phase = "checks" =>
        /\ created + reused = Cardinality({n \in full : result[n] # None})
        /\ prepared = "err" <=> full # {} /\ \A n \in full : result[n] = None

(* What each call knows when: a call that waits has created a batch of its *)
(* own on the node it was asked for and has attempts left; one that is     *)
(* about to create has listed no batch it could have used instead; and the *)
(* preparation is over before a check begins.                              *)
CallsInOrder ==
    /\ \A c \in Caller :
          /\ own[c] # None => batch[own[c]].ours /\ batch[own[c]].node = On(c)
          /\ at[c] \in {"idle", "find", "list", "create"} => own[c] = None /\ polls[c] = 0
          /\ at[c] = "poll" => own[c] # None /\ polls[c] < MaxPolls
          /\ at[c] \in {"done", "reused"} <=> result[c] # None
          /\ \A b \in offered[c] : batch[b].usable
          /\ at[c] = "create" =>
                \A b \in offered[c] : batch[b].node = On(c) => ~FitsAndExists(b)
    /\ \A c \in DOMAIN target : phase = "prepare" <=> at[c] = "idle"
    /\ phase = "checks" =>
         /\ \A n \in full : Ended(n)
         /\ created = Cardinality({n \in full : at[n] = "done"})
         /\ reused = Cardinality({n \in full : at[n] = "reused"})
         /\ prepared = IF created = 0 /\ reused = 0 /\ full # {} THEN "err" ELSE "ok"

(* Every call ends, even on a node that never confirms the new batch: the  *)
(* wait gives up after its last attempt (bee.rs:749-791).                  *)
EveryCallEnds == <>(\A c \in Caller : Ended(c))
=============================================================================
