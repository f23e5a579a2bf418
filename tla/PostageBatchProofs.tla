------------------------- MODULE PostageBatchProofs -------------------------
(***************************************************************************)
(* Proofs about PostageBatch, for every finite set of nodes, whichever of  *)
(* them are full, every set of calls on them, every set of batches and     *)
(* every number of polls, on nodes that confirm, spend and lose batches as *)
(* they like.                                                              *)
(***************************************************************************)
EXTENDS PostageBatch, FiniteSetTheorems, TLAPS

IInv == TypeOK /\ CallsInOrder /\ ReturnsUsableBatch /\ ReturnedBatchesAreReused

(* The node a call is made on is one of the nodes.                         *)
LEMMA OnNode ==
    ASSUME TypeOK, NEW c \in Caller
    PROVE  On(c) \in Node
  BY DEF TypeOK, On, Caller

(* Who calls which node is settled from the start.                         *)
LEMMA LayoutStays ==
    ASSUME UNCHANGED optVars
    PROVE  /\ full' = full /\ target' = target /\ Caller' = Caller
           /\ \A c : On(c)' = On(c)
  BY DEF optVars, Caller, On

(* What a record of a known batch is.                                      *)
LEMMA KnownRecord ==
    ASSUME TypeOK, NEW b \in Known
    PROVE  /\ b \in Batch /\ b # None
           /\ batch[b] \in BatchRecord
           /\ batch[b] # None
  BY NoneAssumption DEF TypeOK, Known

(* A fresh identity is a batch that is not known yet.                      *)
LEMMA FreshIsNew ==
    ASSUME Known # Batch
    PROVE  Fresh(Known) \in Batch \ Known
<1>1. \E b \in Batch : b \notin Known
  BY DEF Known
<1> QED
  BY <1>1 DEF Fresh
-----------------------------------------------------------------------------
(* What the node does by itself: a confirmed batch stays confirmed, and a  *)
(* batch that is spent or gone never fits again.                           *)
LEMMA NodeStep ==
    ASSUME IInv, NEW b \in Batch, Confirm(b) \/ Wear(b)
    PROVE  IInv'
<1> USE DEF IInv
<1>1. /\ b \in Known /\ batch[b] \in BatchRecord /\ batch[b] # None
      /\ UNCHANGED <<phase, optVars, callVars, countVars>>
  BY KnownRecord DEF Confirm, Wear
<1> USE <1>1, LayoutStays
<1>2. /\ batch' \in [Batch -> BatchRecord \cup {None}]
      /\ \A x \in Batch \ {b} : batch'[x] = batch[x]
      /\ batch'[b] \in BatchRecord
      /\ batch'[b].node = batch[b].node
      /\ batch'[b].ours = batch[b].ours
      /\ batch[b].usable => batch'[b].usable
      /\ batch[b].spent => batch'[b].spent
      /\ batch[b].gone => batch'[b].gone
  <2>1. CASE Confirm(b)
    BY <1>1, <2>1 DEF Confirm, TypeOK, BatchRecord
  <2>2. CASE Wear(b)
    <3>1. \/ batch' = [batch EXCEPT ![b] = [batch[b] EXCEPT !.spent = TRUE]]
          \/ batch' = [batch EXCEPT ![b] = [batch[b] EXCEPT !.gone = TRUE]]
      BY <2>2 DEF Wear
    <3>2. /\ [batch[b] EXCEPT !.spent = TRUE] \in BatchRecord
          /\ [batch[b] EXCEPT !.gone = TRUE] \in BatchRecord
      BY <1>1 DEF BatchRecord
    <3>3. batch \in [Batch -> BatchRecord \cup {None}] /\ b \in Batch
      BY DEF TypeOK
    <3>4. CASE batch' = [batch EXCEPT ![b] = [batch[b] EXCEPT !.spent = TRUE]]
      BY <1>1, <3>2, <3>3, <3>4 DEF BatchRecord
    <3>5. CASE batch' = [batch EXCEPT ![b] = [batch[b] EXCEPT !.gone = TRUE]]
      BY <1>1, <3>2, <3>3, <3>5 DEF BatchRecord
    <3> QED
      BY <3>1, <3>4, <3>5
  <2> QED
    BY <2>1, <2>2
<1>3. Known' = Known
  BY <1>1, <1>2, NoneAssumption DEF Known
<1>4. \A x \in Known :
        /\ batch'[x].node = batch[x].node
        /\ batch'[x].ours = batch[x].ours
        /\ batch[x].usable => batch'[x].usable
        /\ batch[x].usable => (FitsAndExists(x)' => FitsAndExists(x))
  BY <1>2 DEF Known, FitsAndExists, Fits
<1>5. TypeOK'
  BY <1>1, <1>2, <1>3 DEF TypeOK, callVars, countVars
<1>6. \A c \in Caller : On(c)' = On(c)
  BY <1>1 DEF On
<1>7. ReturnsUsableBatch'
  <2> SUFFICES ASSUME NEW c \in Caller, result[c] # None
               PROVE  /\ batch'[result[c]].usable /\ batch'[result[c]].ours
                      /\ batch'[result[c]].node = On(c)
    BY <1>1, <1>6 DEF ReturnsUsableBatch, callVars
  <2>1. result[c] \in Known
    BY DEF TypeOK
  <2> QED
    BY <1>4, <2>1 DEF ReturnsUsableBatch
<1>8. \A c \in Caller : \A x \in offered[c] :
        /\ x \in Known /\ batch[x].usable
        /\ batch'[x].node = batch[x].node /\ batch'[x].usable
        /\ FitsAndExists(x)' => FitsAndExists(x)
  <2> SUFFICES ASSUME NEW c \in Caller, NEW x \in offered[c]
               PROVE  x \in Known /\ batch[x].usable
    BY <1>4
  <2> QED
    BY DEF TypeOK, CallsInOrder
<1>9. ReturnedBatchesAreReused'
  <2> SUFFICES ASSUME NEW c \in Caller, own[c] # None, NEW x \in offered[c],
                      batch'[x].node = On(c)
               PROVE  ~FitsAndExists(x)'
    BY <1>1, <1>6 DEF ReturnedBatchesAreReused, callVars
  <2> QED
    BY <1>8 DEF ReturnedBatchesAreReused
<1>10. CallsInOrder'
  <2>1. \A c \in Caller :
          own[c] # None => batch'[own[c]].ours /\ batch'[own[c]].node = On(c)
    <3> SUFFICES ASSUME NEW c \in Caller, own[c] # None
                 PROVE  batch'[own[c]].ours /\ batch'[own[c]].node = On(c)
      OBVIOUS
    <3>1. own[c] \in Known
      BY DEF TypeOK
    <3> QED
      BY <1>4, <3>1 DEF CallsInOrder
  <2>2. \A c \in Caller :
          /\ \A x \in offered[c] : batch'[x].usable
          /\ at[c] = "create" =>
                \A x \in offered[c] : batch'[x].node = On(c) => ~FitsAndExists(x)'
    BY <1>8 DEF CallsInOrder
  <2>3. \A n \in full : Ended(n)' <=> Ended(n)
    BY <1>1 DEF Ended, callVars
  <2>4. \A c \in Caller :
          /\ own'[c] # None => batch'[own'[c]].ours /\ batch'[own'[c]].node = On(c)'
          /\ at'[c] \in {"idle", "find", "list", "create"} =>
               own'[c] = None /\ polls'[c] = 0
          /\ at'[c] = "poll" => own'[c] # None /\ polls'[c] < MaxPolls
          /\ at'[c] \in {"done", "reused"} <=> result'[c] # None
          /\ \A x \in offered'[c] : batch'[x].usable
          /\ at'[c] = "create" =>
                \A x \in offered'[c] : batch'[x].node = On(c)' => ~FitsAndExists(x)'
    BY <1>1, <1>6, <2>1, <2>2 DEF CallsInOrder, callVars
  <2> QED
    BY <1>1, <2>3, <2>4 DEF CallsInOrder, callVars, countVars
<1> QED
  BY <1>5, <1>7, <1>9, <1>10
-----------------------------------------------------------------------------
Calling == {"find", "list", "create", "poll"}

(* A call that goes on leaves the order of the phases and the counts of    *)
(* the preparation alone: full nodes call before the checks, which call    *)
(* after them.                                                             *)
LEMMA PhasesKept ==
    ASSUME IInv, NEW c \in Caller, at[c] \in Calling,
           NEW to \in {"list", "create", "poll", "reused", "done", "failed"},
           at' = [at EXCEPT ![c] = to],
           UNCHANGED <<phase, countVars>>
    PROVE  /\ \A k \in DOMAIN target : phase' = "prepare" <=> at'[k] = "idle"
           /\ phase' = "checks" =>
                /\ \A n \in full : Ended(n)'
                /\ created' = Cardinality({n \in full : at'[n] = "done"})
                /\ reused' = Cardinality({n \in full : at'[n] = "reused"})
                /\ prepared' = IF created' = 0 /\ reused' = 0 /\ full # {}
                               THEN "err" ELSE "ok"
<1> USE DEF IInv, Calling
<1> USE LayoutStays
<1>1. \A d \in Caller : at'[d] = IF d = c THEN to ELSE at[d]
  BY DEF TypeOK
<1>2. \A k \in DOMAIN target : k \in Caller
  BY DEF Caller
<1>3. \A k \in DOMAIN target : phase' = "prepare" <=> at'[k] = "idle"
  BY <1>1, <1>2 DEF CallsInOrder
<1>4. ASSUME phase' = "checks"
      PROVE  /\ \A n \in full : Ended(n)'
             /\ created' = Cardinality({n \in full : at'[n] = "done"})
             /\ reused' = Cardinality({n \in full : at'[n] = "reused"})
             /\ prepared' = IF created' = 0 /\ reused' = 0 /\ full # {}
                            THEN "err" ELSE "ok"
  <2>1. \A n \in full : Ended(n)
    BY <1>4 DEF CallsInOrder
  <2>2. c \notin full
    BY <2>1 DEF Ended
  <2>3. \A n \in full : at'[n] = at[n]
    BY <1>1, <2>2 DEF Caller
  <2>4. /\ {n \in full : at'[n] = "done"} = {n \in full : at[n] = "done"}
        /\ {n \in full : at'[n] = "reused"} = {n \in full : at[n] = "reused"}
    BY <2>3
  <2> QED
    BY <1>4, <2>1, <2>3, <2>4 DEF CallsInOrder, Ended, countVars
<1> QED
  BY <1>3, <1>4

(* What was returned to a call is known and usable, and on the node it was *)
(* asked of.                                                               *)
LEMMA ReturnedKnown ==
    ASSUME IInv, NEW b \in Returned
    PROVE  b \in Known /\ batch[b].usable
<1>1. PICK c \in Caller : b = result[c] /\ result[c] # None
  BY DEF Returned
<1> QED
  BY <1>1 DEF IInv, TypeOK, ReturnsUsableBatch

(* A call that creates no batch keeps the invariant, when it returns only  *)
(* what may be returned and creates only where nothing fits.               *)
LEMMA CallAnswered ==
    ASSUME IInv, NEW c \in Caller, at[c] \in Calling,
           NEW to \in {"list", "create", "poll", "reused", "done", "failed"},
           at' = [at EXCEPT ![c] = to],
           UNCHANGED <<batch, phase, optVars, own, countVars>>,
           polls' \in [Caller -> 0..MaxPolls],
           \A d \in Caller \ {c} : polls'[d] = polls[d],
           to \in {"list", "create"} => own[c] = None /\ polls'[c] = 0,
           to = "poll" => at[c] = "poll" /\ polls'[c] < MaxPolls,
           \/ offered' = offered /\ to # "create"
           \/ /\ offered' = [offered EXCEPT ![c] = Returned]
              /\ to = "create" => ~ \E b \in Listed(On(c)) : FitsAndExists(b)
              /\ own[c] = None,
           \/ /\ to \in {"reused", "done"}
              /\ \E b \in Known : /\ batch[b].usable /\ batch[b].ours
                                  /\ batch[b].node = On(c)
                                  /\ result' = [result EXCEPT ![c] = b]
           \/ to \notin {"reused", "done"} /\ result' = result
    PROVE  IInv'
<1> USE DEF IInv, Calling
<1> USE LayoutStays
<1>1. \A d \in Caller : at'[d] = IF d = c THEN to ELSE at[d]
  BY DEF TypeOK
<1>2. Known' = Known /\ (\A d \in Caller : On(d)' = On(d))
  BY DEF Known, On
<1>3. /\ result' \in [Caller -> Known \cup {None}]
      /\ \A d \in Caller \ {c} : result'[d] = result[d]
      /\ to \in {"reused", "done"} =>
           /\ result'[c] \in Known
           /\ batch[result'[c]].usable /\ batch[result'[c]].ours
           /\ batch[result'[c]].node = On(c)
      /\ to \notin {"reused", "done"} => result'[c] = None
  <2>1. result[c] = None
    BY DEF CallsInOrder
  <2> QED
    BY <2>1 DEF TypeOK
<1>4. /\ offered' \in [Caller -> SUBSET Known]
      /\ \A d \in Caller : \A b \in offered'[d] : b \in Known /\ batch[b].usable
      /\ \A d \in Caller : own[d] # None => offered'[d] = offered[d]
      /\ \A d \in Caller \ {c} : offered'[d] = offered[d]
  <2>1. Returned \subseteq Known /\ \A b \in Returned : batch[b].usable
    BY ReturnedKnown
  <2>2. offered \in [Caller -> SUBSET Known]
    BY DEF TypeOK
  <2>3. \A d \in Caller : \A b \in offered[d] : b \in Known /\ batch[b].usable
    BY <2>2 DEF CallsInOrder
  <2>4. CASE offered' = offered
    BY <2>2, <2>3, <2>4
  <2>5. CASE offered' = [offered EXCEPT ![c] = Returned] /\ own[c] = None
    BY <2>1, <2>2, <2>3, <2>5
  <2> QED
    BY <2>4, <2>5
<1>5. TypeOK'
  BY <1>2, <1>3, <1>4 DEF TypeOK, countVars
<1>6. ReturnsUsableBatch'
  BY <1>2, <1>3 DEF ReturnsUsableBatch
<1>7. \A b : FitsAndExists(b)' <=> FitsAndExists(b)
  BY DEF FitsAndExists, Fits
<1>8. ReturnedBatchesAreReused'
  <2> SUFFICES ASSUME NEW d \in Caller, own[d] # None, NEW b \in offered[d],
                      batch[b].node = On(d)
               PROVE  ~FitsAndExists(b)
    BY <1>2, <1>4, <1>7 DEF ReturnedBatchesAreReused
  <2> QED
    BY DEF ReturnedBatchesAreReused
<1>9. \A d \in Caller : at'[d] = "create" =>
        \A b \in offered'[d] : batch[b].node = On(d) => ~FitsAndExists(b)
  <2> SUFFICES ASSUME NEW d \in Caller, at'[d] = "create",
                      NEW b \in offered'[d], batch[b].node = On(d)
               PROVE  ~FitsAndExists(b)
    OBVIOUS
  <2>1. CASE d = c
    <3>1. ~ \E x \in Listed(On(c)) : FitsAndExists(x)
      BY <1>1, <2>1
    <3>2. b \in Listed(On(c))
      BY <1>4, <2>1 DEF Listed
    <3> QED
      BY <3>1, <3>2
  <2>2. CASE d # c
    BY <1>1, <1>4, <2>2 DEF CallsInOrder
  <2> QED
    BY <2>1, <2>2
<1>10. CallsInOrder'
  <2>1. \A d \in Caller :
          /\ own'[d] # None => batch'[own'[d]].ours /\ batch'[own'[d]].node = On(d)'
          /\ at'[d] \in {"idle", "find", "list", "create"} =>
               own'[d] = None /\ polls'[d] = 0
          /\ at'[d] = "poll" => own'[d] # None /\ polls'[d] < MaxPolls
          /\ at'[d] \in {"done", "reused"} <=> result'[d] # None
    BY <1>1, <1>2, <1>3, KnownRecord DEF CallsInOrder
  <2>2. \A d \in Caller :
          /\ \A b \in offered'[d] : batch'[b].usable
          /\ at'[d] = "create" =>
                \A b \in offered'[d] : batch'[b].node = On(d)' => ~FitsAndExists(b)'
    BY <1>2, <1>4, <1>7, <1>9
  <2> QED
    BY <2>1, <2>2, PhasesKept DEF CallsInOrder
<1> QED
  BY <1>5, <1>6, <1>8, <1>10

(* A new batch is ours, on the node that was asked, and fresh: nothing any *)
(* call knows changes.                                                     *)
LEMMA CreateStep ==
    ASSUME IInv, NEW c \in Caller, CreateStamp(c)
    PROVE  IInv'
<1> USE DEF IInv
<1> DEFINE new == Fresh(Known)
<1>1. new \in Batch /\ new \notin Known /\ new # None
  BY FreshIsNew, NoneAssumption DEF CreateStamp
<1>2. /\ at[c] = "create" /\ at' = [at EXCEPT ![c] = "poll"]
      /\ batch' = [batch EXCEPT ![new] = NewBatch(On(c))]
      /\ own' = [own EXCEPT ![c] = new]
      /\ UNCHANGED <<phase, optVars, result, polls, offered, countVars>>
  BY DEF CreateStamp, Move
<1> HIDE DEF new
<1> USE <1>2, LayoutStays
<1>3. NewBatch(On(c)) \in BatchRecord /\ NewBatch(On(c)) # None
  <2>1. On(c) \in Node
    BY OnNode
  <2>2. NewBatch(On(c)) \in BatchRecord
    BY <2>1 DEF NewBatch, BatchRecord
  <2> QED
    BY <2>2, NoneAssumption
<1>4. /\ batch' \in [Batch -> BatchRecord \cup {None}]
      /\ batch'[new] = NewBatch(On(c))
      /\ \A b \in Known : batch'[b] = batch[b]
      /\ Known' = Known \cup {new}
  BY <1>1, <1>2, <1>3 DEF TypeOK, Known
<1>5. /\ \A d \in Caller : at'[d] = IF d = c THEN "poll" ELSE at[d]
      /\ \A d \in Caller : own'[d] = IF d = c THEN new ELSE own[d]
      /\ \A d \in Caller : On(d)' = On(d)
  BY <1>2 DEF TypeOK, On
<1>6. TypeOK'
  BY <1>2, <1>4 DEF TypeOK, countVars
<1>7. ReturnsUsableBatch'
  <2> SUFFICES ASSUME NEW d \in Caller, result[d] # None
               PROVE  /\ batch'[result[d]].usable /\ batch'[result[d]].ours
                      /\ batch'[result[d]].node = On(d)
    BY <1>2, <1>5 DEF ReturnsUsableBatch
  <2>1. result[d] \in Known
    BY DEF TypeOK
  <2> QED
    BY <1>4, <2>1 DEF ReturnsUsableBatch
<1>8. \A d \in Caller : \A b \in offered[d] :
        b \in Known /\ batch'[b] = batch[b] /\ (FitsAndExists(b)' <=> FitsAndExists(b))
  <2> SUFFICES ASSUME NEW d \in Caller, NEW b \in offered[d]
               PROVE  b \in Known
    BY <1>4 DEF FitsAndExists, Fits
  <2> QED
    BY DEF TypeOK
<1>9. ReturnedBatchesAreReused'
  <2> SUFFICES ASSUME NEW d \in Caller, own'[d] # None, NEW b \in offered[d],
                      batch[b].node = On(d)
               PROVE  ~FitsAndExists(b)
    BY <1>2, <1>5, <1>8 DEF ReturnedBatchesAreReused
  <2>1. CASE d = c
    BY <1>2, <2>1 DEF CallsInOrder
  <2>2. CASE d # c
    BY <1>5, <2>2 DEF ReturnedBatchesAreReused
  <2> QED
    BY <2>1, <2>2
<1>10. CallsInOrder'
  <2>1. \A d \in Caller :
          own'[d] # None => batch'[own'[d]].ours /\ batch'[own'[d]].node = On(d)'
    <3> SUFFICES ASSUME NEW d \in Caller, own'[d] # None
                 PROVE  batch'[own'[d]].ours /\ batch'[own'[d]].node = On(d)
      BY <1>5
    <3>1. CASE d = c
      BY <1>4, <1>5, <3>1 DEF NewBatch
    <3>2. CASE d # c
      <4>1. own'[d] = own[d] /\ own[d] \in Known
        BY <1>5, <3>2 DEF TypeOK
      <4> QED
        BY <1>4, <4>1 DEF CallsInOrder
    <3> QED
      BY <3>1, <3>2
  <2>2. \A d \in Caller :
          /\ at'[d] \in {"idle", "find", "list", "create"} =>
               own'[d] = None /\ polls'[d] = 0
          /\ at'[d] = "poll" => own'[d] # None /\ polls'[d] < MaxPolls
          /\ at'[d] \in {"done", "reused"} <=> result'[d] # None
    BY <1>1, <1>2, <1>5, MaxPollsAssumption DEF CallsInOrder
  <2>3. \A d \in Caller :
          /\ \A x \in offered[d] : batch'[x].usable
          /\ at'[d] = "create" =>
                \A x \in offered[d] : batch'[x].node = On(d) => ~FitsAndExists(x)'
    BY <1>5, <1>8 DEF CallsInOrder
  <2> QED
    BY <1>2, <1>5, <2>1, <2>2, <2>3, PhasesKept DEF CallsInOrder, Calling
<1> QED
  BY <1>6, <1>7, <1>9, <1>10

(* Every step of a call keeps the invariant.                               *)
LEMMA CallStep ==
    ASSUME IInv, NEW c \in Caller, Call(c)
    PROVE  IInv'
<1> USE DEF Calling
<1>0. /\ polls \in [Caller -> 0..MaxPolls] /\ polls[c] \in Nat
      /\ at[c] \in {"find", "list", "create"} => own[c] = None /\ polls[c] = 0
      /\ at[c] = "poll" => own[c] # None /\ polls[c] < MaxPolls
      /\ own[c] # None => /\ own[c] \in Known /\ batch[own[c]].ours
                          /\ batch[own[c]].node = On(c)
  BY MaxPollsAssumption DEF IInv, TypeOK, CallsInOrder
<1>1. CASE RequestFails(c)
  BY <1>0, <1>1, CallAnswered DEF RequestFails
<1>2. CASE FindBatch(c)
  <2>1. /\ at[c] = "find"
        /\ UNCHANGED <<batch, phase, optVars, own, polls, offered, countVars>>
    BY <1>2 DEF FindBatch, Move
  <2>2. CASE \E b \in Listed(On(c)) : Fits(b)
    <3>1. PICK b \in Listed(On(c)) : Fits(b) /\ Return(c, b) /\ Move(c, "find", "reused")
      BY <1>2, <2>2 DEF FindBatch
    <3>2. b \in Known /\ batch[b].usable /\ batch[b].ours /\ batch[b].node = On(c)
      BY <3>1 DEF Listed, Fits
    <3>3. result' = [result EXCEPT ![c] = b] /\ at' = [at EXCEPT ![c] = "reused"]
      BY <3>1 DEF Return, Move
    <3> QED
      BY <1>0, <2>1, <3>2, <3>3, CallAnswered
  <2>3. CASE ~ \E b \in Listed(On(c)) : Fits(b)
    <3>1. at' = [at EXCEPT ![c] = "list"] /\ result' = result
      BY <1>2, <2>3 DEF FindBatch, Move
    <3> QED
      BY <1>0, <2>1, <3>1, CallAnswered
  <2> QED
    BY <2>2, <2>3
<1>3. CASE ListStamps(c)
  <2>1. /\ at[c] = "list"
        /\ offered' = [offered EXCEPT ![c] = Returned]
        /\ UNCHANGED <<batch, phase, optVars, own, polls, countVars>>
    BY <1>3 DEF ListStamps, Move
  <2>2. CASE \E b \in Listed(On(c)) : FitsAndExists(b)
    <3>1. PICK b \in Listed(On(c)) :
             FitsAndExists(b) /\ Return(c, b) /\ Move(c, "list", "done")
      BY <1>3, <2>2 DEF ListStamps
    <3>2. b \in Known /\ batch[b].usable /\ batch[b].ours /\ batch[b].node = On(c)
      BY <3>1 DEF Listed, FitsAndExists, Fits
    <3>3. result' = [result EXCEPT ![c] = b] /\ at' = [at EXCEPT ![c] = "done"]
      BY <3>1 DEF Return, Move
    <3> QED
      BY <1>0, <2>1, <3>2, <3>3, CallAnswered
  <2>3. CASE ~ \E b \in Listed(On(c)) : FitsAndExists(b)
    <3>1. at' = [at EXCEPT ![c] = "create"] /\ result' = result
      BY <1>3, <2>3 DEF ListStamps, Move
    <3> QED
      BY <1>0, <2>1, <2>3, <3>1, CallAnswered
  <2> QED
    BY <2>2, <2>3
<1>4. CASE CreateStamp(c)
  BY <1>4, CreateStep
<1>5. CASE PollStamp(c)
  <2>1. /\ at[c] = "poll" /\ own[c] \in Known
        /\ batch[own[c]].ours /\ batch[own[c]].node = On(c)
        /\ polls' = [polls EXCEPT ![c] = polls[c] + 1]
        /\ UNCHANGED <<batch, phase, optVars, own, offered, countVars>>
    BY <1>0, <1>5 DEF PollStamp
  <2>2. /\ polls' \in [Caller -> 0..MaxPolls]
        /\ \A d \in Caller \ {c} : polls'[d] = polls[d]
        /\ polls'[c] = polls[c] + 1 /\ polls[c] + 1 \in 0..MaxPolls
    BY <1>0, <2>1, MaxPollsAssumption
  <2>3. CASE batch[own[c]].usable /\ Move(c, "poll", "done") /\ Return(c, own[c])
    <3>1. at' = [at EXCEPT ![c] = "done"] /\ result' = [result EXCEPT ![c] = own[c]]
      BY <2>3 DEF Move, Return
    <3> QED
      BY <2>1, <2>2, <2>3, <3>1, CallAnswered
  <2>4. CASE /\ at' = [at EXCEPT ![c] =
                          IF polls[c] + 1 = MaxPolls THEN "failed" ELSE "poll"]
             /\ result' = result
    <3>1. CASE polls[c] + 1 = MaxPolls
      BY <2>1, <2>2, <2>4, <3>1, CallAnswered
    <3>2. CASE polls[c] + 1 # MaxPolls
      <4>1. polls'[c] < MaxPolls
        BY <2>2, <3>2, MaxPollsAssumption
      <4> QED
        BY <2>1, <2>2, <2>4, <3>2, <4>1, CallAnswered
    <3> QED
      BY <3>1, <3>2
  <2> QED
    BY <1>5, <2>3, <2>4 DEF PollStamp
<1> QED
  BY <1>1, <1>2, <1>3, <1>4, <1>5 DEF Call
-----------------------------------------------------------------------------
(* The end of the preparation counts the nodes' calls and lets the checks  *)
(* begin.                                                                  *)
LEMMA PreparationStep ==
    ASSUME IInv, FinishPrepare
    PROVE  IInv'
<1> USE DEF IInv
<1>1. /\ phase = "prepare" /\ phase' = "checks"
      /\ \A n \in full : Ended(n)
      /\ UNCHANGED <<batch, optVars, own, result, polls, offered>>
      /\ at' = [c \in Caller |-> IF c \in full THEN at[c] ELSE "list"]
      /\ created' = Cardinality({n \in full : at[n] = "done"})
      /\ reused' = Cardinality({n \in full : at[n] = "reused"})
      /\ prepared' = IF created' = 0 /\ reused' = 0 /\ full # {} THEN "err" ELSE "ok"
  BY DEF FinishPrepare
<1> USE <1>1, LayoutStays
<1>2. /\ \A n \in full : n \in Caller /\ n \notin DOMAIN target /\ at'[n] = at[n]
      /\ \A k \in DOMAIN target : /\ k \in Caller /\ at'[k] = "list" /\ at[k] = "idle"
                          /\ own[k] = None /\ polls[k] = 0 /\ result[k] = None
  <2>1. full \cap DOMAIN target = {}
    BY CallersAssumption DEF TypeOK
  <2> QED
    BY <1>1, <2>1 DEF Caller, CallsInOrder
<1>3. created' \in Nat /\ reused' \in Nat
  <2>1. \A S \in SUBSET full : Cardinality(S) \in Nat
    BY NodeAssumption, FS_Subset, FS_CardinalityType DEF TypeOK
  <2> QED
    BY <1>1, <2>1
<1>4. Known' = Known /\ (\A c \in Caller : On(c)' = On(c))
  BY <1>1 DEF Known, On
<1>5. TypeOK'
  BY <1>1, <1>2, <1>3, <1>4 DEF TypeOK, Caller
<1>6. ReturnsUsableBatch' /\ ReturnedBatchesAreReused'
  BY <1>1, <1>2, <1>4 DEF ReturnsUsableBatch, ReturnedBatchesAreReused, FitsAndExists, Fits
<1>7. CallsInOrder'
  <2>1. /\ {n \in full : at'[n] = "done"} = {n \in full : at[n] = "done"}
        /\ {n \in full : at'[n] = "reused"} = {n \in full : at[n] = "reused"}
        /\ \A n \in full : Ended(n)'
    BY <1>1, <1>2 DEF Ended
  <2>2. \A c \in Caller :
          /\ own'[c] # None => batch'[own'[c]].ours /\ batch'[own'[c]].node = On(c)'
          /\ at'[c] \in {"idle", "find", "list", "create"} =>
               own'[c] = None /\ polls'[c] = 0
          /\ at'[c] = "poll" => own'[c] # None /\ polls'[c] < MaxPolls
          /\ at'[c] \in {"done", "reused"} <=> result'[c] # None
    BY <1>1, <1>2, <1>4 DEF CallsInOrder, Caller
  <2>3. \A c \in Caller :
          /\ \A b \in offered'[c] : batch'[b].usable
          /\ at'[c] = "create" =>
                \A b \in offered'[c] : batch'[b].node = On(c)' => ~FitsAndExists(b)'
    BY <1>1, <1>2, <1>4 DEF CallsInOrder, Caller, FitsAndExists, Fits
  <2> QED
    BY <1>1, <1>2, <2>1, <2>2, <2>3 DEF CallsInOrder
<1> QED
  BY <1>5, <1>6, <1>7

(* The inductive invariant holds in every reachable state.                 *)
LEMMA Invariant == SafetySpec => []IInv
<1>1. Init => IInv
  <2> SUFFICES ASSUME Init PROVE IInv
    OBVIOUS
  <2>1. batch \in [Batch -> BatchRecord \cup {None}]
    BY DEF Init
  <2>0. /\ full \subseteq Node /\ DOMAIN target \subseteq Check
        /\ target \in [DOMAIN target -> Node]
    BY LayoutsAssumption DEF Init
  <2>2. /\ at \in [Caller -> {"idle", "find"}]
        /\ \A c \in Caller : /\ own[c] = None /\ result[c] = None
                             /\ polls[c] = 0 /\ offered[c] = {}
        /\ \A n \in full : n \in Caller /\ at[n] = "find"
        /\ \A k \in DOMAIN target : k \in Caller /\ at[k] = "idle"
    BY <2>0, CallersAssumption DEF Init, Caller
  <2>3. TypeOK
    BY <2>0, <2>1, <2>2, MaxPollsAssumption DEF Init, TypeOK
  <2>4. CallsInOrder
    BY <2>2 DEF Init, CallsInOrder
  <2> QED
    BY <2>2, <2>3, <2>4 DEF Init, IInv, ReturnsUsableBatch, ReturnedBatchesAreReused
<1>2. IInv /\ [Next]_vars => IInv'
  <2> SUFFICES ASSUME IInv, [Next]_vars PROVE IInv'
    OBVIOUS
  <2>1. CASE \E c \in Caller : Call(c)
    BY <2>1, CallStep
  <2>2. CASE FinishPrepare
    BY <2>2, PreparationStep
  <2>3. CASE \E b \in Batch : Confirm(b) \/ Wear(b)
    BY <2>3, NodeStep
  <2>4. CASE UNCHANGED vars
    <3>1. UNCHANGED optVars
      BY <2>4 DEF vars
    <3> QED
      BY <2>4, <3>1, LayoutStays
         DEF vars, callVars, countVars, IInv, TypeOK, CallsInOrder, Ended,
             ReturnsUsableBatch, ReturnedBatchesAreReused, Known, FitsAndExists, Fits
  <2> QED
    BY <2>1, <2>2, <2>3, <2>4 DEF Next, Finished
<1> QED
  BY <1>1, <1>2, PTL DEF SafetySpec
-----------------------------------------------------------------------------
(* Every variable keeps its type: in particular the wait for a new batch   *)
(* makes at most MaxPolls attempts.                                        *)
THEOREM TypeCorrect == SafetySpec => []TypeOK
<1>1. IInv => TypeOK
  BY DEF IInv
<1> QED
  BY <1>1, Invariant, PTL

(* What each call knows at each point is always right.                     *)
THEOREM CallsCorrect == SafetySpec => []CallsInOrder
<1>1. IInv => CallsInOrder
  BY DEF IInv
<1> QED
  BY <1>1, Invariant, PTL

(* Whatever a call returns is a confirmed batch with the asked label on    *)
(* the node that was asked.                                                *)
THEOREM ReturnsCorrect == SafetySpec => []ReturnsUsableBatch
<1>1. IInv => ReturnsUsableBatch
  BY DEF IInv
<1> QED
  BY <1>1, Invariant, PTL

(* No call creates a batch on a node where a batch that had been handed    *)
(* out before it listed is still good.                                     *)
THEOREM ReuseCorrect == SafetySpec => []ReturnedBatchesAreReused
<1>1. IInv => ReturnedBatchesAreReused
  BY DEF IInv
<1> QED
  BY <1>1, Invariant, PTL

(* The counts of the preparation add up to the nodes that got a batch, and *)
(* it fails only when there are nodes and none of them got one.            *)
THEOREM CountsCorrect == SafetySpec => []PreparationCounts
<1>1. IInv => PreparationCounts
  <2> SUFFICES ASSUME IInv, phase = "checks" PROVE PreparationCounts
    BY DEF PreparationCounts
  <2> DEFINE D == {n \in full : at[n] = "done"}
             R == {n \in full : at[n] = "reused"}
             G == {n \in full : result[n] # None}
  <2>1. /\ created = Cardinality(D) /\ reused = Cardinality(R)
        /\ prepared = IF created = 0 /\ reused = 0 /\ full # {} THEN "err" ELSE "ok"
    BY DEF IInv, CallsInOrder
  <2>2. G = D \cup R /\ D \cap R = {}
    BY DEF IInv, CallsInOrder, Caller
  <2>3. IsFiniteSet(D) /\ IsFiniteSet(R)
    BY NodeAssumption, FS_Subset DEF IInv, TypeOK
  <2>4. Cardinality(G) = Cardinality(D) + Cardinality(R)
    <3>1. Cardinality(D \cap R) = 0
      BY <2>2, FS_EmptySet
    <3>2. Cardinality(D \cup R) = Cardinality(D) + Cardinality(R) - Cardinality(D \cap R)
      BY <2>3, FS_Union
    <3>3. Cardinality(D) \in Nat /\ Cardinality(R) \in Nat
      BY <2>3, FS_CardinalityType
    <3>4. Cardinality(G) = Cardinality(D \cup R)
      BY <2>2
    <3> HIDE DEF D, R, G
    <3> QED
      BY <3>1, <3>2, <3>3, <3>4
  <2>5. (created = 0 <=> D = {}) /\ (reused = 0 <=> R = {})
    BY <2>1, <2>3, FS_EmptySet
  <2>6. G = {} <=> \A n \in full : result[n] = None
    OBVIOUS
  <2> QED
    BY <2>1, <2>2, <2>4, <2>5, <2>6 DEF PreparationCounts
<1> QED
  BY <1>1, Invariant, PTL
=============================================================================
