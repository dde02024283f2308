-------------------- MODULE BottledWaterRefinementProofs --------------------
(***************************************************************************)
(* Proof that the producer implements the checkpoint contract of           *)
(* CheckpointAbstract under the refinement mapping of BottledWater         *)
(* (fsync <- fsync_lsn, sent <- produced, done <- kafka \cup lost): the     *)
(* initial state maps to the initial state, on_row_event is an Emit of the *)
(* new row, and every other step is a Settle or a stutter.                 *)
(***************************************************************************)
EXTENDS BottledWaterCheckpointProofs

(* A finished row was produced: the broker and the error policy only see   *)
(* rows a message was due for.                                             *)
FinishedProduced == kafka \cup lost \subseteq produced

RInv == CInv /\ FinishedProduced

-----------------------------------------------------------------------------
(* The rows a step finishes are rows of envelopes already produced.        *)

LEMMA InitRInv == Init => RInv
BY InitCInv DEF Init, RInv, FinishedProduced

LEMMA NextFinished ==
  ASSUME CInv, FinishedProduced, [Next]_vars
  PROVE  FinishedProduced'
<1>1. InflightProduced /\ RetryFresh
  BY SlotAccountingParts DEF CInv, IInv
<1>2. CASE \E r \in Rels : OnRowEvent(r)
  BY <1>2 DEF OnRowEvent, SendKafkaMsg, Produce, SendFails, Enqueued,
              FinishedProduced
<1>3. CASE SendRetry
  BY <1>1, <1>3 DEF SendRetry, SendFails, Enqueued, RetryFresh,
                    FinishedProduced
<1>4. CASE \E e \in inflight, ok \in BOOLEAN : OnDeliverMsg(e, ok)
  BY <1>1, <1>4 DEF OnDeliverMsg, InflightProduced, FinishedProduced, histVars,
                    ringVars
<1>5. CASE ~(\E r \in Rels : OnRowEvent(r)) /\ ~SendRetry
           /\ ~(\E e \in inflight, ok \in BOOLEAN : OnDeliverMsg(e, ok))
  <2>1. UNCHANGED <<kafka, lost, produced>>
    BY <1>5 DEF Next, vars, histVars, OnBeginTxn, BeginResume, OnCommitTxn,
                OnTableSchema, OnDeleteUnkeyed, StaleBackpressureDone,
                OnClientError, ShutdownSignal, ShutdownExit, Terminated
  <2>. QED  BY <2>1 DEF FinishedProduced
<1>. QED  BY <1>2, <1>3, <1>4, <1>5

LEMMA NextRInv == RInv /\ [Next]_vars => RInv'
BY NextCInv, NextFinished DEF RInv

(* No step forgets a finished row. *)
LEMMA HistGrows ==
  ASSUME [Next]_vars
  PROVE  kafka \subseteq kafka' /\ lost \subseteq lost'
<1>1. CASE \E r \in Rels : OnRowEvent(r)
  BY <1>1 DEF OnRowEvent, SendKafkaMsg, Produce, SendFails, Enqueued
<1>2. CASE SendRetry
  BY <1>2 DEF SendRetry, SendFails, Enqueued
<1>3. CASE \E e \in inflight, ok \in BOOLEAN : OnDeliverMsg(e, ok)
  BY <1>3 DEF OnDeliverMsg
<1>4. CASE ~(\E r \in Rels : OnRowEvent(r)) /\ ~SendRetry
           /\ ~(\E e \in inflight, ok \in BOOLEAN : OnDeliverMsg(e, ok))
  BY <1>4 DEF Next, vars, histVars, OnBeginTxn, BeginResume, OnCommitTxn,
              OnTableSchema, OnDeleteUnkeyed, StaleBackpressureDone,
              OnClientError, ShutdownSignal, ShutdownExit, Terminated
<1>. QED  BY <1>1, <1>2, <1>3, <1>4

-----------------------------------------------------------------------------
(***************************************************************************)
(* on_row_event emits its new row: the row is fresh (its number exceeds    *)
(* every row of the open transaction so far), its transaction lies beyond *)
(* fsync_lsn, and it is finished at once only when send_kafka_msg gives it *)
(* up.                                                                     *)
(***************************************************************************)
LEMMA RowEventEmits ==
  ASSUME RInv, NEW r \in Rels, OnRowEvent(r)
  PROVE  Checkpoint!Next
<1> DEFINE e == [txn |-> upTxn, row |-> upRows + 1, slot |-> xact_head]
<1>1. /\ TypeInv /\ RowsNumbered /\ FsyncBelowUp
  BY SlotAccountingParts, CheckpointOrderParts DEF RInv, CInv, IInv
<1>2. /\ upIn /\ upRows < MaxRows
      /\ produced' = produced \cup {RowOf(e)}
      /\ UNCHANGED fsync_lsn
      /\ kafka' = kafka
      /\ lost' \in {lost, lost \cup {RowOf(e)}}
  BY DEF OnRowEvent, SendKafkaMsg, Produce, SendFails, Enqueued
<1>3. RowOf(e) \in RowId
  BY <1>1, <1>2, BoundsAssumption DEF TypeInv, TypeOK, RowId, RowOf, Txns
<1>4. RowOf(e) \notin produced
  <2> SUFFICES ASSUME RowOf(e) \in produced PROVE FALSE
    OBVIOUS
  <2>1. upTxn \in Nat /\ upRows \in Nat
    BY <1>1 DEF TypeInv, TypeOK
  <2>. QED  BY <1>1, <2>1 DEF RowsNumbered, RowOf
<1>5. Lsn(RowOf(e).txn) > fsync_lsn
  BY <1>1 DEF FsyncBelowUp, RowOf, Lsn, TypeInv, TypeOK
<1>6. Checkpoint!Emit(RowOf(e))
  BY <1>2, <1>3, <1>4, <1>5 DEF Checkpoint!Emit
<1>. QED  BY <1>3, <1>6 DEF Checkpoint!Next

(***************************************************************************)
(* Every other step leaves the rows sent alone, finishes rows, and moves   *)
(* fsync_lsn only forward and only over finished rows: a Settle.           *)
(***************************************************************************)
LEMMA OtherStepSettles ==
  ASSUME RInv, RInv', DurableCheckpoint', [Next]_vars,
         ~\E r \in Rels : OnRowEvent(r)
  PROVE  Checkpoint!Settle
<1>1. fsync_lsn' \in Nat /\ fsync_lsn' >= fsync_lsn
  <2>1. fsync_lsn' >= fsync_lsn
    BY NextCInv DEF RInv
  <2>2. fsync_lsn' \in Nat
    BY DEF RInv, CInv, IInv, TypeInv, TypeOK
  <2>. QED  BY <2>1, <2>2
<1>2. produced' = produced
  BY DEF Next, vars, histVars, OnBeginTxn, BeginResume, OnCommitTxn,
         OnTableSchema, OnDeleteUnkeyed, SendRetry, StaleBackpressureDone,
         OnDeliverMsg, OnClientError, ShutdownSignal, ShutdownExit, Terminated
<1>3. kafka \cup lost \subseteq kafka' \cup lost'
  BY HistGrows
<1>4. kafka' \cup lost' \subseteq produced
  BY <1>2 DEF RInv, FinishedProduced
<1>5. \A x \in produced : Lsn(x.txn) <= fsync_lsn' => x \in kafka' \cup lost'
  BY <1>2 DEF DurableCheckpoint
<1>6. produced \subseteq RowId
  BY DEF RInv, CInv, IInv, TypeInv, TypeOK
<1>. QED  BY <1>1, <1>2, <1>3, <1>4, <1>5, <1>6
          DEF Checkpoint!Settle, Checkpoint!Covered

LEMMA RefinementStep ==
  ASSUME RInv, RInv', DurableCheckpoint', [Next]_vars
  PROVE  [Checkpoint!Next]_Checkpoint!vars
<1>1. CASE \E r \in Rels : OnRowEvent(r)
  BY <1>1, RowEventEmits
<1>2. CASE ~\E r \in Rels : OnRowEvent(r)
  BY <1>2, OtherStepSettles DEF Checkpoint!Next
<1>. QED  BY <1>1, <1>2

-----------------------------------------------------------------------------
(***************************************************************************)
(* The producer implements the checkpoint contract, for every buffer       *)
(* length, queue capacity, error policy and set of faults: fsync_lsn only  *)
(* moves forward over rows the broker acknowledged or the error policy    *)
(* gave up (maybe_checkpoint, on_deliver_msg), and send_kafka_msg never    *)
(* produces a row at or below it.                                          *)
(***************************************************************************)
THEOREM RefinesCheckpoint == Spec => ImplementsCheckpoint
<1>1. Init => Checkpoint!Init
  BY DEF Init, Checkpoint!Init
<1>2. RInv /\ RInv' /\ DurableCheckpoint' /\ [Next]_vars
        => [Checkpoint!Next]_Checkpoint!vars
  BY RefinementStep
<1>. QED
  BY <1>1, <1>2, InitRInv, NextRInv, DurableCheckpointHolds, PTL
  DEF Spec, ImplementsCheckpoint, Checkpoint!Spec
=============================================================================
