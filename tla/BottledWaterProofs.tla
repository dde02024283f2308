------------------------- MODULE BottledWaterProofs -------------------------
(***************************************************************************)
(* Proofs about BottledWater for every value of the constants.             *)
(***************************************************************************)
EXTENDS BottledWater, TLAPS

(***************************************************************************)
(* TypeOK is not inductive by itself: BeginResume and OnRowEvent use       *)
(* upTxn as a transaction number (it is MaxTxn + 1 once the upstream is    *)
(* done), and SendRetry hands sendEnv to librdkafka.  TypeInv adds that an *)
(* open upstream transaction has a number in Txns, that the begin          *)
(* backpressure loop runs inside one, and that the send backpressure loop  *)
(* holds a real envelope.                                                  *)
(***************************************************************************)
TypeInv ==
  /\ TypeOK
  /\ upIn => upTxn <= MaxTxn
  /\ pc = "begin_bp" => upIn
  /\ pc = "send_bp" => sendEnv \in Env

XactInfo == [xid : Txns, pending : Int, commit : Nat]

LEMMA ModSlot ==
  ASSUME NEW n \in Nat
  PROVE  n % XactListLen \in Slots
BY XactListLenAssumption DEF Slots

LEMMA LengthType ==
  ASSUME xact_head \in Slots, xact_tail \in Slots
  PROVE  /\ Length \in Nat
         /\ DrainBound \in Nat
<1>1. XactListLen + xact_head + 1 - xact_tail \in Nat
  BY XactListLenAssumption DEF Slots
<1>2. Length \in Slots
  BY <1>1, ModSlot DEF Length
<1>. QED
  BY <1>2, XactListLenAssumption DEF DrainBound, Slots

(* Setting one field of one slot keeps the slot type.                      *)
LEMMA SetPendingType ==
  ASSUME NEW list \in [Slots -> XactInfo], NEW s \in Slots, NEW d \in Int
  PROVE  [list EXCEPT ![s].pending = @ + d] \in [Slots -> XactInfo]
<1>1. [list[s] EXCEPT !.pending = list[s].pending + d] \in XactInfo
  BY DEF XactInfo
<1>. QED
  BY <1>1

LEMMA SetCommitType ==
  ASSUME NEW list \in [Slots -> XactInfo], NEW s \in Slots, NEW c \in Nat
  PROVE  [list EXCEPT ![s].commit = c] \in [Slots -> XactInfo]
<1>1. [list[s] EXCEPT !.commit = c] \in XactInfo
  BY DEF XactInfo
<1>. QED
  BY <1>1

(***************************************************************************)
(* maybe_checkpoint keeps the buffer's types, whichever k it drains.       *)
(***************************************************************************)
LEMMA MaybeCheckpointType ==
  ASSUME xact_head \in Slots, xact_tail \in Slots, fsync_lsn \in Nat,
         NEW list \in [Slots -> XactInfo],
         MaybeCheckpoint(list)
  PROVE  /\ xact_list' \in [Slots -> XactInfo]
         /\ xact_head' = xact_head
         /\ xact_tail' \in Slots
         /\ fsync_lsn' \in Nat
         /\ taking_snapshot' \in BOOLEAN
<1>1. PICK k \in 0 .. DrainBound :
        /\ xact_list' = list
        /\ xact_tail' = (xact_tail + k) % XactListLen
        /\ fsync_lsn' = IF k = 0 THEN fsync_lsn ELSE SlotAt(list, k - 1).commit
        /\ taking_snapshot' \in BOOLEAN
        /\ xact_head' = xact_head
  BY DEF MaybeCheckpoint
<1>2. k \in Nat
  BY LengthType
<1>3. xact_tail + k \in Nat
  BY <1>2 DEF Slots
<1>4. xact_tail' \in Slots
  BY <1>1, <1>3, ModSlot
<1>5. fsync_lsn' \in Nat
  <2>1. CASE k = 0
    BY <1>1, <2>1
  <2>2. CASE k # 0
    <3>1. xact_tail + (k - 1) \in Nat
      BY <1>2, <2>2 DEF Slots
    <3>2. (xact_tail + (k - 1)) % XactListLen \in Slots
      BY <3>1, ModSlot
    <3>3. SlotAt(list, k - 1) \in XactInfo
      BY <3>2 DEF SlotAt
    <3>4. SlotAt(list, k - 1).commit \in Nat
      BY <3>3 DEF XactInfo
    <3>. QED
      BY <1>1, <2>2, <3>4
  <2>. QED
    BY <2>1, <2>2
<1>. QED
  BY <1>1, <1>4, <1>5

-----------------------------------------------------------------------------
LEMMA InitTypeInv == Init => TypeInv
<1> SUFFICES ASSUME Init PROVE TypeInv
  OBVIOUS
<1>1. XactListLen - 1 \in Slots /\ 0 \in Slots
  BY XactListLenAssumption DEF Slots
<1>2. xact_list \in [Slots -> [xid : Txns, pending : Int, commit : Nat]]
  BY BoundsAssumption DEF Init, Txns
<1>3. upTxn \in 0 .. MaxTxn + 1 /\ upRows \in 0 .. MaxRows
  BY BoundsAssumption DEF Init
<1>4. /\ pc \in PollPoints \cup {"exited"}
      /\ sendEnv \in Env \cup {NoEnv}
      /\ tables \subseteq Rels /\ announced \subseteq Rels
      /\ inflight \subseteq Env
      /\ kafka \subseteq RowId /\ lost \subseteq RowId /\ produced \subseteq RowId
  BY DEF Init, PollPoints
<1>5. /\ xact_head \in Slots /\ xact_tail \in Slots /\ fsync_lsn \in Nat
      /\ taking_snapshot \in BOOLEAN /\ shutdown \in BOOLEAN
      /\ slotDropped \in BOOLEAN /\ upIn \in BOOLEAN
  BY <1>1 DEF Init
<1>6. TypeOK
  BY <1>2, <1>3, <1>4, <1>5 DEF TypeOK
<1>. QED
  BY <1>6 DEF Init, TypeInv

LEMMA BeginSlotType ==
  ASSUME xact_list \in [Slots -> XactInfo], xact_head \in Slots,
         upTxn \in Txns, BeginSlot
  PROVE  /\ xact_list' \in [Slots -> XactInfo]
         /\ xact_head' \in Slots
         /\ xact_tail' = xact_tail
         /\ fsync_lsn' = fsync_lsn
         /\ taking_snapshot' = taking_snapshot
<1>1. xact_head + 1 \in Nat
  BY DEF Slots
<1>2. (xact_head + 1) % XactListLen \in Slots
  BY <1>1, ModSlot
<1>3. [xid |-> XidOf(upTxn), pending |-> 0, commit |-> 0] \in XactInfo
  BY DEF XidOf, XactInfo
<1>. QED
  BY <1>2, <1>3 DEF BeginSlot

(***************************************************************************)
(* TypeInv of the next state from its conjuncts, so that each action only  *)
(* has to establish the facts about the variables it changes.             *)
(***************************************************************************)
LEMMA PrimedTypeInv ==
  ASSUME xact_list' \in [Slots -> XactInfo], xact_head' \in Slots,
         xact_tail' \in Slots, fsync_lsn' \in Nat, taking_snapshot' \in BOOLEAN,
         tables' \subseteq Rels, inflight' \subseteq Env,
         pc' \in PollPoints \cup {"exited"}, sendEnv' \in Env \cup {NoEnv},
         shutdown' \in BOOLEAN, slotDropped' \in BOOLEAN,
         upTxn' \in 0 .. MaxTxn + 1, upIn' \in BOOLEAN, upRows' \in 0 .. MaxRows,
         announced' \subseteq Rels, kafka' \subseteq RowId, lost' \subseteq RowId,
         produced' \subseteq RowId,
         upIn' => upTxn' <= MaxTxn, pc' = "begin_bp" => upIn',
         pc' = "send_bp" => sendEnv' \in Env
  PROVE  TypeInv'
BY Zenon DEF TypeInv, TypeOK, XactInfo

LEMMA OnBeginTxnTypeInv == TypeInv /\ OnBeginTxn => TypeInv'
<1> SUFFICES ASSUME TypeInv, OnBeginTxn PROVE TypeInv'
  OBVIOUS
<1>1. upTxn \in Txns /\ upTxn <= MaxTxn
  BY BoundsAssumption DEF OnBeginTxn, TypeInv, TypeOK, Txns
<1>2. /\ upIn' = TRUE /\ upRows' = 0 /\ upTxn' = upTxn
      /\ UNCHANGED <<tables, inflight, sendEnv, shutdown, slotDropped,
                     announced, kafka, lost, produced>>
  BY DEF OnBeginTxn, histVars
<1>3. upRows' \in 0 .. MaxRows
  BY <1>2, BoundsAssumption
<1>4. CASE Full
  <2>1. pc' = "begin_bp" /\ UNCHANGED ringVars
    BY <1>4 DEF OnBeginTxn
  <2>. QED
    BY <1>1, <1>2, <1>3, <2>1, PrimedTypeInv DEF TypeInv, TypeOK, XactInfo,
       ringVars, PollPoints
<1>5. CASE ~Full
  <2>1. BeginSlot /\ pc' = "loop"
    BY <1>5 DEF OnBeginTxn
  <2>2. /\ xact_list' \in [Slots -> XactInfo] /\ xact_head' \in Slots
        /\ xact_tail' = xact_tail /\ fsync_lsn' = fsync_lsn
        /\ taking_snapshot' = taking_snapshot
    BY <1>1, <2>1, BeginSlotType DEF TypeInv, TypeOK, XactInfo
  <2>. QED
    BY <1>1, <1>2, <1>3, <2>1, <2>2, PrimedTypeInv DEF TypeInv, TypeOK,
       PollPoints
<1>. QED
  BY <1>4, <1>5

LEMMA BeginResumeTypeInv == TypeInv /\ BeginResume => TypeInv'
<1> SUFFICES ASSUME TypeInv, BeginResume PROVE TypeInv'
  OBVIOUS
<1>1. upTxn \in Txns
  BY DEF BeginResume, TypeInv, TypeOK, Txns
<1>. QED
  BY <1>1, BeginSlotType DEF BeginResume, TypeInv, TypeOK, XactInfo,
     PollPoints, upVars, histVars

LEMMA OnCommitTxnTypeInv == TypeInv /\ OnCommitTxn => TypeInv'
<1> SUFFICES ASSUME TypeInv, OnCommitTxn PROVE TypeInv'
  OBVIOUS
<1> DEFINE list == [xact_list EXCEPT ![xact_head].commit = Lsn(upTxn)]
<1>1. upTxn \in Nat /\ upTxn <= MaxTxn
  BY BoundsAssumption DEF OnCommitTxn, TypeInv, TypeOK
<1>2. list \in [Slots -> XactInfo]
  <2>1. xact_list \in [Slots -> XactInfo] /\ xact_head \in Slots
    BY DEF TypeInv, TypeOK, XactInfo
  <2>2. Lsn(upTxn) \in Nat
    BY <1>1 DEF Lsn
  <2>. QED
    BY <2>1, <2>2, SetCommitType
<1>3. MaybeCheckpoint(list)
  BY DEF OnCommitTxn
<1>4. /\ xact_list' \in [Slots -> XactInfo] /\ xact_head' = xact_head
      /\ xact_tail' \in Slots /\ fsync_lsn' \in Nat
      /\ taking_snapshot' \in BOOLEAN
  BY <1>2, <1>3, MaybeCheckpointType DEF TypeInv, TypeOK
<1>5. /\ upIn' = FALSE /\ upTxn' = upTxn + 1
      /\ UNCHANGED <<tables, inflight, pc, sendEnv, shutdown, slotDropped,
                     upRows, announced, kafka, lost, produced>>
  BY DEF OnCommitTxn, histVars
<1>6. upTxn' \in 0 .. MaxTxn + 1
  BY <1>1, <1>5, BoundsAssumption
<1>7. pc # "begin_bp"
  BY DEF OnCommitTxn
<1>. QED
  BY <1>4, <1>5, <1>6, <1>7, PrimedTypeInv DEF TypeInv, TypeOK

LEMMA OnTableSchemaTypeInv ==
  ASSUME NEW r \in Rels
  PROVE  TypeInv /\ OnTableSchema(r) => TypeInv'
BY DEF OnTableSchema, CallbackReturn, ExitNicely, TypeInv, TypeOK, PollPoints,
       ringVars, histVars

(***************************************************************************)
(* The envelope of a row event is an Env, and each way send_kafka_msg can  *)
(* end keeps the types of the producer's state.                            *)
(***************************************************************************)
LEMMA OnRowEventTypeInv ==
  ASSUME NEW r \in Rels
  PROVE  TypeInv /\ OnRowEvent(r) => TypeInv'
<1> SUFFICES ASSUME TypeInv, OnRowEvent(r) PROVE TypeInv'
  OBVIOUS
<1> DEFINE e == [txn |-> upTxn, row |-> upRows + 1, slot |-> xact_head]
<1>1. e \in Env
  BY BoundsAssumption DEF OnRowEvent, TypeInv, TypeOK, Env, Txns
<1>2. SendKafkaMsg(e, r) /\ produced' = produced \cup {RowOf(e)}
  BY DEF OnRowEvent
<1>3. xact_list' \in [Slots -> XactInfo]
  BY <1>2 DEF SendKafkaMsg, TypeInv, TypeOK, XactInfo
<1>4. RowOf(e) \in RowId
  BY <1>1 DEF RowOf, Env, RowId
<1>5. /\ inflight' \subseteq Env
      /\ lost' \subseteq RowId
      /\ kafka' \subseteq RowId
      /\ pc' \in PollPoints \cup {"exited"}
      /\ sendEnv' \in Env \cup {NoEnv}
      /\ slotDropped' \in BOOLEAN
      /\ pc' = "send_bp" => sendEnv' \in Env
  BY <1>1, <1>2, <1>4
  DEF SendKafkaMsg, Produce, Enqueued, SendFails, CallbackReturn, ExitNicely,
      TypeInv, TypeOK, PollPoints
<1>. QED
  BY <1>2, <1>3, <1>4, <1>5, BoundsAssumption
  DEF OnRowEvent, TypeInv, TypeOK, XactInfo

LEMMA OnDeleteUnkeyedTypeInv ==
  ASSUME NEW r \in Rels
  PROVE  TypeInv /\ OnDeleteUnkeyed(r) => TypeInv'
<1> SUFFICES ASSUME TypeInv, OnDeleteUnkeyed(r) PROVE TypeInv'
  OBVIOUS
<1>1. upRows' \in 0 .. MaxRows
  BY BoundsAssumption DEF OnDeleteUnkeyed, TypeInv, TypeOK
<1>2. UNCHANGED <<xact_list, xact_head, xact_tail, fsync_lsn, taking_snapshot,
                  tables, inflight, pc, sendEnv, shutdown, slotDropped, upTxn,
                  upIn, announced, kafka, lost, produced>>
  BY DEF OnDeleteUnkeyed, ringVars, histVars
<1>. QED
  BY <1>1, <1>2, PrimedTypeInv DEF TypeInv, TypeOK, XactInfo

LEMMA SendRetryTypeInv == TypeInv /\ SendRetry => TypeInv'
<1> SUFFICES ASSUME TypeInv, SendRetry PROVE TypeInv'
  OBVIOUS
<1>1. sendEnv \in Env
  BY DEF SendRetry, TypeInv
<1>2. RowOf(sendEnv) \in RowId
  BY <1>1 DEF RowOf, Env, RowId
<1>. QED
  BY <1>1, <1>2
  DEF SendRetry, SendFails, Enqueued, CallbackReturn, ExitNicely, TypeInv,
      TypeOK, PollPoints, ringVars, upVars

LEMMA StaleBackpressureDoneTypeInv == TypeInv /\ StaleBackpressureDone => TypeInv'
BY DEF StaleBackpressureDone, TypeInv, TypeOK, PollPoints, ringVars, upVars,
       histVars

(***************************************************************************)
(* A delivery report decrements pending_events of a slot of the buffer and *)
(* checkpoints, or exits.                                                  *)
(***************************************************************************)
LEMMA OnDeliverMsgTypeInv ==
  ASSUME NEW e, NEW ok \in BOOLEAN
  PROVE  TypeInv /\ OnDeliverMsg(e, ok) => TypeInv'
<1> SUFFICES ASSUME TypeInv, OnDeliverMsg(e, ok) PROVE TypeInv'
  OBVIOUS
<1>1. e \in Env
  BY DEF OnDeliverMsg, TypeInv, TypeOK
<1>2. RowOf(e) \in RowId
  BY <1>1 DEF RowOf, Env, RowId
<1>3. inflight' \subseteq Env
  BY DEF OnDeliverMsg, TypeInv, TypeOK
<1>4. CASE ok \/ ErrorPolicy = "log"
  <2> DEFINE list == [xact_list EXCEPT ![e.slot].pending = @ - 1]
  <2>1. list \in [Slots -> XactInfo]
    BY <1>1 DEF TypeInv, TypeOK, XactInfo, Env
  <2>2. MaybeCheckpoint(list)
    BY <1>4 DEF OnDeliverMsg
  <2>. QED
    BY <1>2, <1>3, <1>4, <2>1, <2>2, MaybeCheckpointType
    DEF OnDeliverMsg, TypeInv, TypeOK, XactInfo, upVars
<1>5. CASE ~(ok \/ ErrorPolicy = "log")
  BY <1>3, <1>5 DEF OnDeliverMsg, ExitNicely, TypeInv, TypeOK, PollPoints,
                    ringVars, upVars
<1>. QED
  BY <1>4, <1>5

LEMMA OnClientErrorTypeInv == TypeInv /\ OnClientError => TypeInv'
BY DEF OnClientError, ExitNicely, TypeInv, TypeOK, PollPoints, ringVars,
       upVars, histVars

LEMMA ShutdownSignalTypeInv == TypeInv /\ ShutdownSignal => TypeInv'
BY DEF ShutdownSignal, TypeInv, TypeOK, ringVars, upVars, histVars

LEMMA ShutdownExitTypeInv == TypeInv /\ ShutdownExit => TypeInv'
BY DEF ShutdownExit, ExitNicely, TypeInv, TypeOK, PollPoints, ringVars,
       upVars, histVars

LEMMA NextTypeInv == TypeInv /\ [Next]_vars => TypeInv'
<1> SUFFICES ASSUME TypeInv, [Next]_vars PROVE TypeInv'
  OBVIOUS
<1>1. CASE OnBeginTxn
  BY <1>1, OnBeginTxnTypeInv
<1>2. CASE BeginResume
  BY <1>2, BeginResumeTypeInv
<1>3. CASE OnCommitTxn
  BY <1>3, OnCommitTxnTypeInv
<1>4. CASE \E r \in Rels : OnTableSchema(r)
  BY <1>4, OnTableSchemaTypeInv
<1>5. CASE \E r \in Rels : OnRowEvent(r)
  BY <1>5, OnRowEventTypeInv
<1>6. CASE \E r \in Rels : OnDeleteUnkeyed(r)
  BY <1>6, OnDeleteUnkeyedTypeInv
<1>7. CASE SendRetry
  BY <1>7, SendRetryTypeInv
<1>8. CASE StaleBackpressureDone
  BY <1>8, StaleBackpressureDoneTypeInv
<1>9. CASE \E e \in inflight, ok \in BOOLEAN : OnDeliverMsg(e, ok)
  BY <1>9, OnDeliverMsgTypeInv
<1>10. CASE OnClientError
  BY <1>10, OnClientErrorTypeInv
<1>11. CASE ShutdownSignal
  BY <1>11, ShutdownSignalTypeInv
<1>12. CASE ShutdownExit
  BY <1>12, ShutdownExitTypeInv
<1>13. CASE Terminated \/ UNCHANGED vars
  BY <1>13 DEF Terminated, vars, ringVars, upVars, histVars, TypeInv, TypeOK
<1>. QED
  BY <1>1, <1>2, <1>3, <1>4, <1>5, <1>6, <1>7, <1>8, <1>9, <1>10, <1>11,
     <1>12, <1>13 DEF Next

(***************************************************************************)
(* Type correctness of the pipeline's state: every reachable state of the  *)
(* buffer, the checkpointer, the producer and the upstream is well typed,  *)
(* for every size of the buffer and of librdkafka's queue.                 *)
(***************************************************************************)
THEOREM TypeCorrect == Spec => []TypeOK
<1>1. Init => TypeInv
  BY InitTypeInv
<1>2. TypeInv /\ [Next]_vars => TypeInv'
  BY NextTypeInv
<1>3. TypeInv => TypeOK
  BY DEF TypeInv
<1>. QED
  BY <1>1, <1>2, <1>3, PTL DEF Spec

=============================================================================
