---------------------------- MODULE BottledWater ----------------------------
(***************************************************************************)
(* The transactional forwarding pipeline of src/kafka/bottledwater.c: the  *)
(* circular buffer of in-flight transactions (xact_list, xact_head,        *)
(* xact_tail), the checkpointer maybe_checkpoint that advances fsync_lsn,  *)
(* the send path send_kafka_msg with its queue-full backpressure loop, the *)
(* delivery-report callback on_deliver_msg, the begin/commit/schema/row    *)
(* callbacks the logical decoding client calls, the shutdown signal and    *)
(* exit_nicely.                                                            *)
(*                                                                         *)
(* The process is single threaded: a callback runs to completion unless it *)
(* enters a backpressure loop, and delivery reports run only inside        *)
(* rd_kafka_poll (the main loop, or backpressure()).  pc records where the *)
(* thread is: "loop" between callbacks, "begin_bp" / "send_bp" inside the  *)
(* backpressure loops of on_begin_txn / send_kafka_msg, "send_stale" in    *)
(* the extra backpressure() call that a stale errno causes after a         *)
(* successful rd_kafka_produce, "exited" after exit_nicely.                *)
(*                                                                         *)
(* Data is abstracted: upstream transaction t (0 is the snapshot) has xid  *)
(* XidOf(t) and commit position Lsn(t); a row is identified by its         *)
(* transaction and its index in it; keys, values, schemas and encodings    *)
(* are left out.  kafka, lost and produced are history variables.          *)
(***************************************************************************)
EXTENDS Naturals, Integers, FiniteSets

CONSTANTS
  XactListLen,  \* XACT_LIST_LEN = MAX_IN_FLIGHT_TRANSACTIONS + 1
  QueueMax,     \* capacity of librdkafka's outbound queue
  MaxTxn,       \* last upstream transaction number (bounds the model)
  MaxRows,      \* most row events in one upstream transaction
  Rels,         \* relation ids
  ErrorPolicy,  \* "log" or "exit" (--on-error)
  Faults,       \* which external failures the run lets happen
  NoEnv         \* sentinel: no envelope waiting in send_bp

FaultKinds == {"register", "encode", "produce", "deliver", "client"}

ASSUME XactListLenAssumption == XactListLen \in Nat /\ XactListLen >= 2
ASSUME QueueMaxAssumption == QueueMax \in Nat \ {0}
ASSUME BoundsAssumption == MaxTxn \in Nat /\ MaxRows \in Nat
ASSUME PolicyAssumption == ErrorPolicy \in {"log", "exit"}
ASSUME FaultsAssumption == Faults \subseteq FaultKinds

Slots == 0 .. XactListLen - 1
Txns == 0 .. MaxTxn
XidOf(t) == t          \* xid 0 is the snapshot transaction
Lsn(t) == t + 1        \* commit positions are positive and in commit order
RowId == [txn : Txns, row : 1 .. MaxRows]
Env == [txn : Txns, row : 1 .. MaxRows, slot : Slots]   \* msg_envelope
RowOf(e) == [txn |-> e.txn, row |-> e.row]

ASSUME NoEnvAssumption == NoEnv \notin Env

PollPoints == {"loop", "begin_bp", "send_bp", "send_stale"}

VARIABLES
  xact_list,        \* Slots -> transaction_info (xid, pending_events, commit_lsn)
  xact_head,        \* slot of the transaction being received
  xact_tail,        \* oldest slot not yet checkpointed
  fsync_lsn,        \* client->repl.fsync_lsn
  taking_snapshot,  \* client->taking_snapshot
  tables,           \* relids the table mapper holds metadata for
  inflight,         \* envelopes handed to rd_kafka_produce, not yet reported
  pc,               \* where the single thread is
  sendEnv,          \* the envelope send_kafka_msg is trying to enqueue
  shutdown,         \* received_shutdown_signal
  slotDropped,      \* exit_nicely dropped the replication slot
  upTxn,            \* upstream: current (or next) transaction
  upIn,             \* upstream: inside a begin/commit pair
  upRows,           \* upstream: row events so far in upTxn
  announced,        \* upstream: relids whose schema was sent
  kafka,            \* history: rows the broker acknowledged
  lost,             \* history: rows given up under --on-error=log
  produced          \* history: rows for which a message was due

ringVars == <<xact_list, xact_head, xact_tail, fsync_lsn, taking_snapshot>>
upVars == <<upTxn, upIn, upRows, announced>>
histVars == <<kafka, lost, produced>>
vars == <<ringVars, tables, inflight, pc, sendEnv, shutdown, slotDropped,
          upVars, histVars>>

-----------------------------------------------------------------------------
(* The circular buffer: xact_list_length, xact_list_full, xact_list_empty. *)

Length == (XactListLen + xact_head + 1 - xact_tail) % XactListLen
(* Variant of Full off by one: the buffer is never seen full.             *)
FullOffByOne == Length = XactListLen

Full == Length = XactListLen - 1
Empty == Length = 0

(* Variant of Drainable that forgets the pending_events test.             *)
DrainableIgnoringPending(x) == x.commit > 0 \/ x.xid = 0

(* The loop condition of maybe_checkpoint for one slot. *)
Drainable(x) == x.pending = 0 /\ (x.commit > 0 \/ x.xid = 0)

(***************************************************************************)
(* maybe_checkpoint walks from the tail.  It tests the tail slot before it *)
(* looks at the length, so on an empty buffer it walks the stale slots     *)
(* until one fails the test or it has gone round the whole buffer.         *)
(* DrainsTo(list, k): the loop advances the tail over exactly k slots: the *)
(* first k pass the test, and the k-th fails it or the buffer is empty     *)
(* after k steps.  Exactly one k in 0 .. DrainBound satisfies it.          *)
(***************************************************************************)
DrainBound == IF Empty THEN XactListLen ELSE Length

SlotAt(list, i) == list[(xact_tail + i) % XactListLen]

DrainsTo(list, k) ==
  /\ \A i \in 0 .. k - 1 : Drainable(SlotAt(list, i))
  /\ k = DrainBound \/ ~Drainable(SlotAt(list, k))

(* Variant of MaybeCheckpoint clearing taking_snapshot at the xid 0 slot  *)
(* without the commit_lsn > 0 test.                                        *)
MaybeCheckpointEarlyFlag(list) ==
  \E k \in 0 .. DrainBound :
    /\ DrainsTo(list, k)
    /\ xact_list' = list
    /\ xact_tail' = (xact_tail + k) % XactListLen
    /\ fsync_lsn' = IF k = 0 THEN fsync_lsn ELSE SlotAt(list, k - 1).commit
    /\ taking_snapshot' =
         (taking_snapshot /\ ~\E i \in 0 .. k - 1 : SlotAt(list, i).xid = 0)
    /\ UNCHANGED xact_head

(* maybe_checkpoint, run after the caller stored list: each drained slot   *)
(* sets fsync_lsn to its commit_lsn (the last one wins) and a committed    *)
(* xid 0 slot clears taking_snapshot.                                      *)
MaybeCheckpoint(list) ==
  \E k \in 0 .. DrainBound :
    /\ DrainsTo(list, k)
    /\ xact_list' = list
    /\ xact_tail' = (xact_tail + k) % XactListLen
    /\ fsync_lsn' = IF k = 0 THEN fsync_lsn ELSE SlotAt(list, k - 1).commit
    /\ taking_snapshot' =
         (taking_snapshot /\ ~\E i \in 0 .. k - 1 :
                                 SlotAt(list, i).xid = 0 /\ SlotAt(list, i).commit > 0)
    /\ UNCHANGED xact_head

(* exit_nicely(status): drop the slot if a snapshot was in progress and    *)
(* the status is an error, then stop.                                      *)
ExitNicely(status) ==
  /\ pc' = "exited"
  /\ slotDropped' = (taking_snapshot /\ status # 0)

(***************************************************************************)
(* What happens after a callback returns status err to the decoder: the    *)
(* supervisor applies the error policy (the decoder is outside src/).      *)
(***************************************************************************)
CallbackReturn(err) ==
  IF err = 0 \/ ErrorPolicy = "log"
    THEN pc' = "loop" /\ UNCHANGED slotDropped
    ELSE ExitNicely(1)

-----------------------------------------------------------------------------
(* Variant of BeginSlot without the modulo wrap of xact_head.             *)
BeginSlotNoWrap ==
  LET h == xact_head + 1
  IN  /\ xact_head' = h
      /\ xact_list' = [xact_list EXCEPT
                         ![h] = [xid |-> XidOf(upTxn), pending |-> 0, commit |-> 0]]
      /\ UNCHANGED <<xact_tail, fsync_lsn, taking_snapshot>>

(* Variant of BeginSlot that does not reset commit_lsn of the slot.       *)
BeginSlotKeepCommit ==
  LET h == (xact_head + 1) % XactListLen
  IN  /\ xact_head' = h
      /\ xact_list' = [xact_list EXCEPT ![h].xid = XidOf(upTxn), ![h].pending = 0]
      /\ UNCHANGED <<xact_tail, fsync_lsn, taking_snapshot>>

(* on_begin_txn after the full-buffer loop: claim the next slot.           *)
BeginSlot ==
  LET h == (xact_head + 1) % XactListLen
  IN  /\ xact_head' = h
      /\ xact_list' = [xact_list EXCEPT
                         ![h] = [xid |-> XidOf(upTxn), pending |-> 0, commit |-> 0]]
      /\ UNCHANGED <<xact_tail, fsync_lsn, taking_snapshot>>

(* on_begin_txn.  The xid 0 check is fatal when it fails; the decoder only *)
(* sends xid 0 first, so the check is a guard here.                        *)
OnBeginTxn ==
  /\ pc = "loop" /\ ~upIn /\ upTxn <= MaxTxn
  /\ XidOf(upTxn) = 0 => (xact_tail = 0 /\ Empty)
  /\ upIn' = TRUE /\ upRows' = 0
  /\ IF Full
       THEN pc' = "begin_bp" /\ UNCHANGED ringVars
       ELSE pc' = "loop" /\ BeginSlot
  /\ UNCHANGED <<tables, inflight, sendEnv, shutdown, slotDropped,
                 upTxn, announced, histVars>>

(* The while (xact_list_full) backpressure loop of on_begin_txn ends.      *)
BeginResume ==
  /\ pc = "begin_bp" /\ ~Full
  /\ BeginSlot
  /\ pc' = "loop"
  /\ UNCHANGED <<tables, inflight, sendEnv, shutdown, slotDropped, upVars,
                 histVars>>

(* on_commit_txn: the head must hold the committed xid (else fatal).       *)
OnCommitTxn ==
  /\ pc = "loop" /\ upIn
  /\ xact_list[xact_head].xid = XidOf(upTxn)
  /\ MaybeCheckpoint([xact_list EXCEPT ![xact_head].commit = Lsn(upTxn)])
  /\ upIn' = FALSE /\ upTxn' = upTxn + 1
  /\ UNCHANGED <<tables, inflight, pc, sendEnv, shutdown, slotDropped,
                 upRows, announced, histVars>>

(* on_table_schema: table_mapper_update registers the schemas; on failure  *)
(* the callback logs and returns 1.  Schema versions are abstracted away.  *)
OnTableSchema(r) ==
  /\ pc = "loop" /\ upIn /\ r \notin announced
  /\ announced' = announced \cup {r}
  /\ \/ tables' = tables \cup {r} /\ UNCHANGED <<pc, slotDropped>>
     \/ "register" \in Faults /\ UNCHANGED tables /\ CallbackReturn(1)
  /\ UNCHANGED <<ringVars, inflight, sendEnv, shutdown, upTxn, upIn, upRows,
                 histVars>>

(* send_kafka_msg returns an error: under --on-error=log the row is given  *)
(* up (the increments made on entry stay).                                 *)
SendFails(e) ==
  /\ lost' = IF ErrorPolicy = "log" THEN lost \cup {RowOf(e)} ELSE lost
  /\ sendEnv' = NoEnv
  /\ CallbackReturn(1)
  /\ UNCHANGED <<inflight, kafka>>

(* rd_kafka_produce succeeded.  The errno test after the call reads a      *)
(* stale errno, which may still say queue full: one more backpressure().   *)
Enqueued(e) ==
  /\ inflight' = inflight \cup {e}
  /\ sendEnv' = NoEnv
  /\ pc' \in {"loop", "send_stale"}
  /\ UNCHANGED <<slotDropped, kafka, lost>>

(* One rd_kafka_produce attempt of the enqueue loop.                       *)
Produce(e) ==
  \/ /\ Cardinality(inflight) >= QueueMax
     /\ pc' = "send_bp" /\ sendEnv' = e
     /\ UNCHANGED <<inflight, slotDropped, kafka, lost>>
  \/ /\ Cardinality(inflight) < QueueMax /\ "produce" \in Faults
     /\ SendFails(e)
  \/ /\ Cardinality(inflight) < QueueMax
     /\ Enqueued(e)

(* send_kafka_msg: the pending and received counters of the head           *)
(* transaction are bumped before the lookup, encoding and produce.         *)
SendKafkaMsg(e, r) ==
  /\ xact_list' = [xact_list EXCEPT ![xact_head].pending = @ + 1]
  /\ \/ r \notin tables /\ SendFails(e)
     \/ r \in tables /\ "encode" \in Faults /\ SendFails(e)
     \/ r \in tables /\ Produce(e)

(* on_insert_row, on_update_row, and on_delete_row with a key.             *)
OnRowEvent(r) ==
  /\ pc = "loop" /\ upIn /\ r \in announced /\ upRows < MaxRows
  /\ LET e == [txn |-> upTxn, row |-> upRows + 1, slot |-> xact_head]
     IN  /\ SendKafkaMsg(e, r)
         /\ produced' = produced \cup {RowOf(e)}
  /\ upRows' = upRows + 1
  /\ UNCHANGED <<xact_head, xact_tail, fsync_lsn, taking_snapshot, tables,
                 shutdown, upTxn, upIn, announced>>

(* on_delete_row on a table without a key: nothing is sent.                *)
OnDeleteUnkeyed(r) ==
  /\ pc = "loop" /\ upIn /\ r \in announced /\ upRows < MaxRows
  /\ upRows' = upRows + 1
  /\ UNCHANGED <<ringVars, tables, inflight, pc, sendEnv, shutdown,
                 slotDropped, upTxn, upIn, announced, histVars>>

(* The enqueue loop retries after backpressure().                          *)
SendRetry ==
  /\ pc = "send_bp" /\ Cardinality(inflight) < QueueMax
  /\ \/ "produce" \in Faults /\ SendFails(sendEnv)
     \/ Enqueued(sendEnv)
  /\ UNCHANGED <<ringVars, tables, shutdown, upVars, produced>>

(* The extra backpressure() call returns.                                  *)
StaleBackpressureDone ==
  /\ pc = "send_stale" /\ pc' = "loop"
  /\ UNCHANGED <<ringVars, tables, inflight, sendEnv, shutdown, slotDropped,
                 upVars, histVars>>

(* Variant of OnDeliverMsg that does not call maybe_checkpoint.           *)
OnDeliverMsgNoCheckpoint(e, ok) ==
  /\ pc \in PollPoints /\ e \in inflight
  /\ ok \/ "deliver" \in Faults
  /\ inflight' = inflight \ {e}
  /\ IF ok \/ ErrorPolicy = "log"
       THEN /\ xact_list' = [xact_list EXCEPT ![e.slot].pending = @ - 1]
            /\ UNCHANGED <<xact_head, xact_tail, fsync_lsn, taking_snapshot>>
            /\ kafka' = IF ok THEN kafka \cup {RowOf(e)} ELSE kafka
            /\ lost' = IF ok THEN lost ELSE lost \cup {RowOf(e)}
            /\ UNCHANGED <<pc, slotDropped>>
       ELSE /\ ExitNicely(1)
            /\ UNCHANGED <<ringVars, kafka, lost>>
  /\ UNCHANGED <<tables, sendEnv, shutdown, upVars, produced>>

(***************************************************************************)
(* on_deliver_msg, run by rd_kafka_poll: on success, or on failure under   *)
(* --on-error=log, decrement pending_events of the envelope's transaction  *)
(* and checkpoint; on failure under --on-error=exit, exit_nicely(1).       *)
(***************************************************************************)
OnDeliverMsg(e, ok) ==
  /\ pc \in PollPoints /\ e \in inflight
  /\ ok \/ "deliver" \in Faults
  /\ inflight' = inflight \ {e}
  /\ IF ok \/ ErrorPolicy = "log"
       THEN /\ MaybeCheckpoint([xact_list EXCEPT ![e.slot].pending = @ - 1])
            /\ kafka' = IF ok THEN kafka \cup {RowOf(e)} ELSE kafka
            /\ lost' = IF ok THEN lost ELSE lost \cup {RowOf(e)}
            /\ UNCHANGED <<pc, slotDropped>>
       ELSE /\ ExitNicely(1)
            /\ UNCHANGED <<ringVars, kafka, lost>>
  /\ UNCHANGED <<tables, sendEnv, shutdown, upVars, produced>>

(* on_client_error: handle_error exits under --on-error=exit (under log it *)
(* only logs, which changes nothing).                                      *)
OnClientError ==
  /\ pc = "loop" /\ "client" \in Faults /\ ErrorPolicy = "exit"
  /\ ExitNicely(1)
  /\ UNCHANGED <<ringVars, tables, inflight, sendEnv, shutdown, upVars,
                 histVars>>

(* handle_shutdown_signal (SIGINT / SIGTERM).                              *)
ShutdownSignal ==
  /\ ~shutdown /\ pc # "exited"
  /\ shutdown' = TRUE
  /\ UNCHANGED <<ringVars, tables, inflight, pc, sendEnv, slotDropped,
                 upVars, histVars>>

(* The main loop, or backpressure(), sees the signal: exit_nicely(0).      *)
ShutdownExit ==
  /\ shutdown /\ pc \in PollPoints
  /\ ExitNicely(0)
  /\ UNCHANGED <<ringVars, tables, inflight, sendEnv, shutdown, upVars,
                 histVars>>

(* The process has exited.                                                 *)
Terminated ==
  /\ pc = "exited"
  /\ UNCHANGED vars

-----------------------------------------------------------------------------
Init ==
  /\ xact_list = [s \in Slots |-> [xid |-> 0, pending |-> 0, commit |-> 0]]
  /\ xact_head = XactListLen - 1
  /\ xact_tail = 0
  /\ fsync_lsn = 0
  /\ taking_snapshot \in BOOLEAN
  /\ tables = {}
  /\ inflight = {}
  /\ pc = "loop"
  /\ sendEnv = NoEnv
  /\ shutdown = FALSE
  /\ slotDropped = FALSE
  /\ upTxn = IF taking_snapshot THEN 0 ELSE 1
  /\ upIn = FALSE
  /\ upRows = 0
  /\ announced = {}
  /\ kafka = {}
  /\ lost = {}
  /\ produced = {}

Next ==
  \/ OnBeginTxn
  \/ BeginResume
  \/ OnCommitTxn
  \/ \E r \in Rels : OnTableSchema(r)
  \/ \E r \in Rels : OnRowEvent(r)
  \/ \E r \in Rels : OnDeleteUnkeyed(r)
  \/ SendRetry
  \/ StaleBackpressureDone
  \/ \E e \in inflight, ok \in BOOLEAN : OnDeliverMsg(e, ok)
  \/ OnClientError
  \/ ShutdownSignal
  \/ ShutdownExit
  \/ Terminated

(***************************************************************************)
(* librdkafka reports every message it was handed, and the main loop and   *)
(* backpressure() keep calling rd_kafka_poll; the backpressure loops       *)
(* retry while their condition lasts; a seen signal is acted on.  The      *)
(* upstream and the signal itself get no fairness.                         *)
(***************************************************************************)
Fairness ==
  /\ WF_vars(\E e \in inflight, ok \in BOOLEAN : OnDeliverMsg(e, ok))
  /\ WF_vars(BeginResume)
  /\ WF_vars(SendRetry)
  /\ WF_vars(StaleBackpressureDone)
  /\ WF_vars(ShutdownExit)

Spec == Init /\ [][Next]_vars /\ Fairness

-----------------------------------------------------------------------------
TypeOK ==
  /\ xact_list \in [Slots -> [xid : Txns, pending : Int, commit : Nat]]
  /\ xact_head \in Slots
  /\ xact_tail \in Slots
  /\ fsync_lsn \in Nat
  /\ taking_snapshot \in BOOLEAN
  /\ tables \subseteq Rels
  /\ inflight \subseteq Env
  /\ pc \in PollPoints \cup {"exited"}
  /\ sendEnv \in Env \cup {NoEnv}
  /\ shutdown \in BOOLEAN
  /\ slotDropped \in BOOLEAN
  /\ upTxn \in 0 .. MaxTxn + 1
  /\ upIn \in BOOLEAN
  /\ upRows \in 0 .. MaxRows
  /\ announced \subseteq Rels
  /\ kafka \subseteq RowId
  /\ lost \subseteq RowId
  /\ produced \subseteq RowId

(***************************************************************************)
(* Durability of the checkpoint (maybe_checkpoint, on_deliver_msg): every  *)
(* row of a transaction at or below fsync_lsn, the position reported to    *)
(* Postgres as durably written, has been acknowledged by the broker or was *)
(* given up under --on-error=log.  Acknowledging a position too early      *)
(* loses the rows on restart.                                              *)
(***************************************************************************)
DurableCheckpoint ==
  \A r \in produced : Lsn(r.txn) <= fsync_lsn => r \in kafka \cup lost

(***************************************************************************)
(* An envelope still with librdkafka points at the transaction_info of its *)
(* own transaction: on_begin_txn never reuses a slot whose events are      *)
(* still in flight, so on_deliver_msg decrements the right counter.        *)
(***************************************************************************)
InflightSlotLive ==
  \A e \in inflight : xact_list[e.slot].xid = XidOf(e.txn)

(***************************************************************************)
(* Why InflightSlotLive holds.  Pos(s) is the place of slot s counted from *)
(* the tail, and InRing(s) says s lies between xact_tail and xact_head.    *)
(* Outstanding(s) are the messages counted in s's pending_events that are *)
(* still to be reported: those with librdkafka, and the one send_kafka_msg *)
(* is retrying.                                                            *)
(***************************************************************************)
Pos(s) == (XactListLen + s - xact_tail) % XactListLen

InRing(s) == Pos(s) < Length

Outstanding(s) ==
  {e \in inflight : e.slot = s}
    \cup (IF pc = "send_bp" /\ sendEnv.slot = s THEN {sendEnv} ELSE {})

(***************************************************************************)
(* The invariant behind slot reuse (on_begin_txn, send_kafka_msg,          *)
(* on_deliver_msg, maybe_checkpoint): pending_events of every slot counts  *)
(* at least its outstanding messages; every slot outside the buffer except *)
(* the head would pass maybe_checkpoint's test, and so would the head once *)
(* the buffer is empty, unless a transaction is open on it; the head holds *)
(* the open transaction; the message being retried is the newest row and  *)
(* is not yet with librdkafka, and no row is numbered twice.  It fails if  *)
(* a slot with messages outstanding can be claimed again, or if the stale  *)
(* walk of an empty buffer can skip over one.                              *)
(***************************************************************************)
SlotAccounting ==
  /\ \A s \in Slots : Cardinality(Outstanding(s)) <= xact_list[s].pending
  /\ \A s \in Slots : ~InRing(s) /\ s # xact_head => Drainable(xact_list[s])
  /\ Empty => (upIn /\ pc # "begin_bp") \/ Drainable(xact_list[xact_head])
  /\ upIn /\ pc \in {"loop", "send_bp", "send_stale"} =>
        xact_list[xact_head].xid = XidOf(upTxn)
  /\ pc = "send_bp" =>
        /\ sendEnv \notin inflight /\ RowOf(sendEnv) \in produced
        /\ sendEnv.slot = xact_head /\ sendEnv.txn = upTxn /\ upIn
  /\ \A e \in inflight : RowOf(e) \in produced
  /\ \A r \in produced : r.txn < upTxn \/ (upIn /\ r.txn = upTxn /\ r.row <= upRows)
  /\ InflightSlotLive

(***************************************************************************)
(* The invariant behind the checkpoint (on_commit_txn, maybe_checkpoint):  *)
(* a commit_lsn is the position of its slot's transaction and no later    *)
(* than the upstream; every slot of the buffer before the head has         *)
(* committed, after fsync_lsn and before the slots behind it, and the head *)
(* is the same or is the open transaction, which has no commit yet; the   *)
(* buffer is empty under an open transaction only while nothing has been  *)
(* acknowledged.  It fails if maybe_checkpoint can move fsync_lsn to a     *)
(* stale or unordered commit_lsn.                                          *)
(***************************************************************************)
CheckpointOrder ==
  /\ fsync_lsn <= upTxn
  /\ \A s \in Slots : xact_list[s].commit > 0 =>
        xact_list[s].commit = Lsn(xact_list[s].xid) /\ xact_list[s].commit <= upTxn
  /\ \A s \in Slots : InRing(s) =>
        \/ xact_list[s].commit > fsync_lsn
        \/ s = xact_head /\ upIn /\ pc # "begin_bp"
  /\ \A s, t \in Slots :
        InRing(s) /\ InRing(t) /\ Pos(s) < Pos(t) /\ xact_list[t].commit > 0 =>
          xact_list[s].commit < xact_list[t].commit
  /\ upIn /\ pc \in {"loop", "send_bp", "send_stale"} =>
        xact_list[xact_head].commit = 0
  /\ Empty /\ upIn /\ pc \in {"loop", "send_bp", "send_stale"} => fsync_lsn = 0

(***************************************************************************)
(* Every row a message was due for and that is neither acknowledged nor    *)
(* given up is still with librdkafka or waiting in send_kafka_msg's retry; *)
(* once the process has exited, such a row belongs to a transaction beyond *)
(* the last acknowledged position.                                         *)
(***************************************************************************)
RowsAccounted ==
  \A r \in produced \ (kafka \cup lost) :
     /\ pc # "exited" =>
           \/ \E e \in inflight : RowOf(e) = r
           \/ pc = "send_bp" /\ RowOf(sendEnv) = r
     /\ pc = "exited" => fsync_lsn < Lsn(r.txn)

(***************************************************************************)
(* taking_snapshot, which decides whether exit_nicely drops the slot so    *)
(* that the snapshot is retried, is cleared by maybe_checkpoint only once  *)
(* the snapshot transaction has committed and all its rows are acked.      *)
(***************************************************************************)
SnapshotFlagSound ==
  ~taking_snapshot =>
     /\ upTxn > 0
     /\ \A r \in produced : r.txn = 0 => r \in kafka \cup lost

(* The acknowledged position fsync_lsn never moves backwards               *)
(* (maybe_checkpoint overwrites it with the drained commit_lsn).           *)
FsyncMonotone == [][fsync_lsn' >= fsync_lsn]_fsync_lsn

(***************************************************************************)
(* Every committed transaction is eventually checkpointed (its commit      *)
(* position reaches fsync_lsn), and a committed snapshot eventually clears *)
(* taking_snapshot, unless the process exits: delivery reports drain       *)
(* pending_events and each one runs maybe_checkpoint.                      *)
(***************************************************************************)
CommittedEventuallyCheckpointed ==
  /\ \A t \in 1 .. MaxTxn :
        (upTxn > t) ~> (fsync_lsn >= Lsn(t) \/ pc = "exited")
  /\ (taking_snapshot /\ upTxn > 0) ~> (~taking_snapshot \/ pc = "exited")

(***************************************************************************)
(* The spec (4.5) says the snapshot transaction leaves the buffer only     *)
(* when its commit arrives: while a transaction is open upstream and       *)
(* on_begin_txn has claimed its slot, that slot is in the buffer, so       *)
(* on_keepalive reports sync pending.                                      *)
(***************************************************************************)
OpenTxnInRing ==
  upIn /\ pc \in {"loop", "send_bp", "send_stale"} => ~Empty

(***************************************************************************)
(* At-least-once across restarts (spec 1, 4.5): when the process exits     *)
(* while the snapshot is incomplete, exit_nicely drops the replication     *)
(* slot so that the next run takes the snapshot again.                     *)
(***************************************************************************)
ExitDropsIncompleteSnapshot ==
  pc = "exited" /\ taking_snapshot => slotDropped

-----------------------------------------------------------------------------
(***************************************************************************)
(* The producer implements the checkpoint contract of CheckpointAbstract:  *)
(* the confirmed position is fsync_lsn, the rows sent are the rows a       *)
(* message was due for, and the finished ones those the broker            *)
(* acknowledged or the error policy gave up.                               *)
(***************************************************************************)
Checkpoint == INSTANCE CheckpointAbstract
                WITH Rows <- RowId,
                     RowLsn <- [r \in RowId |-> Lsn(r.txn)],
                     fsync <- fsync_lsn,
                     sent <- produced,
                     done <- kafka \cup lost

(***************************************************************************)
(* Refinement (maybe_checkpoint, on_deliver_msg, send_kafka_msg): every    *)
(* step of the producer is a step of the checkpoint contract or leaves it  *)
(* unchanged.  It fails if fsync_lsn ever moves back, passes a row still   *)
(* in flight, or a row is produced for a transaction the checkpoint has    *)
(* already confirmed.                                                      *)
(***************************************************************************)
ImplementsCheckpoint == Checkpoint!Spec
=============================================================================
