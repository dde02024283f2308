------------------------- MODULE BottledWaterRestart -------------------------
(***************************************************************************)
(* BottledWater across process lifetimes.  Postgres keeps, in the          *)
(* replication slot, the last position the client confirmed (a standby     *)
(* status update carrying fsync_lsn).  The process may exit (exit_nicely)  *)
(* or crash at any point; it is then started again (main): with the slot   *)
(* kept, decoding resumes at the first transaction committed after the     *)
(* confirmed position and no snapshot is taken; with the slot dropped, a   *)
(* new slot is created and the snapshot taken again, which re-exports the  *)
(* data from the start.  The per-process state starts over as in          *)
(* init_producer; what Kafka stored (kafka, lost, produced) persists.      *)
(***************************************************************************)
EXTENDS BottledWater

CONSTANT MaxRestarts   \* bound on the number of restarts

ASSUME MaxRestartsAssumption == MaxRestarts \in Nat

VARIABLES
  confirmed,   \* the slot's confirmed position, kept by Postgres
  restarts     \* restarts so far

rvars == <<vars, confirmed, restarts>>

(* The first transaction Postgres decodes when streaming from position c: *)
(* the first one whose commit lies after c.                                *)
StartTxn(c) ==
  CHOOSE t \in 1 .. MaxTxn + 1 :
    Lsn(t) > c /\ \A s \in 1 .. t - 1 : Lsn(s) <= c

(***************************************************************************)
(* A standby status update reports fsync_lsn (backpressure() sends one     *)
(* through replication_stream_keepalive; the client library sends them     *)
(* periodically).  Postgres never moves the confirmed position back.       *)
(***************************************************************************)
StatusUpdate ==
  /\ pc # "exited" /\ fsync_lsn > confirmed
  /\ confirmed' = fsync_lsn
  /\ UNCHANGED <<vars, restarts>>

(* The process is killed: no exit_nicely, the slot stays.                  *)
Crash ==
  /\ pc # "exited" /\ restarts < MaxRestarts
  /\ pc' = "exited"
  /\ UNCHANGED <<ringVars, tables, inflight, sendEnv, shutdown, slotDropped,
                 upVars, histVars, confirmed, restarts>>

(***************************************************************************)
(* main() runs again: init_producer's empty buffer, a new librdkafka       *)
(* instance (messages still queued in the old one are not counted as       *)
(* delivered), a new table mapper, and the decoder's stream from the slot. *)
(***************************************************************************)
Restart ==
  /\ pc = "exited" /\ restarts < MaxRestarts
  /\ restarts' = restarts + 1
  /\ xact_list' = [s \in Slots |-> [xid |-> 0, pending |-> 0, commit |-> 0]]
  /\ xact_head' = XactListLen - 1
  /\ xact_tail' = 0
  /\ fsync_lsn' = 0
  /\ IF slotDropped
       THEN /\ taking_snapshot' \in BOOLEAN
            /\ upTxn' = IF taking_snapshot' THEN 0 ELSE 1
            /\ confirmed' = 0
       ELSE /\ taking_snapshot' = FALSE
            /\ upTxn' = StartTxn(confirmed)
            /\ UNCHANGED confirmed
  /\ tables' = {} /\ inflight' = {}
  /\ pc' = "loop" /\ sendEnv' = NoEnv
  /\ shutdown' = FALSE /\ slotDropped' = FALSE
  /\ upIn' = FALSE /\ upRows' = 0 /\ announced' = {}
  /\ UNCHANGED histVars

RInit == Init /\ confirmed = 0 /\ restarts = 0

(***************************************************************************)
(* The decoder reads transactions from the WAL, so one decoded again after *)
(* a restart carries the rows it carried before: it commits only after    *)
(* every row of it produced in an earlier lifetime, and such a row is      *)
(* decoded as a row event again, not as a delete on a table without a key. *)
(***************************************************************************)
SameRows == upTxn >= 1 => \A r \in produced : r.txn = upTxn => r.row <= upRows

NotProducedBefore == [txn |-> upTxn, row |-> upRows + 1] \notin produced

WalNext ==
  \/ OnBeginTxn
  \/ BeginResume
  \/ OnCommitTxn /\ SameRows
  \/ \E r \in Rels : OnTableSchema(r)
  \/ \E r \in Rels : OnRowEvent(r)
  \/ \E r \in Rels : OnDeleteUnkeyed(r) /\ NotProducedBefore
  \/ SendRetry
  \/ StaleBackpressureDone
  \/ \E e \in inflight, ok \in BOOLEAN : OnDeliverMsg(e, ok)
  \/ OnClientError
  \/ ShutdownSignal
  \/ ShutdownExit
  \/ Terminated

RNext ==
  \/ WalNext /\ UNCHANGED <<confirmed, restarts>>
  \/ StatusUpdate
  \/ Crash
  \/ Restart

RSpec == RInit /\ [][RNext]_rvars

(***************************************************************************)
(* At-least-once across restarts (spec 5, cancellation and timeouts:      *)
(* messages lost at exit "replay on restart"): when the process starts     *)
(* again on the kept slot, every streamed row that was produced but        *)
(* neither acknowledged nor given up belongs to a transaction Postgres     *)
(* will decode again.  It fails if the confirmed position ever passes an   *)
(* unfinished row.  Snapshot rows are left to ExitDropsIncompleteSnapshot: *)
(* they are never re-decoded.                                              *)
(***************************************************************************)
RestartReplaysUnfinished ==
  [][pc = "exited" /\ pc' = "loop" /\ ~slotDropped =>
       \A r \in produced \ (kafka \cup lost) : r.txn >= 1 => r.txn >= upTxn'
    ]_rvars
=============================================================================
