------------------------- MODULE CheckpointAbstract -------------------------
(***************************************************************************)
(* What the producer promises Postgres about the position it confirms      *)
(* (fsync_lsn): rows are sent to Kafka one by one, each is eventually      *)
(* finished (acknowledged, or given up by the error policy), and the       *)
(* confirmed position only moves forward, never past a row that was sent   *)
(* and is not finished.  A row is never sent at or below the confirmed    *)
(* position: Postgres would not resend it after a restart.                 *)
(***************************************************************************)
EXTENDS Naturals

CONSTANTS
  Rows,     \* the rows the upstream may emit
  RowLsn    \* RowLsn \in [Rows -> Nat]: the commit position of r's transaction

VARIABLES
  fsync,    \* the confirmed position
  sent,     \* rows handed to Kafka
  done      \* rows that are finished

vars == <<fsync, sent, done>>

(* The rows the confirmed position c covers. *)
Covered(c) == {r \in Rows : RowLsn[r] <= c}

Init ==
  /\ fsync = 0
  /\ sent = {}
  /\ done = {}

(* A row is sent; it may be finished in the same step (given up at once). *)
Emit(r) ==
  /\ r \in Rows \ sent
  /\ RowLsn[r] > fsync
  /\ sent' = sent \cup {r}
  /\ done' \in {done, done \cup {r}}
  /\ UNCHANGED fsync

(* Rows finish and the confirmed position advances over finished rows.    *)
Settle ==
  /\ done \subseteq done' /\ done' \subseteq sent
  /\ fsync' \in Nat /\ fsync' >= fsync
  /\ sent \cap Covered(fsync') \subseteq done'
  /\ UNCHANGED sent

Next == (\E r \in Rows : Emit(r)) \/ Settle

Spec == Init /\ [][Next]_vars
=============================================================================
