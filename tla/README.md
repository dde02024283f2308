# Formal model of bottledwater-pg's Kafka producer

This directory holds TLA+ models of `src/kafka/bottledwater.c`. That program reads a
Postgres logical replication stream and writes each row change to Kafka. It
confirms WAL positions back to Postgres (`fsync_lsn`) only once the rows before
them are durable in Kafka. The files here are the TLA+ modules, the TLC
configurations, the TLAPS proofs and `PROJECT.json`. PROJECT.json maps every
definition to the source lines it models, and lists the runs, mutants, findings
and hazards.

## 1. The system

`bottledwater.c` runs on one thread. Work arrives as callbacks:

| Part | Code | Role |
|---|---|---|
| Transaction tracker | `xact_list`, `xact_head`, `xact_tail`, `xact_list_length/full/empty` | A circular buffer of `XACT_LIST_LEN` slots, one per transaction received but not yet checkpointed. Each slot holds `xid`, `pending_events` and `commit_lsn`. |
| Upstream callbacks | `on_begin_txn`, `on_commit_txn`, `on_table_schema`, `on_insert_row`, `on_update_row`, `on_delete_row`, `on_keepalive`, `on_client_error` | The Postgres client's frame reader calls these from `db_client_poll` in the main loop. |
| Producer path | `send_kafka_msg` | Bumps the head slot's counters. Then it looks up the table, encodes the row and calls `rd_kafka_produce`, in a loop that calls `backpressure()` while librdkafka's queue is full. |
| Delivery reports | `on_deliver_msg` | Runs only inside `rd_kafka_poll`. That happens in the main loop, and in `backpressure()`, which `on_begin_txn` (buffer full) and `send_kafka_msg` (queue full) call. On success, or on failure under `--on-error=log`, it decrements `pending_events` and checkpoints. |
| Checkpointer | `maybe_checkpoint` | Walks from the tail over slots with `pending_events == 0` and either a commit or `xid == 0`. It sets `fsync_lsn` to each slot's `commit_lsn` and clears `taking_snapshot` at the committed snapshot slot. |
| Error policy and shutdown | `handle_error`, `exit_nicely`, `handle_shutdown_signal`, `main` | `--on-error=exit` ends the process with `exit_nicely(1)`, while `log` ignores the error. SIGINT/SIGTERM set a flag, which the main loop and `backpressure()` test before calling `exit_nicely(0)`. `exit_nicely` drops the replication slot only when a snapshot is in progress and the status is non-zero. |

The parts interact in one way that matters most: a delivery report can run a
checkpoint in the middle of a begin or a row callback, through `backpressure()`.

## 2. Modules

* `BottledWater.tla` models all of the above as one state machine. It
  composes everything because all of it shares one thread and one
  `producer_context`.
  * **State.** The state is the buffer (`xact_list`, `xact_head`, `xact_tail`),
    `fsync_lsn`, `taking_snapshot`, and the tables the mapper knows.
  * **Kafka queue.** `inflight` is the set of envelopes in librdkafka's queue,
    at most `QueueMax` of them.
  * **Control state.** `pc` records where the thread is: the main loop, or
    polling in one of the backpressure loops (`begin_bp`, `send_bp`,
    `send_stale`), or `exited`. `sendEnv` holds the envelope being enqueued.
    `shutdown` and `slotDropped` are the signal flag and the slot drop.
  * **Upstream.** Postgres sends transactions 1..MaxTxn, plus the snapshot
    transaction 0 when `taking_snapshot` starts TRUE. Each has at most
    `MaxRows` rows. `upTxn`, `upIn`, `upRows` and `announced` track this.
  * **History.** `kafka`, `lost` and `produced` are history variables, used only
    by properties.
  * **Actions.** There is one action per callback or loop exit: `OnBeginTxn`,
    `BeginResume`, `OnCommitTxn`, `OnTableSchema`, `OnRowEvent`,
    `OnDeleteUnkeyed`, `SendRetry`, `StaleBackpressureDone`, `OnDeliverMsg`,
    `OnClientError`, `ShutdownSignal`, `ShutdownExit` and `Terminated`.
  * **The drain loop.** `maybe_checkpoint` is part of the two actions that call
    it (`MaybeCheckpoint(list)`). It advances the tail over the unique `k`
    slots that the C loop would pass. Like the code, it tests the tail slot
    before it tests emptiness, so on an empty buffer it walks the stale slots.
  * **Failures.** The environment's failures are the `Faults` constant: schema
    registration, encoding, produce, delivery, and client errors.
  * **The decoder.** What the decoder does with a callback's non-zero return is
    not in `src/`. `CallbackReturn` models it from the spec: exit under `exit`,
    continue under `log`.
  * **Abstracted data.** Rows are records `[txn, row, slot]`. LSNs are
    `Lsn(t) = t + 1`, so they grow in commit order. Topic names, encodings and
    logging are left out.
* `MC_BottledWater.tla` gives the model values and the fault sets used by the
  configurations.
* `BottledWaterProofs.tla` holds the TLAPS proof of type correctness of
  `BottledWater`; `BottledWaterSlotProofs.tla` (slot accounting) and
  `BottledWaterCheckpointProofs.tla` (commit order, durability and
  monotonicity of `fsync_lsn`) extend it with the safety proofs, and
  `BottledWaterRefinementProofs.tla` proves the refinement of
  `CheckpointAbstract`. `BottledWaterSnapshotProofs.tla` proves that
  `taking_snapshot` is cleared only once the snapshot is done.
* `CheckpointAbstract.tla` is the abstract promise the producer makes about
  `fsync_lsn`. Its state is the confirmed position, the rows sent and the rows
  finished. `Emit(r)` sends a row above the confirmed position, and `Settle`
  finishes rows and moves the position forward over finished rows only.
  `BottledWater` instantiates it as `Checkpoint` with the refinement mapping:
  * `fsync <- fsync_lsn`;
  * `sent <- produced`;
  * `done <- kafka \cup lost`;
  * each row's position is its transaction's `Lsn`.

  `ImplementsCheckpoint == Checkpoint!Spec` is checked as a property.
* `BottledWaterRestart.tla` extends `BottledWater` with a fault model across
  process lifetimes. It adds two variables: `confirmed` is the slot's confirmed
  position kept by Postgres, and `restarts` counts restarts. It adds four
  actions:
  * `StatusUpdate`: `backpressure()`'s `replication_stream_keepalive` and the
    client's periodic updates send `fsync_lsn`.
  * `Crash`: the process is killed.
  * `Restart`: `main()` runs again. The buffer, table mapper, librdkafka queue
    and flags start over as in `init_producer`. On the kept slot, Postgres
    decodes from the first transaction committed after `confirmed`
    (`StartTxn`). On a dropped slot, a new slot is created and the snapshot may
    be taken again.
  * The existing `ShutdownExit` and `Terminated` exits.

  The decoder is constrained to replay what the WAL holds (`WalNext`). A
  transaction decoded again after a restart commits only after every row of
  it produced in an earlier lifetime (`SameRows`), and such a row comes back
  as a row event, not as a delete on a table without a key
  (`NotProducedBefore`). Without this the upstream could invent a shorter
  transaction on replay, which Postgres never does.

  What Kafka stored (`kafka`, `lost`, `produced`) persists.
  `MC_BottledWaterRestart.tla` combines it with `MC_BottledWater`.
* `TopicName.tla` models `topic_name_from_avro_schema`, a pure function, over
  strings as sequences of characters.
  * **sscanf.** `Scan` is `sscanf(namespace, GENERATED_SCHEMA_NAMESPACE ".%s")`
    with its three results:
    * 0 when a character of the literal differs;
    * EOF (-1) when the input ends before the conversion;
    * 1, with `%s` skipping blanks and reading the next word.
  * **Copying.** `StrNCpyClamp` and `StrNCat`/`AppendTable` are the clamped
    copies into the `BufLen`-byte buffer.
  * **Undefined behaviour.** A case with undefined behaviour (an uninitialized
    read, a `%s` overflow) has `Undefined` among its outcomes.
  * **Reference rule.** `SpecTopicName` is the rule of spec §4.2, written
    independently.
  * **State.** The state records the last schema `on_table_schema` saw and the
    topic computed for it.
* `MC_TopicName.tla` gives small alphabets: the generated prefix `"p"`, the
  schema `"u"` standing for `public`, and identifiers of length 1 to 3.
* `TopicNameProofs.tla` holds the TLAPS proofs about `TopicName`.

## 3. Properties and runs

| Property | Kind | States |
|---|---|---|
| `TypeOK` | invariant | the type of every variable |
| `DurableCheckpoint` | invariant | every produced row of a transaction at or below `fsync_lsn` was acknowledged by Kafka or explicitly given up (`--on-error=log`). This is the at-least-once promise. |
| `InflightSlotLive` | invariant | every message in librdkafka's queue still points to the slot of its own transaction. The slot was not reused while the envelope's `xact` pointer was live. |
| `SnapshotFlagSound` | invariant | `taking_snapshot` is cleared only after the snapshot commit arrives and all of its rows are done |
| `SlotAccounting` | invariant | each slot's `pending_events` is at least the number of envelopes pointing at it (queued, or waiting in the send backpressure loop); slots outside the buffer are drained; the head slot holds the open transaction; the waiting envelope is fresh and belongs to the head; rows are numbered below the upstream position. This is the inductive invariant behind `InflightSlotLive`. |
| `CheckpointOrder` | invariant | a committed slot holds `Lsn` of its own xid, no later than the upstream position; every slot in the buffer is committed beyond `fsync_lsn` unless it is the open head; the buffer is ordered by commit position; and on an empty buffer with a transaction open, `fsync_lsn` is still 0 |
| `FsyncMonotone` | action property | `fsync_lsn` never decreases |
| `CommittedEventuallyCheckpointed` | liveness | every committed transaction, and the snapshot, is eventually checkpointed unless the process exits |
| `OpenTxnInRing` | invariant | an open transaction's slot stays in the buffer (from the spec) |
| `ExitDropsIncompleteSnapshot` | invariant | an exit during an incomplete snapshot drops the slot (from the spec) |
| `ImplementsCheckpoint` | refinement | `BottledWater` implements `CheckpointAbstract` under the mapping above. `fsync_lsn` never moves back, it never passes a produced, unfinished row, and no row is produced at or below it. |
| `RestartReplaysUnfinished` | action property | at a restart on the kept slot, every streamed row that was produced and neither acknowledged nor given up belongs to a transaction Postgres decodes again (at-least-once across restarts, spec §5) |
| `TopicNameMatchesSpec` | invariant | the topic `topic_name_from_avro_schema` returns is the one the spec's rule gives |

Every configuration of `BottledWater` uses XactListLen = 3 (so the buffer fills after two open
transactions), MaxTxn = 3, MaxRows = 2 and one relation. The passing runs
use QueueMax = 2; the violation runs use QueueMax = 1, which is enough for
their traces and keeps them short. The passing runs' bounds reach the
following cases:
* the begin backpressure loop and the produce backpressure loop;
* slot reuse after wrap-around (three transactions plus the snapshot in three
  slots);
* delivery reports out of order across transactions: with two messages in
  the queue, rows of two transactions are in flight together and either
  report may come first (with QueueMax = 1 this case cannot happen);
* empty-buffer walks of stale slots.

The theorems of section 4 hold for every QueueMax, XactListLen, MaxTxn and
MaxRows, so the ordering properties they state (`DurableCheckpoint`,
`CheckpointOrder`, `FsyncMonotone`) do not rest on these bounds.

| Run | Config | Expect | Result |
|---|---|---|---|
| exit_policy | `MC_exit.cfg` | pass | `--on-error=exit`, all faults: 38,514 distinct states, all eight properties hold |
| log_policy | `MC_log.cfg` | pass | `--on-error=log`, all faults: 529,570 distinct states, the seven safety properties hold |
| log_policy_stall | `MC_log_stall.cfg` | violation | liveness fails: a failed produce leaves `pending_events` raised |
| snapshot_slot_drained | `MC_snapshot_drain.cfg` | violation | the open snapshot slot leaves the buffer |
| snapshot_signal_exit | `MC_snapshot_exit.cfg` | violation | SIGTERM during the snapshot keeps the slot |
| restart | `MC_restart.cfg` | pass | `--on-error=exit`, all faults, up to two crashes or exits and restarts: 4,782,831 distinct states, `RestartReplaysUnfinished` holds |
| topic_generated | `MC_topic_generated.cfg` | pass | generated namespaces with schemas of 1 to 3 characters, and foreign ones, with `BufLen = 5`: 1,638 distinct states. A 3-character schema leaves room for the dot but for no table character, and a 4-character one would fill the buffer. |
| topic_any | `MC_topic_any.cfg` | violation | every namespace of up to 3 characters: the empty namespace makes sscanf return EOF |

The restart run allows two restarts. One restart already reaches every
state the first lifetime can end in: mid-transaction, mid-backpressure,
after a client error, or after a signal, with every confirmed position. The
second restart is what makes the property more than `DurableCheckpoint`:
rows left unfinished in the first lifetime must still be ahead of the
confirmed position after a second lifetime has re-decoded, checkpointed and
confirmed past some of their transactions. The restart model leaves out the flush in
`rd_kafka_destroy` at exit. Messages still queued count as not delivered,
which only makes the property harder to satisfy.

Each property of a passing run is killed by a mutant of a definition that models code in `src/`, a plausible bug:
* a head update without the modulo;
* a drain test without `pending_events`;
* `full` off by one;
* the snapshot flag cleared without the commit test;
* a new slot that keeps the old `commit_lsn`;
* a delivery report that does not checkpoint;
* a second `strncat` that leaves no room for the terminating NUL.

### Fairness

`Spec` assumes weak fairness on:
* delivery reports: librdkafka eventually reports every queued message, and the
  thread polls in every loop;
* the exits of the two backpressure loops;
* the exit after a shutdown signal.

It assumes none for Postgres, which may stop sending, or for signals.

### Findings

1. **Leaked `pending_events` (`bottledwater.c:833`).** `send_kafka_msg` raises
   `pending_events` before the lookup, encoding and produce, and does not undo
   it on their error returns. Under `--on-error=log` the transaction never
   drains: `fsync_lsn` stops, WAL piles up in Postgres, and the buffer
   eventually fills for good. The spec says the counter rises only on a
   successful enqueue.
2. **Snapshot slot drained early (`bottledwater.c:949`).** The drain test
   accepts `xid == 0` with `commit_lsn == 0`. Once the snapshot's messages sent
   so far are all acknowledged, the open snapshot slot is removed from the
   buffer before its commit, and `on_keepalive` sees an empty buffer. The spec
   says the slot leaves only at its commit.
3. **Slot kept on a signal exit (`bottledwater.c:1112`).** A shutdown signal
   during the snapshot exits with status 0, so the replication slot of the
   incomplete snapshot is kept. The next start streams from that slot without
   a snapshot.
4. **Uninitialized read in `topic_name_from_avro_schema` (`bottledwater.c:434`).**
   `sscanf` returns EOF (-1) on an empty namespace, or on one that ends inside
   `GENERATED_SCHEMA_NAMESPACE "."`. The test `!matched` lets -1 through, and
   `strcmp` then reads `topic_name`, which nothing initialized. The comment
   says the table name is used whenever sscanf does not match. Everywhere
   else the function agrees with the spec, as `TopicNameSpecCorrect` proves.

## 4. Proofs

`BottledWaterProofs.tla` proves `THEOREM TypeCorrect == Spec => []TypeOK` for
all constants satisfying the assumptions in `BottledWater.tla`: XactListLen ≥ 2,
QueueMax ≥ 1, MaxTxn and MaxRows naturals, NoEnv not an envelope.

`TypeOK` is not inductive as it stands, so the proof uses the strengthening
`TypeInv`. It adds that:
* an open upstream transaction has a number ≤ MaxTxn, because `BeginResume` and
  `OnRowEvent` use `upTxn` as a slot's xid;
* the begin backpressure loop only runs inside a transaction;
* the send backpressure loop holds a real envelope, which `SendRetry` enqueues.

The proof has three parts:
* **Operator lemmas.** `ModSlot`, `LengthType`, `SetCommitType` and
  `MaybeCheckpointType`. For every k the drain loop might stop at, the new tail
  is a slot and the new `fsync_lsn` is a slot's `commit_lsn`.
* **The inductive step.** One lemma per action; `PrimedTypeInv` assembles the
  primed conjuncts.
* **The temporal step.** `NextTypeInv` and the PTL step.

`TopicNameProofs.tla` proves two theorems for every buffer length, alphabet
and generated prefix that satisfy `TopicNameAssumption`.

`THEOREM TopicNameTotal` covers every namespace in `ScannableNs`: a namespace
without blanks that either differs from the literal prefix, or carries the
whole prefix with a schema part shorter than the buffer. On such a namespace
the function has one outcome, and it is `SpecTopicName`. The argument rests on
these lemmas:
* `TakeConcat`: a clamped copy of `s \o t` is `s` followed by a clamped copy
  of `t`.
* `ScanMismatch` and `ScanGenerated`: what `sscanf` returns. On a
  generated namespace `%s` reads the whole suffix, because it has no blanks.
* `SpecRejected` and `SpecGenerated`: the reference rule in the same two
  cases.
* `AppendTableAgrees`: the two `strncat` bounds build the first
  `BufLen - 1` characters of `schema "." table`. That includes the edge where
  the schema fills the buffer and the room left is 0.

`THEOREM TopicNameSpecCorrect` says that if every namespace is in
`ScannableNs`, then `Spec => []TopicNameMatchesSpec`. The topic_generated run
checks this property on a small instance, and the theorem covers every
instance. The topic_any run shows that the hypothesis is needed.

### Slot accounting

`BottledWaterSlotProofs.tla` proves `THEOREM SlotAccountingHolds == Spec =>
[]SlotAccounting` and `THEOREM InflightSlotLiveHolds == Spec =>
[]InflightSlotLive`, for the same assumptions. The inductive invariant is
`IInv == TypeInv /\ IsFiniteSet(inflight) /\ SlotAccounting`.
`InflightSlotLive` alone is not inductive. `on_begin_txn` may claim the
slot after the head only if no envelope points at it. That holds because each
slot's `pending_events` counts the envelopes of the slot (`PendingCovers`).
A slot with nothing pending that lies outside the buffer is drained
(`StaleDrained`), and `full` keeps one slot free. Two further conjuncts are
needed:
* the snapshot slot can leave the buffer while open (finding 2), so
  `HeadDrained` allows an empty buffer whose head is the open transaction;
* the envelope waiting in the send backpressure loop is fresh
  (`RetryFresh`, `RowsNumbered`), so enqueueing it cannot collide with an
  envelope already queued.

The arithmetic of the circular buffer is in the lemmas `RingBasics`,
`ClaimArith` and `DrainArith`. `Pos` is a bijection onto 0..L-1, claiming a
slot grows the buffer by one, and moving the tail k places shortens it by k.
`DrainRing` states what every `maybe_checkpoint` walk leaves behind, including
the walk over stale slots on an empty buffer. The cardinality lemmas
(`CardGrow`, `CardShrink`, `CardRemove`) come from `FiniteSetTheorems`.

### Checkpoint durability and order

`BottledWaterCheckpointProofs.tla` proves three theorems:
* `CheckpointOrderHolds == Spec => []CheckpointOrder`;
* `DurableCheckpointHolds == Spec => []DurableCheckpoint`;
* `FsyncMonotoneHolds == Spec => FsyncMonotone`.

The inductive invariant is `CInv == IInv /\ CheckpointOrder /\
RowsAccounted`. `RowsAccounted` is proof-only: each unfinished row has an
envelope queued or waiting, and after an exit each lies beyond `fsync_lsn`.
`DurableCheckpoint` is not inductive by itself, because it does not say where
the unfinished rows are. The argument is this:
* **Unfinished rows lie beyond `fsync_lsn` (`OutstandingLate`).** An
  outstanding envelope makes its slot non-drainable, so the slot is in the
  buffer or is the head. A slot in the buffer is committed beyond `fsync_lsn`,
  or it is the open head, whose position exceeds every commit so far.
* **The drain keeps the order (`DrainOrder`).** Take a `maybe_checkpoint` walk
  over a list in which every slot of the buffer is committed beyond
  `fsync_lsn` in buffer order. The walk moves `fsync_lsn` only forward, and
  what stays in the buffer is still beyond it and in order.
* **The empty-buffer walk.** On an empty buffer the walk passes the stale
  slots (hazard `numeric_edge` at line 949). It may only do so while
  `fsync_lsn` is 0 and a transaction is open, which `CheckpointOrder` records.
  At commit time, the stale commits lie below the new one.
* **Exits.** The invariant must survive an exit from the begin backpressure
  loop. So the conjuncts about the open head apply only at the main loop and
  in the send backpressure loops.

The step lemmas are:
* one per action: `OnBeginTxnCO`, `BeginResumeCO`, `OnCommitTxnCO`,
  `OnRowEventCO`, `SendRetryCO` and `OnDeliverMsgCO`;
* `FrameActionsCO`, for the steps that touch neither the buffer nor the
  upstream transaction;
* the shared lemmas `ClaimCO`, `SendOutcomeRows` and `SendOrder`.

`NextCInv` also yields `fsync_lsn' >= fsync_lsn`, which gives `FsyncMonotone`.

### Refinement

`BottledWaterRefinementProofs.tla` proves `THEOREM RefinesCheckpoint == Spec
=> ImplementsCheckpoint`. The proof goes through the refinement mapping step
by step:
* `Init` maps to the abstract `Init`.
* `OnRowEvent` is `Emit` of its new row (`RowEventEmits`):
  * the row is fresh (`RowsNumbered`);
  * it lies beyond `fsync_lsn` (`FsyncBelowUp`);
  * it is finished in the same step only when `send_kafka_msg` gives it up.
* Every other step is a `Settle` (`OtherStepSettles`):
  * it leaves `produced` alone;
  * it finishes rows;
  * it moves `fsync_lsn` forward (`NextCInv`), and only over finished rows
    (`DurableCheckpoint` in the next state, from `DurableCheckpointHolds`).

The one conjunct the earlier invariants lacked is `FinishedProduced`: the
broker and the error policy only finish rows that were produced. It is
proved inductive together with `CInv` (`NextRInv`).

### The snapshot flag

`BottledWaterSnapshotProofs.tla` proves `THEOREM SnapshotFlagSoundHolds ==
Spec => []SnapshotFlagSound`. `SnapshotFlagSound` is not inductive together
with `CInv`: it speaks of rows, while `maybe_checkpoint` clears the flag by
looking at slots. The strengthening `SInv` adds two conjuncts to `CInv`:
* `SnapAcked`: once the flag is clear, `upTxn > 0`, and either
  `fsync_lsn >= Lsn(0)` or no row of transaction 0 was ever produced (the
  process started without a snapshot);
* `SnapInRing`: while the flag is set, every committed slot of xid 0 is still
  in the buffer.

Both were model-checked on the exit and log instances before the proof.

The lemma `DrainSnapshot` states what one walk of `maybe_checkpoint` does. It
needs four facts about the list the caller stored:
* every slot of the buffer except the head is committed;
* an uncommitted head of a nonempty buffer is not xid 0 once a snapshot has
  committed (it is the open transaction, and `upTxn >= 1`);
* a committed xid 0 slot is in the buffer or is the head;
* every stale slot is drainable.

From these, a walk that clears the flag stops on a committed slot, so
`fsync_lsn` becomes positive. A walk that keeps the flag leaves every
committed xid 0 slot in the buffer. On an empty buffer the walk passes all
the stale slots, and it reaches the head only when it goes full circle.

`on_commit_txn` and `on_deliver_msg` meet the four facts:
* `OnCommitTxnSnap`: the head has just been committed;
* `OnDeliverMsgSnap`: the envelope's slot is in the buffer or is the head.

`NextHistory` gives three facts about every step:
* no step sets the flag;
* the upstream transaction number only grows;
* new rows belong to the upstream transaction.

With `FsyncBelowUp` and the monotonicity of `fsync_lsn` these give
`SnapAcked'`. `DurableCheckpoint` then gives the theorem: `Lsn(0) = 1`, and
every row of transaction 0 is at or below `fsync_lsn`. The proof does not
need the drain order of finding 2, in which the open snapshot slot leaves
the buffer before its commit. The flag ignores uncommitted slots, and a slot
claimed afterwards comes after the snapshot.

### Only model-checked

The liveness property `CommittedEventuallyCheckpointed` is out of the
prover's reach, because it depends on fairness and ENABLED. It stays with
TLC.

The restart property `RestartReplaysUnfinished` is within reach but not
proved yet (section 6). It is model-checked only. So are the properties that
only the violation runs check.

## 5. Not modelled

* The table mapper, schema registry and encoders live outside `src/`. Only their
  success or failure is modelled.
* Option parsing, configuration, the pidfile, the reload signal (SIGUSR2) and
  the start-up code all run before replication starts, and any failure there
  is `exit(1)`. `Restart` abstracts them as succeeding.
* The `TTA_VNV` debug row logging only writes files.
* `on_keepalive` changes no state.
* The topic prefix option (`--topic-prefix`) is applied by the table mapper,
  outside `src/`.

## 6. Plan for later work

* Prove `RestartReplaysUnfinished` in `BottledWaterRestart`, reusing
  `CInv` for the state before the crash.
* Restart runs under `--on-error=log` need a smaller instance than the exit
  run (MaxTxn = 2) to fit the time budget.
