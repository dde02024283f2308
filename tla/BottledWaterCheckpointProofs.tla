-------------------- MODULE BottledWaterCheckpointProofs --------------------
(***************************************************************************)
(* Proofs about the position reported to Postgres: fsync_lsn never moves   *)
(* back (FsyncMonotone) and never passes a row that is not yet finished    *)
(* (DurableCheckpoint), for every size of the buffer and of the queue.     *)
(* They rest on the slot accounting of BottledWaterSlotProofs and on the   *)
(* order of the commit positions in the buffer (CheckpointOrder).          *)
(***************************************************************************)
EXTENDS BottledWaterSlotProofs

OpenPcs == {"loop", "send_bp", "send_stale"}

(* The parts of CheckpointOrder, named for the proof. *)
FsyncBelowUp == fsync_lsn <= upTxn
CommitIsLsn ==
  \A s \in Slots : xact_list[s].commit > 0 =>
     xact_list[s].commit = Lsn(xact_list[s].xid) /\ xact_list[s].commit <= upTxn
RingAfterFsync ==
  \A s \in Slots : InRing(s) =>
     \/ xact_list[s].commit > fsync_lsn
     \/ s = xact_head /\ upIn /\ pc # "begin_bp"
RingOrdered ==
  \A s, t \in Slots :
     InRing(s) /\ InRing(t) /\ Pos(s) < Pos(t) /\ xact_list[t].commit > 0 =>
       xact_list[s].commit < xact_list[t].commit
OpenUncommitted == upIn /\ pc \in OpenPcs => xact_list[xact_head].commit = 0
EmptyOpenUnacked == Empty /\ upIn /\ pc \in OpenPcs => fsync_lsn = 0

LEMMA CheckpointOrderParts ==
  CheckpointOrder <=> /\ FsyncBelowUp /\ CommitIsLsn /\ RingAfterFsync
                      /\ RingOrdered /\ OpenUncommitted /\ EmptyOpenUnacked
BY DEF CheckpointOrder, FsyncBelowUp, CommitIsLsn, RingAfterFsync, RingOrdered,
       OpenUncommitted, EmptyOpenUnacked, OpenPcs

(* The inductive invariant. *)
CInv == IInv /\ CheckpointOrder /\ RowsAccounted

-----------------------------------------------------------------------------
(***************************************************************************)
(* While the process runs, a message still to be reported belongs to a     *)
(* transaction beyond fsync_lsn: its slot has an event pending, so it is   *)
(* in the buffer and committed after fsync_lsn, or it is the open          *)
(* transaction, whose position exceeds every commit so far.                *)
(***************************************************************************)
LEMMA OutstandingLate ==
  ASSUME IInv, CheckpointOrder, pc \in PollPoints,
         NEW s \in Slots, NEW e \in Outstanding(s)
  PROVE  fsync_lsn < Lsn(e.txn)
<1>1. /\ TypeInv /\ IsFiniteSet(inflight) /\ PendingCovers /\ StaleDrained
      /\ HeadDrained /\ HeadOpen /\ RetryFresh /\ InflightSlotLive
  BY SlotAccountingParts DEF IInv
<1>2. /\ FsyncBelowUp /\ CommitIsLsn /\ RingAfterFsync /\ EmptyOpenUnacked
  BY CheckpointOrderParts
<1>3. xact_list[s].pending >= 1 /\ ~Drainable(xact_list[s])
  BY <1>1, PendingOfOutstanding DEF TypeInv, TypeOK, XactInfo, Drainable
<1>4. /\ e \in Env /\ e.slot = s
      /\ xact_list[s].xid = e.txn
      /\ pc = "send_bp" /\ e = sendEnv => s = xact_head /\ e.txn = upTxn /\ upIn
  <2>1. CASE e \in inflight
    BY <1>1, <2>1 DEF Outstanding, InflightSlotLive, XidOf, TypeInv, TypeOK, RetryFresh
  <2>2. CASE e \notin inflight
    <3>1. pc = "send_bp" /\ e = sendEnv /\ sendEnv.slot = s
      BY <2>2 DEF Outstanding
    <3>. QED  BY <1>1, <3>1 DEF RetryFresh, HeadOpen, XidOf, TypeInv
  <2>. QED  BY <2>1, <2>2
<1>5. upTxn \in Nat /\ fsync_lsn \in Nat /\ e.txn \in Nat
  BY <1>1, <1>4 DEF TypeInv, TypeOK, Env, Txns
<1>6. CASE InRing(s)
  <2>1. CASE xact_list[s].commit > fsync_lsn
    BY <1>1, <1>2, <1>4, <1>5, <2>1 DEF CommitIsLsn, TypeInv, TypeOK
  <2>2. CASE s = xact_head /\ upIn /\ pc # "begin_bp"
    <3>1. e.txn = upTxn
      BY <1>1, <1>4, <2>2 DEF HeadOpen, XidOf, PollPoints
    <3>. QED  BY <1>2, <1>5, <3>1 DEF FsyncBelowUp, Lsn
  <2>. QED  BY <1>2, <1>6, <2>1, <2>2 DEF RingAfterFsync
<1>7. CASE ~InRing(s)
  <2>1. s = xact_head
    BY <1>1, <1>3, <1>7 DEF StaleDrained
  <2>2. Empty
    BY <1>1, <1>7, <2>1, RingBasics, LenFacts DEF InRing, TypeInv, TypeOK
  <2>3. upIn /\ pc \in OpenPcs
    BY <1>1, <1>3, <2>1, <2>2 DEF HeadDrained, PollPoints, OpenPcs
  <2>. QED  BY <1>2, <1>5, <2>2, <2>3 DEF EmptyOpenUnacked, Lsn
<1>. QED  BY <1>6, <1>7

(***************************************************************************)
(* The durability of the checkpoint follows in every state: a row at or    *)
(* below fsync_lsn that is not finished would be outstanding, or the       *)
(* process would have exited before its transaction was checkpointed.      *)
(***************************************************************************)
LEMMA DurableFromAccounting == CInv => DurableCheckpoint
<1> SUFFICES ASSUME CInv, NEW r \in produced, Lsn(r.txn) <= fsync_lsn,
                    r \notin kafka \cup lost
             PROVE  FALSE
  BY DEF DurableCheckpoint
<1>1. IInv /\ CheckpointOrder /\ RowsAccounted /\ TypeInv
  BY DEF CInv, IInv
<1>2. r.txn \in Nat /\ fsync_lsn \in Nat
  BY <1>1 DEF TypeInv, TypeOK, RowId, Txns
<1>3. CASE pc = "exited"
  BY <1>1, <1>2, <1>3 DEF RowsAccounted, Lsn
<1>4. CASE pc # "exited"
  <2>1. pc \in PollPoints
    BY <1>1, <1>4 DEF TypeInv, TypeOK
  <2>2. PICK e \in inflight \cup {sendEnv} :
          /\ RowOf(e) = r
          /\ e \in Outstanding(e.slot)
          /\ e.slot \in Slots
    <3>1. CASE \E e \in inflight : RowOf(e) = r
      BY <1>1, <3>1 DEF Outstanding, TypeInv, TypeOK, Env
    <3>2. CASE pc = "send_bp" /\ RowOf(sendEnv) = r
      BY <1>1, <3>2 DEF Outstanding, TypeInv, Env
    <3>. QED  BY <1>1, <1>4, <3>1, <3>2 DEF RowsAccounted
  <2>3. fsync_lsn < Lsn(e.txn)
    BY <1>1, <2>1, <2>2, OutstandingLate
  <2>. QED  BY <1>2, <2>2, <2>3 DEF RowOf, Lsn
<1>. QED  BY <1>3, <1>4

(* The same, as a bound: an unfinished row lies beyond fsync_lsn.          *)
LEMMA UnfinishedLate ==
  ASSUME CInv, NEW r \in produced \ (kafka \cup lost)
  PROVE  fsync_lsn < Lsn(r.txn)
<1>1. r.txn \in Nat /\ fsync_lsn \in Nat
  BY DEF CInv, IInv, TypeInv, TypeOK, RowId, Txns
<1>. QED  BY <1>1, DurableFromAccounting DEF DurableCheckpoint, Lsn

(***************************************************************************)
(* A step that leaves the buffer, fsync_lsn, the waiting envelope, the     *)
(* upstream transaction and the delivered rows alone, and at most drops    *)
(* envelopes from the queue on its way out of the program, keeps the       *)
(* commit order and the accounting of rows: on an exit every unfinished    *)
(* row already lay beyond fsync_lsn.                                       *)
(***************************************************************************)
LEMMA FrameCO ==
  ASSUME CInv,
         UNCHANGED <<xact_list, xact_head, xact_tail, fsync_lsn, sendEnv,
                     produced, kafka, lost, upTxn, upIn>>,
         inflight' \subseteq inflight,
         pc' # "exited" => inflight' = inflight,
         \/ pc' = pc \/ pc' = "exited"
         \/ pc' = "loop" /\ pc \in {"loop", "send_stale"}
  PROVE  CheckpointOrder' /\ RowsAccounted'
<1>1. /\ FsyncBelowUp /\ CommitIsLsn /\ RingAfterFsync /\ RingOrdered
      /\ OpenUncommitted /\ EmptyOpenUnacked /\ RowsAccounted
  BY CheckpointOrderParts DEF CInv
<1>2. \A s \in Slots : InRing(s)' = InRing(s) /\ Pos(s)' = Pos(s)
  BY DEF InRing, Pos, Length
<1>3. /\ FsyncBelowUp' /\ CommitIsLsn' /\ RingOrdered'
  BY <1>1, <1>2 DEF FsyncBelowUp, CommitIsLsn, RingOrdered
<1>4. RingAfterFsync'
  BY <1>1, <1>2 DEF RingAfterFsync
<1>5. OpenUncommitted' /\ EmptyOpenUnacked'
  BY <1>1 DEF OpenUncommitted, EmptyOpenUnacked, OpenPcs, Empty, Length
<1>6. RowsAccounted'
  <2> SUFFICES ASSUME NEW r \in produced \ (kafka \cup lost)
               PROVE  /\ pc' # "exited" =>
                            \/ \E e \in inflight' : RowOf(e) = r
                            \/ pc' = "send_bp" /\ RowOf(sendEnv') = r
                      /\ pc' = "exited" => fsync_lsn' < Lsn(r.txn)
    BY DEF RowsAccounted
  <2>1. pc' = "exited" => fsync_lsn' < Lsn(r.txn)
    BY UnfinishedLate
  <2>2. ASSUME pc' # "exited"
        PROVE  \/ \E e \in inflight' : RowOf(e) = r
               \/ pc' = "send_bp" /\ RowOf(sendEnv') = r
    <3>1. pc # "exited" /\ inflight' = inflight /\ (pc = "send_bp" => pc' = pc)
      BY <2>2
    <3>. QED  BY <1>1, <3>1 DEF RowsAccounted
  <2>. QED  BY <2>1, <2>2
<1>. QED  BY <1>3, <1>4, <1>5, <1>6
          DEF CheckpointOrder, FsyncBelowUp, CommitIsLsn, RingAfterFsync,
              RingOrdered, OpenUncommitted, EmptyOpenUnacked, OpenPcs

-----------------------------------------------------------------------------
(***************************************************************************)
(* Moving the tail k places: a place the tail passes in a nonempty buffer  *)
(* ends up beyond the new end, and on an empty buffer a walk of L - 1      *)
(* places leaves the head alone in the buffer.                             *)
(***************************************************************************)
LEMMA DrainArithMore ==
  ASSUME xact_head \in Slots, xact_tail \in Slots, NEW k \in 0 .. DrainBound,
         xact_tail' = (xact_tail + k) % L, xact_head' = xact_head
  PROVE  /\ \A s \in Slots : ~Empty /\ Pos(s) < k => Pos(s)' = Pos(s) - k + L
         /\ Empty /\ k = L - 1 =>
               /\ Length' = 1
               /\ \A s \in Slots : Pos(s)' = 0 <=> s = xact_head
<1>1. L \in Nat /\ L >= 2 /\ Slots = 0 .. L - 1
  BY LenFacts
<1>2. Length \in 0 .. L - 1
  BY <1>1 DEF Length, L
<1>3. \A s \in Slots : ~Empty /\ Pos(s) < k => Pos(s)' = Pos(s) - k + L
  BY <1>1, <1>2 DEF Pos, Length, Empty, DrainBound, L
<1>4. ASSUME Empty, k = L - 1
      PROVE  /\ Length' = 1
             /\ \A s \in Slots : Pos(s)' = 0 <=> s = xact_head
  <2>1. xact_tail = (xact_head + 1) % L
    BY RingBasics, <1>4
  <2>2. xact_tail' = xact_head
    BY <1>1, <1>4, <2>1
  <2>. QED  BY <1>1, <2>2 DEF Length, Pos, L
<1>. QED  BY <1>3, <1>4

(***************************************************************************)
(* maybe_checkpoint keeps the commit positions in order.  Given the list   *)
(* the caller stored, in which every committed slot of the buffer lies     *)
(* beyond fsync_lsn, in commit order, at most up, and the open head (open) *)
(* is uncommitted and belongs to transaction up: the walk only moves       *)
(* fsync_lsn forward, to at most up, and what stays in the buffer is still *)
(* beyond fsync_lsn and in order.  On an empty buffer the walk passes the  *)
(* stale slots, whose commits lie below the head's unless the head is      *)
(* open.                                                                   *)
(***************************************************************************)
LEMMA DrainOrder ==
  ASSUME xact_head \in Slots, xact_tail \in Slots, fsync_lsn \in Nat,
         NEW list \in [Slots -> XactInfo], NEW up \in Nat, NEW open \in BOOLEAN,
         fsync_lsn <= up,
         \A s \in Slots : list[s].commit > 0 => list[s].commit <= up,
         \A s \in Slots : InRing(s) =>
            list[s].commit > fsync_lsn \/ (s = xact_head /\ open),
         \A s, t \in Slots :
            InRing(s) /\ InRing(t) /\ Pos(s) < Pos(t) /\ list[t].commit > 0 =>
              list[s].commit < list[t].commit,
         open => list[xact_head].commit = 0 /\ list[xact_head].xid = up,
         Empty => fsync_lsn = 0,
         Empty /\ ~open =>
            \A s \in Slots : s # xact_head => list[s].commit < list[xact_head].commit,
         \A s \in Slots : ~InRing(s) /\ s # xact_head => Drainable(list[s]),
         MaybeCheckpoint(list)
  PROVE  /\ fsync_lsn' \in Nat /\ fsync_lsn' >= fsync_lsn /\ fsync_lsn' <= up
         /\ \A s \in Slots : InRing(s)' =>
               list[s].commit > fsync_lsn' \/ (s = xact_head /\ open)
         /\ \A s, t \in Slots :
               InRing(s)' /\ InRing(t)' /\ Pos(s)' < Pos(t)' /\ list[t].commit > 0 =>
                 list[s].commit < list[t].commit
         /\ Empty' /\ open => fsync_lsn' = 0
<1>1. L \in Nat /\ L >= 2 /\ Slots = 0 .. L - 1
  BY LenFacts
<1>2. PICK k \in 0 .. DrainBound :
        /\ DrainsTo(list, k)
        /\ xact_tail' = (xact_tail + k) % L
        /\ xact_head' = xact_head
        /\ fsync_lsn' = IF k = 0 THEN fsync_lsn ELSE SlotAt(list, k - 1).commit
  BY DEF MaybeCheckpoint, L
<1>3. /\ ~Empty => Length' = Length - k
      /\ Empty => (Length' = 0 <=> k \in {0, L})
      /\ \A s \in Slots : ~Empty /\ Pos(s) >= k => Pos(s)' = Pos(s) - k
      /\ \A s \in Slots : ~Empty /\ Pos(s) < k => Pos(s)' = Pos(s) - k + L
      /\ Empty /\ k = L - 1 =>
            /\ Length' = 1
            /\ \A s \in Slots : Pos(s)' = 0 <=> s = xact_head
  BY <1>2, DrainArith, DrainArithMore
<1>4. /\ Length \in 0 .. L - 1
      /\ \A s \in Slots : Pos(s) \in Slots
      /\ \A s \in Slots : (xact_tail + Pos(s)) % L = s
      /\ \A s, t \in Slots : Pos(s) = Pos(t) => s = t
      /\ Pos(xact_head) = IF Empty THEN L - 1 ELSE Length - 1
  BY RingBasics
<1>5. k \in 0 .. L
  BY <1>1, <1>4 DEF DrainBound, L
<1>6. \A s \in Slots : Pos(s) < k => Drainable(list[s])
  <2> SUFFICES ASSUME NEW s \in Slots, Pos(s) < k PROVE Drainable(list[s])
    OBVIOUS
  <2>1. Pos(s) \in 0 .. k - 1
    BY <1>4, <1>1
  <2>2. SlotAt(list, Pos(s)) = list[s]
    BY <1>4 DEF SlotAt, L
  <2>. QED  BY <1>2, <2>1, <2>2 DEF DrainsTo
(* A drained slot of the open transaction shows that transaction is xid 0. *)
<1>7. open /\ Drainable(list[xact_head]) => up = 0
  BY DEF Drainable
<1>8. CASE k = 0
  <2>1. xact_tail' = xact_tail /\ fsync_lsn' = fsync_lsn
    BY <1>1, <1>2, <1>8
  <2>2. \A s \in Slots : Pos(s)' = Pos(s) /\ (InRing(s)' <=> InRing(s))
    BY <2>1, <1>2 DEF Pos, InRing, Length
  <2>3. Empty' = Empty
    BY <2>1, <1>2 DEF Empty, Length
  <2>. QED  BY <2>1, <2>2, <2>3
<1>9. CASE k > 0
  <2> DEFINE p == (xact_tail + (k - 1)) % L
  <2>1. p \in Slots /\ Pos(p) = k - 1 /\ fsync_lsn' = list[p].commit
    <3>1. k - 1 \in 0 .. L - 1 /\ xact_tail \in 0 .. L - 1
      BY <1>1, <1>5, <1>9
    <3>2. p \in Slots
      BY <1>1, <3>1
    <3>3. Pos(p) = k - 1
      BY <1>1, <3>1 DEF Pos, L
    <3>4. fsync_lsn' = list[p].commit
      BY <1>2, <1>9 DEF SlotAt, L
    <3>. QED  BY <3>2, <3>3, <3>4
  <2>2. Drainable(list[p])
    BY <1>1, <1>6, <2>1
  <2>3. fsync_lsn' \in Nat /\ fsync_lsn' <= up
    BY <2>1 DEF XactInfo
  <2>4. CASE ~Empty
    <3>1. k <= Length /\ InRing(p)
      BY <1>1, <1>2, <1>4, <2>1, <2>4 DEF DrainBound, InRing
    <3>2. fsync_lsn' >= fsync_lsn
      <4>0. list[p].commit > fsync_lsn \/ (p = xact_head /\ open)
        BY <2>1, <3>1
      <4>1. CASE list[p].commit > fsync_lsn
        BY <2>1, <2>3, <4>1
      <4>2. CASE p = xact_head /\ open
        BY <1>7, <2>1, <2>2, <2>3, <4>2 DEF XactInfo
      <4>. QED  BY <4>0, <4>1, <4>2
    <3>3. ASSUME NEW s \in Slots, InRing(s)'
          PROVE  InRing(s) /\ Pos(s) >= k /\ Pos(s)' = Pos(s) - k
      <4>1. Pos(s) \in Slots /\ Pos(s)' < Length' /\ Length' = Length - k
        BY <1>3, <1>4, <2>4, <3>3 DEF InRing
      <4>2. ~(Pos(s) < k)
        <5> SUFFICES ASSUME Pos(s) < k PROVE FALSE
          OBVIOUS
        <5>1. Pos(s)' = Pos(s) - k + L
          BY <1>3, <2>4
        <5>. QED  BY <1>1, <1>4, <1>5, <4>1, <5>1
      <4>3. Pos(s)' = Pos(s) - k
        BY <1>1, <1>3, <1>4, <2>4, <4>1, <4>2
      <4>4. Pos(s) < Length
        BY <1>1, <1>4, <1>5, <4>1, <4>3
      <4>. QED  BY <1>1, <4>1, <4>2, <4>3, <4>4 DEF InRing
    <3>4. ASSUME NEW s \in Slots, InRing(s)'
          PROVE  list[s].commit > fsync_lsn' \/ (s = xact_head /\ open)
      <4>1. InRing(s) /\ Pos(p) < Pos(s)
        BY <1>1, <1>4, <2>1, <3>3, <3>4
      <4>2. CASE list[s].commit > 0
        BY <3>1, <4>1, <4>2, <2>1
      <4>3. CASE list[s].commit = 0
        BY <4>1, <4>3
      <4>. QED  BY <4>2, <4>3 DEF XactInfo
    <3>5. \A s, t \in Slots :
            InRing(s)' /\ InRing(t)' /\ Pos(s)' < Pos(t)' /\ list[t].commit > 0 =>
              list[s].commit < list[t].commit
      <4> SUFFICES ASSUME NEW s \in Slots, NEW t \in Slots,
                          InRing(s)', InRing(t)', Pos(s)' < Pos(t)'
                   PROVE  InRing(s) /\ InRing(t) /\ Pos(s) < Pos(t)
        OBVIOUS
      <4>1. InRing(s) /\ Pos(s) >= k /\ Pos(s)' = Pos(s) - k
        BY <3>3
      <4>2. InRing(t) /\ Pos(t) >= k /\ Pos(t)' = Pos(t) - k
        BY <3>3
      <4>. QED  BY <1>1, <1>4, <4>1, <4>2
    <3>6. Empty' /\ open => fsync_lsn' = 0
      <4> SUFFICES ASSUME Empty', open PROVE fsync_lsn' = 0
        OBVIOUS
      <4>1. Pos(xact_head) < k
        BY <1>1, <1>3, <1>4, <2>4, <3>1 DEF Empty
      <4>. QED  BY <1>6, <1>7, <4>1, <2>3
    <3>. QED  BY <2>3, <3>2, <3>4, <3>5, <3>6
  <2>5. CASE Empty
    <3>1. fsync_lsn = 0
      BY <2>5
    <3>2. k >= L - 1
      <4> SUFFICES ASSUME k < L - 1 PROVE FALSE
        BY <1>1, <1>5
      <4> DEFINE q == (xact_tail + k) % L
      <4>1. q \in Slots /\ Pos(q) = k /\ SlotAt(list, k) = list[q]
        BY <1>1, <1>5 DEF Pos, SlotAt, L
      <4>2. q # xact_head /\ ~InRing(q)
        <5>1. Pos(xact_head) = L - 1 /\ Length = 0
          BY <1>4, <2>5 DEF Empty
        <5>. QED  BY <1>1, <4>1, <5>1 DEF InRing
      <4>3. k # DrainBound
        BY <1>1, <2>5 DEF DrainBound, L
      <4>. QED  BY <1>2, <4>1, <4>2, <4>3 DEF DrainsTo
    <3>3. CASE k = L
      <4>1. Length' = 0
        BY <1>3, <2>5, <3>3
      <4>2. p = xact_head
        BY <1>1, <1>4, <2>1, <2>5, <3>3
      <4>3. \A s \in Slots : ~InRing(s)'
        BY <1>1, <1>2, <4>1 DEF InRing, Pos, L
      <4>. QED  BY <1>7, <2>2, <2>3, <3>1, <4>2, <4>3 DEF XactInfo
    <3>4. CASE k = L - 1
      <4>1. Length' = 1 /\ \A s \in Slots : Pos(s)' = 0 <=> s = xact_head
        BY <1>3, <2>5, <3>4
      <4>2. \A s \in Slots : InRing(s)' <=> s = xact_head
        <5>1. \A s \in Slots : Pos(s)' \in Nat
          BY <1>1, <1>2 DEF Pos, L
        <5>. QED  BY <4>1, <5>1 DEF InRing
      <4>3. p # xact_head
        <5>1. Pos(xact_head) = L - 1
          BY <1>4, <2>5
        <5>. QED  BY <1>1, <2>1, <3>4, <5>1
      <4>4. ~open => list[xact_head].commit > fsync_lsn'
        BY <2>1, <2>5, <4>3
      <4>5. ~Empty'
        BY <4>1 DEF Empty
      <4>6. \A s \in Slots : InRing(s)' =>
               list[s].commit > fsync_lsn' \/ (s = xact_head /\ open)
        BY <4>2, <4>4
      <4>7. \A s, t \in Slots :
               InRing(s)' /\ InRing(t)' /\ Pos(s)' < Pos(t)' /\ list[t].commit > 0 =>
                 list[s].commit < list[t].commit
        <5> SUFFICES ASSUME NEW s \in Slots, NEW t \in Slots,
                            InRing(s)', InRing(t)', Pos(s)' < Pos(t)'
                     PROVE  FALSE
          OBVIOUS
        <5>1. s = xact_head /\ t = xact_head
          BY <4>2
        <5>2. Pos(xact_head)' \in Nat /\ Pos(xact_head)' < Pos(xact_head)'
          BY <1>1, <1>2, <5>1 DEF Pos, L
        <5>. QED  BY <5>2
      <4>. QED  BY <2>3, <3>1, <4>5, <4>6, <4>7
    <3>. QED  BY <1>1, <1>5, <3>2, <3>3, <3>4
  <2>. QED  BY <2>4, <2>5
<1>. QED  BY <1>8, <1>9, <1>5

-----------------------------------------------------------------------------
(* The step lemmas: each action keeps CheckpointOrder and RowsAccounted and *)
(* does not move fsync_lsn back.                                            *)

CStep == CheckpointOrder' /\ RowsAccounted' /\ fsync_lsn' >= fsync_lsn

(***************************************************************************)
(* The callbacks and steps that touch neither the buffer nor the upstream  *)
(* transaction: the schema callback, unkeyed deletes, the end of the stale *)
(* back-pressure wait, client errors, the signal and the exit it causes,   *)
(* and the steps after the exit.                                           *)
(***************************************************************************)
LEMMA FrameActionsCO ==
  ASSUME CInv,
         \/ \E r \in Rels : OnTableSchema(r) \/ OnDeleteUnkeyed(r)
         \/ StaleBackpressureDone \/ OnClientError
         \/ ShutdownSignal \/ ShutdownExit
         \/ Terminated \/ UNCHANGED vars
  PROVE  CStep
<1>1. fsync_lsn \in Nat
  BY DEF CInv, IInv, TypeInv, TypeOK
<1>2. CASE \E r \in Rels : OnTableSchema(r)
  BY <1>1, <1>2, FrameCO DEF CStep, OnTableSchema, CallbackReturn, ExitNicely,
                              ringVars, histVars
<1>3. CASE \E r \in Rels : OnDeleteUnkeyed(r)
  BY <1>1, <1>3, FrameCO DEF CStep, OnDeleteUnkeyed, ringVars, histVars
<1>4. CASE StaleBackpressureDone
  BY <1>1, <1>4, FrameCO DEF CStep, StaleBackpressureDone, ringVars, upVars,
                              histVars
<1>5. CASE OnClientError
  BY <1>1, <1>5, FrameCO DEF CStep, OnClientError, ExitNicely, ringVars,
                              upVars, histVars
<1>6. CASE ShutdownSignal
  BY <1>1, <1>6, FrameCO DEF CStep, ShutdownSignal, ringVars, upVars, histVars
<1>7. CASE ShutdownExit
  BY <1>1, <1>7, FrameCO DEF CStep, ShutdownExit, ExitNicely, ringVars,
                              upVars, histVars
<1>8. CASE Terminated \/ UNCHANGED vars
  BY <1>1, <1>8, FrameCO DEF CStep, Terminated, vars, ringVars, upVars,
                              histVars
<1>. QED  BY <1>2, <1>3, <1>4, <1>5, <1>6, <1>7, <1>8

(***************************************************************************)
(* Claiming the slot after the head (on_begin_txn, directly or after the   *)
(* full-buffer wait) when every slot of the buffer is committed beyond     *)
(* fsync_lsn: the claimed slot is the open head, uncommitted, at the end   *)
(* of the buffer, so the order is kept and the buffer is not empty.        *)
(***************************************************************************)
LEMMA ClaimCO ==
  ASSUME CInv, ~Full, BeginSlot, pc \in {"loop", "begin_bp"},
         pc' = "loop", upIn',
         \A s \in Slots : InRing(s) => xact_list[s].commit > fsync_lsn,
         UNCHANGED <<inflight, sendEnv, produced, kafka, lost, upTxn>>
  PROVE  CStep
<1>1. /\ TypeInv /\ FsyncBelowUp /\ CommitIsLsn /\ RingOrdered /\ RowsAccounted
  BY CheckpointOrderParts DEF CInv, IInv
<1>2. /\ xact_head' = (xact_head + 1) % L
      /\ xact_list' = [xact_list EXCEPT ![xact_head'] =
                         [xid |-> XidOf(upTxn), pending |-> 0, commit |-> 0]]
      /\ UNCHANGED <<xact_tail, fsync_lsn>>
  BY DEF BeginSlot, L
<1>3. /\ xact_head' \in Slots
      /\ xact_head' # xact_head
      /\ Pos(xact_head') = Length
      /\ Length' = Length + 1
      /\ \A s \in Slots : InRing(s)' <=> Pos(s) <= Length
  BY <1>1, <1>2, ClaimArith DEF TypeInv, TypeOK
<1>4. /\ \A s \in Slots : Pos(s)' = Pos(s) /\ Pos(s) \in Slots
      /\ \A s, t \in Slots : Pos(s) = Pos(t) => s = t
      /\ Length \in 0 .. L - 1
  BY <1>1, <1>2, RingBasics DEF Pos, TypeInv, TypeOK
<1>5. \A s \in Slots : xact_list'[s] =
         IF s = xact_head' THEN [xid |-> XidOf(upTxn), pending |-> 0, commit |-> 0]
                           ELSE xact_list[s]
  BY <1>1, <1>2, <1>3 DEF TypeInv, TypeOK
(* A slot other than the claimed one is in the buffer afterwards only if   *)
(* it was before, and at an earlier place than the claimed one.            *)
<1>6. \A s \in Slots : InRing(s)' /\ s # xact_head' => InRing(s) /\ Pos(s) < Length
  BY <1>3, <1>4, LenFacts DEF InRing
<1>7. FsyncBelowUp' /\ CommitIsLsn'
  BY <1>1, <1>2, <1>5 DEF FsyncBelowUp, CommitIsLsn
<1>8. RingAfterFsync'
  BY <1>2, <1>5, <1>6 DEF RingAfterFsync
<1>9. RingOrdered'
  <2> SUFFICES ASSUME NEW s \in Slots, NEW t \in Slots,
                      InRing(s)', InRing(t)', Pos(s)' < Pos(t)',
                      xact_list'[t].commit > 0
               PROVE  xact_list'[s].commit < xact_list'[t].commit
    BY DEF RingOrdered
  <2>1. t # xact_head'
    BY <1>5
  <2>2. InRing(t) /\ Pos(t) < Length
    BY <1>6, <2>1
  <2>3. s # xact_head' /\ Pos(s) < Pos(t)
    BY <1>3, <1>4, <2>2, LenFacts
  <2>4. InRing(s)
    BY <1>6, <2>3
  <2>. QED  BY <1>1, <1>5, <2>1, <2>2, <2>3, <2>4 DEF RingOrdered
<1>10. OpenUncommitted' /\ EmptyOpenUnacked'
  <2>1. ~Empty'
    BY <1>3, <1>4, LenFacts DEF Empty
  <2>. QED  BY <1>5, <1>3, <2>1 DEF OpenUncommitted, EmptyOpenUnacked
<1>11. RowsAccounted'
  BY <1>1 DEF RowsAccounted
<1>12. fsync_lsn' >= fsync_lsn
  BY <1>1, <1>2 DEF TypeInv, TypeOK
<1>. QED  BY <1>7, <1>8, <1>9, <1>10, <1>11, <1>12
          DEF CStep, CheckpointOrder, FsyncBelowUp, CommitIsLsn, RingAfterFsync,
              RingOrdered, OpenUncommitted, EmptyOpenUnacked, OpenPcs

LEMMA OnBeginTxnCO == CInv /\ OnBeginTxn => CStep
<1> SUFFICES ASSUME CInv, OnBeginTxn PROVE CStep
  OBVIOUS
<1>1. /\ TypeInv /\ ~upIn /\ pc = "loop" /\ RingAfterFsync
  BY CheckpointOrderParts DEF CInv, IInv, OnBeginTxn
<1>2. \A s \in Slots : InRing(s) => xact_list[s].commit > fsync_lsn
  BY <1>1 DEF RingAfterFsync
<1>3. CASE Full
  <2>1. pc' = "begin_bp" /\ UNCHANGED <<ringVars, inflight, sendEnv, produced,
                                         kafka, lost, upTxn>>
    BY <1>3 DEF OnBeginTxn, histVars
  <2>2. /\ FsyncBelowUp /\ CommitIsLsn /\ RingOrdered /\ RowsAccounted
    BY CheckpointOrderParts DEF CInv
  <2>3. \A s \in Slots : InRing(s)' = InRing(s)
    BY <2>1 DEF InRing, Pos, Length, ringVars
  <2>4. fsync_lsn \in Nat
    BY <1>1 DEF TypeInv, TypeOK
  <2>. QED  BY <1>1, <1>2, <2>1, <2>2, <2>3, <2>4
            DEF CStep, CheckpointOrder, FsyncBelowUp, CommitIsLsn, RingOrdered,
                RowsAccounted, ringVars, InRing, Pos, Length
<1>4. CASE ~Full
  BY <1>1, <1>2, <1>4, ClaimCO DEF OnBeginTxn, histVars
<1>. QED  BY <1>3, <1>4

LEMMA BeginResumeCO == CInv /\ BeginResume => CStep
<1> SUFFICES ASSUME CInv, BeginResume PROVE CStep
  OBVIOUS
<1>1. /\ TypeInv /\ RingAfterFsync /\ upIn
  BY CheckpointOrderParts DEF CInv, IInv, BeginResume, TypeInv
<1>2. \A s \in Slots : InRing(s) => xact_list[s].commit > fsync_lsn
  BY <1>1 DEF RingAfterFsync, BeginResume
<1>. QED  BY <1>1, <1>2, ClaimCO DEF BeginResume, upVars, histVars

(***************************************************************************)
(* on_commit_txn stores the commit position upTxn + 1 in the head slot and *)
(* checkpoints.  That position exceeds every commit so far, and the head   *)
(* is the last place of the buffer, so the list handed to maybe_checkpoint *)
(* is ordered; on an empty buffer the stale slots the walk may pass hold   *)
(* earlier commits, and fsync_lsn is still 0.                              *)
(***************************************************************************)
LEMMA OnCommitTxnCO == CInv /\ OnCommitTxn => CStep
<1> SUFFICES ASSUME CInv, OnCommitTxn PROVE CStep
  OBVIOUS
<1> DEFINE list == [xact_list EXCEPT ![xact_head].commit = Lsn(upTxn)]
<1>1. /\ TypeInv /\ StaleDrained /\ HeadOpen
      /\ FsyncBelowUp /\ CommitIsLsn /\ RingAfterFsync /\ RingOrdered
      /\ EmptyOpenUnacked /\ RowsAccounted
  BY SlotAccountingParts, CheckpointOrderParts DEF CInv, IInv
<1>2. /\ pc = "loop" /\ upIn /\ xact_list[xact_head].xid = upTxn
      /\ upTxn \in Nat /\ fsync_lsn \in Nat
      /\ xact_head \in Slots /\ xact_tail \in Slots
      /\ MaybeCheckpoint(list)
      /\ upIn' = FALSE /\ upTxn' = upTxn + 1
      /\ UNCHANGED <<inflight, pc, sendEnv, kafka, lost, produced>>
  BY <1>1 DEF OnCommitTxn, XidOf, histVars, TypeInv, TypeOK
<1>3. /\ list \in [Slots -> XactInfo]
      /\ list[xact_head].commit = upTxn + 1
      /\ list[xact_head].xid = upTxn
      /\ \A s \in Slots : s # xact_head => list[s] = xact_list[s]
      /\ \A s \in Slots : list[s].commit \in Nat /\ xact_list[s].commit \in Nat
  BY <1>1, <1>2 DEF TypeInv, TypeOK, XactInfo, Lsn, Txns
<1> HIDE DEF list
<1>4. \A s \in Slots : s # xact_head => xact_list[s].commit <= upTxn
  BY <1>1, <1>2 DEF CommitIsLsn, TypeInv, TypeOK
<1>5. \A s \in Slots : InRing(s) /\ s # xact_head => xact_list[s].commit > fsync_lsn
  BY <1>1 DEF RingAfterFsync
<1>6. \A s, t \in Slots :
        InRing(s) /\ InRing(t) /\ Pos(s) < Pos(t) /\ list[t].commit > 0 =>
          list[s].commit < list[t].commit
  <2> SUFFICES ASSUME NEW s \in Slots, NEW t \in Slots,
                      InRing(s), InRing(t), Pos(s) < Pos(t), list[t].commit > 0
               PROVE  list[s].commit < list[t].commit
    OBVIOUS
  <2>1. /\ Pos(xact_head) = Length - 1 /\ Pos(t) < Length
        /\ \A u, v \in Slots : Pos(u) = Pos(v) => u = v
        /\ Pos(s) \in Slots /\ Pos(t) \in Slots /\ Length \in 0 .. L - 1
    <3>1. ~Empty
      BY LenFacts, RingBasics, <1>2 DEF InRing, Empty
    <3>. QED  BY <1>2, <3>1, RingBasics DEF InRing
  <2>2. s # xact_head
    BY <2>1, LenFacts
  <2>3. CASE t = xact_head
    <3>1. list[s].commit <= upTxn
      BY <1>3, <1>4, <2>2
    <3>. QED  BY <1>2, <1>3, <2>3, <3>1
  <2>4. CASE t # xact_head
    BY <1>1, <1>3, <2>2, <2>4 DEF RingOrdered
  <2>. QED  BY <2>3, <2>4
<1>7. /\ fsync_lsn' \in Nat /\ fsync_lsn' >= fsync_lsn /\ fsync_lsn' <= upTxn + 1
      /\ \A s \in Slots : InRing(s)' => list[s].commit > fsync_lsn'
      /\ \A s, t \in Slots :
            InRing(s)' /\ InRing(t)' /\ Pos(s)' < Pos(t)' /\ list[t].commit > 0 =>
              list[s].commit < list[t].commit
  <2>1. \A s \in Slots : list[s].commit > 0 => list[s].commit <= upTxn + 1
    BY <1>2, <1>3, <1>4
  <2>2. \A s \in Slots : InRing(s) => list[s].commit > fsync_lsn \/ (s = xact_head /\ FALSE)
    BY <1>2, <1>3, <1>5, <1>1 DEF FsyncBelowUp
  <2>3. Empty => fsync_lsn = 0
    BY <1>1, <1>2 DEF EmptyOpenUnacked, OpenPcs
  <2>4. Empty /\ ~FALSE =>
          \A s \in Slots : s # xact_head => list[s].commit < list[xact_head].commit
    BY <1>3, <1>4, <1>2
  <2>5. \A s \in Slots : ~InRing(s) /\ s # xact_head => Drainable(list[s])
    BY <1>1, <1>3 DEF StaleDrained
  <2>6. fsync_lsn <= upTxn + 1
    BY <1>1, <1>2 DEF FsyncBelowUp
  <2>. QED  BY <1>2, <1>3, <1>6, <2>1, <2>2, <2>3, <2>4, <2>5, <2>6,
               DrainOrder
<1>8. xact_list' = list /\ xact_head' = xact_head
  BY <1>2 DEF MaybeCheckpoint
<1>9. CommitIsLsn'
  <2> SUFFICES ASSUME NEW s \in Slots, list[s].commit > 0
               PROVE  list[s].commit = Lsn(list[s].xid) /\ list[s].commit <= upTxn + 1
    BY <1>2, <1>8 DEF CommitIsLsn
  <2>1. CASE s = xact_head
    BY <1>2, <1>3, <2>1 DEF Lsn
  <2>2. CASE s # xact_head
    BY <1>1, <1>2, <1>3, <2>2 DEF CommitIsLsn
  <2>. QED  BY <2>1, <2>2
<1>10. RowsAccounted'
  BY <1>1, <1>2 DEF RowsAccounted
<1>. QED  BY <1>2, <1>7, <1>8, <1>9, <1>10
          DEF CStep, CheckpointOrder, FsyncBelowUp, CommitIsLsn, RingAfterFsync,
              RingOrdered

(***************************************************************************)
(* The outcomes of one attempt of send_kafka_msg to hand envelope x to     *)
(* librdkafka: failure (the row is lost under --on-error=log, the process *)
(* exits otherwise), back-pressure with x waiting, or x enqueued.  If x's *)
(* row was the only unfinished row not in the queue, and its transaction  *)
(* lies beyond fsync_lsn, every unfinished row stays accounted for.       *)
(***************************************************************************)
LEMMA SendOutcomeRows ==
  ASSUME CInv, NEW x \in Env,
         fsync_lsn < Lsn(x.txn),
         produced' = produced \cup {RowOf(x)},
         \A r \in produced \ (kafka \cup lost) :
            (\E e \in inflight : RowOf(e) = r) \/ RowOf(x) = r,
         UNCHANGED <<fsync_lsn, kafka>>,
         \/ SendFails(x)
         \/ pc' = "send_bp" /\ sendEnv' = x /\ UNCHANGED <<inflight, kafka, lost>>
         \/ Enqueued(x)
  PROVE  RowsAccounted'
<1> SUFFICES ASSUME NEW r \in produced' \ (kafka' \cup lost')
             PROVE  /\ pc' # "exited" =>
                          \/ \E e \in inflight' : RowOf(e) = r
                          \/ pc' = "send_bp" /\ RowOf(sendEnv') = r
                    /\ pc' = "exited" => fsync_lsn' < Lsn(r.txn)
  BY DEF RowsAccounted
<1>1. lost \subseteq lost' /\ kafka' = kafka
  BY DEF SendFails, Enqueued
<1>2. r \in produced \ (kafka \cup lost) \/ r = RowOf(x)
  BY <1>1
<1>3. fsync_lsn' < Lsn(r.txn)
  <2>1. CASE r = RowOf(x)
    BY <2>1 DEF RowOf
  <2>2. CASE r \in produced \ (kafka \cup lost)
    BY <2>2, UnfinishedLate
  <2>. QED  BY <1>2, <2>1, <2>2
<1>4. CASE SendFails(x)
  <2>1. CASE ErrorPolicy = "log"
    <3>1. pc' = "loop" /\ lost' = lost \cup {RowOf(x)} /\ inflight' = inflight
      BY <1>4, <2>1 DEF SendFails, CallbackReturn
    <3>2. r \in produced \ (kafka \cup lost) /\ RowOf(x) # r
      BY <1>1, <1>2, <3>1
    <3>. QED  BY <3>1, <3>2
  <2>2. CASE ErrorPolicy # "log"
    <3>1. pc' = "exited"
      BY <1>4, <2>2 DEF SendFails, CallbackReturn, ExitNicely
    <3>. QED  BY <1>3, <3>1
  <2>. QED  BY <2>1, <2>2
<1>5. CASE pc' = "send_bp" /\ sendEnv' = x /\ UNCHANGED <<inflight, kafka, lost>>
  BY <1>2, <1>5
<1>6. CASE Enqueued(x)
  <2>1. pc' \in {"loop", "send_stale"} /\ inflight' = inflight \cup {x}
    BY <1>6 DEF Enqueued
  <2>. QED  BY <1>2, <2>1
<1>. QED  BY <1>4, <1>5, <1>6

(***************************************************************************)
(* A step of the open transaction's send path leaves the commit positions, *)
(* the buffer and fsync_lsn alone and moves the thread between the main   *)
(* loop, the back-pressure waits and the exit: the order is kept.          *)
(***************************************************************************)
LEMMA SendOrder ==
  ASSUME CInv, pc \in {"loop", "send_bp"}, upIn,
         UNCHANGED <<xact_head, xact_tail, fsync_lsn, upTxn, upIn>>,
         \A s \in Slots : /\ xact_list'[s].commit = xact_list[s].commit
                          /\ xact_list'[s].xid = xact_list[s].xid,
         pc' \in {"loop", "send_bp", "send_stale", "exited"}
  PROVE  CheckpointOrder' /\ fsync_lsn' >= fsync_lsn
<1>1. /\ TypeInv /\ FsyncBelowUp /\ CommitIsLsn /\ RingAfterFsync
      /\ RingOrdered /\ OpenUncommitted /\ EmptyOpenUnacked
  BY CheckpointOrderParts DEF CInv, IInv
<1>2. \A s \in Slots : InRing(s)' = InRing(s) /\ Pos(s)' = Pos(s)
  BY DEF InRing, Pos, Length
<1>3. Empty' = Empty /\ xact_head \in Slots /\ fsync_lsn \in Nat
  BY <1>1 DEF Empty, Length, TypeInv, TypeOK
<1>4. FsyncBelowUp' /\ CommitIsLsn' /\ RingOrdered'
  BY <1>1, <1>2 DEF FsyncBelowUp, CommitIsLsn, RingOrdered
<1>5. RingAfterFsync'
  BY <1>1, <1>2 DEF RingAfterFsync
<1>6. OpenUncommitted' /\ EmptyOpenUnacked'
  BY <1>1, <1>3 DEF OpenUncommitted, EmptyOpenUnacked, OpenPcs
<1>. QED  BY <1>3, <1>4, <1>5, <1>6
          DEF CheckpointOrder, FsyncBelowUp, CommitIsLsn, RingAfterFsync,
              RingOrdered, OpenUncommitted, EmptyOpenUnacked, OpenPcs

LEMMA OnRowEventCO ==
  ASSUME NEW r \in Rels
  PROVE  CInv /\ OnRowEvent(r) => CStep
<1> SUFFICES ASSUME CInv, OnRowEvent(r) PROVE CStep
  OBVIOUS
<1> DEFINE e == [txn |-> upTxn, row |-> upRows + 1, slot |-> xact_head]
<1>1. /\ TypeInv /\ FsyncBelowUp /\ RowsAccounted
  BY CheckpointOrderParts DEF CInv, IInv
<1>2. /\ pc = "loop" /\ upIn /\ upRows < MaxRows
      /\ xact_list' = [xact_list EXCEPT ![xact_head].pending = @ + 1]
      /\ produced' = produced \cup {RowOf(e)}
      /\ UNCHANGED <<xact_head, xact_tail, fsync_lsn, upTxn, upIn>>
      /\ \/ SendFails(e)
         \/ pc' = "send_bp" /\ sendEnv' = e /\ UNCHANGED <<inflight, kafka, lost>>
         \/ Enqueued(e)
  <2>1. /\ pc = "loop" /\ upIn /\ upRows < MaxRows
        /\ xact_list' = [xact_list EXCEPT ![xact_head].pending = @ + 1]
        /\ produced' = produced \cup {RowOf(e)}
        /\ UNCHANGED <<xact_head, xact_tail, fsync_lsn, upTxn, upIn>>
        /\ \/ SendFails(e)
           \/ Produce(e)
    BY DEF OnRowEvent, SendKafkaMsg
  <2>2. Produce(e) => \/ SendFails(e)
                      \/ pc' = "send_bp" /\ sendEnv' = e
                         /\ UNCHANGED <<inflight, kafka, lost>>
                      \/ Enqueued(e)
    BY DEF Produce
  <2>. QED  BY <2>1, <2>2
<1>9. kafka' = kafka
  BY <1>2 DEF SendFails, Enqueued
<1>3. pc' \in {"loop", "send_bp", "send_stale", "exited"}
  BY <1>2 DEF SendFails, Enqueued, CallbackReturn, ExitNicely
<1>4. \A s \in Slots : /\ xact_list'[s].commit = xact_list[s].commit
                       /\ xact_list'[s].xid = xact_list[s].xid
  BY <1>1, <1>2 DEF TypeInv, TypeOK
<1>5. CheckpointOrder' /\ fsync_lsn' >= fsync_lsn
  BY <1>2, <1>3, <1>4, SendOrder
<1>6. e \in Env /\ fsync_lsn < Lsn(e.txn)
  <2>1. upTxn \in Txns /\ upRows + 1 \in 1 .. MaxRows /\ xact_head \in Slots
    BY <1>1, <1>2, BoundsAssumption DEF TypeInv, TypeOK, Txns
  <2>2. fsync_lsn < Lsn(upTxn)
    BY <1>1 DEF TypeInv, TypeOK, FsyncBelowUp, Lsn
  <2>. QED  BY <2>1, <2>2 DEF Env
<1>7. \A x \in produced \ (kafka \cup lost) :
        (\E y \in inflight : RowOf(y) = x) \/ RowOf(e) = x
  BY <1>1, <1>2 DEF RowsAccounted
<1>8. RowsAccounted'
  BY <1>2, <1>6, <1>7, <1>9, SendOutcomeRows
<1>. QED  BY <1>5, <1>8 DEF CStep

LEMMA SendRetryCO == CInv /\ SendRetry => CStep
<1> SUFFICES ASSUME CInv, SendRetry PROVE CStep
  OBVIOUS
<1>1. /\ TypeInv /\ FsyncBelowUp /\ RowsAccounted /\ RetryFresh
  BY CheckpointOrderParts, SlotAccountingParts DEF CInv, IInv
<1>2. /\ pc = "send_bp" /\ upIn
      /\ UNCHANGED <<xact_list, xact_head, xact_tail, fsync_lsn, produced,
                     upTxn, upIn>>
      /\ \/ SendFails(sendEnv)
         \/ Enqueued(sendEnv)
  BY <1>1 DEF SendRetry, ringVars, upVars, RetryFresh
<1>3. pc' \in {"loop", "send_bp", "send_stale", "exited"} /\ kafka' = kafka
  BY <1>2 DEF SendFails, Enqueued, CallbackReturn, ExitNicely
<1>5. CheckpointOrder' /\ fsync_lsn' >= fsync_lsn
  BY <1>2, <1>3, SendOrder
<1>6. sendEnv \in Env /\ fsync_lsn < Lsn(sendEnv.txn)
      /\ produced' = produced \cup {RowOf(sendEnv)}
  BY <1>1, <1>2 DEF TypeInv, TypeOK, RetryFresh, FsyncBelowUp, Lsn
<1>7. \A x \in produced \ (kafka \cup lost) :
        (\E y \in inflight : RowOf(y) = x) \/ RowOf(sendEnv) = x
  BY <1>1, <1>2 DEF RowsAccounted
<1>8. RowsAccounted'
  BY <1>2, <1>3, <1>6, <1>7, SendOutcomeRows
<1>. QED  BY <1>5, <1>8 DEF CStep

(***************************************************************************)
(* on_deliver_msg takes the envelope out of its slot's count and           *)
(* checkpoints, or exits.  The commit positions do not change; on an empty *)
(* buffer the envelope belongs to the open head, so fsync_lsn is still 0.  *)
(* The delivered row is finished, so the rows still unfinished keep their  *)
(* envelopes.                                                               *)
(***************************************************************************)
LEMMA OnDeliverMsgCO ==
  ASSUME NEW e \in inflight, NEW ok \in BOOLEAN
  PROVE  CInv /\ OnDeliverMsg(e, ok) => CStep
<1> SUFFICES ASSUME CInv, OnDeliverMsg(e, ok) PROVE CStep
  OBVIOUS
<1>1. /\ TypeInv /\ StaleDrained /\ HeadDrained /\ HeadOpen
      /\ FsyncBelowUp /\ CommitIsLsn /\ RingAfterFsync /\ RingOrdered
      /\ OpenUncommitted /\ EmptyOpenUnacked /\ RowsAccounted
      /\ IsFiniteSet(inflight) /\ PendingCovers
  BY SlotAccountingParts, CheckpointOrderParts DEF CInv, IInv
<1>2. /\ e \in Env /\ e.slot \in Slots /\ inflight' = inflight \ {e}
      /\ pc \in PollPoints /\ fsync_lsn \in Nat /\ upTxn \in Nat
      /\ xact_head \in Slots /\ xact_tail \in Slots
  BY <1>1 DEF OnDeliverMsg, TypeInv, TypeOK, Env
<1>3. CASE ~(ok \/ ErrorPolicy = "log")
  BY <1>2, <1>3, FrameCO DEF CStep, OnDeliverMsg, ExitNicely, ringVars, upVars
<1>4. CASE ok \/ ErrorPolicy = "log"
  <2> DEFINE m == e.slot
             list == [xact_list EXCEPT ![m].pending = @ - 1]
             open == upIn /\ pc \in OpenPcs
  <2>1. /\ MaybeCheckpoint(list)
        /\ kafka' \cup lost' = kafka \cup lost \cup {RowOf(e)}
        /\ UNCHANGED <<pc, sendEnv, produced, upTxn, upIn>>
    BY <1>4 DEF OnDeliverMsg, upVars
  <2>2. xact_list[m].pending >= 1
    <3>1. e \in Outstanding(m) /\ xact_list \in [Slots -> XactInfo]
      BY <1>1 DEF Outstanding, TypeInv, TypeOK, XactInfo
    <3>. QED  BY <1>1, <1>2, <3>1, PendingOfOutstanding
  <2>3. m = xact_head \/ InRing(m)
    BY <1>1, <1>2, <2>2 DEF StaleDrained, Drainable
  <2>4. /\ list \in [Slots -> XactInfo]
        /\ \A s \in Slots : /\ list[s].xid = xact_list[s].xid
                            /\ list[s].commit = xact_list[s].commit
                            /\ s # m => list[s] = xact_list[s]
    BY <1>1, <1>2 DEF TypeInv, TypeOK, XactInfo
  <2> HIDE DEF list
  <2>5. (pc # "begin_bp" <=> pc \in OpenPcs) /\ open \in BOOLEAN
    BY <1>2 DEF PollPoints, OpenPcs
  <2>6. Empty => open /\ fsync_lsn = 0
    <3> SUFFICES ASSUME Empty PROVE open
      BY <1>1 DEF EmptyOpenUnacked
    <3>1. m = xact_head
      <4>1. Pos(m) \in Slots /\ Length = 0
        BY <1>2, RingBasics DEF Empty
      <4>2. ~InRing(m)
        BY <4>1, LenFacts DEF InRing
      <4>. QED  BY <2>3, <4>2
    <3>2. ~Drainable(xact_list[xact_head])
      BY <2>2, <3>1 DEF Drainable
    <3>. QED  BY <1>1, <2>5, <3>2 DEF HeadDrained
  <2>7. /\ fsync_lsn' \in Nat /\ fsync_lsn' >= fsync_lsn /\ fsync_lsn' <= upTxn
        /\ \A s \in Slots : InRing(s)' =>
              list[s].commit > fsync_lsn' \/ (s = xact_head /\ open)
        /\ \A s, t \in Slots :
              InRing(s)' /\ InRing(t)' /\ Pos(s)' < Pos(t)' /\ list[t].commit > 0 =>
                list[s].commit < list[t].commit
        /\ Empty' /\ open => fsync_lsn' = 0
    <3>1. \A s \in Slots : list[s].commit > 0 => list[s].commit <= upTxn
      BY <1>1, <2>4 DEF CommitIsLsn
    <3>2. \A s \in Slots : InRing(s) =>
            list[s].commit > fsync_lsn \/ (s = xact_head /\ open)
      BY <1>1, <2>4, <2>5 DEF RingAfterFsync
    <3>3. \A s, t \in Slots :
            InRing(s) /\ InRing(t) /\ Pos(s) < Pos(t) /\ list[t].commit > 0 =>
              list[s].commit < list[t].commit
      BY <1>1, <2>4 DEF RingOrdered
    <3>4. open => list[xact_head].commit = 0 /\ list[xact_head].xid = upTxn
      BY <1>1, <1>2, <2>4 DEF OpenUncommitted, HeadOpen, XidOf, OpenPcs
    <3>5. \A s \in Slots : ~InRing(s) /\ s # xact_head => Drainable(list[s])
      BY <1>1, <2>3, <2>4 DEF StaleDrained
    <3>6. fsync_lsn <= upTxn
      BY <1>1 DEF FsyncBelowUp
    <3>. QED  BY <1>2, <2>1, <2>4, <2>5, <2>6, <3>1, <3>2, <3>3, <3>4, <3>5,
                 <3>6, DrainOrder
  <2>8. xact_list' = list /\ xact_head' = xact_head
    BY <2>1 DEF MaybeCheckpoint
  <2>9. CheckpointOrder'
    <3>1. FsyncBelowUp' /\ CommitIsLsn'
      BY <1>1, <2>1, <2>4, <2>7, <2>8 DEF FsyncBelowUp, CommitIsLsn
    <3>2. RingAfterFsync' /\ RingOrdered'
      BY <2>1, <2>7, <2>8 DEF RingAfterFsync, RingOrdered, OpenPcs
    <3>3. OpenUncommitted' /\ EmptyOpenUnacked'
      BY <1>1, <1>2, <2>1, <2>4, <2>7, <2>8 DEF OpenUncommitted, EmptyOpenUnacked
    <3>. QED  BY <3>1, <3>2, <3>3
              DEF CheckpointOrder, FsyncBelowUp, CommitIsLsn, RingAfterFsync,
                  RingOrdered, OpenUncommitted, EmptyOpenUnacked, OpenPcs
  <2>10. RowsAccounted'
    <3> SUFFICES ASSUME NEW r \in produced' \ (kafka' \cup lost')
                 PROVE  \/ \E y \in inflight' : RowOf(y) = r
                        \/ pc' = "send_bp" /\ RowOf(sendEnv') = r
      BY <1>2, <2>1 DEF RowsAccounted, PollPoints
    <3>1. r \in produced \ (kafka \cup lost) /\ r # RowOf(e)
      BY <2>1
    <3>. QED  BY <1>1, <1>2, <2>1, <3>1 DEF RowsAccounted, PollPoints
  <2>. QED  BY <2>7, <2>9, <2>10 DEF CStep
<1>. QED  BY <1>3, <1>4

LEMMA InitCInv == Init => CInv
<1> SUFFICES ASSUME Init PROVE CInv
  OBVIOUS
<1>1. IInv
  BY InitIInv
<1>2. Empty /\ xact_head \in Slots /\ xact_tail \in Slots
  BY LenFacts DEF Init, Empty, Length, L
<1>3. \A s \in Slots : ~InRing(s)
  BY <1>2, LenFacts, RingBasics DEF InRing, Empty
<1>4. CheckpointOrder
  BY <1>3 DEF Init, CheckpointOrder
<1>5. RowsAccounted
  BY DEF Init, RowsAccounted
<1>. QED  BY <1>1, <1>4, <1>5 DEF CInv

LEMMA NextCInv == CInv /\ [Next]_vars => CInv' /\ fsync_lsn' >= fsync_lsn
<1> SUFFICES ASSUME CInv, [Next]_vars PROVE CStep
  BY NextIInv DEF CInv, CStep
<1>1. CASE OnBeginTxn
  BY <1>1, OnBeginTxnCO
<1>2. CASE BeginResume
  BY <1>2, BeginResumeCO
<1>3. CASE OnCommitTxn
  BY <1>3, OnCommitTxnCO
<1>4. CASE \E r \in Rels : OnRowEvent(r)
  BY <1>4, OnRowEventCO
<1>5. CASE SendRetry
  BY <1>5, SendRetryCO
<1>6. CASE \E e \in inflight, ok \in BOOLEAN : OnDeliverMsg(e, ok)
  BY <1>6, OnDeliverMsgCO
<1>7. CASE \/ \E r \in Rels : OnTableSchema(r) \/ OnDeleteUnkeyed(r)
           \/ StaleBackpressureDone \/ OnClientError
           \/ ShutdownSignal \/ ShutdownExit
           \/ Terminated \/ UNCHANGED vars
  BY <1>7, FrameActionsCO
<1>. QED  BY <1>1, <1>2, <1>3, <1>4, <1>5, <1>6, <1>7 DEF Next

-----------------------------------------------------------------------------
(***************************************************************************)
(* The commit positions in the transaction buffer stay ordered, for every  *)
(* buffer length, queue capacity and error policy: each committed slot     *)
(* holds the position of its own transaction, no later than the upstream   *)
(* one; every slot still in the buffer is committed beyond fsync_lsn or is *)
(* the open head (on_commit_txn, maybe_checkpoint); and the buffer is      *)
(* ordered by commit position.                                             *)
(***************************************************************************)
THEOREM CheckpointOrderHolds == Spec => []CheckpointOrder
<1>1. CInv => CheckpointOrder
  BY DEF CInv
<1>. QED
  BY <1>1, InitCInv, NextCInv, PTL DEF Spec

(***************************************************************************)
(* The position maybe_checkpoint reports to Postgres is durable: every row *)
(* of a transaction at or below fsync_lsn was acknowledged by the broker   *)
(* (on_deliver_msg) or given up under --on-error=log, whatever the buffer  *)
(* length, queue capacity and order of delivery reports.                   *)
(***************************************************************************)
THEOREM DurableCheckpointHolds == Spec => []DurableCheckpoint
<1>1. CInv => DurableCheckpoint
  BY DurableFromAccounting
<1>. QED
  BY <1>1, InitCInv, NextCInv, PTL DEF Spec

(***************************************************************************)
(* maybe_checkpoint never moves fsync_lsn back: no step of any callback    *)
(* lowers the position reported to Postgres.                               *)
(***************************************************************************)
THEOREM FsyncMonotoneHolds == Spec => FsyncMonotone
<1>1. CInv /\ [Next]_vars => [fsync_lsn' >= fsync_lsn]_fsync_lsn
  BY NextCInv
<1>. QED
  BY <1>1, InitCInv, NextCInv, PTL DEF Spec, FsyncMonotone
=============================================================================
