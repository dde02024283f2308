--------------------- MODULE BottledWaterSnapshotProofs ---------------------
(***************************************************************************)
(* Proof that taking_snapshot, the flag exit_nicely reads to decide        *)
(* whether to drop the replication slot, is cleared only after the         *)
(* snapshot transaction has committed and every one of its rows is         *)
(* finished (SnapshotFlagSound), for every size of the buffer and of the   *)
(* queue.  maybe_checkpoint clears the flag in the same walk in which it   *)
(* moves fsync_lsn over the snapshot's commit, so the durability of the    *)
(* checkpoint (DurableCheckpoint) covers the snapshot's rows.              *)
(***************************************************************************)
EXTENDS BottledWaterCheckpointProofs

(***************************************************************************)
(* The strengthening.  Once the flag is clear, the upstream is past the    *)
(* snapshot and either fsync_lsn has reached the snapshot's commit         *)
(* position or no snapshot row was ever produced (the process started      *)
(* without a snapshot).  While the flag is set, a committed slot of xid 0  *)
(* is still in the buffer: its drain, which clears the flag, is to come.   *)
(***************************************************************************)
SnapAcked ==
  ~taking_snapshot =>
     /\ upTxn > 0
     /\ fsync_lsn >= Lsn(0) \/ \A r \in produced : r.txn # 0

SnapInRing ==
  taking_snapshot =>
     \A s \in Slots : xact_list[s].xid = 0 /\ xact_list[s].commit > 0 => InRing(s)

SInv == CInv /\ SnapAcked /\ SnapInRing

-----------------------------------------------------------------------------
(***************************************************************************)
(* The walk of maybe_checkpoint over the list the caller stored.  If every *)
(* slot of the buffer but the head is committed, a drainable uncommitted   *)
(* head is not the successor of a committed snapshot, and a committed xid  *)
(* 0 slot is in the buffer or is the head (with the tail drainable), then  *)
(* a walk that clears taking_snapshot ends on a committed slot, so moves   *)
(* fsync_lsn to a positive position, and a walk that keeps the flag keeps  *)
(* every committed xid 0 slot in the buffer.                               *)
(***************************************************************************)
LEMMA DrainSnapshot ==
  ASSUME xact_head \in Slots, xact_tail \in Slots, taking_snapshot \in BOOLEAN,
         NEW list \in [Slots -> XactInfo],
         \A s \in Slots : InRing(s) /\ s # xact_head => list[s].commit > 0,
         ~Empty /\ list[xact_head].commit = 0 /\
            (\E s \in Slots : list[s].xid = 0 /\ list[s].commit > 0) =>
               list[xact_head].xid # 0,
         taking_snapshot =>
            \A s \in Slots : list[s].xid = 0 /\ list[s].commit > 0 =>
               InRing(s) \/ s = xact_head,
         \A s \in Slots : ~InRing(s) /\ s # xact_head => Drainable(list[s]),
         MaybeCheckpoint(list)
  PROVE  /\ taking_snapshot /\ ~taking_snapshot' => fsync_lsn' > 0
         /\ taking_snapshot' =>
               \A s \in Slots : list[s].xid = 0 /\ list[s].commit > 0 => InRing(s)'
<1>1. L \in Nat /\ L >= 2 /\ Slots = 0 .. L - 1
  BY LenFacts
<1>2. PICK k \in 0 .. DrainBound :
        /\ DrainsTo(list, k)
        /\ xact_tail' = (xact_tail + k) % L
        /\ xact_head' = xact_head
        /\ fsync_lsn' = IF k = 0 THEN fsync_lsn ELSE SlotAt(list, k - 1).commit
        /\ taking_snapshot' =
             (taking_snapshot /\ ~\E i \in 0 .. k - 1 :
                                     SlotAt(list, i).xid = 0 /\ SlotAt(list, i).commit > 0)
  BY DEF MaybeCheckpoint, L
<1>3. /\ ~Empty => Length' = Length - k
      /\ \A s \in Slots : ~Empty /\ Pos(s) >= k => Pos(s)' = Pos(s) - k
      /\ Empty /\ k = L - 1 =>
            /\ Length' = 1
            /\ \A s \in Slots : Pos(s)' = 0 <=> s = xact_head
  BY <1>2, DrainArith, DrainArithMore
<1>4. /\ Length \in 0 .. L - 1
      /\ \A s \in Slots : Pos(s) \in Slots
      /\ \A s \in Slots : (xact_tail + Pos(s)) % L = s
      /\ Pos(xact_head) = IF Empty THEN L - 1 ELSE Length - 1
  BY RingBasics
<1>5. k \in 0 .. L /\ (~Empty => k <= Length)
  <2>1. k \in 0 .. L
    BY <1>1, <1>4 DEF DrainBound, L
  <2>2. ASSUME ~Empty PROVE k <= Length
    <3>1. DrainBound = Length
      BY <2>2 DEF DrainBound
    <3>. QED  BY <3>1, <1>4, <1>1
  <2>. QED  BY <2>1, <2>2
<1>6. \A i \in 0 .. L - 1 : /\ (xact_tail + i) % L \in Slots
                            /\ Pos((xact_tail + i) % L) = i
                            /\ SlotAt(list, i) = list[(xact_tail + i) % L]
  BY <1>1 DEF Pos, SlotAt, L
<1>7. \A s \in Slots : Pos(s) < k => Drainable(list[s])
  <2> SUFFICES ASSUME NEW s \in Slots, Pos(s) < k PROVE Drainable(list[s])
    OBVIOUS
  <2>1. Pos(s) \in 0 .. k - 1
    BY <1>4, <1>1
  <2>2. SlotAt(list, Pos(s)) = list[s]
    BY <1>4 DEF SlotAt, L
  <2>. QED  BY <1>2, <2>1, <2>2 DEF DrainsTo
(* On an empty buffer the walk passes every stale slot. *)
<1>8. Empty => k >= L - 1
  <2> SUFFICES ASSUME Empty, k < L - 1 PROVE FALSE
    BY <1>1, <1>5
  <2> DEFINE q == (xact_tail + k) % L
  <2>1. q \in Slots /\ Pos(q) = k /\ SlotAt(list, k) = list[q]
    BY <1>1, <1>5, <1>6
  <2>2. q # xact_head /\ ~InRing(q)
    <3>1. Pos(xact_head) = L - 1 /\ Length = 0
      BY <1>4 DEF Empty
    <3>. QED  BY <1>1, <2>1, <3>1 DEF InRing
  <2>3. k # DrainBound
    BY <1>1 DEF DrainBound, L
  <2>. QED  BY <1>2, <2>1, <2>2, <2>3 DEF DrainsTo
<1>9. ASSUME taking_snapshot, ~taking_snapshot'
      PROVE  fsync_lsn' > 0
  <2>1. PICK i \in 0 .. k - 1 : SlotAt(list, i).xid = 0 /\ SlotAt(list, i).commit > 0
    BY <1>2, <1>9
  <2> DEFINE si == (xact_tail + i) % L
             p == (xact_tail + (k - 1)) % L
  <2>2. k > 0 /\ i \in 0 .. L - 1 /\ k - 1 \in 0 .. L - 1
    BY <1>1, <1>5, <2>1
  <2>3. si \in Slots /\ Pos(si) = i /\ list[si].xid = 0 /\ list[si].commit > 0
    BY <1>6, <2>1, <2>2
  <2>4. p \in Slots /\ Pos(p) = k - 1 /\ fsync_lsn' = list[p].commit
    BY <1>2, <1>6, <2>2
  <2>5. Drainable(list[p])
    BY <1>1, <1>7, <2>4
  <2>6. CASE ~Empty
    <3>1. InRing(p)
      <4>1. k <= Length
        BY <1>5, <2>6
      <4>2. Pos(p) = k - 1
        BY <2>4
      <4>3. Pos(p) < Length
        BY <1>4, <2>2, <4>1, <4>2
      <4>. QED  BY <4>3 DEF InRing
    <3>2. CASE p # xact_head
      BY <2>4, <3>1, <3>2
    <3>3. CASE p = xact_head
      <4> SUFFICES ASSUME list[p].commit = 0 PROVE FALSE
        BY <2>4 DEF XactInfo
      <4>1. list[xact_head].xid # 0
        BY <2>3, <2>6, <3>3
      <4>. QED  BY <2>5, <3>3, <4>1 DEF Drainable
    <3>. QED  BY <3>2, <3>3
  <2>7. CASE Empty
    <3>0. Pos(xact_head) = L - 1 /\ Length = 0
      BY <1>4, <2>7 DEF Empty
    <3>1. si = xact_head
      <4>1. ~InRing(si)
        BY <1>1, <2>2, <2>3, <3>0 DEF InRing
      <4>2. InRing(si) \/ si = xact_head
        BY <1>9, <2>3
      <4>. QED  BY <4>1, <4>2
    <3>2. i = L - 1 /\ k = L
      BY <1>1, <1>5, <2>2, <2>3, <3>0, <3>1
    <3>. QED  BY <2>3, <2>4, <3>2
  <2>. QED  BY <2>6, <2>7
<1>10. ASSUME taking_snapshot', NEW s \in Slots, list[s].xid = 0, list[s].commit > 0
       PROVE  InRing(s)'
  <2>1. taking_snapshot
    BY <1>2, <1>10
  <2>2. Pos(s) >= k
    <3> SUFFICES ASSUME Pos(s) < k PROVE FALSE
      BY <1>1, <1>4
    <3>1. Pos(s) \in 0 .. k - 1
      BY <1>1, <1>4, <1>5
    <3>2. SlotAt(list, Pos(s)) = list[s]
      BY <1>4 DEF SlotAt, L
    <3>. QED  BY <1>2, <1>10, <3>1, <3>2
  <2>3. InRing(s) \/ s = xact_head
    BY <1>10, <2>1
  <2>4. CASE ~Empty
    <3>1. Pos(s) < Length
      BY <1>4, <2>3, <2>4, <1>1 DEF InRing
    <3>. QED  BY <1>1, <1>3, <1>4, <2>2, <2>4, <3>1 DEF InRing
  <2>5. CASE Empty
    <3>1. s = xact_head /\ k = L - 1
      BY <1>1, <1>4, <1>5, <1>8, <2>2, <2>3, <2>5 DEF InRing
    <3>2. Pos(s)' = 0 /\ Length' = 1
      BY <1>3, <2>5, <3>1
    <3>. QED  BY <3>2 DEF InRing
  <2>. QED  BY <2>4, <2>5
<1>. QED  BY <1>9, <1>10


-----------------------------------------------------------------------------
(* The step lemmas: each action keeps SnapInRing, and one that clears the  *)
(* flag moves fsync_lsn to a positive position.                            *)

SnapStep ==
  /\ SnapInRing'
  /\ taking_snapshot /\ ~taking_snapshot' => fsync_lsn' > 0

(* A step that changes no xid, commit, head, tail or flag. *)
LEMMA SnapFrame ==
  ASSUME SnapInRing,
         \A s \in Slots : /\ xact_list'[s].xid = xact_list[s].xid
                          /\ xact_list'[s].commit = xact_list[s].commit,
         UNCHANGED <<xact_head, xact_tail, taking_snapshot>>
  PROVE  SnapStep
<1>1. \A s \in Slots : InRing(s)' = InRing(s)
  BY DEF InRing, Pos, Length
<1>. QED  BY <1>1 DEF SnapStep, SnapInRing

(***************************************************************************)
(* Claiming the slot after the head (on_begin_txn) leaves every slot of    *)
(* the buffer in it and gives the claimed slot no commit.                  *)
(***************************************************************************)
LEMMA ClaimSnap ==
  ASSUME TypeInv, SnapInRing, ~Full, BeginSlot
  PROVE  SnapStep
<1>1. /\ xact_head' = (xact_head + 1) % L
      /\ xact_list' = [xact_list EXCEPT ![xact_head'] =
                         [xid |-> XidOf(upTxn), pending |-> 0, commit |-> 0]]
      /\ UNCHANGED <<xact_tail, taking_snapshot>>
  BY DEF BeginSlot, L
<1>2. /\ xact_head' \in Slots
      /\ Length \in 0 .. L - 1
      /\ \A s \in Slots : Pos(s) \in Slots
      /\ \A s \in Slots : InRing(s)' <=> Pos(s) <= Length
  BY <1>1, ClaimArith, RingBasics DEF TypeInv, TypeOK
<1>3. \A s \in Slots : s # xact_head' => xact_list'[s] = xact_list[s]
  BY <1>1, <1>2 DEF TypeInv, TypeOK
<1>4. xact_list'[xact_head'].commit = 0
  BY <1>1, <1>2 DEF TypeInv, TypeOK
<1>5. \A s \in Slots : InRing(s) => InRing(s)'
  BY <1>2, LenFacts DEF InRing
<1>. QED  BY <1>1, <1>3, <1>4, <1>5 DEF SnapStep, SnapInRing

LEMMA OnBeginTxnSnap == SInv /\ OnBeginTxn => SnapStep
<1> SUFFICES ASSUME SInv, OnBeginTxn PROVE SnapStep
  OBVIOUS
<1>1. TypeInv /\ SnapInRing
  BY DEF SInv, CInv, IInv
<1>2. CASE Full
  BY <1>1, <1>2, SnapFrame DEF OnBeginTxn, ringVars
<1>3. CASE ~Full
  BY <1>1, <1>3, ClaimSnap DEF OnBeginTxn
<1>. QED  BY <1>2, <1>3

LEMMA BeginResumeSnap == SInv /\ BeginResume => SnapStep
<1> SUFFICES ASSUME SInv, BeginResume PROVE SnapStep
  OBVIOUS
<1>1. TypeInv /\ SnapInRing /\ ~Full /\ BeginSlot
  BY DEF SInv, CInv, IInv, BeginResume
<1>. QED  BY <1>1, ClaimSnap

(***************************************************************************)
(* on_commit_txn stores a positive commit position in the head slot and    *)
(* checkpoints.  Every other slot of the buffer is committed beyond        *)
(* fsync_lsn, and the head is now committed too, so DrainSnapshot applies; *)
(* on an empty buffer the tail is a stale slot and passes the test.        *)
(***************************************************************************)
LEMMA OnCommitTxnSnap == SInv /\ OnCommitTxn => SnapStep
<1> SUFFICES ASSUME SInv, OnCommitTxn PROVE SnapStep
  OBVIOUS
<1> DEFINE list == [xact_list EXCEPT ![xact_head].commit = Lsn(upTxn)]
<1>1. /\ TypeInv /\ StaleDrained /\ RingAfterFsync /\ SnapInRing
  BY SlotAccountingParts, CheckpointOrderParts DEF SInv, CInv, IInv
<1>2. /\ upTxn \in Nat /\ fsync_lsn \in Nat
      /\ xact_head \in Slots /\ xact_tail \in Slots /\ taking_snapshot \in BOOLEAN
      /\ MaybeCheckpoint(list)
  BY <1>1 DEF OnCommitTxn, TypeInv, TypeOK
<1>3. /\ list \in [Slots -> XactInfo]
      /\ list[xact_head].commit > 0
      /\ \A s \in Slots : s # xact_head => list[s] = xact_list[s]
  BY <1>1, <1>2 DEF TypeInv, TypeOK, XactInfo, Lsn, Txns
<1> HIDE DEF list
<1>4. \A s \in Slots : InRing(s) /\ s # xact_head => list[s].commit > 0
  <2> SUFFICES ASSUME NEW s \in Slots, InRing(s), s # xact_head
               PROVE  list[s].commit > 0
    OBVIOUS
  <2>1. xact_list[s].commit > fsync_lsn
    BY <1>1 DEF RingAfterFsync
  <2>2. list[s] = xact_list[s]
    BY <1>3
  <2>3. xact_list[s].commit \in Nat
    BY <1>1 DEF TypeInv, TypeOK
  <2>. QED  BY <1>2, <2>1, <2>2, <2>3
<1>5. taking_snapshot =>
        \A s \in Slots : list[s].xid = 0 /\ list[s].commit > 0 =>
           InRing(s) \/ s = xact_head
  BY <1>1, <1>3 DEF SnapInRing
<1>6. \A s \in Slots : ~InRing(s) /\ s # xact_head => Drainable(list[s])
  BY <1>1, <1>3 DEF StaleDrained
<1>8. /\ taking_snapshot /\ ~taking_snapshot' => fsync_lsn' > 0
      /\ taking_snapshot' =>
            \A s \in Slots : list[s].xid = 0 /\ list[s].commit > 0 => InRing(s)'
  BY <1>2, <1>3, <1>4, <1>5, <1>6, DrainSnapshot
<1>9. xact_list' = list
  BY <1>2 DEF MaybeCheckpoint
<1>. QED  BY <1>8, <1>9 DEF SnapStep, SnapInRing


(***************************************************************************)
(* on_deliver_msg decrements pending_events and checkpoints.  Every slot   *)
(* of the buffer but the head is committed beyond fsync_lsn; an            *)
(* uncommitted head in a nonempty buffer is the open transaction, which    *)
(* comes after any committed snapshot and so is not xid 0; the slot of the *)
(* envelope is in the buffer or is the head, so every stale slot is still  *)
(* drainable.                                                              *)
(***************************************************************************)
LEMMA OnDeliverMsgSnap ==
  ASSUME NEW e \in inflight, NEW ok \in BOOLEAN
  PROVE  SInv /\ OnDeliverMsg(e, ok) => SnapStep
<1> SUFFICES ASSUME SInv, OnDeliverMsg(e, ok) PROVE SnapStep
  OBVIOUS
<1>1. /\ TypeInv /\ StaleDrained /\ HeadOpen /\ PendingCovers
      /\ IsFiniteSet(inflight) /\ CommitIsLsn /\ RingAfterFsync /\ SnapInRing
  BY SlotAccountingParts, CheckpointOrderParts DEF SInv, CInv, IInv
<1>2. /\ e \in Env /\ e.slot \in Slots /\ pc \in PollPoints
      /\ fsync_lsn \in Nat /\ upTxn \in Nat /\ taking_snapshot \in BOOLEAN
      /\ xact_head \in Slots /\ xact_tail \in Slots
  BY <1>1 DEF OnDeliverMsg, TypeInv, TypeOK, Env
<1>3. CASE ~(ok \/ ErrorPolicy = "log")
  BY <1>1, <1>3, SnapFrame DEF OnDeliverMsg, ringVars
<1>4. CASE ok \/ ErrorPolicy = "log"
  <2> DEFINE m == e.slot
             list == [xact_list EXCEPT ![m].pending = @ - 1]
  <2>1. MaybeCheckpoint(list)
    BY <1>4 DEF OnDeliverMsg
  <2>2. m = xact_head \/ InRing(m)
    <3>1. e \in Outstanding(m) /\ xact_list \in [Slots -> XactInfo]
      BY <1>1 DEF Outstanding, TypeInv, TypeOK, XactInfo
    <3>2. xact_list[m].pending >= 1
      BY <1>1, <1>2, <3>1, PendingOfOutstanding
    <3>. QED  BY <1>1, <1>2, <3>2 DEF StaleDrained, Drainable
  <2>3. /\ list \in [Slots -> XactInfo]
        /\ \A s \in Slots : /\ list[s].xid = xact_list[s].xid
                            /\ list[s].commit = xact_list[s].commit
                            /\ list[s].commit \in Nat
                            /\ s # m => list[s] = xact_list[s]
    BY <1>1, <1>2 DEF TypeInv, TypeOK, XactInfo
  <2> HIDE DEF list
  <2>4. \A s \in Slots : InRing(s) /\ s # xact_head => list[s].commit > 0
    BY <1>1, <1>2, <2>3 DEF RingAfterFsync
  <2>5. ~Empty /\ list[xact_head].commit = 0 /\
           (\E s \in Slots : list[s].xid = 0 /\ list[s].commit > 0) =>
              list[xact_head].xid # 0
    <3> SUFFICES ASSUME ~Empty, list[xact_head].commit = 0,
                        NEW s \in Slots, list[s].xid = 0, list[s].commit > 0
                 PROVE  list[xact_head].xid # 0
      OBVIOUS
    <3>1. InRing(xact_head)
      BY <1>2, RingBasics, LenFacts DEF InRing
    <3>2. upIn /\ pc \in OpenPcs
      BY <1>1, <1>2, <2>3, <3>1 DEF RingAfterFsync, PollPoints, OpenPcs
    <3>3. list[xact_head].xid = upTxn
      BY <1>1, <1>2, <2>3, <3>2 DEF HeadOpen, OpenPcs, XidOf
    <3>4. 1 <= upTxn
      BY <1>1, <2>3 DEF CommitIsLsn, Lsn
    <3>. QED  BY <3>3, <3>4
  <2>6. taking_snapshot =>
          \A s \in Slots : list[s].xid = 0 /\ list[s].commit > 0 =>
             InRing(s) \/ s = xact_head
    BY <1>1, <2>3 DEF SnapInRing
  <2>7. \A s \in Slots : ~InRing(s) /\ s # xact_head => Drainable(list[s])
    BY <1>1, <2>2, <2>3 DEF StaleDrained
  <2>8. /\ taking_snapshot /\ ~taking_snapshot' => fsync_lsn' > 0
        /\ taking_snapshot' =>
              \A s \in Slots : list[s].xid = 0 /\ list[s].commit > 0 => InRing(s)'
    BY <1>2, <2>1, <2>3, <2>4, <2>5, <2>6, <2>7, DrainSnapshot
  <2>9. xact_list' = list
    BY <2>1 DEF MaybeCheckpoint
  <2>. QED  BY <2>8, <2>9 DEF SnapStep, SnapInRing
<1>. QED  BY <1>3, <1>4

LEMMA OnRowEventSnap ==
  ASSUME NEW r \in Rels
  PROVE  SInv /\ OnRowEvent(r) => SnapStep
<1> SUFFICES ASSUME SInv, OnRowEvent(r) PROVE SnapStep
  OBVIOUS
<1>1. TypeInv /\ SnapInRing
  BY DEF SInv, CInv, IInv
<1>2. /\ xact_list' = [xact_list EXCEPT ![xact_head].pending = @ + 1]
      /\ UNCHANGED <<xact_head, xact_tail, taking_snapshot>>
  BY DEF OnRowEvent, SendKafkaMsg
<1>3. \A s \in Slots : /\ xact_list'[s].xid = xact_list[s].xid
                       /\ xact_list'[s].commit = xact_list[s].commit
  BY <1>1, <1>2 DEF TypeInv, TypeOK
<1>. QED  BY <1>1, <1>2, <1>3, SnapFrame

(* The steps that leave the buffer and the flag alone. *)
LEMMA FrameActionsSnap ==
  ASSUME SInv,
         \/ \E r \in Rels : OnTableSchema(r) \/ OnDeleteUnkeyed(r)
         \/ SendRetry \/ StaleBackpressureDone \/ OnClientError
         \/ ShutdownSignal \/ ShutdownExit
         \/ Terminated \/ UNCHANGED vars
  PROVE  SnapStep
<1>1. SnapInRing
  BY DEF SInv
<1>2. UNCHANGED ringVars
  BY DEF OnTableSchema, OnDeleteUnkeyed, SendRetry, StaleBackpressureDone,
         OnClientError, ShutdownSignal, ShutdownExit, Terminated, vars
<1>. QED  BY <1>1, <1>2, SnapFrame DEF ringVars

LEMMA NextSnap == SInv /\ [Next]_vars => SnapStep
<1> SUFFICES ASSUME SInv, [Next]_vars PROVE SnapStep
  OBVIOUS
<1>1. CASE OnBeginTxn
  BY <1>1, OnBeginTxnSnap
<1>2. CASE BeginResume
  BY <1>2, BeginResumeSnap
<1>3. CASE OnCommitTxn
  BY <1>3, OnCommitTxnSnap
<1>4. CASE \E r \in Rels : OnRowEvent(r)
  BY <1>4, OnRowEventSnap
<1>5. CASE \E e \in inflight, ok \in BOOLEAN : OnDeliverMsg(e, ok)
  BY <1>5, OnDeliverMsgSnap
<1>6. CASE \/ \E r \in Rels : OnTableSchema(r) \/ OnDeleteUnkeyed(r)
           \/ SendRetry \/ StaleBackpressureDone \/ OnClientError
           \/ ShutdownSignal \/ ShutdownExit
           \/ Terminated \/ UNCHANGED vars
  BY <1>6, FrameActionsSnap
<1>. QED  BY <1>1, <1>2, <1>3, <1>4, <1>5, <1>6 DEF Next


-----------------------------------------------------------------------------
(***************************************************************************)
(* No step sets taking_snapshot, moves the upstream back, or produces a    *)
(* row of any transaction but the current upstream one.                    *)
(***************************************************************************)
HistoryStep ==
  /\ taking_snapshot' => taking_snapshot
  /\ upTxn' >= upTxn
  /\ \A r \in produced' \ produced : r.txn = upTxn

(* maybe_checkpoint only ever clears the flag. *)
LEMMA CheckpointKeepsFlag ==
  ASSUME NEW list, MaybeCheckpoint(list)
  PROVE  taking_snapshot' => taking_snapshot
BY DEF MaybeCheckpoint

LEMMA NextHistory == TypeInv /\ [Next]_vars => HistoryStep
<1> SUFFICES ASSUME TypeInv, [Next]_vars PROVE HistoryStep
  OBVIOUS
<1>1. upTxn \in Nat
  BY DEF TypeInv, TypeOK
<1>2. CASE OnCommitTxn
  <2>1. MaybeCheckpoint([xact_list EXCEPT ![xact_head].commit = Lsn(upTxn)])
    BY <1>2 DEF OnCommitTxn
  <2>2. upTxn' = upTxn + 1 /\ produced' = produced
    BY <1>2 DEF OnCommitTxn, histVars
  <2>. QED  BY <1>1, <2>1, <2>2, CheckpointKeepsFlag DEF HistoryStep
<1>3. CASE \E e \in inflight, ok \in BOOLEAN : OnDeliverMsg(e, ok)
  <2>1. PICK e \in inflight, ok \in BOOLEAN : OnDeliverMsg(e, ok)
    BY <1>3
  <2>2. upTxn' = upTxn /\ produced' = produced
    BY <2>1 DEF OnDeliverMsg, upVars
  <2>3. CASE ok \/ ErrorPolicy = "log"
    <3>1. MaybeCheckpoint([xact_list EXCEPT ![e.slot].pending = @ - 1])
      BY <2>1, <2>3 DEF OnDeliverMsg
    <3>. QED  BY <1>1, <2>2, <3>1, CheckpointKeepsFlag DEF HistoryStep
  <2>4. CASE ~(ok \/ ErrorPolicy = "log")
    BY <1>1, <2>1, <2>2, <2>4 DEF OnDeliverMsg, HistoryStep, ringVars
  <2>. QED  BY <2>3, <2>4
<1>4. CASE \E r \in Rels : OnRowEvent(r)
  BY <1>1, <1>4 DEF OnRowEvent, RowOf, HistoryStep
<1>5. CASE OnBeginTxn \/ BeginResume
  BY <1>1, <1>5 DEF OnBeginTxn, BeginResume, BeginSlot, HistoryStep, ringVars,
                    upVars, histVars
<1>6. CASE \/ \E r \in Rels : OnTableSchema(r) \/ OnDeleteUnkeyed(r)
           \/ SendRetry \/ StaleBackpressureDone \/ OnClientError
           \/ ShutdownSignal \/ ShutdownExit
           \/ Terminated \/ UNCHANGED vars
  BY <1>1, <1>6 DEF OnTableSchema, OnDeleteUnkeyed, SendRetry,
                    StaleBackpressureDone, OnClientError, ShutdownSignal,
                    ShutdownExit, Terminated, vars, HistoryStep, ringVars,
                    upVars, histVars
<1>. QED  BY <1>2, <1>3, <1>4, <1>5, <1>6 DEF Next

(***************************************************************************)
(* SnapAcked is kept: a step that clears the flag moves fsync_lsn to a     *)
(* positive position, which is at most the upstream one; once the flag is  *)
(* clear, fsync_lsn and the upstream only grow, and every new row belongs  *)
(* to the upstream transaction, which is past the snapshot.                *)
(***************************************************************************)
LEMMA SnapAckedStep == SInv /\ [Next]_vars => SnapAcked'
<1> SUFFICES ASSUME SInv, [Next]_vars, ~taking_snapshot'
             PROVE  upTxn' > 0 /\ (fsync_lsn' >= 1 \/ \A r \in produced' : r.txn # 0)
  BY DEF SnapAcked, Lsn
<1>1. CInv' /\ fsync_lsn' >= fsync_lsn
  BY NextCInv DEF SInv
<1>2. SnapStep /\ HistoryStep
  BY NextSnap, NextHistory DEF SInv, CInv, IInv
<1>3. /\ fsync_lsn \in Nat /\ upTxn \in Nat
      /\ fsync_lsn' \in Nat /\ upTxn' \in Nat /\ fsync_lsn' <= upTxn'
  BY <1>1 DEF SInv, CInv, IInv, TypeInv, TypeOK, CheckpointOrder
<1>4. CASE taking_snapshot
  <2>1. fsync_lsn' > 0
    BY <1>2, <1>4 DEF SnapStep
  <2>. QED  BY <1>3, <2>1
<1>5. CASE ~taking_snapshot
  <2>1. upTxn > 0 /\ (fsync_lsn >= 1 \/ \A r \in produced : r.txn # 0)
    BY <1>5 DEF SInv, SnapAcked, Lsn
  <2>2. upTxn' > 0
    BY <1>2, <1>3, <2>1 DEF HistoryStep
  <2>3. CASE fsync_lsn >= 1
    BY <1>1, <1>3, <2>2, <2>3
  <2>4. CASE \A r \in produced : r.txn # 0
    <3>1. \A r \in produced' : r.txn # 0
      BY <1>2, <1>3, <2>1, <2>4 DEF HistoryStep
    <3>. QED  BY <2>2, <3>1
  <2>. QED  BY <2>1, <2>3, <2>4
<1>. QED  BY <1>4, <1>5

LEMMA InitSInv == Init => SInv
<1> SUFFICES ASSUME Init PROVE SInv
  OBVIOUS
<1>1. CInv
  BY InitCInv
<1>2. SnapAcked
  BY DEF Init, SnapAcked
<1>3. SnapInRing
  BY DEF Init, SnapInRing
<1>. QED  BY <1>1, <1>2, <1>3 DEF SInv

LEMMA NextSInv == SInv /\ [Next]_vars => SInv'
<1> SUFFICES ASSUME SInv, [Next]_vars PROVE SInv'
  OBVIOUS
<1>1. CInv'
  BY NextCInv DEF SInv
<1>2. SnapInRing'
  BY NextSnap DEF SnapStep
<1>3. SnapAcked'
  BY SnapAckedStep
<1>. QED  BY <1>1, <1>2, <1>3 DEF SInv

-----------------------------------------------------------------------------
(***************************************************************************)
(* Once maybe_checkpoint has cleared taking_snapshot, the snapshot         *)
(* transaction has committed and all its rows are acknowledged or given    *)
(* up, for every buffer length, queue capacity and error policy: an exit   *)
(* after that point (exit_nicely) keeps the replication slot only when no  *)
(* snapshot row can be missing from Kafka.                                 *)
(***************************************************************************)
THEOREM SnapshotFlagSoundHolds == Spec => []SnapshotFlagSound
<1>1. SInv => SnapshotFlagSound
  <2> SUFFICES ASSUME SInv, ~taking_snapshot, NEW r \in produced, r.txn = 0
               PROVE  r \in kafka \cup lost
    BY DEF SInv, SnapAcked, SnapshotFlagSound
  <2>1. DurableCheckpoint
    BY DurableFromAccounting DEF SInv
  <2>2. fsync_lsn >= Lsn(0)
    BY DEF SInv, SnapAcked
  <2>. QED  BY <2>1, <2>2 DEF DurableCheckpoint
<1>. QED
  BY <1>1, InitSInv, NextSInv, PTL DEF Spec

=============================================================================
