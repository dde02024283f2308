----------------------- MODULE BottledWaterSlotProofs -----------------------
(***************************************************************************)
(* Proof that an envelope with librdkafka always points at the slot of its *)
(* own transaction (InflightSlotLive), for every size of the buffer and    *)
(* of the queue, through the inductive invariant SlotAccounting.           *)
(***************************************************************************)
EXTENDS BottledWaterProofs, FiniteSetTheorems

L == XactListLen

(* The parts of SlotAccounting, named for the proof. *)
PendingCovers ==
  \A s \in Slots : Cardinality(Outstanding(s)) <= xact_list[s].pending
StaleDrained ==
  \A s \in Slots : ~InRing(s) /\ s # xact_head => Drainable(xact_list[s])
HeadDrained ==
  Empty => (upIn /\ pc # "begin_bp") \/ Drainable(xact_list[xact_head])
HeadOpen ==
  upIn /\ pc \in {"loop", "send_bp", "send_stale"} =>
    xact_list[xact_head].xid = XidOf(upTxn)
RetryFresh ==
  pc = "send_bp" =>
    /\ sendEnv \notin inflight /\ RowOf(sendEnv) \in produced
    /\ sendEnv.slot = xact_head /\ sendEnv.txn = upTxn /\ upIn
InflightProduced == \A e \in inflight : RowOf(e) \in produced
RowsNumbered ==
  \A r \in produced : r.txn < upTxn \/ (upIn /\ r.txn = upTxn /\ r.row <= upRows)

LEMMA SlotAccountingParts ==
  SlotAccounting <=> /\ PendingCovers /\ StaleDrained /\ HeadDrained
                     /\ HeadOpen /\ RetryFresh /\ InflightProduced
                     /\ RowsNumbered /\ InflightSlotLive
BY DEF SlotAccounting, PendingCovers, StaleDrained, HeadDrained, HeadOpen,
       RetryFresh, InflightProduced, RowsNumbered

(* The inductive invariant. *)
IInv == TypeInv /\ IsFiniteSet(inflight) /\ SlotAccounting

-----------------------------------------------------------------------------
(* Arithmetic of the circular buffer. *)

LEMMA LenFacts == L \in Nat /\ L >= 2 /\ Slots = 0 .. L - 1
BY XactListLenAssumption DEF L, Slots

(***************************************************************************)
(* Places in the buffer: Pos is a bijection of the slots onto 0 .. L - 1   *)
(* that the tail inverts, the buffer is at most L - 1 long, and the head   *)
(* is its last place, or the place before the tail when it is empty.       *)
(***************************************************************************)
LEMMA RingBasics ==
  ASSUME xact_head \in Slots, xact_tail \in Slots
  PROVE  /\ Length \in 0 .. L - 1
         /\ \A s \in Slots : Pos(s) \in Slots
         /\ \A s \in Slots : (xact_tail + Pos(s)) % L = s
         /\ \A s, t \in Slots : Pos(s) = Pos(t) => s = t
         /\ Pos(xact_head) = IF Empty THEN L - 1 ELSE Length - 1
         /\ Empty <=> xact_tail = (xact_head + 1) % L
<1>1. L \in Nat /\ L >= 2 /\ Slots = 0 .. L - 1
  BY LenFacts
<1>2. Length \in 0 .. L - 1
  BY <1>1 DEF Length, L
<1>3. \A s \in Slots : Pos(s) \in Slots
  BY <1>1 DEF Pos, L
<1>4. \A s \in Slots : (xact_tail + Pos(s)) % L = s
  BY <1>1 DEF Pos, L
<1>5. \A s, t \in Slots : Pos(s) = Pos(t) => s = t
  BY <1>1 DEF Pos, L
<1>6. Pos(xact_head) = IF Empty THEN L - 1 ELSE Length - 1
  BY <1>1 DEF Pos, L, Empty, Length
<1>7. Empty <=> xact_tail = (xact_head + 1) % L
  BY <1>1 DEF L, Empty, Length
<1>. QED  BY <1>2, <1>3, <1>4, <1>5, <1>6, <1>7

(***************************************************************************)
(* Claiming the slot after the head (on_begin_txn) when the buffer is not  *)
(* full: that slot is the first place outside the buffer, and the buffer   *)
(* grows by exactly that slot.                                             *)
(***************************************************************************)
LEMMA ClaimArith ==
  ASSUME xact_head \in Slots, xact_tail \in Slots, ~Full,
         xact_head' = (xact_head + 1) % L, xact_tail' = xact_tail
  PROVE  /\ xact_head' \in Slots
         /\ xact_head' # xact_head
         /\ Pos(xact_head') = Length
         /\ Length' = Length + 1
         /\ \A s \in Slots : InRing(s)' <=> Pos(s) <= Length
<1>1. L \in Nat /\ L >= 2 /\ Slots = 0 .. L - 1
  BY LenFacts
<1>2. Length \in 0 .. L - 2
  BY <1>1 DEF Length, Full, L
<1>3. xact_head' \in Slots /\ xact_head' # xact_head
  BY <1>1
<1>4. Pos(xact_head') = Length
  BY <1>1 DEF Pos, Length, L
<1>5. Length' = Length + 1
  <2>1. CASE xact_head + 1 < L
    <3>1. xact_head' = xact_head + 1
      BY <1>1, <2>1
    <3>2. CASE xact_tail <= xact_head
      BY <1>1, <1>2, <3>1, <3>2 DEF Length, L
    <3>3. CASE xact_tail = xact_head + 1
      BY <1>1, <1>2, <3>1, <3>3 DEF Length, L
    <3>4. CASE xact_tail > xact_head + 1
      BY <1>1, <1>2, <3>1, <3>4 DEF Length, L
    <3>. QED  BY <1>1, <3>2, <3>3, <3>4
  <2>2. CASE xact_head = L - 1
    <3>1. xact_head' = 0
      BY <1>1, <2>2
    <3>. QED  BY <1>1, <1>2, <2>2, <3>1 DEF Length, L
  <2>. QED  BY <1>1, <2>1, <2>2
<1>6. \A s \in Slots : Pos(s)' = Pos(s) /\ Pos(s) \in Slots
  BY <1>1 DEF Pos, L
<1>. QED  BY <1>1, <1>3, <1>4, <1>5, <1>6 DEF InRing

(***************************************************************************)
(* Moving the tail k places (maybe_checkpoint): a nonempty buffer loses    *)
(* its first k places; an empty one, whose stale slots the walk may pass,  *)
(* stays empty only when the walk stops at once or goes full circle.       *)
(***************************************************************************)
LEMMA DrainArith ==
  ASSUME xact_head \in Slots, xact_tail \in Slots, NEW k \in 0 .. DrainBound,
         xact_tail' = (xact_tail + k) % L, xact_head' = xact_head
  PROVE  /\ ~Empty => Length' = Length - k
         /\ Empty => (Length' = 0 <=> k \in {0, L})
         /\ \A s \in Slots : ~Empty /\ Pos(s) >= k => Pos(s)' = Pos(s) - k
<1>1. L \in Nat /\ L >= 2 /\ Slots = 0 .. L - 1
  BY LenFacts
<1>2. Length \in 0 .. L - 1
  BY <1>1 DEF Length, L
<1>3. ~Empty => Length' = Length - k
  BY <1>1, <1>2 DEF Length, Empty, DrainBound, L
<1>4. Empty => (Length' = 0 <=> k \in {0, L})
  BY <1>1, <1>2 DEF Length, Empty, DrainBound, L
<1>5. \A s \in Slots : ~Empty /\ Pos(s) >= k => Pos(s)' = Pos(s) - k
  BY <1>1, <1>2 DEF Pos, Length, Empty, DrainBound, L
<1>. QED  BY <1>3, <1>4, <1>5

-----------------------------------------------------------------------------
(* Counting the envelopes of a slot. *)

LEMMA CardGrow ==
  ASSUME NEW S, NEW T, NEW x, NEW p \in Int, IsFiniteSet(S),
         Cardinality(S) <= p, T \subseteq S \cup {x}
  PROVE  Cardinality(T) <= p + 1
<1>1. /\ IsFiniteSet(S \cup {x})
      /\ Cardinality(S \cup {x}) = IF x \in S THEN Cardinality(S)
                                              ELSE Cardinality(S) + 1
  BY FS_AddElement
<1>2. Cardinality(S) \in Nat
  BY FS_CardinalityType
<1>3. T \in SUBSET (S \cup {x})
  OBVIOUS
<1>4. IsFiniteSet(T) /\ Cardinality(T) <= Cardinality(S \cup {x})
  BY <1>1, <1>3, FS_Subset
<1>5. Cardinality(T) \in Nat
  BY <1>4, FS_CardinalityType
<1>. QED  BY <1>1, <1>2, <1>4, <1>5

LEMMA CardShrink ==
  ASSUME NEW S, NEW T, NEW p \in Int, IsFiniteSet(S),
         Cardinality(S) <= p, T \subseteq S
  PROVE  Cardinality(T) <= p
<1>1. T \in SUBSET S
  OBVIOUS
<1>2. IsFiniteSet(T) /\ Cardinality(T) <= Cardinality(S)
  BY <1>1, FS_Subset
<1>3. Cardinality(S) \in Nat /\ Cardinality(T) \in Nat
  BY <1>2, FS_CardinalityType
<1>. QED  BY <1>2, <1>3

LEMMA CardRemove ==
  ASSUME NEW S, NEW x \in S, NEW p \in Int, IsFiniteSet(S),
         Cardinality(S) <= p
  PROVE  Cardinality(S \ {x}) <= p - 1
<1>1. Cardinality(S \ {x}) = Cardinality(S) - 1
  BY FS_RemoveElement
<1>2. Cardinality(S) \in Nat
  BY FS_CardinalityType
<1>. QED  BY <1>1, <1>2

LEMMA CardMember ==
  ASSUME NEW S, NEW x \in S, IsFiniteSet(S)
  PROVE  Cardinality(S) >= 1
BY FS_EmptySet, FS_CardinalityType

(* The envelopes of a slot are finitely many while the queue is finite. *)
LEMMA OutstandingFinite ==
  ASSUME IsFiniteSet(inflight), NEW s
  PROVE  IsFiniteSet(Outstanding(s))
<1>1. Outstanding(s) \subseteq inflight \cup {sendEnv}
  BY DEF Outstanding
<1>2. IsFiniteSet(inflight \cup {sendEnv})
  BY FS_AddElement
<1>. QED  BY <1>1, <1>2, FS_Subset

LEMMA OutstandingFinitePrimed ==
  ASSUME IsFiniteSet(inflight'), NEW s
  PROVE  IsFiniteSet(Outstanding(s)')
<1>1. Outstanding(s)' \subseteq inflight' \cup {sendEnv'}
  BY DEF Outstanding
<1>2. IsFiniteSet(inflight' \cup {sendEnv'})
  BY FS_AddElement
<1>. QED  BY <1>1, <1>2, FS_Subset

(* A slot with an envelope outstanding has events pending. *)
LEMMA PendingOfOutstanding ==
  ASSUME IsFiniteSet(inflight), PendingCovers, xact_list \in [Slots -> XactInfo],
         NEW s \in Slots, NEW e \in Outstanding(s)
  PROVE  xact_list[s].pending >= 1
<1>1. Cardinality(Outstanding(s)) >= 1
  BY OutstandingFinite, CardMember
<1>. QED  BY <1>1, FS_CardinalityType, OutstandingFinite DEF PendingCovers, XactInfo

(* An empty slot of the count has nothing outstanding. *)
LEMMA DrainedHasNone ==
  ASSUME IsFiniteSet(inflight), PendingCovers, xact_list \in [Slots -> XactInfo],
         NEW s \in Slots, xact_list[s].pending = 0
  PROVE  Outstanding(s) = {}
BY PendingOfOutstanding

-----------------------------------------------------------------------------
(***************************************************************************)
(* maybe_checkpoint after one slot m of the buffer was updated: every slot *)
(* it leaves behind it is drained, and when it empties the buffer the head *)
(* is drained too.  On an empty buffer the walk over the stale slots can   *)
(* not stop at the first one (it is drained), so it stays empty only by    *)
(* passing the head.                                                       *)
(***************************************************************************)
LEMMA DrainRing ==
  ASSUME xact_head \in Slots, xact_tail \in Slots,
         NEW list \in [Slots -> XactInfo], NEW m \in Slots,
         \A s \in Slots : s # m => list[s] = xact_list[s],
         m = xact_head \/ InRing(m),
         StaleDrained,
         MaybeCheckpoint(list)
  PROVE  /\ xact_list' = list /\ xact_head' = xact_head
         /\ \A s \in Slots : ~InRing(s)' /\ s # xact_head => Drainable(list[s])
         /\ Empty' => Drainable(list[xact_head])
<1>1. L \in Nat /\ L >= 2 /\ Slots = 0 .. L - 1
  BY LenFacts
<1>2. PICK k \in 0 .. DrainBound :
        /\ DrainsTo(list, k)
        /\ xact_list' = list
        /\ xact_tail' = (xact_tail + k) % L
        /\ xact_head' = xact_head
  BY DEF MaybeCheckpoint, L
<1>3. /\ ~Empty => Length' = Length - k
      /\ Empty => (Length' = 0 <=> k \in {0, L})
      /\ \A s \in Slots : ~Empty /\ Pos(s) >= k => Pos(s)' = Pos(s) - k
  BY <1>2, DrainArith
<1>4. /\ Length \in 0 .. L - 1
      /\ \A s \in Slots : Pos(s) \in Slots
      /\ \A s \in Slots : (xact_tail + Pos(s)) % L = s
      /\ Pos(xact_head) = IF Empty THEN L - 1 ELSE Length - 1
      /\ Empty <=> xact_tail = (xact_head + 1) % L
  BY RingBasics
<1>5. k \in 0 .. L
  BY <1>1, <1>4 DEF DrainBound, L
<1>6. \A s \in Slots : Pos(s) < k => Drainable(list[s])
  <2> SUFFICES ASSUME NEW s \in Slots, Pos(s) < k PROVE Drainable(list[s])
    OBVIOUS
  <2>1. Pos(s) \in 0 .. k - 1
    BY <1>4, <1>1
  <2>2. SlotAt(list, Pos(s)) = list[s]
    BY <1>4 DEF SlotAt, L
  <2>. QED  BY <1>2, <2>1, <2>2 DEF DrainsTo
(* A slot outside the buffer is not the updated one, unless it is the head. *)
<1>7. \A s \in Slots : ~InRing(s) /\ s # xact_head => Drainable(list[s])
  BY DEF StaleDrained
<1>8. ASSUME NEW s \in Slots, ~InRing(s)', s # xact_head
      PROVE  Drainable(list[s])
  <2>1. CASE Empty
    <3>1. ~InRing(s)
      BY <1>4, <2>1, <1>1 DEF InRing, Empty
    <3>. QED  BY <1>7, <1>8, <3>1
  <2>2. CASE ~Empty /\ Pos(s) < k
    BY <1>6, <2>2
  <2>3. CASE ~Empty /\ Pos(s) >= k
    <3>1. Pos(s)' = Pos(s) - k /\ Length' = Length - k
      BY <1>3, <2>3
    <3>2. Pos(s) \in Slots /\ Length \in 0 .. L - 1
      BY <1>4
    <3>3. ~(Pos(s)' < Length')
      BY <1>8 DEF InRing
    <3>4. ~(Pos(s) < Length)
      BY <3>1, <3>2, <3>3, <1>1, <1>5
    <3>. QED  BY <1>7, <1>8, <3>4 DEF InRing
  <2>4. Pos(s) < k \/ Pos(s) >= k
    BY <1>4, <1>5, <1>1
  <2>. QED  BY <2>1, <2>2, <2>3, <2>4
<1>9. ASSUME Empty' PROVE Drainable(list[xact_head])
  <2>1. CASE ~Empty
    <3>1. k = Length
      BY <1>3, <1>4, <1>5, <1>9, <2>1 DEF Empty
    <3>2. Pos(xact_head) < k
      BY <1>4, <2>1, <3>1, <1>1
    <3>. QED  BY <1>6, <3>2
  <2>2. CASE Empty
    <3>1. k \in {0, L}
      BY <1>3, <1>9, <2>2 DEF Empty
    <3>2. k # 0
      <4>0. Length = 0 /\ Pos(xact_tail) \in Slots /\ Pos(m) \in Slots
        BY <1>4, <2>2 DEF Empty
      <4>1. ~InRing(xact_tail) /\ ~InRing(m)
        BY <1>1, <4>0 DEF InRing
      <4>5. xact_tail = (xact_head + 1) % L
        BY <1>4, <2>2
      <4>6. xact_tail # xact_head
        BY <1>1, <4>5
      <4>2. m = xact_head
        BY <4>1
      <4>3. Drainable(list[xact_tail])
        BY <1>7, <4>1, <4>6
      <4>4. SlotAt(list, 0) = list[xact_tail] /\ DrainBound = L
        BY <1>1, <2>2 DEF SlotAt, DrainBound, L
      <4>. QED  BY <1>2, <1>1, <4>3, <4>4 DEF DrainsTo
    <3>. QED  BY <1>6, <1>4, <2>2, <3>1, <3>2, <1>1
  <2>. QED  BY <2>1, <2>2
<1>. QED  BY <1>2, <1>8, <1>9

(***************************************************************************)
(* on_begin_txn claims the slot after the head when the buffer is not      *)
(* full.  That slot lies outside the buffer, so it is drained and no       *)
(* envelope points at it; the buffer is nonempty afterwards; and every     *)
(* slot left outside is drained (the old head only leaves the buffer when  *)
(* it was empty, and then it was drained).                                 *)
(***************************************************************************)
LEMMA ClaimRing ==
  ASSUME xact_list \in [Slots -> XactInfo], xact_head \in Slots,
         xact_tail \in Slots, ~Full, BeginSlot,
         IsFiniteSet(inflight), PendingCovers, StaleDrained,
         Empty => Drainable(xact_list[xact_head])
  PROVE  /\ xact_head' = (xact_head + 1) % L
         /\ xact_head' \in Slots
         /\ xact_list' = [xact_list EXCEPT ![xact_head'] =
                            [xid |-> XidOf(upTxn), pending |-> 0, commit |-> 0]]
         /\ UNCHANGED <<xact_tail, fsync_lsn, taking_snapshot>>
         /\ ~Empty'
         /\ Outstanding(xact_head') = {}
         /\ \A s \in Slots : ~InRing(s)' /\ s # xact_head' => Drainable(xact_list'[s])
<1>1. /\ xact_head' = (xact_head + 1) % L
      /\ xact_list' = [xact_list EXCEPT ![xact_head'] =
                         [xid |-> XidOf(upTxn), pending |-> 0, commit |-> 0]]
      /\ UNCHANGED <<xact_tail, fsync_lsn, taking_snapshot>>
  BY DEF BeginSlot, L
<1>2. /\ xact_head' \in Slots
      /\ xact_head' # xact_head
      /\ Pos(xact_head') = Length
      /\ Length' = Length + 1
      /\ \A s \in Slots : InRing(s)' <=> Pos(s) <= Length
  BY <1>1, ClaimArith
<1>3. /\ L \in Nat /\ L >= 2 /\ Slots = 0 .. L - 1
      /\ Length \in 0 .. L - 1
      /\ \A s \in Slots : Pos(s) \in Slots
      /\ \A s, t \in Slots : Pos(s) = Pos(t) => s = t
      /\ Pos(xact_head) = IF Empty THEN L - 1 ELSE Length - 1
  BY LenFacts, RingBasics
<1>4. Drainable(xact_list[xact_head'])
  <2>1. ~InRing(xact_head')
    BY <1>2, <1>3 DEF InRing
  <2>. QED  BY <1>2, <2>1 DEF StaleDrained
<1>5. Outstanding(xact_head') = {}
  BY <1>2, <1>4, DrainedHasNone DEF Drainable
<1>6. ~Empty'
  BY <1>2, <1>3 DEF Empty
<1>7. ASSUME NEW s \in Slots, ~InRing(s)', s # xact_head'
      PROVE  Drainable(xact_list'[s])
  <2>1. Pos(s) # Length
    BY <1>2, <1>3, <1>7
  <2>2. ~InRing(s)
    BY <1>2, <1>3, <1>7, <2>1 DEF InRing
  <2>3. xact_list'[s] = xact_list[s]
    BY <1>1, <1>7
  <2>4. CASE s # xact_head
    BY <2>2, <2>3, <2>4 DEF StaleDrained
  <2>5. CASE s = xact_head
    <3>1. Empty
      BY <1>3, <2>2, <2>5 DEF InRing, Empty
    <3>. QED  BY <2>3, <2>5, <3>1
  <2>. QED  BY <2>4, <2>5
<1>. QED  BY <1>1, <1>2, <1>5, <1>6, <1>7

-----------------------------------------------------------------------------
(* The inductive invariant holds initially and is kept by every step. *)

LEMMA InitIInv == Init => IInv
<1> SUFFICES ASSUME Init PROVE IInv
  OBVIOUS
<1>1. TypeInv
  BY InitTypeInv
<1>2. IsFiniteSet(inflight)
  BY FS_EmptySet DEF Init
<1>3. \A s \in Slots : Outstanding(s) = {} /\ xact_list[s].pending = 0
  BY DEF Init, Outstanding
<1>4. PendingCovers
  BY <1>3, FS_EmptySet DEF PendingCovers
<1>5. \A s \in Slots : Drainable(xact_list[s])
  BY DEF Init, Drainable
<1>6. /\ StaleDrained /\ HeadDrained /\ HeadOpen /\ RetryFresh
      /\ InflightProduced /\ RowsNumbered /\ InflightSlotLive
  BY <1>1, <1>5 DEF Init, StaleDrained, HeadDrained, HeadOpen, RetryFresh,
                 InflightProduced, RowsNumbered, InflightSlotLive, TypeInv, TypeOK
<1>. QED  BY <1>1, <1>2, <1>4, <1>6, SlotAccountingParts DEF IInv

(***************************************************************************)
(* A step that leaves the buffer, the waiting envelope and the upstream   *)
(* transaction alone, at most removes envelopes from the queue, and moves  *)
(* the thread at most back to the main loop or out of the program, keeps   *)
(* the accounting.  This covers the exit of a delivery report, the schema  *)
(* callback, unkeyed deletes, the end of the stale back-pressure wait,     *)
(* client errors, shutdown and termination.                                *)
(***************************************************************************)
LEMMA FrameStep ==
  ASSUME IInv,
         UNCHANGED <<xact_list, xact_head, xact_tail, sendEnv, produced,
                     upTxn, upIn>>,
         inflight' \subseteq inflight,
         upRows' \in Nat, upRows' >= upRows,
         \/ pc' = pc \/ pc' = "exited"
         \/ pc' = "loop" /\ pc \in {"loop", "send_stale"}
  PROVE  IsFiniteSet(inflight)' /\ SlotAccounting'
<1>1. TypeInv /\ IsFiniteSet(inflight) /\ PendingCovers /\ StaleDrained
      /\ HeadDrained /\ HeadOpen /\ RetryFresh /\ InflightProduced
      /\ RowsNumbered /\ InflightSlotLive
  BY SlotAccountingParts DEF IInv
<1>2. \A s \in Slots : Outstanding(s)' \subseteq Outstanding(s)
  BY DEF Outstanding
<1>7. IsFiniteSet(inflight')
  BY <1>1, FS_Subset
<1>3. PendingCovers'
  <2> SUFFICES ASSUME NEW s \in Slots
               PROVE  Cardinality(Outstanding(s)') <= xact_list[s].pending
    BY DEF PendingCovers
  <2>1. IsFiniteSet(Outstanding(s)) /\ Cardinality(Outstanding(s)) <= xact_list[s].pending
    BY <1>1, OutstandingFinite DEF PendingCovers
  <2>2. xact_list[s].pending \in Int
    BY <1>1 DEF TypeInv, TypeOK
  <2>. QED  BY <1>2, <2>1, <2>2, CardShrink
<1>4. StaleDrained' /\ HeadOpen' /\ RetryFresh' /\ InflightProduced'
      /\ InflightSlotLive'
  BY <1>1 DEF StaleDrained, InRing, Pos, Length, HeadOpen, RetryFresh,
              InflightProduced, InflightSlotLive
<1>5. HeadDrained'
  BY <1>1 DEF HeadDrained, Empty, Length
<1>6. RowsNumbered'
  BY <1>1 DEF RowsNumbered, TypeInv, TypeOK, RowId
<1>. QED  BY <1>3, <1>4, <1>5, <1>6, <1>7 DEF SlotAccounting, PendingCovers,
            StaleDrained, HeadDrained, HeadOpen, RetryFresh, InflightProduced,
            RowsNumbered

LEMMA OnTableSchemaIInv ==
  ASSUME NEW r \in Rels
  PROVE  IInv /\ OnTableSchema(r) => IInv'
<1> SUFFICES ASSUME IInv, OnTableSchema(r) PROVE IInv'
  OBVIOUS
<1>1. TypeInv'
  BY OnTableSchemaTypeInv DEF IInv
<1>2. IsFiniteSet(inflight)' /\ SlotAccounting'
  BY FrameStep DEF OnTableSchema, CallbackReturn, ExitNicely, ringVars,
                   histVars, IInv, TypeInv, TypeOK
<1>. QED  BY <1>1, <1>2 DEF IInv

LEMMA OnDeleteUnkeyedIInv ==
  ASSUME NEW r \in Rels
  PROVE  IInv /\ OnDeleteUnkeyed(r) => IInv'
<1> SUFFICES ASSUME IInv, OnDeleteUnkeyed(r) PROVE IInv'
  OBVIOUS
<1>1. TypeInv'
  BY OnDeleteUnkeyedTypeInv DEF IInv
<1>2. IsFiniteSet(inflight)' /\ SlotAccounting'
  BY FrameStep DEF OnDeleteUnkeyed, ringVars, histVars, IInv, TypeInv, TypeOK
<1>. QED  BY <1>1, <1>2 DEF IInv

LEMMA StaleBackpressureDoneIInv == IInv /\ StaleBackpressureDone => IInv'
<1> SUFFICES ASSUME IInv, StaleBackpressureDone PROVE IInv'
  OBVIOUS
<1>1. TypeInv'
  BY StaleBackpressureDoneTypeInv DEF IInv
<1>2. IsFiniteSet(inflight)' /\ SlotAccounting'
  BY FrameStep DEF StaleBackpressureDone, ringVars, upVars, histVars, IInv,
                   TypeInv, TypeOK
<1>. QED  BY <1>1, <1>2 DEF IInv

LEMMA OnClientErrorIInv == IInv /\ OnClientError => IInv'
<1> SUFFICES ASSUME IInv, OnClientError PROVE IInv'
  OBVIOUS
<1>1. TypeInv'
  BY OnClientErrorTypeInv DEF IInv
<1>2. IsFiniteSet(inflight)' /\ SlotAccounting'
  BY FrameStep DEF OnClientError, ExitNicely, ringVars, upVars, histVars,
                   IInv, TypeInv, TypeOK
<1>. QED  BY <1>1, <1>2 DEF IInv

LEMMA ShutdownSignalIInv == IInv /\ ShutdownSignal => IInv'
<1> SUFFICES ASSUME IInv, ShutdownSignal PROVE IInv'
  OBVIOUS
<1>1. TypeInv'
  BY ShutdownSignalTypeInv DEF IInv
<1>2. IsFiniteSet(inflight)' /\ SlotAccounting'
  BY FrameStep DEF ShutdownSignal, ringVars, upVars, histVars, IInv,
                   TypeInv, TypeOK
<1>. QED  BY <1>1, <1>2 DEF IInv

LEMMA ShutdownExitIInv == IInv /\ ShutdownExit => IInv'
<1> SUFFICES ASSUME IInv, ShutdownExit PROVE IInv'
  OBVIOUS
<1>1. TypeInv'
  BY ShutdownExitTypeInv DEF IInv
<1>2. IsFiniteSet(inflight)' /\ SlotAccounting'
  BY FrameStep DEF ShutdownExit, ExitNicely, ringVars, upVars, histVars,
                   IInv, TypeInv, TypeOK
<1>. QED  BY <1>1, <1>2 DEF IInv

LEMMA StutterIInv == IInv /\ (Terminated \/ UNCHANGED vars) => IInv'
<1> SUFFICES ASSUME IInv, UNCHANGED vars PROVE IInv'
  BY DEF Terminated
<1>1. TypeInv'
  BY DEF vars, ringVars, upVars, histVars, IInv, TypeInv, TypeOK
<1>2. IsFiniteSet(inflight)' /\ SlotAccounting'
  BY FrameStep DEF vars, ringVars, upVars, histVars, IInv, TypeInv, TypeOK
<1>. QED  BY <1>1, <1>2 DEF IInv

(***************************************************************************)
(* Claiming a slot and returning to the main loop (on_begin_txn, directly  *)
(* or after waiting for a free slot) keeps every part of the accounting    *)
(* but the numbering of rows, which depends on the upstream step.          *)
(***************************************************************************)
LEMMA ClaimStep ==
  ASSUME IInv, ~Full, BeginSlot,
         Empty => Drainable(xact_list[xact_head]),
         pc # "send_bp", pc' = "loop", upIn' = TRUE,
         UNCHANGED <<inflight, sendEnv, produced, upTxn>>
  PROVE  /\ IsFiniteSet(inflight)'
         /\ PendingCovers' /\ StaleDrained' /\ HeadDrained' /\ HeadOpen'
         /\ RetryFresh' /\ InflightProduced' /\ InflightSlotLive'
<1>1. TypeInv /\ IsFiniteSet(inflight) /\ PendingCovers /\ StaleDrained
      /\ InflightProduced /\ InflightSlotLive
  BY SlotAccountingParts DEF IInv
<1>2. /\ xact_head' = (xact_head + 1) % L
      /\ xact_head' \in Slots
      /\ xact_list' = [xact_list EXCEPT ![xact_head'] =
                         [xid |-> XidOf(upTxn), pending |-> 0, commit |-> 0]]
      /\ UNCHANGED <<xact_tail, fsync_lsn, taking_snapshot>>
      /\ ~Empty'
      /\ Outstanding(xact_head') = {}
      /\ \A s \in Slots : ~InRing(s)' /\ s # xact_head' => Drainable(xact_list'[s])
  BY <1>1, ClaimRing DEF TypeInv, TypeOK, XactInfo
<1>3. \A s \in Slots : Outstanding(s)' = Outstanding(s)
  BY DEF Outstanding
<1>4. \A e \in inflight : e.slot # xact_head'
  BY <1>2 DEF Outstanding
<1>5. PendingCovers'
  <2> SUFFICES ASSUME NEW s \in Slots
               PROVE  Cardinality(Outstanding(s)') <= xact_list'[s].pending
    BY DEF PendingCovers
  <2>1. CASE s = xact_head'
    <3>1. xact_list'[s].pending = 0
      BY <1>1, <1>2, <2>1 DEF TypeInv, TypeOK
    <3>2. Outstanding(s)' = {}
      BY <1>2, <1>3, <2>1
    <3>. QED  BY <3>1, <3>2, FS_EmptySet
  <2>2. CASE s # xact_head'
    BY <1>1, <1>2, <1>3, <2>2 DEF PendingCovers, TypeInv, TypeOK
  <2>. QED  BY <2>1, <2>2
<1>6. StaleDrained'
  BY <1>2 DEF StaleDrained
<1>10. HeadDrained'
  BY <1>2 DEF HeadDrained
<1>7. HeadOpen'
  BY <1>1, <1>2 DEF HeadOpen, TypeInv, TypeOK
<1>8. RetryFresh' /\ InflightProduced'
  BY <1>1 DEF RetryFresh, InflightProduced
<1>9. InflightSlotLive'
  BY <1>1, <1>2, <1>4 DEF InflightSlotLive, TypeInv, TypeOK, Env
<1>. QED  BY <1>1, <1>5, <1>6, <1>7, <1>8, <1>9, <1>10

(* Both ways of starting a transaction number rows from a finished one. *)
LEMMA BeginRows ==
  ASSUME RowsNumbered, ~upIn, upIn', upRows' = 0,
         UNCHANGED <<produced, upTxn>>
  PROVE  RowsNumbered'
BY DEF RowsNumbered

LEMMA OnBeginTxnIInv == IInv /\ OnBeginTxn => IInv'
<1> SUFFICES ASSUME IInv, OnBeginTxn PROVE IInv'
  OBVIOUS
<1>1. TypeInv' /\ TypeInv /\ IsFiniteSet(inflight) /\ SlotAccounting
  BY OnBeginTxnTypeInv DEF IInv
<1>2. RowsNumbered'
  BY <1>1, BeginRows, SlotAccountingParts DEF OnBeginTxn, histVars
<1>3. CASE Full
  <2>1. pc' = "begin_bp" /\ UNCHANGED <<ringVars, inflight, sendEnv, produced, upTxn>>
    BY <1>3 DEF OnBeginTxn, histVars
  <2>2. ~Empty /\ ~Empty'
    BY <1>3, <2>1, XactListLenAssumption DEF Full, Empty, Length, ringVars
  <2>3. \A s \in Slots : Outstanding(s)' = Outstanding(s)
    BY <2>1 DEF Outstanding, OnBeginTxn
  <2>4. /\ PendingCovers' /\ StaleDrained' /\ HeadDrained' /\ HeadOpen'
        /\ RetryFresh' /\ InflightProduced' /\ InflightSlotLive'
    BY <1>1, <2>1, <2>2, <2>3, SlotAccountingParts
       DEF ringVars, PendingCovers, StaleDrained, InRing, Pos, Length,
           HeadDrained, HeadOpen, RetryFresh, InflightProduced, InflightSlotLive
  <2>. QED  BY <1>1, <1>2, <2>1, <2>4 DEF IInv, SlotAccounting, PendingCovers,
               StaleDrained, HeadDrained, HeadOpen, RetryFresh,
               InflightProduced, RowsNumbered
<1>4. CASE ~Full
  <2>1. BeginSlot /\ pc' = "loop" /\ pc = "loop" /\ upIn' = TRUE /\ ~upIn
        /\ UNCHANGED <<inflight, sendEnv, produced, upTxn>>
    BY <1>4 DEF OnBeginTxn, histVars
  <2>2. Empty => Drainable(xact_list[xact_head])
    BY <1>1, <2>1, SlotAccountingParts DEF HeadDrained
  <2>3. /\ IsFiniteSet(inflight)'
        /\ PendingCovers' /\ StaleDrained' /\ HeadDrained' /\ HeadOpen'
        /\ RetryFresh' /\ InflightProduced' /\ InflightSlotLive'
    BY <1>4, <2>1, <2>2, ClaimStep
  <2>. QED  BY <1>1, <1>2, <2>3 DEF IInv, SlotAccounting, PendingCovers,
               StaleDrained, HeadDrained, HeadOpen, RetryFresh,
               InflightProduced, RowsNumbered
<1>. QED  BY <1>3, <1>4

LEMMA BeginResumeIInv == IInv /\ BeginResume => IInv'
<1> SUFFICES ASSUME IInv, BeginResume PROVE IInv'
  OBVIOUS
<1>1. TypeInv' /\ TypeInv /\ IsFiniteSet(inflight) /\ SlotAccounting
  BY BeginResumeTypeInv DEF IInv
<1>2. upIn /\ UNCHANGED <<inflight, sendEnv, produced, upTxn, upIn, upRows>>
  BY <1>1 DEF BeginResume, TypeInv, upVars, histVars
<1>3. RowsNumbered'
  BY <1>1, <1>2, SlotAccountingParts DEF RowsNumbered
<1>4. Empty => Drainable(xact_list[xact_head])
  BY <1>1, SlotAccountingParts DEF HeadDrained, BeginResume
<1>5. /\ IsFiniteSet(inflight)'
      /\ PendingCovers' /\ StaleDrained' /\ HeadDrained' /\ HeadOpen'
      /\ RetryFresh' /\ InflightProduced' /\ InflightSlotLive'
  BY <1>2, <1>4, ClaimStep DEF BeginResume
<1>. QED  BY <1>1, <1>3, <1>5 DEF IInv, SlotAccounting, PendingCovers,
             StaleDrained, HeadDrained, HeadOpen, RetryFresh,
             InflightProduced, RowsNumbered

(***************************************************************************)
(* on_commit_txn records the commit position in the head slot and          *)
(* checkpoints; the counts and transaction ids do not change, and the      *)
(* drain leaves only drained slots behind.                                 *)
(***************************************************************************)
LEMMA OnCommitTxnIInv == IInv /\ OnCommitTxn => IInv'
<1> SUFFICES ASSUME IInv, OnCommitTxn PROVE IInv'
  OBVIOUS
<1> DEFINE list == [xact_list EXCEPT ![xact_head].commit = Lsn(upTxn)]
<1>1. /\ TypeInv' /\ TypeInv /\ IsFiniteSet(inflight)
      /\ PendingCovers /\ StaleDrained /\ InflightProduced /\ RowsNumbered
      /\ InflightSlotLive
  BY OnCommitTxnTypeInv, SlotAccountingParts DEF IInv
<1>2. list \in [Slots -> XactInfo]
      /\ \A s \in Slots : /\ list[s].pending = xact_list[s].pending
                          /\ list[s].xid = xact_list[s].xid
                          /\ s # xact_head => list[s] = xact_list[s]
  BY <1>1 DEF TypeInv, TypeOK, XactInfo, Lsn, Txns
<1>3. /\ xact_list' = list /\ xact_head' = xact_head
      /\ \A s \in Slots : ~InRing(s)' /\ s # xact_head => Drainable(list[s])
      /\ Empty' => Drainable(list[xact_head])
  <2>1. MaybeCheckpoint(list)
    BY DEF OnCommitTxn
  <2>. QED  BY <1>1, <1>2, <2>1, DrainRing DEF TypeInv, TypeOK
<1>4. /\ UNCHANGED <<inflight, pc, sendEnv, produced, upRows>>
      /\ upIn /\ ~upIn' /\ upTxn' = upTxn + 1 /\ upTxn \in Nat
  BY <1>1 DEF OnCommitTxn, histVars, TypeInv, TypeOK
<1>5. \A s \in Slots : Outstanding(s)' = Outstanding(s)
  BY <1>4 DEF Outstanding
<1>6. PendingCovers'
  BY <1>1, <1>2, <1>3, <1>5 DEF PendingCovers
<1>7. StaleDrained' /\ HeadDrained'
  BY <1>3 DEF StaleDrained, HeadDrained
<1>8. HeadOpen' /\ RetryFresh' /\ InflightProduced'
  BY <1>1, <1>4 DEF HeadOpen, RetryFresh, InflightProduced, OnCommitTxn
<1>9. RowsNumbered'
  BY <1>1, <1>4 DEF RowsNumbered, TypeInv, TypeOK, RowId, Txns
<1>10. InflightSlotLive'
  BY <1>1, <1>2, <1>3, <1>4 DEF InflightSlotLive, TypeInv, TypeOK, Env
<1>. QED  BY <1>1, <1>4, <1>6, <1>7, <1>8, <1>9, <1>10
          DEF IInv, SlotAccounting, PendingCovers, StaleDrained, HeadDrained,
              HeadOpen, RetryFresh, InflightProduced, RowsNumbered

(***************************************************************************)
(* on_deliver_msg takes the envelope out of its slot's count and           *)
(* checkpoints, or exits.  The envelope was counted, so its slot had an    *)
(* event pending: it is in the buffer or is the head, the one slot the     *)
(* drain may update; and it is not the envelope send_kafka_msg retries.    *)
(***************************************************************************)
LEMMA OnDeliverMsgIInv ==
  ASSUME NEW e \in inflight, NEW ok \in BOOLEAN
  PROVE  IInv /\ OnDeliverMsg(e, ok) => IInv'
<1> SUFFICES ASSUME IInv, OnDeliverMsg(e, ok) PROVE IInv'
  OBVIOUS
<1>1. /\ TypeInv' /\ TypeInv /\ IsFiniteSet(inflight)
      /\ PendingCovers /\ StaleDrained /\ RetryFresh /\ InflightProduced
      /\ RowsNumbered /\ InflightSlotLive /\ HeadOpen
  BY OnDeliverMsgTypeInv, SlotAccountingParts DEF IInv
<1>2. e \in Env /\ e.slot \in Slots /\ inflight' = inflight \ {e}
  BY <1>1 DEF OnDeliverMsg, TypeInv, TypeOK, Env
<1>3. CASE ~(ok \/ ErrorPolicy = "log")
  <2>1. TypeInv'
    BY <1>1
  <2>2. IsFiniteSet(inflight)' /\ SlotAccounting'
    BY <1>1, <1>2, <1>3, FrameStep
       DEF OnDeliverMsg, ExitNicely, ringVars, upVars, TypeInv, TypeOK
  <2>. QED  BY <2>1, <2>2 DEF IInv
<1>4. CASE ok \/ ErrorPolicy = "log"
  <2> DEFINE m == e.slot
             list == [xact_list EXCEPT ![m].pending = @ - 1]
  <2>1. /\ MaybeCheckpoint(list)
        /\ UNCHANGED <<pc, sendEnv, produced, upTxn, upIn, upRows>>
    BY <1>4 DEF OnDeliverMsg, upVars
  <2>2. e \in Outstanding(m) /\ xact_list[m].pending >= 1
    BY <1>1, <1>2, PendingOfOutstanding DEF Outstanding, TypeInv, TypeOK, XactInfo
  <2>3. m = xact_head \/ InRing(m)
    BY <1>1, <1>2, <2>2 DEF StaleDrained, Drainable
  <2>4. list \in [Slots -> XactInfo]
        /\ \A s \in Slots : /\ list[s].xid = xact_list[s].xid
                            /\ s # m => list[s] = xact_list[s]
        /\ list[m].pending = xact_list[m].pending - 1
    BY <1>1, <1>2 DEF TypeInv, TypeOK, XactInfo
  <2>5. /\ xact_list' = list /\ xact_head' = xact_head
        /\ \A s \in Slots : ~InRing(s)' /\ s # xact_head => Drainable(list[s])
        /\ Empty' => Drainable(list[xact_head])
    BY <1>1, <1>2, <2>1, <2>3, <2>4, DrainRing DEF TypeInv, TypeOK
  <2>6. \A s \in Slots : Outstanding(s)' = Outstanding(s) \ {e}
    BY <1>1, <1>2, <2>1 DEF Outstanding, RetryFresh
  <2>7. PendingCovers'
    <3> SUFFICES ASSUME NEW s \in Slots
                 PROVE  Cardinality(Outstanding(s)') <= xact_list'[s].pending
      BY DEF PendingCovers
    <3>1. IsFiniteSet(Outstanding(s))
          /\ Cardinality(Outstanding(s)) <= xact_list[s].pending
          /\ xact_list[s].pending \in Int
      BY <1>1, OutstandingFinite DEF PendingCovers, TypeInv, TypeOK
    <3>2. CASE s = m
      BY <2>2, <2>4, <2>5, <2>6, <3>1, <3>2, CardRemove
    <3>3. CASE s # m
      BY <2>4, <2>5, <2>6, <3>1, <3>3, CardShrink
    <3>. QED  BY <3>2, <3>3
  <2>8. StaleDrained' /\ HeadDrained'
    BY <2>5 DEF StaleDrained, HeadDrained
  <2>9. HeadOpen' /\ RetryFresh' /\ InflightProduced' /\ RowsNumbered'
    BY <1>1, <1>2, <2>1, <2>4, <2>5 DEF HeadOpen, RetryFresh,
       InflightProduced, RowsNumbered, TypeInv, TypeOK
  <2>10. InflightSlotLive'
    BY <1>1, <1>2, <2>4, <2>5 DEF InflightSlotLive, TypeInv, TypeOK, Env
  <2>11. IsFiniteSet(inflight')
    BY <1>1, <1>2, FS_RemoveElement
  <2>. QED  BY <1>1, <2>7, <2>8, <2>9, <2>10, <2>11
            DEF IInv, SlotAccounting, PendingCovers, StaleDrained, HeadDrained,
                HeadOpen, RetryFresh, InflightProduced, RowsNumbered
<1>. QED  BY <1>3, <1>4

(***************************************************************************)
(* on_row_event counts one more event in the head slot and hands a new     *)
(* envelope to send_kafka_msg, which enqueues it, keeps it for a retry     *)
(* under back-pressure, or drops it.  The envelope is fresh: its row       *)
(* number exceeds every row produced so far in the transaction.            *)
(***************************************************************************)
LEMMA OnRowEventIInv ==
  ASSUME NEW r \in Rels
  PROVE  IInv /\ OnRowEvent(r) => IInv'
<1> SUFFICES ASSUME IInv, OnRowEvent(r) PROVE IInv'
  OBVIOUS
<1> DEFINE e == [txn |-> upTxn, row |-> upRows + 1, slot |-> xact_head]
<1>1. /\ TypeInv' /\ TypeInv /\ IsFiniteSet(inflight)
      /\ PendingCovers /\ StaleDrained /\ HeadDrained /\ HeadOpen
      /\ InflightProduced /\ RowsNumbered /\ InflightSlotLive
  BY OnRowEventTypeInv, SlotAccountingParts DEF IInv
<1>2. /\ pc = "loop" /\ upIn
      /\ xact_list' = [xact_list EXCEPT ![xact_head].pending = @ + 1]
      /\ produced' = produced \cup {RowOf(e)}
      /\ upRows' = upRows + 1
      /\ UNCHANGED <<xact_head, xact_tail, upTxn, upIn>>
  BY DEF OnRowEvent, SendKafkaMsg
<1>3. /\ inflight' \subseteq inflight \cup {e}
      /\ pc' \in {"loop", "exited", "send_bp", "send_stale"}
      /\ pc' = "send_bp" => sendEnv' = e /\ inflight' = inflight
  BY DEF OnRowEvent, SendKafkaMsg, Produce, SendFails, Enqueued,
         CallbackReturn, ExitNicely
<1>4. e \notin inflight
  <2> SUFFICES ASSUME e \in inflight PROVE FALSE
    OBVIOUS
  <2>1. [txn |-> upTxn, row |-> upRows + 1] \in produced
    BY <1>1 DEF InflightProduced, RowOf
  <2>2. upTxn \in Nat /\ upRows \in Nat
    BY <1>1 DEF TypeInv, TypeOK
  <2>. QED  BY <1>1, <2>1, <2>2 DEF RowsNumbered
<1>5. /\ xact_head \in Slots
      /\ \A s \in Slots : /\ xact_list'[s].xid = xact_list[s].xid
                          /\ s # xact_head => xact_list'[s] = xact_list[s]
      /\ xact_list'[xact_head].pending = xact_list[xact_head].pending + 1
  BY <1>1, <1>2 DEF TypeInv, TypeOK
<1>6. \A s \in Slots :
        Outstanding(s)' \subseteq Outstanding(s) \cup (IF s = xact_head THEN {e} ELSE {})
  BY <1>2, <1>3 DEF Outstanding
<1>7. PendingCovers'
  <2> SUFFICES ASSUME NEW s \in Slots
               PROVE  Cardinality(Outstanding(s)') <= xact_list'[s].pending
    BY DEF PendingCovers
  <2>1. IsFiniteSet(Outstanding(s))
        /\ Cardinality(Outstanding(s)) <= xact_list[s].pending
        /\ xact_list[s].pending \in Int
    BY <1>1, OutstandingFinite DEF PendingCovers, TypeInv, TypeOK
  <2>2. CASE s = xact_head
    BY <1>5, <1>6, <2>1, <2>2, CardGrow
  <2>3. CASE s # xact_head
    BY <1>5, <1>6, <2>1, <2>3, CardShrink
  <2>. QED  BY <2>2, <2>3
<1>8. StaleDrained' /\ HeadDrained'
  BY <1>1, <1>2, <1>3, <1>5 DEF StaleDrained, HeadDrained, InRing, Pos,
                                Length, Empty
<1>9. HeadOpen'
  BY <1>1, <1>2, <1>5 DEF HeadOpen
<1>10. RetryFresh'
  BY <1>2, <1>3, <1>4 DEF RetryFresh, RowOf
<1>11. InflightProduced'
  BY <1>1, <1>2, <1>3 DEF InflightProduced
<1>14. RowsNumbered'
  <2> SUFFICES ASSUME NEW x \in produced'
               PROVE  x.txn < upTxn' \/ (upIn' /\ x.txn = upTxn' /\ x.row <= upRows')
    BY DEF RowsNumbered
  <2>1. upRows \in Nat
    BY <1>1 DEF TypeInv, TypeOK
  <2>2. CASE x \in produced
    <3>1. x.row \in Nat
      BY <1>1, <2>2 DEF TypeInv, TypeOK, RowId
    <3>. QED  BY <1>1, <1>2, <2>1, <2>2, <3>1 DEF RowsNumbered
  <2>3. CASE x = RowOf(e)
    BY <1>2, <2>1, <2>3 DEF RowOf
  <2>. QED  BY <1>2, <2>2, <2>3
<1>12. InflightSlotLive'
  <2> SUFFICES ASSUME NEW x \in inflight' PROVE xact_list'[x.slot].xid = XidOf(x.txn)
    BY DEF InflightSlotLive
  <2>1. CASE x = e
    BY <1>1, <1>2, <1>5, <2>1 DEF HeadOpen
  <2>2. CASE x \in inflight
    <3>1. x.slot \in Slots
      BY <1>1, <2>2 DEF TypeInv, TypeOK, Env
    <3>. QED  BY <1>1, <1>5, <2>2, <3>1 DEF InflightSlotLive
  <2>. QED  BY <1>3, <2>1, <2>2
<1>13. IsFiniteSet(inflight')
  <2>1. IsFiniteSet(inflight \cup {e})
    BY <1>1, FS_AddElement
  <2>2. inflight' \in SUBSET (inflight \cup {e})
    BY <1>3
  <2>. QED  BY <2>1, <2>2, FS_Subset
<1>. QED  BY <1>1, <1>7, <1>8, <1>9, <1>10, <1>11, <1>12, <1>13, <1>14
          DEF IInv, SlotAccounting, PendingCovers, StaleDrained, HeadDrained,
              HeadOpen, RetryFresh, InflightProduced, RowsNumbered

(***************************************************************************)
(* The retry of send_kafka_msg after back-pressure moves the waiting       *)
(* envelope into the queue, or drops it; it was counted in the head slot   *)
(* of the open transaction.                                                *)
(***************************************************************************)
LEMMA SendRetryIInv == IInv /\ SendRetry => IInv'
<1> SUFFICES ASSUME IInv, SendRetry PROVE IInv'
  OBVIOUS
<1>1. /\ TypeInv' /\ TypeInv /\ IsFiniteSet(inflight)
      /\ PendingCovers /\ StaleDrained /\ HeadDrained /\ HeadOpen
      /\ RetryFresh /\ InflightProduced /\ RowsNumbered /\ InflightSlotLive
  BY SendRetryTypeInv, SlotAccountingParts DEF IInv
<1>2. /\ pc = "send_bp"
      /\ UNCHANGED <<xact_list, xact_head, xact_tail, produced, upTxn, upIn, upRows>>
      /\ inflight' \subseteq inflight \cup {sendEnv}
      /\ pc' \in {"loop", "exited", "send_stale"}
  BY DEF SendRetry, SendFails, Enqueued, CallbackReturn, ExitNicely, ringVars,
         upVars
<1>3. \A s \in Slots : Outstanding(s)' \subseteq Outstanding(s)
  BY <1>2 DEF Outstanding
<1>4. PendingCovers'
  <2> SUFFICES ASSUME NEW s \in Slots
               PROVE  Cardinality(Outstanding(s)') <= xact_list'[s].pending
    BY DEF PendingCovers
  <2>1. IsFiniteSet(Outstanding(s))
        /\ Cardinality(Outstanding(s)) <= xact_list[s].pending
        /\ xact_list[s].pending \in Int
    BY <1>1, OutstandingFinite DEF PendingCovers, TypeInv, TypeOK
  <2>. QED  BY <1>2, <1>3, <2>1, CardShrink
<1>5. StaleDrained' /\ HeadDrained' /\ HeadOpen' /\ RetryFresh'
  BY <1>1, <1>2 DEF StaleDrained, HeadDrained, HeadOpen, RetryFresh, InRing,
                   Pos, Length, Empty
<1>6. InflightProduced' /\ RowsNumbered'
  BY <1>1, <1>2 DEF InflightProduced, RowsNumbered, RetryFresh
<1>7. InflightSlotLive'
  BY <1>1, <1>2 DEF InflightSlotLive, RetryFresh, HeadOpen
<1>8. IsFiniteSet(inflight')
  <2>1. IsFiniteSet(inflight \cup {sendEnv})
    BY <1>1, FS_AddElement
  <2>2. inflight' \in SUBSET (inflight \cup {sendEnv})
    BY <1>2
  <2>. QED  BY <2>1, <2>2, FS_Subset
<1>. QED  BY <1>1, <1>4, <1>5, <1>6, <1>7, <1>8
          DEF IInv, SlotAccounting, PendingCovers, StaleDrained, HeadDrained,
              HeadOpen, RetryFresh, InflightProduced, RowsNumbered

LEMMA NextIInv == IInv /\ [Next]_vars => IInv'
<1> SUFFICES ASSUME IInv, [Next]_vars PROVE IInv'
  OBVIOUS
<1>1. CASE OnBeginTxn
  BY <1>1, OnBeginTxnIInv
<1>2. CASE BeginResume
  BY <1>2, BeginResumeIInv
<1>3. CASE OnCommitTxn
  BY <1>3, OnCommitTxnIInv
<1>4. CASE \E r \in Rels : OnTableSchema(r)
  BY <1>4, OnTableSchemaIInv
<1>5. CASE \E r \in Rels : OnRowEvent(r)
  BY <1>5, OnRowEventIInv
<1>6. CASE \E r \in Rels : OnDeleteUnkeyed(r)
  BY <1>6, OnDeleteUnkeyedIInv
<1>7. CASE SendRetry
  BY <1>7, SendRetryIInv
<1>8. CASE StaleBackpressureDone
  BY <1>8, StaleBackpressureDoneIInv
<1>9. CASE \E e \in inflight, ok \in BOOLEAN : OnDeliverMsg(e, ok)
  BY <1>9, OnDeliverMsgIInv
<1>10. CASE OnClientError
  BY <1>10, OnClientErrorIInv
<1>11. CASE ShutdownSignal
  BY <1>11, ShutdownSignalIInv
<1>12. CASE ShutdownExit
  BY <1>12, ShutdownExitIInv
<1>13. CASE Terminated \/ UNCHANGED vars
  BY <1>13, StutterIInv
<1>. QED
  BY <1>1, <1>2, <1>3, <1>4, <1>5, <1>6, <1>7, <1>8, <1>9, <1>10, <1>11,
     <1>12, <1>13 DEF Next

-----------------------------------------------------------------------------
(***************************************************************************)
(* The accounting of the transaction buffer holds in every reachable state *)
(* for every buffer length, queue capacity and error policy: each slot     *)
(* counts at least the envelopes that point at it (on_begin_txn,           *)
(* send_kafka_msg, on_deliver_msg), the slots outside the buffer are       *)
(* drained (maybe_checkpoint), and the head slot belongs to the open       *)
(* transaction.                                                            *)
(***************************************************************************)
THEOREM SlotAccountingHolds == Spec => []SlotAccounting
<1>1. Init => IInv
  BY InitIInv
<1>2. IInv /\ [Next]_vars => IInv'
  BY NextIInv
<1>3. IInv => SlotAccounting
  BY DEF IInv
<1>. QED
  BY <1>1, <1>2, <1>3, PTL DEF Spec

(***************************************************************************)
(* No slot is reused while an envelope points at it (on_begin_txn claims   *)
(* the slot after the head only when no delivery report is outstanding    *)
(* for it; on_deliver_msg indexes xact_list by envelope->xact_id): every   *)
(* envelope with librdkafka refers to the slot holding its own             *)
(* transaction, whatever the size of the buffer and of the queue.          *)
(***************************************************************************)
THEOREM InflightSlotLiveHolds == Spec => []InflightSlotLive
<1>1. IInv => InflightSlotLive
  BY SlotAccountingParts DEF IInv
<1>. QED
  BY <1>1, InitIInv, NextIInv, PTL DEF Spec
=============================================================================
