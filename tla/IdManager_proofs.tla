-------------------------- MODULE IdManager_proofs --------------------------
(***************************************************************************)
(* Proofs about the ring of IdManager, for a ring of any size and any set  *)
(* of tracks.  The first lemmas say what the ways of moving the ring's     *)
(* indices do to the queue (Pending) it represents; everything after them  *)
(* argues about the queue and no longer about indices.                     *)
(***************************************************************************)
EXTENDS IdManager, SequenceTheorems, TLAPS

USE DEF Indices, StreamIds, NullStream

(* The part of the type invariant that does not mention the queue. *)
RingOK == /\ iActiveStreams \in [Indices -> ActiveStream]
          /\ iIndexHead \in Indices
          /\ iIndexTail \in Indices

(* The live part of the ring is shorter than the ring, and its offsets map *)
(* to slots.                                                               *)
LEMMA RingShape ==
    ASSUME RingOK
    PROVE  /\ Occupancy \in 0 .. MaxActiveStreams - 1
           /\ \A k \in 0 .. MaxActiveStreams : UpdateIndex(iIndexHead, k) \in Indices
           /\ UpdateIndex(iIndexTail, 1) \in Indices
           /\ \A k \in 0 .. MaxActiveStreams - 1 : At(k) \in ActiveStream
           /\ UpdateIndex(iIndexHead, Occupancy) = iIndexTail
           /\ Pending = [k \in 1 .. Occupancy |-> At(k - 1)]
  BY RingAssumption DEF RingOK, Occupancy, UpdateIndex, At, Pending

(* Advancing the head drops the oldest entries. *)
LEMMA AdvanceHeadDrops ==
    ASSUME RingOK, NEW e \in 0 .. Occupancy, AdvanceHead(e)
    PROVE  /\ RingOK'
           /\ Pending' = [k \in 1 .. Occupancy - e |-> Pending[k + e]]
<1>1. /\ iIndexHead' \in Indices
      /\ Occupancy' = Occupancy - e
  BY RingAssumption DEF RingOK, Occupancy, UpdateIndex, AdvanceHead
<1>2. ASSUME NEW k \in 1 .. Occupancy - e
      PROVE  UpdateIndex(iIndexHead', k - 1) = UpdateIndex(iIndexHead, k + e - 1)
  BY RingAssumption DEF RingOK, Occupancy, UpdateIndex, AdvanceHead
<1>3. ASSUME NEW k \in 1 .. Occupancy - e
      PROVE  iActiveStreams'[UpdateIndex(iIndexHead', k - 1)] = Pending[k + e]
  BY <1>2, RingShape, k + e \in 1 .. Occupancy DEF At, AdvanceHead, Pending
<1>4. Pending' = [k \in 1 .. Occupancy - e |-> Pending[k + e]]
  BY <1>1, <1>3 DEF Pending, At
<1>5. QED
  BY <1>1, <1>4 DEF RingOK, AdvanceHead

(* Moving the tail back keeps the oldest entries. *)
LEMMA CutAtKeeps ==
    ASSUME RingOK, NEW e \in 0 .. Occupancy, CutAt(e)
    PROVE  /\ RingOK'
           /\ Pending' = [k \in 1 .. e |-> Pending[k]]
<1>1. /\ iIndexTail' \in Indices
      /\ Occupancy' = e
  BY RingAssumption DEF RingOK, Occupancy, UpdateIndex, CutAt
<1>2. \A k \in 1 .. e : Pending[k] = iActiveStreams'[UpdateIndex(iIndexHead', k - 1)]
  BY RingShape DEF Pending, At, CutAt
<1>3. QED
  BY <1>1, <1>2 DEF Pending, At, CutAt, RingOK

(* Shuffling down removes the entries f+1 .. e of the queue and keeps the  *)
(* others in their order.                                                  *)
LEMMA ShuffleDownRemoves ==
    ASSUME RingOK, NEW e \in 0 .. Occupancy, NEW f \in 0 .. e, ShuffleDown(f, e)
    PROVE  /\ RingOK'
           /\ Pending' = [k \in 1 .. Occupancy - (e - f) |->
                            IF k <= f THEN Pending[k] ELSE Pending[k + (e - f)]]
<1> DEFINE offset(i) == IF i >= iIndexHead THEN i - iIndexHead
                        ELSE i + MaxActiveStreams - iIndexHead
<1>0. /\ Occupancy \in 0 .. MaxActiveStreams - 1
      /\ \A k \in 0 .. MaxActiveStreams - 1 : At(k) \in ActiveStream
  BY RingShape
<1>1. /\ iIndexTail' \in Indices
      /\ iIndexHead' = iIndexHead
      /\ Occupancy' = Occupancy - (e - f)
  BY RingShape, RingAssumption DEF RingOK, Occupancy, UpdateIndex, ShuffleDown
<1>2. \A i \in Indices : offset(i) \in 0 .. MaxActiveStreams - 1
  BY RingAssumption DEF RingOK
<1>3. ASSUME NEW i \in Indices
      PROVE  iActiveStreams'[i] = IF f <= offset(i) /\ offset(i) < Occupancy - (e - f)
                                  THEN At(offset(i) + (e - f)) ELSE iActiveStreams[i]
  BY DEF ShuffleDown
<1>4. iActiveStreams' \in [Indices -> ActiveStream]
  <2>1. ASSUME NEW i \in Indices,
               f <= offset(i), offset(i) < Occupancy - (e - f)
        PROVE  At(offset(i) + (e - f)) \in ActiveStream
    <3> HIDE DEF offset
    <3>1. offset(i) + (e - f) \in 0 .. MaxActiveStreams - 1
      BY <1>0, <1>2, <2>1, RingAssumption
    <3>2. QED
      BY <1>0, <3>1
  <2>2. QED
    BY <2>1 DEF ShuffleDown, RingOK
<1>5. ASSUME NEW k \in 1 .. Occupancy - (e - f)
      PROVE  iActiveStreams'[UpdateIndex(iIndexHead, k - 1)] =
               IF k <= f THEN Pending[k] ELSE Pending[k + (e - f)]
  <2> DEFINE i == UpdateIndex(iIndexHead, k - 1)
  <2>1. i \in Indices /\ offset(i) = k - 1
    BY RingShape, RingAssumption DEF RingOK, UpdateIndex
  <2>2. iActiveStreams'[i] = IF f <= k - 1 THEN At(k - 1 + (e - f)) ELSE iActiveStreams[i]
    BY <1>0, <1>3, <2>1
  <2>3. At(k - 1) = iActiveStreams[i]
    BY DEF At
  <2>4. k \in 1 .. Occupancy /\ Pending[k] = At(k - 1)
    BY <1>0 DEF Pending
  <2>5. k > f => Pending[k + (e - f)] = At(k - 1 + (e - f))
    <3>1. k > f => k + (e - f) \in 1 .. Occupancy /\ k + (e - f) - 1 = k - 1 + (e - f)
      BY <1>0
    <3>2. QED
      BY <3>1 DEF Pending
  <2>6. QED
    BY <2>2, <2>3, <2>4, <2>5
<1>6. Pending' = [k \in 1 .. Occupancy - (e - f) |->
                    IF k <= f THEN Pending[k] ELSE Pending[k + (e - f)]]
  BY <1>1, <1>5 DEF Pending, At
<1>7. QED
  BY <1>1, <1>4, <1>6 DEF RingOK

(* A new stream joins the queue at its young end. *)
LEMMA AddStreamAppends ==
    ASSUME RingOK, NEW id \in Tracks, NEW s \in StreamIds, NEW now \in BOOLEAN,
           AddStream(id, s, now)
    PROVE  /\ RingOK'
           /\ Pending' = [k \in 1 .. Occupancy + 1 |->
                            IF k <= Occupancy THEN Pending[k]
                            ELSE [id |-> id, streamId |-> s, playNow |-> now]]
<1>1. /\ iIndexTail' \in Indices
      /\ Occupancy' = Occupancy + 1
  BY RingAssumption DEF RingOK, Occupancy, UpdateIndex, AddStream
<1>2. iActiveStreams' \in [Indices -> ActiveStream]
  BY DEF RingOK, AddStream, ActiveStream
<1>3. ASSUME NEW k \in 1 .. Occupancy + 1
      PROVE  (UpdateIndex(iIndexHead, k - 1) = iIndexTail) <=> (k = Occupancy + 1)
  BY RingAssumption DEF RingOK, Occupancy, UpdateIndex
<1>4. ASSUME NEW k \in 1 .. Occupancy + 1
      PROVE  iActiveStreams'[UpdateIndex(iIndexHead, k - 1)] =
               IF k <= Occupancy THEN Pending[k]
               ELSE [id |-> id, streamId |-> s, playNow |-> now]
  <2>1. k <= Occupancy => Pending[k] = iActiveStreams[UpdateIndex(iIndexHead, k - 1)]
    BY RingShape DEF At, Pending
  <2>2. UpdateIndex(iIndexHead, k - 1) \in Indices
    BY RingShape, RingAssumption
  <2>3. QED
    BY <1>3, <2>1, <2>2, RingShape DEF AddStream, RingOK
<1>5. Pending' = [k \in 1 .. Occupancy + 1 |->
                    IF k <= Occupancy THEN Pending[k]
                    ELSE [id |-> id, streamId |-> s, playNow |-> now]]
  BY <1>1, <1>4 DEF Pending, At, AddStream
<1>6. QED
  BY <1>1, <1>2, <1>5 DEF RingOK, AddStream

-----------------------------------------------------------------------------
(* The invariant: the ring is well formed, the queue is in order and the   *)
(* stream that plays is one that was announced.                            *)
IInv == /\ TypeOK
        /\ GrantsInOrder
        /\ iPlaying.streamId <= lastAnnounced

(* TypeOK and the ring, as the lemmas above and below use them. *)
LEMMA TypeOKParts ==
    ASSUME TypeOK
    PROVE  /\ RingOK
           /\ Occupancy \in Nat
           /\ Pending = [k \in 1 .. Occupancy |-> Pending[k]]
           /\ \A k \in 1 .. Occupancy : Pending[k] \in Announced
           /\ \A k \in 1 .. Occupancy : Pending[k].streamId \in Nat
<1>1. RingOK
  BY DEF TypeOK, RingOK
<1>2. Occupancy \in Nat /\ DOMAIN Pending = 1 .. Occupancy
  BY <1>1, RingShape, RingAssumption
<1>3. Pending = [k \in 1 .. Occupancy |-> Pending[k]]
  BY <1>2 DEF Pending
<1>4. ASSUME NEW k \in 1 .. Occupancy PROVE Pending[k] \in Announced
  BY <1>2 DEF TypeOK
<1>5. \A k \in 1 .. Occupancy : Pending[k].streamId \in Nat
  BY <1>4, IdAssumption DEF Announced
<1>6. QED
  BY <1>1, <1>2, <1>3, <1>4, <1>5

(* A queue made of old entries in their old order, whose stream ids are    *)
(* still younger than what plays, keeps the invariant.                     *)
LEMMA SubqueueIInv ==
    ASSUME IInv, RingOK', NEW n \in Nat, NEW from \in [1 .. n -> 1 .. Occupancy],
           \A j, k \in 1 .. n : j < k => from[j] < from[k],
           Pending' = [k \in 1 .. n |-> Pending[from[k]]],
           \/ iPlaying' = iPlaying \/ iPlaying' = Cleared
           \/ /\ Occupancy > 0 /\ iPlaying' = Pending[1]
              /\ \A k \in 1 .. n : from[k] > 1,
           UNCHANGED <<iNextStreamId, lastAnnounced>>
    PROVE  IInv'
<1>0. DOMAIN Pending = 1 .. Occupancy /\ DOMAIN Pending' = 1 .. n
  BY TypeOKParts DEF IInv
<1>1. iPlaying' \in ActiveStream
  <2>1. Cleared \in ActiveStream /\ Announced \subseteq ActiveStream
    BY IdAssumption DEF Announced, ActiveStream, Cleared
  <2>2. Occupancy > 0 => Pending[1] \in Announced
    BY TypeOKParts DEF IInv
  <2>3. QED
    BY <2>1, <2>2 DEF IInv, TypeOK
<1>2. Pending' \in Seq(Announced)
  <2>1. Pending' \in [1 .. n -> Announced]
    BY TypeOKParts DEF IInv
  <2>2. QED
    BY <2>1, SeqDef
<1>3. TypeOK'
  BY <1>1, <1>2 DEF IInv, TypeOK, RingOK
<1>4. (iPlaying.streamId <= lastAnnounced)'
  BY <1>0, IdAssumption, TypeOKParts DEF IInv, TypeOK, Cleared, GrantsInOrder, InOrder
<1>5. \A k \in 1 .. n : /\ Pending[from[k]].streamId <= lastAnnounced
                        /\ Pending[from[k]].streamId # 0 =>
                             iPlaying'.streamId < Pending[from[k]].streamId
  <2> TAKE k \in 1 .. n
  <2>1. from[k] \in 1 .. Occupancy /\ Pending[from[k]].streamId \in Nat
    BY TypeOKParts DEF IInv
  <2>2. CASE iPlaying' = iPlaying
    BY <1>0, <2>1, <2>2 DEF IInv, GrantsInOrder, InOrder
  <2>3. CASE iPlaying' = Cleared
    BY <1>0, <2>1, <2>3 DEF IInv, GrantsInOrder, InOrder, Cleared
  <2>4. CASE Occupancy > 0 /\ iPlaying' = Pending[1] /\ from[k] > 1
    BY <1>0, <2>1, <2>4, TypeOKParts DEF IInv, GrantsInOrder, InOrder
  <2>5. QED
    BY <2>2, <2>3, <2>4
<1>6. \A j, k \in 1 .. n : j < k /\ Pending[from[k]].streamId # 0 =>
                              Pending[from[j]].streamId < Pending[from[k]].streamId
  BY <1>0 DEF IInv, GrantsInOrder, InOrder
<1>7. GrantsInOrder'
  BY <1>0, <1>5, <1>6 DEF GrantsInOrder, InOrder
<1>8. QED
  BY <1>3, <1>4, <1>7 DEF IInv

LEMMA InitIInv == Init => IInv
<1> SUFFICES ASSUME Init PROVE IInv
  OBVIOUS
<1>1. RingOK /\ Occupancy = 0 /\ Pending = <<>>
  BY RingAssumption, IdAssumption
     DEF Init, RingOK, Occupancy, Pending, ActiveStream, Cleared
<1>2. QED
  BY <1>1, IdAssumption
     DEF Init, IInv, TypeOK, RingOK, GrantsInOrder, InOrder, ActiveStream, Cleared

(* Streams leave the queue from its old end; either nothing is granted or  *)
(* the oldest stream is.                                                   *)
LEMMA AdvanceHeadIInv ==
    ASSUME IInv, NEW e \in 0 .. Occupancy, AdvanceHead(e),
           \/ iPlaying' = iPlaying \/ iPlaying' = Cleared
           \/ e = 1 /\ iPlaying' = Pending[1],
           UNCHANGED <<iNextStreamId, lastAnnounced>>
    PROVE  IInv'
<1> DEFINE n == Occupancy - e
           from == [k \in 1 .. n |-> k + e]
<1>1. RingOK /\ Occupancy \in Nat /\ n \in Nat
  BY TypeOKParts DEF IInv
<1>2. RingOK' /\ Pending' = [k \in 1 .. n |-> Pending[from[k]]]
  BY <1>1, AdvanceHeadDrops
<1>3. /\ from \in [1 .. n -> 1 .. Occupancy]
      /\ \A j, k \in 1 .. n : j < k => from[j] < from[k]
      /\ e = 1 => Occupancy > 0 /\ \A k \in 1 .. n : from[k] > 1
  BY <1>1
<1> HIDE DEF n, from
<1>4. QED
  BY <1>1, <1>2, <1>3, SubqueueIInv

LEMMA CutAtIInv ==
    ASSUME IInv, NEW e \in 0 .. Occupancy, CutAt(e),
           iPlaying' = iPlaying \/ iPlaying' = Cleared,
           UNCHANGED <<iNextStreamId, lastAnnounced>>
    PROVE  IInv'
<1> DEFINE from == [k \in 1 .. e |-> k]
<1>1. RingOK /\ Occupancy \in Nat
  BY TypeOKParts DEF IInv
<1>2. RingOK' /\ Pending' = [k \in 1 .. e |-> Pending[from[k]]]
  BY <1>1, CutAtKeeps
<1>3. /\ from \in [1 .. e -> 1 .. Occupancy]
      /\ \A j, k \in 1 .. e : j < k => from[j] < from[k]
  BY <1>1
<1> HIDE DEF from
<1>4. QED
  BY SMTT(20), <1>1, <1>2, <1>3, SubqueueIInv

LEMMA ShuffleDownIInv ==
    ASSUME IInv, NEW e \in 0 .. Occupancy, NEW f \in 0 .. e, ShuffleDown(f, e),
           UNCHANGED <<iPlaying, iNextStreamId, lastAnnounced>>
    PROVE  IInv'
<1> DEFINE n == Occupancy - (e - f)
           from == [k \in 1 .. n |-> IF k <= f THEN k ELSE k + (e - f)]
<1>1. RingOK /\ Occupancy \in Nat /\ n \in Nat
  BY TypeOKParts DEF IInv
<1>2. RingOK' /\ Pending' = [k \in 1 .. n |-> Pending[from[k]]]
  BY <1>1, ShuffleDownRemoves
<1>3. /\ from \in [1 .. n -> 1 .. Occupancy]
      /\ \A j, k \in 1 .. n : j < k => from[j] < from[k]
  BY <1>1
<1> HIDE DEF n, from
<1>4. QED
  BY <1>1, <1>2, <1>3, SubqueueIInv

(* Steps that leave the queue and what is playing alone. *)
LEMMA UnchangedIInv ==
    ASSUME IInv, ring' = ring, iPlaying' = iPlaying, lastAnnounced' = lastAnnounced,
           \/ iNextStreamId' = iNextStreamId
           \/ iNextStreamId < MaxStreamId /\ iNextStreamId' = iNextStreamId + 1
    PROVE  IInv'
<1>1. Pending' = Pending
  BY DEF ring, Pending, Occupancy, At
<1>2. QED
  BY <1>1, IdAssumption DEF IInv, TypeOK, GrantsInOrder, InOrder, ring

LEMMA AddStreamIInv ==
    ASSUME IInv, NEW id \in Tracks, NEW s \in StreamIds, NEW now \in BOOLEAN,
           AddStream(id, s, now)
    PROVE  IInv'
<1> DEFINE new == [id |-> id, streamId |-> s, playNow |-> now]
           n == Occupancy + 1
<1>1. /\ RingOK /\ Occupancy \in Nat /\ DOMAIN Pending = 1 .. Occupancy
      /\ new \in Announced
      /\ lastAnnounced \in Nat /\ lastAnnounced' \in 0 .. iNextStreamId - 1
      /\ lastAnnounced <= lastAnnounced' /\ s <= lastAnnounced'
      /\ s # 0 => lastAnnounced < s
  BY TypeOKParts, IdAssumption DEF IInv, Announced, TypeOK, AddStream
<1>2. RingOK' /\ Pending' = [k \in 1 .. n |-> IF k <= Occupancy THEN Pending[k] ELSE new]
  BY <1>1, AddStreamAppends
<1>3. Pending' \in Seq(Announced)
  <2>1. Pending' \in [1 .. n -> Announced]
    BY <1>1, <1>2, TypeOKParts DEF IInv
  <2>2. QED
    BY <1>1, <2>1, SeqDef
<1>4. TypeOK'
  BY <1>1, <1>2, <1>3 DEF IInv, TypeOK, RingOK, AddStream
<1>5. iPlaying' = iPlaying /\ iPlaying.streamId \in Nat
  BY IdAssumption DEF AddStream, IInv, TypeOK, ActiveStream
<1>6. (iPlaying.streamId <= lastAnnounced)'
  BY <1>1, <1>5 DEF IInv
<1>7. \A k \in 1 .. n : /\ Pending'[k].streamId <= lastAnnounced'
                        /\ Pending'[k].streamId # 0 => iPlaying'.streamId < Pending'[k].streamId
  BY <1>1, <1>2, <1>5, TypeOKParts, IdAssumption DEF IInv, GrantsInOrder, InOrder
<1>8. ASSUME NEW j \in 1 .. n, NEW k \in 1 .. n, j < k, Pending'[k].streamId # 0
      PROVE  Pending'[j].streamId < Pending'[k].streamId
  <2>1. CASE k <= Occupancy
    BY <1>1, <1>2, <1>8, <2>1 DEF IInv, GrantsInOrder, InOrder
  <2>2. CASE k = n
    <3>1. j \in 1 .. Occupancy /\ Pending'[j] = Pending[j] /\ Pending'[k] = new
      BY <1>1, <1>2, <1>8, <2>2
    <3>2. Pending[j].streamId <= lastAnnounced /\ Pending[j].streamId \in Nat
      BY <1>1, <3>1, TypeOKParts DEF IInv, GrantsInOrder, InOrder
    <3>3. QED
      BY <1>1, <1>8, <3>1, <3>2, IdAssumption
  <2>3. QED
    BY <1>1, <2>1, <2>2
<1>9. GrantsInOrder'
  BY <1>1, <1>2, <1>7, <1>8 DEF GrantsInOrder, InOrder
<1>10. QED
  BY <1>4, <1>6, <1>9 DEF IInv

LEMMA NextIInv == IInv /\ [Next]_vars => IInv'
<1> SUFFICES ASSUME IInv, [Next]_vars PROVE IInv'
  OBVIOUS
<1>0. Occupancy \in Nat /\ (Occupancy > 0 => Pending[1] = At(0))
  BY TypeOKParts DEF IInv, Pending
<1>1. CASE NextStreamId
  BY <1>1, UnchangedIInv DEF NextStreamId
<1>2. CASE \E id \in Tracks, s \in StreamIds, now \in BOOLEAN : AddStream(id, s, now)
  BY <1>2, AddStreamIInv
<1>3. CASE \E s \in StreamIds : OkToPlay(s)
  <2> PICK s \in StreamIds : OkToPlay(s)
    BY <1>3
  <2>1. CASE Occupancy > 0 /\ iPlaying' = At(0) /\ AdvanceHead(1)
              /\ UNCHANGED <<iNextStreamId, lastAnnounced>>
    BY <1>0, <2>1, AdvanceHeadIInv
  <2>2. CASE UNCHANGED <<ring, iPlaying, iNextStreamId, lastAnnounced>>
    BY <2>2, UnchangedIInv
  <2>3. QED
    BY <2>1, <2>2 DEF OkToPlay, AdvanceHead
<1>4. CASE \E id \in Tracks : InvalidateAt(id)
  <2> PICK id \in Tracks : InvalidateAt(id)
    BY <1>4
  <2> PICK e \in 0 .. Occupancy :
        \/ AdvanceHead(e) /\ (iPlaying' = Cleared \/ iPlaying' = iPlaying)
        \/ UNCHANGED iPlaying /\ \E f \in 1 .. e : ShuffleDown(f, e)
        \/ UNCHANGED <<ring, iPlaying>>
    BY DEF InvalidateAt
  <2>1. UNCHANGED <<iNextStreamId, lastAnnounced>>
    BY DEF InvalidateAt
  <2>2. CASE AdvanceHead(e) /\ (iPlaying' = Cleared \/ iPlaying' = iPlaying)
    BY <2>1, <2>2, AdvanceHeadIInv
  <2>3. CASE UNCHANGED iPlaying /\ \E f \in 1 .. e : ShuffleDown(f, e)
    BY <2>1, <2>3, ShuffleDownIInv
  <2>4. CASE UNCHANGED <<ring, iPlaying>>
    BY <2>1, <2>4, UnchangedIInv
  <2>5. QED
    BY <2>2, <2>3, <2>4
<1>5. CASE \E id \in Tracks : InvalidateAfter(id)
  <2>1. UNCHANGED <<iPlaying, iNextStreamId, lastAnnounced>>
    BY <1>5 DEF InvalidateAfter
  <2>2. (\E e \in 0 .. Occupancy : CutAt(e)) \/ UNCHANGED ring
    BY <1>5 DEF InvalidateAfter
  <2>3. QED
    BY <2>1, <2>2, CutAtIInv, UnchangedIInv
<1>6. CASE InvalidatePending \/ InvalidateAll
  <2>1. 0 \in 0 .. Occupancy
    BY <1>0
  <2>2. QED
    BY <1>6, <2>1, CutAtIInv DEF InvalidatePending, InvalidateAll
<1>7. CASE UNCHANGED vars
  <2>1. /\ ring' = ring /\ iPlaying' = iPlaying /\ lastAnnounced' = lastAnnounced
        /\ iNextStreamId' = iNextStreamId
    BY <1>7 DEF vars, ring
  <2>2. QED
    BY <2>1, UnchangedIInv
<1>8. QED
  BY <1>1, <1>2, <1>3, <1>4, <1>5, <1>6, <1>7 DEF Next

LEMMA Invariance == Spec => []IInv
  BY InitIInv, NextIInv, PTL DEF Spec

(* The indices stay inside the array and the live part of the ring only    *)
(* ever holds streams that were announced, for a ring of any size.         *)
THEOREM TypeCorrect == Spec => []TypeOK
<1>1. IInv => TypeOK
  BY DEF IInv
<1>2. QED
  BY <1>1, Invariance, PTL

(* No stream is granted twice, out of turn, or after it was invalidated:   *)
(* what waits is in order of announcement and younger than what plays.     *)
THEOREM GrantsAlwaysInOrder == Spec => []GrantsInOrder
<1>1. IInv => GrantsInOrder
  BY DEF IInv
<1>2. QED
  BY <1>1, Invariance, PTL

-----------------------------------------------------------------------------
(* The ring implements the queue. *)

(* The queue as a sequence, with its entries as the ring's offsets. *)
LEMMA QueueShape ==
    ASSUME TypeOK
    PROVE  /\ RingOK
           /\ Occupancy \in Nat
           /\ Pending \in Seq(Announced)
           /\ Len(Pending) = Occupancy
           /\ DOMAIN Pending = 1 .. Occupancy
           /\ \A k \in 0 .. Occupancy - 1 : Pending[k + 1] = At(k)
<1>1. RingOK /\ Occupancy \in Nat /\ Pending \in Seq(Announced)
  BY TypeOKParts DEF TypeOK
<1>2. DOMAIN Pending = 1 .. Occupancy
  BY DEF Pending
<1>3. \A k \in 0 .. Occupancy - 1 : Pending[k + 1] = At(k)
  BY <1>1 DEF Pending
<1>4. QED
  BY <1>1, <1>2, <1>3

LEMMA AddStreamAnnounces ==
    ASSUME TypeOK, TypeOK', NEW id \in Tracks, NEW s \in StreamIds, NEW now \in BOOLEAN,
           AddStream(id, s, now)
    PROVE  \E new \in Announced : Grants!Announce(new)
<1> DEFINE new == [id |-> id, streamId |-> s, playNow |-> now]
<1>1. new \in Announced
  BY DEF Announced
<1>2. Pending' = [k \in 1 .. Occupancy + 1 |-> IF k <= Occupancy THEN Pending[k] ELSE new]
  BY QueueShape, AddStreamAppends
<1>3. Len(Pending') = Occupancy + 1 /\ Pending' \in Seq(Announced)
  BY <1>2, QueueShape DEF TypeOK
<1>4. Pending' = Append(Pending, new)
  <2> DEFINE q == Append(Pending, new)
  <2>1. /\ q \in Seq(Announced) /\ Len(q) = Occupancy + 1
        /\ \A k \in 1 .. Occupancy + 1 : q[k] = IF k <= Occupancy THEN Pending[k] ELSE new
    BY <1>1, QueueShape, AppendProperties
  <2> HIDE DEF q, new
  <2>2. \A k \in 1 .. Len(Pending') : Pending'[k] = q[k]
    BY <1>2, <1>3, <2>1
  <2>3. Pending' = q
    BY <1>3, <2>1, <2>2, SeqEqual
  <2>4. QED
    BY <2>3 DEF q, new
<1>5. QED
  BY <1>1, <1>4 DEF AddStream, Grants!Announce

LEMMA AdvanceHeadGrants ==
    ASSUME TypeOK, TypeOK', Occupancy > 0, AdvanceHead(1), iPlaying' = At(0)
    PROVE  Grants!Grant
<1>1. /\ Pending \in Seq(Announced) /\ Pending # <<>>
      /\ Occupancy \in Nat /\ Len(Pending) = Occupancy /\ Pending[1] = At(0)
  BY QueueShape
<1>2. Pending' = [k \in 1 .. Occupancy - 1 |-> Pending[k + 1]]
  BY <1>1, QueueShape, AdvanceHeadDrops
<1>3. Len(Pending') = Occupancy - 1 /\ Pending' \in Seq(Announced)
  BY <1>1, <1>2 DEF TypeOK
<1>4. /\ Tail(Pending) \in Seq(Announced) /\ Len(Tail(Pending)) = Occupancy - 1
      /\ \A k \in 1 .. Occupancy - 1 : Tail(Pending)[k] = Pending[k + 1]
  BY <1>1, HeadTailProperties
<1>5. \A k \in 1 .. Len(Pending') : Pending'[k] = Tail(Pending)[k]
  BY <1>1, <1>2, <1>3, <1>4
<1>6. Pending' = Tail(Pending)
  BY <1>3, <1>4, <1>5, SeqEqual
<1>7. Head(Pending) = Pending[1]
  BY <1>1
<1>8. QED
  BY <1>1, <1>6, <1>7 DEF Grants!Grant

LEMMA CutAtDropsSuffix ==
    ASSUME TypeOK, TypeOK', NEW e \in 0 .. Occupancy, CutAt(e)
    PROVE  /\ e \in 0 .. Len(Pending)
           /\ Pending' = SubSeq(Pending, 1, e)
           /\ e = 0 => Pending' = <<>>
<1>1. Pending \in Seq(Announced) /\ Occupancy \in Nat /\ Len(Pending) = Occupancy
  BY QueueShape
<1>2. Pending' = [k \in 1 .. e |-> Pending[k]]
  BY QueueShape, CutAtKeeps
<1>3. Len(Pending') = e /\ Pending' \in Seq(Announced)
  BY <1>1, <1>2 DEF TypeOK
<1>4. /\ SubSeq(Pending, 1, e) \in Seq(Announced) /\ Len(SubSeq(Pending, 1, e)) = e
      /\ \A k \in 1 .. e : SubSeq(Pending, 1, e)[k] = Pending[k]
  BY <1>1, SubSeqProperties
<1>5. \A k \in 1 .. Len(Pending') : Pending'[k] = SubSeq(Pending, 1, e)[k]
  BY <1>2, <1>3, <1>4
<1>6. Pending' = SubSeq(Pending, 1, e)
  BY <1>3, <1>4, <1>5, SeqEqual
<1>7. QED
  BY <1>1, <1>2, <1>6

(* The end of a run in the ring is the end of a block in the queue. *)
LEMMA RunIsBlock ==
    ASSUME TypeOK, NEW id, NEW f \in 0 .. Occupancy, NEW e \in 0 .. Occupancy,
           IsRunEnd(id, f, e)
    PROVE  /\ f + 1 \in 1 .. Len(Pending) + 1 /\ e + 1 \in 1 .. Len(Pending) + 1
           /\ Grants!IsBlock(id, f + 1, e + 1)
<1>1. /\ Occupancy \in Nat /\ Len(Pending) = Occupancy /\ DOMAIN Pending = 1 .. Occupancy
      /\ \A k \in 0 .. Occupancy - 1 : Pending[k + 1] = At(k)
  BY QueueShape
<1>2. e \in f .. Occupancy /\ (e = Occupancy \/ At(e).id # id)
  BY DEF IsRunEnd
<1>3. ASSUME NEW j \in f + 1 .. e PROVE Pending[j].id = id
  <2>1. j - 1 \in f .. e - 1 /\ j - 1 \in 0 .. Occupancy - 1 /\ (j - 1) + 1 = j
    BY <1>1, <1>2
  <2>2. QED
    BY <1>1, <2>1 DEF IsRunEnd
<1>4. e + 1 \in DOMAIN Pending => Pending[e + 1].id # id
  BY <1>1, <1>2
<1>5. QED
  BY <1>1, <1>2, <1>3, <1>4 DEF Grants!IsBlock

LEMMA InvalidateAtDropsTrack ==
    ASSUME TypeOK, TypeOK', NEW id \in Tracks, InvalidateAt(id)
    PROVE  Grants!DropTrack(id) \/ UNCHANGED <<Pending, iPlaying>>
<1>1. /\ RingOK /\ Occupancy \in Nat /\ Len(Pending) = Occupancy
      /\ DOMAIN Pending = 1 .. Occupancy
      /\ \A k \in 0 .. Occupancy - 1 : Pending[k + 1] = At(k)
  BY QueueShape
<1>2. ASSUME NEW e \in 0 .. Occupancy, IsRunEnd(id, 0, e), AdvanceHead(e)
      PROVE  /\ 1 \in 1 .. Len(Pending) + 1 /\ e + 1 \in 1 .. Len(Pending) + 1
             /\ Grants!IsBlock(id, 1, e + 1)
             /\ Pending' = Grants!Without(1, e + 1)
  <2>1. Pending' = [k \in 1 .. Occupancy - e |-> Pending[k + e]]
    BY <1>1, <1>2, AdvanceHeadDrops
  <2>2. Grants!Without(1, e + 1) = [k \in 1 .. Occupancy - e |-> Pending[k + e]]
    BY <1>1 DEF Grants!Without
  <2>3. Grants!IsBlock(id, 0 + 1, e + 1) /\ e + 1 \in 1 .. Len(Pending) + 1
    BY <1>1, <1>2, RunIsBlock
  <2>4. QED
    BY <1>1, <2>1, <2>2, <2>3
<1>3. ASSUME NEW f \in 0 .. Occupancy, IsFirst(id, f)
      PROVE  Grants!IsFirstOf(id, f + 1)
  <2>1. f + 1 \in DOMAIN Pending /\ Pending[f + 1].id = id
    BY <1>1, <1>3 DEF IsFirst
  <2>2. ASSUME NEW j \in 1 .. f PROVE Pending[j].id # id
    <3>1. j - 1 \in 0 .. f - 1 /\ j - 1 \in 0 .. Occupancy - 1 /\ (j - 1) + 1 = j
      BY <1>1
    <3>2. QED
      BY <1>1, <1>3, <3>1 DEF IsFirst
  <2>3. QED
    BY <1>1, <2>1, <2>2 DEF Grants!IsFirstOf
<1>4. PICK e \in 0 .. Occupancy :
        \/ iPlaying.id = id /\ iPlaying' = Cleared /\ IsRunEnd(id, 0, e) /\ AdvanceHead(e)
        \/ /\ iPlaying.id # id /\ iPlaying' = iPlaying
           /\ \/ IsFirst(id, 0) /\ IsRunEnd(id, 0, e) /\ AdvanceHead(e)
              \/ \E f \in 1 .. e : IsFirst(id, f) /\ IsRunEnd(id, f, e) /\ ShuffleDown(f, e)
              \/ UNCHANGED ring
  BY DEF InvalidateAt
<1>5. CASE iPlaying.id = id /\ iPlaying' = Cleared /\ IsRunEnd(id, 0, e) /\ AdvanceHead(e)
  BY <1>2, <1>5 DEF Grants!DropTrack
<1>6. CASE /\ iPlaying.id # id /\ iPlaying' = iPlaying
           /\ IsFirst(id, 0) /\ IsRunEnd(id, 0, e) /\ AdvanceHead(e)
  <2>1. Grants!IsFirstOf(id, 0 + 1)
    BY <1>1, <1>3, <1>6
  <2>2. QED
    BY <1>2, <1>6, <2>1 DEF Grants!DropTrack
<1>7. CASE /\ iPlaying.id # id /\ iPlaying' = iPlaying
           /\ \E f \in 1 .. e : IsFirst(id, f) /\ IsRunEnd(id, f, e) /\ ShuffleDown(f, e)
  <2> PICK f \in 1 .. e : IsFirst(id, f) /\ IsRunEnd(id, f, e) /\ ShuffleDown(f, e)
    BY <1>7
  <2>1. f \in 0 .. Occupancy /\ f \in 0 .. e
    BY <1>1
  <2>2. /\ Grants!IsBlock(id, f + 1, e + 1)
        /\ f + 1 \in 1 .. Len(Pending) + 1 /\ e + 1 \in 1 .. Len(Pending) + 1
    BY <2>1, RunIsBlock
  <2>3. Grants!IsFirstOf(id, f + 1)
    BY <1>3, <2>1
  <2>4. Pending' = [k \in 1 .. Occupancy - (e - f) |->
                      IF k <= f THEN Pending[k] ELSE Pending[k + (e - f)]]
    BY <1>1, <2>1, ShuffleDownRemoves
  <2>5. Grants!Without(f + 1, e + 1) = [k \in 1 .. Occupancy - (e - f) |->
                      IF k <= f THEN Pending[k] ELSE Pending[k + (e - f)]]
    BY <1>1 DEF Grants!Without
  <2>6. QED
    BY <1>7, <2>2, <2>3, <2>4, <2>5 DEF Grants!DropTrack
<1>8. CASE iPlaying' = iPlaying /\ UNCHANGED ring
  BY <1>8 DEF ring, Pending, Occupancy, At
<1>9. QED
  BY <1>4, <1>5, <1>6, <1>7, <1>8

LEMMA StepRefines == TypeOK /\ TypeOK' /\ [Next]_vars => [Grants!Next]_<<Pending, iPlaying>>
<1> SUFFICES ASSUME TypeOK, TypeOK', [Next]_vars
             PROVE  Grants!Next \/ UNCHANGED <<Pending, iPlaying>>
  OBVIOUS
<1>0. Occupancy \in Nat
  BY QueueShape
<1>1. ASSUME ring' = ring, iPlaying' = iPlaying PROVE UNCHANGED <<Pending, iPlaying>>
  BY <1>1 DEF ring, Pending, Occupancy, At
<1>2. ASSUME NEW e \in 0 .. Occupancy, CutAt(e), iPlaying' = iPlaying
      PROVE  Grants!Next
  BY <1>2, CutAtDropsSuffix DEF Grants!Next, Grants!DropSuffix
<1>3. CASE \E id \in Tracks, s \in StreamIds, now \in BOOLEAN : AddStream(id, s, now)
  BY <1>3, AddStreamAnnounces DEF Grants!Next
<1>4. CASE \E s \in StreamIds : OkToPlay(s)
  <2>1. \/ Occupancy > 0 /\ iPlaying' = At(0) /\ AdvanceHead(1)
        \/ ring' = ring /\ iPlaying' = iPlaying
    BY <1>4 DEF OkToPlay, AdvanceHead
  <2>2. QED
    BY <1>1, <2>1, AdvanceHeadGrants DEF Grants!Next
<1>5. CASE \E id \in Tracks : InvalidateAt(id)
  BY <1>5, InvalidateAtDropsTrack DEF Grants!Next
<1>6. CASE \E id \in Tracks : InvalidateAfter(id)
  BY <1>1, <1>2, <1>6 DEF InvalidateAfter
<1>7. CASE InvalidatePending
  BY <1>0, <1>2, <1>7 DEF InvalidatePending
<1>8. CASE InvalidateAll
  BY <1>0, <1>8, CutAtDropsSuffix DEF InvalidateAll, Grants!Next, Grants!DropAll
<1>9. CASE NextStreamId
  BY <1>1, <1>9 DEF NextStreamId
<1>10. CASE UNCHANGED vars
  <2>1. ring' = ring /\ iPlaying' = iPlaying
    BY <1>10 DEF vars, ring
  <2>2. QED
    BY <1>1, <2>1
<1>11. QED
  BY <1>3, <1>4, <1>5, <1>6, <1>7, <1>8, <1>9, <1>10 DEF Next

(* Every run of the ring is a run of the queue: whatever the size of the   *)
(* ring, its wrap-arounds and shuffles never show.                         *)
THEOREM ImplementsStreamGrants == Spec => GrantsSpec
<1>1. Init => Grants!Init
  BY RingAssumption DEF Init, Grants!Init, Pending, Occupancy, Cleared
<1>2. IInv /\ IInv' /\ [Next]_vars => [Grants!Next]_(Grants!grantVars)
  BY StepRefines DEF IInv, Grants!grantVars
<1>3. QED
  BY <1>1, <1>2, Invariance, PTL DEF Spec, GrantsSpec, Grants!Spec

-----------------------------------------------------------------------------
(* What an invalidation leaves behind. *)

LEMMA OldestNext ==
    ASSUME TypeOK', Occupancy' > 0
    PROVE  1 \in DOMAIN (Pending') /\ Pending'[1] = At(0)'
<1>1. Pending' = [k \in 1 .. Occupancy' |-> At(k - 1)']
  BY DEF Pending
<1>2. 1 \in 1 .. Occupancy' => Pending'[1] = At(1 - 1)'
  BY <1>1
<1>3. At(1 - 1)' = At(0)' /\ 1 \in 1 .. Occupancy'
  <2>1. /\ iIndexHead' \in Indices /\ iIndexTail' \in Indices
        /\ Occupancy' = IF iIndexTail' >= iIndexHead' THEN iIndexTail' - iIndexHead'
                        ELSE iIndexTail' + MaxActiveStreams - iIndexHead'
    BY DEF Occupancy, TypeOK
  <2>2. Occupancy' \in Int
    BY <2>1, RingAssumption
  <2>3. 1 \in 1 .. Occupancy'
    BY <2>2
  <2> QED BY <2>3 DEF At
<1> QED BY <1>1, <1>2, <1>3

LEMMA InvalidateAtRemoves ==
    ASSUME TypeOK, TypeOK', NEW id \in Tracks, InvalidateAt(id), Occupancy' > 0
    PROVE  At(0)'.id # id
<1>1. /\ RingOK /\ Occupancy \in Nat /\ \A k \in 0 .. Occupancy - 1 : Pending[k + 1] = At(k)
  BY QueueShape
<1>2. 1 \in DOMAIN (Pending') /\ Pending'[1] = At(0)'
  BY OldestNext
<1>3. PICK e \in 0 .. Occupancy :
        \/ IsRunEnd(id, 0, e) /\ AdvanceHead(e)
        \/ \E f \in 1 .. e : IsFirst(id, f) /\ IsRunEnd(id, f, e) /\ ShuffleDown(f, e)
        \/ (\A k \in 0 .. Occupancy - 1 : At(k).id # id) /\ UNCHANGED ring
  BY DEF InvalidateAt
<1>4. CASE IsRunEnd(id, 0, e) /\ AdvanceHead(e)
  <2>1. Pending' = [k \in 1 .. Occupancy - e |-> Pending[k + e]]
    BY <1>1, <1>4, AdvanceHeadDrops
  <2>2. e \in 0 .. Occupancy - 1 /\ Pending'[1] = Pending[e + 1]
    BY <1>1, <1>2, <2>1
  <2> QED BY <1>1, <1>2, <1>4, <2>2 DEF IsRunEnd
<1>5. CASE \E f \in 1 .. e : IsFirst(id, f) /\ IsRunEnd(id, f, e) /\ ShuffleDown(f, e)
  <2> PICK f \in 1 .. e : IsFirst(id, f) /\ IsRunEnd(id, f, e) /\ ShuffleDown(f, e)
    BY <1>5
  <2>1. f \in 0 .. e /\ f \in Nat /\ f > 0 /\ f < Occupancy
    BY <1>1 DEF IsFirst
  <2>2. Pending' = [k \in 1 .. Occupancy - (e - f) |->
                      IF k <= f THEN Pending[k] ELSE Pending[k + (e - f)]]
    BY <1>1, <2>1, ShuffleDownRemoves
  <2>3. Pending'[1] = Pending[0 + 1] /\ 0 \in 0 .. f - 1 /\ 0 \in 0 .. Occupancy - 1
    BY <1>1, <1>2, <2>1, <2>2
  <2>4. At(0).id # id
    BY <2>3 DEF IsFirst
  <2> QED BY <1>1, <1>2, <2>3, <2>4
<1>6. CASE (\A k \in 0 .. Occupancy - 1 : At(k).id # id) /\ UNCHANGED ring
  <2>1. Occupancy' = Occupancy /\ At(0)' = At(0)
    BY <1>6 DEF ring, Occupancy, At
  <2> QED BY <1>1, <1>6, <2>1
<1> QED BY <1>3, <1>4, <1>5, <1>6

(* A track that was invalidated neither plays nor is next to play, and the  *)
(* Stopper is told of a stream of it that had been granted: for a ring of   *)
(* any size and however the track's streams lie in it.                      *)
THEOREM InvalidatedIsGone == Spec => InvalidatedNotNext
<1> DEFINE A == \A id \in Tracks : InvalidateAt(id) =>
                  /\ iPlaying'.id # id
                  /\ Occupancy' > 0 => At(0)'.id # id
                  /\ iPlaying.id = id => answer' = Remove(iPlaying.streamId)
<1>1. IInv /\ IInv' => A
  <2> SUFFICES ASSUME IInv, IInv', NEW id \in Tracks, InvalidateAt(id)
               PROVE  /\ iPlaying'.id # id
                      /\ Occupancy' > 0 => At(0)'.id # id
                      /\ iPlaying.id = id => answer' = Remove(iPlaying.streamId)
    OBVIOUS
  <2>1. iPlaying'.id # id
    BY IdAssumption DEF InvalidateAt, Cleared
  <2>2. iPlaying.id = id => answer' = Remove(iPlaying.streamId)
    BY DEF InvalidateAt
  <2> QED BY <2>1, <2>2, InvalidateAtRemoves DEF IInv
<1> HIDE DEF A
<1>2. Spec => [][A]_vars
  BY <1>1, Invariance, PTL DEF Spec
<1> QED BY <1>2 DEF A, InvalidatedNotNext
=============================================================================
