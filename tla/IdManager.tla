----------------------------- MODULE IdManager ------------------------------
(***************************************************************************)
(* IdManager (Media/IdManager.cpp): which of the streams that enter the    *)
(* pipeline may leave the Stopper and play.  Each public member function   *)
(* runs under iLock, so each is one action.  The ring is the one of the    *)
(* code: iActiveStreams[iIndexHead .. iIndexTail), empty when the indices  *)
(* are equal.                                                              *)
(***************************************************************************)
EXTENDS Naturals, Sequences

CONSTANTS MaxActiveStreams,  \* kMaxActiveStreams
          Tracks, NoTrack,
          MaxStreamId        \* bound on iNextStreamId, for TLC only

ASSUME RingAssumption == MaxActiveStreams \in Nat /\ MaxActiveStreams > 1
ASSUME IdAssumption == NoTrack \notin Tracks /\ MaxStreamId \in Nat

NullStream == 0                          \* kStreamIdInvalid
StreamIds == 0 .. MaxStreamId
Indices == 0 .. MaxActiveStreams - 1

ActiveStream == [id : Tracks \union {NoTrack}, streamId : StreamIds, playNow : BOOLEAN]
Cleared == [id |-> NoTrack, streamId |-> NullStream, playNow |-> FALSE]

VARIABLES iActiveStreams,  \* the ring's slots
          iIndexHead,
          iIndexTail,
          iPlaying,        \* the stream granted last
          iNextStreamId,
          lastAnnounced,   \* highest stream id passed to AddStream
          answer           \* what the last call returned or told the Stopper

vars == <<iActiveStreams, iIndexHead, iIndexTail, iPlaying, iNextStreamId, lastAnnounced, answer>>

ring == <<iActiveStreams, iIndexHead, iIndexTail>>

(* Answers: OkToPlay's result, or the stream handed to IStopper::RemoveStream. *)
None == [call |-> "none"]
Play(s, p) == [call |-> "OkToPlay", streamId |-> s, play |-> p]
Remove(s) == [call |-> "RemoveStream", streamId |-> s]
PlayNo == "No"
PlayYes == "Yes"
PlayLater == "Later"

(* The index k places after i, wrapping as UpdateIndex does. *)
UpdateIndex(i, k) == IF i + k < MaxActiveStreams THEN i + k ELSE i + k - MaxActiveStreams

Occupancy == IF iIndexTail >= iIndexHead
             THEN iIndexTail - iIndexHead
             ELSE iIndexTail + MaxActiveStreams - iIndexHead

At(k) == iActiveStreams[UpdateIndex(iIndexHead, k)]

Init == /\ iActiveStreams = [i \in Indices |-> Cleared]
        /\ iIndexHead = 0
        /\ iIndexTail = 0
        /\ iPlaying = Cleared
        /\ iNextStreamId = NullStream + 1
        /\ lastAnnounced = NullStream
        /\ answer = None

NextStreamId == /\ iNextStreamId < MaxStreamId
                /\ iNextStreamId' = iNextStreamId + 1
                /\ answer' = None
                /\ UNCHANGED <<ring, iPlaying, lastAnnounced>>

(* Filler announces a stream its protocol has allocated, or the null track's *)
(* (id 0).  Ids are announced in the order they were allocated.  The ring is  *)
(* larger than the number of streams the reservoirs admit (the ASSERT).       *)
AddStream(id, s, playNow) ==
    /\ s = NullStream \/ (lastAnnounced < s /\ s < iNextStreamId)
    /\ Occupancy < MaxActiveStreams - 1
    /\ iActiveStreams' = [iActiveStreams EXCEPT ![iIndexTail] =
                             [id |-> id, streamId |-> s, playNow |-> playNow]]
    /\ iIndexTail' = UpdateIndex(iIndexTail, 1)
    /\ lastAnnounced' = IF s = NullStream THEN lastAnnounced ELSE s
    /\ answer' = None
    /\ UNCHANGED <<iIndexHead, iPlaying, iNextStreamId>>

(* Fault: looks past the head for the stream it is asked about. *)
OkToPlaySkipping(s) ==
    /\ \E k \in 0 .. Occupancy - 1 :
          /\ At(k).streamId = s
          /\ iPlaying' = At(k)
          /\ iIndexHead' = UpdateIndex(iIndexHead, k + 1)
          /\ answer' = Play(s, IF At(k).playNow THEN PlayYes ELSE PlayLater)
    /\ UNCHANGED <<iActiveStreams, iIndexTail, iNextStreamId, lastAnnounced>>

(* Only the oldest announced stream is ever granted; asking for another one *)
(* is answered ePlayNo and leaves the queue as it was.                      *)
OkToPlay(s) ==
    \/ /\ Occupancy > 0
       /\ At(0).streamId = s
       /\ iPlaying' = At(0)
       /\ iIndexHead' = UpdateIndex(iIndexHead, 1)
       /\ answer' = Play(s, IF At(0).playNow THEN PlayYes ELSE PlayLater)
       /\ UNCHANGED <<iActiveStreams, iIndexTail, iNextStreamId, lastAnnounced>>
    \/ /\ Occupancy = 0 \/ At(0).streamId # s
       /\ answer' = Play(s, PlayNo)
       /\ UNCHANGED <<ring, iPlaying, iNextStreamId, lastAnnounced>>

(* Fault: takes every track to have a single stream. *)
IsRunEndSingle(id, k, e) == e = IF k < Occupancy /\ At(k).id = id THEN k + 1 ELSE k

(* e is the offset of the first entry at or after k that is not of track id. *)
IsRunEnd(id, k, e) == /\ e \in k .. Occupancy
                      /\ e = Occupancy \/ At(e).id # id
                      /\ \A j \in k .. e - 1 : At(j).id = id

IsFirst(id, k) == /\ k < Occupancy
                  /\ At(k).id = id
                  /\ \A j \in 0 .. k - 1 : At(j).id # id

AdvanceHead(k) == /\ iIndexHead' = UpdateIndex(iIndexHead, k)
                  /\ UNCHANGED <<iActiveStreams, iIndexTail>>

(* Offsets e.. move down to f.. ; the tail follows them. *)
ShuffleDown(f, e) ==
    /\ iActiveStreams' =
         [i \in Indices |->
            LET k == IF i >= iIndexHead THEN i - iIndexHead ELSE i + MaxActiveStreams - iIndexHead
            IN IF f <= k /\ k < Occupancy - (e - f) THEN At(k + (e - f)) ELSE iActiveStreams[i]]
    /\ iIndexTail' = UpdateIndex(iIndexHead, Occupancy - (e - f))
    /\ UNCHANGED iIndexHead

InvalidateAt(id) ==
    /\ \E e \in 0 .. Occupancy :
        \/ /\ iPlaying.id = id
           /\ iPlaying' = Cleared
           /\ answer' = Remove(iPlaying.streamId)
           /\ IsRunEnd(id, 0, e)
           /\ AdvanceHead(e)
        \/ /\ iPlaying.id # id
           /\ answer' = None
           /\ \/ IsFirst(id, 0) /\ IsRunEnd(id, 0, e) /\ AdvanceHead(e)
              \/ \E f \in 1 .. e : IsFirst(id, f) /\ IsRunEnd(id, f, e) /\ ShuffleDown(f, e)
              \/ (\A k \in 0 .. Occupancy - 1 : At(k).id # id) /\ UNCHANGED ring
           /\ UNCHANGED iPlaying
    /\ UNCHANGED <<iNextStreamId, lastAnnounced>>

(* The entry at j belongs to the stream run of track id that s precedes. *)
Follows(id, s, j) == At(j).id = id /\ s < At(j).streamId /\ At(j).playNow

(* Entries k .. e-1 follow stream s, each younger than the one before, and  *)
(* the one at e does not.                                                   *)
IsKeepEnd(id, k, s, e) ==
    LET before(j) == IF j = k THEN s ELSE At(j - 1).streamId
    IN /\ e \in k .. Occupancy
       /\ e = Occupancy \/ ~Follows(id, before(e), e)
       /\ \A j \in k .. e - 1 : Follows(id, before(j), j)

CutAt(k) == /\ iIndexTail' = UpdateIndex(iIndexHead, k)
            /\ UNCHANGED <<iActiveStreams, iIndexHead>>

(* Keep the stream that matched and those of the same track that follow it; *)
(* cut the rest.                                                            *)
InvalidateAfter(id) ==
    /\ \/ /\ iPlaying.id = id
          /\ \E e \in 0 .. Occupancy : IsKeepEnd(id, 0, iPlaying.streamId, e) /\ CutAt(e)
       \/ /\ iPlaying.id # id
          /\ \E e \in 0 .. Occupancy, f \in 0 .. Occupancy :
                IsFirst(id, f) /\ IsKeepEnd(id, f + 1, At(f).streamId, e) /\ CutAt(e)
       \/ /\ iPlaying.id # id
          /\ \A k \in 0 .. Occupancy - 1 : At(k).id # id
          /\ UNCHANGED ring
    /\ answer' = None
    /\ UNCHANGED <<iPlaying, iNextStreamId, lastAnnounced>>

InvalidatePending == /\ CutAt(0)
                     /\ answer' = None
                     /\ UNCHANGED <<iPlaying, iNextStreamId, lastAnnounced>>

InvalidateAll == /\ CutAt(0)
                 /\ iPlaying' = Cleared
                 /\ answer' = IF iPlaying = Cleared THEN None ELSE Remove(iPlaying.streamId)
                 /\ UNCHANGED <<iNextStreamId, lastAnnounced>>

Next == \/ NextStreamId
        \/ \E id \in Tracks, s \in StreamIds, now \in BOOLEAN : AddStream(id, s, now)
        \/ \E s \in StreamIds : OkToPlay(s)
        \/ \E id \in Tracks : InvalidateAt(id)
        \/ \E id \in Tracks : InvalidateAfter(id)
        \/ InvalidatePending
        \/ InvalidateAll

Spec == Init /\ [][Next]_vars

-----------------------------------------------------------------------------
(* The streams announced and not yet granted, oldest first. *)
Announced == [id : Tracks, streamId : StreamIds, playNow : BOOLEAN]
Pending == [k \in 1 .. Occupancy |-> At(k - 1)]

(* The ring keeps its shape: indices in range, only announced tracks in the *)
(* live part of the ring, and ids that NextStreamId has handed out.         *)
TypeOK == /\ iActiveStreams \in [Indices -> ActiveStream]
          /\ iIndexHead \in Indices
          /\ iIndexTail \in Indices
          /\ iPlaying \in ActiveStream
          /\ iNextStreamId \in 1 .. MaxStreamId + 1
          /\ lastAnnounced \in 0 .. iNextStreamId - 1
          /\ Pending \in Seq(Announced)

(* Real streams wait in the order they were announced and all are younger   *)
(* than the one playing.  AddStream only takes ids younger than any before, *)
(* so no stream is granted twice and none that was invalidated comes back,  *)
(* whatever mix of wrap-arounds, shuffles and cuts the ring went through.   *)
InOrder(p) ==
    /\ \A k \in DOMAIN p :
          /\ p[k].streamId <= lastAnnounced
          /\ p[k].streamId # NullStream => iPlaying.streamId < p[k].streamId
    /\ \A j, k \in DOMAIN p :
          j < k /\ p[k].streamId # NullStream => p[j].streamId < p[k].streamId
GrantsInOrder == InOrder(Pending)

(* Once a track is invalidated (NotifyTrackDeleted), neither the stream     *)
(* that is playing nor the next one to be granted belongs to it, and a      *)
(* stream of it that had already been granted is handed to the Stopper.     *)
InvalidatedNotNext ==
    [][\A id \in Tracks : InvalidateAt(id) =>
         /\ iPlaying'.id # id
         /\ Occupancy' > 0 => At(0)'.id # id
         /\ iPlaying.id = id => answer' = Remove(iPlaying.streamId)]_vars

(* The ring implements the queue of StreamGrants. *)
Grants == INSTANCE StreamGrants
          WITH pending <- Pending, playing <- iPlaying, Streams <- Announced
GrantsSpec == Grants!Spec
=============================================================================
