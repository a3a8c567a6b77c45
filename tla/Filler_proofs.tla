--------------------------- MODULE Filler_proofs ---------------------------
(***************************************************************************)
(* Proofs about Filler.  IInv is inductive: beside the types it says where *)
(* the thread and its protocol agree (PlaceInv), what the call under way   *)
(* knows (CallInv), in which order halts (HaltInv) and streams (OrderInv)  *)
(* lie in the queue, that awaited audio cannot have been heard (HeardInv), *)
(* who is asleep (WokenInv) and what removals leave (RemovedInv).  At the  *)
(* end, the refinement of HaltPromises, for which DeliveredInv says that   *)
(* the last halt in the queue is the last one Filler has let go.           *)
(***************************************************************************)
EXTENDS Filler, TLAPS

-----------------------------------------------------------------------------
(* Types.                                                                  *)

LEMMA NoneTyped == NoTrack \in 0 .. MaxTracks /\ NoHalt \in Nat /\ MaxTracks \in Nat /\ MaxCalls \in Nat
  BY BoundAssumption DEF NoTrack, NoHalt

LEMMA SignalledTyped == ASSUME NEW f \in FillerMembers PROVE Signalled(f) \in FillerMembers
  BY DEF Signalled, FillerMembers

(* What Filler::Stop promises, and how it notes it.                        *)
LEMMA HaltTyped == ASSUME filler \in FillerMembers PROVE HaltId \in Nat \ {NoHalt}
  BY DEF HaltId, FillerMembers, NoHalt
LEMMA ToldTyped ==
  ASSUME NEW f \in FillerMembers, NEW h \in Nat \ {NoHalt}
  PROVE  [f EXCEPT !.iPendingHaltId = h, !.iNextHaltId = h, !.iStopped = TRUE] \in FillerMembers
  BY DEF FillerMembers

LEMMA InactiveTyped == Inactive \in ProtocolMembers
<1>1. NoTrack \in 0 .. MaxTracks
  BY NoneTyped
<1> QED BY <1>1 DEF Inactive, ProtocolMembers
LEMMA InterruptedTyped == ASSUME NEW p \in ProtocolMembers PROVE Interrupted(p) \in ProtocolMembers
  BY DEF Interrupted, ProtocolMembers
LEMMA TryStopTyped == ASSUME NEW p \in ProtocolMembers, NEW s PROVE TryStop(p, s) \in ProtocolMembers
  BY DEF TryStop, ProtocolMembers
LEMMA AnsweredTyped == ASSUME protocol \in ProtocolMembers, NEW s PROVE Answered(s) \in ProtocolMembers
  BY TryStopTyped DEF Answered, ProtocolMembers, iQuit

LEMMA AskedTyped == ASSUME pending \in Seq(Streams), NEW s PROVE Asked(s) \in Seq(Streams)
  BY DEF Asked, Grants
LEMMA AskStreamTyped ==
  ASSUME pending \in Seq(Streams), protocol \in ProtocolMembers, NEW s, AskStream(s)
  PROVE  pending' \in Seq(Streams) /\ protocol' \in ProtocolMembers
  BY AskedTyped, AnsweredTyped DEF AskStream
LEMMA AskUnlessCheckedTyped ==
  ASSUME pending \in Seq(Streams), protocol \in ProtocolMembers, AskUnlessChecked
  PROVE  pending' \in Seq(Streams) /\ protocol' \in ProtocolMembers
  BY AskStreamTyped DEF AskUnlessChecked

(* What is Stopper's in downstream changes apart from the rest.            *)
Like(d, e) == /\ e.skip = d.skip /\ e.halted = d.halted /\ e.stream = d.stream
              /\ e.checked = d.checked /\ e.decoded = d.decoded /\ e.granted = d.granted

LEMMA EnterLike ==
  ASSUME NEW d \in DownstreamMembers, NEW state \in States
  PROVE  Enter(d, state) \in DownstreamMembers /\ Like(d, Enter(d, state))
  BY DEF Enter, Like, DownstreamMembers
LEMMA PlayingLike ==
  ASSUME NEW d \in DownstreamMembers PROVE Playing(d) \in DownstreamMembers /\ Like(d, Playing(d))
<1>1. NoHalt \in Nat /\ "Running" \in States
  BY NoneTyped DEF States
<1> QED BY <1>1 DEF Playing, Like, DownstreamMembers
LEMMA BeginStopLike ==
  ASSUME NEW d \in DownstreamMembers, client.halt \in Nat, BeginStop(d)
  PROVE  downstream' \in DownstreamMembers /\ Like(d, downstream')
<1>1. {"Stopped", "RampingDown"} \subseteq States
  BY DEF States
<1>2. [d EXCEPT !.iTargetHaltId = client.halt] \in DownstreamMembers
  BY DEF DownstreamMembers
<1>3. Like(d, [d EXCEPT !.iTargetHaltId = client.halt])
  BY DEF Like, DownstreamMembers
<1> QED BY <1>1, <1>2, <1>3 DEF BeginStop, Like, DownstreamMembers
LEMMA SkipUntilTyped ==
  ASSUME downstream \in DownstreamMembers, NEW h \in Nat
  PROVE  /\ SkipUntil(h) \in DownstreamMembers
         /\ SkipUntil(h).skip = h /\ ~SkipUntil(h).granted /\ ~SkipUntil(h).decoded
         /\ SkipUntil(h).halted = downstream.halted /\ SkipUntil(h).stream = downstream.stream
         /\ SkipUntil(h).checked = downstream.checked
  BY DEF SkipUntil, DownstreamMembers
LEMMA AnswerStateTyped ==
  ASSUME downstream \in DownstreamMembers, NEW s PROVE AnswerState(s) \in States
  BY DEF AnswerState, States, DownstreamMembers

(* Messages.                                                               *)
LEMMA ContentTyped == ASSUME NEW k \in Content, NEW s \in Streams PROVE Msg(k, s) \in Msgs
  BY DEF Msgs, Content, Msg
LEMMA TrackTyped == ASSUME NEW t \in 0 .. MaxTracks, t # NoTrack PROVE t \in Streams
  BY NoneTyped DEF Streams, Tracks, NoTrack
LEMMA NullTyped == NullTrack \in Streams
  BY DEF Streams
LEMMA MsgTyped ==
  ASSUME NEW m \in Msgs
  PROVE  /\ m.kind \in Content => m.n \in Streams
         /\ m.kind = "Halt" => m.n \in Nat \ {NoHalt}
  BY DEF Msgs, Content
LEMMA PullTyped ==
  ASSUME pipe \in Seq(Msgs), NEW kinds, Pull(kinds)
  PROVE  pipe' \in Seq(Msgs) /\ Head(pipe) \in Msgs /\ Head(pipe).kind \in kinds
  BY DEF Pull
LEMMA WithHaltTyped ==
  ASSUME pipe \in Seq(Msgs), filler \in FillerMembers PROVE WithHalt \in Seq(Msgs)
<1>1. CASE filler.iPendingHaltId = NoHalt
  BY <1>1 DEF WithHalt
<1>2. CASE filler.iPendingHaltId # NoHalt
  <2>1. filler.iPendingHaltId \in Nat \ {NoHalt}
    BY <1>2 DEF FillerMembers
  <2>2. Msg("Halt", filler.iPendingHaltId) \in Msgs
    BY <2>1 DEF Msg, Msgs
  <2> QED BY <1>2, <2>2 DEF WithHalt
<1> QED BY <1>1, <1>2

LEMMA ReturnedTyped ==
  ASSUME client \in ClientMembers
  PROVE  /\ Returned \in ClientMembers
         /\ \A r \in 0 .. MaxTracks, at \in Progress, op \in Operations :
              [Returned EXCEPT !.removed = r, !.at = at, !.op = op] \in ClientMembers
<1>1. NoTrack \in 0 .. MaxTracks /\ NoHalt \in Nat
  BY NoneTyped
<1>2. \A op \in Operations : [client EXCEPT !.at = "idle", !.halt = NoHalt, !.began = NoTrack, !.op = op]
                               \in ClientMembers
  BY <1>1 DEF ClientMembers, Progress
<1>3. (IF client.op = "Stop" THEN "Stopped" ELSE "None") \in Operations
  BY DEF Operations
<1>4. Returned \in ClientMembers
  BY <1>2, <1>3 DEF Returned
<1>5. \A c \in ClientMembers : \A r \in 0 .. MaxTracks, at \in Progress, op \in Operations :
         [c EXCEPT !.removed = r, !.at = at, !.op = op] \in ClientMembers
  BY DEF ClientMembers
<1> QED BY <1>4, <1>5

(* Where a track is being added there is one, and where the protocol has a *)
(* stream it is that of the track; elsewhere it has none, and no seek.     *)
PlaceInv ==
    /\ pc \in Producing => filler.iTrack # NoTrack
    /\ pc \in Streaming => protocol.iStreamId = filler.iTrack
    /\ pc \notin Streaming => protocol.iStreamId = NoTrack /\ ~protocol.iSeek
    /\ pc = "seeking" => protocol.iSeek

LEMMA Steps ==
  Next => \/ Wait
          \/ PushPromised
          \/ GetNext
          \/ NullTrackPushed
          \/ NullTrackAnnounced
          \/ NullStreamPushed
          \/ BeginTrack
          \/ CheckForKill
          \/ Quitting
          \/ OutputTrack
          \/ Activate
          \/ StartStream
          \/ Announce
          \/ OutputStream
          \/ LiveWait
          \/ OutputAudio
          \/ PushAudio
          \/ SeekBegins
          \/ SeekFlushed
          \/ StreamStopped
          \/ StreamEnds
          \/ Discard
          \/ PullTrack
          \/ PullStream
          \/ PullLiveStream
          \/ PullAudio
          \/ PullHalt
          \/ PullQuit
          \/ PullLastAudio
          \/ RampCompleted
          \/ StopLocked
          \/ Interrupt
          \/ InvalidatePending
          \/ RemoveAll
          \/ PipelineStop
          \/ PipelineQuit
          \/ MoveNext
          \/ Kill
          \/ KillInterrupt
          \/ Join
          \/ Begin
          \/ Play
          \/ TrySeek
          \/ \E op \in {"RemoveAll", "Stop"} : Call(op)
  BY DEF Next, Thread, Consumer, CallSteps

LEMMA TypesKept == TypeOK /\ PlaceInv /\ Next => TypeOK'
<1> SUFFICES ASSUME TypeOK, PlaceInv, Next PROVE TypeOK'
  OBVIOUS
<1> DEFINE Typed == /\ filler \in FillerMembers
                    /\ protocol \in ProtocolMembers
                    /\ pipe \in Seq(Msgs) /\ pending \in Seq(Streams)
                    /\ downstream \in DownstreamMembers
                    /\ client \in ClientMembers
<1>t. Typed /\ pc \in Places
  BY DEF TypeOK
<1>u. Typed' /\ pc' \in Places => TypeOK'
  BY DEF TypeOK

<1>1. CASE Wait
  <2>1. filler' \in FillerMembers
    BY <1>1, <1>t DEF Wait, FillerMembers
  <2>2. pc' \in Places
    BY <1>1, <1>t DEF Wait, Places, Producing, Streaming
  <2> QED BY <1>1, <1>t, <1>u, <2>1, <2>2 DEF Wait
<1>2. CASE PushPromised
  <2>1. filler' \in FillerMembers
    BY <1>2, <1>t, NoneTyped DEF PushPromised, FillerMembers
  <2>2. pipe' \in Seq(Msgs)
    BY <1>2, <1>t, WithHaltTyped DEF PushPromised
  <2>3. pc' \in Places
    BY <1>2, <1>t DEF PushPromised, Places, Producing, Streaming
  <2> QED BY <1>2, <1>t, <1>u, <2>1, <2>2, <2>3 DEF PushPromised
<1>3. CASE GetNext
  <2>1. filler' \in FillerMembers
    <3>1. filler.iTrack < MaxTracks => filler.iTrack + 1 \in 0 .. MaxTracks
      BY <1>3, <1>t, NoneTyped DEF FillerMembers
    <3> QED BY <1>3, <1>t, <3>1 DEF GetNext, FillerMembers
  <2>2. pc' \in Places
    BY <1>3, <1>t DEF GetNext, Places, Producing, Streaming
  <2> QED BY <1>3, <1>t, <1>u, <2>1, <2>2 DEF GetNext
<1>4. CASE NullTrackPushed
  <2>1. pipe' \in Seq(Msgs)
    BY <1>4, <1>t, NullTyped, ContentTyped DEF NullTrackPushed, Content
  <2>2. pc' \in Places
    BY <1>4, <1>t DEF NullTrackPushed, Places, Producing, Streaming
  <2> QED BY <1>4, <1>t, <1>u, <2>1, <2>2 DEF NullTrackPushed
<1>5. CASE NullTrackAnnounced
  <2>1. pending' \in Seq(Streams)
    BY <1>5, <1>t, NullTyped DEF NullTrackAnnounced
  <2>2. pc' \in Places
    BY <1>5, <1>t DEF NullTrackAnnounced, Places, Producing, Streaming
  <2> QED BY <1>5, <1>t, <1>u, <2>1, <2>2 DEF NullTrackAnnounced
<1>6. CASE NullStreamPushed
  <2>1. pipe' \in Seq(Msgs)
    BY <1>6, <1>t, NullTyped, ContentTyped DEF NullStreamPushed, Content
  <2>2. pc' \in Places
    BY <1>6, <1>t DEF NullStreamPushed, Places, Producing, Streaming
  <2> QED BY <1>6, <1>t, <1>u, <2>1, <2>2 DEF NullStreamPushed
<1>7. CASE BeginTrack
  <2>1. filler' \in FillerMembers
    BY <1>7, <1>t DEF BeginTrack, FillerMembers
  <2>2. pc' \in Places
    BY <1>7, <1>t DEF BeginTrack, Places, Producing, Streaming
  <2> QED BY <1>7, <1>t, <1>u, <2>1, <2>2 DEF BeginTrack
<1>8. CASE CheckForKill
  <2>1. pc' \in Places
    BY <1>8, <1>t DEF CheckForKill, Places, Producing, Streaming
  <2> QED BY <1>8, <1>t, <1>u, <2>1 DEF CheckForKill
<1>9. CASE Quitting
  <2>1. filler' \in FillerMembers
    BY <1>9, <1>t, NoneTyped DEF Quitting, FillerMembers
  <2>2. pipe' \in Seq(Msgs)
    BY <1>9, <1>t, WithHaltTyped DEF Quitting, Msg, Msgs
  <2>3. pc' \in Places
    BY <1>9, <1>t DEF Quitting, Places, Producing, Streaming
  <2> QED BY <1>9, <1>t, <1>u, <2>1, <2>2, <2>3 DEF Quitting
<1>10. CASE OutputTrack
  <2>s. filler.iTrack \in Streams
    BY <1>10, <1>t, TrackTyped DEF OutputTrack, Producing, FillerMembers, PlaceInv
  <2>1. filler' \in FillerMembers
    BY <1>10, <1>t DEF OutputTrack, FillerMembers
  <2>2. pipe' \in Seq(Msgs)
    BY <1>10, <1>t, ContentTyped, <2>s DEF OutputTrack, Content
  <2>3. pc' \in Places
    BY <1>10, <1>t DEF OutputTrack, Places, Producing, Streaming
  <2> QED BY <1>10, <1>t, <1>u, <2>1, <2>2, <2>3 DEF OutputTrack
<1>11. CASE Activate
  <2>1. protocol' \in ProtocolMembers
    BY <1>11, <1>t, InactiveTyped DEF Activate, ProtocolMembers
  <2>2. pc' \in Places
    BY <1>11, <1>t DEF Activate, Places, Producing, Streaming
  <2> QED BY <1>11, <1>t, <1>u, <2>1, <2>2 DEF Activate
<1>12. CASE StartStream
  <2>1. protocol' \in ProtocolMembers
    BY <1>12, <1>t, InactiveTyped DEF StartStream, Deactivated, ProtocolMembers, FillerMembers
  <2>2. pc' \in Places
    BY <1>12, <1>t DEF StartStream, Deactivated, Places, Producing, Streaming
  <2> QED BY <1>12, <1>t, <1>u, <2>1, <2>2 DEF StartStream
<1>13. CASE Announce
  <2>s. protocol.iStreamId \in Streams
    BY <1>13, <1>t, TrackTyped DEF Announce, Producing, Streaming, FillerMembers, PlaceInv
  <2>1. filler' \in FillerMembers
    BY <1>13, <1>t DEF Announce, FillerMembers
  <2>2. pending' \in Seq(Streams)
    BY <1>13, <1>t, <2>s DEF Announce
  <2>3. pc' \in Places
    BY <1>13, <1>t DEF Announce, Places, Producing, Streaming
  <2> QED BY <1>13, <1>t, <1>u, <2>1, <2>2, <2>3 DEF Announce
<1>14. CASE OutputStream
  <2>s. protocol.iStreamId \in Streams
    BY <1>14, <1>t, TrackTyped DEF OutputStream, Producing, Streaming, FillerMembers, PlaceInv
  <2>1. pipe' \in Seq(Msgs)
    BY <1>14, <1>t, ContentTyped, <2>s DEF OutputStream, Content
  <2>2. pc' \in Places
    BY <1>14, <1>t DEF OutputStream, Places, Producing, Streaming
  <2> QED BY <1>14, <1>t, <1>u, <2>1, <2>2 DEF OutputStream
<1>15. CASE LiveWait
  <2>1. protocol' \in ProtocolMembers
    BY <1>15, <1>t, InactiveTyped DEF LiveWait, Deactivated, ProtocolMembers
  <2>2. pc' \in Places
    BY <1>15, <1>t DEF LiveWait, Deactivated, Places, Producing, Streaming
  <2> QED BY <1>15, <1>t, <1>u, <2>1, <2>2 DEF LiveWait
<1>16. CASE OutputAudio
  <2>1. filler' \in FillerMembers
    BY <1>16, <1>t DEF OutputAudio, FillerMembers
  <2>2. pc' \in Places
    BY <1>16, <1>t DEF OutputAudio, Places, Producing, Streaming
  <2> QED BY <1>16, <1>t, <1>u, <2>1, <2>2 DEF OutputAudio
<1>17. CASE PushAudio
  <2>s. protocol.iStreamId \in Streams
    BY <1>17, <1>t, TrackTyped DEF PushAudio, Producing, Streaming, FillerMembers, PlaceInv
  <2>1. pipe' \in Seq(Msgs)
    BY <1>17, <1>t, ContentTyped, <2>s DEF PushAudio, Content
  <2>2. pc' \in Places
    BY <1>17, <1>t DEF PushAudio, Places, Producing, Streaming
  <2> QED BY <1>17, <1>t, <1>u, <2>1, <2>2 DEF PushAudio
<1>18. CASE SeekBegins
  <2>1. pc' \in Places
    BY <1>18, <1>t DEF SeekBegins, Places, Producing, Streaming
  <2> QED BY <1>18, <1>t, <1>u, <2>1 DEF SeekBegins
<1>19. CASE SeekFlushed
  <2>1. protocol' \in ProtocolMembers
    BY <1>19, <1>t DEF SeekFlushed, ProtocolMembers
  <2>2. pc' \in Places
    BY <1>19, <1>t DEF SeekFlushed, Places, Producing, Streaming
  <2> QED BY <1>19, <1>t, <1>u, <2>1, <2>2 DEF SeekFlushed
<1>20. CASE StreamStopped
  <2>1. protocol' \in ProtocolMembers
    BY <1>20, <1>t, InactiveTyped DEF StreamStopped, Deactivated
  <2>2. pc' \in Places
    BY <1>20, <1>t DEF StreamStopped, Deactivated, Places, Producing, Streaming
  <2> QED BY <1>20, <1>t, <1>u, <2>1, <2>2 DEF StreamStopped
<1>21. CASE StreamEnds
  <2>1. protocol' \in ProtocolMembers
    BY <1>21, <1>t, InactiveTyped DEF StreamEnds, Deactivated
  <2>2. pc' \in Places
    BY <1>21, <1>t DEF StreamEnds, Deactivated, Places, Producing, Streaming
  <2> QED BY <1>21, <1>t, <1>u, <2>1, <2>2 DEF StreamEnds
<1>22. CASE Discard
  <2>1. pipe' \in Seq(Msgs)
    BY <1>22, <1>t, PullTyped DEF Discard
  <2>2. pending' \in Seq(Streams)
    BY <1>22, <1>t, AskedTyped DEF Discard
  <2>3. protocol' \in ProtocolMembers
    BY ZenonT(30), <1>22, <1>t, TryStopTyped DEF Discard, ProtocolMembers
  <2>4. pc' \in Places
    BY <1>22, <1>t DEF Discard, Places, Producing, Streaming
  <2> QED BY <1>22, <1>t, <1>u, <2>1, <2>2, <2>3, <2>4 DEF Discard
<1>23. CASE PullTrack
  <2>1. pipe' \in Seq(Msgs)
    BY <1>23, <1>t, PullTyped DEF PullTrack, Unskipped
  <2>2. pending' \in Seq(Streams) /\ protocol' \in ProtocolMembers
    BY <1>23, <1>t, AskUnlessCheckedTyped DEF PullTrack
  <2>3. downstream' \in DownstreamMembers
    <3> DEFINE d == [downstream EXCEPT !.stream = NoTrack, !.checked = FALSE, !.decoded = FALSE, !.granted = FALSE]
    <3>1. d \in DownstreamMembers
      BY <1>t DEF DownstreamMembers
    <3>2. "Running" \in States
      BY DEF States
    <3> QED BY <1>23, <3>1, <3>2, EnterLike DEF PullTrack
  <2>4. pc' \in Places
    BY <1>23, <1>t DEF PullTrack, Places, Producing, Streaming
  <2> QED BY <1>23, <1>t, <1>u, <2>1, <2>2, <2>3, <2>4 DEF PullTrack
<1>24. CASE PullStream
  <2>h. Head(pipe).n \in Streams
    BY <1>24, <1>t, PullTyped, MsgTyped DEF PullStream, Unskipped, Content
  <2>1. pipe' \in Seq(Msgs)
    BY <1>24, <1>t, PullTyped DEF PullStream, Unskipped
  <2>2. downstream' \in DownstreamMembers
    <3> DEFINE d == [downstream EXCEPT !.stream = Head(pipe).n, !.checked = FALSE, !.decoded = FALSE]
    <3>1. d \in DownstreamMembers
      BY <1>t, <2>h DEF DownstreamMembers
    <3>2. "Running" \in States
      BY DEF States
    <3> QED BY <1>24, <3>1, <3>2, EnterLike DEF PullStream
  <2>3. pc' \in Places
    BY <1>24, <1>t DEF PullStream, Places, Producing, Streaming
  <2> QED BY <1>24, <1>t, <1>u, <2>1, <2>2, <2>3 DEF PullStream
<1>25. CASE PullLiveStream
  <2>h. Head(pipe).n \in Streams
    BY <1>25, <1>t, PullTyped, MsgTyped DEF PullLiveStream, Unskipped, Content
  <2>1. pipe' \in Seq(Msgs)
    BY <1>25, <1>t, PullTyped DEF PullLiveStream, Unskipped
  <2>2. pending' \in Seq(Streams) /\ protocol' \in ProtocolMembers
    BY <1>25, <1>t, AskStreamTyped DEF PullLiveStream
  <2>3. downstream' \in DownstreamMembers
    <3> DEFINE m == Head(pipe).n
               d == [downstream EXCEPT !.stream = m, !.checked = TRUE, !.decoded = FALSE, !.granted = Plays(m)]
               st == IF Plays(m) /\ ~iQuit THEN "Running" ELSE AnswerState(m)
    <3>1. Plays(m) \in BOOLEAN
      BY DEF Plays, Grants
    <3>2. d \in DownstreamMembers
      BY <1>t, <2>h, <3>1 DEF DownstreamMembers
    <3>3. st \in States
      BY <1>t, AnswerStateTyped DEF States
    <3>4. Enter(d, st) \in DownstreamMembers
      BY <3>2, <3>3, EnterLike
    <3> QED BY <1>25, <3>4 DEF PullLiveStream
  <2>4. client' \in ClientMembers
    BY <1>25, <1>t DEF PullLiveStream, Missed, ClientMembers
  <2>5. pc' \in Places
    BY <1>25, <1>t DEF PullLiveStream, Places, Producing, Streaming
  <2> QED BY <1>25, <1>t, <1>u, <2>1, <2>2, <2>3, <2>4, <2>5 DEF PullLiveStream
<1>26. CASE PullAudio
  <2>h. Head(pipe).n \in Streams
    BY <1>26, <1>t, PullTyped, MsgTyped DEF PullAudio, Unskipped, Content
  <2>1. pipe' \in Seq(Msgs)
    BY <1>26, <1>t, PullTyped DEF PullAudio, Unskipped
  <2>2. pending' \in Seq(Streams) /\ protocol' \in ProtocolMembers
    BY <1>26, <1>t, AskUnlessCheckedTyped, TryStopTyped DEF PullAudio
  <2>3. downstream' \in DownstreamMembers
    <3> DEFINE m == Head(pipe).n
               d == [downstream EXCEPT !.checked = TRUE, !.decoded = TRUE,
                                       !.granted = IF Unasked THEN Grants(m) ELSE @]
               st == IF Unasked THEN AnswerState(m) ELSE downstream.iState
    <3>1. Grants(m) \in BOOLEAN
      BY DEF Grants
    <3>2. d \in DownstreamMembers
      BY <1>t, <3>1 DEF DownstreamMembers
    <3>3. st \in States
      BY <1>t, AnswerStateTyped DEF DownstreamMembers
    <3>4. Enter(d, st) \in DownstreamMembers
      BY <3>2, <3>3, EnterLike
    <3> QED BY <1>26, <1>t, <3>4 DEF PullAudio
  <2>4. client' \in ClientMembers
    BY <1>26, <1>t DEF PullAudio, Missed, ClientMembers
  <2>5. pc' \in Places
    BY <1>26, <1>t DEF PullAudio, Places, Producing, Streaming
  <2> QED BY <1>26, <1>t, <1>u, <2>1, <2>2, <2>3, <2>4, <2>5 DEF PullAudio
<1>27. CASE PullHalt
  <2>h. Head(pipe).n \in Nat
    BY <1>27, <1>t, PullTyped, MsgTyped DEF PullHalt
  <2>1. pipe' \in Seq(Msgs)
    BY <1>27, <1>t, PullTyped DEF PullHalt
  <2>2. downstream' \in DownstreamMembers
    <3> DEFINE h == Head(pipe).n
               passed == [downstream EXCEPT !.halted = h, !.skip = IF @ = h THEN NoHalt ELSE @]
    <3>1. passed \in DownstreamMembers /\ [passed EXCEPT !.iTargetHaltId = NoHalt] \in DownstreamMembers
      BY <1>t, <2>h, NoneTyped DEF DownstreamMembers
    <3>2. "Stopped" \in States /\ downstream.iState \in States
      BY <1>t DEF States, DownstreamMembers
    <3>3. /\ Enter(passed, downstream.iState) \in DownstreamMembers
          /\ Enter([passed EXCEPT !.iTargetHaltId = NoHalt], "Stopped") \in DownstreamMembers
      BY <3>1, <3>2, EnterLike
    <3> QED BY <1>27, <3>3 DEF PullHalt
  <2>3. pc' \in Places
    BY <1>27, <1>t DEF PullHalt, Places, Producing, Streaming
  <2> QED BY <1>27, <1>t, <1>u, <2>1, <2>2, <2>3 DEF PullHalt
<1>28. CASE PullQuit
  <2>1. pipe' \in Seq(Msgs)
    BY <1>28, <1>t, PullTyped DEF PullQuit
  <2>2. pc' \in Places
    BY <1>28, <1>t DEF PullQuit, Places, Producing, Streaming
  <2> QED BY <1>28, <1>t, <1>u, <2>1, <2>2 DEF PullQuit
<1>29. CASE RampCompleted
  <2>1. protocol' \in ProtocolMembers
    BY <1>29, <1>t, TryStopTyped DEF RampCompleted
  <2>2. downstream' \in DownstreamMembers
    BY <1>29, <1>t DEF RampCompleted, DownstreamMembers, States
  <2>3. pc' \in Places
    BY <1>29, <1>t DEF RampCompleted, Places, Producing, Streaming
  <2> QED BY <1>29, <1>t, <1>u, <2>1, <2>2, <2>3 DEF RampCompleted
<1>30. CASE StopLocked
  <2>1. filler' \in FillerMembers
    BY <1>30, <1>t, HaltTyped, ToldTyped, SignalledTyped DEF StopLocked
  <2>2. client' \in ClientMembers
    <3>1. HaltId \in Nat
      BY <1>30, <1>t, HaltTyped
    <3>2. filler.iTrack \in 0 .. MaxTracks
      BY <1>t DEF FillerMembers
    <3>3. AfterStop \in Progress /\ "interrupting" \in Progress
      BY DEF AfterStop, Progress
    <3>4. Deaf \in BOOLEAN
      BY DEF Deaf
    <3> QED BY <1>30, <1>t, <3>1, <3>2, <3>3, <3>4 DEF StopLocked, ClientMembers
  <2>3. pc' \in Places
    BY <1>30, <1>t DEF StopLocked, Places, Producing, Streaming
  <2> QED BY <1>30, <1>t, <1>u, <2>1, <2>2, <2>3 DEF StopLocked
<1>31. CASE Interrupt
  <2>1. filler' \in FillerMembers
    <3>1. [filler EXCEPT !.iNoAudioBeforeNextTrack = TRUE] \in FillerMembers
      BY <1>31, <1>t DEF FillerMembers
    <3> QED BY <1>31, <1>t, SignalledTyped, <3>1 DEF Interrupt
  <2>2. protocol' \in ProtocolMembers
    BY <1>31, <1>t, InterruptedTyped DEF Interrupt
  <2>3. client' \in ClientMembers
    BY <1>31, <1>t DEF Interrupt, AfterStop, ClientMembers, Progress
  <2>4. pc' \in Places
    BY <1>31, <1>t DEF Interrupt, Places, Producing, Streaming
  <2> QED BY <1>31, <1>t, <1>u, <2>1, <2>2, <2>3, <2>4 DEF Interrupt
<1>32. CASE InvalidatePending
  <2>1. pending' \in Seq(Streams)
    BY <1>32, <1>t DEF InvalidatePending
  <2>2. client' \in ClientMembers
    BY ZenonT(30), <1>32, <1>t, ReturnedTyped DEF InvalidatePending, ClientMembers, Progress
  <2>3. pc' \in Places
    BY <1>32, <1>t DEF InvalidatePending, Places, Producing, Streaming
  <2> QED BY <1>32, <1>t, <1>u, <2>1, <2>2, <2>3 DEF InvalidatePending
<1>33. CASE RemoveAll
  <2>k. client.halt \in Nat /\ client.began \in 0 .. MaxTracks
    BY <1>33, <1>t DEF ClientMembers
  <2>1. protocol' \in ProtocolMembers
    BY <1>33, <1>t, TryStopTyped DEF RemoveAll
  <2>2. downstream' \in DownstreamMembers
    BY <1>33, <1>t, <2>k, SkipUntilTyped DEF RemoveAll
  <2>3. client' \in ClientMembers
    <3>1. client.began \in 0 .. MaxTracks
      BY <1>33, <1>t DEF ClientMembers
    <3>2. [Returned EXCEPT !.removed = client.began] \in ClientMembers
      BY <1>33, <1>t, ReturnedTyped, <3>1 DEF ClientMembers
    <3>3. {"Next", "Kill"} \subseteq Operations /\ {"moving", "quitting"} \subseteq Progress
      BY DEF Operations, Progress
    <3> QED BY ZenonT(30), <1>33, <1>t, <3>1, <3>2, <3>3 DEF RemoveAll, ClientMembers
  <2>4. pc' \in Places
    BY <1>33, <1>t DEF RemoveAll, Places, Producing, Streaming
  <2> QED BY <1>33, <1>t, <1>u, <2>1, <2>2, <2>3, <2>4 DEF RemoveAll
<1>34. CASE PipelineStop
  <2>k. client.halt \in Nat
    BY <1>34, <1>t DEF ClientMembers
  <2>1. protocol' \in ProtocolMembers
    BY <1>34, <1>t, TryStopTyped DEF PipelineStop
  <2>2. downstream' \in DownstreamMembers
    BY <1>34, <1>t, <2>k, SkipUntilTyped, BeginStopLike DEF PipelineStop
  <2>3. client' \in ClientMembers
    BY <1>34, <1>t DEF PipelineStop, ClientMembers, Progress
  <2>4. pc' \in Places
    BY <1>34, <1>t DEF PipelineStop, Places, Producing, Streaming
  <2> QED BY <1>34, <1>t, <1>u, <2>1, <2>2, <2>3, <2>4 DEF PipelineStop
<1>35. CASE MoveNext
  <2>1. filler' \in FillerMembers
    <3>1. [filler EXCEPT !.iStopped = FALSE] \in FillerMembers
      BY <1>35, <1>t DEF FillerMembers
    <3> QED BY <1>35, <1>t, SignalledTyped, <3>1 DEF MoveNext
  <2>2. client' \in ClientMembers
    BY <1>35, <1>t, ReturnedTyped DEF MoveNext
  <2>3. pc' \in Places
    BY <1>35, <1>t DEF MoveNext, Places, Producing, Streaming
  <2> QED BY <1>35, <1>t, <1>u, <2>1, <2>2, <2>3 DEF MoveNext
<1>36. CASE Kill
  <2>1. filler' \in FillerMembers
    <3>1. [filler EXCEPT !.kill = TRUE] \in FillerMembers
      BY <1>36, <1>t DEF FillerMembers
    <3> QED BY <1>36, <1>t, SignalledTyped, <3>1 DEF Kill
  <2>2. pc' \in Places
    BY <1>36, <1>t DEF Kill, Places, Producing, Streaming
  <2> QED BY <1>36, <1>t, <1>u, <2>1, <2>2 DEF Kill
<1>37. CASE KillInterrupt
  <2>1. protocol' \in ProtocolMembers
    BY <1>37, <1>t, InterruptedTyped DEF KillInterrupt
  <2>2. client' \in ClientMembers
    BY <1>37, <1>t DEF KillInterrupt, ClientMembers, Progress
  <2>3. pc' \in Places
    BY <1>37, <1>t DEF KillInterrupt, Places, Producing, Streaming
  <2> QED BY <1>37, <1>t, <1>u, <2>1, <2>2, <2>3 DEF KillInterrupt
<1>38. CASE Join
  <2>1. client' \in ClientMembers
    BY <1>38, <1>t DEF Join, ClientMembers, Progress
  <2>2. pc' \in Places
    BY <1>38, <1>t DEF Join, Places, Producing, Streaming
  <2> QED BY <1>38, <1>t, <1>u, <2>1, <2>2 DEF Join
<1>39. CASE Begin
  <2>1. filler' \in FillerMembers
    <3>1. [filler EXCEPT !.iActiveUriProvider = TRUE, !.iStopped = FALSE] \in FillerMembers
      BY <1>39, <1>t DEF FillerMembers
    <3> QED BY <1>39, <1>t, SignalledTyped, <3>1 DEF Begin
  <2>2. client' \in ClientMembers
    <3>1. client.calls + 1 \in 0 .. MaxCalls
      BY <1>39, <1>t, NoneTyped DEF Begin, ClientMembers
    <3>2. "None" \in Operations
      BY DEF Operations
    <3> QED BY <1>39, <1>t, <3>1, <3>2 DEF Begin, ClientMembers
  <2>3. pc' \in Places
    BY <1>39, <1>t DEF Begin, Places, Producing, Streaming
  <2> QED BY <1>39, <1>t, <1>u, <2>1, <2>2, <2>3 DEF Begin
<1>40. CASE TrySeek
  <2>1. protocol' \in ProtocolMembers
    BY <1>40, <1>t DEF TrySeek, ProtocolMembers
  <2>2. pc' \in Places
    BY <1>40, <1>t DEF TrySeek, Places, Producing, Streaming
  <2> QED BY <1>40, <1>t, <1>u, <2>1, <2>2 DEF TrySeek
<1>41. ASSUME NEW op \in {"RemoveAll", "Stop"}, Call(op) PROVE TypeOK'
  <2>1. client' \in ClientMembers
    <3>1. client.calls + 1 \in 0 .. MaxCalls
      BY <1>41, <1>t, NoneTyped DEF Call, ClientMembers
    <3>2. op \in Operations /\ "stopping" \in Progress
      BY DEF Operations, Progress
    <3> QED BY <1>41, <1>t, <3>1, <3>2 DEF Call, ClientMembers
  <2> QED BY <1>41, <1>t, <1>u, <2>1 DEF Call
<1>42. CASE PullLastAudio
  <2>1. downstream' \in DownstreamMembers
    BY <1>42, <1>t, EnterLike DEF PullLastAudio, DownstreamMembers
  <2>2. pc' \in Places
    BY <1>42, <1>t DEF PullLastAudio
  <2> QED BY <1>42, <1>t, <1>u, <2>1, <2>2 DEF PullLastAudio
<1>43. CASE PipelineQuit
  <2>1. downstream' \in DownstreamMembers
    BY <1>43, <1>t, PlayingLike DEF PipelineQuit
  <2>2. client' \in ClientMembers
    BY <1>43, <1>t DEF PipelineQuit, ClientMembers, Progress
  <2>3. pc' \in Places
    BY <1>43, <1>t DEF PipelineQuit
  <2> QED BY <1>43, <1>t, <1>u, <2>1, <2>2, <2>3 DEF PipelineQuit
<1>44. CASE Play
  <2>1. downstream' \in DownstreamMembers
    BY <1>44, <1>t, PlayingLike DEF Play
  <2>2. client' \in ClientMembers
    BY <1>44, <1>t DEF Play, ClientMembers, Operations
  <2>3. pc' \in Places
    BY <1>44, <1>t DEF Play
  <2> QED BY <1>44, <1>t, <1>u, <2>1, <2>2, <2>3 DEF Play
<1> QED BY Steps, <1>42, <1>43, <1>44, <1>1, <1>2, <1>3, <1>4, <1>5, <1>6, <1>7, <1>8, <1>9, <1>10, <1>11, <1>12, <1>13, <1>14, <1>15, <1>16, <1>17, <1>18, <1>19, <1>20, <1>21, <1>22, <1>23, <1>24, <1>25, <1>26, <1>27, <1>28, <1>29, <1>30, <1>31, <1>32, <1>33, <1>34, <1>35, <1>36, <1>37, <1>38, <1>39, <1>40, <1>41
-----------------------------------------------------------------------------
(* What the queue of messages holds.                                       *)

StreamKinds == {"Stream", "LiveStream"}
Heard == StreamKinds \union {"Audio"}

HaltsUpTo(q, h) == \A i \in 1 .. Len(q) : q[i].kind = "Halt" => q[i].n <= h
TracksUpTo(q, t) == \A i \in 1 .. Len(q) : q[i].kind \in Content => q[i].n = NullTrack \/ q[i].n <= t
Silent(q, t) == \A i \in 1 .. Len(q) : q[i].kind = "Audio" => q[i].n # t
(* Audio follows its stream, or other audio of it. *)
Of(m, t) == m.kind \in Heard /\ m.n = t
AudioFollows(q) == \A i \in 1 .. Len(q) : i > 1 /\ q[i].kind = "Audio" => Of(q[i - 1], q[i].n)
(* No stream up to b lies behind a halt from h on. *)
NoneBehind(q, h, b) ==
    \A i, j \in 1 .. Len(q) : i < j /\ q[i].kind = "Halt" /\ q[j].kind \in Heard /\ q[j].n <= b => q[i].n < h
Above(q, b) == \A i \in 1 .. Len(q) : q[i].kind \in Heard => q[i].n > b

LEMMA AppendIndex ==
  ASSUME NEW q \in Seq(Msgs), NEW m \in Msgs
  PROVE  /\ Append(q, m) \in Seq(Msgs) /\ Len(Append(q, m)) = Len(q) + 1 /\ Len(q) \in Nat
         /\ Append(q, m)[Len(q) + 1] = m
         /\ \A i \in 1 .. Len(q) : Append(q, m)[i] = q[i]
  OBVIOUS
LEMMA TailIndex ==
  ASSUME NEW q \in Seq(Msgs), q # << >>
  PROVE  /\ Tail(q) \in Seq(Msgs) /\ Len(q) \in Nat \ {0} /\ Len(Tail(q)) = Len(q) - 1 /\ Head(q) = q[1]
         /\ \A i \in 1 .. Len(q) - 1 : Tail(q)[i] = q[i + 1]
  OBVIOUS

LEMMA Appended ==
  ASSUME NEW q \in Seq(Msgs), NEW m \in Msgs, NEW r, r = Append(q, m)
  PROVE  /\ \A h \in Nat : HaltsUpTo(q, h) /\ (m.kind = "Halt" => m.n <= h) => HaltsUpTo(r, h)
         /\ \A t \in Nat : TracksUpTo(q, t) /\ (m.kind \in Content => m.n = NullTrack \/ m.n <= t) => TracksUpTo(r, t)
         /\ \A t : Silent(q, t) /\ (m.kind = "Audio" => m.n # t) => Silent(r, t)
         /\ AudioFollows(q) /\ (m.kind = "Audio" /\ q # << >> => Of(q[Len(q)], m.n)) => AudioFollows(r)
         /\ \A h, b \in Nat : NoneBehind(q, h, b) /\ (m.kind \in Heard /\ m.n <= b => HaltsUpTo(q, h - 1)) => NoneBehind(r, h, b)
         /\ \A b \in Nat : Above(q, b) /\ (m.kind \in Heard => m.n > b) => Above(r, b)
<1>1. /\ Len(r) = Len(q) + 1 /\ Len(q) \in Nat /\ r[Len(q) + 1] = m
      /\ \A i \in 1 .. Len(q) : r[i] = q[i]
  BY AppendIndex
<1>2. q = << >> <=> Len(q) = 0
  OBVIOUS
<1>3. \A h \in Nat : HaltsUpTo(q, h) /\ (m.kind = "Halt" => m.n <= h) => HaltsUpTo(r, h)
  BY <1>1 DEF HaltsUpTo
<1>4. \A t \in Nat : TracksUpTo(q, t) /\ (m.kind \in Content => m.n = NullTrack \/ m.n <= t) => TracksUpTo(r, t)
  BY <1>1 DEF TracksUpTo
<1>5. \A t : Silent(q, t) /\ (m.kind = "Audio" => m.n # t) => Silent(r, t)
  BY <1>1 DEF Silent
<1>6. AudioFollows(q) /\ (m.kind = "Audio" /\ q # << >> => Of(q[Len(q)], m.n)) => AudioFollows(r)
  BY <1>1, <1>2 DEF AudioFollows
<1>7. \A h, b \in Nat : NoneBehind(q, h, b) /\ (m.kind \in Heard /\ m.n <= b => HaltsUpTo(q, h - 1)) => NoneBehind(r, h, b)
  <2> SUFFICES ASSUME NEW h \in Nat, NEW b \in Nat, NoneBehind(q, h, b),
                      m.kind \in Heard /\ m.n <= b => HaltsUpTo(q, h - 1),
                      NEW i \in 1 .. Len(r), NEW j \in 1 .. Len(r), i < j,
                      r[i].kind = "Halt", r[j].kind \in Heard, r[j].n <= b
               PROVE  r[i].n < h
    BY DEF NoneBehind
  <2>1. i \in 1 .. Len(q) /\ r[i] = q[i]
    BY <1>1
  <2>2. CASE j \in 1 .. Len(q)
    BY <2>1, <2>2, <1>1 DEF NoneBehind
  <2>3. CASE j = Len(q) + 1
    <3>1. r[i].n <= h - 1
      BY <2>1, <2>3, <1>1 DEF HaltsUpTo
    <3>2. r[i].n \in Nat
      BY <2>1, MsgTyped
    <3> QED BY <3>1, <3>2
  <2> QED BY <2>2, <2>3, <1>1
<1>8. \A b \in Nat : Above(q, b) /\ (m.kind \in Heard => m.n > b) => Above(r, b)
  BY <1>1 DEF Above
<1> QED BY <1>3, <1>4, <1>5, <1>6, <1>7, <1>8

LEMMA Pulled ==
  ASSUME NEW q \in Seq(Msgs), q # << >>, NEW r, r = Tail(q)
  PROVE  /\ \A h : HaltsUpTo(q, h) => HaltsUpTo(r, h) /\ (Head(q).kind = "Halt" => Head(q).n <= h)
         /\ \A t : TracksUpTo(q, t) => TracksUpTo(r, t) /\ (Head(q).kind \in Content => Head(q).n = NullTrack \/ Head(q).n <= t)
         /\ \A t : Silent(q, t) => Silent(r, t) /\ (Head(q).kind = "Audio" => Head(q).n # t)
         /\ AudioFollows(q) => AudioFollows(r) /\ (r # << >> /\ r[1].kind = "Audio" => Of(Head(q), r[1].n))
         /\ \A h, b : NoneBehind(q, h, b) => NoneBehind(r, h, b)
         /\ \A h, b \in Nat : NoneBehind(q, h, b) /\ Head(q) = Msg("Halt", h) => Above(r, b)
         /\ \A b : Above(q, b) => Above(r, b) /\ (Head(q).kind \in Heard => Head(q).n > b)
         /\ r # << >> => r[Len(r)] = q[Len(q)]
<1>1. /\ Len(q) \in Nat \ {0} /\ Len(r) = Len(q) - 1 /\ Head(q) = q[1]
      /\ \A i \in 1 .. Len(q) - 1 : r[i] = q[i + 1]
  BY TailIndex
<1>2. r = << >> <=> Len(r) = 0
  BY TailIndex
<1>3. \A h : HaltsUpTo(q, h) => HaltsUpTo(r, h) /\ (Head(q).kind = "Halt" => Head(q).n <= h)
  BY <1>1 DEF HaltsUpTo
<1>4. \A t : TracksUpTo(q, t) => TracksUpTo(r, t) /\ (Head(q).kind \in Content => Head(q).n = NullTrack \/ Head(q).n <= t)
  BY <1>1 DEF TracksUpTo
<1>5. \A t : Silent(q, t) => Silent(r, t) /\ (Head(q).kind = "Audio" => Head(q).n # t)
  BY <1>1 DEF Silent
<1>6. AudioFollows(q) => AudioFollows(r) /\ (r # << >> /\ r[1].kind = "Audio" => Of(Head(q), r[1].n))
  <2>1. AudioFollows(q) => AudioFollows(r)
    <3> SUFFICES ASSUME AudioFollows(q), NEW i \in 1 .. Len(r), i > 1, r[i].kind = "Audio"
                 PROVE  Of(r[i - 1], r[i].n)
      BY DEF AudioFollows
    <3>1. r[i] = q[i + 1] /\ r[i - 1] = q[i] /\ i + 1 \in 1 .. Len(q) /\ i + 1 > 1 /\ (i + 1) - 1 = i
      BY <1>1
    <3> QED BY <3>1 DEF AudioFollows
  <2>2. AudioFollows(q) /\ r # << >> /\ r[1].kind = "Audio" => Of(q[1], r[1].n)
    <3>1. r # << >> => 2 \in 1 .. Len(q) /\ r[1] = q[2] /\ 2 > 1 /\ 2 - 1 = 1
      BY <1>1, <1>2
    <3> QED BY <3>1 DEF AudioFollows
  <2> QED BY <2>1, <2>2, <1>1
<1>7. \A h, b : NoneBehind(q, h, b) => NoneBehind(r, h, b)
  BY <1>1 DEF NoneBehind
<1>8. \A h, b \in Nat : NoneBehind(q, h, b) /\ Head(q) = Msg("Halt", h) => Above(r, b)
  <2> SUFFICES ASSUME NEW h \in Nat, NEW b \in Nat, NoneBehind(q, h, b), Head(q) = Msg("Halt", h),
                      NEW i \in 1 .. Len(r), r[i].kind \in Heard
               PROVE  r[i].n > b
    BY DEF Above
  <2>1. r[i] = q[i + 1] /\ 1 < i + 1 /\ i + 1 \in 1 .. Len(q) /\ 1 \in 1 .. Len(q)
    BY <1>1
  <2>2. q[1].kind = "Halt" /\ q[1].n = h
    BY <1>1 DEF Msg
  <2>3. ~(r[i].n <= b)
    BY <2>1, <2>2 DEF NoneBehind
  <2>4. r[i].n \in Nat
    <3>1. r[i] \in Msgs
      BY <2>1
    <3>2. r[i].n \in Streams
      BY <3>1, MsgTyped DEF Heard, StreamKinds, Content
    <3> QED BY <3>2, NoneTyped DEF Streams, Tracks, NullTrack
  <2> QED BY <2>3, <2>4
<1>9. \A b : Above(q, b) => Above(r, b) /\ (Head(q).kind \in Heard => Head(q).n > b)
  BY <1>1 DEF Above
<1>10. r # << >> => r[Len(r)] = q[Len(q)]
  BY <1>1, <1>2
<1> QED BY <1>3, <1>4, <1>5, <1>6, <1>7, <1>8, <1>9, <1>10

-----------------------------------------------------------------------------
(* The invariant, beside the types and the places.                         *)

InCall == {"interrupting", "invalidating", "removing", "halting", "killing"}

(* What the call under way has been told, and when it may interrupt.       *)
CallInv ==
    /\ client.at = "interrupting" => filler.iWaitingForAudio
    /\ client.at \in InCall => client.halt = filler.iNextHaltId
    /\ client.began <= filler.iTrack /\ client.removed <= filler.iTrack

(* Halts are pushed in the order they are promised.                        *)
HaltInv ==
    /\ filler.iPendingHaltId \in {NoHalt, filler.iNextHaltId}
    /\ downstream.skip <= filler.iNextHaltId
    /\ HaltsUpTo(pipe, filler.iNextHaltId)
    /\ filler.iPendingHaltId # NoHalt => HaltsUpTo(pipe, filler.iNextHaltId - 1)

(* Audio comes after its stream, with no other stream and no halt between. *)
OrderInv ==
    /\ TracksUpTo(pipe, filler.iTrack)
    /\ AudioFollows(pipe)
    /\ pipe # << >> /\ pipe[1].kind = "Audio" /\ downstream.skip = NoHalt => downstream.stream = pipe[1].n
    /\ pc \in Streaming \ {"announce", "output"} =>
         /\ pipe = << >> /\ downstream.skip = NoHalt => downstream.stream = filler.iTrack
         /\ pipe # << >> => Of(pipe[Len(pipe)], filler.iTrack)

(* While audio is awaited none of the track is on its way, so it cannot be *)
(* sought.                                                                 *)
Awaiting == {"begin", "ready", "activate", "open", "announce"}
Unheard == /\ Silent(pipe, filler.iTrack)
           /\ ~(downstream.decoded /\ downstream.stream = filler.iTrack)
           /\ ~protocol.iSeek
HeardInv ==
    /\ downstream.decoded => downstream.stream # NoTrack
    /\ downstream.stream = NullTrack \/ downstream.stream <= filler.iTrack
    /\ filler.iWaitingForAudio \/ pc \in Awaiting => Unheard
    /\ pc = "pushaudio" => ~filler.iWaitingForAudio

(* A thread that sleeps has been woken, or owes nothing.                   *)
WokenInv ==
    pc = "wait" /\ filler.signals = 0 /\ client.at # "interrupting"
       => filler.iPendingHaltId = NoHalt /\ filler.iStopped

(* What a call removes, or has removed, lies before its halt.              *)
Removing(h, b) ==
    /\ NoneBehind(pipe, h, b)
    /\ pc \in Producing /\ filler.iTrack <= b => HaltsUpTo(pipe, h - 1)
Gone == /\ Above(pipe, client.removed)
        /\ pc \in Producing => filler.iTrack > client.removed
RemovedInv ==
    /\ client.at \in InCall \ {"killing"} => Removing(client.halt, client.began)
    /\ downstream.skip # NoHalt => ~downstream.granted /\ Removing(downstream.skip, client.removed)
    /\ downstream.skip = NoHalt => Gone
    /\ downstream.granted => downstream.stream > client.removed

IInv == TypeOK /\ PlaceInv /\ CallInv /\ HaltInv /\ OrderInv /\ HeardInv /\ WokenInv /\ RemovedInv

(* What the steps of the thread, and all others, leave alone.              *)
LEMMA ThreadFrame ==
  ASSUME TypeOK, Thread \/ StreamEnds
  PROVE  /\ UNCHANGED <<downstream, client, filler.iNextHaltId>>
         /\ filler'.iTrack \in {filler.iTrack, filler.iTrack + 1}
<1>1. filler \in FillerMembers
  BY DEF TypeOK
<1>2. CASE filler' = filler
  BY <1>1, <1>2 DEF Thread, StreamEnds, Wait, PushPromised, GetNext, NullTrackPushed, NullTrackAnnounced,
     NullStreamPushed, BeginTrack, CheckForKill, Quitting, OutputTrack, Activate, StartStream, Announce,
     OutputStream, LiveWait, OutputAudio, PushAudio, SeekBegins, SeekFlushed, StreamStopped
<1>3. CASE Wait \/ PushPromised \/ GetNext \/ BeginTrack \/ Quitting \/ OutputTrack \/ Announce \/ OutputAudio
  BY <1>1, <1>3 DEF FillerMembers, Wait, PushPromised, GetNext, BeginTrack, Quitting, OutputTrack, Announce,
     OutputAudio
<1> QED BY <1>2, <1>3 DEF Thread, StreamEnds, NullTrackPushed, NullTrackAnnounced, NullStreamPushed, CheckForKill,
     Activate, StartStream, OutputStream, LiveWait, PushAudio, SeekBegins, SeekFlushed, StreamStopped

Others == \/ Consumer \/ PullLastAudio \/ RampCompleted \/ CallSteps \/ Begin \/ Play \/ TrySeek
          \/ \E op \in {"RemoveAll", "Stop"} : Call(op)

(* Steps that only concern Stopper, and all that change downstream.        *)
StopperOnly == PullLastAudio \/ PipelineQuit \/ Play

LEMMA StopperFrame ==
  ASSUME TypeOK, StopperOnly
  PROVE  /\ UNCHANGED <<filler, pc, protocol, pipe, pending>> /\ Like(downstream, downstream')
         /\ client'.at \in {client.at, "stopping"} /\ (client'.at = client.at \/ client.at = "quitting")
         /\ client'.halt = client.halt /\ client'.began = client.began /\ client'.removed = client.removed
<1>t. downstream \in DownstreamMembers /\ client \in ClientMembers
  BY DEF TypeOK
<1>1. Like(downstream, downstream')
  <2>1. CASE PullLastAudio
    <3>1. "Stopped" \in States
      BY DEF States
    <3> QED BY <1>t, <2>1, <3>1, EnterLike DEF PullLastAudio
  <2>2. CASE PipelineQuit \/ Play
    BY <1>t, <2>2, PlayingLike DEF PipelineQuit, Play
  <2> QED BY <2>1, <2>2 DEF StopperOnly
<1>2. UNCHANGED <<filler, pc, protocol, pipe, pending>>
  BY DEF StopperOnly, PullLastAudio, PipelineQuit, Play
<1>3. /\ client'.at \in {client.at, "stopping"} /\ (client'.at = client.at \/ client.at = "quitting")
      /\ client'.halt = client.halt /\ client'.began = client.began /\ client'.removed = client.removed
  BY <1>t DEF StopperOnly, PullLastAudio, PipelineQuit, Play, ClientMembers
<1> QED BY <1>1, <1>2, <1>3

LEMMA DownstreamSteps ==
  ASSUME Others
  PROVE  \/ UNCHANGED downstream \/ PullTrack \/ PullStream \/ PullLiveStream \/ PullAudio \/ PullHalt
         \/ RampCompleted \/ StopperOnly \/ RemoveAll \/ PipelineStop
  BY DEF Others, Consumer, CallSteps, Discard, PullQuit, StopLocked, Interrupt, InvalidatePending, MoveNext, Kill,
     KillInterrupt, Join, Begin, TrySeek, Call, StopperOnly

(* What becomes of Skipper's part of it, and of the stream.                *)
LEMMA DownstreamAfter ==
  ASSUME TypeOK
  PROVE  /\ PullTrack => /\ downstream'.skip = downstream.skip /\ downstream'.halted = downstream.halted
                         /\ downstream'.stream = NoTrack /\ ~downstream'.decoded /\ ~downstream'.granted
         /\ PullStream => /\ downstream'.skip = downstream.skip /\ downstream'.halted = downstream.halted
                          /\ downstream'.stream = Head(pipe).n /\ ~downstream'.decoded
         /\ PullLiveStream => /\ downstream'.skip = downstream.skip /\ downstream'.halted = downstream.halted
                              /\ downstream'.stream = Head(pipe).n /\ ~downstream'.decoded
         /\ PullAudio => /\ downstream'.skip = downstream.skip /\ downstream'.halted = downstream.halted
                         /\ downstream'.stream = downstream.stream
         /\ PullHalt => /\ downstream'.halted = Head(pipe).n
                        /\ downstream'.skip = IF downstream.skip = Head(pipe).n THEN NoHalt ELSE downstream.skip
                        /\ downstream'.stream = downstream.stream /\ downstream'.decoded = downstream.decoded
                        /\ downstream'.granted = downstream.granted
         /\ RampCompleted => /\ downstream'.skip = downstream.skip /\ downstream'.halted = downstream.halted
                             /\ downstream'.stream = downstream.stream /\ downstream'.decoded = downstream.decoded
                             /\ ~downstream'.granted
         /\ RemoveAll => /\ downstream'.skip = client.halt /\ downstream'.halted = downstream.halted
                         /\ downstream'.stream = downstream.stream
                         /\ ~downstream'.decoded /\ ~downstream'.granted
         /\ PipelineStop => /\ downstream'.halted = downstream.halted /\ downstream'.stream = downstream.stream
                            /\ \/ /\ downstream'.skip = client.halt
                                  /\ ~downstream'.decoded /\ ~downstream'.granted
                               \/ /\ downstream'.skip = downstream.skip /\ downstream'.decoded = downstream.decoded
                                  /\ downstream'.granted = downstream.granted
<1>t. downstream \in DownstreamMembers /\ client.halt \in Nat
  BY DEF TypeOK, ClientMembers
<1>1. ASSUME PullTrack
      PROVE  /\ downstream'.skip = downstream.skip /\ downstream'.halted = downstream.halted
             /\ downstream'.stream = NoTrack /\ ~downstream'.decoded /\ ~downstream'.granted
  BY <1>1, <1>t DEF PullTrack, Enter, DownstreamMembers
<1>2. ASSUME PullStream
      PROVE  /\ downstream'.skip = downstream.skip /\ downstream'.halted = downstream.halted
             /\ downstream'.stream = Head(pipe).n /\ ~downstream'.decoded
  BY <1>2, <1>t DEF PullStream, Enter, DownstreamMembers
<1>3. ASSUME PullLiveStream
      PROVE  /\ downstream'.skip = downstream.skip /\ downstream'.halted = downstream.halted
             /\ downstream'.stream = Head(pipe).n /\ ~downstream'.decoded
  BY <1>3, <1>t DEF PullLiveStream, Enter, DownstreamMembers
<1>4. ASSUME PullAudio
      PROVE  /\ downstream'.skip = downstream.skip /\ downstream'.halted = downstream.halted
             /\ downstream'.stream = downstream.stream
  BY <1>4, <1>t DEF PullAudio, Enter, DownstreamMembers
<1>5. ASSUME PullHalt
      PROVE  /\ downstream'.halted = Head(pipe).n
             /\ downstream'.skip = IF downstream.skip = Head(pipe).n THEN NoHalt ELSE downstream.skip
             /\ downstream'.stream = downstream.stream /\ downstream'.decoded = downstream.decoded
             /\ downstream'.granted = downstream.granted
  BY <1>5, <1>t DEF PullHalt, Enter, DownstreamMembers
<1>6. ASSUME RampCompleted
      PROVE  /\ downstream'.skip = downstream.skip /\ downstream'.halted = downstream.halted
             /\ downstream'.stream = downstream.stream /\ downstream'.decoded = downstream.decoded
             /\ ~downstream'.granted
  BY <1>6, <1>t DEF RampCompleted, DownstreamMembers
<1>7. ASSUME RemoveAll
      PROVE  /\ downstream'.skip = client.halt /\ downstream'.halted = downstream.halted
             /\ downstream'.stream = downstream.stream
             /\ ~downstream'.decoded /\ ~downstream'.granted
  BY <1>7, <1>t, SkipUntilTyped DEF RemoveAll
<1>8. ASSUME PipelineStop
      PROVE  /\ downstream'.halted = downstream.halted /\ downstream'.stream = downstream.stream
             /\ \/ /\ downstream'.skip = client.halt
                   /\ ~downstream'.decoded /\ ~downstream'.granted
                \/ /\ downstream'.skip = downstream.skip /\ downstream'.decoded = downstream.decoded
                   /\ downstream'.granted = downstream.granted
  <2>1. CASE BeginStop(SkipUntil(client.halt))
    BY <2>1, <1>t, SkipUntilTyped, BeginStopLike DEF Like
  <2>2. CASE BeginStop(downstream)
    BY <2>2, <1>t, BeginStopLike DEF Like
  <2> QED BY <1>8, <2>1, <2>2 DEF PipelineStop
<1> QED BY <1>1, <1>2, <1>3, <1>4, <1>5, <1>6, <1>7, <1>8

LEMMA ProtocolFrame ==
  ASSUME protocol \in ProtocolMembers, NEW s
  PROVE  /\ TryStop(protocol, s).iStreamId = protocol.iStreamId /\ TryStop(protocol, s).iSeek = protocol.iSeek
         /\ Interrupted(protocol).iStreamId = protocol.iStreamId /\ Interrupted(protocol).iSeek = protocol.iSeek
         /\ Answered(s).iStreamId = protocol.iStreamId /\ Answered(s).iSeek = protocol.iSeek
  BY DEF TryStop, Interrupted, Answered, iQuit, ProtocolMembers

(* StopLocked, Interrupt and the rest say when the thread may sleep on.    *)
LEMMA OthersFrame ==
  ASSUME TypeOK, Others
  PROVE  /\ UNCHANGED <<pc, filler.iTrack, protocol.iStreamId>>
         /\ TrySeek \/ UNCHANGED protocol.iSeek
<1>1. filler \in FillerMembers /\ protocol \in ProtocolMembers
  BY DEF TypeOK
<1>s. CASE StopperOnly
  BY <1>s, StopperFrame
<1>2. pc' = pc
  BY <1>s DEF StopperOnly, Others, Consumer, CallSteps, Discard, PullTrack, PullStream, PullLiveStream, PullAudio, PullHalt, PullQuit,
     RampCompleted, StopLocked, Interrupt, InvalidatePending, RemoveAll, PipelineStop, MoveNext, Kill,
     KillInterrupt, Join, Begin, TrySeek, Call
<1>3. filler'.iTrack = filler.iTrack
  BY <1>1, <1>s DEF StopperOnly, FillerMembers, Signalled, Others, Consumer, CallSteps, Discard, PullTrack, PullStream, PullLiveStream,
     PullAudio, PullHalt, PullQuit, RampCompleted, StopLocked, Interrupt, InvalidatePending, RemoveAll,
     PipelineStop, MoveNext, Kill, KillInterrupt, Join, Begin, TrySeek, Call
<1>4. protocol'.iStreamId = protocol.iStreamId /\ (TrySeek \/ protocol'.iSeek = protocol.iSeek)
  <2>1. CASE TrySeek
    BY <1>1, <2>1 DEF TrySeek, ProtocolMembers
  <2>2. CASE Discard
    <3> DEFINE told == TryStop(protocol, Head(pipe).n)
    <3>1. told \in ProtocolMembers /\ told.iStreamId = protocol.iStreamId /\ told.iSeek = protocol.iSeek
      BY <1>1, TryStopTyped, ProtocolFrame
    <3>2. protocol' \in {protocol, told, [told EXCEPT !.iSem = TRUE]}
      BY <2>2 DEF Discard
    <3> HIDE DEF told
    <3> QED BY <3>1, <3>2 DEF ProtocolMembers
  <2>3. CASE PullTrack \/ PullLiveStream \/ PullAudio \/ RampCompleted
    BY <1>1, <2>3, ProtocolFrame DEF PullTrack, PullLiveStream, PullAudio, RampCompleted, AskUnlessChecked, AskStream
  <2>4. CASE Interrupt \/ KillInterrupt \/ RemoveAll \/ PipelineStop
    BY <1>1, <2>4, ProtocolFrame DEF Interrupt, KillInterrupt, RemoveAll, PipelineStop
  <2>5. CASE protocol' = protocol
    BY <2>5
  <2> QED BY <2>1, <2>2, <2>3, <2>4, <2>5, <1>s DEF StopperOnly, Others, Consumer, CallSteps, PullStream, PullHalt, PullQuit, StopLocked,
     InvalidatePending, MoveNext, Kill, Join, Begin, Call
<1> QED BY <1>2, <1>3, <1>4

LEMMA TwoKinds == Next <=> Thread \/ StreamEnds \/ Others
  BY DEF Next, Others

LEMMA PlaceKept == TypeOK /\ PlaceInv /\ HeardInv /\ Next => PlaceInv'
<1> SUFFICES ASSUME TypeOK, PlaceInv, HeardInv, Next PROVE PlaceInv'
  OBVIOUS
<1>t. filler \in FillerMembers /\ protocol \in ProtocolMembers
  BY DEF TypeOK
<1>1. CASE Wait
  BY <1>1, <1>t, BoundAssumption DEF Wait, PlaceInv, Producing, Streaming, FillerMembers, ProtocolMembers, NoTrack
<1>2. CASE PushPromised
  BY <1>2, <1>t, BoundAssumption DEF PushPromised, PlaceInv, Producing, Streaming, FillerMembers, ProtocolMembers, NoTrack
<1>3. CASE GetNext
  BY <1>3, <1>t, BoundAssumption DEF GetNext, PlaceInv, Producing, Streaming, FillerMembers, ProtocolMembers, NoTrack
<1>4. CASE NullTrackPushed
  BY <1>4, <1>t, BoundAssumption DEF NullTrackPushed, PlaceInv, Producing, Streaming, FillerMembers, ProtocolMembers, NoTrack
<1>5. CASE NullTrackAnnounced
  BY <1>5, <1>t, BoundAssumption DEF NullTrackAnnounced, PlaceInv, Producing, Streaming, FillerMembers, ProtocolMembers, NoTrack
<1>6. CASE NullStreamPushed
  BY <1>6, <1>t, BoundAssumption DEF NullStreamPushed, PlaceInv, Producing, Streaming, FillerMembers, ProtocolMembers, NoTrack
<1>7. CASE BeginTrack
  BY <1>7, <1>t, BoundAssumption DEF BeginTrack, PlaceInv, Producing, Streaming, FillerMembers, ProtocolMembers, NoTrack
<1>8. CASE CheckForKill
  BY <1>8, <1>t, BoundAssumption DEF CheckForKill, PlaceInv, Producing, Streaming, FillerMembers, ProtocolMembers, NoTrack
<1>9. CASE Quitting
  BY <1>9, <1>t, BoundAssumption DEF Quitting, PlaceInv, Producing, Streaming, FillerMembers, ProtocolMembers, NoTrack
<1>10. CASE OutputTrack
  BY <1>10, <1>t, BoundAssumption DEF OutputTrack, PlaceInv, Producing, Streaming, FillerMembers, ProtocolMembers, NoTrack
<1>11. CASE Activate
  BY <1>11, <1>t, BoundAssumption DEF Activate, Inactive, PlaceInv, Producing, Streaming, FillerMembers, ProtocolMembers, NoTrack
<1>12. CASE StartStream
  <2>1. CASE Deactivated
    BY <1>12, <2>1, <1>t, BoundAssumption DEF StartStream, Inactive, Deactivated, PlaceInv, Producing, Streaming,
       FillerMembers, ProtocolMembers, NoTrack
  <2>2. CASE ~Deactivated
    <3>1. PICK live \in BOOLEAN : protocol' = [protocol EXCEPT !.iStreamId = filler.iTrack, !.iLive = live]
      BY <1>12, <2>2 DEF StartStream
    <3>2. filler' = filler /\ pc = "open" /\ pc' = "announce"
      BY <1>12, <2>2 DEF StartStream
    <3>3. protocol'.iStreamId = filler.iTrack /\ filler.iTrack # NoTrack
      BY <1>t, <3>1, <3>2 DEF ProtocolMembers, PlaceInv, Producing
    <3> QED BY <3>2, <3>3 DEF PlaceInv, Producing, Streaming
  <2> QED BY <2>1, <2>2
<1>13. CASE Announce
  BY <1>13, <1>t, BoundAssumption DEF Announce, PlaceInv, Producing, Streaming, FillerMembers, ProtocolMembers, NoTrack
<1>14. CASE OutputStream
  BY <1>14, <1>t, BoundAssumption DEF OutputStream, PlaceInv, Producing, Streaming, FillerMembers, ProtocolMembers, NoTrack
<1>15. CASE LiveWait
  BY <1>15, <1>t, BoundAssumption DEF LiveWait, Inactive, Deactivated, PlaceInv, Producing, Streaming, FillerMembers, ProtocolMembers, NoTrack
<1>16. CASE OutputAudio
  BY <1>16, <1>t, BoundAssumption DEF OutputAudio, PlaceInv, Producing, Streaming, FillerMembers, ProtocolMembers, NoTrack
<1>17. CASE PushAudio
  BY <1>17, <1>t, BoundAssumption DEF PushAudio, PlaceInv, Producing, Streaming, FillerMembers, ProtocolMembers, NoTrack
<1>18. CASE SeekBegins
  BY <1>18, <1>t, BoundAssumption DEF SeekBegins, PlaceInv, Producing, Streaming, FillerMembers, ProtocolMembers, NoTrack
<1>19. CASE SeekFlushed
  BY <1>19, <1>t, BoundAssumption DEF SeekFlushed, PlaceInv, Producing, Streaming, FillerMembers, ProtocolMembers, NoTrack
<1>20. CASE StreamStopped
  BY <1>20, <1>t, BoundAssumption DEF StreamStopped, Inactive, Deactivated, PlaceInv, Producing, Streaming, FillerMembers, ProtocolMembers, NoTrack
<1>21. CASE StreamEnds
  BY <1>21, <1>t, BoundAssumption DEF StreamEnds, Inactive, Deactivated, PlaceInv, Producing, Streaming, FillerMembers, ProtocolMembers, NoTrack
<1>22. CASE Others /\ ~TrySeek
  BY <1>22, OthersFrame DEF PlaceInv
<1>23. CASE TrySeek
  <2>1. protocol.iStreamId # NoTrack
    BY <1>23 DEF TrySeek, HeardInv
  <2> QED BY <1>23, <1>t, <2>1 DEF TrySeek, PlaceInv, ProtocolMembers
<1> QED BY Steps, TwoKinds, <1>1, <1>2, <1>3, <1>4, <1>5, <1>6, <1>7, <1>8, <1>9, <1>10, <1>11, <1>12, <1>13, <1>14, <1>15, <1>16, <1>17, <1>18, <1>19, <1>20, <1>21, <1>22, <1>23 DEF Thread


LEMMA Later ==
  ASSUME NEW q \in Seq(Msgs), NEW h \in Nat, NEW g \in Nat, h <= g
  PROVE  /\ HaltsUpTo(q, h) => HaltsUpTo(q, g)
         /\ HaltsUpTo(q, h - 1) => HaltsUpTo(q, g - 1)
         /\ \A b : NoneBehind(q, h, b) => NoneBehind(q, g, b)
         /\ \A b : HaltsUpTo(q, h - 1) => NoneBehind(q, h, b)
         /\ \A b \in Nat : Above(q, b) => NoneBehind(q, h, b)
<1>1. \A i \in 1 .. Len(q) : q[i].kind = "Halt" => q[i].n \in Nat
  BY MsgTyped
<1>2. \A i \in 1 .. Len(q) : q[i].kind \in Heard => q[i].n \in Nat
  <2> SUFFICES ASSUME NEW i \in 1 .. Len(q), q[i].kind \in Heard PROVE q[i].n \in Nat
    OBVIOUS
  <2>1. q[i] \in Msgs /\ q[i].kind \in Content
    BY DEF Heard, StreamKinds, Content
  <2> QED BY <2>1, MsgTyped, NoneTyped DEF Streams, Tracks, NullTrack
<1>3. HaltsUpTo(q, h) => HaltsUpTo(q, g)
  BY <1>1 DEF HaltsUpTo
<1>4. HaltsUpTo(q, h - 1) => HaltsUpTo(q, g - 1)
  BY <1>1 DEF HaltsUpTo
<1>5. \A b : NoneBehind(q, h, b) => NoneBehind(q, g, b)
  BY <1>1 DEF NoneBehind
<1>6. \A b : HaltsUpTo(q, h - 1) => NoneBehind(q, h, b)
  BY <1>1 DEF NoneBehind, HaltsUpTo
<1>7. \A b \in Nat : Above(q, b) => NoneBehind(q, h, b)
  BY <1>2 DEF NoneBehind, Above
<1> QED BY <1>3, <1>4, <1>5, <1>6, <1>7

(* What a halt, and the MsgQuit after it, do to the queue.                 *)
LEMMA HaltPushed ==
  ASSUME TypeOK, NEW r, r \in {WithHalt, Append(WithHalt, Msg("Quit", 0))}
  PROVE  /\ \A h \in Nat : HaltsUpTo(pipe, h) /\ filler.iPendingHaltId <= h => HaltsUpTo(r, h)
         /\ \A t \in Nat : TracksUpTo(pipe, t) => TracksUpTo(r, t)
         /\ \A t : Silent(pipe, t) => Silent(r, t)
         /\ AudioFollows(pipe) => AudioFollows(r)
         /\ \A h, b \in Nat : NoneBehind(pipe, h, b) => NoneBehind(r, h, b)
         /\ \A b \in Nat : Above(pipe, b) => Above(r, b)
         /\ r # << >> /\ r[1].kind = "Audio" => pipe # << >> /\ r[1] = pipe[1]
<1> DEFINE Keeps(q, s) ==
         /\ \A h \in Nat : HaltsUpTo(q, h) /\ filler.iPendingHaltId <= h => HaltsUpTo(s, h)
         /\ \A t \in Nat : TracksUpTo(q, t) => TracksUpTo(s, t)
         /\ \A t : Silent(q, t) => Silent(s, t)
         /\ AudioFollows(q) => AudioFollows(s)
         /\ \A h, b \in Nat : NoneBehind(q, h, b) => NoneBehind(s, h, b)
         /\ \A b \in Nat : Above(q, b) => Above(s, b)
         /\ s # << >> /\ s[1].kind = "Audio" => q # << >> /\ s[1] = q[1]
<1>t. pipe \in Seq(Msgs) /\ filler \in FillerMembers
  BY DEF TypeOK
<1>1. ASSUME NEW q \in Seq(Msgs), NEW m \in Msgs, NEW s, s = Append(q, m), m.kind \notin Content,
             m.kind = "Halt" => m.n = filler.iPendingHaltId
      PROVE  Keeps(q, s)
  <2>1. m.kind # "Audio" /\ m.kind \notin Heard
    BY <1>1 DEF Content, Heard, StreamKinds
  <2>2. (q # << >> /\ s[1] = q[1]) \/ s[1] = m
    <3>1. Len(q) \in Nat /\ (q = << >> <=> Len(q) = 0)
      OBVIOUS
    <3> QED BY <3>1, <1>1, AppendIndex
  <2> QED BY <1>1, <2>1, <2>2, Appended
<1>2. WithHalt \in Seq(Msgs)
  BY <1>t, WithHaltTyped
<1>3. Keeps(pipe, WithHalt)
  <2>1. CASE filler.iPendingHaltId = NoHalt
    BY <2>1 DEF WithHalt
  <2>2. CASE filler.iPendingHaltId # NoHalt
    <3>1. Msg("Halt", filler.iPendingHaltId) \in Msgs
      <4>1. filler.iPendingHaltId \in Nat \ {NoHalt}
        BY <2>2, <1>t DEF FillerMembers
      <4> QED BY <4>1 DEF Msg, Msgs
    <3>2. "Halt" \notin Content
      BY DEF Content
    <3>3. Msg("Halt", filler.iPendingHaltId).kind = "Halt" /\ Msg("Halt", filler.iPendingHaltId).n = filler.iPendingHaltId
      BY DEF Msg
    <3>4. WithHalt = Append(pipe, Msg("Halt", filler.iPendingHaltId))
      BY <2>2 DEF WithHalt
    <3> HIDE DEF Keeps
    <3> QED BY <1>1, <1>t, <3>1, <3>2, <3>3, <3>4
  <2> QED BY <2>1, <2>2
<1>4. CASE r = WithHalt
  BY <1>3, <1>4
<1>5. CASE r = Append(WithHalt, Msg("Quit", 0))
  <2>1. Msg("Quit", 0) \in Msgs /\ Msg("Quit", 0).kind \notin Content /\ Msg("Quit", 0).kind # "Halt"
    BY DEF Msg, Msgs, Content
  <2>2. Keeps(WithHalt, r)
    <3> HIDE DEF Keeps
    <3> QED BY <1>1, <1>2, <1>5, <2>1
  <2>3. Keeps(pipe, r)
    BY <1>3, <2>2
  <2> QED BY <2>3
<1> QED BY <1>4, <1>5

(* What the thread does to the queue.                                      *)
Pushed(m) == /\ pipe' = Append(pipe, m) /\ m.kind \in Content
             /\ UNCHANGED <<filler.iTrack, filler.iPendingHaltId>>
             /\ \/ m.n = NullTrack /\ m.kind # "Audio" /\ pc \notin Producing
                \/ m.n = filler.iTrack /\ pc \in Producing
             /\ m.kind = "Audio" => pc = "pushaudio"
HaltStep == /\ PushPromised \/ Quitting
            /\ pipe' \in {WithHalt, Append(WithHalt, Msg("Quit", 0))}
            /\ filler'.iPendingHaltId = NoHalt
            /\ pc \notin Producing /\ pc' \notin Producing

LEMMA ThreadPushes ==
  ASSUME TypeOK, PlaceInv, Thread \/ StreamEnds
  PROVE  \/ UNCHANGED <<pipe, filler.iPendingHaltId>>
         \/ HaltStep
         \/ \E m \in Msgs : Pushed(m)
<1>t. filler \in FillerMembers /\ pipe \in Seq(Msgs) /\ protocol \in ProtocolMembers
  BY DEF TypeOK
<1>1. CASE PushPromised \/ Quitting
  BY <1>1, <1>t DEF PushPromised, Quitting, HaltStep, FillerMembers, Producing, Streaming
<1>2. CASE NullTrackPushed \/ NullStreamPushed
  <2>1. PICK k \in {"Track", "LiveStream"} : pipe' = Append(pipe, Msg(k, NullTrack))
    BY <1>2 DEF NullTrackPushed, NullStreamPushed
  <2>2. Msg(k, NullTrack) \in Msgs
    BY NullTyped, ContentTyped DEF Content
  <2>3. Msg(k, NullTrack).kind = k /\ Msg(k, NullTrack).n = NullTrack
    BY DEF Msg
  <2>4. filler' = filler /\ pc \notin Producing
    BY <1>2 DEF NullTrackPushed, NullStreamPushed, Producing, Streaming
  <2>5. Pushed(Msg(k, NullTrack))
    BY <2>1, <2>3, <2>4 DEF Pushed, Content
  <2> QED BY <2>2, <2>5
<1>3. CASE OutputTrack \/ OutputStream \/ PushAudio
  <2>1. PICK k \in Content : /\ pipe' = Append(pipe, Msg(k, filler.iTrack))
                             /\ k = "Audio" => pc = "pushaudio"
    BY <1>3 DEF OutputTrack, OutputStream, PushAudio, Content, PlaceInv, Streaming
  <2>2. pc \in Producing
    BY <1>3 DEF OutputTrack, OutputStream, PushAudio, Producing, Streaming
  <2>3. Msg(k, filler.iTrack) \in Msgs
    <3>1. filler.iTrack \in 0 .. MaxTracks /\ filler.iTrack # NoTrack
      BY <2>2, <1>t DEF FillerMembers, PlaceInv
    <3> QED BY <3>1, TrackTyped, ContentTyped
  <2>4. Msg(k, filler.iTrack).kind = k /\ Msg(k, filler.iTrack).n = filler.iTrack
    BY DEF Msg
  <2>5. UNCHANGED <<filler.iTrack, filler.iPendingHaltId>>
    BY <1>3, <1>t DEF OutputTrack, OutputStream, PushAudio, FillerMembers
  <2>6. Pushed(Msg(k, filler.iTrack))
    BY <2>1, <2>2, <2>4, <2>5 DEF Pushed
  <2> QED BY <2>3, <2>6
<1>4. CASE Wait \/ GetNext \/ BeginTrack \/ Announce \/ OutputAudio
  BY <1>4, <1>t DEF Wait, GetNext, BeginTrack, Announce, OutputAudio, FillerMembers
<1>5. CASE pipe' = pipe /\ filler' = filler
  BY <1>5
<1> QED BY <1>1, <1>2, <1>3, <1>4, <1>5 DEF Thread, StreamEnds, NullTrackAnnounced, CheckForKill, Activate, StartStream,
    LiveWait, SeekBegins, SeekFlushed, StreamStopped

(* What all others do to it.                                               *)
LEMMA OthersPull ==
  ASSUME TypeOK, Others
  PROVE  \/ Consumer /\ pipe # << >> /\ pipe' = Tail(pipe) /\ filler' = filler
         \/ ~Consumer /\ UNCHANGED pipe
         \/ UNCHANGED vars
<1>1. CASE Consumer
  BY <1>1 DEF Consumer, Discard, PullTrack, PullStream, PullLiveStream, PullAudio, PullHalt, PullQuit, Unskipped, Pull
<1>2. CASE ~Consumer
  BY <1>2 DEF Others, CallSteps, RampCompleted, StopLocked, Interrupt, InvalidatePending, RemoveAll, PullLastAudio,
     PipelineStop, PipelineQuit, MoveNext, Kill, KillInterrupt, Join, Begin, Play, TrySeek, Call
<1> QED BY <1>1, <1>2

LEMMA CallKept == TypeOK /\ PlaceInv /\ CallInv /\ Next => CallInv'
<1> SUFFICES ASSUME TypeOK, PlaceInv, CallInv, Next PROVE CallInv'
  OBVIOUS
<1>t. filler \in FillerMembers /\ client \in ClientMembers
  BY DEF TypeOK
<1>1. CASE Thread \/ StreamEnds
  <2>1. UNCHANGED <<client, filler.iNextHaltId>> /\ filler.iTrack \in Nat /\ filler'.iTrack >= filler.iTrack
    BY <1>1, <1>t, ThreadFrame DEF FillerMembers
  <2>2. client.at = "interrupting" => filler'.iWaitingForAudio
    BY <1>1, <1>t DEF CallInv, FillerMembers, LockFree, Thread, StreamEnds, Wait, PushPromised, GetNext,
       NullTrackPushed, NullTrackAnnounced, NullStreamPushed, BeginTrack, CheckForKill, Quitting, OutputTrack,
       Activate, StartStream, Announce, OutputStream, LiveWait, OutputAudio, PushAudio, SeekBegins, SeekFlushed,
       StreamStopped
  <2>3. client.began \in Nat /\ client.removed \in Nat /\ filler'.iTrack \in Nat
    BY <1>t, <1>1, ThreadFrame DEF FillerMembers, ClientMembers
  <2> QED BY <2>1, <2>2, <2>3 DEF CallInv
<1>2. CASE StopLocked
  <2>1. client'.halt = filler'.iNextHaltId
    BY <1>2, <1>t DEF StopLocked, Signalled, FillerMembers, ClientMembers
  <2>2. client'.began = filler.iTrack /\ client'.removed = client.removed /\ filler'.iTrack = filler.iTrack
    BY <1>2, <1>t DEF StopLocked, Signalled, FillerMembers, ClientMembers
  <2>3. client'.at = "interrupting" => filler'.iWaitingForAudio
    BY <1>2, <1>t DEF StopLocked, AfterStop, Signalled, FillerMembers, ClientMembers
  <2>4. filler.iTrack \in Nat
    BY <1>t DEF FillerMembers
  <2> QED BY <2>1, <2>2, <2>3, <2>4 DEF CallInv
<1>3. CASE Interrupt
  BY <1>3, <1>t DEF Interrupt, AfterStop, Signalled, CallInv, InCall, FillerMembers, ClientMembers
<1>4. CASE InvalidatePending \/ RemoveAll
  <2>1. filler' = filler /\ client'.at \notin {"interrupting"} /\ (client'.at \in InCall => client'.halt = client.halt)
    BY <1>4, <1>t DEF InvalidatePending, RemoveAll, Returned, InCall, ClientMembers
  <2>2. client'.began \in {client.began, NoTrack} /\ client'.removed \in {client.removed, client.began}
    BY ZenonT(30), <1>4, <1>t DEF InvalidatePending, RemoveAll, Returned, ClientMembers
  <2>3. client.at \in InCall
    BY <1>4 DEF InvalidatePending, RemoveAll, InCall
  <2>4. NoTrack <= filler.iTrack
    BY <1>t DEF FillerMembers, NoTrack
  <2> QED BY <2>1, <2>2, <2>3, <2>4 DEF CallInv
<1>5. CASE MoveNext \/ Begin
  <2>1. filler'.iTrack = filler.iTrack /\ filler'.iNextHaltId = filler.iNextHaltId
    BY <1>5, <1>t DEF MoveNext, Begin, Signalled, FillerMembers
  <2>2. /\ client'.at = "idle" /\ client'.began \in {client.began, NoTrack} /\ client'.removed = client.removed
    BY <1>5, <1>t DEF MoveNext, Begin, Returned, ClientMembers
  <2>3. NoTrack <= filler.iTrack
    BY <1>t DEF FillerMembers, NoTrack
  <2> QED BY <2>1, <2>2, <2>3 DEF CallInv, InCall
<1>6. CASE PipelineStop \/ Kill \/ KillInterrupt \/ Join
  BY <1>6, <1>t DEF PipelineStop, Kill, KillInterrupt, Join, Signalled, CallInv, InCall, FillerMembers, ClientMembers
<1>7. CASE Consumer
  <2>1. filler' = filler
    BY <1>7 DEF Consumer, Discard, PullTrack, PullStream, PullLiveStream, PullAudio, PullHalt, PullQuit
  <2>2. client' \in {client, [client EXCEPT !.missed = TRUE]}
    BY <1>7 DEF Consumer, Discard, PullTrack, PullStream, PullLiveStream, PullAudio, PullHalt, PullQuit, Missed
  <2> QED BY <2>1, <2>2, <1>t DEF CallInv, ClientMembers
<1>8. CASE TrySeek \/ RampCompleted
  BY <1>8 DEF TrySeek, RampCompleted, CallInv
<1>9. ASSUME NEW op \in {"RemoveAll", "Stop"}, Call(op) PROVE CallInv'
  BY <1>9, <1>t DEF Call, CallInv, InCall, ClientMembers
<1>10. CASE StopperOnly
  BY <1>10, StopperFrame DEF CallInv, InCall
<1> QED BY TwoKinds, <1>1, <1>2, <1>3, <1>4, <1>5, <1>6, <1>7, <1>8, <1>9, <1>10 DEF Others, CallSteps, StopperOnly

(* What others do to the ids of halts.                                     *)
LEMMA OthersPromise ==
  ASSUME TypeOK, CallInv, Others
  PROVE  /\ StopLocked \/ UNCHANGED <<filler.iNextHaltId, filler.iPendingHaltId>>
         /\ \/ downstream'.skip \in {downstream.skip, NoHalt}
            \/ (RemoveAll \/ PipelineStop) /\ downstream'.skip = filler.iNextHaltId
<1>t. filler \in FillerMembers /\ downstream \in DownstreamMembers
  BY DEF TypeOK
<1>1. StopLocked \/ UNCHANGED <<filler.iNextHaltId, filler.iPendingHaltId>>
  BY <1>t, StopperFrame DEF FillerMembers, Signalled, Others, Consumer, CallSteps, Discard, PullTrack, PullStream,
     PullLiveStream, PullAudio, PullHalt, PullQuit, RampCompleted, Interrupt, InvalidatePending, RemoveAll,
     PipelineStop, MoveNext, Kill, KillInterrupt, Join, Begin, TrySeek, Call, StopperOnly
<1>2. CASE RemoveAll \/ PipelineStop
  <2>1. client.halt = filler.iNextHaltId
    BY <1>2 DEF RemoveAll, PipelineStop, CallInv, InCall
  <2> QED BY <1>1, <1>2, <2>1, DownstreamAfter
<1>3. CASE ~(RemoveAll \/ PipelineStop)
  BY <1>1, <1>3, DownstreamSteps, DownstreamAfter, StopperFrame DEF Like
<1> QED BY <1>2, <1>3

LEMMA HaltKept == TypeOK /\ PlaceInv /\ CallInv /\ HaltInv /\ Next => HaltInv'
<1> SUFFICES ASSUME TypeOK, PlaceInv, CallInv, HaltInv, Next PROVE HaltInv'
  OBVIOUS
<1>t. filler \in FillerMembers /\ pipe \in Seq(Msgs) /\ downstream \in DownstreamMembers
  BY DEF TypeOK
<1>n. filler.iNextHaltId \in Nat \ {NoHalt} /\ filler.iNextHaltId - 1 \in Nat /\ filler.iPendingHaltId \in Nat
      /\ downstream.skip \in Nat /\ NoHalt = 0
  BY <1>t DEF FillerMembers, DownstreamMembers, NoHalt
<1>1. CASE Thread \/ StreamEnds
  <2>1. UNCHANGED <<downstream, filler.iNextHaltId>>
    BY <1>1, ThreadFrame
  <2>2. CASE UNCHANGED <<pipe, filler.iPendingHaltId>>
    BY <2>1, <2>2 DEF HaltInv
  <2>3. CASE HaltStep
    <3>1. HaltsUpTo(pipe', filler.iNextHaltId)
      BY <2>3, <1>n, HaltPushed DEF HaltStep, HaltInv
    <3> QED BY <2>1, <2>3, <3>1 DEF HaltStep, HaltInv
  <2>4. ASSUME NEW m \in Msgs, Pushed(m) PROVE HaltInv'
    <3>1. m.kind # "Halt" /\ pipe' = Append(pipe, m) /\ filler'.iPendingHaltId = filler.iPendingHaltId
      BY <2>4 DEF Pushed, Content
    <3>2. \A h \in Nat : HaltsUpTo(pipe, h) => HaltsUpTo(pipe', h)
      BY <3>1, <1>t, Appended
    <3> QED BY <2>1, <3>1, <3>2, <1>n DEF HaltInv
  <2> QED BY <1>1, ThreadPushes, <2>2, <2>3, <2>4
<1>2. CASE Others /\ ~StopLocked
  <2>1. UNCHANGED <<filler.iNextHaltId, filler.iPendingHaltId>> /\ downstream'.skip <= filler.iNextHaltId
    BY <1>2, <1>n, OthersPromise DEF HaltInv
  <2>2. CASE pipe' = pipe
    BY <2>1, <2>2 DEF HaltInv
  <2>3. CASE pipe # << >> /\ pipe' = Tail(pipe)
    <3>1. \A h : HaltsUpTo(pipe, h) => HaltsUpTo(pipe', h)
      BY <2>3, <1>t, Pulled
    <3> QED BY <2>1, <3>1 DEF HaltInv
  <2> QED BY <1>2, OthersPull, <2>2, <2>3 DEF vars
<1>3. CASE StopLocked
  <2>1. filler'.iPendingHaltId = HaltId /\ filler'.iNextHaltId = HaltId /\ UNCHANGED <<pipe, downstream>>
    BY <1>3, <1>t DEF StopLocked, Signalled, FillerMembers
  <2>2. filler.iNextHaltId <= HaltId /\ HaltsUpTo(pipe, HaltId - 1) /\ HaltId \in Nat
    <3>1. CASE filler.iPendingHaltId = NoHalt
      <4>1. HaltId = filler.iNextHaltId + 1 /\ HaltId - 1 = filler.iNextHaltId
        BY <3>1, <1>n DEF HaltId
      <4> QED BY <1>n, <4>1 DEF HaltInv
    <3>2. CASE filler.iPendingHaltId # NoHalt
      <4>1. HaltId = filler.iNextHaltId
        BY <3>2 DEF HaltId, HaltInv
      <4> QED BY <1>n, <3>2, <4>1 DEF HaltInv
    <3> QED BY <3>1, <3>2
  <2>3. HaltsUpTo(pipe, HaltId)
    <3>1. HaltsUpTo(pipe, filler.iNextHaltId)
      BY DEF HaltInv
    <3> QED BY <3>1, <2>2, <1>n, <1>t, Later
  <2>4. downstream.skip <= HaltId
    BY <2>2, <1>n DEF HaltInv
  <2> QED BY <2>1, <2>2, <2>3, <2>4 DEF HaltInv
<1> QED BY TwoKinds, <1>1, <1>2, <1>3 DEF Others, CallSteps

LEMMA WokenKept == TypeOK /\ WokenInv /\ Next => WokenInv'
<1> SUFFICES ASSUME TypeOK, WokenInv, Next PROVE WokenInv'
  OBVIOUS
<1>t. filler \in FillerMembers /\ client \in ClientMembers
  BY DEF TypeOK
<1>1. CASE PushPromised
  BY <1>1, <1>t DEF PushPromised, WokenInv, FillerMembers
<1>2. CASE (Thread \/ StreamEnds) /\ ~PushPromised
  <2>1. pc' # "wait"
    BY <1>2, <1>t DEF Thread, StreamEnds, Wait, GetNext, NullTrackPushed, NullTrackAnnounced, NullStreamPushed,
       BeginTrack, CheckForKill, Quitting, OutputTrack, Activate, StartStream, Deactivated, Announce, OutputStream,
       LiveWait, OutputAudio, PushAudio, SeekBegins, SeekFlushed, StreamStopped
  <2> QED BY <2>1 DEF WokenInv
<1>3. CASE Interrupt \/ MoveNext \/ Begin \/ Kill
  <2>1. filler'.signals # 0
    <3>1. PICK f \in FillerMembers : filler' = Signalled(f)
      <4>1. /\ [filler EXCEPT !.iStopped = FALSE] \in FillerMembers
            /\ [filler EXCEPT !.kill = TRUE] \in FillerMembers
            /\ [filler EXCEPT !.iNoAudioBeforeNextTrack = TRUE] \in FillerMembers
            /\ [filler EXCEPT !.iActiveUriProvider = TRUE, !.iStopped = FALSE] \in FillerMembers
        BY <1>t DEF FillerMembers
      <4> QED BY <1>3, <4>1 DEF Interrupt, MoveNext, Begin, Kill
    <3>2. Signalled(f).signals = f.signals + 1 /\ f.signals \in Nat
      BY DEF Signalled, FillerMembers
    <3> QED BY <3>1, <3>2
  <2> QED BY <2>1 DEF WokenInv
<1>4. CASE StopLocked
  <2>1. CASE filler.iWaitingForAudio
    BY <1>4, <2>1, <1>t DEF StopLocked, WokenInv, ClientMembers
  <2>2. CASE ~filler.iWaitingForAudio
    <3>1. filler'.signals # 0
      BY <1>4, <2>2, <1>t DEF StopLocked, Signalled, FillerMembers
    <3> QED BY <3>1 DEF WokenInv
  <2> QED BY <2>1, <2>2
<1>5. CASE Others /\ ~(Interrupt \/ MoveNext \/ Begin \/ Kill \/ StopLocked)
  <2>1. UNCHANGED <<filler, pc>>
    BY <1>5, StopperFrame DEF Others, Consumer, CallSteps, Discard, PullTrack, PullStream, PullLiveStream, PullAudio,
       PullHalt, PullQuit, RampCompleted, InvalidatePending, RemoveAll, PipelineStop, KillInterrupt, Join, TrySeek,
       Call, StopperOnly
  <2>2. client.at = "interrupting" => client'.at = "interrupting"
    <3>1. CASE StopperOnly
      BY <3>1, StopperFrame
    <3>2. CASE ~StopperOnly
      BY <1>5, <3>2, <1>t DEF Others, Consumer, CallSteps, Discard, PullTrack, PullStream, PullLiveStream, PullAudio,
         PullHalt, PullQuit, RampCompleted, InvalidatePending, RemoveAll, PipelineStop, KillInterrupt, Join, TrySeek,
         Call, StopperOnly, Missed, ClientMembers
    <3> QED BY <3>1, <3>2
  <2> QED BY <2>1, <2>2 DEF WokenInv
<1> QED BY TwoKinds, <1>1, <1>2, <1>3, <1>4, <1>5 DEF Others, CallSteps

(* Steps after which the protocol has begun its stream.                    *)
LEMMA AfterStream ==
  ASSUME TypeOK, PlaceInv, Thread \/ StreamEnds, pc' \in Streaming \ {"announce", "output"}
  PROVE  /\ filler'.iTrack = filler.iTrack
         /\ \/ pc \in Streaming \ {"announce", "output"} /\ UNCHANGED pipe
            \/ \E k \in Heard : Msg(k, filler.iTrack) \in Msgs /\ pipe' = Append(pipe, Msg(k, filler.iTrack))
<1>t. filler \in FillerMembers /\ pipe \in Seq(Msgs)
  BY DEF TypeOK
<1>1. CASE OutputStream \/ PushAudio
  <2>1. PICK k \in Heard : pipe' = Append(pipe, Msg(k, filler.iTrack))
    BY <1>1 DEF OutputStream, PushAudio, Heard, StreamKinds, PlaceInv, Streaming
  <2>2. Msg(k, filler.iTrack) \in Msgs
    <3>1. filler.iTrack \in 0 .. MaxTracks /\ filler.iTrack # NoTrack
      BY <1>1, <1>t DEF OutputStream, PushAudio, FillerMembers, PlaceInv, Producing, Streaming
    <3> QED BY <3>1, TrackTyped, ContentTyped DEF Heard, StreamKinds, Content
  <2>3. filler' = filler
    BY <1>1 DEF OutputStream, PushAudio
  <2> QED BY <2>1, <2>2, <2>3
<1>2. CASE ~(OutputStream \/ PushAudio)
  BY <1>2, <1>t DEF Thread, StreamEnds, Wait, PushPromised, GetNext, NullTrackPushed, NullTrackAnnounced,
     NullStreamPushed, BeginTrack, CheckForKill, Quitting, OutputTrack, Activate, StartStream, Deactivated,
     Announce, LiveWait, OutputAudio, SeekBegins, SeekFlushed, StreamStopped, Streaming, FillerMembers
<1> QED BY <1>1, <1>2

LEMMA OrderKept == TypeOK /\ PlaceInv /\ CallInv /\ HaltInv /\ OrderInv /\ Next => OrderInv'
<1> SUFFICES ASSUME TypeOK, PlaceInv, CallInv, HaltInv, OrderInv, Next PROVE OrderInv'
  OBVIOUS
<1> DEFINE First(q) == q # << >> /\ q[1].kind = "Audio" /\ downstream.skip = NoHalt => downstream.stream = q[1].n
           After == pc \in Streaming \ {"announce", "output"}
<1>t. filler \in FillerMembers /\ pipe \in Seq(Msgs) /\ downstream \in DownstreamMembers
  BY DEF TypeOK
<1>n. filler.iTrack \in Nat /\ filler.iTrack <= MaxTracks /\ NullTrack = MaxTracks + 1 /\ MaxTracks \in Nat
  BY <1>t, NoneTyped DEF FillerMembers, NullTrack
<1>o. /\ TracksUpTo(pipe, filler.iTrack) /\ AudioFollows(pipe) /\ First(pipe)
      /\ After => (pipe = << >> /\ downstream.skip = NoHalt => downstream.stream = filler.iTrack)
      /\ After => (pipe # << >> => Of(pipe[Len(pipe)], filler.iTrack))
  BY DEF OrderInv
<1>1. CASE Thread \/ StreamEnds
  <2>1. UNCHANGED downstream /\ filler'.iTrack \in {filler.iTrack, filler.iTrack + 1}
    BY <1>1, ThreadFrame
  <2>2. CASE UNCHANGED pipe
    <3>1. TracksUpTo(pipe, filler'.iTrack)
      BY <2>1, <1>n, <1>o, <1>t, MsgTyped, NoneTyped DEF TracksUpTo, Streams, Tracks, NullTrack
    <3>2. pc' \in Streaming \ {"announce", "output"} => After /\ filler'.iTrack = filler.iTrack
      <4>1. \A m \in Msgs : pipe' # Append(pipe, m)
        BY <2>2, <1>t, AppendIndex
      <4> QED BY <1>1, <4>1, AfterStream
    <3> QED BY <2>1, <2>2, <1>o, <3>1, <3>2 DEF OrderInv
  <2>3. CASE HaltStep
    <3>1. filler'.iTrack = filler.iTrack
      BY <2>3, <1>t DEF HaltStep, PushPromised, Quitting, FillerMembers
    <3>2. TracksUpTo(pipe', filler.iTrack) /\ AudioFollows(pipe')
      BY <2>3, <1>n, <1>o, HaltPushed DEF HaltStep
    <3>3. First(pipe')
      BY <2>3, <1>o, HaltPushed DEF HaltStep
    <3>4. pc' \notin Streaming
      BY <2>3 DEF HaltStep, Producing
    <3> QED BY <2>1, <3>1, <3>2, <3>3, <3>4 DEF OrderInv
  <2>4. ASSUME NEW m \in Msgs, Pushed(m) PROVE OrderInv'
    <3>1. pipe' = Append(pipe, m) /\ filler'.iTrack = filler.iTrack /\ m.n \in {NullTrack, filler.iTrack}
      BY <2>4 DEF Pushed
    <3>2. TracksUpTo(pipe', filler.iTrack)
      <4>1. m.n = NullTrack \/ m.n <= filler.iTrack
        BY <3>1, <1>n
      <4> QED BY <3>1, <4>1, <1>o, <1>n, <1>t, Appended
    <3>3. m.kind = "Audio" => After /\ m.n = filler.iTrack
      BY <2>4 DEF Pushed, Streaming, Producing
    <3>4. AudioFollows(pipe')
      BY <3>1, <3>3, <1>o, <1>t, Appended
    <3>5. First(pipe')
      <4>1. (pipe # << >> /\ pipe'[1] = pipe[1]) \/ (pipe = << >> /\ pipe'[1] = m)
        <5>1. Len(pipe) \in Nat /\ (pipe = << >> <=> Len(pipe) = 0)
          BY <1>t
        <5> QED BY <5>1, <3>1, <1>t, AppendIndex
      <4> QED BY <4>1, <1>o, <3>3
    <3>6. pipe'[Len(pipe')] = m /\ pipe' # << >>
      BY <3>1, <1>t, AppendIndex
    <3>7. pc' \in Streaming \ {"announce", "output"} => Of(m, filler.iTrack)
      <4>1. pipe' # pipe
        BY <3>1, <1>t, AppendIndex
      <4>2. ASSUME NEW k \in Heard, Msg(k, filler.iTrack) \in Msgs, pipe' = Append(pipe, Msg(k, filler.iTrack))
            PROVE  Of(m, filler.iTrack)
        <5>1. pipe'[Len(pipe')] = Msg(k, filler.iTrack)
          BY <4>2, <1>t, AppendIndex
        <5> QED BY <3>6, <5>1 DEF Of, Msg
      <4> QED BY <1>1, <4>1, <4>2, AfterStream
    <3> QED BY <2>1, <3>1, <3>2, <3>4, <3>5, <3>6, <3>7 DEF OrderInv
  <2> QED BY <1>1, ThreadPushes, <2>2, <2>3, <2>4
<1>2. CASE Others
  <2>1. UNCHANGED <<pc, filler.iTrack>>
    BY <1>2, OthersFrame
  <2>2. CASE ~Consumer /\ UNCHANGED pipe
    <3>1. /\ downstream'.stream = downstream.stream
          /\ downstream'.skip \in {downstream.skip, filler.iNextHaltId}
      <4>1. RemoveAll \/ PipelineStop => client.halt = filler.iNextHaltId
        BY DEF RemoveAll, PipelineStop, CallInv, InCall
      <4> QED BY <1>2, <2>2, <4>1, DownstreamSteps, DownstreamAfter, StopperFrame DEF Like, Consumer
    <3>2. filler.iNextHaltId # NoHalt
      BY <1>t DEF FillerMembers
    <3> QED BY <2>1, <2>2, <3>1, <3>2, <1>o DEF OrderInv
  <2>3. CASE Consumer /\ pipe # << >> /\ pipe' = Tail(pipe)
    <3>1. TracksUpTo(pipe', filler.iTrack) /\ AudioFollows(pipe')
      BY <2>3, <1>o, <1>t, Pulled
    <3>2. pipe' # << >> /\ pipe'[1].kind = "Audio" => Of(Head(pipe), pipe'[1].n)
      BY <2>3, <1>o, <1>t, Pulled
    <3>3. pipe' # << >> => pipe'[Len(pipe')] = pipe[Len(pipe)]
      BY <2>3, <1>t, Pulled
    <3>4. pipe' = << >> => pipe[Len(pipe)] = Head(pipe)
      <4>1. Len(pipe') = Len(pipe) - 1 /\ Len(pipe) \in Nat \ {0} /\ Head(pipe) = pipe[1]
        BY <2>3, <1>t, TailIndex
      <4>2. pipe' = << >> => Len(pipe') = 0
        OBVIOUS
      <4> QED BY <4>1, <4>2
    <3>5. downstream'.skip = NoHalt /\ Head(pipe).kind \in Heard => downstream'.stream = Head(pipe).n
      <4>1. CASE Discard
        BY <4>1 DEF Discard
      <4>2. CASE PullTrack \/ PullHalt \/ PullQuit
        BY <4>2 DEF PullTrack, PullHalt, PullQuit, Unskipped, Pull, Heard, StreamKinds
      <4>3. CASE PullStream \/ PullLiveStream
        BY <4>3, DownstreamAfter
      <4>4. CASE PullAudio
        <5>1. Head(pipe).kind = "Audio" /\ downstream.skip = NoHalt /\ Head(pipe) = pipe[1]
          BY <4>4, <2>3, <1>t, TailIndex DEF PullAudio, Unskipped, Pull
        <5>2. downstream'.stream = downstream.stream
          BY <4>4, DownstreamAfter
        <5> QED BY <5>1, <5>2, <2>3, <1>o
      <4> QED BY <2>3, <4>1, <4>2, <4>3, <4>4 DEF Consumer
    <3>6. pipe' # << >> /\ pipe'[1].kind = "Audio" /\ downstream'.skip = NoHalt => downstream'.stream = pipe'[1].n
      BY <3>2, <3>5 DEF Of
    <3>7. After => (pipe' = << >> /\ downstream'.skip = NoHalt => downstream'.stream = filler.iTrack)
      BY <3>4, <3>5, <1>o, <2>3 DEF Of
    <3> QED BY <2>1, <2>3, <3>1, <3>3, <3>6, <3>7, <1>o DEF OrderInv
  <2>4. CASE UNCHANGED vars
    BY <2>4 DEF vars, OrderInv
  <2> QED BY <1>2, OthersPull, <2>2, <2>3, <2>4
<1> QED BY TwoKinds, <1>1, <1>2

LEMMA HeardKept == TypeOK /\ PlaceInv /\ OrderInv /\ HeardInv /\ Next => HeardInv'
<1> SUFFICES ASSUME TypeOK, PlaceInv, OrderInv, HeardInv, Next PROVE HeardInv'
  OBVIOUS
<1>t. /\ filler \in FillerMembers /\ pipe \in Seq(Msgs) /\ downstream \in DownstreamMembers
      /\ protocol \in ProtocolMembers
  BY DEF TypeOK
<1>n. filler.iTrack \in Nat /\ filler.iTrack <= MaxTracks /\ NullTrack = MaxTracks + 1 /\ MaxTracks \in Nat
  BY <1>t, NoneTyped DEF FillerMembers, NullTrack
<1>s. downstream.stream \in Nat
  BY <1>t, <1>n DEF DownstreamMembers, Streams, Tracks, NoTrack
<1>1. CASE Thread \/ StreamEnds
  <2>1. UNCHANGED downstream /\ filler'.iTrack \in {filler.iTrack, filler.iTrack + 1}
    BY <1>1, ThreadFrame
  <2>2. (downstream.decoded => downstream.stream # NoTrack)
        /\ (downstream.stream = NullTrack \/ downstream.stream <= filler'.iTrack)
    BY <2>1, <1>n, <1>s DEF HeardInv
  <2>3. CASE GetNext /\ pc' = "begin"
    <3>1. filler'.iTrack = filler.iTrack + 1 /\ filler.iTrack + 1 <= MaxTracks /\ UNCHANGED <<pipe, protocol>>
      BY <2>3, <1>t, <1>n DEF GetNext, FillerMembers
    <3>2. Silent(pipe, filler.iTrack + 1)
      <4>1. \A i \in 1 .. Len(pipe) : pipe[i].kind = "Audio" => pipe[i].n = NullTrack \/ pipe[i].n <= filler.iTrack
        BY DEF OrderInv, TracksUpTo, Content
      <4>2. \A i \in 1 .. Len(pipe) : pipe[i].kind = "Audio" => pipe[i].n \in Nat
        BY <1>t, <1>n, MsgTyped DEF Content, Streams, Tracks
      <4> QED BY <3>1, <4>1, <4>2, <1>n DEF Silent
    <3>3. downstream.stream # filler.iTrack + 1
      BY <3>1, <1>n, <1>s DEF HeardInv
    <3>4. ~protocol.iSeek
      BY <2>3 DEF GetNext, PlaceInv, Streaming
    <3> QED BY <2>1, <2>2, <2>3, <3>1, <3>2, <3>3, <3>4 DEF HeardInv, Unheard
  <2>4. CASE ~(GetNext /\ pc' = "begin")
    <3>1. filler'.iTrack = filler.iTrack
      BY <1>1, <2>4, <1>t DEF FillerMembers, Thread, StreamEnds, Wait, PushPromised, GetNext, NullTrackPushed,
         NullTrackAnnounced, NullStreamPushed, BeginTrack, CheckForKill, Quitting, OutputTrack, Activate, StartStream,
         Announce, OutputStream, LiveWait, OutputAudio, PushAudio, SeekBegins, SeekFlushed, StreamStopped
    <3>2. protocol'.iSeek => protocol.iSeek
      <4>1. CASE StartStream
        <5>1. CASE protocol' = Inactive
          BY <5>1 DEF Inactive
        <5>2. CASE protocol' # Inactive
          <6>1. PICK live \in BOOLEAN : protocol' = [protocol EXCEPT !.iStreamId = filler.iTrack, !.iLive = live]
            BY <4>1, <5>2 DEF StartStream, Deactivated
          <6> QED BY <6>1, <1>t DEF ProtocolMembers
        <5> QED BY <5>1, <5>2
      <4>2. CASE LiveWait \/ SeekFlushed \/ StreamStopped \/ StreamEnds \/ Activate
        BY <1>t, <4>2 DEF LiveWait, SeekFlushed, StreamStopped, StreamEnds, Activate, Deactivated, Inactive,
           ProtocolMembers
      <4>3. CASE protocol' = protocol
        BY <4>3
      <4> QED BY <1>1, <4>1, <4>2, <4>3 DEF Thread, Wait, PushPromised, GetNext, NullTrackPushed, NullTrackAnnounced,
         NullStreamPushed, BeginTrack, CheckForKill, Quitting, OutputTrack, Announce, OutputStream, OutputAudio,
         PushAudio, SeekBegins
    <3>3. /\ filler'.iWaitingForAudio \/ pc' \in Awaiting => filler.iWaitingForAudio \/ pc \in Awaiting
          /\ pc' = "pushaudio" => ~filler'.iWaitingForAudio
      BY <1>1, <2>4, <1>t DEF HeardInv, Awaiting, FillerMembers, Thread, StreamEnds, Wait, PushPromised, GetNext,
         NullTrackPushed, NullTrackAnnounced, NullStreamPushed, BeginTrack, CheckForKill, Quitting, OutputTrack,
         Activate, StartStream, Announce, OutputStream, LiveWait, OutputAudio, PushAudio, SeekBegins, SeekFlushed,
         StreamStopped, Deactivated
    <3>4. filler'.iWaitingForAudio \/ pc' \in Awaiting => Silent(pipe', filler.iTrack)
      <4> SUFFICES ASSUME filler'.iWaitingForAudio \/ pc' \in Awaiting PROVE Silent(pipe', filler.iTrack)
        OBVIOUS
      <4>1. Silent(pipe, filler.iTrack) /\ pc # "pushaudio"
        BY <3>3 DEF HeardInv, Unheard, Awaiting
      <4>2. CASE UNCHANGED pipe
        BY <4>1, <4>2
      <4>3. CASE HaltStep
        BY <4>1, <4>3, HaltPushed DEF HaltStep
      <4>4. ASSUME NEW m \in Msgs, Pushed(m) PROVE Silent(pipe', filler.iTrack)
        BY <4>1, <4>4, <1>t, Appended DEF Pushed
      <4> QED BY <1>1, ThreadPushes, <4>2, <4>3, <4>4
    <3> QED BY <2>1, <2>2, <3>1, <3>2, <3>3, <3>4 DEF HeardInv, Unheard
  <2> QED BY <2>3, <2>4
<1>2. CASE Others
  <2>1. UNCHANGED <<pc, filler.iTrack, protocol.iStreamId>> /\ (TrySeek \/ UNCHANGED protocol.iSeek)
    BY <1>2, OthersFrame
  <2>2. filler'.iWaitingForAudio = filler.iWaitingForAudio
    BY <1>2, <1>t, StopperFrame DEF FillerMembers, Signalled, Others, Consumer, CallSteps, Discard, PullTrack, PullStream,
       PullLiveStream, PullAudio, PullHalt, PullQuit, RampCompleted, StopLocked, Interrupt, InvalidatePending,
       RemoveAll, PipelineStop, MoveNext, Kill, KillInterrupt, Join, Begin, TrySeek, Call, StopperOnly
  <2>3. CASE TrySeek
    <3>1. downstream.decoded /\ protocol.iStreamId = downstream.stream /\ downstream.stream # NoTrack
      BY <2>3 DEF TrySeek, HeardInv
    <3>2. downstream.stream = filler.iTrack
      BY <3>1 DEF PlaceInv
    <3>3. ~(filler.iWaitingForAudio \/ pc \in Awaiting)
      BY <3>1, <3>2 DEF HeardInv, Unheard
    <3>4. UNCHANGED downstream
      BY <2>3 DEF TrySeek
    <3> QED BY <2>1, <2>2, <3>3, <3>4 DEF HeardInv
  <2>4. CASE ~TrySeek
    <3>1. \A t : Silent(pipe, t) => Silent(pipe', t)
      <4>1. CASE UNCHANGED pipe
        BY <4>1
      <4>2. CASE pipe # << >> /\ pipe' = Tail(pipe)
        BY <4>2, <1>t, Pulled
      <4> QED BY <1>2, OthersPull, <4>1, <4>2 DEF vars
    <3>2. \/ downstream'.stream = downstream.stream /\ (downstream'.decoded => downstream.decoded)
          \/ ~downstream'.decoded /\ downstream'.stream = NoTrack
          \/ /\ ~downstream'.decoded /\ downstream'.stream = Head(pipe).n
             /\ pipe # << >> /\ Head(pipe).kind \in Content
          \/ /\ PullAudio /\ downstream'.stream = downstream.stream
             /\ pipe # << >> /\ Head(pipe).kind = "Audio" /\ downstream.skip = NoHalt
      <4>1. CASE Consumer
        BY <4>1, DownstreamAfter DEF Consumer, Discard, PullTrack, PullStream, PullLiveStream, PullAudio, PullHalt,
           PullQuit, Unskipped, Pull, Content
      <4>2. CASE ~Consumer
        BY <4>2, <1>2, DownstreamSteps, DownstreamAfter, StopperFrame DEF Like, Consumer
      <4> QED BY <4>1, <4>2
    <3>3. CASE downstream'.stream = downstream.stream /\ (downstream'.decoded => downstream.decoded)
      BY <2>1, <2>2, <2>4, <3>1, <3>3 DEF HeardInv, Unheard
    <3>4. CASE ~downstream'.decoded /\ downstream'.stream = NoTrack
      BY <2>1, <2>2, <2>4, <3>1, <3>4, <1>n DEF HeardInv, Unheard, NoTrack
    <3>5. CASE /\ ~downstream'.decoded /\ downstream'.stream = Head(pipe).n
               /\ pipe # << >> /\ Head(pipe).kind \in Content
      <4>1. Head(pipe).n = NullTrack \/ Head(pipe).n <= filler.iTrack
        <5>1. TracksUpTo(pipe, filler.iTrack)
          BY DEF OrderInv
        <5> QED BY <5>1, <3>5, <1>t, Pulled
      <4> QED BY <2>1, <2>2, <2>4, <3>1, <3>5, <4>1 DEF HeardInv, Unheard
    <3>6. CASE /\ PullAudio /\ downstream'.stream = downstream.stream
               /\ pipe # << >> /\ Head(pipe).kind = "Audio" /\ downstream.skip = NoHalt
      <4>1. downstream.stream = Head(pipe).n
        BY <3>6, <1>t, TailIndex DEF OrderInv
      <4>2. Head(pipe).n # NoTrack
        BY <3>6, <1>t, <1>n, MsgTyped DEF Content, Streams, Tracks, NoTrack
      <4>3. Silent(pipe, filler.iTrack) => Head(pipe).n # filler.iTrack
        BY <3>6, <1>t, Pulled
      <4> QED BY <2>1, <2>2, <2>4, <3>1, <3>6, <4>1, <4>2, <4>3 DEF HeardInv, Unheard
    <3> QED BY <3>2, <3>3, <3>4, <3>5, <3>6
  <2> QED BY <2>3, <2>4
<1> QED BY TwoKinds, <1>1, <1>2

(* Removing says no more of a later halt, or of fewer tracks.              *)
LEMMA RemovingLess ==
  ASSUME TypeOK, NEW h \in Nat, NEW g \in Nat, h <= g, NEW b \in Nat, NEW c \in Nat, c <= b
  PROVE  /\ Removing(h, b) => Removing(g, c)
         /\ HaltsUpTo(pipe, h - 1) => Removing(h, b)
         /\ Above(pipe, b) /\ (pc \in Producing => filler.iTrack > b) => Removing(h, b)
<1>t. filler \in FillerMembers /\ pipe \in Seq(Msgs)
  BY DEF TypeOK
<1>i. filler.iTrack \in Nat
  BY <1>t DEF FillerMembers
<1>1. ASSUME Removing(h, b) PROVE Removing(g, c)
  <2>1. NoneBehind(pipe, g, b)
    BY <1>1, <1>t, Later DEF Removing
  <2>2. NoneBehind(pipe, g, c)
    <3>1. \A j \in 1 .. Len(pipe) : pipe[j].kind \in Heard => pipe[j].n \in Nat
      <4> SUFFICES ASSUME NEW j \in 1 .. Len(pipe), pipe[j].kind \in Heard PROVE pipe[j].n \in Nat
        OBVIOUS
      <4>1. pipe[j] \in Msgs /\ pipe[j].kind \in Content
        BY <1>t DEF Heard, StreamKinds, Content
      <4> QED BY <4>1, MsgTyped, NoneTyped DEF Streams, Tracks, NullTrack
    <3> QED BY <2>1, <3>1 DEF NoneBehind
  <2>3. pc \in Producing /\ filler.iTrack <= c => HaltsUpTo(pipe, g - 1)
    BY <1>1, <1>t, <1>i, Later DEF Removing
  <2> QED BY <2>2, <2>3 DEF Removing
<1>2. HaltsUpTo(pipe, h - 1) => Removing(h, b)
  BY <1>t, Later DEF Removing
<1>3. Above(pipe, b) /\ (pc \in Producing => filler.iTrack > b) => Removing(h, b)
  BY <1>t, <1>i, Later DEF Removing
<1> QED BY <1>1, <1>2, <1>3

(* The thread brings nothing back.                                         *)
LEMMA ThreadRemoves ==
  ASSUME TypeOK, PlaceInv, Thread \/ StreamEnds, NEW b \in Nat, b <= filler.iTrack
  PROVE  /\ \A h \in Nat : Removing(h, b) => Removing(h, b)'
         /\ Above(pipe, b) /\ (pc \in Producing => filler.iTrack > b)
            => Above(pipe, b)' /\ (pc' \in Producing => filler'.iTrack > b)
<1>t. filler \in FillerMembers /\ pipe \in Seq(Msgs)
  BY DEF TypeOK
<1>n. filler.iTrack \in Nat /\ filler.iTrack <= MaxTracks /\ NullTrack = MaxTracks + 1 /\ MaxTracks \in Nat
  BY <1>t, NoneTyped DEF FillerMembers, NullTrack
<1>1. pc' \in Producing => (pc \in Producing /\ filler'.iTrack = filler.iTrack) \/ filler'.iTrack = filler.iTrack + 1
  BY <1>t DEF FillerMembers, Producing, Streaming, Thread, StreamEnds, Wait, PushPromised, GetNext, NullTrackPushed,
     NullTrackAnnounced, NullStreamPushed, BeginTrack, CheckForKill, Quitting, OutputTrack, Activate, StartStream,
     Announce, OutputStream, LiveWait, OutputAudio, PushAudio, SeekBegins, SeekFlushed, StreamStopped, Deactivated
<1>2. CASE UNCHANGED pipe
  BY <1>1, <1>2, <1>n DEF Removing
<1>3. CASE HaltStep
  <2>1. \A h \in Nat : NoneBehind(pipe, h, b) => NoneBehind(pipe', h, b)
    BY <1>3, HaltPushed DEF HaltStep
  <2>2. Above(pipe, b) => Above(pipe', b)
    BY <1>3, HaltPushed DEF HaltStep
  <2>3. pc' \notin Producing
    BY <1>3 DEF HaltStep
  <2> QED BY <2>1, <2>2, <2>3 DEF Removing
<1>4. ASSUME NEW m \in Msgs, Pushed(m)
      PROVE  /\ \A h \in Nat : Removing(h, b) => Removing(h, b)'
             /\ Above(pipe, b) /\ (pc \in Producing => filler.iTrack > b)
                => Above(pipe, b)' /\ (pc' \in Producing => filler'.iTrack > b)
  <2>1. /\ pipe' = Append(pipe, m) /\ m.kind # "Halt" /\ filler'.iTrack = filler.iTrack
        /\ m.n > b \/ (m.n = filler.iTrack /\ pc \in Producing)
    BY <1>4, <1>n DEF Pushed, Content
  <2>2. pc' \in Producing => pc \in Producing
    BY <1>1, <2>1, <1>n
  <2>3. ASSUME NEW h \in Nat, Removing(h, b) PROVE Removing(h, b)'
    <3>1. NoneBehind(pipe, h, b) /\ (m.kind \in Heard /\ m.n <= b => HaltsUpTo(pipe, h - 1))
      BY <2>1, <2>3, <1>n, MsgTyped DEF Removing, Heard, StreamKinds, Content, Streams, Tracks
    <3>2. NoneBehind(pipe', h, b)
      BY <2>1, <3>1, <1>t, Appended
    <3>3. HaltsUpTo(pipe, h - 1) => HaltsUpTo(pipe', h - 1)
      <4>1. \A i \in 1 .. Len(pipe') : (i \in 1 .. Len(pipe) /\ pipe'[i] = pipe[i]) \/ pipe'[i] = m
        BY <2>1, <1>t, AppendIndex
      <4> QED BY <2>1, <4>1 DEF HaltsUpTo
    <3> QED BY <2>1, <2>2, <2>3, <3>2, <3>3 DEF Removing
  <2>4. ASSUME Above(pipe, b), pc \in Producing => filler.iTrack > b
        PROVE  Above(pipe, b)' /\ (pc' \in Producing => filler'.iTrack > b)
    <3>1. m.n > b
      BY <2>1, <2>4
    <3> QED BY <2>1, <2>2, <2>4, <3>1, <1>t, Appended
  <2> QED BY <2>3, <2>4
<1> QED BY ThreadPushes, <1>2, <1>3, <1>4

LEMMA RemovedKept == TypeOK /\ PlaceInv /\ CallInv /\ HaltInv /\ OrderInv /\ RemovedInv /\ Next => RemovedInv'
<1> SUFFICES ASSUME TypeOK, PlaceInv, CallInv, HaltInv, OrderInv, RemovedInv, Next PROVE RemovedInv'
  OBVIOUS
<1>t. /\ filler \in FillerMembers /\ pipe \in Seq(Msgs) /\ downstream \in DownstreamMembers
      /\ client \in ClientMembers
  BY DEF TypeOK
<1>n. /\ filler.iTrack \in Nat /\ client.began \in Nat /\ client.removed \in Nat /\ client.halt \in Nat
      /\ downstream.skip \in Nat /\ filler.iNextHaltId \in Nat \ {NoHalt}
  BY <1>t DEF FillerMembers, ClientMembers, DownstreamMembers
<1>c. client.began <= filler.iTrack /\ client.removed <= filler.iTrack
  BY DEF CallInv
<1>1. CASE Thread \/ StreamEnds
  <2>1. UNCHANGED <<downstream, client>>
    BY <1>1, ThreadFrame
  <2>2. \A h \in Nat : \A b \in {client.began, client.removed} : Removing(h, b) => Removing(h, b)'
    BY <1>1, <1>n, <1>c, ThreadRemoves
  <2>3. Gone => Gone'
    BY <1>1, <2>1, <1>n, <1>c, ThreadRemoves DEF Gone
  <2> QED BY <2>1, <2>2, <2>3, <1>n DEF RemovedInv, Removing
<1>2. CASE Consumer
  <2>1. UNCHANGED <<pc, filler.iTrack, filler>>
    BY <1>2, OthersFrame DEF Others, Consumer, Discard, PullTrack, PullStream, PullLiveStream, PullAudio, PullHalt, PullQuit
  <2>2. /\ client'.at = client.at /\ client'.halt = client.halt /\ client'.began = client.began
        /\ client'.removed = client.removed
    BY <1>2, <1>t DEF Consumer, Discard, PullTrack, PullStream, PullLiveStream, PullAudio, PullHalt, PullQuit, Missed,
       ClientMembers
  <2>3. pipe # << >> /\ pipe' = Tail(pipe)
    BY <1>2 DEF Consumer, Discard, PullTrack, PullStream, PullLiveStream, PullAudio, PullHalt, PullQuit, Unskipped, Pull
  <2>4. \A h, b : Removing(h, b) => NoneBehind(pipe', h, b) /\ (pc' \in Producing /\ filler'.iTrack <= b => HaltsUpTo(pipe', h - 1))
    BY <2>1, <2>3, <1>t, Pulled DEF Removing
  <2>5. Gone => Above(pipe', client.removed) /\ (pc' \in Producing => filler'.iTrack > client.removed)
                /\ (Head(pipe).kind \in Heard => Head(pipe).n > client.removed)
    BY <2>1, <2>3, <1>t, Pulled DEF Gone
  <2>6. CASE downstream' = downstream
    BY <2>2, <2>4, <2>5, <2>6 DEF RemovedInv, Removing, Gone
  <2>7. CASE PullHalt
    <3>1. /\ downstream'.granted = downstream.granted /\ downstream'.stream = downstream.stream
          /\ downstream'.skip = IF downstream.skip = Head(pipe).n THEN NoHalt ELSE downstream.skip
          /\ Head(pipe).kind = "Halt"
      BY <2>7, DownstreamAfter DEF PullHalt, Pull
    <3>2. CASE downstream.skip # NoHalt /\ downstream.skip = Head(pipe).n
      <4>1. Head(pipe) = Msg("Halt", downstream.skip)
        <5>1. Head(pipe) \in Msgs
          BY <2>3, <1>t
        <5>2. Head(pipe) = [kind |-> Head(pipe).kind, n |-> Head(pipe).n]
          BY <5>1 DEF Msgs
        <5> QED BY <3>1, <3>2, <5>2 DEF Msg
      <4>2. Removing(downstream.skip, client.removed) /\ ~downstream.granted
        BY <3>2 DEF RemovedInv
      <4>3. Above(pipe', client.removed)
        BY <2>3, <4>1, <4>2, <1>n, <1>t, Pulled DEF Removing
      <4>4. pc \in Producing => filler.iTrack > client.removed
        <5>1. ~HaltsUpTo(pipe, downstream.skip - 1)
          BY <2>3, <3>1, <3>2, <1>n, <1>t, TailIndex DEF HaltsUpTo
        <5> QED BY <4>2, <5>1, <1>n DEF Removing
      <4>5. Gone'
        BY <2>1, <2>2, <4>3, <4>4 DEF Gone
      <4> QED BY <2>2, <2>4, <3>1, <3>2, <4>2, <4>5 DEF RemovedInv, Removing
    <3>3. CASE ~(downstream.skip # NoHalt /\ downstream.skip = Head(pipe).n)
      <4>1. downstream'.skip = downstream.skip
        BY <3>1, <3>3
      <4> QED BY <2>2, <2>4, <2>5, <3>1, <4>1 DEF RemovedInv, Removing, Gone
    <3> QED BY <3>2, <3>3
  <2>8. CASE PullTrack \/ PullStream \/ PullLiveStream \/ PullAudio
    <3>1. downstream'.skip = NoHalt /\ downstream.skip = NoHalt
      BY <2>8, DownstreamAfter DEF PullTrack, PullStream, PullLiveStream, PullAudio, Unskipped
    <3>2. Gone'
      BY <2>1, <2>2, <2>5, <3>1 DEF RemovedInv, Gone
    <3>3. downstream'.granted => downstream'.stream > client.removed
      <4>1. CASE PullTrack
        BY <4>1, DownstreamAfter
      <4>2. CASE PullStream \/ PullLiveStream
        <5>1. downstream'.stream = Head(pipe).n /\ Head(pipe).kind \in Heard
          BY <4>2, DownstreamAfter DEF PullStream, PullLiveStream, Unskipped, Pull, Heard, StreamKinds
        <5> QED BY <5>1, <2>5, <3>1 DEF RemovedInv
      <4>3. CASE PullAudio
        <5>1. downstream'.stream = downstream.stream /\ Head(pipe).kind = "Audio"
          BY <4>3, DownstreamAfter DEF PullAudio, Unskipped, Pull
        <5>2. downstream.stream = Head(pipe).n
          BY <2>3, <3>1, <5>1, <1>t, TailIndex DEF OrderInv
        <5> QED BY <5>1, <5>2, <2>5, <3>1 DEF RemovedInv, Heard
      <4> QED BY <2>8, <4>1, <4>2, <4>3
    <3> QED BY <2>2, <2>4, <3>1, <3>2, <3>3 DEF RemovedInv, Removing
  <2> QED BY <1>2, <2>6, <2>7, <2>8 DEF Consumer, Discard, PullQuit
<1>3. CASE RemoveAll \/ PipelineStop
  <2>1. UNCHANGED <<pipe, pc, filler>>
    BY <1>3 DEF RemoveAll, PipelineStop
  <2>2. Removing(client.halt, client.began) /\ client.halt = filler.iNextHaltId /\ client.at \in InCall
    BY <1>3 DEF RemoveAll, PipelineStop, RemovedInv, CallInv, InCall
  <2>3. CASE RemoveAll
    <3>1. /\ downstream'.skip = client.halt /\ ~downstream'.granted /\ client'.removed = client.began
          /\ client'.at \notin InCall
      <4>1. downstream'.skip = client.halt /\ ~downstream'.granted
        BY <2>3, DownstreamAfter
      <4>2. client'.removed = client.began /\ client'.at \in {"idle", "moving", "quitting"}
        BY <2>3, <1>t DEF RemoveAll, Returned, ClientMembers
      <4>3. client'.at \notin InCall
        BY <4>2 DEF InCall
      <4> QED BY <4>1, <4>2, <4>3
    <3> QED BY <2>1, <2>2, <3>1, <1>n DEF RemovedInv, Removing
  <2>4. CASE PipelineStop
    <3>1. /\ client'.halt = client.halt /\ client'.began = client.began /\ client'.removed = client.removed
          /\ downstream'.stream = downstream.stream
          /\ \/ downstream'.skip = client.halt /\ ~downstream'.granted
             \/ downstream'.skip = downstream.skip /\ downstream'.granted = downstream.granted
      <4>1. client'.halt = client.halt /\ client'.began = client.began /\ client'.removed = client.removed
        BY <2>4, <1>t DEF PipelineStop, ClientMembers
      <4> QED BY <2>4, <4>1, DownstreamAfter
    <3>2. Removing(client.halt, client.removed)
      <4>1. CASE downstream.skip # NoHalt
        <5>1. Removing(downstream.skip, client.removed) /\ downstream.skip <= client.halt
          BY <4>1, <2>2 DEF RemovedInv, HaltInv
        <5> QED BY <5>1, <1>n, RemovingLess
      <4>2. CASE downstream.skip = NoHalt
        BY <4>2, <1>n, RemovingLess DEF RemovedInv, Gone
      <4> QED BY <4>1, <4>2
    <3> QED BY <2>1, <2>2, <3>1, <3>2, <1>n DEF RemovedInv, Removing, Gone
  <2> QED BY <1>3, <2>3, <2>4
<1>4. CASE StopLocked
  <2>1. /\ UNCHANGED <<pc, pipe, downstream, filler.iTrack>> /\ client'.removed = client.removed
        /\ client'.halt = HaltId /\ client'.began = filler.iTrack
    BY <1>4, <1>t, OthersFrame DEF StopLocked, ClientMembers, Others, CallSteps
  <2>2. Removing(HaltId, filler.iTrack)
    <3>1. HaltsUpTo(pipe, HaltId - 1) /\ HaltId \in Nat
      <4>1. CASE filler.iPendingHaltId = NoHalt
        <5>1. HaltId = filler.iNextHaltId + 1 /\ HaltId - 1 = filler.iNextHaltId
          BY <4>1, <1>n DEF HaltId
        <5> QED BY <1>n, <5>1 DEF HaltInv
      <4>2. CASE filler.iPendingHaltId # NoHalt
        BY <4>2, <1>n DEF HaltId, HaltInv
      <4> QED BY <4>1, <4>2
    <3> QED BY <3>1, <1>n, RemovingLess
  <2> QED BY <2>1, <2>2 DEF RemovedInv, Removing, Gone
<1>5. CASE Others /\ ~(Consumer \/ RemoveAll \/ PipelineStop \/ StopLocked)
  <2>1. UNCHANGED <<pc, pipe, filler.iTrack>>
    BY <1>5, OthersFrame, OthersPull DEF vars
  <2>2. /\ downstream'.skip = downstream.skip /\ downstream'.stream = downstream.stream
        /\ downstream'.granted => downstream.granted
    BY <1>5, DownstreamSteps, DownstreamAfter, StopperFrame DEF Like, Consumer
  <2>3. CASE StopperOnly
    BY <2>1, <2>2, <2>3, StopperFrame DEF RemovedInv, Removing, Gone, InCall
  <2>4. CASE ~StopperOnly
    <3>1. client'.removed = client.removed
      BY <1>5, <2>4, <1>t DEF Others, CallSteps, RampCompleted, Interrupt, InvalidatePending, MoveNext, Kill,
         KillInterrupt, Join, Begin, TrySeek, Call, StopperOnly, Returned, ClientMembers
    <3>2. client'.at \in InCall \ {"killing"} => /\ client.at \in InCall \ {"killing"}
                                                 /\ client'.halt = client.halt /\ client'.began = client.began
      BY <1>5, <2>4, <1>t DEF Others, CallSteps, RampCompleted, Interrupt, InvalidatePending, MoveNext, Kill,
         KillInterrupt, Join, Begin, TrySeek, Call, StopperOnly, Returned, InCall, ClientMembers
    <3> QED BY <2>1, <2>2, <3>1, <3>2 DEF RemovedInv, Removing, Gone
  <2> QED BY <2>3, <2>4
<1> QED BY TwoKinds, <1>1, <1>2, <1>3, <1>4, <1>5 DEF Others, CallSteps

-----------------------------------------------------------------------------
LEMMA InitHolds == Init => IInv
<1> SUFFICES ASSUME Init PROVE IInv
  OBVIOUS
<1>1. filler \in FillerMembers /\ pc \in Places
  BY BoundAssumption DEF Init, FillerMembers, NoHalt, NoTrack, FirstHalt, Places
<1>2. protocol \in ProtocolMembers
  BY InactiveTyped DEF Init
<1>3. pipe \in Seq(Msgs) /\ pending \in Seq(Streams)
  BY DEF Init
<1>4. downstream \in DownstreamMembers
  BY DEF Init, DownstreamMembers, States, NoHalt, FirstHalt
<1>5. client \in ClientMembers
  BY BoundAssumption DEF Init, ClientMembers, Operations, Progress, NoHalt, NoTrack
<1>6. PlaceInv
  BY DEF Init, PlaceInv, Inactive, Producing, Streaming
<1>7. CallInv
  BY DEF Init, CallInv, InCall, NoTrack
<1>e. Len(pipe) = 0
  BY DEF Init
<1>8. HaltInv
  BY <1>e DEF Init, HaltInv, HaltsUpTo, NoHalt, FirstHalt
<1>9. OrderInv
  BY <1>e DEF Init, OrderInv, TracksUpTo, AudioFollows, Streaming
<1>10. HeardInv
  BY DEF Init, HeardInv, Awaiting, NoTrack
<1>11. WokenInv
  BY DEF Init, WokenInv
<1>12. RemovedInv
  BY <1>e DEF Init, RemovedInv, Gone, Above, Producing, Streaming, InCall
<1> QED BY <1>1, <1>2, <1>3, <1>4, <1>5, <1>6, <1>7, <1>8, <1>9, <1>10, <1>11, <1>12 DEF IInv, TypeOK

LEMMA StepKept == IInv /\ [Next]_vars => IInv'
<1>1. CASE Next
  BY <1>1, TypesKept, PlaceKept, CallKept, HaltKept, OrderKept, HeardKept, WokenKept, RemovedKept DEF IInv
<1>2. CASE UNCHANGED vars
  <2>1. TypeOK => TypeOK'
    BY <1>2 DEF vars, TypeOK
  <2>2. /\ PlaceInv => PlaceInv'
        /\ CallInv => CallInv'
        /\ HaltInv => HaltInv'
        /\ OrderInv => OrderInv'
    BY <1>2 DEF vars, PlaceInv, CallInv, HaltInv, OrderInv
  <2>3. /\ HeardInv => HeardInv'
        /\ WokenInv => WokenInv'
        /\ RemovedInv => RemovedInv'
    BY <1>2 DEF vars, HeardInv, Unheard, WokenInv, RemovedInv, Removing, Gone
  <2> QED BY <2>1, <2>2, <2>3 DEF IInv
<1> QED BY <1>1, <1>2

(* Inductive: types, places, what the call knows, the order of halts and   *)
(* of audio, and what each removal left behind.                            *)
THEOREM Inductive == Spec => []IInv
  BY InitHolds, StepKept, PTL DEF Spec

(* Every member of Filler, of the protocol, of downstream and of the call  *)
(* keeps its range, and the queues hold only messages and streams.         *)
THEOREM TypeCorrect == Spec => []TypeOK
<1>1. IInv => TypeOK
  BY DEF IInv
<1> QED BY Inductive, <1>1, PTL

(* Filler::Stop, waiting with FIL1 held to interrupt the protocol, never   *)
(* meets a protocol waiting with its own lock held for FIL1: a track whose *)
(* audio is awaited has none on its way, so Seeker has nothing to seek in. *)
THEOREM NeverEmbrace == Spec => []NoDeadlyEmbrace
<1>1. IInv => NoDeadlyEmbrace
  BY DEF IInv, CallInv, HeardInv, PlaceInv, Unheard, NoDeadlyEmbrace
<1> QED BY Inductive, <1>1, PTL

(* Between calls, a thread that sleeps in Wait() owes no halt and is stopped, *)
(* however calls and the thread interleave.                                *)
THEOREM AlwaysWoken == Spec => []FillerIsWoken
<1>1. IInv => FillerIsWoken
  BY DEF IInv, WokenInv, FillerIsWoken
<1> QED BY Inductive, <1>1, PTL

(* RemoveAll's halt comes after all that was fetched before it, so Skipper *)
(* lets none of it reach Stopper to be granted.                            *)
THEOREM RemovedStaysRemoved == Spec => []RemovedIsNotGranted
<1>1. IInv => RemovedIsNotGranted
  BY DEF IInv, RemovedInv, RemovedIsNotGranted
<1> QED BY Inductive, <1>1, PTL

-----------------------------------------------------------------------------
(* The halts promised and those pushed.                                    *)

(* The last halt of q is h, or q has none and d, pulled before, is h.      *)
EndsIn(q, d, h) ==
    \/ d = h /\ \A j \in DOMAIN q : q[j].kind # "Halt"
    \/ \E i \in DOMAIN q : LastIn(q, i) /\ q[i].n = h

LEMMA LastIs ==
  ASSUME NEW q \in Seq(Msgs), NEW d, NEW h, EndsIn(q, d, h)
  PROVE  LastOf(q, d) = h
<1>1. CASE d = h /\ \A j \in DOMAIN q : q[j].kind # "Halt"
  <2>1. ~ \E i \in DOMAIN q : LastIn(q, i)
    BY <1>1 DEF LastIn
  <2> QED BY <1>1, <2>1 DEF LastOf
<1>2. CASE \E i \in DOMAIN q : LastIn(q, i) /\ q[i].n = h
  <2>1. PICK i \in DOMAIN q : LastIn(q, i) /\ q[i].n = h
    BY <1>2
  <2> DEFINE c == CHOOSE k \in DOMAIN q : LastIn(q, k)
  <2>2. c \in DOMAIN q /\ LastIn(q, c)
    BY <2>1
  <2>3. LastOf(q, d) = q[c].n
    BY <2>1 DEF LastOf
  <2> HIDE DEF c
  <2>4. DOMAIN q \subseteq Nat
    OBVIOUS
  <2>5. c = i
    BY <2>1, <2>2, <2>4 DEF LastIn
  <2> QED BY <2>1, <2>3, <2>5
<1> QED BY <1>1, <1>2 DEF EndsIn

LEMMA LastNext == LastHalt' = LastOf(pipe', downstream'.halted)
  BY DEF LastHalt, LastOf, LastIn

LEMMA EndsAppend ==
  ASSUME NEW q \in Seq(Msgs), NEW m \in Msgs, NEW d, NEW h
  PROVE  /\ m.kind = "Halt" => EndsIn(Append(q, m), d, m.n)
         /\ m.kind # "Halt" /\ EndsIn(q, d, h) => EndsIn(Append(q, m), d, h)
<1> DEFINE r == Append(q, m)
           n == Len(q) + 1
<1>1. /\ Len(q) \in Nat /\ DOMAIN q = 1 .. Len(q) /\ DOMAIN r = 1 .. n /\ n \in DOMAIN r
      /\ r[n] = m /\ \A i \in DOMAIN q : r[i] = q[i]
  OBVIOUS
<1> HIDE DEF r
<1>2. ASSUME m.kind = "Halt" PROVE EndsIn(r, d, m.n)
  <2>1. LastIn(r, n)
    BY <1>1, <1>2 DEF LastIn
  <2> QED BY <1>1, <2>1 DEF EndsIn
<1>3. ASSUME m.kind # "Halt", EndsIn(q, d, h) PROVE EndsIn(r, d, h)
  <2>1. CASE d = h /\ \A j \in DOMAIN q : q[j].kind # "Halt"
    <3>1. \A j \in DOMAIN r : r[j].kind # "Halt"
      BY <1>1, <1>3, <2>1
    <3> QED BY <2>1, <3>1 DEF EndsIn
  <2>2. ASSUME NEW i \in DOMAIN q, LastIn(q, i), q[i].n = h PROVE EndsIn(r, d, h)
    <3>1. i \in DOMAIN r /\ r[i] = q[i]
      BY <1>1
    <3>2. LastIn(r, i)
      BY <1>1, <1>3, <2>2, <3>1 DEF LastIn
    <3> QED BY <2>2, <3>1, <3>2 DEF EndsIn
  <2> QED BY <1>3, <2>1, <2>2 DEF EndsIn
<1> QED BY <1>2, <1>3 DEF r

LEMMA EndsTail ==
  ASSUME NEW q \in Seq(Msgs), q # << >>, NEW d, NEW h, EndsIn(q, d, h)
  PROVE  EndsIn(Tail(q), IF Head(q).kind = "Halt" THEN Head(q).n ELSE d, h)
<1> DEFINE r == Tail(q)
           e == IF Head(q).kind = "Halt" THEN Head(q).n ELSE d
<1>1. /\ Len(q) \in Nat \ {0} /\ DOMAIN q = 1 .. Len(q) /\ DOMAIN r = 1 .. Len(q) - 1
      /\ Head(q) = q[1] /\ \A i \in DOMAIN r : r[i] = q[i + 1]
  BY TailIndex
<1> HIDE DEF r
<1>2. CASE d = h /\ \A j \in DOMAIN q : q[j].kind # "Halt"
  <2>1. e = h /\ \A j \in DOMAIN r : r[j].kind # "Halt"
    BY <1>1, <1>2
  <2> QED BY <2>1 DEF EndsIn, r
<1>3. ASSUME NEW i \in DOMAIN q, LastIn(q, i), q[i].n = h PROVE EndsIn(r, e, h)
  <2>1. CASE i = 1
    <3>1. e = h
      BY <1>1, <1>3, <2>1 DEF LastIn
    <3>2. \A j \in DOMAIN r : r[j].kind # "Halt"
      BY <1>1, <1>3, <2>1 DEF LastIn
    <3> QED BY <3>1, <3>2 DEF EndsIn
  <2>2. CASE i # 1
    <3>1. i - 1 \in DOMAIN r /\ r[i - 1] = q[i]
      BY <1>1, <2>2
    <3>2. LastIn(r, i - 1)
      BY <1>1, <1>3, <3>1 DEF LastIn
    <3> QED BY <1>3, <3>1, <3>2 DEF EndsIn
  <2> QED BY <2>1, <2>2
<1> QED BY <1>2, <1>3 DEF EndsIn, r

(* The last halt pushed is the one promised last, unless that one is owed.  *)
Delivered == IF filler.iPendingHaltId = NoHalt THEN filler.iNextHaltId ELSE filler.iNextHaltId - 1
DeliveredInv == EndsIn(pipe, downstream.halted, Delivered)

LEMMA IdsTyped ==
  ASSUME TypeOK, HaltInv
  PROVE  /\ filler.iNextHaltId \in Nat \ {0} /\ NoHalt = 0
         /\ filler.iPendingHaltId = NoHalt \/ filler.iPendingHaltId = filler.iNextHaltId
         /\ Delivered \in Nat /\ pipe \in Seq(Msgs) /\ filler \in FillerMembers
<1>1. filler \in FillerMembers /\ pipe \in Seq(Msgs)
  BY DEF TypeOK
<1>2. filler.iNextHaltId \in Nat \ {0} /\ NoHalt = 0
  BY <1>1 DEF FillerMembers, NoHalt
<1> QED BY <1>1, <1>2 DEF HaltInv, Delivered

(* A halt that was promised is pushed.                                      *)
LEMMA HaltDelivered ==
  ASSUME TypeOK, HaltInv, DeliveredInv, HaltStep
  PROVE  EndsIn(pipe', downstream.halted, filler.iNextHaltId)
<1>1. /\ filler.iNextHaltId \in Nat \ {0} /\ pipe \in Seq(Msgs)
      /\ filler.iPendingHaltId = NoHalt \/ filler.iPendingHaltId = filler.iNextHaltId
  BY IdsTyped
<1>2. EndsIn(WithHalt, downstream.halted, filler.iNextHaltId) /\ WithHalt \in Seq(Msgs)
  <2>1. CASE filler.iPendingHaltId = NoHalt
    BY <1>1, <2>1 DEF WithHalt, DeliveredInv, Delivered
  <2>2. CASE filler.iPendingHaltId # NoHalt
    <3> DEFINE m == Msg("Halt", filler.iNextHaltId)
    <3>1. m \in Msgs /\ m.kind = "Halt" /\ m.n = filler.iNextHaltId
      BY <1>1 DEF Msgs, Msg, NoHalt
    <3>2. WithHalt = Append(pipe, m)
      BY <1>1, <2>2 DEF WithHalt
    <3> HIDE DEF m
    <3>3. Append(pipe, m) \in Seq(Msgs)
      BY <1>1, <3>1
    <3> QED BY <1>1, <3>1, <3>2, <3>3, EndsAppend
  <2> QED BY <2>1, <2>2
<1>3. Msg("Quit", 0) \in Msgs /\ Msg("Quit", 0).kind # "Halt"
  BY DEF Msgs, Msg
<1>4. EndsIn(Append(WithHalt, Msg("Quit", 0)), downstream.halted, filler.iNextHaltId)
  BY <1>2, <1>3, EndsAppend
<1> QED BY <1>2, <1>4 DEF HaltStep

(* Only a halt that is pulled changes what the consumer says of halts.     *)
LEMMA HaltPulled ==
  ASSUME TypeOK, Others
  PROVE  IF Consumer
         THEN \/ /\ pipe # << >> /\ pipe' = Tail(pipe)
                 /\ downstream'.halted = IF Head(pipe).kind = "Halt" THEN Head(pipe).n ELSE downstream.halted
              \/ UNCHANGED vars
         ELSE UNCHANGED <<pipe, downstream.halted>>
<1>t. downstream \in DownstreamMembers
  BY DEF TypeOK
<1>1. CASE Discard \/ PullTrack \/ PullStream \/ PullLiveStream \/ PullAudio \/ PullQuit
  BY <1>1, DownstreamAfter DEF Consumer, Discard, PullTrack, PullStream, PullLiveStream, PullAudio, PullQuit, Unskipped,
     Pull
<1>2. CASE PullHalt
  BY <1>2, DownstreamAfter DEF Consumer, PullHalt, Pull
<1>3. CASE ~Consumer
  <2>1. UNCHANGED pipe
    BY <1>3, OthersPull DEF vars
  <2> QED BY <1>3, <2>1, DownstreamSteps, DownstreamAfter, StopperFrame DEF Like, Consumer
<1> QED BY <1>1, <1>2, <1>3 DEF Consumer

(* Stop() promises the halt that is owed, or the next one.                  *)
LEMMA StopPromises ==
  ASSUME TypeOK, HaltInv, StopLocked
  PROVE  /\ UNCHANGED <<pipe, downstream>> /\ Delivered' = Delivered
         /\ filler'.iNextHaltId = HaltId /\ filler'.iPendingHaltId # NoHalt
         /\ HaltId = IF filler.iPendingHaltId = NoHalt THEN filler.iNextHaltId + 1 ELSE filler.iNextHaltId
<1>1. /\ filler.iNextHaltId \in Nat \ {0} /\ NoHalt = 0 /\ filler \in FillerMembers
      /\ filler.iPendingHaltId = NoHalt \/ filler.iPendingHaltId = filler.iNextHaltId
  BY IdsTyped
<1>2. filler'.iPendingHaltId = HaltId /\ filler'.iNextHaltId = HaltId /\ UNCHANGED <<pipe, downstream>>
  BY <1>1 DEF StopLocked, Signalled, FillerMembers
<1>3. HaltId = IF filler.iPendingHaltId = NoHalt THEN filler.iNextHaltId + 1 ELSE filler.iNextHaltId
  BY <1>1 DEF HaltId
<1>4. HaltId # NoHalt
  BY <1>1, <1>3
<1>5. Delivered' = HaltId - 1
  BY <1>2, <1>4 DEF Delivered
<1>6. HaltId - 1 = Delivered
  BY <1>1, <1>3 DEF Delivered
<1> QED BY <1>2, <1>3, <1>4, <1>5, <1>6

LEMMA DeliveredKept == IInv /\ DeliveredInv /\ Next => DeliveredInv'
<1> SUFFICES ASSUME IInv, DeliveredInv, Next PROVE EndsIn(pipe', downstream'.halted, Delivered')
  BY DEF DeliveredInv, EndsIn, LastIn
<1>0. TypeOK /\ PlaceInv /\ CallInv /\ HaltInv /\ pipe \in Seq(Msgs)
  BY DEF IInv, TypeOK
<1>1. CASE Thread \/ StreamEnds
  <2>1. UNCHANGED <<downstream, filler.iNextHaltId>>
    BY <1>0, <1>1, ThreadFrame
  <2>2. CASE UNCHANGED <<pipe, filler.iPendingHaltId>>
    BY <2>1, <2>2 DEF DeliveredInv, Delivered
  <2>3. CASE HaltStep
    <3>1. Delivered' = filler.iNextHaltId
      BY <2>1, <2>3 DEF HaltStep, Delivered
    <3> QED BY <1>0, <2>1, <2>3, <3>1, HaltDelivered
  <2>4. ASSUME NEW m \in Msgs, Pushed(m) PROVE EndsIn(pipe', downstream'.halted, Delivered')
    <3>1. m.kind # "Halt" /\ pipe' = Append(pipe, m) /\ Delivered' = Delivered
      BY <2>1, <2>4 DEF Pushed, Content, Delivered
    <3> QED BY <1>0, <2>1, <3>1, EndsAppend DEF DeliveredInv
  <2> QED BY <1>0, <1>1, ThreadPushes, <2>2, <2>3, <2>4
<1>2. CASE Others /\ ~StopLocked
  <2>1. Delivered' = Delivered
    BY <1>0, <1>2, OthersPromise DEF Delivered
  <2>2. CASE UNCHANGED <<pipe, downstream.halted>>
    BY <2>1, <2>2 DEF DeliveredInv
  <2>3. CASE /\ pipe # << >> /\ pipe' = Tail(pipe)
             /\ downstream'.halted = IF Head(pipe).kind = "Halt" THEN Head(pipe).n ELSE downstream.halted
    BY <1>0, <2>1, <2>3, EndsTail DEF DeliveredInv
  <2> QED BY <1>0, <1>2, HaltPulled, <2>2, <2>3 DEF vars
<1>3. CASE StopLocked
  BY <1>0, <1>3, StopPromises DEF DeliveredInv
<1> QED BY TwoKinds, <1>1, <1>2, <1>3

(* Every step promises a halt, delivers the one promised, or neither.       *)
LEMMA StepPromises ==
  ASSUME IInv, DeliveredInv, DeliveredInv', TypeOK', Next
  PROVE  Promises!Next \/ UNCHANGED <<filler.iNextHaltId, LastHalt>>
<1>0. TypeOK /\ PlaceInv /\ CallInv /\ HaltInv
  BY DEF IInv
<1>1. LastHalt = Delivered
  BY <1>0, IdsTyped, LastIs DEF DeliveredInv, LastHalt
<1>2. LastHalt' = Delivered'
  <2>1. pipe' \in Seq(Msgs) /\ EndsIn(pipe', downstream'.halted, Delivered')
    BY DEF TypeOK, DeliveredInv, EndsIn, LastIn
  <2> QED BY <2>1, LastIs, LastNext
<1>3. /\ filler.iNextHaltId \in Nat \ {0} /\ NoHalt = 0
      /\ filler.iPendingHaltId = NoHalt \/ filler.iPendingHaltId = filler.iNextHaltId
  BY <1>0, IdsTyped
<1>4. CASE UNCHANGED <<filler.iNextHaltId, filler.iPendingHaltId>>
  BY <1>1, <1>2, <1>4 DEF Delivered
<1>5. CASE HaltStep /\ filler'.iNextHaltId = filler.iNextHaltId
  <2>1. Delivered' = filler.iNextHaltId
    BY <1>5 DEF HaltStep, Delivered
  <2>2. CASE filler.iPendingHaltId = NoHalt
    BY <1>1, <1>2, <1>5, <2>1, <2>2 DEF Delivered
  <2>3. CASE filler.iPendingHaltId # NoHalt
    <3>1. LastHalt < filler.iNextHaltId
      BY <1>1, <1>3, <2>3 DEF Delivered
    <3> QED BY <1>2, <1>5, <2>1, <3>1 DEF Promises!Next, Promises!Deliver
  <2> QED BY <2>2, <2>3
<1>6. CASE StopLocked
  <2>1. LastHalt' = LastHalt
    BY <1>0, <1>1, <1>2, <1>6, StopPromises
  <2>2. CASE filler.iPendingHaltId = NoHalt
    <3>1. filler.iNextHaltId = LastHalt /\ filler'.iNextHaltId = filler.iNextHaltId + 1
      BY <1>0, <1>1, <1>6, <2>2, StopPromises DEF Delivered
    <3> QED BY <2>1, <3>1 DEF Promises!Next, Promises!Promise
  <2>3. CASE filler.iPendingHaltId # NoHalt
    BY <1>0, <1>6, <2>1, <2>3, StopPromises
  <2> QED BY <2>2, <2>3
<1>7. CASE Thread \/ StreamEnds
  <2>1. UNCHANGED filler.iNextHaltId
    BY <1>0, <1>7, ThreadFrame
  <2> QED BY <1>0, <1>4, <1>5, <1>7, <2>1, ThreadPushes DEF Pushed
<1> QED BY <1>0, TwoKinds, OthersPromise, <1>4, <1>6, <1>7

(* Filler promises each halt once and delivers each once, in the order they *)
(* were promised, whatever its clients, its protocol and Skipper do.        *)
THEOREM HaltsKeptInOrder == Spec => PromisesKept
<1> DEFINE Inv == IInv /\ DeliveredInv
<1>1. Init => Inv /\ Promises!Init
  <2> SUFFICES ASSUME Init PROVE DeliveredInv /\ Promises!Init
    BY InitHolds
  <2>1. pipe \in Seq(Msgs) /\ DOMAIN pipe = {} /\ downstream.halted = FirstHalt /\ Delivered = FirstHalt
        /\ filler.iNextHaltId = FirstHalt
    BY DEF Init, Delivered
  <2>2. DeliveredInv
    BY <2>1 DEF DeliveredInv, EndsIn
  <2>3. LastHalt = FirstHalt
    BY <2>1, <2>2, LastIs DEF DeliveredInv, LastHalt
  <2> QED BY <2>1, <2>2, <2>3 DEF Promises!Init, FirstHalt
<1>2. Inv /\ [Next]_vars => Inv'
  <2> SUFFICES ASSUME Inv, [Next]_vars PROVE DeliveredInv'
    BY StepKept
  <2>1. CASE UNCHANGED vars
    BY <2>1 DEF vars, DeliveredInv, Delivered, EndsIn, LastIn
  <2> QED BY <2>1, DeliveredKept
<1>3. Inv /\ Inv' /\ [Next]_vars => [Promises!Next]_(Promises!promiseVars)
  <2> SUFFICES ASSUME Inv, Inv', [Next]_vars
               PROVE  Promises!Next \/ UNCHANGED <<filler.iNextHaltId, LastHalt>>
    BY DEF Promises!promiseVars
  <2>1. CASE UNCHANGED vars
    BY <2>1, LastNext DEF vars, LastHalt
  <2> QED BY <2>1, StepPromises DEF IInv
<1> QED BY <1>1, <1>2, <1>3, PTL DEF Spec, PromisesKept, Promises!Spec
=============================================================================
