------------------------------- MODULE Filler -------------------------------
(***************************************************************************)
(* Filler (Media/Filler.cpp) as PipelineManager (Media/PipelineManager.cpp) *)
(* drives it: the thread that asks a UriProvider for a track and lets a    *)
(* protocol stream it into the pipeline, against a client that removes all *)
(* content, stops, moves on, begins or quits.                              *)
(*                                                                         *)
(* Filler's thread runs the protocol, so pc covers both.  A step lies      *)
(* between two acquisitions of Filler::iLock (FIL1), of the protocol's own *)
(* lock, or two messages.  The protocol is ProtocolHttp as Filler sees it:  *)
(* interrupted only while active, it forgets earlier interrupts when it    *)
(* starts, waits to be granted if its stream is live, and pushes the flush *)
(* of a seek with its lock held.  A stream may last for ever unless it is  *)
(* stopped, as radio does; pushing its first audio stands for all of it.   *)
(*                                                                         *)
(* Downstream is one consumer: Skipper discards until the halt it was told, *)
(* a stream is decoded when its first audio is pulled, and Stopper asks    *)
(* IdManager about each stream it sees.  Once stopped, Stopper holds the   *)
(* thread that pulls, until it is told to play.  pending is IdManager's    *)
(* queue, as in StreamGrants.  MsgMode, MsgMetaText, flushes, pauses and   *)
(* the audio of ramps are left out.  A track has one stream, of the same   *)
(* number.                                                                 *)
(***************************************************************************)
EXTENDS Naturals, Sequences

CONSTANTS MaxTracks,     \* tracks the UriProvider has
          MaxPipe,       \* messages between Filler and Skipper
          MaxCalls       \* calls of the client

ASSUME BoundAssumption == /\ MaxTracks \in Nat /\ MaxPipe \in Nat \ {0} /\ MaxCalls \in Nat

VARIABLES filler,        \* the members of Filler, and its thread's semaphore
          pc,            \* where its thread is
          protocol,      \* the members of the protocol
          pipe,          \* messages pushed and not yet pulled by Skipper
          pending,       \* IdManager: streams announced, not yet granted
          downstream,    \* Skipper and Stopper
          client         \* the call under way

vars == <<filler, pc, protocol, pipe, pending, downstream, client>>

NoHalt == 0              \* MsgHalt::kIdInvalid
FirstHalt == 1           \* MsgHalt::kIdNone + 1
Halts == FirstHalt + 1 .. FirstHalt + MaxCalls + 1
NoTrack == 0             \* also kStreamIdInvalid
NullTrack == MaxTracks + 1                        \* iNullTrack and its stream
Tracks == 1 .. MaxTracks
Streams == Tracks \union {NullTrack}

Msg(kind, n) == [kind |-> kind, n |-> n]
Content == {"Track", "Stream", "LiveStream", "Audio"}
Msgs == [kind : Content, n : Streams] \union [kind : {"Halt"}, n : Nat \ {NoHalt}]
        \union [kind : {"Quit"}, n : {0}]

Inactive == [iActive |-> FALSE, iStopped |-> FALSE, iSem |-> FALSE, iSeek |-> FALSE,
             iStreamId |-> NoTrack, iLive |-> FALSE]

Init == /\ filler = [iStopped |-> TRUE, iWaitingForAudio |-> FALSE, iNoAudioBeforeNextTrack |-> FALSE,
                     iNextHaltId |-> FirstHalt, iPendingHaltId |-> NoHalt, iTrack |-> NoTrack,
                     iActiveUriProvider |-> FALSE, signals |-> 0, kill |-> FALSE]
        /\ pc = "wait"
        /\ protocol = Inactive
        /\ pipe = << >> /\ pending = << >>
        /\ downstream = [skip |-> NoHalt, stream |-> NoTrack, checked |-> TRUE, decoded |-> FALSE,
                         granted |-> FALSE, halted |-> FirstHalt,
                         iState |-> "Running", iTargetHaltId |-> NoHalt, held |-> FALSE]
        /\ client = [op |-> "None", at |-> "idle", halt |-> NoHalt, calls |-> 0,
                     began |-> NoTrack, removed |-> NoTrack, missed |-> FALSE]

(* StopLocked holds FIL1 while it waits for the protocol's lock. *)
LockFree == client.at # "interrupting"
ProtocolLockFree == pc # "seeking"

Room == Len(pipe) < MaxPipe
Unsignalled(f) == f
Signalled(f) == [f EXCEPT !.signals = @ + 1]

-----------------------------------------------------------------------------
(* Filler::Run.                                                            *)

(* Places where the protocol has a stream, and where a track is being added. *)
Streaming == {"announce", "output", "livewait", "audio", "pushaudio", "streaming", "seeking"}
Producing == {"begin", "ready", "activate", "open"} \union Streaming

Wait == /\ pc = "wait" /\ filler.signals > 0
        /\ filler' = [filler EXCEPT !.signals = @ - 1]
        /\ pc' = IF filler.kill THEN "killed" ELSE "top"
        /\ UNCHANGED <<protocol, pipe, pending, downstream, client>>

(* A MsgHalt is never blocked by a full reservoir. *)
WithHalt == IF filler.iPendingHaltId = NoHalt THEN pipe
            ELSE Append(pipe, Msg("Halt", filler.iPendingHaltId))

PushPromised ==
    /\ pc = "top" /\ LockFree
    /\ pipe' = WithHalt
    /\ filler' = [filler EXCEPT !.iPendingHaltId = NoHalt]
    /\ pc' = IF filler.iStopped THEN "wait" ELSE "next"
    /\ UNCHANGED <<protocol, pending, downstream, client>>

(* The UriProvider has a track, or none. *)
GetNext ==
    /\ pc = "next" /\ LockFree
    /\ \/ /\ filler.iTrack < MaxTracks
          /\ pc' = "begin" /\ filler' = [filler EXCEPT !.iTrack = @ + 1]
       \/ pc' = "null" /\ filler' = [filler EXCEPT !.iStopped = TRUE]
    /\ UNCHANGED <<protocol, pipe, pending, downstream, client>>

(* ePlayNo: the null track tells the pipeline that nothing follows. *)
NullTrackPushed ==
    /\ pc = "null" /\ Room
    /\ pipe' = Append(pipe, Msg("Track", NullTrack)) /\ pc' = "nullannounce"
    /\ UNCHANGED <<filler, protocol, pending, downstream, client>>
NullTrackAnnounced ==
    /\ pc = "nullannounce"
    /\ pending' = Append(pending, NullTrack) /\ pc' = "nullstream"
    /\ UNCHANGED <<filler, protocol, pipe, downstream, client>>
NullStreamPushed ==
    /\ pc = "nullstream" /\ Room
    /\ pipe' = Append(pipe, Msg("LiveStream", NullTrack)) /\ pc' = "top"
    /\ UNCHANGED <<filler, protocol, pending, downstream, client>>

(* Interrupt(false) finds no protocol active and changes nothing. *)
BeginTrack ==
    /\ pc = "begin" /\ LockFree
    /\ filler' = [filler EXCEPT !.iWaitingForAudio = TRUE, !.iNoAudioBeforeNextTrack = FALSE]
    /\ pc' = "ready"
    /\ UNCHANGED <<protocol, pipe, pending, downstream, client>>

CheckForKill ==
    /\ pc = "ready" /\ filler.kill
    /\ pc' = "killed"
    /\ UNCHANGED <<filler, protocol, pipe, pending, downstream, client>>

Quitting ==
    /\ pc = "killed"
    /\ pipe' = Append(WithHalt, Msg("Quit", 0))
    /\ filler' = [filler EXCEPT !.iPendingHaltId = NoHalt]
    /\ pc' = "over"
    /\ UNCHANGED <<protocol, pending, downstream, client>>

-----------------------------------------------------------------------------
(* ProtocolManager::DoStream and the protocol it runs.                     *)
OutputTrack ==
    /\ pc = "ready" /\ ~filler.kill /\ LockFree /\ Room
    /\ pipe' = Append(pipe, Msg("Track", filler.iTrack))
    /\ filler' = [filler EXCEPT !.iWaitingForAudio = TRUE]
    /\ pc' = "activate"
    /\ UNCHANGED <<protocol, pending, downstream, client>>

(* TrySetActive, then Reinitialise: what interrupts it in between is lost. *)
Activate ==
    /\ pc = "activate"
    /\ protocol' = [Inactive EXCEPT !.iActive = TRUE]
    /\ pc' = "open"
    /\ UNCHANGED <<filler, pipe, pending, downstream, client>>

(* AutoStream's destructor.  Nobody reads the other members until then. *)
Deactivated == protocol' = Inactive /\ pc' = "top"

(* Connecting may fail; an interrupt may also come too late to prevent it. *)
StartStream ==
    /\ pc = "open"
    /\ \/ Deactivated
       \/ /\ pc' = "announce"
          /\ \E live \in BOOLEAN : protocol' = [protocol EXCEPT !.iStreamId = filler.iTrack, !.iLive = live]
    /\ UNCHANGED <<filler, pipe, pending, downstream, client>>

(* Filler::ProcessMsg of MsgEncodedStream.   A track that is no longer valid *)
(* is announced all the same and at once invalidated.                      *)
Announce ==
    /\ pc = "announce" /\ LockFree
    /\ filler' = [filler EXCEPT !.iWaitingForAudio = TRUE]
    /\ \E valid \in BOOLEAN : pending' = IF valid THEN Append(pending, protocol.iStreamId) ELSE pending
    /\ pc' = "output"
    /\ UNCHANGED <<protocol, pipe, downstream, client>>

OutputStream ==
    /\ pc = "output" /\ Room
    /\ pipe' = Append(pipe, Msg(IF protocol.iLive THEN "LiveStream" ELSE "Stream", protocol.iStreamId))
    /\ pc' = IF protocol.iLive THEN "livewait" ELSE "audio"
    /\ UNCHANGED <<filler, protocol, pending, downstream, client>>

(* A live stream waits on iSem for OkToPlay or to be stopped. *)
LiveWait ==
    /\ pc = "livewait" /\ protocol.iSem
    /\ \/ protocol.iStopped /\ Deactivated
       \/ ~protocol.iStopped /\ protocol' = [protocol EXCEPT !.iSem = FALSE] /\ pc' = "audio"
    /\ UNCHANGED <<filler, pipe, pending, downstream, client>>

OutputAudioStillWaiting ==
    /\ pc = "audio" /\ LockFree
    /\ pc' = IF filler.iNoAudioBeforeNextTrack THEN "streaming" ELSE "pushaudio"
    /\ UNCHANGED <<filler, protocol, pipe, pending, downstream, client>>
(* Filler::ProcessMsg of MsgAudioEncoded, then the push. *)
OutputAudio ==
    /\ pc = "audio" /\ LockFree
    /\ IF filler.iNoAudioBeforeNextTrack
       THEN pc' = "streaming" /\ filler' = filler
       ELSE pc' = "pushaudio" /\ filler' = [filler EXCEPT !.iWaitingForAudio = FALSE]
    /\ UNCHANGED <<protocol, pipe, pending, downstream, client>>
PushAudio ==
    /\ pc = "pushaudio" /\ Room
    /\ pipe' = Append(pipe, Msg("Audio", protocol.iStreamId)) /\ pc' = "streaming"
    /\ UNCHANGED <<filler, protocol, pending, downstream, client>>

(* A seek: the flush it promised is pushed through FIL1, lock held. *)
SeekBegins ==
    /\ pc = "streaming" /\ protocol.iSeek /\ ~protocol.iStopped
    /\ pc' = "seeking"
    /\ UNCHANGED <<filler, protocol, pipe, pending, downstream, client>>
SeekFlushed ==
    /\ pc = "seeking" /\ LockFree
    /\ protocol' = [protocol EXCEPT !.iSeek = FALSE] /\ pc' = "audio"
    /\ UNCHANGED <<filler, pipe, pending, downstream, client>>

(* A stream ends when it is stopped, or by itself. *)
StreamStopped ==
    /\ pc \in {"audio", "streaming"} /\ protocol.iStopped
    /\ Deactivated
    /\ UNCHANGED <<filler, pipe, pending, downstream, client>>
StreamEnds ==
    /\ pc \in {"audio", "streaming"} /\ ~protocol.iStopped /\ ~protocol.iSeek
    /\ Deactivated
    /\ UNCHANGED <<filler, pipe, pending, downstream, client>>

-----------------------------------------------------------------------------
(* What clients and Stopper ask of the protocol and of IdManager.          *)
InterruptedAsleep(p) == IF p.iActive THEN [p EXCEPT !.iStopped = TRUE] ELSE p
Interrupted(p) == IF p.iActive THEN [p EXCEPT !.iStopped = TRUE, !.iSem = TRUE] ELSE p
TryStop(p, s) == IF p.iStreamId = s /\ s # NoTrack
                 THEN [p EXCEPT !.iStopped = TRUE, !.iSem = @ \/ p.iLive] ELSE p

(* IdManager::OkToPlay grants the stream at the head only. *)
Grants(s) == pending # << >> /\ Head(pending) = s
Asked(s) == IF Grants(s) THEN Tail(pending) ELSE pending

(* The null track only ever plays later (NullTrackStreamHandler). *)
Plays(s) == Grants(s) /\ s # NullTrack

(* Stopper has been told to quit. *)
iQuit == client.op = "Kill" /\ client.at # "quitting"

(* ProtocolHttp::OkToPlay wakes a live stream that may play; Stopper stops *)
(* one that may not.                                                       *)
Answered(s) == IF Grants(s)
               THEN IF protocol.iLive /\ protocol.iStreamId = s THEN [protocol EXCEPT !.iSem = TRUE] ELSE protocol
               ELSE IF iQuit THEN protocol ELSE TryStop(protocol, s)

-----------------------------------------------------------------------------
(* The client.  PipelineManager's iPublicLock lets one call in at a time.  *)
(* RemoveAll, Next, Prev, PlayAs and Quit all begin by removing everything: *)
(* which of them a call is shows when that is done.                        *)
Call(op) ==
    /\ client.at = "idle" /\ client.calls < MaxCalls
    /\ client' = [client EXCEPT !.op = op, !.at = "stopping", !.calls = @ + 1]
    /\ UNCHANGED <<filler, pc, protocol, pipe, pending, downstream>>

(* Filler::Play.  PipelineManager::Begin needs no other part.              *)
Begin ==
    /\ client.at = "idle" /\ client.calls < MaxCalls
    /\ filler' = Signalled([filler EXCEPT !.iActiveUriProvider = TRUE, !.iStopped = FALSE])
    /\ client' = [client EXCEPT !.op = "None", !.calls = @ + 1]
    /\ UNCHANGED <<pc, protocol, pipe, pending, downstream>>

(* Stopper::Play. *)
Playing(d) == [d EXCEPT !.iState = IF @ = "Flushing" THEN @ ELSE "Running", !.iTargetHaltId = NoHalt, !.held = FALSE]

(* PipelineManager::Play.  PlayAs is a Next that is followed by it.        *)
Play ==
    /\ client.at = "idle"
    /\ downstream' = Playing(downstream)
    /\ client' = [client EXCEPT !.op = "None"]
    /\ UNCHANGED <<filler, pc, protocol, pipe, pending>>

(* Seeker calls TrySeek for a stream that has been decoded. *)
TrySeek ==
    /\ ProtocolLockFree
    /\ downstream.decoded /\ protocol.iStreamId = downstream.stream /\ ~protocol.iSeek
    /\ protocol' = [protocol EXCEPT !.iSeek = TRUE]
    /\ UNCHANGED <<filler, pc, pipe, pending, downstream, client>>

(* The thread has read iStopped, or its protocol does not listen yet. *)
Deaf == pc \in {"next", "begin", "ready", "activate"}

Returned == [client EXCEPT !.at = "idle", !.halt = NoHalt, !.began = NoTrack,
                           !.op = IF @ = "Stop" THEN "Stopped" ELSE "None"]
AfterStop == CASE client.op = "Stop" -> "halting" [] client.op = "Kill" -> "killing" [] OTHER -> "invalidating"

(* The id already promised, or the next one.                               *)
HaltIdAnew == filler.iNextHaltId + 1
HaltId == IF filler.iPendingHaltId # NoHalt THEN filler.iPendingHaltId ELSE filler.iNextHaltId + 1

(* Filler::Stop, whose Interrupt comes before the Signal. *)
StopLocked ==
    /\ client.at = "stopping"
    /\ LET told == [filler EXCEPT !.iPendingHaltId = HaltId, !.iNextHaltId = HaltId, !.iStopped = TRUE]
       IN /\ client' = [client EXCEPT !.halt = HaltId, !.missed = Deaf, !.began = filler.iTrack,
                                      !.at = IF filler.iWaitingForAudio THEN "interrupting" ELSE AfterStop]
          /\ filler' = IF filler.iWaitingForAudio THEN told ELSE Signalled(told)
    /\ UNCHANGED <<pc, protocol, pipe, pending, downstream>>

Interrupt ==
    /\ client.at = "interrupting" /\ ProtocolLockFree
    /\ protocol' = Interrupted(protocol)
    /\ filler' = Signalled([filler EXCEPT !.iNoAudioBeforeNextTrack = TRUE])
    /\ client' = [client EXCEPT !.at = AfterStop]
    /\ UNCHANGED <<pc, pipe, pending, downstream>>

(* IdManager::InvalidatePending. *)
InvalidatePending ==
    /\ client.at = "invalidating"
    /\ pending' = << >>
    /\ client' = IF client.op = "Stop" THEN Returned ELSE [client EXCEPT !.at = "removing"]
    /\ UNCHANGED <<filler, pc, protocol, pipe, downstream>>

SkipCurrentOnly(halt) == [downstream EXCEPT !.decoded = FALSE, !.granted = FALSE]
(* Skipper::RemoveAll removes what it has and waits for the halt. *)
SkipUntil(halt) == [downstream EXCEPT !.skip = halt, !.decoded = FALSE, !.granted = FALSE]

RemoveAll ==
    /\ client.at = "removing"
    /\ downstream' = SkipUntil(client.halt)
    /\ protocol' = TryStop(protocol, downstream.stream)
    /\ LET done == [Returned EXCEPT !.removed = client.began]
       IN \/ client' = done
          \/ filler.iActiveUriProvider /\ client' = [done EXCEPT !.at = "moving", !.op = "Next"]
          \/ client' = [done EXCEPT !.at = "quitting", !.op = "Kill"]
    /\ UNCHANGED <<filler, pc, pipe, pending>>

(* Stopper::BeginStop: HandleStopped if it is buffering or flushing, when  *)
(* the puller may be past its test of iState and pull once more; else it   *)
(* ramps down first, unless it does already or has stopped.                *)
BeginStop(d) ==
    LET told == [d EXCEPT !.iTargetHaltId = client.halt]
    IN \/ \E held \in BOOLEAN : /\ d.held => held
                                /\ downstream' = [told EXCEPT !.iState = "Stopped", !.held = held]
       \/ d.iState = "Running" /\ downstream' = [told EXCEPT !.iState = "RampingDown"]
       \/ d.iState \in {"RampingDown", "Stopped"} /\ downstream' = told

(* Pipeline::Stop: while it is buffering, everything is removed as well.   *)
PipelineStop ==
    /\ client.at = "halting"
    /\ \/ BeginStop(SkipUntil(client.halt)) /\ protocol' = TryStop(protocol, downstream.stream)
       \/ BeginStop(downstream) /\ protocol' = protocol
    /\ client' = [client EXCEPT !.at = "invalidating"]
    /\ UNCHANGED <<filler, pc, pipe, pending>>

(* Pipeline::Quit: Stopper plays, and nothing stops it again.              *)
PipelineQuit ==
    /\ client.at = "quitting"
    /\ downstream' = Playing(downstream)
    /\ client' = [client EXCEPT !.at = "stopping"]
    /\ UNCHANGED <<filler, pc, protocol, pipe, pending>>

(* Filler::Next or Prev, or the Filler::Play of PlayAs.                    *)
MoveNext ==
    /\ client.at = "moving" /\ LockFree
    /\ filler' = Signalled([filler EXCEPT !.iStopped = FALSE])
    /\ client' = Returned
    /\ UNCHANGED <<pc, protocol, pipe, pending, downstream>>

KillUnsignalled ==
    /\ client.at = "killing" /\ ~filler.kill
    /\ filler' = [filler EXCEPT !.kill = TRUE]
    /\ UNCHANGED <<pc, protocol, pipe, pending, downstream, client>>
(* Filler::Quit, after its Stop: Kill, Interrupt(true), Join. *)
Kill ==
    /\ client.at = "killing" /\ ~filler.kill
    /\ filler' = Signalled([filler EXCEPT !.kill = TRUE])
    /\ UNCHANGED <<pc, protocol, pipe, pending, downstream, client>>
KillInterrupt ==
    /\ client.at = "killing" /\ filler.kill /\ ProtocolLockFree
    /\ protocol' = Interrupted(protocol)
    /\ client' = [client EXCEPT !.at = "joining"]
    /\ UNCHANGED <<filler, pc, pipe, pending, downstream>>
Join ==
    /\ client.at = "joining" /\ pc = "over"
    /\ client' = [client EXCEPT !.at = "over"]
    /\ UNCHANGED <<filler, pc, protocol, pipe, pending, downstream>>

-----------------------------------------------------------------------------
(* The consumer.  Skipper's iBlocker stops it from before Filler::Stop     *)
(* until Skipper or Stopper knows the halt; its Flusher goes on discarding. *)
(* Nothing is pulled while Stopper::Pull waits on iSem.                    *)
Blocked == \/ client.at \in {"stopping", "interrupting", "removing", "halting"} /\ client.op # "Kill"
           \/ client.at = "invalidating" /\ client.op # "Stop"

Pull(kinds) == ~downstream.held /\ pipe # << >> /\ Head(pipe).kind \in kinds /\ pipe' = Tail(pipe)

(* Flusher: a MsgDecodedStream is stopped and then asked about. *)
Discard ==
    /\ downstream.skip # NoHalt
    /\ Pull({"Track", "Stream", "LiveStream", "Audio"})
    /\ LET m == Head(pipe) IN
         IF m.kind = "Audio"
         THEN /\ pending' = Asked(m.n)
              /\ protocol' = LET told == TryStop(protocol, m.n)
                             IN IF Grants(m.n) /\ protocol.iLive /\ protocol.iStreamId = m.n
                                THEN [told EXCEPT !.iSem = TRUE] ELSE told
         ELSE UNCHANGED <<pending, protocol>>
    /\ UNCHANGED <<filler, pc, downstream, client>>

Unskipped(kinds) == downstream.skip = NoHalt /\ ~Blocked /\ Pull(kinds)

(* Stopper asks about a stream no codec recognised when the next one comes. *)
AskStream(s) == pending' = Asked(s) /\ protocol' = Answered(s)
Unasked == ~downstream.checked /\ downstream.stream # NoTrack
AskUnlessChecked == IF Unasked THEN AskStream(downstream.stream) ELSE UNCHANGED <<pending, protocol>>

(* Having processed a message, Stopper::Pull waits if it is stopped now.   *)
Enter(d, state) == [d EXCEPT !.iState = state, !.held = (state = "Stopped")]

(* The state that the answer to OkToPlay leads to. *)
AnswerState(s) == IF iQuit THEN "Flushing"
                  ELSE IF s = NullTrack THEN "Stopped"
                  ELSE IF Grants(s) THEN downstream.iState ELSE "Flushing"

(* Stop() has let the consumer go on and has yet to call InvalidatePending: *)
(* a stream that begins now cancels its ramp and may play.                 *)
Missed(granted) == IF granted /\ client.op = "Stop" /\ client.at = "invalidating"
                   THEN [client EXCEPT !.missed = TRUE] ELSE client

PullTrack ==
    /\ Unskipped({"Track"})
    /\ AskUnlessChecked
    /\ downstream' = Enter([downstream EXCEPT !.stream = NoTrack, !.checked = FALSE, !.decoded = FALSE,
                                              !.granted = FALSE], "Running")
    /\ UNCHANGED <<filler, pc, client>>

(* The stream before was asked about when the track was pulled. *)
PullStream ==
    /\ Unskipped({"Stream"})
    /\ downstream' = Enter([downstream EXCEPT !.stream = Head(pipe).n, !.checked = FALSE, !.decoded = FALSE], "Running")
    /\ UNCHANGED <<filler, pc, protocol, pending, client>>

(* A live stream is asked about at once; it has become the one that runs.  *)
PullLiveStream ==
    /\ Unskipped({"LiveStream"})
    /\ LET s == Head(pipe).n IN
         /\ AskStream(s)
         /\ downstream' = Enter([downstream EXCEPT !.stream = s, !.checked = TRUE, !.decoded = FALSE,
                                                   !.granted = Plays(s)],
                                IF Plays(s) /\ ~iQuit THEN "Running" ELSE AnswerState(s))
         /\ client' = Missed(Plays(s))
    /\ UNCHANGED <<filler, pc>>

(* Recognised: Stopper asks when MsgDecodedStream arrives.  Not recognised: *)
(* CodecController stops the stream, and Stopper sees nothing of it.       *)
PullAudio ==
    /\ Unskipped({"Audio"})
    /\ LET s == Head(pipe).n IN
         \/ /\ AskUnlessChecked
            /\ downstream' = Enter([downstream EXCEPT !.checked = TRUE, !.decoded = TRUE,
                                                      !.granted = IF Unasked THEN Grants(s) ELSE @],
                                   IF Unasked THEN AnswerState(s) ELSE downstream.iState)
            /\ client' = Missed(Unasked /\ Grants(s) /\ downstream.iState # "RampingDown")
         \/ /\ protocol' = TryStop(protocol, s)
            /\ UNCHANGED <<pending, downstream, client>>
    /\ UNCHANGED <<filler, pc>>

(* Audio that follows the first, as pulled by a thread that was past its   *)
(* test of iState when Stopper stopped.                                    *)
PullLastAudio ==
    /\ downstream.iState = "Stopped" /\ ~downstream.held
    /\ downstream.decoded /\ downstream.skip = NoHalt /\ ~Blocked
    /\ downstream' = Enter(downstream, "Stopped")
    /\ UNCHANGED <<filler, pc, protocol, pipe, pending, client>>

(* The stream goes on no longer, and its halt is awaited. *)
RampCompleted ==
    /\ downstream.iState = "RampingDown" /\ downstream.stream # NoTrack
    /\ protocol' = TryStop(protocol, downstream.stream)
    /\ downstream' = [downstream EXCEPT !.iState = "Running", !.granted = FALSE]
    /\ UNCHANGED <<filler, pc, pipe, pending, client>>

(* Skipper and Stopper each look for the halt they were told. *)
PullHalt ==
    /\ Pull({"Halt"}) /\ ~Blocked
    /\ LET h == Head(pipe).n
           passed == [downstream EXCEPT !.halted = h, !.skip = IF @ = h THEN NoHalt ELSE @]
       IN downstream' = IF downstream.iTargetHaltId = h
                        THEN Enter([passed EXCEPT !.iTargetHaltId = NoHalt], "Stopped")
                        ELSE Enter(passed, downstream.iState)
    /\ UNCHANGED <<filler, pc, protocol, pending, client>>

PullQuit ==
    /\ Pull({"Quit"})
    /\ UNCHANGED <<filler, pc, protocol, pending, downstream, client>>

-----------------------------------------------------------------------------
Thread == \/ Wait \/ PushPromised \/ GetNext \/ NullTrackPushed \/ NullTrackAnnounced \/ NullStreamPushed
          \/ BeginTrack \/ CheckForKill \/ Quitting
          \/ OutputTrack \/ Activate \/ StartStream \/ Announce \/ OutputStream
          \/ LiveWait \/ OutputAudio \/ PushAudio \/ SeekBegins \/ SeekFlushed \/ StreamStopped

CallSteps == \/ StopLocked \/ Interrupt \/ InvalidatePending \/ RemoveAll \/ PipelineStop \/ PipelineQuit \/ MoveNext
             \/ Kill \/ KillInterrupt \/ Join

Consumer == \/ Discard \/ PullTrack \/ PullStream \/ PullLiveStream \/ PullAudio \/ PullHalt \/ PullQuit

Next == \/ Thread \/ StreamEnds \/ Consumer \/ PullLastAudio \/ RampCompleted \/ CallSteps
        \/ Call("RemoveAll") \/ Call("Stop") \/ Begin \/ Play \/ TrySeek

Spec == Init /\ [][Next]_vars

(* The thread runs, calls in progress go on, and the driver pulls whenever *)
(* Stopper does not hold its thread.  Nothing makes a stream end by itself, *)
(* a client call (a Play that lets pulling go on is one) or a seek happen. *)
FairSpec == Spec /\ WF_vars(Thread) /\ WF_vars(CallSteps) /\ WF_vars(Consumer) /\ WF_vars(RampCompleted)
-----------------------------------------------------------------------------
Places == {"wait", "top", "next", "null", "nullannounce", "nullstream", "killed", "over"} \union Producing
Operations == {"None", "RemoveAll", "Next", "Stop", "Stopped", "Kill"}
Progress == {"idle", "stopping", "interrupting", "invalidating", "removing", "moving", "halting",
             "quitting", "killing", "joining", "over"}

FillerMembers ==
    [iStopped : BOOLEAN, iWaitingForAudio : BOOLEAN, iNoAudioBeforeNextTrack : BOOLEAN,
     iNextHaltId : Nat \ {NoHalt}, iPendingHaltId : Nat, iTrack : 0 .. MaxTracks,
     iActiveUriProvider : BOOLEAN, signals : Nat, kill : BOOLEAN]
ProtocolMembers ==
    [iActive : BOOLEAN, iStopped : BOOLEAN, iSem : BOOLEAN, iSeek : BOOLEAN,
     iStreamId : 0 .. MaxTracks, iLive : BOOLEAN]
States == {"Running", "RampingDown", "Flushing", "Stopped"}
DownstreamMembers ==
    [skip : Nat, stream : {NoTrack} \union Streams, checked : BOOLEAN, decoded : BOOLEAN,
     granted : BOOLEAN, halted : Nat,
     iState : States, iTargetHaltId : Nat, held : BOOLEAN]
ClientMembers ==
    [op : Operations, at : Progress, halt : Nat, calls : 0 .. MaxCalls,
     began : 0 .. MaxTracks, removed : 0 .. MaxTracks, missed : BOOLEAN]

(* Every member keeps its range.                                           *)
TypeOK == /\ filler \in FillerMembers /\ pc \in Places
          /\ protocol \in ProtocolMembers
          /\ pipe \in Seq(Msgs) /\ pending \in Seq(Streams)
          /\ downstream \in DownstreamMembers
          /\ client \in ClientMembers

(* A Stop() that finds the thread about to take the protocol's lock        *)
(* waits, with FIL1 held, for that lock; a protocol that pushes the flush   *)
(* of a seek waits, with that lock held, for FIL1.  The two never meet,    *)
(* because Stop() only interrupts while audio is awaited, and only a       *)
(* stream whose audio got through can be sought.                           *)
NoDeadlyEmbrace == ~(client.at = "interrupting" /\ pc = "seeking")

(* The thread never sleeps on a halt it owes or a track it could fetch.    *)
FillerIsWoken == (pc = "wait" /\ client.at = "idle" /\ filler.signals = 0)
                 => filler.iPendingHaltId = NoHalt /\ filler.iStopped

(* What RemoveAll or Next removed stays removed: no track fetched before   *)
(* it is granted after it, in the pipeline, announced or about to be.      *)
RemovedIsNotGranted == downstream.granted => downstream.stream > client.removed

(* Each halt id is promised once, delivered once, in order.                *)
LastIn(q, i) == q[i].kind = "Halt" /\ \A j \in DOMAIN q : j > i => q[j].kind # "Halt"
LastOf(q, d) == IF \E i \in DOMAIN q : LastIn(q, i)
                THEN q[CHOOSE i \in DOMAIN q : LastIn(q, i)].n ELSE d
LastHalt == LastOf(pipe, downstream.halted)
Promises == INSTANCE HaltPromises WITH promised <- filler.iNextHaltId, delivered <- LastHalt
PromisesKept == Promises!Spec

(* If Stopper lets pulling go on, whoever waits for a halt - Skipper that   *)
(* discards until it, Stopper that is to stop at it - is given it, stops   *)
(* before it, or is told to play or of a later one.  Except that Stop()    *)
(* misses a track when the protocol cannot yet hear it, or when the        *)
(* pipeline is about to begin that track.                                  *)
Awaited(h) == downstream.skip = h \/ (downstream.iTargetHaltId = h /\ downstream.iState # "Stopped")
HaltsArrive == []<>~downstream.held => \A h \in Halts : Awaited(h) ~> (~Awaited(h) \/ client.missed)

(* Quit() returns whatever state Stopper was in, with the same exception.  *)
QuitEnds == (client.op = "Kill") ~> (client.at = "over" \/ client.missed)

(* "Don't add any new tracks to the pipeline" (Stop() in PipelineManager.h): *)
(* no track is granted between the return of Stop() and the next call.     *)
Stopped == client.op = "Stopped"
NewlyGranted == downstream'.granted /\ downstream'.stream \in Tracks /\ downstream'.stream # downstream.stream
NothingPlaysAfterStop == [][Stopped => ~NewlyGranted]_vars

=============================================================================
