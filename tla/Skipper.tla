------------------------------- MODULE Skipper -------------------------------
(***************************************************************************)
(* Skipper (Media/Pipeline/Skipper.cpp) and its Flusher: removes the rest  *)
(* of a stream, or everything up to a halt, ramping down what is heard.    *)
(*                                                                         *)
(* Pull() asks for a halt of its own, pulls through the Flusher, then      *)
(* passes iBlocker and processes the message under iLock.  PipelineManager *)
(* holds iBlocker from before Filler::Stop allocates a halt until          *)
(* RemoveAll has been told its id.  IdManager removes streams on threads   *)
(* of its callers, and the animator reports starvation.  Inside iLock they *)
(* call TryStop, which makes the protocol promise a flush, and only then   *)
(* tell the Flusher: the promised flush may have been pulled by then.      *)
(*                                                                         *)
(* Upstream is the protocol (whether it still streams what is being        *)
(* pulled, the flush it owes, those under way) and the Filler (the halts   *)
(* it owes).  Ramp values follow from what is left of the ramp and are     *)
(* left out.                                                               *)
(***************************************************************************)
EXTENDS Flusher, Sequences

CONSTANTS MaxStreams,            \* bound on the streams pushed
          RampLong, RampShort,   \* iRampJiffiesLong, iRampJiffiesShort
          MaxAudio               \* longest audio message

ASSUME StreamAssumption == /\ MaxStreams \in Nat /\ MaxStreams <= MaxFlushes
                           /\ RampLong \in Nat \ {0} /\ RampShort \in Nat \ {0} /\ MaxAudio \in Nat \ {0}

VARIABLES
    skipper,    \* the members of Skipper
    flusher,    \* the members of its Flusher
    pc, msg,    \* where Pull() is, and the message it has in hand
    discard,    \* what a thread holding iLock has yet to tell the Flusher
    remover,    \* the halt a client holding iBlocker was given
    source,     \* the protocol and the Filler upstream
    line        \* what the audio sent downstream sounds like

vars == <<skipper, flusher, pc, msg, discard, remover, source, line>>

eRunning == "Running"
eStarting == "Starting"
eRamping == "Ramping"
eFlushing == "Flushing"

StreamInvalid == 0      \* IPipelineIdProvider::kStreamIdInvalid
NoMsg == Msg("None", 0)
NoTarget == Msg("None", 0)

Members == [iState : {eRunning, eStarting, eRamping, eFlushing},
            iRampJiffies : {RampLong, RampShort}, iRemainingRampSize : 0 .. (RampLong + RampShort),
            iTargetFlushId : Flushes \union {FlushInvalid}, iTargetHaltId : Halts \union {HaltInvalid},
            iStreamId : 0 .. MaxStreams, iHaltPending : BOOLEAN, iRunning : BOOLEAN]

Sources == [stream : 0 .. MaxStreams,                      \* last stream pulled
            phase : {"between", "track", "encoded", "decoded", "over"},
            streaming : BOOLEAN,                           \* the protocol is still at it
            stopping : BOOLEAN,                            \* and has been told to stop
            owed : Flushes \union {FlushInvalid},          \* flush promised, not yet pushed
            sent : Seq(Flushes),                           \* flushes pushed, not yet pulled
            flushes : 0 .. MaxFlushes,                     \* ids handed out
            halts : 0 .. MaxHalts, pulled : 0 .. MaxHalts, \* halts handed out, and pulled
            next : BOOLEAN]                                \* no track precedes the next halt

Init == /\ skipper = [iState |-> eStarting, iRampJiffies |-> RampLong, iRemainingRampSize |-> 0,
                      iTargetFlushId |-> FlushInvalid, iTargetHaltId |-> HaltInvalid,
                      iStreamId |-> StreamInvalid, iHaltPending |-> FALSE, iRunning |-> FALSE]
        /\ flusher = NewFlusher
        /\ pc = "top" /\ msg = NoMsg /\ discard = NoTarget /\ remover = HaltInvalid
        /\ source = [stream |-> 0, phase |-> "between", streaming |-> FALSE, stopping |-> FALSE,
                     owed |-> FlushInvalid, sent |-> << >>, flushes |-> 0, halts |-> 0, pulled |-> 0,
                     next |-> FALSE]
        /\ line = "silent"

-----------------------------------------------------------------------------
(* The protocol and the Filler.                                            *)

(* A protocol still pushing the stream promises a flush, the same one if   *)
(* asked again, and stops after it.  It refuses for any other stream.      *)
Promised(src, id) == IF ~(src.streaming /\ id = src.stream) THEN FlushInvalid
                     ELSE IF src.owed # FlushInvalid THEN src.owed ELSE src.flushes + 1
Stopping(src, id) ==
    IF Promised(src, id) = FlushInvalid THEN src
    ELSE [src EXCEPT !.owed = Promised(src, id), !.stopping = TRUE,
                     !.flushes = IF src.owed # FlushInvalid THEN @ ELSE @ + 1]

(* A seek promises a flush too; the stream goes on after it. *)
TrySeek == /\ source.streaming /\ source.owed = FlushInvalid /\ source.flushes + 1 < MaxFlushes
           /\ source' = [source EXCEPT !.owed = source.flushes + 1, !.flushes = @ + 1]
           /\ UNCHANGED <<skipper, flusher, pc, msg, discard, remover, line>>

OutputFlush == /\ source.owed # FlushInvalid
               /\ source' = [source EXCEPT !.sent = Append(@, source.owed), !.owed = FlushInvalid,
                                           !.streaming = ~source.stopping, !.stopping = FALSE]
               /\ UNCHANGED <<skipper, flusher, pc, msg, discard, remover, line>>

StreamEnds == /\ source.streaming /\ source.owed = FlushInvalid
              /\ source' = [source EXCEPT !.streaming = FALSE]
              /\ UNCHANGED <<skipper, flusher, pc, msg, discard, remover, line>>

(* Everything of the stream has been pulled, its flushes included. *)
Boundary == ~source.streaming /\ source.sent = << >>
HaltDue == source.pulled < source.halts

(* Filler::Stop: the halt it already owes, or a new one.  One allocated    *)
(* during the current stream comes right after it.                         *)
FillerStop(id) ==
    \/ HaltDue /\ id = source.halts /\ source' = source
    \/ /\ id = source.halts + 1 /\ id <= MaxHalts
       /\ HaltDue => ~source.streaming
       /\ \E next \in BOOLEAN :
            /\ source.streaming => next
            /\ source' = [source EXCEPT !.halts = id, !.next = IF HaltDue THEN @ ELSE next]

(* The next message from upstream.  A stream whose MsgDecodedStream the     *)
(* Flusher discards is stopped as well.                                    *)
UpstreamPull(m) ==
    \/ /\ m = Msg("Track", 0)
       /\ source.phase # "over" /\ Boundary /\ ~source.next
       /\ \E next \in BOOLEAN : /\ next => HaltDue
                                /\ source' = [source EXCEPT !.phase = "track", !.next = next]
    \/ /\ m = Msg("Encoded", source.stream + 1)
       /\ source.phase \in {"track", "encoded", "decoded"} /\ Boundary
       /\ source.stream < MaxStreams /\ source.flushes < MaxFlushes
       /\ source' = [source EXCEPT !.stream = @ + 1, !.phase = "encoded", !.streaming = HaltDue => source.next]
    \/ /\ m = Msg("Decoded", source.stream) /\ source.phase \in {"encoded", "decoded"}
       /\ LET after == [source EXCEPT !.phase = "decoded"]
          IN source' = IF Discards(flusher, m) THEN Stopping(after, after.stream) ELSE after
    \/ /\ m \in {Msg("Audio", n) : n \in 1 .. MaxAudio} \union {Msg("Silence", 0)}
                \union {Msg("Interrupted", 0), Msg("Wait", 0), Msg("TrackMidStream", 0)}
       /\ source.phase = "decoded" /\ source' = source
    \/ /\ m \in {MetaText, Msg("Drain", 0), Msg("Halt", HaltNone)}
       /\ source.phase \in {"encoded", "decoded"} /\ source' = source
    \/ /\ m \in {Msg("Mode", RampLong), Msg("Mode", RampShort)}
       /\ source.phase # "over" /\ Boundary /\ source' = [source EXCEPT !.phase = "between"]
    \/ /\ m = Msg("Halt", source.pulled + 1) /\ HaltDue
       /\ source.phase # "over" /\ Boundary
       /\ \E next \in BOOLEAN :
            /\ next => source.pulled + 1 < source.halts
            /\ source' = [source EXCEPT !.pulled = @ + 1, !.phase = "between", !.next = next]
    \/ /\ source.sent # << >> /\ m = Msg("Flush", Head(source.sent))
       /\ source' = [source EXCEPT !.sent = Tail(@)]
    \/ /\ m = Msg("Quit", 0) /\ source.phase # "over" /\ Boundary /\ ~HaltDue
       /\ source' = [source EXCEPT !.phase = "over"]

-----------------------------------------------------------------------------
(* Removing a stream.  Every caller holds iLock.                           *)

(* The Flusher is to wait for the halt if there is one, else the flush.    *)
Target(s) == IF s.iTargetHaltId # HaltInvalid THEN Msg("Halt", s.iTargetHaltId)
             ELSE IF s.iTargetFlushId # FlushInvalid THEN Msg("Flush", s.iTargetFlushId) ELSE NoTarget

Told(f, target) == CASE target.kind = "Halt" -> DiscardUntilHalt(f, target.n)
                     [] target.kind = "Flush" -> DiscardUntilFlush(f, target.n)
                     [] OTHER -> f

StartFlushingQuietly(s, generateHalt) ==
    [s EXCEPT !.iState = eFlushing, !.iTargetFlushId = Promised(source, s.iStreamId)]
StartFlushing(s, generateHalt) ==
    [s EXCEPT !.iHaltPending = @ \/ generateHalt, !.iState = eFlushing,
              !.iTargetFlushId = Promised(source, s.iStreamId)]

(* On the puller the call to the Flusher is part of the same step. *)
PullerFlushes(s, generateHalt) ==
    /\ skipper' = StartFlushing(s, generateHalt)
    /\ source' = Stopping(source, s.iStreamId)
    /\ flusher' = Told(flusher, Target(StartFlushing(s, generateHalt)))

TryRemoveCurrentStream(s, aRampDown) ==
    LET rampDown == aRampDown /\ s.iRunning
    IN \/ /\ ~rampDown \/ s.iState = eStarting
          /\ skipper' = StartFlushing(s, TRUE)
          /\ source' = Stopping(source, s.iStreamId)
          /\ discard' = Target(StartFlushing(s, TRUE))
       \/ /\ rampDown /\ s.iState # eStarting
          /\ skipper' = IF s.iState = eRunning
                          THEN [s EXCEPT !.iState = eRamping, !.iRemainingRampSize = s.iRampJiffies]
                          ELSE s
          /\ UNCHANGED <<source, discard>>

LockFree == discard = NoTarget

Discard == /\ discard # NoTarget
           /\ flusher' = Told(flusher, discard)
           /\ discard' = NoTarget
           /\ UNCHANGED <<skipper, pc, msg, remover, source, line>>
-----------------------------------------------------------------------------
(* Pull().                                                                 *)
Dropped == IF line = "audible" THEN "gap" ELSE line
Heard(sound) == IF line \in {"gap", "glitch"} THEN "glitch" ELSE sound
Halted == IF line = "glitch" THEN line ELSE "silent"

CheckHaltPending ==
    /\ pc = "top"
    /\ IF skipper.iHaltPending THEN msg' = Msg("Halt", HaltNone) /\ pc' = "process"
                               ELSE msg' = NoMsg /\ pc' = "flush"
    /\ skipper' = [skipper EXCEPT !.iHaltPending = FALSE]
    /\ UNCHANGED <<flusher, discard, remover, source, line>>

(* Flusher::Pull: the text held back, or messages from upstream.           *)
TextPending == flusher.iPendingMetatext /\ ~IsFlushing(flusher)

PullPendingMetatext ==
    /\ pc = "flush" /\ TextPending
    /\ flusher' = [flusher EXCEPT !.iPendingMetatext = FALSE]
    /\ msg' = MetaText /\ pc' = "process"
    /\ UNCHANGED <<skipper, discard, remover, source, line>>

FlusherPull(m) ==
    /\ pc = "flush" /\ ~TextPending
    /\ UpstreamPull(m)
    /\ flusher' = Processed(flusher, m)
    /\ IF Discards(flusher, m)
         THEN /\ line' = IF m.kind = "Audio" THEN Dropped ELSE line
              /\ UNCHANGED <<pc, msg>>
         ELSE msg' = m /\ pc' = "process" /\ UNCHANGED line
    /\ UNCHANGED <<skipper, discard, remover>>

(* Past iBlocker, ProcessMsg under iLock.  The message goes downstream or   *)
(* is discarded, and Pull() returns or goes round again.                   *)
ProcessesUnblocked(kinds) == /\ pc = "process" /\ LockFree /\ msg.kind \in kinds
                             /\ pc' = "top" /\ msg' = NoMsg
                             /\ UNCHANGED <<discard, remover>>
Processes(kinds) == /\ pc = "process" /\ remover = HaltInvalid /\ LockFree /\ msg.kind \in kinds
                    /\ pc' = "top" /\ msg' = NoMsg
                    /\ UNCHANGED <<discard, remover>>

RemoveAllForgotten == skipper.iState = eFlushing /\ skipper.iTargetHaltId # HaltInvalid
RemoveAllPending == skipper.iState = eRamping /\ skipper.iTargetHaltId # HaltInvalid

NewStream(s) == [s EXCEPT !.iRemainingRampSize = 0,
                          !.iState = IF s.iTargetFlushId = FlushInvalid THEN eStarting ELSE eFlushing]

ProcessMode ==
    /\ Processes({"Mode"})
    /\ skipper' = [skipper EXCEPT !.iStreamId = StreamInvalid, !.iRampJiffies = msg.n]
    /\ UNCHANGED <<flusher, source, line>>

ProcessTrack ==
    /\ Processes({"Track", "TrackMidStream"})
    /\ IF RemoveAllPending THEN PullerFlushes(skipper, TRUE)
                           ELSE UNCHANGED <<skipper, flusher, source>>
    /\ UNCHANGED line

ProcessDrain ==
    /\ Processes({"Drain"})
    /\ skipper' = [skipper EXCEPT !.iRunning = FALSE, !.iState = IF @ = eRunning THEN eStarting ELSE @]
    /\ UNCHANGED <<flusher, source, line>>

ProcessEncoded ==
    /\ Processes({"Encoded"})
    /\ IF RemoveAllPending
         THEN PullerFlushes(skipper, TRUE)
         ELSE /\ skipper' = NewStream([skipper EXCEPT !.iStreamId = msg.n])
              /\ UNCHANGED <<flusher, source>>
    /\ UNCHANGED line

ProcessMetaText ==
    /\ Processes({"MetaText"})
    /\ UNCHANGED <<skipper, flusher, source, line>>

ProcessInterrupted ==
    /\ Processes({"Interrupted"})
    /\ skipper' = [skipper EXCEPT !.iRunning = FALSE]
    /\ UNCHANGED <<flusher, source, line>>

ProcessQuit ==
    /\ Processes({"Quit"})
    /\ skipper' = [skipper EXCEPT !.iRunning = FALSE]
    /\ UNCHANGED <<flusher, source, line>>

(* A halt ends a ramp; whoever sent it has ramped already.  The one waited *)
(* for ends the removal.                                                   *)
ProcessHalt ==
    /\ Processes({"Halt"})
    /\ LET quiet == [skipper EXCEPT !.iRunning = FALSE]
           flushes == skipper.iState = eRamping
           s == IF flushes THEN StartFlushing(quiet, FALSE) ELSE quiet
       IN /\ skipper' = IF msg.n = s.iTargetHaltId
                          THEN [s EXCEPT !.iTargetHaltId = HaltInvalid, !.iState = eRunning] ELSE s
          /\ source' = IF flushes THEN Stopping(source, s.iStreamId) ELSE source
          /\ flusher' = IF flushes THEN Told(flusher, Target(s)) ELSE flusher
    /\ line' = Halted

ProcessFlush ==
    /\ Processes({"Flush"})
    /\ skipper' = IF msg.n = skipper.iTargetFlushId
                    THEN [skipper EXCEPT !.iState = eStarting, !.iTargetFlushId = FlushInvalid] ELSE skipper
    /\ UNCHANGED <<flusher, source, line>>

ProcessWait ==
    /\ Processes({"Wait"})
    /\ LET quiet == [skipper EXCEPT !.iRunning = FALSE]
       IN IF skipper.iState = eRamping THEN PullerFlushes(quiet, TRUE)
                                       ELSE skipper' = quiet /\ UNCHANGED <<flusher, source>>
    /\ UNCHANGED line

ProcessDecodedRestarts ==
    /\ Processes({"Decoded"})
    /\ skipper' = [skipper EXCEPT !.iState = eStarting]
    /\ UNCHANGED <<flusher, source, line>>
ProcessDecoded ==
    /\ Processes({"Decoded"})
    /\ skipper' = [skipper EXCEPT !.iState = IF skipper.iTargetFlushId = FlushInvalid THEN eStarting
                                                                                      ELSE eFlushing]
    /\ UNCHANGED <<flusher, source, line>>

(* Audio past the end of the ramp is cut off. *)
RampLeft(s, jiffies) == IF jiffies > s.iRemainingRampSize THEN 0 ELSE s.iRemainingRampSize - jiffies

ProcessAudio ==
    /\ Processes({"Audio"})
    /\ LET s == [skipper EXCEPT !.iRunning = TRUE]
           left == RampLeft(s, msg.n)
       IN \/ /\ s.iState \in {eStarting, eRunning}
             /\ skipper' = [s EXCEPT !.iState = eRunning]
             /\ line' = Heard("audible") /\ UNCHANGED <<flusher, source>>
          \/ /\ s.iState = eRamping /\ left # 0
             /\ skipper' = [s EXCEPT !.iRemainingRampSize = left]
             /\ line' = Heard("audible") /\ UNCHANGED <<flusher, source>>
          \/ /\ s.iState = eRamping /\ left = 0
             /\ PullerFlushes([s EXCEPT !.iRemainingRampSize = 0], TRUE)
             /\ line' = Heard("silent")
          \/ /\ s.iState = eFlushing
             /\ skipper' = s
             /\ line' = Dropped /\ UNCHANGED <<flusher, source>>

ProcessSilence ==
    /\ Processes({"Silence"})
    /\ CASE skipper.iState = eStarting ->
              skipper' = [skipper EXCEPT !.iState = eRunning] /\ UNCHANGED <<flusher, source>>
         [] skipper.iState = eRamping -> PullerFlushes([skipper EXCEPT !.iRemainingRampSize = 0], TRUE)
         [] OTHER -> UNCHANGED <<skipper, flusher, source>>
    /\ UNCHANGED line

-----------------------------------------------------------------------------
(* The other threads.                                                      *)
RemoveCurrentStream(aRampDown) ==
    /\ LockFree
    /\ TryRemoveCurrentStream(skipper, aRampDown)
    /\ UNCHANGED <<flusher, pc, msg, remover, line>>

TryRemoveStream(aStreamId, aRampDown) ==
    /\ LockFree /\ skipper.iStreamId = aStreamId
    /\ TryRemoveCurrentStream(skipper, aRampDown)
    /\ UNCHANGED <<flusher, pc, msg, remover, line>>

(* PipelineManager: Block and Filler::Stop, ...                            *)
Block == /\ remover = HaltInvalid
         /\ \E id \in Halts : FillerStop(id) /\ remover' = id
         /\ UNCHANGED <<skipper, flusher, pc, msg, discard, line>>

(* ... then RemoveAll and Unblock, or no more than Unblock.                *)
RemoveAll(aRampDown) ==
    /\ LockFree /\ remover # HaltInvalid
    /\ TryRemoveCurrentStream([skipper EXCEPT !.iTargetHaltId = remover], aRampDown)
    /\ remover' = HaltInvalid
    /\ UNCHANGED <<flusher, pc, msg, line>>

Unblock == /\ remover # HaltInvalid
           /\ remover' = HaltInvalid
           /\ UNCHANGED <<skipper, flusher, pc, msg, discard, source, line>>

(* StarvationRamper has ramped what was heard.                             *)
NotifyStarving ==
    /\ LockFree
    /\ LET quiet == [skipper EXCEPT !.iRunning = FALSE]
       IN \/ /\ skipper.iState = eRamping
             /\ skipper' = StartFlushing(quiet, TRUE)
             /\ source' = Stopping(source, quiet.iStreamId)
             /\ discard' = Target(StartFlushing(quiet, TRUE))
          \/ /\ skipper.iState # eRamping
             /\ skipper' = quiet /\ UNCHANGED <<source, discard>>
    /\ line' = Halted
    /\ UNCHANGED <<flusher, pc, msg, remover>>

(* Stopper stops streams too, and ignores the flush it is promised.        *)
TryStop == /\ source' = Stopping(source, skipper.iStreamId)
           /\ UNCHANGED <<skipper, flusher, pc, msg, discard, remover, line>>

UpstreamMsgs == {Msg(kind, 0) : kind \in {"Track", "TrackMidStream", "MetaText", "Drain", "Interrupted",
                                           "Wait", "Silence", "Quit"}}
                \union {Msg("Mode", n) : n \in {RampLong, RampShort}}
                \union {Msg("Encoded", n) : n \in 1 .. MaxStreams}
                \union {Msg("Decoded", n) : n \in 1 .. MaxStreams}
                \union {Msg("Audio", n) : n \in 1 .. MaxAudio}
                \union {Msg("Halt", n) : n \in Halts \union {HaltNone}}
                \union {Msg("Flush", n) : n \in Flushes}

Process == \/ ProcessMode \/ ProcessTrack \/ ProcessDrain \/ ProcessEncoded \/ ProcessMetaText
           \/ ProcessInterrupted \/ ProcessHalt \/ ProcessFlush \/ ProcessWait \/ ProcessDecoded
           \/ ProcessAudio \/ ProcessSilence \/ ProcessQuit

Puller == \/ CheckHaltPending
          \/ PullPendingMetatext
          \/ \E m \in UpstreamMsgs : FlusherPull(m)
          \/ Process

Next == \/ Puller
        \/ Discard
        \/ TrySeek \/ OutputFlush \/ StreamEnds
        \/ \E rampDown \in BOOLEAN : RemoveCurrentStream(rampDown)
        \/ \E id \in 1 .. MaxStreams, rampDown \in BOOLEAN : TryRemoveStream(id, rampDown)
        \/ Block
        \/ \E rampDown \in BOOLEAN : RemoveAll(rampDown)
        \/ Unblock
        \/ NotifyStarving
        \/ TryStop

Spec == Init /\ [][Next]_vars

-----------------------------------------------------------------------------
(* Every member keeps its range.                                           *)
TypeOK == /\ skipper \in Members /\ flusher \in FlusherMembers
          /\ pc \in {"top", "flush", "process"}
          /\ msg \in UpstreamMsgs \union {NoMsg}
          /\ discard \in {NoTarget} \union {Msg("Halt", n) : n \in Halts}
                                    \union {Msg("Flush", n) : n \in Flushes}
          /\ remover \in Halts \union {HaltInvalid}
          /\ source \in Sources
          /\ line \in {"silent", "audible", "gap", "glitch"}

SentFlushes == {source.sent[i] : i \in DOMAIN source.sent}
FlushesToPull == SentFlushes \union ({source.owed} \ {FlushInvalid})
HaltsToPull == source.pulled + 1 .. source.halts

(* The Flusher never waits for a halt or a flush that has been pulled      *)
(* already: it would discard everything from then on (StartFlushing tells  *)
(* it late, Skipper.cpp:342; it remembers what it pulled, Flusher.cpp:34). *)
FlusherTargetsAhead ==
    /\ flusher.iTargetHaltId # HaltInvalid => flusher.iTargetHaltId \in HaltsToPull
    /\ flusher.iTargetFlushId # FlushInvalid => flusher.iTargetFlushId \in FlushesToPull

(* Nor does Skipper (iTargetHaltId and iTargetFlushId, Skipper.cpp:68 and  *)
(* :340): every stream from then on would start in eFlushing, and every    *)
(* removal would wait for the same old halt.                               *)
SkipperTargetsAhead ==
    /\ skipper.iTargetHaltId # HaltInvalid =>
          skipper.iTargetHaltId \in HaltsToPull \/ msg = Msg("Halt", skipper.iTargetHaltId)
    /\ skipper.iTargetFlushId # FlushInvalid =>
          skipper.iTargetFlushId \in FlushesToPull \/ msg = Msg("Flush", skipper.iTargetFlushId)

(* When the promised flush arrives Skipper is flushing, whatever came      *)
(* between: ASSERT_VA(iState == eFlushing) (Skipper.cpp:183).              *)
FlushFindsFlushing ==
    pc = "process" /\ LockFree /\ msg.kind = "Flush" /\ msg.n = skipper.iTargetFlushId
       => skipper.iState = eFlushing

(* Audio is never heard again after some was discarded, unless a halt or   *)
(* the end of a ramp came before it (iHaltPending, Skipper.cpp:81, :336).  *)
GapsAreAnnounced == line # "glitch"

(* A RemoveAll that has taken hold keeps hold until its halt, whatever is  *)
(* pulled meanwhile and whoever else removes streams.  One case is set     *)
(* aside: a MsgDecodedStream for the same stream, after a seek say, resets *)
(* the ramp and the removal with it (Skipper.cpp:204).                     *)
RemovalHolds ==
    /\ skipper.iTargetHaltId # HaltInvalid
    /\ \/ skipper.iState = eRamping
       \/ discard = Msg("Halt", skipper.iTargetHaltId)
       \/ flusher.iTargetHaltId = skipper.iTargetHaltId
       \/ flusher.iLastHaltId = skipper.iTargetHaltId

RemovalGoesOn ==
    [][RemovalHolds => \/ RemovalHolds'
                       \/ skipper'.iTargetHaltId # skipper.iTargetHaltId
                       \/ skipper.iState = eRamping /\ msg.kind = "Decoded"]_vars
=============================================================================
