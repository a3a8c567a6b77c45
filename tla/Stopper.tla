------------------------------- MODULE Stopper -------------------------------
(***************************************************************************)
(* Stopper (Media/Pipeline/Stopper.cpp): ramps audio down and up around a  *)
(* pause, and discards what is left of a stream around a stop.             *)
(*                                                                         *)
(* Three threads meet here.  The puller runs Pull(); it reads iHaltPending *)
(* and iState before taking iLock, so Pull() is several steps.  Clients    *)
(* call Play, BeginPause, BeginStop and Quit under iLock.  The animator's  *)
(* thread calls NotifyStarving under iLock.  The event thread runs         *)
(* ReportEvent without it.                                                 *)
(*                                                                         *)
(* Upstream is whatever order of messages the pipeline allows: a track,    *)
(* its encoded streams, for each a decoded stream, then audio.  Durations  *)
(* are counted in units of jiffies and volume in units of Ramp::kMax.      *)
(***************************************************************************)
EXTENDS Integers, Sequences

CONSTANTS RampLong, RampShort,  \* iRampJiffiesLong, iRampJiffiesShort
          MaxAudio,             \* longest audio message
          kMax,                 \* Ramp::kMax
          Wrap,                 \* 2^32 for the model's TUint
          MaxHalts              \* bound on the MsgHalt ids handed out

ASSUME RampAssumption == /\ RampShort \in Nat \ {0} /\ RampLong \in Nat /\ RampShort <= RampLong
                         /\ MaxAudio \in Nat \ {0} /\ kMax \in Nat \ {0}
                         /\ Wrap \in Nat /\ RampLong < Wrap
ASSUME HaltAssumption == MaxHalts \in Nat

VARIABLES
    stopper,        \* the members of the class, under their own names,
                    \* owed: streams IdManager has yet to be asked about,
                    \* told: the event raised last, reported or not yet
    pc,             \* where the puller is in Pull()
    out,            \* the message Pull() is about to return
    phase,          \* how far the messages pulled so far got into a stream
    haltsAllocated, \* last id Filler::Stop returned
    haltsPulled,    \* last such id whose MsgHalt has been pulled
    heard,          \* volume at which the last delivered audio ended
    audible,        \* StarvationRamper has audio and would notice it stopping
    asserted        \* an ASSERT failed: the process is gone

vars == <<stopper, pc, out, phase, haltsAllocated, haltsPulled, heard, audible, asserted>>

upstream == <<phase, haltsAllocated, haltsPulled>>
downstream == <<heard, audible>>

ERunning == "Running"
ERampingDown == "RampingDown"
ERampingUp == "RampingUp"
EPaused == "Paused"
EStopped == "Stopped"
EFlushing == "Flushing"
States == {ERunning, ERampingDown, ERampingUp, EPaused, EStopped, EFlushing}
Blocked == {EPaused, EStopped}
Ramping == {ERampingDown, ERampingUp}

EEventNone == "None"
EEventPlaying == "Playing"
EEventPaused == "Paused"
EEventStopped == "Stopped"
Events == {EEventNone, EEventPlaying, EEventPaused, EEventStopped}

ePlayYes == "Yes"
ePlayNo == "No"
ePlayLater == "Later"
Answers == {ePlayYes, ePlayNo, ePlayLater}

kIdNone == 0                    \* MsgHalt::kIdNone
kIdInvalid == MaxHalts + 1      \* MsgHalt::kIdInvalid

Volumes == 0 .. kMax
Gap == kMax + 1                 \* the listener expects no continuity
Audio(from, to) == [kind |-> "audio", from |-> from, to |-> to]
NoMsg == [kind |-> "none"]
Plain(k) == [kind |-> k]        \* carries no volume
Seams == {"mode", "track", "stream", "halt"}
Messages == {NoMsg} \union {Plain(k) : k \in Seams \union {"ownHalt", "silence", "other", "quit"}}
            \union {Audio(from, to) : from \in Volumes, to \in Volumes}

(* iQueue holds at most the rest of one message. *)
Queues == {<< >>} \union {<<[size |-> n, muted |-> m]>> : n \in 1 .. MaxAudio, m \in BOOLEAN}

Members ==
    [iState : States, iRampJiffies : {RampLong, RampShort},
     iRemainingRampSize : 0 .. Wrap - 1, iCurrentRampValue : Volumes,
     iQueue : Queues, iTargetHaltId : 1 .. kIdInvalid, iStreamHandler : BOOLEAN,
     iCheckedStreamPlayable : BOOLEAN, iHaltPending : BOOLEAN, iFlushStream : BOOLEAN,
     iBuffering : BOOLEAN, iStreamIsLive : BOOLEAN, iQuit : BOOLEAN,
     iSem : Nat, iEventState : Events, told : Events, owed : Int]

Init == /\ stopper = [iState |-> ERunning, iRampJiffies |-> RampLong,
                      iRemainingRampSize |-> 0, iCurrentRampValue |-> kMax, iQueue |-> << >>,
                      iTargetHaltId |-> kIdInvalid, iStreamHandler |-> FALSE,
                      iCheckedStreamPlayable |-> TRUE, iHaltPending |-> FALSE,
                      iFlushStream |-> FALSE, iBuffering |-> FALSE, iStreamIsLive |-> FALSE,
                      iQuit |-> FALSE, iSem |-> 0, iEventState |-> EEventNone, told |-> EEventStopped, owed |-> 0]
        /\ pc = "top" /\ out = NoMsg
        /\ phase = "idle" /\ haltsAllocated = 0 /\ haltsPulled = 0
        /\ heard = Gap /\ audible = FALSE
        /\ asserted = FALSE

-----------------------------------------------------------------------------
(* The private helpers, from a state of the members to the next.           *)

(* Fault: an event still waiting to be reported is not replaced. *)
ScheduleEventKeep(s, e) == IF s.iEventState = EEventNone THEN [s EXCEPT !.iEventState = e, !.told = e] ELSE s

ScheduleEvent(s, e) == [s EXCEPT !.iEventState = e, !.told = e]
HandlePaused(s) == ScheduleEvent([s EXCEPT !.iState = EPaused, !.iSem = 0], EEventPaused)

(* Fault: stops without telling anyone. *)
HandleStoppedSilent(s) == [s EXCEPT !.iState = EStopped, !.iSem = 0]

HandleStopped(s) == ScheduleEvent([s EXCEPT !.iState = EStopped, !.iSem = 0], EEventStopped)

NewStream(s) ==
    [s EXCEPT !.iRemainingRampSize = 0, !.iCurrentRampValue = kMax, !.iState = ERunning,
              !.iStreamHandler = FALSE, !.iCheckedStreamPlayable = FALSE,
              !.iHaltPending = FALSE, !.iFlushStream = FALSE]

RampCompleted(s) ==
    IF s.iState # ERampingDown THEN [s EXCEPT !.iState = ERunning]
    ELSE LET down == IF s.iTargetHaltId = kIdInvalid
                     THEN HandlePaused(s)
                     ELSE [s EXCEPT !.iState = ERunning, !.iFlushStream = TRUE]
         IN [down EXCEPT !.iHaltPending = TRUE]

(* What RampCompleted asserts of its caller. *)
HandlerMissing(s) ==
    s.iState = ERampingDown /\ s.iTargetHaltId # kIdInvalid /\ ~s.iStreamHandler

OkToPlay(s, canPlay) ==
    LET asked == [s EXCEPT !.iCheckedStreamPlayable = TRUE, !.owed = @ - 1]
        flush == [asked EXCEPT !.iState = EFlushing, !.iFlushStream = TRUE]
    IN CASE s.iQuit -> flush
         [] ~s.iQuit /\ canPlay = ePlayYes -> ScheduleEvent(asked, EEventPlaying)
         [] ~s.iQuit /\ canPlay = ePlayNo -> [flush EXCEPT !.iHaltPending = TRUE]
         [] OTHER -> [HandleStopped(asked) EXCEPT !.iHaltPending = TRUE]

(* Fault: forgets that a live stream was asked about when it was announced. *)
CheckPlayableAgain(s, canPlay) == OkToPlay(s, canPlay)

(* OkToPlay for a stream nobody has asked about yet. *)
CheckPlayable(s, canPlay) == IF s.iCheckedStreamPlayable THEN s ELSE OkToPlay(s, canPlay)

(* Turn a ramp around where it is; TUint arithmetic. *)
ReverseRamp(s, state) ==
    [s EXCEPT !.iState = state,
              !.iRemainingRampSize = (s.iRampJiffies - s.iRemainingRampSize) % Wrap]

StartRampDown(s) ==
    [s EXCEPT !.iState = ERampingDown, !.iRemainingRampSize = s.iRampJiffies,
              !.iCurrentRampValue = kMax]

-----------------------------------------------------------------------------
(* Client calls.                                                           *)

Played(s) ==
    LET back == ReverseRamp(s, ERampingUp)
        ramped == CASE s.iState = ERampingDown ->
                         [back EXCEPT !.iState = IF back.iRemainingRampSize = 0
                                                 THEN ERunning ELSE ERampingUp]
                    [] s.iState = EPaused ->
                         [s EXCEPT !.iState = ERampingUp, !.iCurrentRampValue = 0,
                                   !.iRemainingRampSize = s.iRampJiffies, !.iSem = @ + 1]
                    [] s.iState = EStopped -> [s EXCEPT !.iState = ERunning, !.iSem = @ + 1]
                    [] OTHER -> s
    IN ScheduleEvent([ramped EXCEPT !.iTargetHaltId = kIdInvalid], EEventPlaying)

Paused(s) ==
    CASE s.iBuffering \/ s.iState \in {EStopped, EFlushing} -> HandlePaused(s)
      [] ~s.iBuffering /\ s.iState = ERunning -> StartRampDown(s)
      [] ~s.iBuffering /\ s.iState = ERampingUp -> ReverseRamp(s, ERampingDown)
      [] OTHER -> s

(* Fault: does not wake the puller to flush. *)
StoppedNoSignal(s) ==
    CASE s.iBuffering \/ s.iState = EFlushing -> HandleStopped(s)
      [] ~s.iBuffering /\ s.iState = ERunning -> StartRampDown(s)
      [] ~s.iBuffering /\ s.iState = ERampingUp -> ReverseRamp(s, ERampingDown)
      [] ~s.iBuffering /\ s.iState = EPaused -> [s EXCEPT !.iFlushStream = TRUE, !.iState = EFlushing]
      [] OTHER -> s

Stopped(s) ==
    CASE s.iBuffering \/ s.iState = EFlushing -> HandleStopped(s)
      [] ~s.iBuffering /\ s.iState = ERunning -> StartRampDown(s)
      [] ~s.iBuffering /\ s.iState = ERampingUp -> ReverseRamp(s, ERampingDown)
      [] ~s.iBuffering /\ s.iState = EPaused ->
            [s EXCEPT !.iFlushStream = TRUE, !.iState = EFlushing, !.iSem = @ + 1]
      [] OTHER -> s

(* A pause or stop that finds the stream starved takes effect at once,     *)
(* wherever its volume was.                                                *)
Client == /\ ~asserted
          /\ heard' = IF stopper.iBuffering /\ stopper'.iState \in Blocked THEN Gap ELSE heard
          /\ UNCHANGED <<pc, out, phase, haltsPulled, audible, asserted>>

Play == stopper' = Played(stopper) /\ Client /\ UNCHANGED haltsAllocated

(* A live stream refuses (StopperStreamNotPausable). *)
BeginPause == /\ ~stopper.iStreamIsLive /\ ~stopper.iQuit
              /\ stopper' = Paused(stopper)
              /\ Client
              /\ UNCHANGED haltsAllocated

(* Filler::Stop hands out a new id, or the last one while its MsgHalt is   *)
(* still to come; Skipper is blocked until BeginStop has run, so that      *)
(* MsgHalt cannot overtake it.                                             *)
BeginStop(id) == /\ ~stopper.iQuit
                 /\ \/ id = haltsAllocated + 1 /\ id <= MaxHalts
                    \/ id = haltsAllocated /\ haltsPulled < id
                 /\ haltsAllocated' = id
                 /\ stopper' = Stopped([stopper EXCEPT !.iTargetHaltId = id])
                 /\ Client

Quit == /\ ~stopper.iQuit
        /\ stopper' = Played([stopper EXCEPT !.iQuit = TRUE,
                                             !.iFlushStream = @ \/ stopper.iState \in Blocked])
        /\ Client
        /\ UNCHANGED haltsAllocated

(* StarvationRamper has run out of audio while it was playing.             *)
NotifyStarving == /\ ~asserted /\ audible
                  /\ IF HandlerMissing(stopper)
                     THEN asserted' = TRUE /\ UNCHANGED stopper
                     ELSE /\ stopper' = IF stopper.iState = ERampingDown
                                        THEN RampCompleted(stopper)
                                        ELSE [stopper EXCEPT !.iBuffering = TRUE]
                          /\ UNCHANGED asserted
                  /\ audible' = FALSE /\ heard' = Gap
                  /\ UNCHANGED <<pc, out, upstream>>

(* Runs in the event thread, with iEventState's atomic exchange. *)
ReportEvent == /\ ~asserted
               /\ stopper.iEventState # EEventNone
               /\ stopper' = [stopper EXCEPT !.iEventState = EEventNone]
               /\ UNCHANGED <<pc, out, upstream, heard, audible, asserted>>

-----------------------------------------------------------------------------
(* Pull().                                                                 *)

(* A ramp down with nothing left to go: its next message is not ramped.    *)
SpentRampDown == stopper.iState = ERampingDown /\ stopper.iRemainingRampSize = 0

(* m goes downstream.  What a blocked or spent Stopper still lets through  *)
(* does not join up with what follows.                                     *)
Deliver(m) ==
    /\ out' = m /\ pc' = "return"
    /\ heard' = IF m.kind = "audio" /\ stopper.iState \notin Blocked /\ ~SpentRampDown THEN m.to
               ELSE IF m.kind \in Seams \union {"silence", "audio"} THEN Gap ELSE heard

Discard == pc' = "top" /\ UNCHANGED <<out, heard>>

(* ProcessFlushable *)
DeliverUnlessFlushing(s, m) == IF s.iFlushStream THEN Discard ELSE Deliver(m)

At(place) == pc = place /\ ~asserted

(* Reads iHaltPending without the lock.  A message split by a ramp leaves  *)
(* before the halt that follows that ramp.                                 *)
CheckHaltPending ==
    /\ At("top")
    /\ \/ /\ stopper.iHaltPending /\ stopper.iQueue = << >>
          /\ stopper' = [stopper EXCEPT !.iHaltPending = FALSE]
          /\ Deliver(Plain("ownHalt"))
       \/ /\ stopper.iHaltPending /\ stopper.iQueue # << >>
          /\ stopper' = [stopper EXCEPT !.iQueue = << >>]
          /\ LET volume == IF stopper.iQueue[1].muted THEN 0 ELSE kMax
             IN out' = Audio(volume, volume) /\ pc' = "return" /\ UNCHANGED heard
       \/ /\ ~stopper.iHaltPending
          /\ pc' = "check" /\ UNCHANGED <<stopper, out, heard>>
    /\ UNCHANGED <<upstream, audible, asserted>>

(* Reads iState without the lock. *)
CheckState == /\ At("check")
              /\ pc' = IF stopper.iState \in Blocked THEN "wait" ELSE "pull"
              /\ UNCHANGED <<stopper, out, upstream, downstream, asserted>>

Wait == /\ At("wait")
        /\ stopper.iSem > 0
        /\ stopper' = [stopper EXCEPT !.iSem = @ - 1]
        /\ pc' = "pull"
        /\ UNCHANGED <<out, upstream, downstream, asserted>>

(* SetRamp on a message no element upstream has ramped: the volume it ends *)
(* at and what is left of the ramp.  Rounding up may end a ramp early.     *)
RampTo(s, size) ==
    LET down == s.iState = ERampingDown
        left == IF down THEN s.iCurrentRampValue ELSE kMax - s.iCurrentRampValue
        delta == (left * size + s.iRemainingRampSize - 1) \div s.iRemainingRampSize
        step == IF delta > left THEN left ELSE delta
    IN IF down THEN s.iCurrentRampValue - step ELSE s.iCurrentRampValue + step

SetRamp(s, size, muted) ==
    LET end == RampTo(s, size)
    IN CASE s.iRemainingRampSize = 0 -> s
         [] s.iRemainingRampSize > 0 /\ muted ->
              [s EXCEPT !.iCurrentRampValue = 0,
                        !.iRemainingRampSize = IF s.iState = ERampingDown THEN 0 ELSE @]
         [] OTHER ->
              [s EXCEPT !.iCurrentRampValue = end,
                        !.iRemainingRampSize =
                            IF end = (IF s.iState = ERampingDown THEN 0 ELSE kMax)
                            THEN 0 ELSE @ - size]

(* Fault: what follows a ramp down is not muted. *)
SplitOffAudible(s, size, muted) ==
    IF 0 < s.iRemainingRampSize /\ s.iRemainingRampSize < size
    THEN <<[size |-> size - s.iRemainingRampSize, muted |-> muted]>>
    ELSE << >>

(* The part of the message that is left once the ramp is over. *)
SplitOff(s, size, muted) ==
    IF 0 < s.iRemainingRampSize /\ s.iRemainingRampSize < size
    THEN <<[size |-> size - s.iRemainingRampSize, muted |-> muted \/ s.iState = ERampingDown]>>
    ELSE << >>

Ramped(s, size, muted) ==
    LET rest == SplitOff(s, size, muted)
        first == IF rest = << >> THEN size ELSE s.iRemainingRampSize
        set == SetRamp([s EXCEPT !.iQueue = rest], first, muted)
    IN IF set.iRemainingRampSize = 0 THEN RampCompleted(set) ELSE set

(* How a message of audio sounds when it leaves. *)
Sound(s, size, muted) ==
    LET first == IF SplitOff(s, size, muted) = << >> THEN size ELSE s.iRemainingRampSize
    IN CASE muted -> Audio(0, 0)
         [] ~muted /\ s.iState \in Ramping /\ s.iRemainingRampSize > 0 ->
              Audio(s.iCurrentRampValue, RampTo(s, first))
         [] OTHER -> Audio(kMax, kMax)

(* s: the members once the message has been taken from iQueue, if it was.  *)
ProcessAudio(s, size, muted) ==
    IF s.iState \in Ramping
    THEN /\ stopper' = Ramped(s, size, muted)
         /\ Deliver(Sound(s, size, muted))
    ELSE stopper' = s /\ DeliverUnlessFlushing(s, Sound(s, size, muted))

PullQueued == /\ At("pull") /\ stopper.iQueue # << >>
              /\ LET head == stopper.iQueue[1]
                 IN ProcessAudio([stopper EXCEPT !.iQueue = << >>], head.size, head.muted)
              /\ UNCHANGED <<upstream, audible, asserted>>

(* The message comes from the upstream element. *)
Pulled == /\ At("pull") /\ stopper.iQueue = << >>
          /\ UNCHANGED <<haltsAllocated, audible, asserted>>

PullAudio(size) == /\ Pulled /\ phase = "decoded"
                   /\ ProcessAudio(stopper, size, FALSE)
                   /\ UNCHANGED <<phase, haltsPulled>>

PullSilence == /\ Pulled /\ phase = "decoded"
               /\ stopper' = IF stopper.iState \in Ramping THEN RampCompleted(stopper) ELSE stopper
               /\ DeliverUnlessFlushing(stopper', Plain("silence"))
               /\ UNCHANGED <<phase, haltsPulled>>

(* MsgMetaText, MsgStreamInterrupted *)
PullFlushable == /\ Pulled /\ phase \in {"encoded", "decoded"}
                 /\ DeliverUnlessFlushing(stopper, Plain("other"))
                 /\ UNCHANGED <<stopper, phase, haltsPulled>>

(* A mode is followed by a track before anything that plays. *)
PullMode(ramp) == /\ Pulled
                  /\ stopper' = [stopper EXCEPT !.iRampJiffies = ramp]
                  /\ Deliver(Plain("mode"))
                  /\ phase' = "idle" /\ UNCHANGED haltsPulled

(* A MsgTrack that starts a stream.  The previous stream, if its format    *)
(* was never recognised, still has to be accounted for in IdManager.       *)
PullTrack(canPlay) ==
    /\ Pulled
    /\ stopper' = NewStream(IF stopper.iStreamHandler THEN CheckPlayable(stopper, canPlay) ELSE stopper)
    /\ Deliver(Plain("track"))
    /\ phase' = "track" /\ UNCHANGED haltsPulled

PullEncodedStream(live, canPlay, canPlayLive) ==
    /\ Pulled /\ phase \in {"track", "encoded", "decoded"}
    /\ LET asked == IF stopper.iStreamHandler THEN CheckPlayable(stopper, canPlay) ELSE stopper
           new == [NewStream(asked) EXCEPT !.iStreamHandler = TRUE, !.iStreamIsLive = live, !.owed = @ + 1]
       IN stopper' = IF live THEN OkToPlay(new, canPlayLive) ELSE new
    /\ Discard
    /\ phase' = "encoded" /\ UNCHANGED haltsPulled

PullDecodedStream(canPlay) ==
    /\ Pulled /\ phase \in {"encoded", "decoded"}
    /\ stopper' = IF stopper.iStreamIsLive THEN stopper ELSE CheckPlayable(stopper, canPlay)
    /\ DeliverUnlessFlushing(stopper', Plain("stream"))
    /\ phase' = "decoded" /\ UNCHANGED haltsPulled

PullHalt(id) == /\ Pulled
                /\ id = kIdNone \/ (id = haltsPulled + 1 /\ id <= haltsAllocated)
                /\ haltsPulled' = IF id = kIdNone THEN haltsPulled ELSE id
                /\ stopper' = IF stopper.iTargetHaltId = id
                              THEN HandleStopped([stopper EXCEPT !.iTargetHaltId = kIdInvalid])
                              ELSE stopper
                /\ Deliver(Plain("halt"))
                /\ UNCHANGED phase

PullQuit == /\ Pulled /\ stopper.iQuit
            /\ Deliver(Plain("quit"))
            /\ UNCHANGED <<stopper, phase, haltsPulled>>

(* Pull() returns; StarvationRamper queues the message and pulls again, or *)
(* leaves its loop after a MsgQuit.                                        *)
Return == /\ At("return")
          /\ stopper' = [stopper EXCEPT !.iBuffering = FALSE]
          /\ out' = NoMsg
          /\ pc' = IF out.kind = "quit" THEN "exited" ELSE "top"
          /\ audible' = CASE out.kind = "audio" -> TRUE
                          [] out.kind \in Seams \union {"ownHalt"} -> FALSE
                          [] OTHER -> audible
          /\ UNCHANGED <<upstream, heard, asserted>>

PullAny == \/ PullQueued
           \/ \E n \in 1 .. MaxAudio : PullAudio(n)
           \/ PullSilence
           \/ PullFlushable
           \/ \E ramp \in {RampLong, RampShort} : PullMode(ramp)
           \/ \E a \in Answers : PullTrack(a)
           \/ \E live \in BOOLEAN, a, b \in Answers : PullEncodedStream(live, a, b)
           \/ \E a \in Answers : PullDecodedStream(a)
           \/ \E id \in 0 .. MaxHalts : PullHalt(id)
           \/ PullQuit

Puller == CheckHaltPending \/ CheckState \/ Wait \/ PullAny \/ Return

Next == \/ Puller
        \/ Play
        \/ BeginPause
        \/ \E id \in 1 .. MaxHalts : BeginStop(id)
        \/ Quit
        \/ NotifyStarving
        \/ ReportEvent

Spec == Init /\ [][Next]_vars

-----------------------------------------------------------------------------
(* Every member keeps its range.                                           *)
TypeOK == /\ stopper \in Members
          /\ pc \in {"top", "check", "wait", "pull", "return", "exited"}
          /\ out \in Messages
          /\ phase \in {"idle", "track", "encoded", "decoded"}
          /\ haltsAllocated \in 0 .. MaxHalts /\ haltsPulled \in 0 .. haltsAllocated
          /\ heard \in Volumes \union {Gap}
          /\ audible \in BOOLEAN /\ asserted \in BOOLEAN

(* Pull() never sleeps through the call that was to wake it: while it      *)
(* waits with nothing signalled, the pipeline is paused or stopped, though *)
(* iState was read without the lock and iSem is cleared as well as signalled. *)
NoLostWakeup == pc = "wait" /\ stopper.iSem = 0 => stopper.iState \in Blocked

(* iSem is binary: a wake-up left over from one pause cannot add to the next. *)
SemIsBinary == stopper.iSem <= 1

(* IdManager is asked about every encoded stream once, recognised or not,  *)
(* by the time the next track or its own audio gets out (Stopper.cpp:221). *)
AskedOnce == /\ stopper.owed \in {0, 1}
             /\ phase \in {"track", "decoded"} => stopper.owed = 0

(* Audio runs only when the last event raised says playing. *)
AudioMeansPlaying == stopper.iState = ERunning /\ phase = "decoded" /\ ~stopper.iFlushStream
                        => stopper.told = EEventPlaying

Delivers == out = NoMsg /\ out' # NoMsg

(* Volume never jumps within a stretch of audio, however ramps are started, *)
(* reversed and split.  Two cases are set aside: a ramp up reversed before   *)
(* any audio was pulled leaves a ramp down with nothing left to go, and its  *)
(* message is not ramped (BeginPause, Stopper.cpp:118); and a stream that is *)
(* being discarded is heard while a ramp runs (ProcessAudio, Stopper.cpp:343). *)
RampContinuity ==
    [][Delivers /\ out'.kind = "audio"
       /\ ~stopper.iFlushStream
       /\ ~SpentRampDown
       => heard = Gap \/ out'.from = heard]_vars

(* ASSERT(iStreamHandler != nullptr) (Stopper.cpp:485). *)
HandlerKnown == ~asserted

(* Pull() goes on pulling, and what Filler pushes arrives. *)
Fairness == WF_vars(Puller) /\ SF_vars(\E id \in 1 .. MaxHalts : PullHalt(id))
FairSpec == Spec /\ Fairness

(* A stop that has been asked for (BeginStop) ends: the pipeline blocks, or  *)
(* a later play or stream withdraws the request (Stopper.cpp:301).          *)
StopCompletes ==
    stopper.iTargetHaltId # kIdInvalid
       ~> asserted \/ stopper.iState \in Blocked \/ stopper.iTargetHaltId = kIdInvalid

Promised == INSTANCE StopperEvents
            WITH halted <- IF stopper.iState \in Blocked THEN stopper.iState ELSE "no",
                 iEventState <- stopper.iEventState

(* Whenever Pull() comes to be blocked, its last event says so; no event   *)
(* is raised for any other reason than the ones StopperEvents lists.       *)
ImplementsEvents == Promised!Spec
=============================================================================
