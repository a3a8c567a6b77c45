-------------------------- MODULE StarvationRamper --------------------------
(***************************************************************************)
(* StarvationRamper (Media/Pipeline/StarvationRamper.cpp) with its          *)
(* RampGenerator: the reservoir between the thread that pulls the whole    *)
(* pipeline and the animator, which must never be kept waiting while audio *)
(* is heard.  When the reservoir runs dry, recent audio is extrapolated    *)
(* into a ramp down by a third thread.                                     *)
(*                                                                         *)
(* Three threads: puller (PullerThread), animator (Pull, and PhaseAdjuster *)
(* downstream of it, which calls WaitForOccupancy) and gen                  *)
(* (FlywheelRamperThread).  A step lies between two accesses to what they  *)
(* share.  Audio is counted in pieces of kMaxAudioOutJiffies, the most that *)
(* one Pull returns; ramps applied upstream are left out.  MsgTrack stands *)
(* for MsgMode too, MsgMetaText for every message that is dropped.  DSD,    *)
(* and Flush(), which nothing in the pipeline calls, are left out.         *)
(*                                                                         *)
(* Upstream are the two Drainers: every MsgHalt is followed by a MsgDrain, *)
(* so may be what is pulled once starvation was reported, and nothing       *)
(* comes behind a MsgDrain before the animator has reported it drained.    *)
(***************************************************************************)
EXTENDS Integers, Sequences

CONSTANTS Sizes,          \* iMaxJiffies: its first value and those MsgDelay may set
          FirstSize,
          MaxAudio,       \* longest audio message
          MaxStreams,     \* iMaxStreamCount
          RampUp,         \* iRampUpJiffies
          FlyBlocks,      \* blocks FlywheelRamperManager outputs
          Level,          \* PipelineAnimatorBufferJiffies
          Full,           \* Ramp::kMax
          CounterSize,    \* 2^32
          MaxQueue,       \* bound: messages queued when another is pulled
          MaxMsgs         \* bound: messages upstream delivers

ASSUME SizeAssumption == /\ Sizes \subseteq Nat \ {0} /\ FirstSize \in Sizes
                         /\ MaxAudio \in Nat \ {0} /\ MaxStreams \in Nat \ {0}
                         /\ RampUp \in Nat \ {0} /\ FlyBlocks \in Nat \ {0} /\ Full \in Nat \ {0}
                         /\ Level \in Nat \ {0} /\ \A s \in Sizes : Level <= s
                         /\ CounterSize \in Nat \ {0, 1} /\ MaxQueue \in Nat \ {0} /\ MaxMsgs \in Nat

VARIABLES iQueue, count,  \* the MsgReservoir: messages, and what is counted of them
          iMaxJiffies, iSem, iStartOccupancyJiffies, iSemStartOccupancy,
          ramper,         \* the members only the animator writes
          iStartDrain,
          puller, animator, gen,
          iActive, iFlyQueue, iFlySem,      \* of RampGenerator: iQueue holds the volume each block ends at
          source,         \* what upstream may deliver
          heard           \* volume at the end of the last audio Pull() returned

vars == <<iQueue, count, iMaxJiffies, iSem, iStartOccupancyJiffies, iSemStartOccupancy, ramper,
          iStartDrain, puller, animator, gen, iActive, iFlyQueue, iFlySem, source, heard>>

Min == 0                  \* Ramp::kMin
Gap == Full + 1           \* no audio since a MsgHalt or the start of a stream
Volumes == Min .. Full

Msg(kind, n) == [kind |-> kind, n |-> n]
Dropped == Msg("None", 0)
Audible == {"Audio", "Silence"}
Queued == [kind : {"Audio"}, n : 1 .. MaxAudio] \union [kind : {"Silence"}, n : {1}]
          \union [kind : {"Track", "Stream", "Halt", "Drain", "MetaText", "Quit"}, n : {0}]
          \union [kind : {"Delay"}, n : Sizes]

Init == /\ iQueue = << >>
        /\ count = [jiffies |-> 0, streams |-> 0, drains |-> 0, halts |-> 0]
        /\ iMaxJiffies = FirstSize /\ iSem = FALSE
        /\ iStartOccupancyJiffies = 0 /\ iSemStartOccupancy = FALSE
        /\ ramper = [iState |-> "Halted", iCurrentRampValue |-> Min, iRemainingRampSize |-> 0,
                     iDraining |-> FALSE, cut |-> FALSE]
        /\ iStartDrain = FALSE
        /\ puller = [pc |-> "pull", msg |-> Dropped, full |-> FALSE, iExit |-> FALSE]
        /\ animator = [pc |-> "top", msg |-> Dropped, dropped |-> FALSE, missed |-> FALSE]
        /\ gen = [pc |-> "wait", blocks |-> 0, iCurrentRampValue |-> Min, woken |-> FALSE, late |-> FALSE]
        /\ iActive = FALSE /\ iFlyQueue = << >> /\ iFlySem = 0
        /\ source = [stream |-> FALSE, halted |-> FALSE, next |-> "any", drainDue |-> FALSE, left |-> MaxMsgs]
        /\ heard = Gap

(* Fault: one message too many is let in. *)
IsOverFull == count.jiffies > iMaxJiffies \/ count.streams = MaxStreams

IsFull == count.jiffies >= iMaxJiffies \/ count.streams = MaxStreams
LockFree == puller.pc # "enqueue"                          \* iLock

-----------------------------------------------------------------------------
(* The puller.                                                             *)

(* What the elements upstream deliver next. *)
Offered(m) ==
    CASE source.next = "drain" -> m.kind = "Drain"
      [] source.next = "none"  -> FALSE
      [] source.next = "any"   -> \/ m.kind \in {"Track", "Stream", "Delay", "Halt"}
                                  \/ m.kind \in Audible \union {"MetaText"} /\ source.stream
                                  \/ m.kind = "Drain" /\ source.drainDue
                                  \/ m.kind = "Quit" /\ source.halted

Delivered(m) ==
    [source EXCEPT !.left = @ - 1, !.stream = (@ \/ m.kind = "Stream") /\ m.kind # "Track",
                   !.halted = (@ \/ m.kind = "Halt") /\ m.kind \notin Audible,
                   !.drainDue = @ /\ (m.kind # "Drain" \/ source.next = "drain"),
                   !.next = CASE m.kind = "Halt" -> "drain"
                              [] m.kind \in {"Drain", "Quit"} -> "none"
                              [] OTHER -> "any"]

(* Fault: a MsgDrain is counted and nobody told. *)
WakesForHalt == {"Halt"}

Wakes == {"Drain", "Halt"}

(* ProcessMsgIn and the counters of MsgReservoir, under iLock. *)
PullerPulls(m) ==
    /\ puller.pc = "pull" /\ Len(iQueue) < MaxQueue /\ source.left > 0 /\ Offered(m)
    /\ source' = Delivered(m)
    /\ puller' = [puller EXCEPT !.pc = "enqueue", !.msg = m, !.iExit = @ \/ m.kind = "Quit"]
    /\ count' = [count EXCEPT !.jiffies = IF m.kind \in Audible THEN @ + m.n ELSE @,
                              !.streams = IF m.kind = "Stream" THEN @ + 1 ELSE @,
                              !.drains = IF m.kind = "Drain" THEN (@ + 1) % CounterSize ELSE @,
                              !.halts = IF m.kind = "Halt" THEN @ + 1 ELSE @]
    /\ iMaxJiffies' = IF m.kind = "Delay" THEN m.n ELSE iMaxJiffies
    /\ iSemStartOccupancy' = (iSemStartOccupancy \/ m.kind \in Wakes)
    /\ UNCHANGED <<iQueue, iSem, iStartOccupancyJiffies, ramper, iStartDrain, animator, gen,
                   iActive, iFlyQueue, iFlySem, heard>>

UnlessFull(full) == IF full THEN "sleep" ELSE IF puller.iExit THEN "exit" ELSE "pull"

(* Fault: the level itself does not count as reached. *)
AboveLevel == iStartOccupancyJiffies > 0 /\ count.jiffies > iStartOccupancyJiffies

LevelReached == iStartOccupancyJiffies > 0 /\ count.jiffies >= iStartOccupancyJiffies

(* The rest of the section under iLock. *)
Enqueue ==
    /\ puller.pc = "enqueue"
    /\ iQueue' = Append(iQueue, puller.msg)
    /\ iSem' = (iSem /\ ~IsFull)
    /\ puller' = [puller EXCEPT !.full = LevelReached /\ IsFull, !.msg = Dropped,
                                 !.pc = IF LevelReached THEN "trigger" ELSE UnlessFull(IsFull)]
    /\ UNCHANGED <<count, iMaxJiffies, iStartOccupancyJiffies, iSemStartOccupancy, ramper,
                   iStartDrain, animator, gen, iActive, iFlyQueue, iFlySem, source, heard>>

(* Fault: iSem is cleared after the lock was released. *)
TriggerThenClear ==
    /\ puller.pc = "trigger"
    /\ iSemStartOccupancy' = TRUE /\ iSem' = (iSem /\ ~puller.full)
    /\ puller' = [puller EXCEPT !.pc = UnlessFull(puller.full), !.full = FALSE]
    /\ UNCHANGED <<iQueue, count, iMaxJiffies, iStartOccupancyJiffies, ramper, iStartDrain,
                   animator, gen, iActive, iFlyQueue, iFlySem, source, heard>>

Trigger ==
    /\ puller.pc = "trigger"
    /\ iSemStartOccupancy' = TRUE
    /\ puller' = [puller EXCEPT !.pc = UnlessFull(puller.full), !.full = FALSE]
    /\ UNCHANGED <<iQueue, count, iMaxJiffies, iSem, iStartOccupancyJiffies, ramper, iStartDrain,
                   animator, gen, iActive, iFlyQueue, iFlySem, source, heard>>

Wake ==
    /\ puller.pc = "sleep" /\ iSem
    /\ iSem' = FALSE
    /\ puller' = [puller EXCEPT !.pc = UnlessFull(FALSE)]
    /\ UNCHANGED <<iQueue, count, iMaxJiffies, iStartOccupancyJiffies, iSemStartOccupancy, ramper,
                   iStartDrain, animator, gen, iActive, iFlyQueue, iFlySem, source, heard>>

-----------------------------------------------------------------------------
(* RampGenerator's thread.                                                 *)

GeneratorUnchanged == UNCHANGED <<iQueue, count, iMaxJiffies, iSem, iStartOccupancyJiffies,
                                  iSemStartOccupancy, ramper, iStartDrain, puller, animator,
                                  source, heard>>

Ramp ==
    /\ gen.pc = "wait" /\ gen.woken
    /\ gen' = [gen EXCEPT !.pc = "ramp", !.woken = FALSE, !.blocks = FlyBlocks]
    /\ UNCHANGED <<iActive, iFlyQueue, iFlySem>> /\ GeneratorUnchanged

(* The end of a ramp over one piece of audio, with remaining pieces left. *)
RampedDown(v, remaining) == v - v \div remaining
RampedUp(v, remaining) == v + (Full - v) \div remaining

EndBlock ==
    /\ gen.pc = "ramp" /\ gen.blocks > 0
    /\ LET end == RampedDown(gen.iCurrentRampValue, gen.blocks)
       IN  /\ iFlyQueue' = Append(iFlyQueue, end)
           /\ gen' = [gen EXCEPT !.blocks = @ - 1, !.iCurrentRampValue = end]
    /\ iFlySem' = iFlySem + 1
    /\ UNCHANGED iActive /\ GeneratorUnchanged

(* Fault: the end of the ramp is not signalled. *)
RampEndsSilently ==
    /\ gen.pc = "ramp" /\ gen.blocks = 0
    /\ iActive' = FALSE
    /\ gen' = [gen EXCEPT !.pc = "wait"]
    /\ UNCHANGED <<iFlyQueue, iFlySem>> /\ GeneratorUnchanged

RampEnds ==
    /\ gen.pc = "ramp" /\ gen.blocks = 0
    /\ iActive' = FALSE
    /\ gen' = [gen EXCEPT !.pc = "signal"]
    /\ UNCHANGED <<iFlyQueue, iFlySem>> /\ GeneratorUnchanged

SignalEnd ==
    /\ gen.pc = "signal"
    /\ iFlySem' = iFlySem + 1
    /\ gen' = [gen EXCEPT !.pc = "wait"]
    /\ UNCHANGED <<iActive, iFlyQueue>> /\ GeneratorUnchanged

-----------------------------------------------------------------------------
(* The animator.                                                           *)

UpstreamUnchanged == UNCHANGED <<puller, source, iMaxJiffies>>
RampUnchanged == UNCHANGED <<gen, iActive, iFlyQueue, iFlySem>>
At(pc) == animator.pc = pc
Goto(pc) == animator' = [animator EXCEPT !.pc = pc]

(* StartFlywheelRamp() with the members as they are in r. *)
FlywheelRamp(r) ==
    /\ ramper' = [r EXCEPT !.iState = "FlywheelRamping"]
    /\ gen' = [gen EXCEPT !.iCurrentRampValue = r.iCurrentRampValue, !.woken = TRUE,
                          !.late = gen.pc = "signal"]
    /\ iActive' = TRUE /\ iFlySem' = 0
    /\ source' = [source EXCEPT !.drainDue = TRUE]
    /\ UNCHANGED iFlyQueue

(* Fault: audio that ramps up is not ramped down. *)
LoudWhenRunning == ramper.iState = "Running"

Loud == \/ ramper.iState = "Running"
        \/ ramper.iState = "RampingUp" /\ ramper.iCurrentRampValue # Min

FlywheelSilent == ~iActive /\ iFlyQueue = << >>

(* What Pull() returns: audio to PhaseAdjuster, the rest to the driver. *)
Returns(kind) == animator' = [animator EXCEPT !.pc = IF kind = "Audio" THEN "adjust" ELSE "top",
                                              !.msg = Dropped, !.dropped = FALSE]

(* Fault: the ramp up goes on where the flywheel ramp began. *)
RampingOn(r) == [r EXCEPT !.iState = "RampingUp", !.iRemainingRampSize = RampUp, !.cut = FALSE]

RampingUp(r) == [r EXCEPT !.iState = "RampingUp", !.iRemainingRampSize = RampUp, !.cut = FALSE,
                          !.iCurrentRampValue = Min]

(* TryGetAudio() returned nothing. *)
WithoutFlywheel(r) ==
    IF r.iState = "FlywheelRamping"
    THEN /\ ramper' = RampingUp(r)
         /\ heard' = Gap
         /\ Returns("Halt")
    ELSE Goto("dequeue") /\ ramper' = r /\ UNCHANGED heard

TryGetAudio(r) == IF FlywheelSilent THEN WithoutFlywheel(r) ELSE Goto("fly") /\ ramper' = r /\ UNCHANGED heard

(* The reservoir is dry, or is to be drained; then TryGetAudio. *)
Starve ==
    /\ LET draining == [ramper EXCEPT !.iDraining = @ \/ iStartDrain]
       IN  IF (iQueue = << >> \/ iStartDrain) /\ Loud /\ ~puller.iExit
           THEN FlywheelRamp(draining) /\ Goto("fly") /\ UNCHANGED heard
           ELSE TryGetAudio(draining) /\ RampUnchanged /\ UNCHANGED source
    /\ iStartDrain' = FALSE

(* Pull() blocks once, until the level that was asked for is reached. *)
Armed == iStartOccupancyJiffies > 0 /\ count.drains = 0 /\ count.halts = 0

PullBlocks ==
    /\ At("top") /\ Armed /\ count.jiffies < iStartOccupancyJiffies
    /\ Goto("occupancy")
    /\ UNCHANGED <<iQueue, count, iSem, iStartOccupancyJiffies, iSemStartOccupancy, ramper,
                   iStartDrain, heard>>
    /\ UpstreamUnchanged /\ RampUnchanged

Pull ==
    /\ At("top") /\ ~(Armed /\ count.jiffies < iStartOccupancyJiffies)
    /\ iStartOccupancyJiffies' = IF Armed THEN 0 ELSE iStartOccupancyJiffies
    /\ Starve
    /\ UNCHANGED <<iQueue, count, iMaxJiffies, iSem, iSemStartOccupancy, puller>>

OccupancyReached ==
    /\ At("occupancy") /\ iSemStartOccupancy
    /\ iSemStartOccupancy' = FALSE /\ iStartOccupancyJiffies' = 0
    /\ Starve
    /\ UNCHANGED <<iQueue, count, iMaxJiffies, iSem, puller>>

FlywheelWait ==
    /\ At("fly") /\ iFlySem > 0
    /\ iFlySem' = iFlySem - 1
    /\ IF FlywheelSilent THEN WithoutFlywheel(ramper) ELSE Goto("flyaudio") /\ UNCHANGED <<ramper, heard>>
    /\ UNCHANGED <<iQueue, count, iSem, iStartOccupancyJiffies, iSemStartOccupancy, iStartDrain,
                   gen, iActive, iFlyQueue>>
    /\ UpstreamUnchanged

FlywheelAudio ==
    /\ At("flyaudio") /\ iFlyQueue # << >>
    /\ Returns("Audio")
    /\ heard' = Head(iFlyQueue)
    /\ iFlyQueue' = Tail(iFlyQueue)
    /\ UNCHANGED <<iQueue, count, iSem, iStartOccupancyJiffies, iSemStartOccupancy, ramper,
                   iStartDrain, gen, iActive, iFlySem>>
    /\ UpstreamUnchanged

(* The message is off the queue and no longer counted; ProcessMsgOut follows. *)
Dequeue ==
    /\ At("dequeue") /\ iQueue # << >>
    /\ LET m == Head(iQueue)
       IN  /\ animator' = [animator EXCEPT !.pc = "process", !.msg = m]
           /\ count' = [count EXCEPT !.jiffies = IF m.kind \in Audible THEN @ - m.n ELSE @,
                                     !.streams = IF m.kind = "Stream" THEN @ - 1 ELSE @]
    /\ iQueue' = Tail(iQueue)
    /\ UNCHANGED <<iSem, iStartOccupancyJiffies, iSemStartOccupancy, ramper, iStartDrain, heard>>
    /\ UpstreamUnchanged /\ RampUnchanged

Processed(result) ==
    animator' = [animator EXCEPT !.pc = "wake", !.msg = result, !.dropped = @ \/ result = Dropped]

(* Handlers that touch only the members of the animator. *)
ProcessMsgOut ==
    /\ At("process") /\ animator.msg.kind \notin Audible \union {"Drain"}
    /\ LET m == animator.msg
       IN  /\ Processed(IF m.kind \in {"Track", "MetaText"} THEN Dropped ELSE m)
           /\ ramper' = CASE m.kind = "Track"  -> [ramper EXCEPT !.iState = "Starting"]
                          [] m.kind = "Stream" -> [ramper EXCEPT !.iState = "Starting",
                                                                 !.iCurrentRampValue = Full, !.cut = FALSE]
                          [] m.kind = "Halt"   -> [ramper EXCEPT !.iState = "Halted",
                                                                 !.cut = @ \/ ramper.iState = "RampingUp"]
                          [] OTHER -> ramper
           /\ heard' = IF m.kind \in {"Halt", "Track", "Stream"} THEN Gap ELSE heard
           /\ count' = [count EXCEPT !.halts = IF m.kind = "Halt" THEN @ - 1 ELSE @]
    /\ UNCHANGED <<iQueue, iSem, iStartOccupancyJiffies, iSemStartOccupancy, iStartDrain>>
    /\ UpstreamUnchanged /\ RampUnchanged

(* A drain that meets audio goes back to the head of the queue, uncounted. *)
ProcessDrain ==
    /\ At("process") /\ animator.msg.kind = "Drain"
    /\ count' = [count EXCEPT !.drains = (@ + CounterSize - 1) % CounterSize]
    /\ LET drained == [ramper EXCEPT !.iDraining = FALSE]
       IN  IF Loud
           THEN /\ iQueue' = <<animator.msg>> \o iQueue
                /\ FlywheelRamp(drained)
                /\ Processed(Dropped)
           ELSE /\ ramper' = drained
                /\ Processed(animator.msg)
                /\ RampUnchanged /\ UNCHANGED <<iQueue, source>>
    /\ UNCHANGED <<iMaxJiffies, iSem, iStartOccupancyJiffies, iSemStartOccupancy, iStartDrain,
                   puller, heard>>

(* More than one piece: the rest goes back to the head of the queue. *)
Rest(m) == IF m.n > 1 THEN <<Msg(m.kind, m.n - 1)>> ELSE << >>

ProcessSilence ==
    /\ At("process") /\ animator.msg.kind = "Silence" /\ ~ramper.iDraining
    /\ iQueue' = Rest(animator.msg) \o iQueue
    /\ count' = [count EXCEPT !.jiffies = @ + animator.msg.n - 1]
    /\ ramper' = [ramper EXCEPT !.iState = IF @ = "Halted" THEN "Starting" ELSE @]
    /\ Processed(Msg("Silence", 1))
    /\ UNCHANGED <<iSem, iStartOccupancyJiffies, iSemStartOccupancy, iStartDrain, heard>>
    /\ UpstreamUnchanged /\ RampUnchanged

ProcessAudio ==
    /\ At("process") /\ animator.msg.kind = "Audio" /\ ~ramper.iDraining
    /\ iQueue' = Rest(animator.msg) \o iQueue
    /\ count' = [count EXCEPT !.jiffies = @ + animator.msg.n - 1]
    /\ LET ramping == ramper.iState = "RampingUp" /\ ramper.iRemainingRampSize > 0
           end == RampedUp(ramper.iCurrentRampValue, ramper.iRemainingRampSize)
           started == IF ramper.iState \in {"Starting", "Halted"} THEN "Running" ELSE ramper.iState
       IN  IF ramping
           THEN /\ ramper' = [ramper EXCEPT !.iCurrentRampValue = end, !.iRemainingRampSize = @ - 1,
                                            !.iState = IF ramper.iRemainingRampSize = 1 THEN "Running" ELSE @]
                /\ heard' = end
           ELSE /\ ramper' = [ramper EXCEPT !.iState = started]
                /\ heard' = Full
    /\ Processed(Msg("Audio", 1))
    /\ UNCHANGED <<iSem, iStartOccupancyJiffies, iSemStartOccupancy, iStartDrain>>
    /\ UpstreamUnchanged /\ RampUnchanged

Discard ==
    /\ At("process") /\ animator.msg.kind \in Audible /\ ramper.iDraining
    /\ ramper' = ramper /\ Processed(Dropped)
    /\ UNCHANGED <<iQueue, count, iSem, iStartOccupancyJiffies, iSemStartOccupancy, iStartDrain, heard>>
    /\ UpstreamUnchanged /\ RampUnchanged

(* The end of the loop in Pull(): the puller is let go, a message is returned. *)
Signal ==
    /\ At("wake") /\ LockFree
    /\ iSem' = (iSem \/ ~IsFull)
    /\ IF animator.msg = Dropped
       THEN TryGetAudio(ramper)
       ELSE Returns(animator.msg.kind) /\ UNCHANGED <<ramper, heard>>
    /\ source' = IF animator.msg.kind = "Drain" THEN [source EXCEPT !.next = "any"] ELSE source
    /\ UNCHANGED <<iQueue, count, iMaxJiffies, iStartOccupancyJiffies, iSemStartOccupancy,
                   iStartDrain, puller>>
    /\ RampUnchanged

(* PhaseAdjuster may have dropped the audio; it asks for a level, or not. *)
PullAgain ==
    /\ At("adjust") /\ Goto("top")
    /\ UNCHANGED <<iQueue, count, iSem, iStartOccupancyJiffies, iSemStartOccupancy, ramper,
                   iStartDrain, heard>>
    /\ UpstreamUnchanged /\ RampUnchanged

WaitForOccupancy ==
    /\ At("adjust") /\ count.drains = 0 /\ count.halts = 0
    /\ Goto("confirm")
    /\ UNCHANGED <<iQueue, count, iSem, iStartOccupancyJiffies, iSemStartOccupancy, ramper,
                   iStartDrain, heard>>
    /\ UpstreamUnchanged /\ RampUnchanged

Held(kind) == \/ puller.msg.kind = kind \/ animator.msg.kind = kind
              \/ \E i \in DOMAIN iQueue : iQueue[i].kind = kind

(* missed: not checked, a MsgDrain or MsgHalt is in the reservoir already. *)
OccupancyAwaited ==
    /\ At("confirm")
    /\ animator' = [animator EXCEPT !.pc = "top", !.missed = Held("Drain") \/ Held("Halt")]
    /\ iSemStartOccupancy' = FALSE /\ iStartOccupancyJiffies' = Level
    /\ UNCHANGED <<iQueue, count, iSem, ramper, iStartDrain, heard>>
    /\ UpstreamUnchanged /\ RampUnchanged

(* Any thread. *)
DrainAllAudio ==
    /\ iStartDrain' = TRUE
    /\ UNCHANGED <<iQueue, count, iMaxJiffies, iSem, iStartOccupancyJiffies, iSemStartOccupancy,
                   ramper, puller, animator, gen, iActive, iFlyQueue, iFlySem, source, heard>>

PullerSteps == Enqueue \/ Trigger \/ Wake
Generator == Ramp \/ EndBlock \/ RampEnds \/ SignalEnd
Animator == \/ PullBlocks \/ Pull \/ OccupancyReached \/ FlywheelWait \/ FlywheelAudio
            \/ Dequeue \/ ProcessMsgOut \/ ProcessDrain \/ ProcessSilence \/ ProcessAudio \/ Discard
            \/ Signal \/ PullAgain \/ WaitForOccupancy \/ OccupancyAwaited

Next == \/ \E m \in Queued : PullerPulls(m)
        \/ PullerSteps \/ Generator \/ Animator \/ DrainAllAudio

Spec == Init /\ [][Next]_vars
FairSpec == Spec /\ WF_vars(PullerSteps) /\ WF_vars(Generator) /\ WF_vars(Animator)

-----------------------------------------------------------------------------
PullerMembers == [pc : {"pull", "enqueue", "trigger", "sleep", "exit"},
                  msg : Queued \union {Dropped}, full : BOOLEAN, iExit : BOOLEAN]
AnimatorMembers == [pc : {"top", "occupancy", "fly", "flyaudio", "dequeue", "process", "wake",
                          "adjust", "confirm"},
                    msg : Queued \union {Dropped}, dropped : BOOLEAN, missed : BOOLEAN]
RamperMembers == [iState : {"Starting", "Running", "Halted", "RampingUp", "FlywheelRamping"},
                  iCurrentRampValue : Volumes, iRemainingRampSize : 0 .. RampUp,
                  iDraining : BOOLEAN, cut : BOOLEAN]
GeneratorMembers == [pc : {"wait", "ramp", "signal"}, blocks : 0 .. FlyBlocks,
                     iCurrentRampValue : Volumes, woken : BOOLEAN, late : BOOLEAN]
SourceMembers == [stream : BOOLEAN, halted : BOOLEAN, next : {"any", "drain", "none"},
                  drainDue : BOOLEAN, left : 0 .. MaxMsgs]
Counts == [jiffies : Int, streams : Int, drains : 0 .. CounterSize - 1, halts : Int]

(* Every member keeps its range.                                            *)
TypeOK ==
    /\ iQueue \in Seq(Queued) /\ count \in Counts /\ iMaxJiffies \in Sizes /\ iSem \in BOOLEAN
    /\ iStartOccupancyJiffies \in {0, Level} /\ iSemStartOccupancy \in BOOLEAN
    /\ ramper \in RamperMembers /\ iStartDrain \in BOOLEAN
    /\ puller \in PullerMembers /\ animator \in AnimatorMembers /\ gen \in GeneratorMembers
    /\ iActive \in BOOLEAN /\ iFlyQueue \in Seq(Volumes) /\ iFlySem \in Nat
    /\ source \in SourceMembers /\ heard \in Volumes \union {Gap}

(* The puller sleeps only while the reservoir is full, or its wake-up is on *)
(* the way: PullerThread clears iSem under the lock but waits for it        *)
(* outside, and Pull() tests IsFull() again under the lock (line 664).      *)
PullerIsWoken ==
    puller.pc = "sleep" => IsFull \/ iSem \/ animator.pc \in {"process", "wake"}

(* The puller and the animator never wait for each other: the animator      *)
(* waits for a message, or for a level of audio, only while the puller can  *)
(* bring it.  (A reservoir full of streams that hold less audio than the    *)
(* level is the exception: IsFull() counts streams too.)                    *)
NeverBothBlocked ==
    puller.pc = "sleep" /\ ~iSem =>
        /\ ~(At("dequeue") /\ iQueue = << >>)
        /\ At("occupancy") => iSemStartOccupancy \/ count.streams = MaxStreams

(* The reservoir holds at most iMaxJiffies and two messages over: one that  *)
(* the puller adds, and one that Pull() puts back behind its first piece    *)
(* after the puller has found room (lines 474 and 802).                     *)
OccupancyBounded ==
    /\ \E s \in Sizes : count.jiffies <= s + 2 * MaxAudio - 2
    /\ count.streams <= MaxStreams

(* Whenever a flywheel ramp may start, it starts at the volume heard last:  *)
(* iCurrentRampValue follows ramps up, is reset by streams and survives     *)
(* flywheel ramps (lines 517, 656, 787, 811).  A MsgHalt in a ramp up cuts  *)
(* it: the value is then stale until the next stream.                       *)
RampsStartWhereHeard == Loud => heard = ramper.iCurrentRampValue \/ ramper.cut

(* Audio that is heard does not end at a dry reservoir: when Pull() waits   *)
(* for a message, it has ramped down or passed on a MsgHalt or a stream     *)
(* (line 630).  Not so if this call began with a message that it dropped:   *)
(* the reservoir is looked at once, before the loop.                        *)
NoAbruptEnd ==
    At("dequeue") /\ iQueue = << >> /\ ~puller.iExit /\ ~animator.dropped => heard \in {Gap, Min}

(* A MsgDrain reaches the driver, which then empties its buffers, only      *)
(* after what was heard has ramped down (lines 722 to 732).                 *)
DrainsAreQuiet == At("wake") /\ animator.msg.kind = "Drain" => heard \in {Gap, Min}

(* Every flywheel ramp is played out and Pull() goes on with the reservoir, *)
(* unless the generator's last signal of a ramp came after the next ramp    *)
(* was started (lines 267 and 243).                                         *)
Flying == animator.pc \in {"fly", "flyaudio"}
FlywheelEnds == Flying ~> (~Flying \/ gen.late)

(* A MsgDrain is reported, or Drainer would hold up all that follows, and a *)
(* MsgQuit gets out: nothing the animator waits for stands in their way,    *)
(* unless a level was asked for while a MsgHalt or MsgDrain was held that   *)
(* WaitForOccupancy does not see: it was counted between the two steps of   *)
(* the call (lines 915 and 918), or had gone back uncounted (line 728).     *)
UpstreamEnds == Held("Drain") \/ Held("Quit")
DrainsGetOut == UpstreamEnds ~> (~UpstreamEnds \/ gen.late \/ animator.missed)

=============================================================================
