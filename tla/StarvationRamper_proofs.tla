---------------------- MODULE StarvationRamper_proofs ----------------------
(***************************************************************************)
(* Proofs about StarvationRamper.  IInv is inductive: beside the types it   *)
(* says where the animator is and whether a flywheel ramp is under way     *)
(* (PlaceInv), what was heard last in each state (HeardInv), that audio    *)
(* follows a stream (OrderInv), why the puller sleeps (SleepInv), how much *)
(* room there is while it does not (RoomInv) and why the animator may wait *)
(* for a message (DryInv).  CountInv and OccupancyInv, proved on top of it,  *)
(* say what the reservoir counts and who tells of a level reached.          *)
(***************************************************************************)
EXTENDS StarvationRamper, FiniteSetTheorems, TLAPS

(* Where the animator is, what it has in hand and whether a flywheel ramp   *)
(* is under way.                                                           *)
PlaceInv ==
    /\ gen.pc = "ramp" \/ gen.woken => iActive
    /\ ~(gen.pc = "ramp" /\ gen.woken)
    /\ ~FlywheelSilent \/ Flying => ramper.iState = "FlywheelRamping"
    /\ At("dequeue") \/ At("process") => ramper.iState # "FlywheelRamping"
    /\ At("wake") /\ animator.msg # Dropped => ramper.iState # "FlywheelRamping"
    /\ At("wake") /\ animator.msg = Dropped => animator.dropped
    /\ At("process") => animator.msg # Dropped
    /\ ~At("process") /\ ~At("wake") => animator.msg = Dropped
    /\ puller.pc = "enqueue" <=> puller.msg # Dropped

(* The volume heard last, by state.                                        *)
HeardInv ==
    /\ ramper.iState \in {"Halted", "Starting"} => heard = Gap
    /\ ramper.iState = "RampingUp" =>
          /\ ramper.iRemainingRampSize > 0 /\ ~ramper.cut
          /\ heard = ramper.iCurrentRampValue \/ (heard = Gap /\ ramper.iCurrentRampValue = Min)
    /\ ramper.iState = "Running" => (ramper.iCurrentRampValue = Full /\ heard = Full) \/ ramper.cut

(* Audio follows a stream: between a MsgTrack, or a state left over from    *)
(* before it (Stale), and audio there is a MsgDecodedStream.                *)
Stale == ramper.iState \in {"Halted", "Starting"} /\ ramper.iCurrentRampValue # Full /\ ~ramper.cut
Hand(kind) == At("process") /\ animator.msg.kind = kind
Unannounced == Hand("Track") \/ (Stale /\ ~Hand("Stream"))
StreamIn(q, a, b) == \E j \in DOMAIN q : a < j /\ j < b /\ q[j].kind = "Stream"
Mark(u, q, i) == (i = 0 /\ u) \/ (i \in DOMAIN q /\ q[i].kind = "Track")
Ordered(u, q) == \A i \in 0 .. Len(q), k \in DOMAIN q :
                    Mark(u, q, i) /\ i < k /\ q[k].kind \in Audible => StreamIn(q, i, k)
Closed(u, q) == \A i \in 0 .. Len(q) : Mark(u, q, i) => StreamIn(q, i, Len(q) + 1)
OrderInv ==
    /\ Ordered(Unannounced, iQueue)
    /\ source.stream /\ puller.msg.kind # "Stream" => Closed(Unannounced, iQueue)
    /\ puller.msg.kind \in Audible => source.stream
    /\ puller.msg.kind = "Track" => ~source.stream
    /\ Stale /\ At("process") => animator.msg.kind \notin Audible

SleepInv == puller.pc = "sleep" \/ (puller.pc = "trigger" /\ puller.full)
            => IsFull \/ iSem \/ At("process") \/ At("wake")

ToPutBack == IF At("process") /\ animator.msg.kind \in Audible THEN animator.msg.n - 1 ELSE 0
Room == \/ puller.pc = "pull" \/ (puller.pc = "trigger" /\ ~puller.full)
        \/ (puller.pc \in {"trigger", "sleep"} /\ iSem)
RoomInv ==
    /\ \E s \in Sizes : count.jiffies + ToPutBack <= s + (IF Room THEN MaxAudio - 2 ELSE 2 * MaxAudio - 2)
    /\ count.streams <= (IF Room THEN MaxStreams - 1 ELSE MaxStreams)

DryInv == At("dequeue") /\ iQueue = << >> /\ ~puller.iExit /\ ~animator.dropped => ~Loud

IInv == /\ TypeOK /\ PlaceInv /\ HeardInv /\ OrderInv /\ SleepInv /\ RoomInv /\ DryInv /\ DrainsAreQuiet

-----------------------------------------------------------------------------
(* Types.                                                                  *)

LEMMA Bounds ==
  /\ Full \in Nat \ {0} /\ Min \in Volumes /\ Full \in Volumes /\ Gap \notin Volumes
  /\ RampUp \in Nat \ {0} /\ FlyBlocks \in Nat \ {0} /\ MaxAudio \in Nat \ {0} /\ MaxStreams \in Nat \ {0}
  /\ CounterSize \in Nat \ {0, 1} /\ MaxMsgs \in Nat /\ Level \in Nat \ {0}
  /\ Sizes \subseteq Nat \ {0} /\ FirstSize \in Sizes
  BY SizeAssumption DEF Min, Volumes, Gap

LEMMA MsgTyped ==
  ASSUME NEW m \in Queued \union {Dropped}
  PROVE  /\ m # Dropped => m \in Queued
         /\ m.kind = "Audio" => m.n \in 1 .. MaxAudio
         /\ m.kind = "Silence" => m.n = 1
         /\ m.kind = "Delay" => m.n \in Sizes
         /\ m.kind \in {"Audio", "Silence", "Track", "Stream", "Halt", "Drain", "MetaText", "Quit", "Delay", "None"}
         /\ m.kind = "None" <=> m = Dropped
  BY DEF Queued, Dropped, Msg

LEMMA PieceTyped == /\ Msg("Audio", 1) \in Queued /\ Msg("Silence", 1) \in Queued
                    /\ Msg("Audio", 1) # Dropped /\ Msg("Silence", 1) # Dropped
  BY Bounds DEF Queued, Msg, Dropped

LEMMA RestTyped ==
  ASSUME NEW m \in Queued, m.kind \in Audible
  PROVE  Rest(m) \in Seq(Queued)
<1>1. CASE m.n > 1
  <2>1. m.kind = "Audio" /\ m.n \in 1 .. MaxAudio
    BY <1>1, MsgTyped DEF Audible
  <2>2. Msg("Audio", m.n - 1) \in Queued
    BY <1>1, <2>1, Bounds DEF Queued, Msg
  <2> QED BY <1>1, <2>1, <2>2 DEF Rest
<1>2. CASE ~(m.n > 1)
  BY <1>2 DEF Rest
<1> QED BY <1>1, <1>2

(* A ramp of at least one piece ends between the volumes it lies between.   *)
LEMMA Quotient == ASSUME NEW v \in Nat, NEW r \in Nat \ {0} PROVE v \div r \in 0 .. v
  OBVIOUS

LEMMA RampTyped ==
  ASSUME NEW v \in Volumes, NEW r \in Nat \ {0}
  PROVE  RampedDown(v, r) \in Volumes /\ RampedUp(v, r) \in Volumes
<1>1. v \in Nat /\ Full - v \in Nat /\ Full \in Nat /\ Volumes = 0 .. Full
  BY Bounds DEF Volumes, Min
<1>2. v \div r \in 0 .. v /\ (Full - v) \div r \in 0 .. (Full - v)
  BY <1>1, Quotient
<1> QED BY <1>1, <1>2 DEF RampedDown, RampedUp

LEMMA WholeRamp == ASSUME NEW v \in Volumes PROVE RampedUp(v, 1) = Full
<1>1. v \in Nat /\ Full - v \in Nat /\ Full \in Nat
  BY Bounds DEF Volumes, Min
<1>2. (Full - v) \div 1 = Full - v
  BY <1>1
<1> QED BY <1>1, <1>2 DEF RampedUp

LEMMA CountTyped ==
  ASSUME NEW d \in 0 .. CounterSize - 1
  PROVE  (d + 1) % CounterSize \in 0 .. CounterSize - 1 /\ (d + CounterSize - 1) % CounterSize \in 0 .. CounterSize - 1
  BY Bounds

LEMMA CountsTyped ==
  ASSUME count \in Counts, NEW j \in Int, NEW s \in Int, NEW d \in 0 .. CounterSize - 1, NEW h \in Int
  PROVE  /\ [count EXCEPT !.jiffies = j] \in Counts
         /\ [count EXCEPT !.jiffies = j, !.streams = s] \in Counts
         /\ [count EXCEPT !.jiffies = j, !.streams = s, !.drains = d, !.halts = h] \in Counts
  BY DEF Counts

LEMMA StartTyped ==
  ASSUME NEW r \in RamperMembers, gen \in GeneratorMembers, source \in SourceMembers, FlywheelRamp(r)
  PROVE  ramper' \in RamperMembers /\ gen' \in GeneratorMembers /\ source' \in SourceMembers
         /\ iActive' = TRUE /\ iFlySem' = 0 /\ iFlyQueue' = iFlyQueue
<1>1. ramper' \in RamperMembers
  BY DEF FlywheelRamp, RamperMembers
<1>2. gen' \in GeneratorMembers
  BY DEF FlywheelRamp, GeneratorMembers, RamperMembers
<1>3. source' \in SourceMembers
  BY DEF FlywheelRamp, SourceMembers
<1> QED BY <1>1, <1>2, <1>3 DEF FlywheelRamp

LEMMA GotoTyped ==
  ASSUME animator \in AnimatorMembers,
         NEW pc \in {"top", "occupancy", "fly", "flyaudio", "dequeue", "adjust", "confirm"}, Goto(pc)
  PROVE  animator' \in AnimatorMembers
  BY DEF Goto, AnimatorMembers
LEMMA ReturnsTyped ==
  ASSUME animator \in AnimatorMembers, NEW kind, Returns(kind) PROVE animator' \in AnimatorMembers
  BY DEF Returns, AnimatorMembers
LEMMA ProcessedTyped ==
  ASSUME animator \in AnimatorMembers, NEW m \in Queued \union {Dropped}, Processed(m)
  PROVE  animator' \in AnimatorMembers
  BY DEF Processed, AnimatorMembers
LEMMA RampingUpTyped == ASSUME NEW r \in RamperMembers PROVE RampingUp(r) \in RamperMembers
<1>1. Min \in Volumes /\ RampUp \in 0 .. RampUp
  BY Bounds
<1> QED BY <1>1 DEF RampingUp, RamperMembers

LEMMA WithoutTyped ==
  ASSUME NEW r \in RamperMembers, animator \in AnimatorMembers, heard \in Volumes \union {Gap},
         WithoutFlywheel(r)
  PROVE  ramper' \in RamperMembers /\ animator' \in AnimatorMembers /\ heard' \in Volumes \union {Gap}
<1>1. CASE r.iState = "FlywheelRamping"
  BY <1>1, ReturnsTyped, RampingUpTyped DEF WithoutFlywheel
<1>2. CASE r.iState # "FlywheelRamping"
  BY <1>2, GotoTyped DEF WithoutFlywheel
<1> QED BY <1>1, <1>2

LEMMA TryTyped ==
  ASSUME NEW r \in RamperMembers, animator \in AnimatorMembers, heard \in Volumes \union {Gap},
         TryGetAudio(r)
  PROVE  ramper' \in RamperMembers /\ animator' \in AnimatorMembers /\ heard' \in Volumes \union {Gap}
<1>1. CASE FlywheelSilent
  BY <1>1, WithoutTyped DEF TryGetAudio
<1>2. CASE ~FlywheelSilent
  BY <1>2, GotoTyped DEF TryGetAudio
<1> QED BY <1>1, <1>2

Draining == [ramper EXCEPT !.iDraining = @ \/ iStartDrain]
LEMMA DrainingTyped ==
  ASSUME ramper \in RamperMembers, iStartDrain \in BOOLEAN PROVE Draining \in RamperMembers
  BY DEF Draining, RamperMembers

(* Starve either starts a flywheel ramp or goes on to what there is.       *)
LEMMA StarveCases ==
  ASSUME Starve
  PROVE  /\ iStartDrain' = FALSE
         /\ \/ /\ Loud /\ ~puller.iExit /\ FlywheelRamp(Draining) /\ Goto("fly") /\ UNCHANGED heard
            \/ /\ iQueue = << >> => ~Loud \/ puller.iExit
               /\ TryGetAudio(Draining) /\ RampUnchanged /\ UNCHANGED source
  BY DEF Starve, Draining

LEMMA StarveTyped ==
  ASSUME TypeOK, Starve
  PROVE  /\ ramper' \in RamperMembers /\ animator' \in AnimatorMembers /\ heard' \in Volumes \union {Gap}
         /\ gen' \in GeneratorMembers /\ source' \in SourceMembers /\ iStartDrain' \in BOOLEAN
         /\ iActive' \in BOOLEAN /\ iFlyQueue' \in Seq(Volumes) /\ iFlySem' \in Nat
<1>1. Draining \in RamperMembers
  BY DrainingTyped DEF TypeOK
<1>2. CASE FlywheelRamp(Draining) /\ Goto("fly") /\ UNCHANGED heard
  <2>1. /\ ramper' \in RamperMembers /\ gen' \in GeneratorMembers /\ source' \in SourceMembers
        /\ iActive' = TRUE /\ iFlySem' = 0 /\ iFlyQueue' = iFlyQueue
    BY <1>1, <1>2, StartTyped DEF TypeOK
  <2>2. animator' \in AnimatorMembers
    BY <1>2, GotoTyped DEF TypeOK
  <2> QED BY <1>2, <2>1, <2>2, StarveCases DEF TypeOK
<1>3. CASE TryGetAudio(Draining) /\ RampUnchanged /\ UNCHANGED source
  BY <1>1, <1>3, StarveCases, TryTyped DEF TypeOK, RampUnchanged
<1> QED BY <1>2, <1>3, StarveCases

LEMMA TypeInit == Init => TypeOK
<1> SUFFICES ASSUME Init PROVE TypeOK
  OBVIOUS
<1>1. Min \in Volumes /\ FirstSize \in Sizes /\ MaxMsgs \in 0 .. MaxMsgs /\ 0 \in 0 .. CounterSize - 1
      /\ 0 \in 0 .. RampUp /\ 0 \in 0 .. FlyBlocks
  BY Bounds
<1>2. iQueue \in Seq(Queued) /\ iFlyQueue \in Seq(Volumes) /\ count \in Counts
  BY <1>1 DEF Init, Counts
<1>3. ramper \in RamperMembers /\ gen \in GeneratorMembers
  BY <1>1 DEF Init, RamperMembers, GeneratorMembers
<1>4. puller \in PullerMembers /\ animator \in AnimatorMembers /\ source \in SourceMembers
  BY <1>1 DEF Init, PullerMembers, AnimatorMembers, SourceMembers
<1> QED BY <1>1, <1>2, <1>3, <1>4 DEF Init, TypeOK

LEMMA PullerTyped ==
  ASSUME TypeOK, PlaceInv, (\E m \in Queued : PullerPulls(m)) \/ PullerSteps
  PROVE  TypeOK'
<1>1. CASE \E m \in Queued : PullerPulls(m)
  <2> PICK m \in Queued : PullerPulls(m)
    BY <1>1
  <2>1. source' \in SourceMembers
    <3>1. source.left - 1 \in 0 .. MaxMsgs
      <4>1. source.left \in 0 .. MaxMsgs /\ source.left > 0
        BY DEF PullerPulls, TypeOK, SourceMembers
      <4> QED BY <4>1, Bounds
    <3>2. CASE m.kind = "Halt"
      BY <3>1, <3>2 DEF PullerPulls, Delivered, TypeOK, SourceMembers
    <3>3. CASE m.kind \in {"Drain", "Quit"}
      BY <3>1, <3>3 DEF PullerPulls, Delivered, TypeOK, SourceMembers
    <3>4. CASE m.kind \notin {"Halt", "Drain", "Quit"}
      BY <3>1, <3>4 DEF PullerPulls, Delivered, TypeOK, SourceMembers
    <3> QED BY <3>2, <3>3, <3>4
  <2>2. puller' \in PullerMembers
    BY DEF PullerPulls, TypeOK, PullerMembers
  <2>3. count' \in Counts
    <3>1. m.kind \in Audible => m.n \in Int
      BY MsgTyped, Bounds DEF Audible
    <3>2. (count.drains + 1) % CounterSize \in 0 .. CounterSize - 1
      BY CountTyped DEF TypeOK, Counts
    <3> DEFINE j == IF m.kind \in Audible THEN count.jiffies + m.n ELSE count.jiffies
               n == IF m.kind = "Stream" THEN count.streams + 1 ELSE count.streams
               d == IF m.kind = "Drain" THEN (count.drains + 1) % CounterSize ELSE count.drains
               h == IF m.kind = "Halt" THEN count.halts + 1 ELSE count.halts
    <3>3. j \in Int /\ n \in Int /\ h \in Int
      BY <3>1 DEF TypeOK, Counts
    <3>4. d \in 0 .. CounterSize - 1
      BY <3>2 DEF TypeOK, Counts
    <3>5. count' = [count EXCEPT !.jiffies = j, !.streams = n, !.drains = d, !.halts = h]
      BY DEF PullerPulls
    <3> HIDE DEF j, n, d, h
    <3> QED BY <3>3, <3>4, <3>5, CountsTyped DEF TypeOK
  <2>4. iMaxJiffies' \in Sizes
    BY MsgTyped DEF PullerPulls, TypeOK
  <2> QED BY <2>1, <2>2, <2>3, <2>4 DEF PullerPulls, TypeOK
<1>2. CASE Enqueue
  <2>1. puller' \in PullerMembers
    BY <1>2 DEF Enqueue, UnlessFull, TypeOK, PullerMembers, Dropped
  <2>2. puller.msg \in Queued
    BY <1>2, MsgTyped DEF Enqueue, PlaceInv, TypeOK, PullerMembers
  <2>3. iQueue' \in Seq(Queued)
    BY <1>2, <2>2 DEF Enqueue, TypeOK
  <2> QED BY <1>2, <2>3, <2>1, <2>2 DEF Enqueue, TypeOK
<1>3. CASE Trigger
  <2>1. puller' \in PullerMembers
    BY <1>3 DEF Trigger, UnlessFull, TypeOK, PullerMembers
  <2> QED BY <1>3, <2>1 DEF Trigger, TypeOK
<1>4. CASE Wake
  <2>1. puller' \in PullerMembers
    BY <1>4 DEF Wake, UnlessFull, TypeOK, PullerMembers
  <2> QED BY <1>4, <2>1 DEF Wake, TypeOK
<1> QED BY <1>1, <1>2, <1>3, <1>4 DEF PullerSteps

LEMMA GeneratorTyped == ASSUME TypeOK, Generator PROVE TypeOK'
<1>1. CASE Ramp
  <2>1. FlyBlocks \in 0 .. FlyBlocks
    BY Bounds
  <2>2. gen' \in GeneratorMembers
    BY <1>1, <2>1 DEF Ramp, TypeOK, GeneratorMembers
  <2> QED BY <1>1, <2>2 DEF Ramp, GeneratorUnchanged, TypeOK
<1>2. CASE EndBlock
  <2>1. gen.blocks \in Nat \ {0} /\ gen.blocks - 1 \in 0 .. FlyBlocks /\ gen.iCurrentRampValue \in Volumes
    BY SMTT(20), <1>2, Bounds DEF EndBlock, TypeOK, GeneratorMembers
  <2>2. RampedDown(gen.iCurrentRampValue, gen.blocks) \in Volumes
    BY <2>1, RampTyped
  <2>3. gen' \in GeneratorMembers
    BY <1>2, <2>1, <2>2 DEF EndBlock, TypeOK, GeneratorMembers
  <2> QED BY <1>2, <2>2, <2>3 DEF EndBlock, GeneratorUnchanged, TypeOK
<1>3. CASE RampEnds
  <2>1. gen' \in GeneratorMembers
    BY <1>3 DEF RampEnds, TypeOK, GeneratorMembers
  <2> QED BY <1>3, <2>1 DEF RampEnds, GeneratorUnchanged, TypeOK
<1>4. CASE SignalEnd
  <2>1. gen' \in GeneratorMembers
    BY <1>4 DEF SignalEnd, TypeOK, GeneratorMembers
  <2> QED BY <1>4, <2>1 DEF SignalEnd, GeneratorUnchanged, TypeOK
<1> QED BY <1>1, <1>2, <1>3, <1>4 DEF Generator

LEMMA PullTyped ==
  ASSUME TypeOK, PullBlocks \/ Pull \/ OccupancyReached PROVE TypeOK'
<1>1. CASE PullBlocks
  BY <1>1, GotoTyped DEF PullBlocks, UpstreamUnchanged, RampUnchanged, TypeOK
<1>2. CASE Pull
  BY <1>2, StarveTyped DEF Pull, TypeOK
<1>3. CASE OccupancyReached
  BY <1>3, StarveTyped DEF OccupancyReached, TypeOK
<1> QED BY <1>1, <1>2, <1>3

LEMMA FlywheelTyped ==
  ASSUME TypeOK, FlywheelWait \/ FlywheelAudio PROVE TypeOK'
<1>1. CASE FlywheelWait
  <2>1. ramper' \in RamperMembers /\ animator' \in AnimatorMembers /\ heard' \in Volumes \union {Gap}
    <3>1. CASE FlywheelSilent
      BY <1>1, <3>1, WithoutTyped DEF FlywheelWait, TypeOK
    <3>2. CASE ~FlywheelSilent
      BY <1>1, <3>2, GotoTyped DEF FlywheelWait, TypeOK
    <3> QED BY <3>1, <3>2
  <2> QED BY <1>1, <2>1 DEF FlywheelWait, UpstreamUnchanged, TypeOK
<1>2. CASE FlywheelAudio
  <2>1. animator' \in AnimatorMembers
    BY <1>2, ReturnsTyped DEF FlywheelAudio, TypeOK
  <2>2. heard' \in Volumes \union {Gap} /\ iFlyQueue' \in Seq(Volumes)
    BY <1>2 DEF FlywheelAudio, TypeOK
  <2> QED BY <1>2, <2>1, <2>2 DEF FlywheelAudio, UpstreamUnchanged, TypeOK
<1> QED BY <1>1, <1>2

LEMMA DequeueTyped == ASSUME TypeOK, Dequeue PROVE TypeOK' /\ Head(iQueue) \in Queued
<1> DEFINE m == Head(iQueue)
<1>1. m \in Queued /\ iQueue' \in Seq(Queued)
  BY DEF Dequeue, TypeOK
<1>2. m.kind \in Audible => m.n \in Int
  BY <1>1, MsgTyped, Bounds DEF Audible
<1>3. animator' = [animator EXCEPT !.pc = "process", !.msg = m]
      /\ count' = [count EXCEPT !.jiffies = IF m.kind \in Audible THEN @ - m.n ELSE @,
                                !.streams = IF m.kind = "Stream" THEN @ - 1 ELSE @]
  BY DEF Dequeue
<1> HIDE DEF m
<1>4. animator' \in AnimatorMembers
  BY <1>1, <1>3 DEF TypeOK, AnimatorMembers
<1>5. count' \in Counts
  <2> DEFINE j == IF m.kind \in Audible THEN count.jiffies - m.n ELSE count.jiffies
             n == IF m.kind = "Stream" THEN count.streams - 1 ELSE count.streams
  <2>1. j \in Int /\ n \in Int
    BY <1>2 DEF TypeOK, Counts
  <2>2. count' = [count EXCEPT !.jiffies = j, !.streams = n]
    BY <1>3
  <2> HIDE DEF j, n
  <2>3. count.drains \in 0 .. CounterSize - 1 /\ count.halts \in Int
    BY DEF TypeOK, Counts
  <2> QED BY <2>1, <2>2, <2>3, CountsTyped DEF TypeOK
<1> QED BY <1>1, <1>4, <1>5 DEF Dequeue, UpstreamUnchanged, RampUnchanged, TypeOK, m

Handlers == ProcessMsgOut \/ ProcessDrain \/ ProcessSilence \/ ProcessAudio \/ Discard

LEMMA HandTyped == ASSUME TypeOK, PlaceInv, At("process") PROVE animator.msg \in Queued
  BY MsgTyped DEF TypeOK, PlaceInv, AnimatorMembers

LEMMA HandlersTyped == ASSUME TypeOK, PlaceInv, Handlers PROVE TypeOK'
<1>0. At("process") /\ animator.msg \in Queued
  BY HandTyped DEF Handlers, ProcessMsgOut, ProcessDrain, ProcessSilence, ProcessAudio, Discard
<1>1. CASE ProcessMsgOut
  <2> DEFINE m == animator.msg
  <2>1. animator' \in AnimatorMembers
    BY <1>0, <1>1, ProcessedTyped DEF ProcessMsgOut, TypeOK
  <2>2. ramper' \in RamperMembers
    <3>1. Full \in Volumes
      BY Bounds
    <3>2. CASE m.kind = "Track"
      BY <1>1, <3>2 DEF ProcessMsgOut, TypeOK, RamperMembers
    <3>3. CASE m.kind = "Stream"
      BY <1>1, <3>1, <3>3 DEF ProcessMsgOut, TypeOK, RamperMembers
    <3>4. CASE m.kind = "Halt"
      BY <1>1, <3>4 DEF ProcessMsgOut, TypeOK, RamperMembers
    <3>5. CASE m.kind \notin {"Track", "Stream", "Halt"}
      BY <1>1, <3>5 DEF ProcessMsgOut, TypeOK
    <3> QED BY <3>2, <3>3, <3>4, <3>5
  <2>3. count' \in Counts
    BY <1>1 DEF ProcessMsgOut, TypeOK, Counts
  <2> QED BY <1>1, <2>1, <2>2, <2>3 DEF ProcessMsgOut, UpstreamUnchanged, RampUnchanged, TypeOK
<1>2. CASE ProcessDrain
  <2>1. count' \in Counts
    <3>1. (count.drains + CounterSize - 1) % CounterSize \in 0 .. CounterSize - 1
      BY CountTyped DEF TypeOK, Counts
    <3> QED BY <1>2, <3>1 DEF ProcessDrain, TypeOK, Counts
  <2> DEFINE drained == [ramper EXCEPT !.iDraining = FALSE]
  <2>2. drained \in RamperMembers
    BY DEF TypeOK, RamperMembers
  <2>3. animator' \in AnimatorMembers
    BY <1>0, <1>2, ProcessedTyped DEF ProcessDrain, TypeOK
  <2> HIDE DEF drained
  <2>4. CASE Loud
    <3>1. FlywheelRamp(drained) /\ iQueue' = <<animator.msg>> \o iQueue
      BY <1>2, <2>4 DEF ProcessDrain, drained
    <3>2. /\ ramper' \in RamperMembers /\ gen' \in GeneratorMembers /\ source' \in SourceMembers
          /\ iActive' = TRUE /\ iFlySem' = 0 /\ iFlyQueue' = iFlyQueue
      BY <2>2, <3>1, StartTyped DEF TypeOK
    <3>3. iQueue' \in Seq(Queued)
      BY <1>0, <3>1 DEF TypeOK
    <3> QED BY <1>2, <2>1, <2>3, <3>2, <3>3 DEF ProcessDrain, TypeOK
  <2>5. CASE ~Loud
    BY <1>2, <2>1, <2>2, <2>3, <2>5 DEF ProcessDrain, RampUnchanged, TypeOK, drained
  <2> QED BY <2>4, <2>5
<1>3. CASE ProcessSilence
  <2>1. animator.msg.n \in Int /\ iQueue' \in Seq(Queued)
    BY <1>0, <1>3, MsgTyped, RestTyped DEF ProcessSilence, TypeOK, Audible
  <2>2. animator' \in AnimatorMembers
    BY <1>3, PieceTyped, ProcessedTyped DEF ProcessSilence, TypeOK
  <2>3. count' \in Counts
    <3>1. count.jiffies + animator.msg.n - 1 \in Int /\ count.streams \in Int /\ count.halts \in Int
          /\ count.drains \in 0 .. CounterSize - 1
      BY <2>1 DEF TypeOK, Counts
    <3>2. count' = [count EXCEPT !.jiffies = count.jiffies + animator.msg.n - 1]
      BY <1>3 DEF ProcessSilence
    <3> QED BY <3>1, <3>2, CountsTyped DEF TypeOK
  <2>4. ramper' \in RamperMembers
    BY <1>3 DEF ProcessSilence, TypeOK, RamperMembers
  <2> QED BY <1>3, <2>1, <2>2, <2>3, <2>4 DEF ProcessSilence, UpstreamUnchanged, RampUnchanged, TypeOK
<1>4. CASE ProcessAudio
  <2>1. animator.msg.n \in Int /\ iQueue' \in Seq(Queued)
    BY <1>0, <1>4, MsgTyped, RestTyped DEF ProcessAudio, TypeOK, Audible
  <2>2. animator' \in AnimatorMembers
    BY <1>4, PieceTyped, ProcessedTyped DEF ProcessAudio, TypeOK
  <2>3. count' \in Counts
    <3>1. count.jiffies + animator.msg.n - 1 \in Int /\ count.streams \in Int /\ count.halts \in Int
          /\ count.drains \in 0 .. CounterSize - 1
      BY <2>1 DEF TypeOK, Counts
    <3>2. count' = [count EXCEPT !.jiffies = count.jiffies + animator.msg.n - 1]
      BY <1>4 DEF ProcessAudio
    <3> QED BY <3>1, <3>2, CountsTyped DEF TypeOK
  <2>4. ramper' \in RamperMembers /\ heard' \in Volumes
    <3>1. CASE ramper.iState = "RampingUp" /\ ramper.iRemainingRampSize > 0
      <4> DEFINE end == RampedUp(ramper.iCurrentRampValue, ramper.iRemainingRampSize)
      <4>1. end \in Volumes /\ ramper.iRemainingRampSize - 1 \in 0 .. RampUp
        <5>1. ramper.iCurrentRampValue \in Volumes /\ ramper.iRemainingRampSize \in 0 .. RampUp
          BY DEF TypeOK, RamperMembers
        <5>2. ramper.iRemainingRampSize \in Nat \ {0} /\ ramper.iRemainingRampSize - 1 \in 0 .. RampUp
          BY <3>1, <5>1, Bounds
        <5> QED BY <5>1, <5>2, RampTyped
      <4>2. /\ ramper' = [ramper EXCEPT !.iCurrentRampValue = end, !.iRemainingRampSize = @ - 1,
                                        !.iState = IF ramper.iRemainingRampSize = 1 THEN "Running" ELSE @]
            /\ heard' = end
        BY <1>4, <3>1 DEF ProcessAudio
      <4> HIDE DEF end
      <4> QED BY <4>1, <4>2 DEF TypeOK, RamperMembers
    <3>2. CASE ~(ramper.iState = "RampingUp" /\ ramper.iRemainingRampSize > 0)
      BY <1>4, <3>2, Bounds DEF ProcessAudio, TypeOK, RamperMembers
    <3> QED BY <3>1, <3>2
  <2> QED BY <1>4, <2>1, <2>2, <2>3, <2>4 DEF ProcessAudio, UpstreamUnchanged, RampUnchanged, TypeOK
<1>5. CASE Discard
  <2>1. animator' \in AnimatorMembers
    BY <1>5, ProcessedTyped DEF Discard, TypeOK
  <2> QED BY <1>5, <2>1 DEF Discard, UpstreamUnchanged, RampUnchanged, TypeOK
<1> QED BY <1>1, <1>2, <1>3, <1>4, <1>5 DEF Handlers

LEMMA EndTyped ==
  ASSUME TypeOK, Signal \/ PullAgain \/ WaitForOccupancy \/ OccupancyAwaited \/ DrainAllAudio
  PROVE  TypeOK'
<1>1. CASE Signal
  <2>1. ramper' \in RamperMembers /\ animator' \in AnimatorMembers /\ heard' \in Volumes \union {Gap}
    BY <1>1, TryTyped, ReturnsTyped DEF Signal, TypeOK
  <2>2. source' \in SourceMembers
    BY <1>1 DEF Signal, TypeOK, SourceMembers
  <2> QED BY <1>1, <2>1, <2>2 DEF Signal, RampUnchanged, TypeOK
<1>2. CASE PullAgain
  BY <1>2, GotoTyped DEF PullAgain, UpstreamUnchanged, RampUnchanged, TypeOK
<1>3. CASE WaitForOccupancy
  BY <1>3, GotoTyped DEF WaitForOccupancy, UpstreamUnchanged, RampUnchanged, TypeOK
<1>4. CASE OccupancyAwaited
  <2>1. animator' \in AnimatorMembers
    BY <1>4 DEF OccupancyAwaited, Held, TypeOK, AnimatorMembers
  <2> QED BY <1>4, <2>1 DEF OccupancyAwaited, UpstreamUnchanged, RampUnchanged, TypeOK
<1>5. CASE DrainAllAudio
  BY <1>5 DEF DrainAllAudio, TypeOK
<1> QED BY <1>1, <1>2, <1>3, <1>4, <1>5

LEMMA Steps ==
  ASSUME [Next]_vars
  PROVE  \/ (\E m \in Queued : PullerPulls(m)) \/ PullerSteps
         \/ Generator
         \/ PullBlocks \/ Pull \/ OccupancyReached
         \/ FlywheelWait \/ FlywheelAudio
         \/ Dequeue
         \/ Handlers
         \/ Signal \/ PullAgain \/ WaitForOccupancy \/ OccupancyAwaited \/ DrainAllAudio
         \/ UNCHANGED vars
  BY DEF Next, Animator, Handlers

LEMMA TypeStep == TypeOK /\ PlaceInv /\ [Next]_vars => TypeOK'
<1> SUFFICES ASSUME TypeOK, PlaceInv, [Next]_vars PROVE TypeOK'
  OBVIOUS
<1>1. CASE UNCHANGED vars
  BY <1>1 DEF vars, TypeOK
<1> QED BY <1>1, Steps, PullerTyped, GeneratorTyped, PullTyped, FlywheelTyped, DequeueTyped, HandlersTyped, EndTyped

-----------------------------------------------------------------------------
(* The animator, its volume and the flywheel ramp.                         *)

VolumeInv == PlaceInv /\ HeardInv /\ DryInv /\ DrainsAreQuiet

LEMMA StartEffect ==
  ASSUME NEW r \in RamperMembers, gen \in GeneratorMembers, FlywheelRamp(r)
  PROVE  /\ ramper'.iState = "FlywheelRamping" /\ ramper'.iCurrentRampValue = r.iCurrentRampValue
         /\ gen'.pc = gen.pc /\ gen'.woken = TRUE /\ iActive' = TRUE /\ iFlyQueue' = iFlyQueue
  BY DEF FlywheelRamp, RamperMembers, GeneratorMembers

LEMMA RampingUpEffect ==
  ASSUME NEW r \in RamperMembers
  PROVE  /\ RampingUp(r).iState = "RampingUp" /\ RampingUp(r).iCurrentRampValue = Min
         /\ RampingUp(r).iRemainingRampSize > 0 /\ RampingUp(r).cut = FALSE
  BY Bounds DEF RampingUp, RamperMembers

LEMMA GotoEffect ==
  ASSUME animator \in AnimatorMembers, NEW pc, Goto(pc)
  PROVE  animator'.pc = pc /\ animator'.msg = animator.msg /\ animator'.dropped = animator.dropped
  BY DEF Goto, AnimatorMembers
LEMMA ReturnsEffect ==
  ASSUME animator \in AnimatorMembers, NEW kind, Returns(kind)
  PROVE  animator'.pc \in {"top", "adjust"} /\ animator'.msg = Dropped
  BY DEF Returns, AnimatorMembers
LEMMA ProcessedEffect ==
  ASSUME animator \in AnimatorMembers, NEW m, Processed(m)
  PROVE  animator'.pc = "wake" /\ animator'.msg = m /\ (m = Dropped => animator'.dropped)
  BY DEF Processed, AnimatorMembers

LEMMA TryEffect ==
  ASSUME NEW r \in RamperMembers, animator \in AnimatorMembers, TryGetAudio(r)
  PROVE  \/ /\ ~FlywheelSilent /\ Goto("fly") /\ ramper' = r /\ heard' = heard
         \/ /\ FlywheelSilent /\ r.iState = "FlywheelRamping" /\ ramper' = RampingUp(r) /\ heard' = Gap
            /\ animator'.pc \in {"top", "adjust"} /\ animator'.msg = Dropped
         \/ /\ FlywheelSilent /\ r.iState # "FlywheelRamping" /\ Goto("dequeue") /\ ramper' = r /\ heard' = heard
  BY ReturnsEffect DEF TryGetAudio, WithoutFlywheel

LEMMA DrainingEffect ==
  ASSUME ramper \in RamperMembers
  PROVE  /\ Draining.iState = ramper.iState /\ Draining.iCurrentRampValue = ramper.iCurrentRampValue
         /\ Draining.iRemainingRampSize = ramper.iRemainingRampSize /\ Draining.cut = ramper.cut
  BY DEF Draining, RamperMembers

LEMMA LoudIdle ==
  ASSUME PlaceInv, Loud
  PROVE  FlywheelSilent /\ gen.pc # "ramp" /\ ~gen.woken /\ ramper.iState # "FlywheelRamping"
  BY DEF PlaceInv, Loud, FlywheelSilent

(* With a ramper that differs at most in iDraining, HeardInv is kept.      *)
SameRamp == /\ ramper'.iState = ramper.iState /\ ramper'.iCurrentRampValue = ramper.iCurrentRampValue
            /\ ramper'.iRemainingRampSize = ramper.iRemainingRampSize /\ ramper'.cut = ramper.cut
LEMMA SameHeard == ASSUME HeardInv, SameRamp, heard' = heard PROVE HeardInv' /\ (Loud <=> Loud')
  BY DEF HeardInv, SameRamp, Loud
LEMMA StartHeard == ASSUME ramper'.iState = "FlywheelRamping" PROVE HeardInv' /\ ~Loud'
  BY DEF HeardInv, Loud
LEMMA RampingUpHeard ==
  ASSUME NEW r \in RamperMembers, ramper' = RampingUp(r), heard' = Gap
  PROVE  HeardInv' /\ ~Loud' /\ ramper'.iState = "RampingUp"
  BY RampingUpEffect DEF HeardInv, Loud

(* What is not loud, and not ramping down, has been heard to the end.      *)
LEMMA QuietUnlessLoud ==
  ASSUME TypeOK, HeardInv, ~Loud, ramper.iState # "FlywheelRamping" PROVE heard \in {Gap, Min}
  BY DEF HeardInv, Loud, TypeOK, RamperMembers

LEMMA PullerVolume ==
  ASSUME TypeOK, VolumeInv, (\E m \in Queued : PullerPulls(m)) \/ PullerSteps
  PROVE  VolumeInv'
<1>1. UNCHANGED <<animator, ramper, gen, iActive, iFlyQueue, heard>>
  BY DEF PullerPulls, PullerSteps, Enqueue, Trigger, Wake
<1>2. (iQueue' = << >> => iQueue = << >>) /\ (~puller'.iExit => ~puller.iExit)
  <2>1. CASE \E m \in Queued : PullerPulls(m)
    BY <2>1 DEF PullerPulls, TypeOK, PullerMembers
  <2>2. CASE Enqueue
    BY <2>2 DEF Enqueue, TypeOK, PullerMembers
  <2>3. CASE Trigger \/ Wake
    BY <2>3 DEF Trigger, Wake, TypeOK, PullerMembers
  <2> QED BY <2>1, <2>2, <2>3 DEF PullerSteps
<1>3. puller'.pc = "enqueue" <=> puller'.msg # Dropped
  <2>1. CASE \E m \in Queued : PullerPulls(m)
    <3> PICK m \in Queued : PullerPulls(m)
      BY <2>1
    <3>1. m # Dropped
      BY MsgTyped DEF Queued, Dropped, Msg
    <3> QED BY <3>1 DEF PullerPulls, TypeOK, PullerMembers
  <2>2. CASE Enqueue
    BY <2>2 DEF Enqueue, UnlessFull, TypeOK, PullerMembers
  <2>3. CASE Trigger \/ Wake
    BY <2>3 DEF Trigger, Wake, UnlessFull, TypeOK, PullerMembers, VolumeInv, PlaceInv
  <2> QED BY <2>1, <2>2, <2>3 DEF PullerSteps
<1>4. PlaceInv'
  BY <1>1, <1>3 DEF VolumeInv, PlaceInv, At, Flying, FlywheelSilent
<1>5. HeardInv' /\ DrainsAreQuiet'
  BY <1>1 DEF VolumeInv, HeardInv, DrainsAreQuiet, At
<1>6. DryInv'
  BY <1>1, <1>2 DEF VolumeInv, DryInv, At, Loud
<1> QED BY <1>4, <1>5, <1>6 DEF VolumeInv

LEMMA GeneratorVolume == ASSUME TypeOK, VolumeInv, Generator PROVE VolumeInv'
<1>1. UNCHANGED <<animator, ramper, puller, iQueue, heard>>
  BY DEF Generator, Ramp, EndBlock, RampEnds, SignalEnd, GeneratorUnchanged
<1>2. HeardInv' /\ DrainsAreQuiet' /\ DryInv'
  BY <1>1 DEF VolumeInv, HeardInv, DrainsAreQuiet, DryInv, At, Loud
<1>3. /\ gen'.pc = "ramp" \/ gen'.woken => iActive'
      /\ ~(gen'.pc = "ramp" /\ gen'.woken)
      /\ ~FlywheelSilent' => ~FlywheelSilent
  <2>1. CASE Ramp
    BY <2>1 DEF Ramp, VolumeInv, PlaceInv, FlywheelSilent, TypeOK, GeneratorMembers
  <2>2. CASE EndBlock
    BY <2>2 DEF EndBlock, VolumeInv, PlaceInv, FlywheelSilent, TypeOK, GeneratorMembers
  <2>3. CASE RampEnds
    BY <2>3 DEF RampEnds, VolumeInv, PlaceInv, FlywheelSilent, TypeOK, GeneratorMembers
  <2>4. CASE SignalEnd
    BY <2>4 DEF SignalEnd, VolumeInv, PlaceInv, FlywheelSilent, TypeOK, GeneratorMembers
  <2> QED BY <2>1, <2>2, <2>3, <2>4 DEF Generator
<1>4. PlaceInv'
  BY <1>1, <1>3 DEF VolumeInv, PlaceInv, At, Flying
<1> QED BY <1>2, <1>4 DEF VolumeInv

(* TryGetAudio with the ramper as it is, or set to drain, and no message in *)
(* hand.                                                                    *)
LEMMA TryVolume ==
  ASSUME TypeOK, VolumeInv, NEW r \in RamperMembers, TryGetAudio(r), RampUnchanged,
         UNCHANGED <<puller, iQueue>>,
         animator.msg = Dropped,
         r.iState = ramper.iState /\ r.iCurrentRampValue = ramper.iCurrentRampValue
         /\ r.iRemainingRampSize = ramper.iRemainingRampSize /\ r.cut = ramper.cut,
         iQueue = << >> /\ ~puller.iExit /\ ~animator.dropped => ~Loud
  PROVE  VolumeInv'
<1>0. UNCHANGED <<gen, iActive, iFlyQueue>> /\ (FlywheelSilent <=> FlywheelSilent')
  BY DEF RampUnchanged, FlywheelSilent
<1>1. CASE ~FlywheelSilent /\ Goto("fly") /\ ramper' = r /\ heard' = heard
  <2>1. animator'.pc = "fly" /\ animator'.msg = Dropped /\ SameRamp
    BY <1>1, GotoEffect DEF SameRamp, TypeOK
  <2>2. HeardInv' /\ DrainsAreQuiet' /\ DryInv'
    BY <1>1, <2>1, SameHeard DEF VolumeInv, DrainsAreQuiet, DryInv, At
  <2>3. PlaceInv'
    BY <1>0, <1>1, <2>1 DEF VolumeInv, PlaceInv, At, Flying, SameRamp
  <2> QED BY <2>2, <2>3 DEF VolumeInv
<1>2. CASE /\ FlywheelSilent /\ r.iState = "FlywheelRamping" /\ ramper' = RampingUp(r) /\ heard' = Gap
           /\ animator'.pc \in {"top", "adjust"} /\ animator'.msg = Dropped
  <2>1. HeardInv' /\ DrainsAreQuiet' /\ DryInv'
    BY <1>2, RampingUpHeard DEF DrainsAreQuiet, DryInv, At
  <2>2. PlaceInv'
    BY <1>0, <1>2 DEF VolumeInv, PlaceInv, At, Flying
  <2> QED BY <2>1, <2>2 DEF VolumeInv
<1>3. CASE FlywheelSilent /\ r.iState # "FlywheelRamping" /\ Goto("dequeue") /\ ramper' = r /\ heard' = heard
  <2>1. animator'.pc = "dequeue" /\ animator'.msg = Dropped /\ animator'.dropped = animator.dropped /\ SameRamp
    BY <1>3, GotoEffect DEF SameRamp, TypeOK
  <2>2. HeardInv' /\ DrainsAreQuiet' /\ DryInv'
    BY <1>3, <2>1, SameHeard DEF VolumeInv, DrainsAreQuiet, DryInv, At
  <2>3. PlaceInv'
    BY <1>0, <1>3, <2>1 DEF VolumeInv, PlaceInv, At, Flying, SameRamp
  <2> QED BY <2>2, <2>3 DEF VolumeInv
<1> QED BY <1>1, <1>2, <1>3, TryEffect DEF TypeOK

LEMMA StarveVolume ==
  ASSUME TypeOK, VolumeInv, Starve, UNCHANGED <<puller, iQueue>>, animator.msg = Dropped
  PROVE  VolumeInv'
<1>1. Draining \in RamperMembers
  BY DrainingTyped DEF TypeOK
<1>2. CASE Loud /\ FlywheelRamp(Draining) /\ Goto("fly") /\ UNCHANGED heard
  <2>1. /\ animator'.pc = "fly" /\ animator'.msg = Dropped
        /\ ramper'.iState = "FlywheelRamping" /\ gen'.pc = gen.pc /\ iActive' = TRUE /\ gen.pc # "ramp"
    BY <1>1, <1>2, GotoEffect, StartEffect, LoudIdle DEF TypeOK, VolumeInv
  <2>2. HeardInv' /\ DrainsAreQuiet' /\ DryInv'
    BY <2>1, StartHeard DEF DrainsAreQuiet, DryInv, At
  <2>3. PlaceInv'
    BY <2>1 DEF VolumeInv, PlaceInv, At, Flying
  <2> QED BY <2>2, <2>3 DEF VolumeInv
<1>3. CASE (iQueue = << >> => ~Loud \/ puller.iExit) /\ TryGetAudio(Draining) /\ RampUnchanged
  BY <1>1, <1>3, TryVolume, DrainingEffect DEF TypeOK
<1> QED BY <1>2, <1>3, StarveCases

LEMMA PullVolume ==
  ASSUME TypeOK, VolumeInv, PullBlocks \/ Pull \/ OccupancyReached PROVE VolumeInv'
<1>0. animator.msg = Dropped
  BY DEF PullBlocks, Pull, OccupancyReached, VolumeInv, PlaceInv, At
<1>1. CASE PullBlocks
  <2>1. animator'.pc = "occupancy" /\ animator'.msg = Dropped
        /\ UNCHANGED <<iQueue, ramper, heard, puller, gen, iActive, iFlyQueue>>
    BY <1>0, <1>1, GotoEffect DEF PullBlocks, UpstreamUnchanged, RampUnchanged, TypeOK
  <2> QED BY <2>1 DEF VolumeInv, PlaceInv, HeardInv, DryInv, DrainsAreQuiet, At, Flying, FlywheelSilent
<1>2. CASE Pull
  BY <1>0, <1>2, StarveVolume DEF Pull
<1>3. CASE OccupancyReached
  BY <1>0, <1>3, StarveVolume DEF OccupancyReached
<1> QED BY <1>1, <1>2, <1>3

LEMMA FlywheelVolume ==
  ASSUME TypeOK, VolumeInv, FlywheelWait \/ FlywheelAudio PROVE VolumeInv'
<1>1. animator.msg = Dropped /\ ramper.iState = "FlywheelRamping" /\ puller' = puller
  BY DEF FlywheelWait, FlywheelAudio, UpstreamUnchanged, VolumeInv, PlaceInv, At, Flying
<1>2. CASE FlywheelWait
  <2>0. UNCHANGED <<gen, iActive, iFlyQueue, puller>> /\ (FlywheelSilent <=> FlywheelSilent')
    BY <1>2 DEF FlywheelWait, UpstreamUnchanged, FlywheelSilent
  <2>1. CASE FlywheelSilent
    <3>1. ramper' = RampingUp(ramper) /\ heard' = Gap /\ animator'.pc \in {"top", "adjust"} /\ animator'.msg = Dropped
      BY <1>1, <1>2, <2>1, ReturnsEffect DEF FlywheelWait, WithoutFlywheel, TypeOK
    <3>2. HeardInv' /\ ramper'.iState = "RampingUp"
      BY <3>1, RampingUpHeard DEF TypeOK
    <3> QED BY <2>0, <2>1, <3>1, <3>2 DEF VolumeInv, PlaceInv, DryInv, DrainsAreQuiet, At, Flying
  <2>2. CASE ~FlywheelSilent
    <3>1. animator'.pc = "flyaudio" /\ animator'.msg = Dropped /\ UNCHANGED <<ramper, heard>>
      BY <1>1, <1>2, <2>2, GotoEffect DEF FlywheelWait, TypeOK
    <3> QED BY <1>1, <2>0, <3>1 DEF VolumeInv, PlaceInv, HeardInv, DryInv, DrainsAreQuiet, At, Flying
  <2> QED BY <2>1, <2>2
<1>3. CASE FlywheelAudio
  <2>1. animator'.pc \in {"top", "adjust"} /\ animator'.msg = Dropped /\ UNCHANGED <<ramper, gen, iActive>>
    BY <1>3, ReturnsEffect DEF FlywheelAudio, TypeOK
  <2> QED BY <1>1, <2>1 DEF VolumeInv, PlaceInv, HeardInv, DryInv, DrainsAreQuiet, At, Flying
<1> QED BY <1>2, <1>3

LEMMA DequeueVolume == ASSUME TypeOK, VolumeInv, Dequeue PROVE VolumeInv'
<1>1. animator'.pc = "process" /\ animator'.msg = Head(iQueue)
      /\ UNCHANGED <<ramper, heard, puller, gen, iActive, iFlyQueue>>
  BY DEF Dequeue, UpstreamUnchanged, RampUnchanged, TypeOK, AnimatorMembers
<1>2. animator'.msg # Dropped
  BY <1>1, DequeueTyped DEF Queued, Dropped, Msg
<1> QED BY <1>1, <1>2 DEF Dequeue, VolumeInv, PlaceInv, HeardInv, DryInv, DrainsAreQuiet, At, Flying, FlywheelSilent

LEMMA HandlersVolume == ASSUME TypeOK, VolumeInv, OrderInv, Handlers PROVE VolumeInv'
<1>0. /\ At("process") /\ ramper.iState # "FlywheelRamping" /\ FlywheelSilent
      /\ puller' = puller /\ animator.msg \in Queued
  BY HandTyped DEF Handlers, ProcessMsgOut, ProcessDrain, ProcessSilence, ProcessAudio, Discard,
     UpstreamUnchanged, VolumeInv, PlaceInv
<1>1. animator'.pc = "wake" /\ (animator'.msg = Dropped => animator'.dropped)
  BY ProcessedEffect DEF Handlers, ProcessMsgOut, ProcessDrain, ProcessSilence, ProcessAudio, Discard, TypeOK
<1>2. ASSUME RampUnchanged, ramper'.iState # "FlywheelRamping" PROVE PlaceInv' /\ DryInv'
  BY <1>0, <1>1, <1>2 DEF VolumeInv, PlaceInv, DryInv, RampUnchanged, At, Flying, FlywheelSilent
<1>3. CASE ProcessMsgOut
  <2> DEFINE m == animator.msg
  <2>1. animator'.msg # Dropped => animator'.msg = m
    BY <1>3, ProcessedEffect DEF ProcessMsgOut, TypeOK
  <2>2. animator'.msg.kind # "Drain"
    BY <1>3, <2>1 DEF ProcessMsgOut, Dropped, Msg
  <2>3. HeardInv' /\ ramper'.iState # "FlywheelRamping"
    <3>1. CASE m.kind \in {"Track", "Stream"}
      <4>1. ramper'.iState = "Starting" /\ heard' = Gap
        BY <1>3, <3>1 DEF ProcessMsgOut, TypeOK, RamperMembers
      <4> QED BY <4>1 DEF HeardInv
    <3>2. CASE m.kind = "Halt"
      <4>1. ramper'.iState = "Halted" /\ heard' = Gap
        BY <1>3, <3>2 DEF ProcessMsgOut, TypeOK, RamperMembers
      <4> QED BY <4>1 DEF HeardInv
    <3>3. CASE m.kind \notin {"Track", "Stream", "Halt"}
      BY <1>0, <1>3, <3>3 DEF ProcessMsgOut, VolumeInv, HeardInv
    <3> QED BY <3>1, <3>2, <3>3
  <2> QED BY <1>1, <1>2, <1>3, <2>2, <2>3 DEF ProcessMsgOut, VolumeInv, DrainsAreQuiet
<1>4. CASE ProcessDrain
  <2> DEFINE drained == [ramper EXCEPT !.iDraining = FALSE]
  <2>1. drained \in RamperMembers /\ drained.iState = ramper.iState
        /\ drained.iCurrentRampValue = ramper.iCurrentRampValue
        /\ drained.iRemainingRampSize = ramper.iRemainingRampSize /\ drained.cut = ramper.cut
    BY DEF TypeOK, RamperMembers
  <2> HIDE DEF drained
  <2>2. CASE Loud
    <3>1. FlywheelRamp(drained) /\ Processed(Dropped)
      BY <1>4, <2>2 DEF ProcessDrain, drained
    <3>2. ramper'.iState = "FlywheelRamping" /\ gen'.pc = gen.pc /\ iActive' = TRUE /\ gen.pc # "ramp"
      BY <2>1, <2>2, <3>1, StartEffect, LoudIdle DEF TypeOK, VolumeInv
    <3>3. animator'.msg = Dropped
      BY <3>1, ProcessedEffect DEF TypeOK
    <3>4. HeardInv'
      BY <3>2, StartHeard
    <3> QED BY <1>0, <1>1, <3>2, <3>3, <3>4 DEF VolumeInv, PlaceInv, DryInv, DrainsAreQuiet, At, Flying, Dropped, Msg
  <2>3. CASE ~Loud
    <3>1. ramper' = drained /\ heard' = heard /\ RampUnchanged
      BY <1>4, <2>3 DEF ProcessDrain, drained
    <3>2. HeardInv' /\ ramper'.iState # "FlywheelRamping"
      BY <1>0, <2>1, <3>1, SameHeard DEF SameRamp, VolumeInv
    <3>3. heard \in {Gap, Min}
      BY <1>0, <2>3, QuietUnlessLoud DEF VolumeInv
    <3> QED BY <1>2, <3>1, <3>2, <3>3 DEF VolumeInv, DrainsAreQuiet
  <2> QED BY <2>2, <2>3
<1>5. CASE ProcessSilence
  <2>1. animator'.msg.kind # "Drain"
    BY <1>5, ProcessedEffect DEF ProcessSilence, TypeOK, Msg
  <2>2. HeardInv' /\ ramper'.iState # "FlywheelRamping"
    BY <1>0, <1>5 DEF ProcessSilence, VolumeInv, HeardInv, TypeOK, RamperMembers
  <2> QED BY <1>2, <1>5, <2>1, <2>2 DEF ProcessSilence, VolumeInv, DrainsAreQuiet
<1>6. CASE Discard
  <2>1. animator'.msg.kind # "Drain"
    BY <1>6, ProcessedEffect DEF Discard, TypeOK, Dropped, Msg
  <2>2. HeardInv' /\ ramper'.iState # "FlywheelRamping"
    BY <1>0, <1>6 DEF Discard, VolumeInv, HeardInv
  <2> QED BY <1>2, <1>6, <2>1, <2>2 DEF Discard, VolumeInv, DrainsAreQuiet
<1>7. CASE ProcessAudio
  <2>1. animator'.msg.kind # "Drain"
    BY <1>7, ProcessedEffect DEF ProcessAudio, TypeOK, Msg
  <2>2. HeardInv' /\ ramper'.iState # "FlywheelRamping"
    <3>1. CASE ramper.iState = "RampingUp"
      <4> DEFINE v == ramper.iCurrentRampValue
                 n == ramper.iRemainingRampSize
                 end == RampedUp(v, n)
      <4>1. n \in Nat \ {0} /\ v \in Volumes /\ ~ramper.cut
        BY <3>1 DEF VolumeInv, HeardInv, TypeOK, RamperMembers
      <4>2. /\ ramper' = [ramper EXCEPT !.iCurrentRampValue = end, !.iRemainingRampSize = n - 1,
                                        !.iState = IF n = 1 THEN "Running" ELSE @]
            /\ heard' = end
        BY <1>7, <3>1, <4>1 DEF ProcessAudio
      <4>3. n = 1 => end = Full
        BY <4>1, WholeRamp
      <4> HIDE DEF n, end
      <4>4. /\ ramper'.iState = (IF n = 1 THEN "Running" ELSE "RampingUp") /\ ramper'.iCurrentRampValue = end
            /\ ramper'.iRemainingRampSize = n - 1 /\ ramper'.cut = ramper.cut
        BY <3>1, <4>2 DEF TypeOK, RamperMembers
      <4>5. n # 1 => n - 1 > 0
        BY <4>1
      <4> QED BY <4>1, <4>2, <4>3, <4>4, <4>5 DEF HeardInv
    <3>2. CASE ramper.iState # "RampingUp"
      <4>1. /\ ramper'.iState = "Running" /\ ramper'.iCurrentRampValue = ramper.iCurrentRampValue
            /\ ramper'.cut = ramper.cut /\ heard' = Full
        BY <1>0, <1>7, <3>2 DEF ProcessAudio, TypeOK, RamperMembers
      <4>2. ramper.iCurrentRampValue = Full \/ ramper.cut
        BY <1>0, <1>7, <3>2 DEF ProcessAudio, OrderInv, Stale, VolumeInv, HeardInv, TypeOK, RamperMembers, Audible
      <4> QED BY <4>1, <4>2 DEF HeardInv
    <3> QED BY <3>1, <3>2
  <2> QED BY <1>2, <1>7, <2>1, <2>2 DEF ProcessAudio, VolumeInv, DrainsAreQuiet
<1> QED BY <1>3, <1>4, <1>5, <1>6, <1>7 DEF Handlers

LEMMA EndVolume ==
  ASSUME TypeOK, VolumeInv, Signal \/ PullAgain \/ WaitForOccupancy \/ OccupancyAwaited \/ DrainAllAudio
  PROVE  VolumeInv'
<1>1. CASE Signal
  <2>0. UNCHANGED <<gen, iActive, iFlyQueue, puller, iQueue>> /\ (FlywheelSilent <=> FlywheelSilent')
    BY <1>1 DEF Signal, RampUnchanged, FlywheelSilent
  <2>1. CASE animator.msg # Dropped
    <3>1. animator'.pc \in {"top", "adjust"} /\ animator'.msg = Dropped /\ UNCHANGED <<ramper, heard>>
      BY <1>1, <2>1, ReturnsEffect DEF Signal, TypeOK
    <3> QED BY <2>0, <2>1, <3>1 DEF VolumeInv, PlaceInv, HeardInv, DryInv, DrainsAreQuiet, At, Flying
  <2>2. CASE animator.msg = Dropped
    <3>1. TryGetAudio(ramper)
      BY <1>1, <2>2 DEF Signal
    <3>2. CASE ~FlywheelSilent /\ Goto("fly") /\ ramper' = ramper /\ heard' = heard
      <4>1. animator'.pc = "fly" /\ animator'.msg = Dropped
        BY <2>2, <3>2, GotoEffect DEF TypeOK
      <4> QED BY <2>0, <3>2, <4>1 DEF VolumeInv, PlaceInv, HeardInv, DryInv, DrainsAreQuiet, At, Flying
    <3>3. CASE /\ FlywheelSilent /\ ramper.iState = "FlywheelRamping" /\ ramper' = RampingUp(ramper) /\ heard' = Gap
               /\ animator'.pc \in {"top", "adjust"} /\ animator'.msg = Dropped
      <4>1. HeardInv'
        BY <3>3, RampingUpHeard DEF TypeOK
      <4> QED BY <2>0, <3>3, <4>1 DEF VolumeInv, PlaceInv, DryInv, DrainsAreQuiet, At, Flying
    <3>4. CASE FlywheelSilent /\ ramper.iState # "FlywheelRamping" /\ Goto("dequeue") /\ ramper' = ramper /\ heard' = heard
      <4>1. animator'.pc = "dequeue" /\ animator'.msg = Dropped /\ animator'.dropped = animator.dropped
        BY <2>2, <3>4, GotoEffect DEF TypeOK
      <4>2. animator.dropped
        BY <1>1, <2>2 DEF Signal, VolumeInv, PlaceInv
      <4> QED BY <2>0, <3>4, <4>1, <4>2 DEF VolumeInv, PlaceInv, HeardInv, DryInv, DrainsAreQuiet, At, Flying
    <3> QED BY <3>1, <3>2, <3>3, <3>4, TryEffect DEF TypeOK
  <2> QED BY <2>1, <2>2
<1>2. CASE PullAgain \/ WaitForOccupancy \/ OccupancyAwaited
  <2>1. /\ animator'.pc \in {"top", "confirm"} /\ animator'.msg = animator.msg /\ animator.msg = Dropped
        /\ UNCHANGED <<iQueue, ramper, heard, puller, gen, iActive, iFlyQueue>>
    BY <1>2, GotoEffect DEF PullAgain, WaitForOccupancy, OccupancyAwaited, UpstreamUnchanged, RampUnchanged,
       VolumeInv, PlaceInv, At, TypeOK, AnimatorMembers
  <2> QED BY <2>1 DEF VolumeInv, PlaceInv, HeardInv, DryInv, DrainsAreQuiet, At, Flying, FlywheelSilent
<1>3. CASE DrainAllAudio
  BY <1>3 DEF DrainAllAudio, VolumeInv, PlaceInv, HeardInv, DryInv, DrainsAreQuiet, At, Flying, FlywheelSilent, Loud
<1> QED BY <1>1, <1>2, <1>3

LEMMA VolumeStep == IInv /\ [Next]_vars => VolumeInv'
<1> SUFFICES ASSUME IInv, [Next]_vars PROVE VolumeInv'
  OBVIOUS
<1>1. CASE UNCHANGED vars
  BY <1>1 DEF vars, IInv, VolumeInv, PlaceInv, HeardInv, DryInv, DrainsAreQuiet, At, Flying, FlywheelSilent, Loud
<1> QED BY <1>1, Steps, PullerVolume, GeneratorVolume, PullVolume, FlywheelVolume, DequeueVolume,
           HandlersVolume, EndVolume DEF IInv, VolumeInv

-----------------------------------------------------------------------------
(* What the reservoir holds, and when the puller may add to it.            *)

Held2 == count.jiffies + ToPutBack
Limit(s) == s + (IF Room THEN MaxAudio - 2 ELSE 2 * MaxAudio - 2)
StreamLimit == IF Room THEN MaxStreams - 1 ELSE MaxStreams

LEMMA RoomTyped ==
  ASSUME TypeOK, PlaceInv
  PROVE  /\ count.jiffies \in Int /\ count.streams \in Int /\ iMaxJiffies \in Nat /\ iMaxJiffies \in Sizes
         /\ ToPutBack \in 0 .. MaxAudio - 1 /\ Held2 \in Int
         /\ \A s \in Sizes : s \in Nat
         /\ (animator.pc # "process" => ToPutBack = 0)
<1>1. count.jiffies \in Int /\ count.streams \in Int /\ iMaxJiffies \in Nat /\ iMaxJiffies \in Sizes
      /\ \A s \in Sizes : s \in Nat
  BY Bounds DEF TypeOK, Counts
<1>2. ToPutBack \in 0 .. MaxAudio - 1
  <2>1. CASE At("process") /\ animator.msg.kind \in Audible
    <3>1. animator.msg.n \in 1 .. MaxAudio
      <4>1. animator.msg \in Queued
        BY <2>1, HandTyped
      <4>2. animator.msg.kind = "Audio" \/ animator.msg.kind = "Silence"
        BY <2>1 DEF Audible
      <4> QED BY <4>1, <4>2, MsgTyped, Bounds
    <3> QED BY <2>1, <3>1, Bounds DEF ToPutBack
  <2>2. CASE ~(At("process") /\ animator.msg.kind \in Audible)
    BY <2>2, Bounds DEF ToPutBack
  <2> QED BY <2>1, <2>2
<1>3. animator.pc # "process" => ToPutBack = 0
  BY DEF ToPutBack, At
<1> QED BY <1>1, <1>2, <1>3, Bounds DEF Held2

LEMMA RoomFrame ==
  ASSUME TypeOK, PlaceInv, TypeOK', PlaceInv', RoomInv,
         Room' => Room, Held2' <= Held2, count'.streams <= count.streams
  PROVE  RoomInv'
<1>1. PICK s \in Sizes : Held2 <= Limit(s)
  BY DEF RoomInv, Held2, Limit
<1>2. s \in Nat /\ Held2 \in Int /\ count.streams \in Int
  BY RoomTyped
<1>3. Held2' \in Int /\ count'.streams \in Int
  <2>1. count'.jiffies \in Int /\ count'.streams \in Int /\ animator'.msg \in Queued \union {Dropped}
    BY DEF TypeOK, Counts, AnimatorMembers
  <2>2. animator'.msg.kind \in Audible => animator'.msg.n \in Int
    BY <2>1, MsgTyped, Bounds DEF Audible
  <2>3. ToPutBack' \in Int
    BY <2>2 DEF ToPutBack
  <2> QED BY <2>1, <2>3 DEF Held2
<1>4. Held2' <= Limit(s)' /\ count'.streams <= StreamLimit'
  BY <1>1, <1>2, <1>3, Bounds DEF Limit, StreamLimit, RoomInv
<1> QED BY <1>4 DEF RoomInv, Held2, Limit, StreamLimit

LEMMA RoomNotFull ==
  ASSUME TypeOK, PlaceInv, RoomInv, ~IsFull
  PROVE  count.jiffies + ToPutBack <= iMaxJiffies + MaxAudio - 2 /\ count.streams <= MaxStreams - 1
<1>1. count.jiffies \in Int /\ count.streams \in Int /\ iMaxJiffies \in Nat /\ ToPutBack \in 0 .. MaxAudio - 1
  BY RoomTyped
<1>2. count.jiffies < iMaxJiffies /\ count.streams # MaxStreams /\ count.streams <= MaxStreams
  BY <1>1, Bounds DEF IsFull, RoomInv
<1> QED BY <1>1, <1>2, Bounds

LEMMA PullerRoom ==
  ASSUME TypeOK, PlaceInv, TypeOK', PlaceInv', RoomInv, SleepInv,
         (\E m \in Queued : PullerPulls(m)) \/ PullerSteps
  PROVE  RoomInv' /\ SleepInv'
<1>0. ToPutBack' = ToPutBack
  BY DEF PullerPulls, PullerSteps, Enqueue, Trigger, Wake, ToPutBack, At
<1>1. CASE \E m \in Queued : PullerPulls(m)
  <2> PICK m \in Queued : PullerPulls(m)
    BY <1>1
  <2>1. puller'.pc = "enqueue" /\ Room /\ ~Room'
    BY DEF PullerPulls, Room, TypeOK, PullerMembers
  <2>2. m.kind \in Audible => m.n \in 1 .. MaxAudio
    BY MsgTyped, Bounds DEF Audible
  <2>3. /\ count'.jiffies = IF m.kind \in Audible THEN count.jiffies + m.n ELSE count.jiffies
        /\ count'.streams = IF m.kind = "Stream" THEN count.streams + 1 ELSE count.streams
    BY DEF PullerPulls, TypeOK, Counts
  <2>4. PICK s \in Sizes : count.jiffies + ToPutBack <= s + MaxAudio - 2
    BY <2>1, RoomTyped, Bounds DEF RoomInv
  <2>5. s \in Nat /\ count.jiffies \in Int /\ count.streams \in Int /\ ToPutBack \in Int
    BY RoomTyped, Bounds
  <2>6. count'.jiffies + ToPutBack' <= s + 2 * MaxAudio - 2
    BY <1>0, <2>2, <2>3, <2>4, <2>5, Bounds
  <2>7. count'.streams <= MaxStreams
    BY <2>1, <2>3, <2>5, Bounds DEF RoomInv
  <2>8. count'.jiffies + ToPutBack' <= s + (2 * MaxAudio - 2)
    BY <2>5, <2>6, RoomTyped, Bounds
  <2> QED BY <2>1, <2>7, <2>8 DEF RoomInv, SleepInv
<1>2. CASE Enqueue
  <2>1. UNCHANGED <<count, iMaxJiffies>> /\ iSem' = (iSem /\ ~IsFull) /\ (IsFull <=> IsFull')
    BY <1>2 DEF Enqueue, IsFull
  <2>2. /\ IsFull => puller'.pc \in {"trigger", "sleep"} /\ (puller'.pc = "trigger" => puller'.full)
        /\ ~IsFull => puller'.pc \in {"trigger", "exit", "pull"} /\ ~puller'.full
    BY <1>2 DEF Enqueue, UnlessFull, TypeOK, PullerMembers
  <2>3. SleepInv'
    BY <2>1, <2>2 DEF SleepInv
  <2>4. CASE IsFull
    <3>1. ~Room'
      BY <2>1, <2>2, <2>4 DEF Room
    <3> QED BY <1>0, <2>1, <2>3, <3>1, RoomFrame, RoomTyped DEF Held2
  <2>5. CASE ~IsFull
    <3>1. count.jiffies + ToPutBack <= iMaxJiffies + MaxAudio - 2 /\ count.streams <= MaxStreams - 1
      BY <2>5, RoomNotFull
    <3>2. count.jiffies \in Int /\ count.streams \in Int /\ iMaxJiffies \in Nat /\ iMaxJiffies \in Sizes /\ ToPutBack \in Int
      BY RoomTyped, Bounds
    <3>3. count.jiffies + ToPutBack <= iMaxJiffies + (IF Room' THEN MaxAudio - 2 ELSE 2 * MaxAudio - 2)
          /\ count.streams <= (IF Room' THEN MaxStreams - 1 ELSE MaxStreams)
      BY <3>1, <3>2, Bounds
    <3> QED BY <1>0, <2>1, <2>3, <3>2, <3>3 DEF RoomInv
  <2> QED BY <2>4, <2>5
<1>3. CASE Trigger \/ Wake
  <2>1. UNCHANGED <<count, iMaxJiffies>> /\ (IsFull <=> IsFull') /\ UNCHANGED animator
    BY <1>3 DEF Trigger, Wake, IsFull
  <2>2. Room' => Room
    <3>1. CASE Trigger
      BY <3>1 DEF Trigger, Room, UnlessFull, TypeOK, PullerMembers
    <3>2. CASE Wake
      BY <3>2 DEF Wake, Room
    <3> QED BY <1>3, <3>1, <3>2
  <2>3. SleepInv'
    BY <1>3, <2>1 DEF Trigger, Wake, SleepInv, At, UnlessFull, TypeOK, PullerMembers
  <2> QED BY <1>0, <2>1, <2>2, <2>3, RoomFrame, RoomTyped DEF Held2
<1> QED BY <1>1, <1>2, <1>3 DEF PullerSteps

(* The animator takes from the queue what it puts back only in part.       *)
LEMMA DequeueRoom ==
  ASSUME TypeOK, PlaceInv, TypeOK', PlaceInv', RoomInv, Dequeue PROVE RoomInv' /\ SleepInv'
<1> DEFINE m == Head(iQueue)
<1>1. /\ m \in Queued /\ animator'.pc = "process" /\ animator'.msg = m /\ UNCHANGED <<puller, iSem>>
      /\ count'.jiffies = IF m.kind \in Audible THEN count.jiffies - m.n ELSE count.jiffies
      /\ count'.streams = IF m.kind = "Stream" THEN count.streams - 1 ELSE count.streams
      /\ ToPutBack = 0
  BY DequeueTyped DEF Dequeue, UpstreamUnchanged, TypeOK, AnimatorMembers, Counts, ToPutBack, At
<1>2. m.kind \in Audible => m.n \in Int
  BY <1>1, MsgTyped, Bounds DEF Audible
<1>3. count.jiffies \in Int /\ count.streams \in Int
  BY RoomTyped
<1> HIDE DEF m
<1>4. ToPutBack' = IF m.kind \in Audible THEN m.n - 1 ELSE 0
  BY <1>1 DEF ToPutBack, At
<1>5. Held2' <= Held2 /\ count'.streams <= count.streams
  BY <1>1, <1>2, <1>3, <1>4 DEF Held2
<1>6. Room' => Room
  BY <1>1 DEF Room
<1>7. SleepInv'
  BY <1>1 DEF SleepInv, At
<1> QED BY <1>5, <1>6, <1>7, RoomFrame

LEMMA HandlersRoom ==
  ASSUME TypeOK, PlaceInv, TypeOK', PlaceInv', RoomInv, Handlers PROVE RoomInv' /\ SleepInv'
<1>1. At("process") /\ animator'.pc = "wake" /\ UNCHANGED <<puller, iSem>>
  BY ProcessedEffect DEF Handlers, ProcessMsgOut, ProcessDrain, ProcessSilence, ProcessAudio, Discard,
     UpstreamUnchanged, TypeOK
<1>2. ToPutBack' = 0 /\ (Room' => Room)
  BY <1>1 DEF ToPutBack, At, Room
<1>3. count.jiffies \in Int /\ count.streams \in Int /\ ToPutBack \in Nat
  BY RoomTyped, Bounds
<1>4. count'.jiffies <= count.jiffies + ToPutBack /\ count'.streams = count.streams
  <2>1. CASE ProcessMsgOut
    BY <1>3, <2>1 DEF ProcessMsgOut, TypeOK, Counts
  <2>2. CASE ProcessDrain
    BY <1>3, <2>2 DEF ProcessDrain, TypeOK, Counts
  <2>3. CASE ProcessSilence \/ ProcessAudio
    <3>1. animator.msg.kind \in Audible
      BY <2>3 DEF ProcessSilence, ProcessAudio, Audible
    <3>2. animator.msg.n \in Int
      BY <1>1, <3>1, HandTyped, MsgTyped, Bounds DEF Audible
    <3>3. count'.jiffies = count.jiffies + animator.msg.n - 1 /\ count'.streams = count.streams
      BY <2>3 DEF ProcessSilence, ProcessAudio, TypeOK, Counts
    <3>4. ToPutBack = animator.msg.n - 1
      BY <1>1, <3>1 DEF ToPutBack
    <3> QED BY <1>3, <3>2, <3>3, <3>4
  <2>4. CASE Discard
    BY <1>3, <2>4 DEF Discard
  <2> QED BY <2>1, <2>2, <2>3, <2>4 DEF Handlers
<1>5. count'.jiffies \in Int
  BY DEF TypeOK, Counts
<1>6. Held2' <= Held2
  BY <1>2, <1>3, <1>4, <1>5 DEF Held2
<1>7. SleepInv'
  BY <1>1 DEF SleepInv, At
<1> QED BY <1>2, <1>3, <1>4, <1>6, <1>7, RoomFrame

LEMMA SignalRoom ==
  ASSUME TypeOK, PlaceInv, TypeOK', PlaceInv', RoomInv, Signal PROVE RoomInv' /\ SleepInv'
<1>1. /\ At("wake") /\ UNCHANGED <<puller, count, iMaxJiffies>> /\ iSem' = (iSem \/ ~IsFull)
      /\ (IsFull <=> IsFull')
  BY DEF Signal, IsFull
<1>2. animator'.pc # "process"
  <2>1. animator \in AnimatorMembers /\ ramper \in RamperMembers
    BY DEF TypeOK
  <2>2. TryGetAudio(ramper) \/ Returns(animator.msg.kind)
    BY DEF Signal
  <2>3. ASSUME TryGetAudio(ramper) PROVE animator'.pc # "process"
    <3>1. Goto("fly") => animator'.pc = "fly"
      BY <2>1, GotoEffect
    <3>2. Goto("dequeue") => animator'.pc = "dequeue"
      BY <2>1, GotoEffect
    <3> QED BY <2>1, <2>3, <3>1, <3>2, TryEffect
  <2>4. ASSUME Returns(animator.msg.kind) PROVE animator'.pc # "process"
    <3>1. animator'.pc \in {"top", "adjust"}
      BY <2>1, <2>4, ReturnsEffect
    <3> QED BY <3>1
  <2> QED BY <2>2, <2>3, <2>4
<1>3. ToPutBack = 0 /\ ToPutBack' = 0
  BY <1>1, <1>2 DEF ToPutBack, At
<1>4. SleepInv'
  BY <1>1 DEF SleepInv
<1>5. CASE IsFull
  <2>1. Room' => Room
    BY <1>1, <1>5 DEF Room
  <2> QED BY <1>1, <1>3, <1>4, <2>1, RoomFrame, RoomTyped DEF Held2
<1>6. CASE ~IsFull
  <2>1. count.jiffies + ToPutBack <= iMaxJiffies + MaxAudio - 2 /\ count.streams <= MaxStreams - 1
    BY <1>6, RoomNotFull
  <2>2. count.jiffies \in Int /\ count.streams \in Int /\ iMaxJiffies \in Nat /\ iMaxJiffies \in Sizes
    BY RoomTyped
  <2>3. count.jiffies + 0 <= iMaxJiffies + (IF Room' THEN MaxAudio - 2 ELSE 2 * MaxAudio - 2)
        /\ count.streams <= (IF Room' THEN MaxStreams - 1 ELSE MaxStreams)
    BY <1>3, <2>1, <2>2, Bounds
  <2> QED BY <1>1, <1>3, <1>4, <2>2, <2>3 DEF RoomInv
<1> QED BY <1>5, <1>6

(* Steps that leave the counts alone, and the hand empty.                  *)
LEMMA IdleRoom ==
  ASSUME TypeOK, PlaceInv, TypeOK', PlaceInv', RoomInv, SleepInv,
         UNCHANGED <<puller, iSem, count, iMaxJiffies>>,
         animator' = animator \/ (~At("process") /\ ~At("wake") /\ animator'.pc # "process")
  PROVE  RoomInv' /\ SleepInv'
<1>1. ToPutBack' = ToPutBack /\ (Room' => Room) /\ (IsFull <=> IsFull')
  BY DEF ToPutBack, At, Room, IsFull
<1>2. SleepInv'
  BY <1>1 DEF SleepInv, At
<1> QED BY <1>1, <1>2, RoomFrame, RoomTyped DEF Held2

LEMMA StarvePlace == ASSUME TypeOK, Starve PROVE animator'.pc # "process"
<1>1. Draining \in RamperMembers
  BY DrainingTyped DEF TypeOK
<1> QED BY <1>1, StarveCases, TryEffect, GotoEffect DEF TypeOK

LEMMA RoomStep == IInv /\ TypeOK' /\ PlaceInv' /\ [Next]_vars => RoomInv' /\ SleepInv'
<1> SUFFICES ASSUME IInv, TypeOK', PlaceInv', [Next]_vars PROVE RoomInv' /\ SleepInv'
  OBVIOUS
<1>0. TypeOK /\ PlaceInv /\ RoomInv /\ SleepInv
  BY DEF IInv
<1>1. CASE Generator \/ DrainAllAudio \/ UNCHANGED vars
  <2>1. UNCHANGED <<puller, iSem, count, iMaxJiffies, animator>>
    BY <1>1 DEF Generator, Ramp, EndBlock, RampEnds, SignalEnd, GeneratorUnchanged, DrainAllAudio, vars
  <2> QED BY <1>0, <2>1, IdleRoom
<1>2. CASE PullBlocks \/ Pull \/ OccupancyReached
  <2>1. UNCHANGED <<puller, iSem, count, iMaxJiffies>> /\ ~At("process") /\ ~At("wake")
    BY <1>2 DEF PullBlocks, Pull, OccupancyReached, UpstreamUnchanged, At
  <2>2. animator'.pc # "process"
    BY <1>0, <1>2, StarvePlace, GotoEffect DEF PullBlocks, Pull, OccupancyReached, TypeOK
  <2> QED BY <1>0, <2>1, <2>2, IdleRoom
<1>3. CASE FlywheelWait \/ FlywheelAudio
  <2>1. UNCHANGED <<puller, iSem, count, iMaxJiffies>> /\ ~At("process") /\ ~At("wake")
    BY <1>3 DEF FlywheelWait, FlywheelAudio, UpstreamUnchanged, At
  <2>2. animator'.pc # "process"
    BY <1>0, <1>3, ReturnsEffect, GotoEffect DEF FlywheelWait, FlywheelAudio, WithoutFlywheel, TypeOK
  <2> QED BY <1>0, <2>1, <2>2, IdleRoom
<1>4. CASE PullAgain \/ WaitForOccupancy \/ OccupancyAwaited
  <2>1. UNCHANGED <<puller, iSem, count, iMaxJiffies>> /\ ~At("process") /\ ~At("wake")
    BY <1>4 DEF PullAgain, WaitForOccupancy, OccupancyAwaited, UpstreamUnchanged, At
  <2>2. animator'.pc # "process"
    <3>1. CASE PullAgain
      BY <1>0, <3>1, GotoEffect DEF PullAgain, TypeOK
    <3>2. CASE WaitForOccupancy
      BY <1>0, <3>2, GotoEffect DEF WaitForOccupancy, TypeOK
    <3>3. CASE OccupancyAwaited
      BY <1>0, <3>3 DEF OccupancyAwaited, TypeOK, AnimatorMembers
    <3> QED BY <1>4, <3>1, <3>2, <3>3
  <2> QED BY <1>0, <2>1, <2>2, IdleRoom
<1> QED BY <1>0, <1>1, <1>2, <1>3, <1>4, Steps, PullerRoom, DequeueRoom, HandlersRoom, SignalRoom

-----------------------------------------------------------------------------
(* Audio follows a stream: what is added at the end of the queue, taken     *)
(* from its head or put back there.                                        *)

LEMMA OrderWeaker ==
  ASSUME NEW u \in BOOLEAN, NEW w \in BOOLEAN, NEW q \in Seq(Queued), w => u
  PROVE  (Ordered(u, q) => Ordered(w, q)) /\ (Closed(u, q) => Closed(w, q))
  BY DEF Ordered, Closed, Mark

LEMMA OrderAppend ==
  ASSUME NEW u \in BOOLEAN, NEW q \in Seq(Queued), NEW m \in Queued, Ordered(u, q),
         m.kind \in Audible => Closed(u, q)
  PROVE  /\ Ordered(u, Append(q, m))
         /\ m.kind = "Stream" => Closed(u, Append(q, m))
         /\ Closed(u, q) /\ m.kind # "Track" => Closed(u, Append(q, m))
<1> DEFINE p == Append(q, m)
<1>1. /\ Len(p) = Len(q) + 1 /\ Len(q) \in Nat /\ DOMAIN p = 1 .. Len(q) + 1 /\ DOMAIN q = 1 .. Len(q)
      /\ \A i \in 1 .. Len(q) : p[i] = q[i]
      /\ p[Len(q) + 1] = m
  OBVIOUS
<1> HIDE DEF p
<1>2. ASSUME NEW a \in Nat, NEW b \in Nat, NEW c \in Nat, StreamIn(q, a, b), b <= c PROVE StreamIn(p, a, c)
  BY <1>1, <1>2 DEF StreamIn
<1>3. ASSUME NEW i \in 0 .. Len(q), Mark(u, p, i) PROVE Mark(u, q, i)
  BY <1>1, <1>3 DEF Mark
<1>4. Ordered(u, p)
  <2> SUFFICES ASSUME NEW i \in 0 .. Len(p), NEW k \in DOMAIN p, Mark(u, p, i), i < k, p[k].kind \in Audible
               PROVE  StreamIn(p, i, k)
    BY DEF Ordered
  <2>1. i \in 0 .. Len(q) /\ i \in Nat /\ k \in Nat
    BY <1>1
  <2>2. Mark(u, q, i)
    BY <1>3, <2>1
  <2>3. CASE k \in 1 .. Len(q)
    <3>1. StreamIn(q, i, k)
      BY <1>1, <2>1, <2>2, <2>3 DEF Ordered
    <3> QED BY <1>2, <2>1, <3>1
  <2>4. CASE k = Len(q) + 1
    <3>1. StreamIn(q, i, Len(q) + 1)
      BY <1>1, <2>1, <2>2, <2>4 DEF Closed
    <3> QED BY <1>2, <2>1, <2>4, <3>1
  <2> QED BY <1>1, <2>3, <2>4
<1>5. ASSUME m.kind = "Stream" PROVE Closed(u, p)
  <2> SUFFICES ASSUME NEW i \in 0 .. Len(p), Mark(u, p, i) PROVE StreamIn(p, i, Len(p) + 1)
    BY DEF Closed
  <2>1. i # Len(q) + 1
    BY <1>1, <1>5 DEF Mark
  <2> QED BY <1>1, <1>5, <2>1 DEF StreamIn
<1>6. ASSUME Closed(u, q), m.kind # "Track" PROVE Closed(u, p)
  <2> SUFFICES ASSUME NEW i \in 0 .. Len(p), Mark(u, p, i) PROVE StreamIn(p, i, Len(p) + 1)
    BY DEF Closed
  <2>1. i \in 0 .. Len(q)
    BY <1>1, <1>6 DEF Mark
  <2>2. StreamIn(q, i, Len(q) + 1)
    BY <1>3, <1>6, <2>1 DEF Closed
  <2> QED BY <1>1, <1>2, <2>1, <2>2
<1> QED BY <1>4, <1>5, <1>6 DEF p

LEMMA OrderTail ==
  ASSUME NEW u \in BOOLEAN, NEW w \in BOOLEAN, NEW q \in Seq(Queued), q # << >>,
         w => Head(q).kind = "Track" \/ (u /\ Head(q).kind # "Stream")
  PROVE  (Ordered(u, q) => Ordered(w, Tail(q))) /\ (Closed(u, q) => Closed(w, Tail(q)))
<1> DEFINE t == Tail(q)
<1>1. /\ Len(q) \in Nat \ {0} /\ Len(t) = Len(q) - 1 /\ DOMAIN t = 1 .. Len(q) - 1 /\ DOMAIN q = 1 .. Len(q)
      /\ \A i \in 1 .. Len(q) - 1 : t[i] = q[i + 1]
      /\ Head(q) = q[1]
  OBVIOUS
<1> HIDE DEF t
<1>2. ASSUME NEW a \in Nat, NEW b \in Nat, StreamIn(q, a + 1, b + 1) PROVE StreamIn(t, a, b)
  <2>1. PICK j \in DOMAIN q : a + 1 < j /\ j < b + 1 /\ q[j].kind = "Stream"
    BY <1>2 DEF StreamIn
  <2>2. j - 1 \in DOMAIN t /\ a < j - 1 /\ j - 1 < b /\ t[j - 1] = q[j]
    BY <1>1, <2>1
  <2> QED BY <2>1, <2>2 DEF StreamIn
<1>3. ASSUME NEW i \in 0 .. Len(t), Mark(w, t, i)
      PROVE  \/ Mark(u, q, i + 1)
             \/ i = 0 /\ Mark(u, q, 0) /\ q[1].kind # "Stream"
  <2>1. CASE i = 0
    BY <1>1, <1>3, <2>1 DEF Mark
  <2>2. CASE i # 0
    <3>1. i \in 1 .. Len(q) - 1 /\ i + 1 \in DOMAIN q /\ t[i] = q[i + 1] /\ t[i].kind = "Track"
      BY <1>1, <1>3, <2>2 DEF Mark
    <3> QED BY <3>1 DEF Mark
  <2> QED BY <2>1, <2>2
<1>4. ASSUME NEW b \in Nat, StreamIn(q, 0, b), q[1].kind # "Stream" PROVE StreamIn(q, 1, b)
  BY <1>1, <1>4 DEF StreamIn
<1>5. ASSUME Ordered(u, q) PROVE Ordered(w, t)
  <2> SUFFICES ASSUME NEW i \in 0 .. Len(t), NEW k \in DOMAIN t, Mark(w, t, i), i < k, t[k].kind \in Audible
               PROVE  StreamIn(t, i, k)
    BY DEF Ordered
  <2>1. i \in Nat /\ k \in Nat /\ k + 1 \in DOMAIN q /\ t[k] = q[k + 1] /\ i + 1 < k + 1 /\ 0 < k + 1
        /\ i + 1 \in 0 .. Len(q) /\ 0 \in 0 .. Len(q)
    BY <1>1
  <2>2. StreamIn(q, i + 1, k + 1)
    <3>1. CASE Mark(u, q, i + 1)
      BY <1>5, <2>1, <3>1 DEF Ordered
    <3>2. CASE i = 0 /\ Mark(u, q, 0) /\ q[1].kind # "Stream"
      <4>1. StreamIn(q, 0, k + 1)
        BY <1>5, <2>1, <3>2 DEF Ordered
      <4> QED BY <1>4, <2>1, <3>2, <4>1
    <3> QED BY <1>3, <3>1, <3>2
  <2> QED BY <1>2, <2>1, <2>2
<1>6. ASSUME Closed(u, q) PROVE Closed(w, t)
  <2> SUFFICES ASSUME NEW i \in 0 .. Len(t), Mark(w, t, i) PROVE StreamIn(t, i, Len(t) + 1)
    BY DEF Closed
  <2>1. i \in Nat /\ Len(t) + 1 \in Nat /\ i + 1 \in 0 .. Len(q) /\ 0 \in 0 .. Len(q) /\ Len(t) + 1 = Len(q)
        /\ Len(q) + 1 \in Nat
    BY <1>1
  <2>2. StreamIn(q, i + 1, Len(q) + 1)
    <3>1. CASE Mark(u, q, i + 1)
      BY <1>6, <2>1, <3>1 DEF Closed
    <3>2. CASE i = 0 /\ Mark(u, q, 0) /\ q[1].kind # "Stream"
      <4>1. StreamIn(q, 0, Len(q) + 1)
        BY <1>6, <2>1, <3>2 DEF Closed
      <4> QED BY <1>4, <2>1, <3>2, <4>1
    <3> QED BY <1>3, <3>1, <3>2
  <2> QED BY <1>2, <2>1, <2>2
<1> QED BY <1>5, <1>6 DEF t

LEMMA OrderPutBack ==
  ASSUME NEW u \in BOOLEAN, NEW q \in Seq(Queued), NEW m \in Queued, m.kind # "Track"
  PROVE  (Ordered(u, q) => Ordered(FALSE, <<m>> \o q)) /\ (Closed(u, q) => Closed(FALSE, <<m>> \o q))
<1> DEFINE p == <<m>> \o q
<1>1. /\ Len(q) \in Nat /\ Len(p) = Len(q) + 1 /\ DOMAIN p = 1 .. Len(q) + 1 /\ DOMAIN q = 1 .. Len(q)
      /\ \A i \in 1 .. Len(q) : p[i + 1] = q[i]
      /\ p[1] = m
  OBVIOUS
<1> HIDE DEF p
<1>2. ASSUME NEW a \in Nat, NEW b \in Nat, StreamIn(q, a, b) PROVE StreamIn(p, a + 1, b + 1)
  <2>1. PICK j \in DOMAIN q : a < j /\ j < b /\ q[j].kind = "Stream"
    BY <1>2 DEF StreamIn
  <2>2. j + 1 \in DOMAIN p /\ a + 1 < j + 1 /\ j + 1 < b + 1 /\ p[j + 1] = q[j]
    BY <1>1, <2>1
  <2> QED BY <2>1, <2>2 DEF StreamIn
<1>3. ASSUME NEW i \in 0 .. Len(p), Mark(FALSE, p, i)
      PROVE  i - 1 \in 1 .. Len(q) /\ Mark(u, q, i - 1)
  <2>1. i \in 1 .. Len(q) + 1 /\ p[i].kind = "Track" /\ i # 1
    BY <1>1, <1>3 DEF Mark
  <2>2. i - 1 \in 1 .. Len(q) /\ p[(i - 1) + 1] = q[i - 1] /\ (i - 1) + 1 = i
    BY <1>1, <2>1
  <2>3. q[i - 1].kind = "Track"
    BY <2>1, <2>2
  <2> QED BY <1>1, <2>2, <2>3 DEF Mark
<1>4. ASSUME Ordered(u, q) PROVE Ordered(FALSE, p)
  <2> SUFFICES ASSUME NEW i \in 0 .. Len(p), NEW k \in DOMAIN p, Mark(FALSE, p, i), i < k, p[k].kind \in Audible
               PROVE  StreamIn(p, i, k)
    BY DEF Ordered
  <2>1. i - 1 \in 1 .. Len(q) /\ Mark(u, q, i - 1)
    BY <1>3
  <2>2. k - 1 \in DOMAIN q /\ i - 1 < k - 1 /\ p[(k - 1) + 1] = q[k - 1] /\ (k - 1) + 1 = k /\ (i - 1) + 1 = i
        /\ i - 1 \in 0 .. Len(q) /\ i - 1 \in Nat /\ k - 1 \in Nat
    BY <1>1, <2>1
  <2>3. StreamIn(q, i - 1, k - 1)
    BY <1>4, <2>1, <2>2 DEF Ordered
  <2> QED BY <1>2, <2>2, <2>3
<1>5. ASSUME Closed(u, q) PROVE Closed(FALSE, p)
  <2> SUFFICES ASSUME NEW i \in 0 .. Len(p), Mark(FALSE, p, i) PROVE StreamIn(p, i, Len(p) + 1)
    BY DEF Closed
  <2>1. i - 1 \in 1 .. Len(q) /\ Mark(u, q, i - 1)
    BY <1>3
  <2>2. i - 1 \in 0 .. Len(q) /\ i - 1 \in Nat /\ (i - 1) + 1 = i /\ Len(q) + 1 \in Nat /\ (Len(q) + 1) + 1 = Len(p) + 1
    BY <1>1, <2>1
  <2>3. StreamIn(q, i - 1, Len(q) + 1)
    BY <1>5, <2>1, <2>2 DEF Closed
  <2> QED BY <1>2, <2>2, <2>3
<1> QED BY <1>4, <1>5 DEF p

(* Steps that change neither the queue nor what is known of upstream.      *)
LEMMA OrderFrame ==
  ASSUME TypeOK, OrderInv, UNCHANGED iQueue, puller'.msg = puller.msg, source'.stream = source.stream,
         Unannounced' => Unannounced, Stale' /\ At("process")' => animator'.msg.kind \notin Audible
  PROVE  OrderInv'
<1>1. Unannounced \in BOOLEAN /\ Unannounced' \in BOOLEAN /\ iQueue \in Seq(Queued)
  BY DEF Unannounced, Hand, Stale, At, TypeOK
<1>2. (Ordered(Unannounced, iQueue) => Ordered(Unannounced', iQueue))
      /\ (Closed(Unannounced, iQueue) => Closed(Unannounced', iQueue))
  BY <1>1, OrderWeaker
<1>3. Ordered(Unannounced, iQueue)' <=> Ordered(Unannounced', iQueue)
  BY DEF Ordered, Mark, StreamIn
<1>4. Closed(Unannounced, iQueue)' <=> Closed(Unannounced', iQueue)
  BY DEF Closed, Mark, StreamIn
<1> QED BY <1>2, <1>3, <1>4 DEF OrderInv

LEMMA UnannouncedTyped == TypeOK => Unannounced \in BOOLEAN /\ iQueue \in Seq(Queued)
  BY DEF Unannounced, Hand, Stale, At, TypeOK

LEMMA PullerOrder ==
  ASSUME TypeOK, PlaceInv, OrderInv, (\E m \in Queued : PullerPulls(m)) \/ PullerSteps
  PROVE  OrderInv'
<1>0. UNCHANGED <<animator, ramper>> /\ (Unannounced' <=> Unannounced) /\ (Stale' <=> Stale)
  BY DEF PullerPulls, PullerSteps, Enqueue, Trigger, Wake, Unannounced, Hand, Stale, At
<1>1. CASE \E m \in Queued : PullerPulls(m)
  <2> PICK m \in Queued : PullerPulls(m)
    BY <1>1
  <2>1. puller.msg.kind # "Stream" /\ puller'.msg = m /\ iQueue' = iQueue
    <3>1. puller.msg = Dropped
      BY DEF PullerPulls, PlaceInv
    <3>2. puller.msg.kind = "None"
      BY <3>1 DEF Dropped, Msg
    <3>3. puller'.msg = m /\ iQueue' = iQueue
      BY DEF PullerPulls, TypeOK, PullerMembers
    <3> QED BY <3>2, <3>3
  <2>2. /\ source'.stream = ((source.stream \/ m.kind = "Stream") /\ m.kind # "Track")
        /\ m.kind \in Audible => source.stream
    BY DEF PullerPulls, Delivered, Offered, Audible, TypeOK, SourceMembers
  <2>3. m.kind \in Audible => m.kind # "Track"
    BY DEF Audible
  <2>4. Ordered(Unannounced, iQueue)' /\ (source.stream => Closed(Unannounced, iQueue)')
    BY <1>0, <2>1 DEF OrderInv, Ordered, Closed, Mark, StreamIn
  <2> QED BY <1>0, <2>1, <2>2, <2>3, <2>4 DEF OrderInv, At
<1>2. CASE Enqueue
  <2> DEFINE m == puller.msg
  <2>1. m \in Queued
    BY <1>2, MsgTyped DEF Enqueue, PlaceInv, TypeOK, PullerMembers
  <2>2. iQueue' = Append(iQueue, m) /\ source' = source /\ puller'.msg.kind = "None"
    BY <1>2 DEF Enqueue, TypeOK, PullerMembers, Dropped, Msg
  <2>3. m.kind \in Audible => Closed(Unannounced, iQueue)
    BY DEF OrderInv, Audible
  <2>4. /\ Ordered(Unannounced, Append(iQueue, m))
        /\ m.kind = "Stream" => Closed(Unannounced, Append(iQueue, m))
        /\ Closed(Unannounced, iQueue) /\ m.kind # "Track" => Closed(Unannounced, Append(iQueue, m))
    BY <2>1, <2>3, UnannouncedTyped, OrderAppend DEF OrderInv
  <2>5. source.stream => Closed(Unannounced, Append(iQueue, m))
    BY <2>4 DEF OrderInv
  <2> HIDE DEF m
  <2>6. Ordered(Unannounced, iQueue)' /\ (source.stream => Closed(Unannounced, iQueue)')
    BY SMTT(20), <1>0, <2>2, <2>4, <2>5 DEF Ordered, Closed, Mark, StreamIn
  <2> QED BY <1>0, <2>2, <2>6 DEF OrderInv, At, Audible
<1>3. CASE Trigger \/ Wake
  <2>1. puller'.msg = puller.msg /\ source' = source /\ iQueue' = iQueue
    BY <1>3 DEF Trigger, Wake, TypeOK, PullerMembers
  <2> QED BY <1>0, <2>1, OrderFrame DEF OrderInv, At
<1> QED BY <1>1, <1>2, <1>3 DEF PullerSteps

LEMMA DequeueOrder ==
  ASSUME TypeOK, TypeOK', PlaceInv, OrderInv, Dequeue
  PROVE  OrderInv'
<1> DEFINE m == Head(iQueue)
<1>1. /\ animator.pc = "dequeue" /\ animator'.pc = "process" /\ animator'.msg = m /\ iQueue' = Tail(iQueue)
      /\ iQueue # << >> /\ UNCHANGED <<puller, ramper, source>>
  BY DEF Dequeue, UpstreamUnchanged, At, TypeOK, AnimatorMembers
<1>2. (Stale' <=> Stale) /\ (Stale => Unannounced)
  BY <1>1 DEF Stale, Unannounced, Hand, At
<1>3. Unannounced' => m.kind = "Track" \/ (Unannounced /\ m.kind # "Stream")
  BY <1>1, <1>2 DEF Unannounced, Hand, At
<1>4. Unannounced \in BOOLEAN /\ Unannounced' \in BOOLEAN /\ iQueue \in Seq(Queued)
  BY UnannouncedTyped DEF Unannounced, Hand, Stale, At
<1>5. /\ Ordered(Unannounced, iQueue) => Ordered(Unannounced', Tail(iQueue))
      /\ Closed(Unannounced, iQueue) => Closed(Unannounced', Tail(iQueue))
  BY <1>1, <1>3, <1>4, OrderTail
<1>6. Stale => m.kind \notin Audible
  <2> SUFFICES ASSUME Stale, m.kind \in Audible PROVE FALSE
    OBVIOUS
  <2>1. Len(iQueue) \in Nat /\ 1 \in DOMAIN iQueue /\ 0 \in 0 .. Len(iQueue) /\ iQueue[1] = m /\ 0 < 1
        /\ DOMAIN iQueue \subseteq Nat
    BY <1>1, <1>4
  <2>2. StreamIn(iQueue, 0, 1)
    BY <1>2, <2>1 DEF OrderInv, Ordered, Mark
  <2> QED BY <2>1, <2>2 DEF StreamIn
<1> HIDE DEF m
<1>7. (Ordered(Unannounced, iQueue)' <=> Ordered(Unannounced', Tail(iQueue)))
      /\ (Closed(Unannounced, iQueue)' <=> Closed(Unannounced', Tail(iQueue)))
  BY <1>1 DEF Ordered, Closed, Mark, StreamIn
<1> QED BY <1>1, <1>2, <1>5, <1>6, <1>7 DEF OrderInv

(* A message goes back to the head of the queue, and no state is left that  *)
(* asks for a stream.                                                      *)
LEMMA PutBackOrder ==
  ASSUME TypeOK, OrderInv, NEW m \in Queued, m.kind # "Track", iQueue' = <<m>> \o iQueue,
         puller'.msg = puller.msg, source'.stream = source.stream, ~Unannounced', ~Stale'
  PROVE  OrderInv'
<1>1. /\ Ordered(Unannounced, iQueue) => Ordered(FALSE, <<m>> \o iQueue)
      /\ Closed(Unannounced, iQueue) => Closed(FALSE, <<m>> \o iQueue)
  BY UnannouncedTyped, OrderPutBack
<1>2. (Ordered(Unannounced, iQueue)' <=> Ordered(FALSE, <<m>> \o iQueue))
      /\ (Closed(Unannounced, iQueue)' <=> Closed(FALSE, <<m>> \o iQueue))
  BY DEF Ordered, Closed, Mark, StreamIn
<1> QED BY <1>1, <1>2 DEF OrderInv

LEMMA HandlersOrder ==
  ASSUME TypeOK, TypeOK', PlaceInv, HeardInv, OrderInv, Handlers
  PROVE  OrderInv'
<1>0. /\ At("process") /\ ramper.iState # "FlywheelRamping" /\ animator'.pc = "wake"
      /\ animator.msg \in Queued /\ puller' = puller
  BY HandTyped, ProcessedEffect DEF Handlers, ProcessMsgOut, ProcessDrain, ProcessSilence, ProcessAudio, Discard,
     UpstreamUnchanged, PlaceInv, TypeOK
<1>1. Unannounced' <=> Stale'
  BY <1>0 DEF Unannounced, Hand, At
<1>2. Stale' => ~At("process")'
  BY <1>0 DEF At
<1>3. Stale /\ animator.msg.kind # "Stream" => Unannounced
  BY DEF Unannounced, Hand
<1>4. ASSUME iQueue' = iQueue, source' = source, Stale' => Unannounced PROVE OrderInv'
  BY <1>0, <1>1, <1>2, <1>4, OrderFrame
<1>5. CASE ProcessMsgOut
  <2>1. iQueue' = iQueue /\ source' = source
    BY <1>5 DEF ProcessMsgOut, UpstreamUnchanged
  <2>2. CASE animator.msg.kind = "Track"
    BY <1>0, <1>4, <2>1, <2>2 DEF Unannounced, Hand
  <2>3. CASE animator.msg.kind = "Stream"
    <3>1. ramper'.iCurrentRampValue = Full
      BY <1>5, <2>3 DEF ProcessMsgOut, TypeOK, RamperMembers
    <3> QED BY <1>4, <2>1, <3>1 DEF Stale
  <2>4. CASE animator.msg.kind = "Halt"
    <3>1. /\ ramper'.iCurrentRampValue = ramper.iCurrentRampValue
          /\ ramper'.cut = (ramper.cut \/ ramper.iState = "RampingUp")
      BY <1>5, <2>4 DEF ProcessMsgOut, TypeOK, RamperMembers
    <3>2. Stale' => Stale
      BY <1>0, <3>1 DEF Stale, HeardInv, TypeOK, RamperMembers
    <3> QED BY <1>3, <1>4, <2>1, <2>4, <3>2
  <2>5. CASE animator.msg.kind \notin {"Track", "Stream", "Halt"}
    <3>1. ramper' = ramper
      BY <1>5, <2>5 DEF ProcessMsgOut
    <3>2. Stale' => Stale
      BY <3>1 DEF Stale
    <3> QED BY <1>3, <1>4, <2>1, <2>5, <3>2
  <2> QED BY <2>2, <2>3, <2>4, <2>5
<1>6. CASE ProcessDrain
  <2> DEFINE drained == [ramper EXCEPT !.iDraining = FALSE]
  <2>0. drained \in RamperMembers /\ drained.iState = ramper.iState /\ drained.cut = ramper.cut
        /\ drained.iCurrentRampValue = ramper.iCurrentRampValue
    BY DEF TypeOK, RamperMembers
  <2>1. CASE Loud
    <3>1. iQueue' = <<animator.msg>> \o iQueue /\ FlywheelRamp(drained)
      BY <1>6, <2>1 DEF ProcessDrain
    <3>2. ramper'.iState = "FlywheelRamping"
      BY <2>0, <3>1, StartEffect DEF TypeOK
    <3>3. source'.stream = source.stream
      BY <3>1 DEF FlywheelRamp, TypeOK, SourceMembers
    <3>4. ~Stale' /\ ~Unannounced' /\ animator.msg.kind # "Track"
      BY <1>1, <1>6, <3>2 DEF Stale, ProcessDrain
    <3> QED BY <1>0, <3>1, <3>3, <3>4, PutBackOrder
  <2>2. CASE ~Loud
    <3>1. ramper' = drained /\ iQueue' = iQueue /\ source' = source
      BY <1>6, <2>2 DEF ProcessDrain
    <3>2. Stale' => Stale
      BY <2>0, <3>1 DEF Stale
    <3> QED BY <1>3, <1>4, <1>6, <3>1, <3>2 DEF ProcessDrain
  <2> QED BY <2>1, <2>2
<1>7. CASE ProcessSilence \/ ProcessAudio
  <2>1. animator.msg.kind \in Audible /\ iQueue' = Rest(animator.msg) \o iQueue /\ source' = source
    BY <1>7 DEF ProcessSilence, ProcessAudio, Audible, UpstreamUnchanged
  <2>2. ~Stale
    BY <1>0, <2>1 DEF OrderInv
  <2>3. ~Stale'
    <3>1. CASE ProcessSilence
      <4>1. /\ ramper'.iCurrentRampValue = ramper.iCurrentRampValue /\ ramper'.cut = ramper.cut
            /\ ramper'.iState = IF ramper.iState = "Halted" THEN "Starting" ELSE ramper.iState
        BY <3>1 DEF ProcessSilence, TypeOK, RamperMembers
      <4> QED BY <2>2, <4>1 DEF Stale
    <3>2. CASE ProcessAudio
      <4>1. ramper'.iState \notin {"Halted", "Starting"}
        BY <1>0, <3>2 DEF ProcessAudio, TypeOK, RamperMembers
      <4> QED BY <4>1 DEF Stale
    <3> QED BY <1>7, <3>1, <3>2
  <2>4. CASE animator.msg.n > 1
    <3> DEFINE m == Msg(animator.msg.kind, animator.msg.n - 1)
    <3>1. animator.msg.kind = "Audio" /\ animator.msg.n \in 1 .. MaxAudio
      BY <1>0, <2>1, <2>4, MsgTyped DEF Audible
    <3>2. m \in Queued /\ m.kind # "Track"
      BY <2>4, <3>1, Bounds DEF Queued, Msg
    <3>3. iQueue' = <<m>> \o iQueue
      BY <2>1, <2>4 DEF Rest
    <3> HIDE DEF m
    <3> QED BY <1>0, <1>1, <2>1, <2>3, <3>2, <3>3, PutBackOrder
  <2>5. CASE ~(animator.msg.n > 1)
    <3>1. iQueue' = iQueue
      BY <2>1, <2>5 DEF Rest, TypeOK
    <3> QED BY <1>4, <2>1, <2>3, <3>1
  <2> QED BY <2>4, <2>5
<1>8. CASE Discard
  <2>1. ramper' = ramper /\ iQueue' = iQueue /\ source' = source /\ animator.msg.kind # "Stream"
    BY <1>8 DEF Discard, UpstreamUnchanged, Audible
  <2>2. Stale' => Stale
    BY <2>1 DEF Stale
  <2> QED BY <1>3, <1>4, <2>1, <2>2
<1> QED BY <1>5, <1>6, <1>7, <1>8 DEF Handlers

(* The other steps of the animator: its hand stays empty, or is emptied.   *)
LEMMA StateOrder ==
  ASSUME TypeOK, TypeOK', OrderInv, UNCHANGED iQueue, puller'.msg = puller.msg,
         source'.stream = source.stream, animator.pc # "process", animator'.pc # "process",
         ramper'.iState \in {"FlywheelRamping", "RampingUp"} \/ SameRamp
  PROVE  OrderInv'
<1>1. Stale' => Stale
  BY DEF Stale, SameRamp
<1>2. Unannounced' => Unannounced
  BY <1>1 DEF Unannounced, Hand, At
<1> QED BY <1>1, <1>2, OrderFrame DEF At

LEMMA StarveOrder ==
  ASSUME TypeOK, Starve
  PROVE  source'.stream = source.stream /\ (ramper'.iState \in {"FlywheelRamping", "RampingUp"} \/ SameRamp)
<1>1. Draining \in RamperMembers
  BY DrainingTyped DEF TypeOK
<1>2. CASE FlywheelRamp(Draining)
  <2>1. ramper'.iState = "FlywheelRamping"
    BY <1>1, <1>2, StartEffect DEF TypeOK
  <2>2. source'.stream = source.stream
    BY <1>2 DEF FlywheelRamp, TypeOK, SourceMembers
  <2> QED BY <2>1, <2>2
<1>3. CASE TryGetAudio(Draining) /\ UNCHANGED source
  <2>1. ramper' = RampingUp(Draining) \/ ramper' = Draining
    BY <1>1, <1>3, TryEffect DEF TypeOK
  <2>2. RampingUp(Draining).iState = "RampingUp"
    BY <1>1, RampingUpEffect
  <2>3. ramper' = Draining => SameRamp
    BY DrainingEffect DEF SameRamp, TypeOK
  <2> QED BY <1>3, <2>1, <2>2, <2>3
<1> QED BY <1>2, <1>3, StarveCases

LEMMA OrderStep == IInv /\ TypeOK' /\ [Next]_vars => OrderInv'
<1> SUFFICES ASSUME IInv, TypeOK', [Next]_vars PROVE OrderInv'
  OBVIOUS
<1>0. TypeOK /\ PlaceInv /\ HeardInv /\ OrderInv
  BY DEF IInv
<1>1. CASE Generator \/ DrainAllAudio \/ UNCHANGED vars
  <2>1. UNCHANGED <<puller, iQueue, animator, ramper, source>>
    BY <1>1 DEF Generator, Ramp, EndBlock, RampEnds, SignalEnd, GeneratorUnchanged, DrainAllAudio, vars
  <2>2. (Unannounced' <=> Unannounced) /\ (Stale' <=> Stale)
    BY <2>1 DEF Unannounced, Hand, Stale, At
  <2> QED BY <1>0, <2>1, <2>2, OrderFrame DEF OrderInv, At
<1>2. CASE PullBlocks \/ Pull \/ OccupancyReached
  <2>1. UNCHANGED <<puller, iQueue>> /\ animator.pc # "process"
    BY <1>2 DEF PullBlocks, Pull, OccupancyReached, UpstreamUnchanged, At
  <2>2. animator'.pc # "process"
    BY <1>0, <1>2, StarvePlace, GotoEffect DEF PullBlocks, Pull, OccupancyReached, TypeOK
  <2>3. source'.stream = source.stream /\ (ramper'.iState \in {"FlywheelRamping", "RampingUp"} \/ SameRamp)
    BY <1>0, <1>2, StarveOrder DEF PullBlocks, Pull, OccupancyReached, UpstreamUnchanged, SameRamp
  <2> QED BY <1>0, <2>1, <2>2, <2>3, StateOrder
<1>3. CASE FlywheelWait \/ FlywheelAudio
  <2>1. UNCHANGED <<puller, iQueue, source>> /\ animator.pc # "process"
    BY <1>3 DEF FlywheelWait, FlywheelAudio, UpstreamUnchanged, At
  <2>2. animator'.pc # "process"
    BY <1>0, <1>3, ReturnsEffect, GotoEffect DEF FlywheelWait, FlywheelAudio, WithoutFlywheel, TypeOK
  <2>3. ramper'.iState \in {"FlywheelRamping", "RampingUp"} \/ SameRamp
    BY <1>0, <1>3, RampingUpEffect DEF FlywheelWait, FlywheelAudio, WithoutFlywheel, TypeOK, SameRamp
  <2> QED BY <1>0, <2>1, <2>2, <2>3, StateOrder
<1>4. CASE PullAgain \/ WaitForOccupancy \/ OccupancyAwaited
  <2>1. UNCHANGED <<puller, iQueue, source, ramper>> /\ animator.pc # "process"
    BY <1>4 DEF PullAgain, WaitForOccupancy, OccupancyAwaited, UpstreamUnchanged, At
  <2>2. animator'.pc # "process"
    <3>1. CASE PullAgain
      BY <1>0, <3>1, GotoEffect DEF PullAgain, TypeOK
    <3>2. CASE WaitForOccupancy
      BY <1>0, <3>2, GotoEffect DEF WaitForOccupancy, TypeOK
    <3>3. CASE OccupancyAwaited
      BY <1>0, <3>3 DEF OccupancyAwaited, TypeOK, AnimatorMembers
    <3> QED BY <1>4, <3>1, <3>2, <3>3
  <2>3. SameRamp
    BY <2>1 DEF SameRamp
  <2> QED BY <1>0, <2>1, <2>2, <2>3, StateOrder
<1>5. CASE Signal
  <2>1. UNCHANGED <<puller, iQueue>> /\ animator.pc # "process"
    BY <1>5 DEF Signal, At
  <2>2. animator'.pc # "process"
    BY <1>0, <1>5, TryEffect, GotoEffect, ReturnsEffect DEF Signal, TypeOK
  <2>3. source'.stream = source.stream
    BY <1>0, <1>5 DEF Signal, TypeOK, SourceMembers
  <2>4. ramper'.iState \in {"FlywheelRamping", "RampingUp"} \/ SameRamp
    BY <1>0, <1>5, TryEffect, RampingUpEffect DEF Signal, TypeOK, SameRamp
  <2> QED BY <1>0, <2>1, <2>2, <2>3, <2>4, StateOrder
<1> QED BY <1>0, <1>1, <1>2, <1>3, <1>4, <1>5, Steps, PullerOrder, DequeueOrder, HandlersOrder

-----------------------------------------------------------------------------
(* The invariant, and what follows from it.                                *)

LEMMA InvInit == Init => IInv
<1> SUFFICES ASSUME Init PROVE IInv
  OBVIOUS
<1>1. TypeOK
  BY TypeInit
<1>2. PlaceInv /\ HeardInv /\ SleepInv /\ DryInv /\ DrainsAreQuiet
  BY DEF Init, PlaceInv, HeardInv, SleepInv, DryInv, DrainsAreQuiet, At, Flying, FlywheelSilent, Dropped, Msg
<1>3. OrderInv
  <2>1. Len(iQueue) = 0 /\ DOMAIN iQueue = {} /\ ~source.stream /\ animator.pc = "top"
        /\ puller.msg.kind = "None" /\ 0 .. Len(iQueue) = {0}
    BY DEF Init, Dropped, Msg
  <2>2. Ordered(Unannounced, iQueue)
    BY <2>1 DEF Ordered
  <2> QED BY <2>1, <2>2 DEF OrderInv, At, Audible
<1>4. RoomInv
  <2>1. count.jiffies = 0 /\ count.streams = 0 /\ ToPutBack = 0 /\ Room
    BY DEF Init, ToPutBack, At, Room
  <2>2. FirstSize \in Sizes /\ FirstSize \in Nat \ {0} /\ MaxAudio \in Nat \ {0} /\ MaxStreams \in Nat \ {0}
    BY Bounds
  <2>3. 0 <= FirstSize + (MaxAudio - 2) /\ 0 <= MaxStreams - 1
    BY <2>2
  <2>4. count.jiffies + ToPutBack <= FirstSize + (IF Room THEN MaxAudio - 2 ELSE 2 * MaxAudio - 2)
        /\ count.streams <= (IF Room THEN MaxStreams - 1 ELSE MaxStreams)
    BY <2>1, <2>3
  <2> QED BY <2>2, <2>4 DEF RoomInv
<1> QED BY <1>1, <1>2, <1>3, <1>4 DEF IInv

LEMMA InvStep == IInv /\ [Next]_vars => IInv'
<1> SUFFICES ASSUME IInv, [Next]_vars PROVE IInv'
  OBVIOUS
<1>1. TypeOK'
  BY TypeStep DEF IInv
<1>2. VolumeInv'
  BY VolumeStep
<1>3. RoomInv' /\ SleepInv'
  BY <1>1, <1>2, RoomStep DEF VolumeInv
<1>4. OrderInv'
  BY <1>1, OrderStep
<1> QED BY <1>1, <1>2, <1>3, <1>4 DEF IInv, VolumeInv

(* The inductive invariant holds of StarvationRamper, the thread that fills *)
(* it and its flywheel ramp generator, whatever the sizes and the length of *)
(* what is played.                                                         *)
THEOREM Invariance == Spec => []IInv
<1>1. Init => IInv
  BY InvInit
<1>2. IInv /\ [Next]_vars => IInv'
  BY InvStep
<1> QED BY <1>1, <1>2, PTL DEF Spec

(* Every member of StarvationRamper and of its two threads keeps its range: *)
(* no ramp leaves its volumes, the drain counter wraps but stays 32 bits.  *)
THEOREM TypeCorrect == Spec => []TypeOK
<1>1. IInv => TypeOK
  BY DEF IInv
<1> QED BY <1>1, Invariance, PTL

(* PullerThread never sleeps beside room in the reservoir without a signal  *)
(* on the way, although it waits for iSem outside the lock.                *)
THEOREM PullerWoken == Spec => []PullerIsWoken
<1>1. IInv => PullerIsWoken
  BY DEF IInv, SleepInv, PullerIsWoken, At
<1> QED BY <1>1, Invariance, PTL

(* The reservoir outgrows iMaxJiffies by less than two messages.           *)
THEOREM Occupancy == Spec => []OccupancyBounded
<1>1. IInv => OccupancyBounded
  <2> SUFFICES ASSUME IInv PROVE OccupancyBounded
    OBVIOUS
  <2>1. TypeOK /\ PlaceInv /\ RoomInv
    BY DEF IInv
  <2>2. PICK s \in Sizes : Held2 <= Limit(s)
    BY <2>1 DEF RoomInv, Held2, Limit
  <2>3. s \in Nat /\ count.jiffies \in Int /\ count.streams \in Int /\ ToPutBack \in Nat
    BY <2>1, RoomTyped, Bounds
  <2>4. count.jiffies <= s + 2 * MaxAudio - 2
    BY <2>2, <2>3, Bounds DEF Held2, Limit
  <2>5. count.streams <= MaxStreams
    BY <2>1, <2>3, Bounds DEF RoomInv
  <2> QED BY <2>4, <2>5 DEF OccupancyBounded
<1> QED BY <1>1, Invariance, PTL

(* A flywheel ramp starts at the volume the listener heard last.           *)
THEOREM RampsAreContinuous == Spec => []RampsStartWhereHeard
<1>1. IInv => RampsStartWhereHeard
  BY DEF IInv, HeardInv, RampsStartWhereHeard, Loud
<1> QED BY <1>1, Invariance, PTL

(* Pull() waits for a message only after what was heard has ramped down, or *)
(* was ended by a MsgHalt or a stream.                                     *)
THEOREM DryIsQuiet == Spec => []NoAbruptEnd
<1>1. IInv => NoAbruptEnd
  <2> SUFFICES ASSUME IInv, At("dequeue"), iQueue = << >>, ~puller.iExit, ~animator.dropped
               PROVE  heard \in {Gap, Min}
    BY DEF NoAbruptEnd
  <2>1. TypeOK /\ HeardInv /\ ~Loud /\ ramper.iState # "FlywheelRamping"
    BY DEF IInv, DryInv, PlaceInv
  <2> QED BY <2>1, QuietUnlessLoud
<1> QED BY <1>1, Invariance, PTL

(* A MsgDrain is passed on only after what was heard has ramped down.      *)
THEOREM QuietDrains == Spec => []DrainsAreQuiet
<1>1. IInv => DrainsAreQuiet
  BY DEF IInv
<1> QED BY <1>1, Invariance, PTL

-----------------------------------------------------------------------------
(* A queue as what its messages count for: w units each, of which no        *)
(* message has more than MaxAudio.                                          *)
Weights == [Queued -> 0 .. MaxAudio]
Units(q, w) == {u \in (1 .. Len(q)) \X (1 .. MaxAudio) : u[2] <= w[q[u[1]]]}
Weight(q, w) == Cardinality(Units(q, w))

LEMMA WeightTyped ==
  ASSUME NEW q \in Seq(Queued), NEW w \in Weights
  PROVE  IsFiniteSet(Units(q, w)) /\ Weight(q, w) \in Nat
<1>1. IsFiniteSet(1 .. Len(q)) /\ IsFiniteSet(1 .. MaxAudio)
  <2>1. Len(q) \in Nat /\ MaxAudio \in Nat
    BY Bounds
  <2> QED BY <2>1, FS_Interval
<1>2. IsFiniteSet((1 .. Len(q)) \X (1 .. MaxAudio))
  BY <1>1, FS_Product
<1>3. IsFiniteSet(Units(q, w))
  BY <1>2, FS_Subset DEF Units
<1> QED BY <1>3, FS_CardinalityType DEF Weight

LEMMA WeightNone == ASSUME NEW w PROVE Weight(<< >>, w) = 0
<1>1. Units(<< >>, w) = {}
  BY DEF Units
<1> QED BY <1>1, FS_EmptySet DEF Weight

LEMMA BlockWeight ==
  ASSUME NEW i \in Nat, NEW n \in 0 .. MaxAudio
  PROVE  IsFiniteSet({i} \X (1 .. n)) /\ Cardinality({i} \X (1 .. n)) = n
<1>1. IsFiniteSet({i}) /\ Cardinality({i}) = 1
  BY FS_Singleton
<1>2. IsFiniteSet(1 .. n) /\ Cardinality(1 .. n) = n
  <2>1. n \in Nat /\ 1 .. n = 1 .. n
    BY Bounds
  <2>2. IsFiniteSet(1 .. n) /\ Cardinality(1 .. n) = IF 1 > n THEN 0 ELSE n - 1 + 1
    BY <2>1, FS_Interval
  <2> QED BY <2>1, <2>2
<1>3. IsFiniteSet({i} \X (1 .. n)) /\ Cardinality({i} \X (1 .. n)) = 1 * n
  BY ZenonT(30), <1>1, <1>2, FS_Product
<1> QED BY <1>3, Bounds

LEMMA DisjointUnion ==
  ASSUME NEW S, NEW T, IsFiniteSet(S), IsFiniteSet(T), S \intersect T = {}
  PROVE  Cardinality(S \union T) = Cardinality(S) + Cardinality(T)
<1>1. Cardinality(S) \in Nat /\ Cardinality(T) \in Nat
  BY FS_CardinalityType
<1>2. Cardinality(S \union T) = Cardinality(S) + Cardinality(T) - Cardinality(S \intersect T)
  BY FS_Union
<1>3. Cardinality(S \intersect T) = 0
  BY FS_EmptySet
<1> QED BY <1>1, <1>2, <1>3

LEMMA WeightAppend ==
  ASSUME NEW q \in Seq(Queued), NEW w \in Weights, NEW m \in Queued
  PROVE  Weight(Append(q, m), w) = Weight(q, w) + w[m]
<1> DEFINE r == Append(q, m)
           n == Len(q) + 1
           Last == {n} \X (1 .. w[m])
<1>1. /\ Len(q) \in Nat /\ n \in Nat /\ Len(r) = n /\ r[n] = m /\ \A i \in 1 .. Len(q) : r[i] = q[i]
      /\ r \in Seq(Queued)
  OBVIOUS
<1>2. w[m] \in 0 .. MaxAudio /\ MaxAudio \in Nat
  BY Bounds DEF Weights
<1> HIDE DEF r
<1>3. Units(r, w) = Units(q, w) \union Last
  BY <1>1, <1>2 DEF Units
<1>4. Units(q, w) \intersect Last = {}
  BY <1>1 DEF Units
<1>5. IsFiniteSet(Units(q, w)) /\ IsFiniteSet(Last) /\ Cardinality(Last) = w[m]
  BY <1>1, <1>2, WeightTyped, BlockWeight
<1> HIDE DEF Last
<1>6. Cardinality(Units(q, w) \union Last) = Cardinality(Units(q, w)) + Cardinality(Last)
  BY <1>4, <1>5, DisjointUnion
<1> QED BY <1>3, <1>5, <1>6 DEF Weight, r

LEMMA WeightTail ==
  ASSUME NEW q \in Seq(Queued), q # << >>, NEW w \in Weights
  PROVE  Weight(q, w) = w[Head(q)] + Weight(Tail(q), w)
<1> DEFINE r == Tail(q)
           First == {1} \X (1 .. w[Head(q)])
           Later == {u \in Units(q, w) : u[1] # 1}
           f == [u \in Later |-> <<u[1] - 1, u[2]>>]
<1>1. /\ Len(q) \in Nat \ {0} /\ Head(q) = q[1] /\ r \in Seq(Queued) /\ Len(r) = Len(q) - 1
      /\ \A i \in 1 .. Len(r) : r[i] = q[i + 1]
      /\ Head(q) \in Queued
  OBVIOUS
<1>2. w[Head(q)] \in 0 .. MaxAudio /\ MaxAudio \in Nat
  BY <1>1, Bounds DEF Weights
<1> HIDE DEF r
<1>3. Units(q, w) = First \union Later
  BY <1>1, <1>2 DEF Units
<1>4. First \intersect Later = {}
  OBVIOUS
<1>5. IsFiniteSet(First) /\ Cardinality(First) = w[Head(q)]
  BY <1>2, BlockWeight
<1>6. IsFiniteSet(Units(q, w)) /\ IsFiniteSet(Units(r, w))
  BY <1>1, WeightTyped
<1>7. IsFiniteSet(Later)
  BY <1>6, FS_Subset
<1>8. Cardinality(Units(q, w)) = Cardinality(First) + Cardinality(Later)
  <2> HIDE DEF First, Later
  <2> QED BY <1>3, <1>4, <1>5, <1>7, DisjointUnion
<1>9. ASSUME NEW u \in Later
      PROVE  /\ u = <<u[1], u[2]>> /\ u[1] \in 2 .. Len(q) /\ u[2] \in 1 .. MaxAudio
             /\ <<u[1] - 1, u[2]>> \in Units(r, w)
  <2>1. u \in (1 .. Len(q)) \X (1 .. MaxAudio) /\ u[1] # 1 /\ u[2] <= w[q[u[1]]]
    BY DEF Units
  <2>2. u = <<u[1], u[2]>> /\ u[1] \in 2 .. Len(q) /\ u[2] \in 1 .. MaxAudio
    BY <1>1, <2>1
  <2>3. u[1] - 1 \in 1 .. Len(r) /\ r[u[1] - 1] = q[u[1]]
    BY <1>1, <2>2
  <2> QED BY <2>1, <2>2, <2>3 DEF Units
<1>10. ASSUME NEW v \in Units(r, w) PROVE /\ v = <<v[1], v[2]>> /\ v[1] \in Nat
                                          /\ <<v[1] + 1, v[2]>> \in Later
  <2>1. v \in (1 .. Len(r)) \X (1 .. MaxAudio) /\ v[2] <= w[r[v[1]]]
    BY DEF Units
  <2>2. v[1] \in 1 .. Len(r) /\ v[2] \in 1 .. MaxAudio /\ r[v[1]] = q[v[1] + 1] /\ v = <<v[1], v[2]>>
    BY <1>1, <2>1
  <2>3. v[1] + 1 \in 1 .. Len(q) /\ v[1] + 1 # 1
    BY <1>1, <2>2
  <2> QED BY <2>1, <2>2, <2>3 DEF Units
<1>11. f \in Bijection(Later, Units(r, w))
  <2>1. f \in [Later -> Units(r, w)]
    BY <1>9
  <2>2. \A a, b \in Later : f[a] = f[b] => a = b
    <3> SUFFICES ASSUME NEW a \in Later, NEW b \in Later, f[a] = f[b] PROVE a = b
      OBVIOUS
    <3>1. <<a[1] - 1, a[2]>> = <<b[1] - 1, b[2]>>
      OBVIOUS
    <3>2. /\ a = <<a[1], a[2]>> /\ a[1] \in 2 .. Len(q) /\ b = <<b[1], b[2]>> /\ b[1] \in 2 .. Len(q)
      BY <1>9
    <3>3. a[1] = b[1] /\ a[2] = b[2]
      BY <1>1, <3>1, <3>2
    <3> QED BY <3>2, <3>3
  <2>3. \A v \in Units(r, w) : \E u \in Later : f[u] = v
    <3> SUFFICES ASSUME NEW v \in Units(r, w) PROVE \E u \in Later : f[u] = v
      OBVIOUS
    <3>1. v = <<v[1], v[2]>> /\ v[1] \in Nat /\ <<v[1] + 1, v[2]>> \in Later
      BY <1>10
    <3>2. f[<<v[1] + 1, v[2]>>] = <<v[1], v[2]>>
      BY <3>1
    <3> QED BY <3>1, <3>2
  <2> HIDE DEF f, Later
  <2> QED BY <2>1, <2>2, <2>3 DEF Bijection, Injection, Surjection, IsInjective
<1>12. Cardinality(Units(r, w)) = Cardinality(Later)
  <2>1. ExistsBijection(Later, Units(r, w))
    BY <1>11 DEF ExistsBijection
  <2> QED BY <1>7, <2>1, FS_Bijection
<1> QED BY <1>5, <1>8, <1>12 DEF Weight, r

LEMMA WeightPrefix ==
  ASSUME NEW q \in Seq(Queued), NEW w \in Weights, NEW m \in Queued
  PROVE  Weight(<<m>> \o q, w) = w[m] + Weight(q, w)
<1> DEFINE r == <<m>> \o q
<1>1. r \in Seq(Queued) /\ r # << >> /\ Head(r) = m
  OBVIOUS
<1>2. Tail(r) = q
  OBVIOUS
<1> HIDE DEF r
<1>3. Weight(r, w) = w[m] + Weight(q, w)
  BY <1>1, <1>2, WeightTail
<1> QED BY <1>3 DEF r

-----------------------------------------------------------------------------
(* What MsgReservoir counts is what is queued, and what the puller is about *)
(* to queue: m.n of a message that is heard, one of a stream.              *)
Jiffies == [m \in Queued |-> IF m.kind \in Audible THEN m.n ELSE 0]
Streams == [m \in Queued |-> IF m.kind = "Stream" THEN 1 ELSE 0]
Added(w) == IF puller.pc = "enqueue" THEN w[puller.msg] ELSE 0
CountInv == /\ count.jiffies = Weight(iQueue, Jiffies) + Added(Jiffies)
            /\ count.streams = Weight(iQueue, Streams) + Added(Streams)

(* While Pull() waits for a level, whoever reaches it tells.               *)
OccupancyInv == At("occupancy") =>
    /\ iStartOccupancyJiffies = Level
    /\ iSemStartOccupancy \/ count.jiffies < Level \/ puller.pc \in {"enqueue", "trigger"}

LEMMA WeightsTyped ==
  /\ Jiffies \in Weights /\ Streams \in Weights
  /\ \A m \in Queued : Jiffies[m] = (IF m.kind \in Audible THEN m.n ELSE 0)
                      /\ Streams[m] = (IF m.kind = "Stream" THEN 1 ELSE 0)
<1>1. ASSUME NEW m \in Queued PROVE m.kind \in Audible => m.n \in 0 .. MaxAudio
  BY MsgTyped, Bounds DEF Audible
<1>2. 0 \in 0 .. MaxAudio /\ 1 \in 0 .. MaxAudio
  BY Bounds
<1> QED BY <1>1, <1>2 DEF Jiffies, Streams, Weights

LEMMA CountNow ==
  ASSUME TypeOK, PlaceInv
  PROVE  /\ count \in Counts /\ count.jiffies \in Int /\ count.streams \in Int /\ iQueue \in Seq(Queued)
         /\ \A w \in Weights : Weight(iQueue, w) \in Nat /\ Added(w) \in Nat
<1>1. puller.pc = "enqueue" => puller.msg \in Queued
  BY MsgTyped DEF TypeOK, PlaceInv, PullerMembers
<1>2. ASSUME NEW w \in Weights PROVE Added(w) \in Nat
  <2>1. \A m \in Queued : w[m] \in Nat
    BY Bounds DEF Weights
  <2> QED BY <1>1, <2>1 DEF Added
<1> QED BY <1>2, WeightTyped DEF TypeOK, Counts

(* The counts in the next state, from the queue and the puller there.       *)
LEMMA CountNext ==
  ASSUME NEW q, iQueue' = q, NEW j, NEW s,
         j = IF puller'.pc = "enqueue" THEN Jiffies[puller'.msg] ELSE 0,
         s = IF puller'.pc = "enqueue" THEN Streams[puller'.msg] ELSE 0,
         count'.jiffies = Weight(q, Jiffies) + j, count'.streams = Weight(q, Streams) + s
  PROVE  CountInv'
<1>1. Weight(iQueue, Jiffies)' = Weight(q, Jiffies) /\ Weight(iQueue, Streams)' = Weight(q, Streams)
  BY DEF Weight, Units
<1>2. Added(Jiffies)' = j /\ Added(Streams)' = s
  BY DEF Added
<1> QED BY <1>1, <1>2 DEF CountInv

LEMMA CountFrame ==
  ASSUME CountInv, UNCHANGED iQueue, count'.jiffies = count.jiffies, count'.streams = count.streams,
         UNCHANGED puller \/ (puller.pc # "enqueue" /\ puller'.pc # "enqueue")
  PROVE  CountInv'
<1>1. count'.jiffies = Weight(iQueue, Jiffies) + Added(Jiffies)
      /\ count'.streams = Weight(iQueue, Streams) + Added(Streams)
  BY DEF CountInv
<1>2. Added(Jiffies) = (IF puller'.pc = "enqueue" THEN Jiffies[puller'.msg] ELSE 0)
      /\ Added(Streams) = (IF puller'.pc = "enqueue" THEN Streams[puller'.msg] ELSE 0)
  BY DEF Added
<1> HIDE DEF CountInv
<1> QED BY <1>1, <1>2, CountNext

(* The puller lets a message in, and queues it: it is counted before that.  *)
LEMMA PullerCount ==
  ASSUME TypeOK, PlaceInv, CountInv, (\E m \in Queued : PullerPulls(m)) \/ PullerSteps
  PROVE  CountInv'
<1>0. /\ count.jiffies = Weight(iQueue, Jiffies) + Added(Jiffies)
      /\ count.streams = Weight(iQueue, Streams) + Added(Streams)
  BY DEF CountInv
<1>1. CASE \E m \in Queued : PullerPulls(m)
  <2> PICK m \in Queued : PullerPulls(m)
    BY <1>1
  <2>1. Added(Jiffies) = 0 /\ Added(Streams) = 0 /\ iQueue' = iQueue
        /\ puller'.pc = "enqueue" /\ puller'.msg = m
    BY DEF PullerPulls, Added, TypeOK, PullerMembers
  <2>2. /\ count'.jiffies = IF m.kind \in Audible THEN count.jiffies + m.n ELSE count.jiffies
        /\ count'.streams = IF m.kind = "Stream" THEN count.streams + 1 ELSE count.streams
    BY DEF PullerPulls, TypeOK, Counts
  <2>3. Weight(iQueue, Jiffies) \in Nat /\ Weight(iQueue, Streams) \in Nat
    BY CountNow, WeightsTyped
  <2>4. /\ Jiffies[m] = (IF m.kind \in Audible THEN m.n ELSE 0) /\ (m.kind \in Audible => m.n \in Int)
        /\ Streams[m] = (IF m.kind = "Stream" THEN 1 ELSE 0)
    BY WeightsTyped, MsgTyped, Bounds DEF Audible
  <2>5. count'.jiffies = Weight(iQueue, Jiffies) + Jiffies[m] /\ count'.streams = Weight(iQueue, Streams) + Streams[m]
    BY <1>0, <2>1, <2>2, <2>3, <2>4
  <2> QED BY <2>1, <2>5, CountNext
<1>2. CASE Enqueue
  <2>1. puller.msg \in Queued
    BY <1>2, MsgTyped DEF Enqueue, PlaceInv, TypeOK, PullerMembers
  <2>2. iQueue' = Append(iQueue, puller.msg) /\ puller'.pc # "enqueue" /\ count' = count
    BY <1>2 DEF Enqueue, UnlessFull, TypeOK, PullerMembers
  <2>3. Added(Jiffies) = Jiffies[puller.msg] /\ Added(Streams) = Streams[puller.msg]
    BY <1>2 DEF Enqueue, Added
  <2>4. /\ Weight(Append(iQueue, puller.msg), Jiffies) = Weight(iQueue, Jiffies) + Jiffies[puller.msg]
        /\ Weight(Append(iQueue, puller.msg), Streams) = Weight(iQueue, Streams) + Streams[puller.msg]
    BY <2>1, WeightsTyped, CountNow, WeightAppend
  <2>5. /\ Weight(iQueue, Jiffies) \in Nat /\ Weight(iQueue, Streams) \in Nat
        /\ Added(Jiffies) \in Nat /\ Added(Streams) \in Nat
    BY CountNow, WeightsTyped
  <2>6. /\ count'.jiffies = Weight(Append(iQueue, puller.msg), Jiffies) + 0
        /\ count'.streams = Weight(Append(iQueue, puller.msg), Streams) + 0
    BY <1>0, <2>2, <2>3, <2>4, <2>5
  <2> QED BY <2>2, <2>6, CountNext
<1>3. CASE Trigger \/ Wake
  <2>1. UNCHANGED <<iQueue, count>> /\ puller.pc # "enqueue" /\ puller'.pc # "enqueue"
    BY <1>3 DEF Trigger, Wake, UnlessFull, TypeOK, PullerMembers
  <2> QED BY <2>1, CountFrame
<1> QED BY <1>1, <1>2, <1>3 DEF PullerSteps

LEMMA DequeueCount == ASSUME TypeOK, PlaceInv, CountInv, Dequeue PROVE CountInv'
<1> DEFINE m == Head(iQueue)
<1>0. /\ count.jiffies = Weight(iQueue, Jiffies) + Added(Jiffies)
      /\ count.streams = Weight(iQueue, Streams) + Added(Streams)
  BY DEF CountInv
<1>1. m \in Queued /\ iQueue # << >> /\ iQueue' = Tail(iQueue) /\ puller' = puller
  BY DequeueTyped DEF Dequeue, UpstreamUnchanged
<1>2. /\ count'.jiffies = IF m.kind \in Audible THEN count.jiffies - m.n ELSE count.jiffies
      /\ count'.streams = IF m.kind = "Stream" THEN count.streams - 1 ELSE count.streams
  BY DEF Dequeue, TypeOK, Counts
<1> HIDE DEF m
<1>3. /\ Jiffies[m] = (IF m.kind \in Audible THEN m.n ELSE 0) /\ (m.kind \in Audible => m.n \in Int)
      /\ Streams[m] = (IF m.kind = "Stream" THEN 1 ELSE 0)
  BY <1>1, WeightsTyped, MsgTyped, Bounds DEF Audible
<1>4. /\ Weight(iQueue, Jiffies) = Jiffies[m] + Weight(Tail(iQueue), Jiffies)
      /\ Weight(iQueue, Streams) = Streams[m] + Weight(Tail(iQueue), Streams)
  BY <1>1, WeightsTyped, CountNow, WeightTail DEF m
<1>5. Weight(Tail(iQueue), Jiffies) \in Nat /\ Weight(Tail(iQueue), Streams) \in Nat
  <2>1. Tail(iQueue) \in Seq(Queued)
    BY <1>1, CountNow
  <2> QED BY <2>1, WeightTyped, WeightsTyped
<1>6. Added(Jiffies) \in Nat /\ Added(Streams) \in Nat
  BY CountNow, WeightsTyped
<1>7. /\ count'.jiffies = Weight(Tail(iQueue), Jiffies) + Added(Jiffies)
      /\ count'.streams = Weight(Tail(iQueue), Streams) + Added(Streams)
  BY <1>0, <1>2, <1>3, <1>4, <1>5, <1>6
<1>8. Added(Jiffies) = (IF puller'.pc = "enqueue" THEN Jiffies[puller'.msg] ELSE 0)
      /\ Added(Streams) = (IF puller'.pc = "enqueue" THEN Streams[puller'.msg] ELSE 0)
  BY <1>1 DEF Added
<1> QED BY <1>1, <1>7, <1>8, CountNext

(* A message goes back to the head of the queue, counted again.             *)
LEMMA PutBackCount ==
  ASSUME TypeOK, PlaceInv, CountInv, NEW m \in Queued, iQueue' = <<m>> \o iQueue, UNCHANGED puller,
         count'.jiffies = count.jiffies + Jiffies[m], count'.streams = count.streams + Streams[m]
  PROVE  CountInv'
<1>0. /\ count.jiffies = Weight(iQueue, Jiffies) + Added(Jiffies)
      /\ count.streams = Weight(iQueue, Streams) + Added(Streams)
  BY DEF CountInv
<1>1. /\ Weight(<<m>> \o iQueue, Jiffies) = Jiffies[m] + Weight(iQueue, Jiffies)
      /\ Weight(<<m>> \o iQueue, Streams) = Streams[m] + Weight(iQueue, Streams)
  BY WeightsTyped, CountNow, WeightPrefix
<1>2. /\ Weight(iQueue, Jiffies) \in Nat /\ Weight(iQueue, Streams) \in Nat
      /\ Added(Jiffies) \in Nat /\ Added(Streams) \in Nat
  BY CountNow, WeightsTyped
<1>3. Jiffies[m] \in Int /\ Streams[m] \in Int
  BY WeightsTyped, Bounds DEF Weights
<1>4. /\ count'.jiffies = Weight(<<m>> \o iQueue, Jiffies) + Added(Jiffies)
      /\ count'.streams = Weight(<<m>> \o iQueue, Streams) + Added(Streams)
  BY <1>0, <1>1, <1>2, <1>3
<1>5. Added(Jiffies) = (IF puller'.pc = "enqueue" THEN Jiffies[puller'.msg] ELSE 0)
      /\ Added(Streams) = (IF puller'.pc = "enqueue" THEN Streams[puller'.msg] ELSE 0)
  BY DEF Added
<1> QED BY <1>4, <1>5, CountNext

LEMMA HandlersCount == ASSUME TypeOK, PlaceInv, CountInv, Handlers PROVE CountInv'
<1>0. animator.msg \in Queued /\ puller' = puller /\ count.jiffies \in Int /\ count.streams \in Int
  BY HandTyped, CountNow DEF Handlers, ProcessMsgOut, ProcessDrain, ProcessSilence, ProcessAudio, Discard, UpstreamUnchanged
<1>1. CASE ProcessMsgOut \/ Discard
  <2>1. iQueue' = iQueue /\ count'.jiffies = count.jiffies /\ count'.streams = count.streams
    BY <1>1 DEF ProcessMsgOut, Discard, TypeOK, Counts
  <2> QED BY <1>0, <2>1, CountFrame
<1>2. CASE ProcessDrain
  <2>1. count'.jiffies = count.jiffies /\ count'.streams = count.streams
        /\ (iQueue' = iQueue \/ iQueue' = <<animator.msg>> \o iQueue)
    BY <1>2 DEF ProcessDrain, TypeOK, Counts
  <2>2. Jiffies[animator.msg] = 0 /\ Streams[animator.msg] = 0
    BY <1>0, <1>2, WeightsTyped DEF ProcessDrain, Audible
  <2>3. count'.jiffies = count.jiffies + Jiffies[animator.msg] /\ count'.streams = count.streams + Streams[animator.msg]
    BY <1>0, <2>1, <2>2
  <2> QED BY <1>0, <2>1, <2>3, CountFrame, PutBackCount
<1>3. CASE ProcessSilence \/ ProcessAudio
  <2>1. /\ animator.msg.kind \in Audible /\ iQueue' = Rest(animator.msg) \o iQueue
        /\ count'.jiffies = count.jiffies + animator.msg.n - 1 /\ count'.streams = count.streams
    BY <1>3 DEF ProcessSilence, ProcessAudio, Audible, TypeOK, Counts
  <2>2. animator.msg.n \in Nat \ {0}
    BY <1>0, <2>1, MsgTyped, Bounds DEF Audible
  <2>3. CASE animator.msg.n > 1
    <3> DEFINE m == Msg(animator.msg.kind, animator.msg.n - 1)
    <3>1. animator.msg.kind = "Audio" /\ animator.msg.n \in 1 .. MaxAudio
      BY <1>0, <2>1, <2>3, MsgTyped DEF Audible
    <3>2. m \in Queued /\ m.kind = "Audio" /\ m.n = animator.msg.n - 1
      BY <2>3, <3>1, Bounds DEF Queued, Msg
    <3>3. iQueue' = <<m>> \o iQueue
      BY <2>1, <2>3 DEF Rest
    <3> HIDE DEF m
    <3>4. Jiffies[m] = animator.msg.n - 1 /\ Streams[m] = 0
      BY <3>2, WeightsTyped DEF Audible
    <3>5. count'.jiffies = count.jiffies + Jiffies[m] /\ count'.streams = count.streams + Streams[m]
      BY <1>0, <2>1, <2>2, <3>4
    <3> QED BY <1>0, <3>2, <3>3, <3>5, PutBackCount
  <2>4. CASE ~(animator.msg.n > 1)
    <3>1. iQueue' = iQueue /\ animator.msg.n = 1
      BY <2>1, <2>2, <2>4 DEF Rest, TypeOK
    <3>2. count'.jiffies = count.jiffies
      BY <1>0, <2>1, <3>1
    <3> QED BY <1>0, <2>1, <3>1, <3>2, CountFrame
  <2> QED BY <2>3, <2>4
<1> QED BY <1>1, <1>2, <1>3 DEF Handlers

LEMMA CountStep == IInv /\ CountInv /\ [Next]_vars => CountInv'
<1> SUFFICES ASSUME IInv, CountInv, [Next]_vars PROVE CountInv'
  OBVIOUS
<1>0. TypeOK /\ PlaceInv
  BY DEF IInv
<1>1. CASE \/ Generator \/ PullBlocks \/ Pull \/ OccupancyReached \/ FlywheelWait \/ FlywheelAudio
           \/ Signal \/ PullAgain \/ WaitForOccupancy \/ OccupancyAwaited \/ DrainAllAudio \/ UNCHANGED vars
  <2>1. UNCHANGED <<iQueue, count, puller>>
    BY <1>1 DEF Generator, Ramp, EndBlock, RampEnds, SignalEnd, GeneratorUnchanged, PullBlocks, Pull,
       OccupancyReached, FlywheelWait, FlywheelAudio, Signal, PullAgain, WaitForOccupancy, OccupancyAwaited,
       DrainAllAudio, UpstreamUnchanged, vars
  <2> QED BY <2>1, CountFrame
<1> QED BY <1>0, <1>1, Steps, PullerCount, DequeueCount, HandlersCount

-----------------------------------------------------------------------------
(* Waiting for a level.                                                    *)

LEMMA LevelTyped == TypeOK => /\ count.jiffies \in Int /\ iStartOccupancyJiffies \in {0, Level}
                              /\ Level \in Nat \ {0} /\ puller \in PullerMembers /\ animator \in AnimatorMembers
  BY Bounds DEF TypeOK, Counts

LEMMA LeavesOccupancy == ASSUME animator'.pc # "occupancy" PROVE OccupancyInv'
  BY DEF OccupancyInv, At

LEMMA PullerOccupancy ==
  ASSUME TypeOK, OccupancyInv, (\E m \in Queued : PullerPulls(m)) \/ PullerSteps
  PROVE  OccupancyInv'
<1>0. animator' = animator /\ iStartOccupancyJiffies' = iStartOccupancyJiffies
  BY DEF PullerPulls, PullerSteps, Enqueue, Trigger, Wake
<1> SUFFICES ASSUME At("occupancy")
             PROVE  iSemStartOccupancy' \/ count'.jiffies < Level \/ puller'.pc \in {"enqueue", "trigger"}
  BY <1>0 DEF OccupancyInv, At
<1>1. /\ iStartOccupancyJiffies = Level
      /\ iSemStartOccupancy \/ count.jiffies < Level \/ puller.pc \in {"enqueue", "trigger"}
  BY DEF OccupancyInv
<1>2. CASE \E m \in Queued : PullerPulls(m)
  <2>1. puller'.pc = "enqueue"
    BY ZenonT(30), <1>2 DEF PullerPulls, TypeOK, PullerMembers
  <2> QED BY <2>1
<1>3. CASE Enqueue
  <2>1. CASE LevelReached
    <3>1. puller'.pc = "trigger"
      BY <1>3, <2>1, LevelTyped DEF Enqueue, PullerMembers
    <3> QED BY <3>1
  <2>2. CASE ~LevelReached
    <3>1. count.jiffies < Level
      BY <1>1, <2>2, LevelTyped DEF LevelReached
    <3> QED BY <1>3, <3>1 DEF Enqueue
  <2> QED BY <2>1, <2>2
<1>4. CASE Trigger
  BY <1>4 DEF Trigger
<1>5. CASE Wake
  BY <1>1, <1>5 DEF Wake
<1> QED BY <1>2, <1>3, <1>4, <1>5 DEF PullerSteps

LEMMA TryLeaves ==
  ASSUME TypeOK, NEW r \in RamperMembers, TryGetAudio(r) PROVE animator'.pc # "occupancy"
  BY TryEffect, GotoEffect DEF TypeOK

LEMMA StarveLeaves == ASSUME TypeOK, Starve PROVE animator'.pc # "occupancy"
<1>1. Draining \in RamperMembers
  BY DrainingTyped DEF TypeOK
<1> QED BY <1>1, StarveCases, TryLeaves, GotoEffect DEF TypeOK

LEMMA OccupancyStep == IInv /\ OccupancyInv /\ [Next]_vars => OccupancyInv'
<1> SUFFICES ASSUME IInv, OccupancyInv, [Next]_vars PROVE OccupancyInv'
  OBVIOUS
<1>0. TypeOK
  BY DEF IInv
<1>1. CASE Generator \/ DrainAllAudio \/ UNCHANGED vars
  <2>1. UNCHANGED <<animator, puller, count, iStartOccupancyJiffies, iSemStartOccupancy>>
    BY <1>1 DEF Generator, Ramp, EndBlock, RampEnds, SignalEnd, GeneratorUnchanged, DrainAllAudio, vars
  <2> QED BY <2>1 DEF OccupancyInv, At
<1>2. CASE PullBlocks
  <2>1. iStartOccupancyJiffies = Level /\ count.jiffies < Level
    BY <1>0, <1>2, LevelTyped DEF PullBlocks, Armed
  <2> QED BY <1>2, <2>1 DEF PullBlocks, OccupancyInv
<1>3. CASE Pull \/ OccupancyReached
  BY <1>0, <1>3, StarveLeaves, LeavesOccupancy DEF Pull, OccupancyReached
<1>4. CASE FlywheelWait \/ FlywheelAudio
  <2>1. animator'.pc # "occupancy"
    BY <1>0, <1>4, ReturnsEffect, GotoEffect DEF FlywheelWait, FlywheelAudio, WithoutFlywheel, TypeOK
  <2> QED BY <2>1, LeavesOccupancy
<1>5. CASE Dequeue
  <2>1. animator'.pc # "occupancy"
    BY <1>0, <1>5 DEF Dequeue, TypeOK, AnimatorMembers
  <2> QED BY <2>1, LeavesOccupancy
<1>6. CASE Handlers
  <2>1. animator'.pc = "wake"
    BY <1>0, <1>6, ProcessedEffect
       DEF Handlers, ProcessMsgOut, ProcessDrain, ProcessSilence, ProcessAudio, Discard, TypeOK
  <2> QED BY <2>1, LeavesOccupancy
<1>7. CASE Signal
  <2>1. animator'.pc # "occupancy"
    BY <1>0, <1>7, TryLeaves, ReturnsEffect DEF Signal, TypeOK
  <2> QED BY <2>1, LeavesOccupancy
<1>8. CASE PullAgain \/ WaitForOccupancy \/ OccupancyAwaited
  <2>1. animator'.pc # "occupancy"
    <3>1. CASE PullAgain
      BY <1>0, <3>1, GotoEffect DEF PullAgain, TypeOK
    <3>2. CASE WaitForOccupancy
      BY <1>0, <3>2, GotoEffect DEF WaitForOccupancy, TypeOK
    <3>3. CASE OccupancyAwaited
      BY <1>0, <3>3 DEF OccupancyAwaited, TypeOK, AnimatorMembers
    <3> QED BY <1>8, <3>1, <3>2, <3>3
  <2> QED BY <2>1, LeavesOccupancy
<1> QED BY <1>0, <1>1, <1>2, <1>3, <1>4, <1>5, <1>6, <1>7, <1>8, Steps, PullerOccupancy

(* Two threads that wait for each other: with an empty queue the counts are *)
(* 0 and the reservoir is not full; and a level that IsFull() exceeds has   *)
(* been reached, of which the puller has told.                              *)
LEMMA NeverBoth == ASSUME IInv, CountInv, OccupancyInv PROVE NeverBothBlocked
<1> SUFFICES ASSUME puller.pc = "sleep", ~iSem
             PROVE  /\ ~(At("dequeue") /\ iQueue = << >>)
                    /\ At("occupancy") => iSemStartOccupancy \/ count.streams = MaxStreams
  BY DEF NeverBothBlocked
<1>0. TypeOK /\ PlaceInv /\ SleepInv
  BY DEF IInv
<1>1. IsFull \/ At("process") \/ At("wake")
  BY <1>0 DEF SleepInv
<1>2. count.jiffies \in Int /\ iMaxJiffies \in Sizes /\ iMaxJiffies \in Nat \ {0} /\ MaxStreams \in Nat \ {0}
      /\ Level <= iMaxJiffies /\ Level \in Nat
  BY <1>0, Bounds, SizeAssumption DEF TypeOK, Counts
<1>3. ASSUME At("dequeue"), iQueue = << >> PROVE FALSE
  <2>1. count.jiffies = 0 /\ count.streams = 0
    BY <1>3, WeightNone DEF CountInv, Added
  <2>2. ~IsFull
    BY <1>2, <2>1 DEF IsFull
  <2> QED BY <1>1, <1>3, <2>2 DEF At
<1>4. ASSUME At("occupancy") PROVE iSemStartOccupancy \/ count.streams = MaxStreams
  <2>1. IsFull
    BY <1>1, <1>4 DEF At
  <2>2. iSemStartOccupancy \/ count.jiffies < Level
    BY <1>4 DEF OccupancyInv
  <2> QED BY <1>2, <2>1, <2>2 DEF IsFull
<1> QED BY <1>3, <1>4

(* PullerThread and the animator are never both asleep for good: neither on *)
(* an empty reservoir nor on a level that WaitForOccupancy asked for, but   *)
(* for a reservoir full of streams.                                        *)
THEOREM NeverStuck == Spec => []NeverBothBlocked
<1> DEFINE Inv == IInv /\ CountInv /\ OccupancyInv
<1>1. Init => Inv
  <2> SUFFICES ASSUME Init PROVE CountInv /\ OccupancyInv
    BY InvInit
  <2>1. OccupancyInv
    BY DEF Init, OccupancyInv, At
  <2>2. iQueue = << >> /\ count.jiffies = 0 /\ count.streams = 0 /\ puller.pc # "enqueue"
    BY DEF Init
  <2> QED BY <2>1, <2>2, WeightNone DEF CountInv, Added
<1>2. Inv /\ [Next]_vars => Inv'
  BY InvStep, CountStep, OccupancyStep
<1>3. Inv => NeverBothBlocked
  BY NeverBoth
<1> QED BY <1>1, <1>2, <1>3, PTL DEF Spec

=============================================================================
