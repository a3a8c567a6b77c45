--------------------------- MODULE Stopper_proofs ---------------------------
(***************************************************************************)
(* Stopper, for every ramp length, message size and number of stops: its   *)
(* members keep their types, no wake-up is lost, IdManager is asked about  *)
(* every stream once, its events are those of StopperEvents and say when   *)
(* audio runs, and the volume never jumps.                                 *)
(***************************************************************************)
EXTENDS Stopper, TLAPS

-----------------------------------------------------------------------------
(* Constants of the code in the sets they belong to.                       *)

LEMMA Values ==
    /\ ERunning \in States /\ ERampingDown \in States /\ ERampingUp \in States
    /\ EPaused \in States /\ EStopped \in States /\ EFlushing \in States
    /\ EEventNone \in Events /\ EEventPlaying \in Events
    /\ EEventPaused \in Events /\ EEventStopped \in Events
    /\ << >> \in Queues
    /\ 0 \in Volumes /\ kMax \in Volumes
    /\ kIdInvalid \in 1 .. kIdInvalid
    /\ 0 \in 0 .. Wrap - 1
    /\ \A r \in {RampLong, RampShort} : r \in 0 .. Wrap - 1 /\ r > 0
  BY RampAssumption, HaltAssumption DEF States, Events, Queues, Volumes, kIdInvalid

-----------------------------------------------------------------------------
(* The helpers keep the members in range.                                  *)

LEMMA HandlersTyped ==
    ASSUME NEW s \in Members
    PROVE  /\ \A e \in Events : ScheduleEvent(s, e) \in Members
           /\ HandlePaused(s) \in Members
           /\ HandleStopped(s) \in Members
           /\ NewStream(s) \in Members
  <1>1. \A e \in Events : ScheduleEvent(s, e) \in Members
    BY DEF Members, ScheduleEvent
  <1>2. HandlePaused(s) \in Members
    BY Values DEF Members, HandlePaused, ScheduleEvent
  <1>3. HandleStopped(s) \in Members
    BY Values DEF Members, HandleStopped, ScheduleEvent
  <1>4. NewStream(s) \in Members
    BY Values DEF Members, NewStream
  <1> QED BY <1>1, <1>2, <1>3, <1>4

LEMMA RampCompletedTyped ==
    ASSUME NEW s \in Members
    PROVE  RampCompleted(s) \in Members
  <1>1. [s EXCEPT !.iState = ERunning] \in Members
    BY Values DEF Members
  <1>2. [s EXCEPT !.iState = ERunning, !.iFlushStream = TRUE] \in Members
    BY Values DEF Members
  <1>3. \A t \in Members : [t EXCEPT !.iHaltPending = TRUE] \in Members
    BY DEF Members
  <1> QED BY <1>1, <1>2, <1>3, HandlersTyped DEF RampCompleted

LEMMA OkToPlayTyped ==
    ASSUME NEW s \in Members, NEW a \in Answers
    PROVE  OkToPlay(s, a) \in Members /\ CheckPlayable(s, a) \in Members
  <1> DEFINE asked == [s EXCEPT !.iCheckedStreamPlayable = TRUE, !.owed = @ - 1]
             flush == [asked EXCEPT !.iState = EFlushing, !.iFlushStream = TRUE]
  <1>1. asked \in Members
    <2>1. s.owed - 1 \in Int
      BY DEF Members
    <2> QED BY <2>1 DEF Members
  <1>2. flush \in Members
    BY <1>1, Values DEF Members
  <1>3. \A t \in Members : [t EXCEPT !.iHaltPending = TRUE] \in Members
    BY DEF Members
  <1>4. ScheduleEvent(asked, EEventPlaying) \in Members /\ HandleStopped(asked) \in Members
    BY <1>1, HandlersTyped, Values
  <1> HIDE DEF asked, flush
  <1>5. OkToPlay(s, a) = CASE s.iQuit -> flush
         [] ~s.iQuit /\ a = ePlayYes -> ScheduleEvent(asked, EEventPlaying)
         [] ~s.iQuit /\ a = ePlayNo -> [flush EXCEPT !.iHaltPending = TRUE]
         [] OTHER -> [HandleStopped(asked) EXCEPT !.iHaltPending = TRUE]
    BY DEF OkToPlay, asked, flush
  <1>6. OkToPlay(s, a) \in Members
    BY <1>2, <1>3, <1>4, <1>5
  <1> QED BY <1>6 DEF CheckPlayable

LEMMA RampsTyped ==
    ASSUME NEW s \in Members
    PROVE  /\ \A st \in States : ReverseRamp(s, st) \in Members
           /\ StartRampDown(s) \in Members
  <1>1. \A r \in Int : r % Wrap \in 0 .. Wrap - 1
    BY RampAssumption
  <1>2. s.iRampJiffies - s.iRemainingRampSize \in Int
    BY RampAssumption DEF Members
  <1>3. s.iRampJiffies \in 0 .. Wrap - 1
    BY Values DEF Members
  <1>4. ASSUME NEW st \in States
        PROVE  ReverseRamp(s, st) \in Members
    <2> DEFINE r == (s.iRampJiffies - s.iRemainingRampSize) % Wrap
    <2>1. r \in 0 .. Wrap - 1
      BY <1>1, <1>2
    <2>2. ReverseRamp(s, st) = [s EXCEPT !.iState = st, !.iRemainingRampSize = r]
      BY DEF ReverseRamp
    <2> HIDE DEF r
    <2> QED BY <2>1, <2>2 DEF Members
  <1>5. StartRampDown(s) \in Members
    BY <1>3, Values DEF Members, StartRampDown
  <1> QED BY <1>4, <1>5

LEMMA ClientCallsTyped ==
    ASSUME NEW s \in Members
    PROVE  /\ Played(s) \in Members
           /\ Paused(s) \in Members
           /\ Stopped(s) \in Members
  <1> DEFINE back == ReverseRamp(s, ERampingUp)
             up == [back EXCEPT !.iState = IF back.iRemainingRampSize = 0
                                           THEN ERunning ELSE ERampingUp]
             resumed == [s EXCEPT !.iState = ERampingUp, !.iCurrentRampValue = 0,
                                  !.iRemainingRampSize = s.iRampJiffies, !.iSem = @ + 1]
             restarted == [s EXCEPT !.iState = ERunning, !.iSem = @ + 1]
             ramped == CASE s.iState = ERampingDown -> up
                         [] s.iState = EPaused -> resumed
                         [] s.iState = EStopped -> restarted
                         [] OTHER -> s
  <1>1. s.iSem + 1 \in Nat
    BY DEF Members
  <1>2. s.iRampJiffies \in 0 .. Wrap - 1
    BY Values DEF Members
  <1>3. back \in Members
    BY RampsTyped, Values
  <1>4. up \in Members
    <2> HIDE DEF back
    <2> QED BY <1>3, Values DEF Members
  <1>5. resumed \in Members
    BY <1>1, <1>2, Values DEF Members
  <1>6. restarted \in Members
    BY <1>1, Values DEF Members
  <1>7. Played(s) \in Members
    <2>1. Played(s) = ScheduleEvent([ramped EXCEPT !.iTargetHaltId = kIdInvalid], EEventPlaying)
      BY DEF Played
    <2> HIDE DEF up, resumed, restarted
    <2>2. ramped \in Members
      BY <1>4, <1>5, <1>6
    <2> HIDE DEF ramped
    <2>3. [ramped EXCEPT !.iTargetHaltId = kIdInvalid] \in Members
      BY <2>2, Values DEF Members
    <2> QED BY <2>1, <2>3, HandlersTyped, Values
  <1>8. Paused(s) \in Members
    BY HandlersTyped, RampsTyped, Values DEF Paused
  <1>9. Stopped(s) \in Members
    <2>1. [s EXCEPT !.iFlushStream = TRUE, !.iState = EFlushing, !.iSem = @ + 1] \in Members
      BY <1>1, Values DEF Members
    <2> QED BY <2>1, HandlersTyped, RampsTyped, Values DEF Stopped
  <1> QED BY <1>7, <1>8, <1>9

-----------------------------------------------------------------------------
(* Ramps.                                                                  *)

LEMMA RampToTyped ==
    ASSUME NEW s \in Members, NEW size \in Nat, s.iRemainingRampSize > 0
    PROVE  RampTo(s, size) \in Volumes
  <1> DEFINE down == s.iState = ERampingDown
             value == s.iCurrentRampValue
             left == IF down THEN value ELSE kMax - value
             delta == (left * size + s.iRemainingRampSize - 1) \div s.iRemainingRampSize
             step == IF delta > left THEN left ELSE delta
  <1>1. value \in 0 .. kMax /\ kMax \in Nat
    BY RampAssumption DEF Members, Volumes
  <1>2. left \in 0 .. kMax
    BY <1>1
  <1>3. s.iRemainingRampSize \in Nat \ {0}
    BY RampAssumption DEF Members
  <1>4. delta \in Nat
    <2> HIDE DEF left
    <2>1. left * size \in Nat
      BY <1>2
    <2> DEFINE total == left * size + s.iRemainingRampSize - 1
    <2>2. total \in Nat
      BY <2>1, <1>3
    <2> HIDE DEF total
    <2>3. total \div s.iRemainingRampSize \in Nat
      BY <2>2, <1>3
    <2> QED BY <2>3 DEF total
  <1>5. step \in 0 .. left
    <2> HIDE DEF left, delta
    <2> QED BY <1>2, <1>4
  <1>6. RampTo(s, size) = IF down THEN value - step ELSE value + step
    BY DEF RampTo
  <1> HIDE DEF step
  <1> QED BY <1>1, <1>5, <1>6 DEF Volumes

LEMMA SetRampTyped ==
    ASSUME NEW s \in Members, NEW size \in Nat, NEW muted \in BOOLEAN,
           s.iRemainingRampSize = 0 \/ size <= s.iRemainingRampSize
    PROVE  SetRamp(s, size, muted) \in Members
  <1>1. CASE s.iRemainingRampSize = 0
    BY <1>1 DEF SetRamp
  <1>2. CASE s.iRemainingRampSize > 0
    <2> DEFINE end == RampTo(s, size)
               rest == IF end = (IF s.iState = ERampingDown THEN 0 ELSE kMax)
                       THEN 0 ELSE s.iRemainingRampSize - size
               rest2 == IF s.iState = ERampingDown THEN 0 ELSE s.iRemainingRampSize
    <2>1. end \in Volumes
      BY <1>2, RampToTyped
    <2> HIDE DEF end
    <2>2. rest \in 0 .. Wrap - 1 /\ rest2 \in 0 .. Wrap - 1
      BY <1>2, RampAssumption DEF Members
    <2> HIDE DEF rest, rest2
    <2>3. [s EXCEPT !.iCurrentRampValue = end, !.iRemainingRampSize = rest] \in Members
      BY <2>1, <2>2 DEF Members
    <2>4. [s EXCEPT !.iCurrentRampValue = 0, !.iRemainingRampSize = rest2] \in Members
      BY <2>2, Values DEF Members
    <2>5. \/ SetRamp(s, size, muted) = [s EXCEPT !.iCurrentRampValue = end, !.iRemainingRampSize = rest]
          \/ SetRamp(s, size, muted) = [s EXCEPT !.iCurrentRampValue = 0, !.iRemainingRampSize = rest2]
      BY <1>2 DEF SetRamp, end, rest, rest2
    <2> QED BY <2>3, <2>4, <2>5
  <1>3. s.iRemainingRampSize = 0 \/ s.iRemainingRampSize > 0
    BY RampAssumption DEF Members
  <1> QED BY <1>1, <1>2, <1>3

LEMMA SplitOffTyped ==
    ASSUME NEW s \in Members, NEW size \in 1 .. MaxAudio, NEW muted \in BOOLEAN
    PROVE  /\ SplitOff(s, size, muted) \in Queues
           /\ SplitOff(s, size, muted) # << >> =>
                 s.iRemainingRampSize \in 1 .. size
           /\ SplitOff(s, size, muted) = << >> =>
                 s.iRemainingRampSize = 0 \/ size <= s.iRemainingRampSize
  <1> DEFINE r == s.iRemainingRampSize
             m == muted \/ s.iState = ERampingDown
             rest == [size |-> size - r, muted |-> m]
  <1>1. r \in Nat /\ size \in 1 .. MaxAudio /\ MaxAudio \in Nat
    BY RampAssumption DEF Members
  <1>2. SplitOff(s, size, muted) = IF 0 < r /\ r < size THEN <<rest>> ELSE << >>
    BY DEF SplitOff
  <1>3. <<rest>> # << >>
    OBVIOUS
  <1>4. CASE 0 < r /\ r < size
    <2>1. size - r \in 1 .. MaxAudio
      BY <1>1, <1>4
    <2>2. m \in BOOLEAN
      OBVIOUS
    <2>3. <<rest>> \in Queues
      <3> HIDE DEF m
      <3> DEFINE n == size - r
      <3>1. <<[size |-> n, muted |-> m]>> \in Queues
        <4> HIDE DEF n
        <4> QED BY <2>1, <2>2 DEF Queues, n
      <3> QED BY <3>1
    <2> HIDE DEF rest, r
    <2> QED BY <2>3, <1>1, <1>2, <1>3, <1>4 DEF r
  <1>5. CASE ~(0 < r /\ r < size)
    <2> HIDE DEF rest
    <2> QED BY <1>1, <1>2, <1>5, Values
  <1> QED BY <1>4, <1>5

LEMMA RampedTyped ==
    ASSUME NEW s \in Members, NEW size \in 1 .. MaxAudio, NEW muted \in BOOLEAN
    PROVE  Ramped(s, size, muted) \in Members
  <1> DEFINE rest == SplitOff(s, size, muted)
             first == IF rest = << >> THEN size ELSE s.iRemainingRampSize
             kept == [s EXCEPT !.iQueue = rest]
             set == SetRamp(kept, first, muted)
  <1>1. kept \in Members
    BY SplitOffTyped DEF Members
  <1>2. kept.iRemainingRampSize = s.iRemainingRampSize
    BY DEF Members
  <1>3. first \in Nat /\ (s.iRemainingRampSize = 0 \/ first <= s.iRemainingRampSize)
    BY SplitOffTyped, RampAssumption
  <1>4. set \in Members
    <2> HIDE DEF kept, first
    <2> QED BY <1>1, <1>2, <1>3, SetRampTyped
  <1>5. Ramped(s, size, muted) = IF set.iRemainingRampSize = 0 THEN RampCompleted(set) ELSE set
    BY DEF Ramped
  <1> HIDE DEF set
  <1> QED BY <1>4, <1>5, RampCompletedTyped

LEMMA SoundTyped ==
    ASSUME NEW s \in Members, NEW size \in 1 .. MaxAudio, NEW muted \in BOOLEAN
    PROVE  \E from, to \in Volumes : Sound(s, size, muted) = Audio(from, to)
  <1> DEFINE first == IF SplitOff(s, size, muted) = << >> THEN size ELSE s.iRemainingRampSize
  <1>1. first \in Nat
    BY RampAssumption DEF Members
  <1>2. s.iRemainingRampSize > 0 => RampTo(s, first) \in Volumes
    BY <1>1, RampToTyped
  <1>3. s.iCurrentRampValue \in Volumes
    BY DEF Members
  <1>4. Sound(s, size, muted) = CASE muted -> Audio(0, 0)
         [] ~muted /\ s.iState \in Ramping /\ s.iRemainingRampSize > 0 ->
              Audio(s.iCurrentRampValue, RampTo(s, first))
         [] OTHER -> Audio(kMax, kMax)
    BY DEF Sound
  <1> HIDE DEF first
  <1> QED BY <1>2, <1>3, <1>4, Values

LEMMA MessagesTyped ==
    /\ \A from, to \in Volumes : /\ Audio(from, to) \in Messages
                                 /\ Audio(from, to).kind = "audio"
                                 /\ Audio(from, to).to \in Volumes
    /\ \A k \in Seams \union {"ownHalt", "silence", "other", "quit"} :
          Plain(k) \in Messages /\ Plain(k).kind # "audio"
    /\ NoMsg \in Messages
  <1>1. ASSUME NEW from \in Volumes, NEW to \in Volumes
        PROVE  /\ Audio(from, to) \in Messages
               /\ Audio(from, to).kind = "audio"
               /\ Audio(from, to).to \in Volumes
    <2>1. Audio(from, to) \in {Audio(a, b) : a \in Volumes, b \in Volumes}
      OBVIOUS
    <2> QED BY <2>1 DEF Messages, Audio
  <1>2. ASSUME NEW k \in Seams \union {"ownHalt", "silence", "other", "quit"}
        PROVE  Plain(k) \in Messages /\ Plain(k).kind # "audio"
    BY DEF Messages, Plain, Seams
  <1>3. NoMsg \in Messages
    BY DEF Messages
  <1> QED BY <1>1, <1>2, <1>3

-----------------------------------------------------------------------------
(* What Pull() does to the message and to what is heard.                   *)

Delivery == /\ out' \in Messages
            /\ heard' \in Volumes \union {Gap}
            /\ pc' \in {"top", "check", "wait", "pull", "return", "exited"}

LEMMA DeliverTyped ==
    ASSUME TypeOK, NEW m \in Messages,
           \/ m.kind # "audio"
           \/ \E from, to \in Volumes : m = Audio(from, to)
    PROVE  /\ Deliver(m) => Delivery
           /\ Discard => Delivery
           /\ \A s : DeliverUnlessFlushing(s, m) => Delivery
  <1>1. m.kind = "audio" => m.to \in Volumes
    BY MessagesTyped
  <1>2. Deliver(m) => Delivery
    BY <1>1 DEF Deliver, Delivery, TypeOK
  <1>3. Discard => Delivery
    BY DEF Discard, Delivery, TypeOK
  <1> QED BY <1>2, <1>3 DEF DeliverUnlessFlushing

LEMMA ProcessAudioTyped ==
    ASSUME TypeOK, NEW s \in Members, NEW size \in 1 .. MaxAudio, NEW muted \in BOOLEAN,
           ProcessAudio(s, size, muted)
    PROVE  stopper' \in Members /\ Delivery
  <1>1. PICK from \in Volumes, to \in Volumes : Sound(s, size, muted) = Audio(from, to)
    BY SoundTyped
  <1>2. Audio(from, to) \in Messages
    BY MessagesTyped
  <1>3. stopper' \in Members
    BY RampedTyped DEF ProcessAudio
  <1>4. Deliver(Audio(from, to)) \/ DeliverUnlessFlushing(s, Audio(from, to))
    BY <1>1 DEF ProcessAudio
  <1> QED BY <1>2, <1>3, <1>4, DeliverTyped

-----------------------------------------------------------------------------
(* Type correctness, one lemma for each thread.                            *)

LEMMA InitTyped == Init => TypeOK
  <1> SUFFICES ASSUME Init PROVE TypeOK
    OBVIOUS
  <1>1. RampLong \in {RampLong, RampShort} /\ 0 \in Int /\ 0 \in Nat
    OBVIOUS
  <1>2. stopper \in Members
    BY <1>1, Values DEF Init, Members
  <1>3. 0 \in 0 .. MaxHalts /\ 0 \in 0 .. 0
    BY HaltAssumption
  <1> QED BY <1>2, <1>3, Values, MessagesTyped DEF Init, TypeOK

LEMMA ClientTyped ==
    ASSUME TypeOK, Client, stopper' \in Members, haltsAllocated' \in haltsAllocated .. MaxHalts
    PROVE  TypeOK'
  <1>1. heard' \in Volumes \union {Gap}
    BY DEF Client, TypeOK
  <1>2. haltsPulled \in 0 .. haltsAllocated'
    BY HaltAssumption DEF TypeOK
  <1>3. haltsAllocated' \in 0 .. MaxHalts
    BY HaltAssumption DEF TypeOK
  <1> QED BY <1>1, <1>2, <1>3 DEF Client, TypeOK

LEMMA ClientStepsTyped ==
    ASSUME TypeOK
    PROVE  /\ Play => TypeOK'
           /\ BeginPause => TypeOK'
           /\ \A id \in 1 .. MaxHalts : BeginStop(id) => TypeOK'
           /\ Quit => TypeOK'
           /\ NotifyStarving => TypeOK'
           /\ ReportEvent => TypeOK'
  <1>1. stopper \in Members
    BY DEF TypeOK
  <1>2. haltsAllocated \in haltsAllocated .. MaxHalts
    BY HaltAssumption DEF TypeOK
  <1>3. Play => TypeOK'
    BY <1>1, <1>2, ClientCallsTyped, ClientTyped DEF Play
  <1>4. BeginPause => TypeOK'
    BY <1>1, <1>2, ClientCallsTyped, ClientTyped DEF BeginPause
  <1>5. ASSUME NEW id \in 1 .. MaxHalts, BeginStop(id)
        PROVE  TypeOK'
    <2>1. id \in 1 .. kIdInvalid
      BY HaltAssumption DEF kIdInvalid
    <2>2. [stopper EXCEPT !.iTargetHaltId = id] \in Members
      BY <1>1, <2>1 DEF Members
    <2>3. stopper' \in Members
      BY <2>2, <1>5, ClientCallsTyped DEF BeginStop
    <2>4. haltsAllocated' \in haltsAllocated .. MaxHalts
      BY <1>5, HaltAssumption DEF BeginStop, TypeOK
    <2> QED BY <2>3, <2>4, <1>5, ClientTyped DEF BeginStop
  <1>6. Quit => TypeOK'
    <2> DEFINE flush == stopper.iFlushStream \/ stopper.iState \in Blocked
    <2> SUFFICES ASSUME Quit PROVE TypeOK'
      OBVIOUS
    <2>1. [stopper EXCEPT !.iQuit = TRUE, !.iFlushStream = flush] \in Members
      <3>1. flush \in BOOLEAN
        BY <1>1 DEF Members
      <3> HIDE DEF flush
      <3> QED BY <1>1, <3>1 DEF Members
    <2>2. stopper' = Played([stopper EXCEPT !.iQuit = TRUE, !.iFlushStream = flush])
      BY DEF Quit
    <2> HIDE DEF flush
    <2>3. stopper' \in Members
      BY <2>1, <2>2, ClientCallsTyped
    <2> QED BY <2>3, <1>2, ClientTyped DEF Quit
  <1>7. NotifyStarving => TypeOK'
    <2> SUFFICES ASSUME NotifyStarving PROVE TypeOK'
      OBVIOUS
    <2>1. [stopper EXCEPT !.iBuffering = TRUE] \in Members
      BY <1>1 DEF Members
    <2>2. stopper' \in Members /\ asserted' \in BOOLEAN
      BY <1>1, <2>1, RampCompletedTyped DEF NotifyStarving, TypeOK
    <2> QED BY <2>2 DEF NotifyStarving, TypeOK, upstream
  <1>8. ReportEvent => TypeOK'
    <2> SUFFICES ASSUME ReportEvent PROVE TypeOK'
      OBVIOUS
    <2>1. [stopper EXCEPT !.iEventState = EEventNone] \in Members
      BY <1>1, Values DEF Members
    <2>2. stopper.iEventState \in Events
      BY <1>1 DEF Members
    <2> QED BY <2>1, <2>2 DEF ReportEvent, TypeOK, upstream
  <1> QED BY <1>3, <1>4, <1>5, <1>6, <1>7, <1>8

LEMMA PullStepsTyped ==
    ASSUME TypeOK
    PROVE  /\ CheckHaltPending => TypeOK'
           /\ CheckState => TypeOK'
           /\ Wait => TypeOK'
           /\ Return => TypeOK'
  <1>1. stopper \in Members
    BY DEF TypeOK
  <1>2. CheckHaltPending => TypeOK'
    <2> SUFFICES ASSUME CheckHaltPending PROVE TypeOK'
      OBVIOUS
    <2>1. [stopper EXCEPT !.iHaltPending = FALSE] \in Members
      BY <1>1 DEF Members
    <2>2. [stopper EXCEPT !.iQueue = << >>] \in Members
      BY <1>1, Values DEF Members
    <2>3. stopper' \in Members
      BY <2>1, <2>2, <1>1 DEF CheckHaltPending
    <2>4. Deliver(Plain("ownHalt")) => Delivery
      BY MessagesTyped, DeliverTyped
    <2>5. \A v \in {0, kMax} : Audio(v, v) \in Messages
      BY MessagesTyped, Values
    <2>6. Delivery
      BY <2>4, <2>5 DEF CheckHaltPending, Delivery, TypeOK
    <2> QED BY <2>3, <2>6 DEF CheckHaltPending, Delivery, TypeOK, upstream
  <1>3. CheckState => TypeOK'
    BY DEF CheckState, TypeOK, upstream, downstream
  <1>4. Wait => TypeOK'
    <2> SUFFICES ASSUME Wait PROVE TypeOK'
      OBVIOUS
    <2>1. stopper.iSem - 1 \in Nat
      BY <1>1 DEF Wait, Members
    <2>2. stopper' \in Members
      BY <1>1, <2>1 DEF Wait, Members
    <2> QED BY <2>2 DEF Wait, TypeOK, upstream, downstream
  <1>5. Return => TypeOK'
    <2> SUFFICES ASSUME Return PROVE TypeOK'
      OBVIOUS
    <2>1. stopper' \in Members
      BY <1>1 DEF Return, Members
    <2> QED BY <2>1, MessagesTyped DEF Return, TypeOK, upstream
  <1> QED BY <1>2, <1>3, <1>4, <1>5

LEMMA PullAnyTyped == TypeOK /\ PullAny => TypeOK'
  <1> SUFFICES ASSUME TypeOK, PullAny PROVE TypeOK'
    OBVIOUS
  <1> DEFINE Step == /\ stopper' \in Members
                     /\ Delivery
                     /\ phase' \in {"idle", "track", "encoded", "decoded"}
                     /\ haltsPulled' \in 0 .. haltsAllocated
                     /\ UNCHANGED <<haltsAllocated, audible, asserted>>
  <1>1. Step => TypeOK'
    BY DEF Delivery, TypeOK
  <1>2. stopper \in Members /\ phase \in {"idle", "track", "encoded", "decoded"}
        /\ haltsPulled \in 0 .. haltsAllocated
    BY DEF TypeOK
  <1>3. \A k \in Seams \union {"ownHalt", "silence", "other", "quit"} :
          /\ Deliver(Plain(k)) => Delivery
          /\ \A s : DeliverUnlessFlushing(s, Plain(k)) => Delivery
    BY MessagesTyped, DeliverTyped
  <1>4. Discard => Delivery
    BY DEF Discard, Delivery, TypeOK
  <1>5. ASSUME PullQueued PROVE Step
    <2> DEFINE head == stopper.iQueue[1]
               popped == [stopper EXCEPT !.iQueue = << >>]
    <2>1. popped \in Members
      BY <1>2, Values DEF Members
    <2>2. stopper.iQueue \in Queues /\ stopper.iQueue # << >>
      BY <1>2, <1>5 DEF Members, PullQueued
    <2>3. head.size \in 1 .. MaxAudio /\ head.muted \in BOOLEAN
      BY <2>2 DEF Queues
    <2>4. ProcessAudio(popped, head.size, head.muted)
      BY <1>5 DEF PullQueued
    <2> HIDE DEF head, popped
    <2>5. stopper' \in Members /\ Delivery
      BY <2>1, <2>3, <2>4, ProcessAudioTyped
    <2> QED BY <2>5, <1>2, <1>5 DEF PullQueued, upstream
  <1>6. ASSUME NEW n \in 1 .. MaxAudio, PullAudio(n) PROVE Step
    <2>1. stopper' \in Members /\ Delivery
      BY <1>2, <1>6, ProcessAudioTyped DEF PullAudio
    <2> QED BY <2>1, <1>2, <1>6 DEF PullAudio, Pulled
  <1>7. ASSUME PullSilence PROVE Step
    <2>1. stopper' \in Members
      BY <1>2, <1>7, RampCompletedTyped DEF PullSilence
    <2> QED BY <2>1, <1>2, <1>3, <1>7 DEF PullSilence, Pulled
  <1>8. ASSUME PullFlushable PROVE Step
    BY <1>2, <1>3, <1>8 DEF PullFlushable, Pulled
  <1>9. ASSUME NEW ramp \in {RampLong, RampShort}, PullMode(ramp) PROVE Step
    <2>1. stopper' \in Members
      BY <1>2, <1>9 DEF PullMode, Members
    <2> QED BY <2>1, <1>2, <1>3, <1>9 DEF PullMode, Pulled, Seams
  <1>10. ASSUME NEW a \in Answers, PullTrack(a) PROVE Step
    <2>1. stopper' \in Members
      BY <1>2, <1>10, OkToPlayTyped, HandlersTyped DEF PullTrack
    <2> QED BY <2>1, <1>2, <1>3, <1>10 DEF PullTrack, Pulled, Seams
  <1>11. ASSUME NEW live \in BOOLEAN, NEW a \in Answers, NEW b \in Answers,
                PullEncodedStream(live, a, b)
         PROVE  Step
    <2> DEFINE asked == IF stopper.iStreamHandler THEN CheckPlayable(stopper, a) ELSE stopper
               clean == NewStream(asked)
               new == [clean EXCEPT !.iStreamHandler = TRUE, !.iStreamIsLive = live, !.owed = @ + 1]
    <2>1. clean \in Members
      BY <1>2, OkToPlayTyped, HandlersTyped
    <2>2. stopper' = IF live THEN OkToPlay(new, b) ELSE new
      BY <1>11 DEF PullEncodedStream
    <2> HIDE DEF clean
    <2>3. clean.owed + 1 \in Int
      BY <2>1 DEF Members
    <2>4. new \in Members
      BY <2>1, <2>3 DEF Members
    <2> HIDE DEF new
    <2>5. stopper' \in Members
      BY <2>2, <2>4, OkToPlayTyped
    <2> QED BY <2>5, <1>2, <1>4, <1>11 DEF PullEncodedStream, Pulled
  <1>12. ASSUME NEW a \in Answers, PullDecodedStream(a) PROVE Step
    <2>1. stopper' \in Members
      BY <1>2, <1>12, OkToPlayTyped DEF PullDecodedStream
    <2> QED BY <2>1, <1>2, <1>3, <1>12 DEF PullDecodedStream, Pulled, Seams
  <1>13. ASSUME NEW id \in 0 .. MaxHalts, PullHalt(id) PROVE Step
    <2>1. [stopper EXCEPT !.iTargetHaltId = kIdInvalid] \in Members
      BY <1>2, Values DEF Members
    <2>2. stopper' \in Members
      BY <2>1, <1>2, <1>13, HandlersTyped DEF PullHalt
    <2>3. haltsPulled' \in 0 .. haltsAllocated
      BY <1>2, <1>13, HaltAssumption DEF PullHalt, TypeOK, kIdNone
    <2> QED BY <2>2, <2>3, <1>2, <1>3, <1>13 DEF PullHalt, Pulled, Seams
  <1>14. ASSUME PullQuit PROVE Step
    BY <1>2, <1>3, <1>14 DEF PullQuit, Pulled
  <1> QED
    BY <1>1, <1>5, <1>6, <1>7, <1>8, <1>9, <1>10, <1>11, <1>12, <1>13, <1>14 DEF PullAny

(* Every member keeps its range, whatever the ramps, messages and calls:   *)
(* in particular the unsigned subtractions that reverse a ramp, and the    *)
(* volume at its end, never leave theirs.                                  *)
THEOREM TypeCorrect == Spec => []TypeOK
  <1>1. TypeOK /\ [Next]_vars => TypeOK'
    <2> SUFFICES ASSUME TypeOK, [Next]_vars PROVE TypeOK'
      OBVIOUS
    <2>1. CASE UNCHANGED vars
      BY <2>1 DEF vars, TypeOK
    <2>2. CASE Next
      BY <2>2, ClientStepsTyped, PullStepsTyped, PullAnyTyped DEF Next, Puller
    <2> QED BY <2>1, <2>2
  <1> QED BY <1>1, InitTyped, PTL DEF Spec
-----------------------------------------------------------------------------
(* The semaphore.  A call that leaves the blocked states signals once, a   *)
(* call that enters them clears, and no other call touches iSem.           *)

SemOf(s) == /\ s.iState \in Blocked => s.iSem = 0
            /\ s.iSem <= 1

Wakes(s, t) == t.iState \notin Blocked =>
                   \/ s.iState \in Blocked /\ t.iSem = 1
                   \/ s.iState \notin Blocked /\ t.iSem = s.iSem

WakeupInv == /\ SemOf(stopper)
             /\ pc = "wait" /\ stopper.iState \notin Blocked => stopper.iSem = 1

LEMMA StateNames ==
    /\ \A st \in {ERunning, ERampingDown, ERampingUp, EFlushing} : st \notin Blocked
    /\ EPaused \in Blocked /\ EStopped \in Blocked
    /\ \A st \in Blocked : st = EPaused \/ st = EStopped
  BY DEF ERunning, ERampingDown, ERampingUp, EFlushing, EPaused, EStopped, Blocked

LEMMA HandlersSem ==
    ASSUME NEW s \in Members, SemOf(s)
    PROVE  /\ SemOf(HandlePaused(s)) /\ HandlePaused(s).iState \in Blocked
           /\ SemOf(HandleStopped(s)) /\ HandleStopped(s).iState \in Blocked
           /\ \A e \in Events : /\ ScheduleEvent(s, e).iState = s.iState
                               /\ ScheduleEvent(s, e).iSem = s.iSem
  BY StateNames DEF Members, SemOf, HandlePaused, HandleStopped, ScheduleEvent

LEMMA RampCompletedSem ==
    ASSUME NEW s \in Members, SemOf(s)
    PROVE  /\ SemOf(RampCompleted(s))
           /\ s.iState \notin Blocked => Wakes(s, RampCompleted(s))
  <1>1. ASSUME NEW t \in Members
        PROVE  /\ [t EXCEPT !.iHaltPending = TRUE].iState = t.iState
               /\ [t EXCEPT !.iHaltPending = TRUE].iSem = t.iSem
    BY DEF Members
  <1>2. CASE s.iState # ERampingDown
    <2>1. RampCompleted(s) = [s EXCEPT !.iState = ERunning]
      BY <1>2 DEF RampCompleted
    <2> QED BY <2>1, StateNames DEF Members, SemOf, Wakes
  <1>3. CASE s.iState = ERampingDown /\ s.iTargetHaltId = kIdInvalid
    <2>1. RampCompleted(s) = [HandlePaused(s) EXCEPT !.iHaltPending = TRUE]
      BY <1>3 DEF RampCompleted
    <2> QED BY <2>1, <1>1, HandlersSem, HandlersTyped DEF SemOf, Wakes
  <1>4. CASE s.iState = ERampingDown /\ s.iTargetHaltId # kIdInvalid
    <2>1. RampCompleted(s) = [[s EXCEPT !.iState = ERunning, !.iFlushStream = TRUE]
                                  EXCEPT !.iHaltPending = TRUE]
      BY <1>4 DEF RampCompleted
    <2> QED BY <2>1, <1>4, StateNames DEF Members, SemOf, Wakes
  <1> QED BY <1>2, <1>3, <1>4

LEMMA OkToPlaySem ==
    ASSUME NEW s \in Members, SemOf(s), NEW a \in Answers
    PROVE  SemOf(OkToPlay(s, a)) /\ SemOf(CheckPlayable(s, a))
  <1> DEFINE asked == [s EXCEPT !.iCheckedStreamPlayable = TRUE, !.owed = @ - 1]
             flush == [asked EXCEPT !.iState = EFlushing, !.iFlushStream = TRUE]
  <1>1. asked.iState = s.iState /\ asked.iSem = s.iSem
    BY DEF Members
  <1>2. flush.iSem = s.iSem /\ flush.iState = EFlushing
    BY DEF Members
  <1>3. asked \in Members /\ flush \in Members
    <2>1. s.owed - 1 \in Int
      BY DEF Members
    <2>2. asked \in Members
      BY <2>1 DEF Members
    <2> HIDE DEF asked
    <2> QED BY <2>2, Values DEF Members
  <1> HIDE DEF asked, flush
  <1>4. ASSUME NEW t \in Members
        PROVE  /\ [t EXCEPT !.iHaltPending = TRUE].iState = t.iState
               /\ [t EXCEPT !.iHaltPending = TRUE].iSem = t.iSem
    BY DEF Members
  <1>5. HandleStopped(asked) \in Members /\ SemOf(HandleStopped(asked))
    BY <1>1, <1>3, HandlersSem, HandlersTyped DEF SemOf
  <1>6. OkToPlay(s, a) = CASE s.iQuit -> flush
         [] ~s.iQuit /\ a = ePlayYes -> ScheduleEvent(asked, EEventPlaying)
         [] ~s.iQuit /\ a = ePlayNo -> [flush EXCEPT !.iHaltPending = TRUE]
         [] OTHER -> [HandleStopped(asked) EXCEPT !.iHaltPending = TRUE]
    BY DEF OkToPlay, asked, flush
  <1>7. SemOf(flush) /\ SemOf([flush EXCEPT !.iHaltPending = TRUE])
    BY <1>2, <1>3, <1>4, StateNames DEF SemOf
  <1>8. SemOf(ScheduleEvent(asked, EEventPlaying))
    BY <1>1, <1>3, HandlersSem, Values DEF SemOf
  <1>9. SemOf([HandleStopped(asked) EXCEPT !.iHaltPending = TRUE])
    BY <1>4, <1>5 DEF SemOf
  <1>10. SemOf(OkToPlay(s, a))
    BY <1>6, <1>7, <1>8, <1>9
  <1> QED BY <1>10 DEF CheckPlayable

LEMMA RampsSem ==
    ASSUME NEW s \in Members, SemOf(s), s.iState \notin Blocked
    PROVE  /\ \A st \in {ERampingUp, ERampingDown} :
                 /\ SemOf(ReverseRamp(s, st))
                 /\ Wakes(s, ReverseRamp(s, st))
           /\ SemOf(StartRampDown(s)) /\ Wakes(s, StartRampDown(s))
  <1>1. ASSUME NEW st \in {ERampingUp, ERampingDown}
        PROVE  SemOf(ReverseRamp(s, st)) /\ Wakes(s, ReverseRamp(s, st))
    <2> DEFINE r == (s.iRampJiffies - s.iRemainingRampSize) % Wrap
    <2>1. ReverseRamp(s, st) = [s EXCEPT !.iState = st, !.iRemainingRampSize = r]
      BY DEF ReverseRamp
    <2> HIDE DEF r
    <2> QED BY <2>1, StateNames DEF Members, SemOf, Wakes
  <1>2. SemOf(StartRampDown(s)) /\ Wakes(s, StartRampDown(s))
    BY StateNames DEF Members, SemOf, Wakes, StartRampDown
  <1> QED BY <1>1, <1>2

LEMMA ClientCallsSem ==
    ASSUME NEW s \in Members, SemOf(s)
    PROVE  /\ SemOf(Played(s)) /\ Wakes(s, Played(s))
           /\ SemOf(Paused(s)) /\ Wakes(s, Paused(s))
           /\ SemOf(Stopped(s)) /\ Wakes(s, Stopped(s))
  <1>1. Wakes(s, s)
    BY DEF SemOf, Wakes
  <1>2. SemOf(Played(s)) /\ Wakes(s, Played(s))
    <2> DEFINE back == ReverseRamp(s, ERampingUp)
               up == [back EXCEPT !.iState = IF back.iRemainingRampSize = 0
                                             THEN ERunning ELSE ERampingUp]
               resumed == [s EXCEPT !.iState = ERampingUp, !.iCurrentRampValue = 0,
                                    !.iRemainingRampSize = s.iRampJiffies, !.iSem = @ + 1]
               restarted == [s EXCEPT !.iState = ERunning, !.iSem = @ + 1]
               ramped == CASE s.iState = ERampingDown -> up
                           [] s.iState = EPaused -> resumed
                           [] s.iState = EStopped -> restarted
                           [] OTHER -> s
               done == [ramped EXCEPT !.iTargetHaltId = kIdInvalid]
    <2>1. Played(s) = ScheduleEvent(done, EEventPlaying)
      BY DEF Played
    <2>2. back \in Members /\ back.iSem = s.iSem
      BY RampsTyped, Values DEF ReverseRamp, Members
    <2>3. up \in Members /\ up.iState \in {ERunning, ERampingUp} /\ up.iSem = s.iSem
      <3> HIDE DEF back
      <3> QED BY <2>2, Values DEF Members
    <2>4. s.iSem + 1 \in Nat /\ s.iRampJiffies \in 0 .. Wrap - 1
      BY Values DEF Members
    <2>5. resumed \in Members /\ resumed.iState = ERampingUp /\ resumed.iSem = s.iSem + 1
      BY <2>4, Values DEF Members
    <2>6. restarted \in Members /\ restarted.iState = ERunning /\ restarted.iSem = s.iSem + 1
      BY <2>4, Values DEF Members
    <2> HIDE DEF up, resumed, restarted
    <2>7. ramped \in Members /\ SemOf(ramped) /\ Wakes(s, ramped)
      <3>1. CASE s.iState = ERampingDown
        BY <3>1, <2>3, StateNames DEF SemOf, Wakes, EPaused, EStopped, ERampingDown
      <3>2. CASE s.iState = EPaused
        BY <3>2, <2>5, StateNames DEF SemOf, Wakes, EPaused, EStopped, ERampingDown
      <3>3. CASE s.iState = EStopped
        BY <3>3, <2>6, StateNames DEF SemOf, Wakes, EPaused, EStopped, ERampingDown
      <3>4. CASE s.iState \notin {ERampingDown, EPaused, EStopped}
        BY <3>4, <1>1
      <3> QED BY <3>1, <3>2, <3>3, <3>4
    <2> HIDE DEF ramped
    <2>8. done \in Members /\ done.iState = ramped.iState /\ done.iSem = ramped.iSem
      BY <2>7, Values DEF Members
    <2> HIDE DEF done
    <2>9. Played(s).iState = done.iState /\ Played(s).iSem = done.iSem
      BY <2>1, <2>8 DEF ScheduleEvent, Members
    <2> QED BY <2>7, <2>8, <2>9 DEF SemOf, Wakes
  <1>3. SemOf(Paused(s)) /\ Wakes(s, Paused(s))
    <2>1. CASE s.iState \in {ERunning, ERampingUp} /\ ~s.iBuffering
      BY <2>1, RampsSem, StateNames
      DEF Paused, ERunning, ERampingUp, EStopped, EFlushing
    <2>2. CASE s.iBuffering \/ s.iState \in {EStopped, EFlushing}
      <3>1. Paused(s) = HandlePaused(s)
        BY <2>2 DEF Paused, ERunning, ERampingUp, EStopped, EFlushing
      <3> QED BY <3>1, HandlersSem DEF Wakes
    <2>3. CASE ~s.iBuffering /\ s.iState \notin {ERunning, ERampingUp, EStopped, EFlushing}
      BY <2>3, <1>1 DEF Paused
    <2> QED BY <2>1, <2>2, <2>3
  <1>4. SemOf(Stopped(s)) /\ Wakes(s, Stopped(s))
    <2> DEFINE flush == [s EXCEPT !.iFlushStream = TRUE, !.iState = EFlushing, !.iSem = @ + 1]
    <2>1. CASE s.iState \in {ERunning, ERampingUp} /\ ~s.iBuffering
      BY <2>1, RampsSem, StateNames
      DEF Stopped, ERunning, ERampingUp, EFlushing
    <2>2. CASE s.iBuffering \/ s.iState = EFlushing
      <3>1. Stopped(s) = HandleStopped(s)
        BY <2>2 DEF Stopped, ERunning, ERampingUp, EPaused, EFlushing
      <3> QED BY <3>1, HandlersSem DEF Wakes
    <2>3. CASE s.iState = EPaused /\ ~s.iBuffering
      <3>1. Stopped(s) = flush
        BY <2>3 DEF Stopped, EPaused, ERunning, ERampingUp, EFlushing
      <3>2. flush.iState = EFlushing /\ flush.iSem = s.iSem + 1
        BY DEF Members
      <3> HIDE DEF flush
      <3> QED BY <3>1, <3>2, <2>3, StateNames DEF SemOf, Wakes
    <2>4. CASE ~s.iBuffering /\ s.iState \notin {ERunning, ERampingUp, EPaused, EFlushing}
      BY <2>4, <1>1 DEF Stopped
    <2> QED BY <2>1, <2>2, <2>3, <2>4
  <1> QED BY <1>2, <1>3, <1>4
LEMMA RampSem ==
    ASSUME NEW s \in Members, SemOf(s), s.iState \in Ramping,
           NEW size \in 1 .. MaxAudio, NEW muted \in BOOLEAN
    PROVE  SemOf(Ramped(s, size, muted))
  <1> DEFINE rest == SplitOff(s, size, muted)
             first == IF rest = << >> THEN size ELSE s.iRemainingRampSize
             kept == [s EXCEPT !.iQueue = rest]
             set == SetRamp(kept, first, muted)
  <1>1. kept \in Members /\ kept.iState = s.iState /\ kept.iSem = s.iSem
        /\ kept.iRemainingRampSize = s.iRemainingRampSize
    BY SplitOffTyped DEF Members
  <1>2. first \in Nat /\ (s.iRemainingRampSize = 0 \/ first <= s.iRemainingRampSize)
    BY SplitOffTyped, RampAssumption
  <1> HIDE DEF kept, first
  <1>3. set \in Members
    BY <1>1, <1>2, SetRampTyped
  <1>4. set.iState = kept.iState /\ set.iSem = kept.iSem
    <2> DEFINE end == RampTo(kept, first)
               left == IF end = (IF kept.iState = ERampingDown THEN 0 ELSE kMax)
                       THEN 0 ELSE kept.iRemainingRampSize - first
               mutedLeft == IF kept.iState = ERampingDown THEN 0 ELSE kept.iRemainingRampSize
    <2>1. \/ set = kept
          \/ set = [kept EXCEPT !.iCurrentRampValue = end, !.iRemainingRampSize = left]
          \/ set = [kept EXCEPT !.iCurrentRampValue = 0, !.iRemainingRampSize = mutedLeft]
      BY <1>1, RampAssumption DEF SetRamp, Members
    <2> HIDE DEF set, end, left, mutedLeft
    <2> QED BY <2>1, <1>1 DEF Members
  <1>5. Ramped(s, size, muted) = IF set.iRemainingRampSize = 0 THEN RampCompleted(set) ELSE set
    BY DEF Ramped, kept, first
  <1> HIDE DEF set
  <1>6. SemOf(set)
    BY <1>1, <1>4 DEF SemOf
  <1> QED BY <1>3, <1>5, <1>6, RampCompletedSem

-----------------------------------------------------------------------------

LEMMA SignalWakes ==
    ASSUME TypeOK, WakeupInv, SemOf(stopper'), Wakes(stopper, stopper'), UNCHANGED pc
    PROVE  WakeupInv'
  BY DEF WakeupInv, Wakes, TypeOK

LEMMA PullingWakes ==
    ASSUME SemOf(stopper'), pc' # "wait"
    PROVE  WakeupInv'
  BY DEF WakeupInv

LEMMA ClientStepsWake ==
    ASSUME TypeOK, WakeupInv
    PROVE  /\ Play => WakeupInv'
           /\ BeginPause => WakeupInv'
           /\ \A id \in 1 .. MaxHalts : BeginStop(id) => WakeupInv'
           /\ Quit => WakeupInv'
           /\ NotifyStarving => WakeupInv'
           /\ ReportEvent => WakeupInv'
  <1>1. stopper \in Members /\ SemOf(stopper)
    BY DEF TypeOK, WakeupInv
  <1>2. Wakes(stopper, stopper)
    BY <1>1 DEF SemOf, Wakes
  <1>3. Play => WakeupInv'
    BY <1>1, ClientCallsSem, SignalWakes DEF Play, Client
  <1>4. BeginPause => WakeupInv'
    BY <1>1, ClientCallsSem, SignalWakes DEF BeginPause, Client
  <1>5. ASSUME NEW id \in 1 .. MaxHalts, BeginStop(id)
        PROVE  WakeupInv'
    <2> DEFINE s == [stopper EXCEPT !.iTargetHaltId = id]
    <2>1. id \in 1 .. kIdInvalid
      BY HaltAssumption DEF kIdInvalid
    <2>2. s \in Members /\ s.iState = stopper.iState /\ s.iSem = stopper.iSem
      BY <1>1, <2>1 DEF Members
    <2>3. stopper' = Stopped(s) /\ UNCHANGED pc
      BY <1>5 DEF BeginStop, Client
    <2> HIDE DEF s
    <2>4. SemOf(s)
      BY <1>1, <2>2 DEF SemOf
    <2>5. SemOf(Stopped(s)) /\ Wakes(s, Stopped(s))
      BY <2>2, <2>4, ClientCallsSem
    <2>6. Wakes(stopper, stopper')
      BY <2>2, <2>3, <2>5 DEF Wakes
    <2> QED BY <2>3, <2>5, <2>6, SignalWakes
  <1>6. ASSUME Quit PROVE WakeupInv'
    <2> DEFINE flush == stopper.iFlushStream \/ stopper.iState \in Blocked
               s == [stopper EXCEPT !.iQuit = TRUE, !.iFlushStream = flush]
    <2>1. flush \in BOOLEAN
      BY <1>1 DEF Members
    <2>2. stopper' = Played(s) /\ UNCHANGED pc
      BY <1>6 DEF Quit, Client
    <2> HIDE DEF flush
    <2>3. s \in Members /\ s.iState = stopper.iState /\ s.iSem = stopper.iSem
      BY <1>1, <2>1 DEF Members
    <2> HIDE DEF s
    <2>4. SemOf(s)
      BY <1>1, <2>3 DEF SemOf
    <2>5. SemOf(Played(s)) /\ Wakes(s, Played(s))
      BY <2>3, <2>4, ClientCallsSem
    <2>6. Wakes(stopper, stopper')
      BY <2>2, <2>3, <2>5 DEF Wakes
    <2> QED BY <2>2, <2>5, <2>6, SignalWakes
  <1>7. ASSUME NotifyStarving PROVE WakeupInv'
    <2>1. CASE HandlerMissing(stopper)
      BY <2>1, <1>1, <1>2, <1>7, SignalWakes DEF NotifyStarving, SemOf
    <2>2. CASE ~HandlerMissing(stopper) /\ stopper.iState = ERampingDown
      BY <2>2, <1>1, <1>7, StateNames, RampCompletedSem, SignalWakes DEF NotifyStarving
    <2>3. CASE ~HandlerMissing(stopper) /\ stopper.iState # ERampingDown
      <3>1. stopper'.iState = stopper.iState /\ stopper'.iSem = stopper.iSem /\ UNCHANGED pc
        BY <2>3, <1>1, <1>7 DEF NotifyStarving, Members
      <3> QED BY <3>1, <1>1, <1>2, SignalWakes DEF SemOf, Wakes
    <2> QED BY <2>1, <2>2, <2>3
  <1>8. ASSUME ReportEvent PROVE WakeupInv'
    <2>1. stopper'.iState = stopper.iState /\ stopper'.iSem = stopper.iSem /\ UNCHANGED pc
      BY <1>1, <1>8 DEF ReportEvent, Members
    <2> QED BY <2>1, <1>1, <1>2, SignalWakes DEF SemOf, Wakes
  <1> QED BY <1>3, <1>4, <1>5, <1>6, <1>7, <1>8

LEMMA PullStepsWake ==
    ASSUME TypeOK, WakeupInv
    PROVE  /\ CheckHaltPending => WakeupInv'
           /\ CheckState => WakeupInv'
           /\ Wait => WakeupInv'
           /\ Return => WakeupInv'
  <1>1. stopper \in Members /\ SemOf(stopper)
    BY DEF TypeOK, WakeupInv
  <1>2. ASSUME CheckHaltPending PROVE WakeupInv'
    <2>1. stopper'.iState = stopper.iState /\ stopper'.iSem = stopper.iSem
      BY <1>1, <1>2 DEF CheckHaltPending, Members
    <2>2. pc' # "wait"
      BY <1>2 DEF CheckHaltPending, Deliver
    <2> QED BY <2>1, <2>2, <1>1, PullingWakes DEF SemOf
  <1>3. ASSUME CheckState PROVE WakeupInv'
    BY <1>1, <1>3 DEF CheckState, WakeupInv, SemOf
  <1>4. ASSUME Wait PROVE WakeupInv'
    <2>1. stopper'.iState = stopper.iState /\ stopper'.iSem = stopper.iSem - 1 /\ pc' = "pull"
      BY <1>1, <1>4 DEF Wait, Members
    <2>2. stopper.iSem \in Nat /\ stopper.iSem > 0
      BY <1>1, <1>4 DEF Wait, Members
    <2> QED BY <2>1, <2>2, <1>1, PullingWakes DEF SemOf
  <1>5. ASSUME Return PROVE WakeupInv'
    <2>1. stopper'.iState = stopper.iState /\ stopper'.iSem = stopper.iSem /\ pc' # "wait"
      BY <1>1, <1>5 DEF Return, Members
    <2> QED BY <2>1, <1>1, PullingWakes DEF SemOf
  <1> QED BY <1>2, <1>3, <1>4, <1>5

LEMMA ProcessAudioSem ==
    ASSUME NEW s \in Members, SemOf(s), NEW size \in 1 .. MaxAudio, NEW muted \in BOOLEAN,
           ProcessAudio(s, size, muted)
    PROVE  SemOf(stopper')
  <1>1. CASE s.iState \in Ramping
    BY <1>1, RampSem DEF ProcessAudio
  <1>2. CASE s.iState \notin Ramping
    BY <1>2 DEF ProcessAudio
  <1> QED BY <1>1, <1>2

LEMMA PullAnyWakes == TypeOK /\ WakeupInv /\ PullAny => WakeupInv'
  <1> SUFFICES ASSUME TypeOK, WakeupInv, PullAny PROVE WakeupInv'
    OBVIOUS
  <1>1. stopper \in Members /\ SemOf(stopper)
    BY DEF TypeOK, WakeupInv
  <1>2. /\ \A m : Deliver(m) => pc' # "wait"
        /\ Discard => pc' # "wait"
        /\ \A s, m : DeliverUnlessFlushing(s, m) => pc' # "wait"
        /\ \A s, size, muted : ProcessAudio(s, size, muted) => pc' # "wait"
    BY DEF Deliver, Discard, DeliverUnlessFlushing, ProcessAudio
  <1>3. ASSUME PullQueued PROVE SemOf(stopper')
    <2> DEFINE head == stopper.iQueue[1]
               popped == [stopper EXCEPT !.iQueue = << >>]
    <2>1. popped \in Members /\ popped.iState = stopper.iState /\ popped.iSem = stopper.iSem
      BY <1>1, Values DEF Members
    <2>2. stopper.iQueue \in Queues /\ stopper.iQueue # << >>
      BY <1>1, <1>3 DEF Members, PullQueued
    <2>3. head.size \in 1 .. MaxAudio /\ head.muted \in BOOLEAN
      BY <2>2 DEF Queues
    <2>4. ProcessAudio(popped, head.size, head.muted)
      BY <1>3 DEF PullQueued
    <2> HIDE DEF head, popped
    <2>5. SemOf(popped)
      BY <2>1, <1>1 DEF SemOf
    <2> QED BY <2>1, <2>3, <2>4, <2>5, ProcessAudioSem
  <1>4. ASSUME NEW n \in 1 .. MaxAudio, PullAudio(n) PROVE SemOf(stopper')
    BY <1>1, <1>4, ProcessAudioSem DEF PullAudio
  <1>5. ASSUME PullSilence PROVE SemOf(stopper')
    BY <1>1, <1>5, RampCompletedSem DEF PullSilence
  <1>6. ASSUME NEW ramp \in {RampLong, RampShort}, PullMode(ramp) PROVE SemOf(stopper')
    BY <1>1, <1>6 DEF PullMode, SemOf, Members
  <1>7. ASSUME NEW s \in Members, SemOf(s) PROVE SemOf(NewStream(s))
    BY <1>7, StateNames DEF NewStream, SemOf, Members
  <1>8. ASSUME NEW a \in Answers, PullTrack(a) PROVE SemOf(stopper')
    BY <1>1, <1>7, <1>8, OkToPlaySem, OkToPlayTyped DEF PullTrack
  <1>9. ASSUME NEW live \in BOOLEAN, NEW a \in Answers, NEW b \in Answers,
               PullEncodedStream(live, a, b)
        PROVE  SemOf(stopper')
    <2> DEFINE asked == IF stopper.iStreamHandler THEN CheckPlayable(stopper, a) ELSE stopper
               clean == NewStream(asked)
               new == [clean EXCEPT !.iStreamHandler = TRUE, !.iStreamIsLive = live, !.owed = @ + 1]
    <2>1. clean \in Members /\ SemOf(clean)
      BY <1>1, <1>7, OkToPlaySem, OkToPlayTyped, HandlersTyped
    <2>2. stopper' = IF live THEN OkToPlay(new, b) ELSE new
      BY <1>9 DEF PullEncodedStream
    <2> HIDE DEF clean
    <2>3. clean.owed + 1 \in Int
      BY <2>1 DEF Members
    <2>4. new \in Members /\ new.iState = clean.iState /\ new.iSem = clean.iSem
      BY <2>1, <2>3 DEF Members
    <2> HIDE DEF new
    <2>5. SemOf(new)
      BY <2>1, <2>4 DEF SemOf
    <2> QED BY <2>2, <2>4, <2>5, OkToPlaySem
  <1>10. ASSUME NEW a \in Answers, PullDecodedStream(a) PROVE SemOf(stopper')
    BY <1>1, <1>10, OkToPlaySem DEF PullDecodedStream
  <1>11. ASSUME NEW id \in 0 .. MaxHalts, PullHalt(id) PROVE SemOf(stopper')
    <2> DEFINE s == [stopper EXCEPT !.iTargetHaltId = kIdInvalid]
    <2>1. s \in Members /\ s.iState = stopper.iState /\ s.iSem = stopper.iSem
      BY <1>1, Values DEF Members
    <2>2. stopper' = HandleStopped(s) \/ stopper' = stopper
      BY <1>11 DEF PullHalt
    <2> HIDE DEF s
    <2>3. SemOf(s)
      BY <2>1, <1>1 DEF SemOf
    <2> QED BY <2>1, <2>2, <2>3, <1>1, HandlersSem
  <1>12. PullFlushable \/ PullQuit => SemOf(stopper')
    BY <1>1 DEF PullFlushable, PullQuit
  <1>13. SemOf(stopper')
    BY <1>3, <1>4, <1>5, <1>6, <1>8, <1>9, <1>10, <1>11, <1>12 DEF PullAny
  <1>14. pc' # "wait"
    BY <1>2 DEF PullAny, PullQueued, PullAudio, PullSilence, PullFlushable, PullMode, PullTrack,
                PullEncodedStream, PullDecodedStream, PullHalt, PullQuit
  <1> QED BY <1>13, <1>14, PullingWakes

(* The semaphore and iState agree: the invariant behind the next two.      *)
THEOREM WakeupInvariant == Spec => []WakeupInv
  <1>1. Init => WakeupInv
    BY StateNames DEF Init, WakeupInv, SemOf
  <1>2. TypeOK /\ WakeupInv /\ [Next]_vars => WakeupInv'
    <2> SUFFICES ASSUME TypeOK, WakeupInv, [Next]_vars PROVE WakeupInv'
      OBVIOUS
    <2>1. CASE UNCHANGED vars
      BY <2>1 DEF vars, WakeupInv, SemOf
    <2>2. CASE Next
      BY <2>2, ClientStepsWake, PullStepsWake, PullAnyWakes DEF Next, Puller
    <2> QED BY <2>1, <2>2
  <1> QED BY <1>1, <1>2, TypeCorrect, PTL DEF Spec

(* Pull() never sleeps through the call that was to wake it (Stopper.cpp:196), *)
(* for any number of pauses and stops in any order.                        *)
THEOREM WakeupNeverLost == Spec => []NoLostWakeup
  <1>1. WakeupInv => NoLostWakeup
    BY DEF WakeupInv, NoLostWakeup
  <1> QED BY <1>1, WakeupInvariant, PTL

(* No wake-up left over from one pause adds to the next (Stopper.cpp:508). *)
THEOREM SemaphoreIsBinary == Spec => []SemIsBinary
  <1>1. WakeupInv => SemIsBinary
    BY DEF WakeupInv, SemOf, SemIsBinary
  <1> QED BY <1>1, WakeupInvariant, PTL
-----------------------------------------------------------------------------
(* Whether IdManager has been asked about a stream.                        *)

AskedInv == /\ stopper.owed = (IF stopper.iStreamHandler /\ ~stopper.iCheckedStreamPlayable
                               THEN 1 ELSE 0)
            /\ phase = "track" => ~stopper.iStreamHandler
            /\ phase \in {"encoded", "decoded"} => stopper.iStreamHandler
            /\ phase = "decoded" => stopper.iCheckedStreamPlayable
            /\ phase \in {"encoded", "decoded"} /\ stopper.iStreamIsLive
                   => stopper.iCheckedStreamPlayable

SameStream(s, t) == /\ t.iStreamHandler = s.iStreamHandler
                    /\ t.iCheckedStreamPlayable = s.iCheckedStreamPlayable
                    /\ t.owed = s.owed
                    /\ t.iStreamIsLive = s.iStreamIsLive

LEMMA HandlersSameStream ==
    ASSUME NEW s \in Members
    PROVE  /\ SameStream(s, HandlePaused(s))
           /\ SameStream(s, HandleStopped(s))
           /\ \A e \in Events : SameStream(s, ScheduleEvent(s, e))
           /\ \A st \in States : SameStream(s, ReverseRamp(s, st))
           /\ SameStream(s, StartRampDown(s))
  <1>1. \A st \in States : SameStream(s, ReverseRamp(s, st))
    BY DEF Members, SameStream, ReverseRamp
  <1>2. SameStream(s, StartRampDown(s))
    BY DEF Members, SameStream, StartRampDown
  <1> QED BY <1>1, <1>2 DEF Members, SameStream, HandlePaused, HandleStopped, ScheduleEvent

LEMMA SameStreamTransitive ==
    ASSUME NEW r, NEW s, NEW t, SameStream(r, s), SameStream(s, t)
    PROVE  SameStream(r, t)
  BY DEF SameStream

LEMMA RampCompletedSameStream ==
    ASSUME NEW s \in Members
    PROVE  SameStream(s, RampCompleted(s))
  <1> DEFINE flushing == [s EXCEPT !.iState = ERunning, !.iFlushStream = TRUE]
             running == [s EXCEPT !.iState = ERunning]
  <1>1. SameStream(s, running) /\ SameStream(s, flushing) /\ flushing \in Members
    BY Values DEF Members, SameStream
  <1>2. ASSUME NEW t \in Members
        PROVE  SameStream(t, [t EXCEPT !.iHaltPending = TRUE])
    BY DEF Members, SameStream
  <1>3. \/ RampCompleted(s) = running
        \/ RampCompleted(s) = [HandlePaused(s) EXCEPT !.iHaltPending = TRUE]
        \/ RampCompleted(s) = [flushing EXCEPT !.iHaltPending = TRUE]
    BY DEF RampCompleted
  <1> HIDE DEF flushing, running
  <1>4. SameStream(s, [HandlePaused(s) EXCEPT !.iHaltPending = TRUE])
    BY <1>2, HandlersTyped, HandlersSameStream, SameStreamTransitive
  <1>5. SameStream(s, [flushing EXCEPT !.iHaltPending = TRUE])
    BY <1>1, <1>2, SameStreamTransitive
  <1> QED BY <1>1, <1>3, <1>4, <1>5

LEMMA ClientCallsSameStream ==
    ASSUME NEW s \in Members
    PROVE  /\ SameStream(s, Played(s))
           /\ SameStream(s, Paused(s))
           /\ SameStream(s, Stopped(s))
  <1>1. SameStream(s, Played(s))
    <2> DEFINE back == ReverseRamp(s, ERampingUp)
               up == [back EXCEPT !.iState = IF back.iRemainingRampSize = 0
                                             THEN ERunning ELSE ERampingUp]
               resumed == [s EXCEPT !.iState = ERampingUp, !.iCurrentRampValue = 0,
                                    !.iRemainingRampSize = s.iRampJiffies, !.iSem = @ + 1]
               restarted == [s EXCEPT !.iState = ERunning, !.iSem = @ + 1]
               ramped == CASE s.iState = ERampingDown -> up
                           [] s.iState = EPaused -> resumed
                           [] s.iState = EStopped -> restarted
                           [] OTHER -> s
               done == [ramped EXCEPT !.iTargetHaltId = kIdInvalid]
    <2>1. Played(s) = ScheduleEvent(done, EEventPlaying)
      BY DEF Played
    <2>2. back \in Members /\ SameStream(s, back)
      BY RampsTyped, HandlersSameStream, Values
    <2> HIDE DEF back
    <2>3. up \in Members /\ SameStream(s, up)
      BY <2>2, Values DEF Members, SameStream
    <2>4. s.iSem + 1 \in Nat /\ s.iRampJiffies \in 0 .. Wrap - 1
      BY Values DEF Members
    <2>5. resumed \in Members /\ SameStream(s, resumed)
      BY <2>4, Values DEF Members, SameStream
    <2>6. restarted \in Members /\ SameStream(s, restarted)
      BY <2>4, Values DEF Members, SameStream
    <2>7. SameStream(s, s)
      BY DEF SameStream
    <2> HIDE DEF up, resumed, restarted
    <2>8. ramped \in Members /\ SameStream(s, ramped)
      BY <2>3, <2>5, <2>6, <2>7
    <2> HIDE DEF ramped
    <2>9. done \in Members /\ SameStream(s, done)
      BY <2>8, Values DEF Members, SameStream
    <2> HIDE DEF done
    <2> QED BY <2>1, <2>9, HandlersSameStream, Values DEF SameStream
  <1>2. SameStream(s, Paused(s))
    BY HandlersSameStream, Values DEF Paused, SameStream
  <1>3. SameStream(s, Stopped(s))
    <2> DEFINE flush == [s EXCEPT !.iFlushStream = TRUE, !.iState = EFlushing, !.iSem = @ + 1]
    <2>1. SameStream(s, flush) /\ SameStream(s, s)
      BY DEF Members, SameStream
    <2>2. \/ Stopped(s) = HandleStopped(s) \/ Stopped(s) = StartRampDown(s)
          \/ Stopped(s) = ReverseRamp(s, ERampingDown) \/ Stopped(s) = flush \/ Stopped(s) = s
      BY DEF Stopped
    <2> HIDE DEF flush
    <2> QED BY <2>1, <2>2, HandlersSameStream, Values
  <1> QED BY <1>1, <1>2, <1>3

LEMMA RampedSameStream ==
    ASSUME NEW s \in Members, NEW size \in 1 .. MaxAudio, NEW muted \in BOOLEAN
    PROVE  SameStream(s, Ramped(s, size, muted))
  <1> DEFINE rest == SplitOff(s, size, muted)
             first == IF rest = << >> THEN size ELSE s.iRemainingRampSize
             kept == [s EXCEPT !.iQueue = rest]
             set == SetRamp(kept, first, muted)
  <1>1. kept \in Members /\ SameStream(s, kept)
        /\ kept.iRemainingRampSize = s.iRemainingRampSize
    BY SplitOffTyped DEF Members, SameStream
  <1>2. first \in Nat /\ (s.iRemainingRampSize = 0 \/ first <= s.iRemainingRampSize)
    BY SplitOffTyped, RampAssumption
  <1> HIDE DEF kept, first
  <1>3. set \in Members
    BY <1>1, <1>2, SetRampTyped
  <1>4. SameStream(kept, set)
    <2> DEFINE end == RampTo(kept, first)
               left == IF end = (IF kept.iState = ERampingDown THEN 0 ELSE kMax)
                       THEN 0 ELSE kept.iRemainingRampSize - first
               mutedLeft == IF kept.iState = ERampingDown THEN 0 ELSE kept.iRemainingRampSize
    <2>1. \/ set = kept
          \/ set = [kept EXCEPT !.iCurrentRampValue = end, !.iRemainingRampSize = left]
          \/ set = [kept EXCEPT !.iCurrentRampValue = 0, !.iRemainingRampSize = mutedLeft]
      BY <1>1, RampAssumption DEF SetRamp, Members
    <2> HIDE DEF set, end, left, mutedLeft
    <2> QED BY <2>1, <1>1 DEF Members, SameStream
  <1>5. Ramped(s, size, muted) = IF set.iRemainingRampSize = 0 THEN RampCompleted(set) ELSE set
    BY DEF Ramped, kept, first
  <1> HIDE DEF set
  <1> QED BY <1>1, <1>3, <1>4, <1>5, RampCompletedSameStream DEF SameStream

LEMMA OkToPlayAsks ==
    ASSUME NEW s \in Members, NEW a \in Answers
    PROVE  /\ OkToPlay(s, a).iCheckedStreamPlayable
           /\ OkToPlay(s, a).owed = s.owed - 1
           /\ OkToPlay(s, a).iStreamHandler = s.iStreamHandler
           /\ OkToPlay(s, a).iStreamIsLive = s.iStreamIsLive
  <1> DEFINE asked == [s EXCEPT !.iCheckedStreamPlayable = TRUE, !.owed = @ - 1]
             flush == [asked EXCEPT !.iState = EFlushing, !.iFlushStream = TRUE]
             Asked(t) == /\ t.iCheckedStreamPlayable
                         /\ t.owed = s.owed - 1
                         /\ t.iStreamHandler = s.iStreamHandler
                         /\ t.iStreamIsLive = s.iStreamIsLive
  <1>1. s.owed - 1 \in Int
    BY DEF Members
  <1>2. asked \in Members /\ Asked(asked)
    BY <1>1 DEF Members
  <1>3. \A t \in Members : /\ [t EXCEPT !.iHaltPending = TRUE] \in Members
                          /\ SameStream(t, [t EXCEPT !.iHaltPending = TRUE])
    BY DEF Members, SameStream
  <1>4. flush \in Members /\ SameStream(asked, flush)
    <2> HIDE DEF asked
    <2> QED BY <1>2, Values DEF Members, SameStream
  <1>5. OkToPlay(s, a) = CASE s.iQuit -> flush
         [] ~s.iQuit /\ a = ePlayYes -> ScheduleEvent(asked, EEventPlaying)
         [] ~s.iQuit /\ a = ePlayNo -> [flush EXCEPT !.iHaltPending = TRUE]
         [] OTHER -> [HandleStopped(asked) EXCEPT !.iHaltPending = TRUE]
    BY DEF OkToPlay
  <1> HIDE DEF asked, flush
  <1>6. SameStream(asked, OkToPlay(s, a))
    <2>1. SameStream(asked, ScheduleEvent(asked, EEventPlaying))
      BY <1>2, HandlersSameStream, Values
    <2>2. SameStream(asked, [flush EXCEPT !.iHaltPending = TRUE])
      BY <1>3, <1>4, SameStreamTransitive
    <2>3. SameStream(asked, [HandleStopped(asked) EXCEPT !.iHaltPending = TRUE])
      <3>1. HandleStopped(asked) \in Members /\ SameStream(asked, HandleStopped(asked))
        BY <1>2, HandlersTyped, HandlersSameStream
      <3> QED BY <3>1, <1>3, SameStreamTransitive
    <2> QED BY <2>1, <2>2, <2>3, <1>4, <1>5
  <1> QED BY <1>2, <1>6 DEF SameStream

LEMMA SameStreamAsked ==
    ASSUME AskedInv, SameStream(stopper, stopper'), UNCHANGED phase
    PROVE  AskedInv'
  BY DEF AskedInv, SameStream
LEMMA ProcessAudioSameStream ==
    ASSUME NEW s \in Members, NEW size \in 1 .. MaxAudio, NEW muted \in BOOLEAN,
           ProcessAudio(s, size, muted)
    PROVE  SameStream(s, stopper')
  <1>1. SameStream(s, s)
    BY DEF SameStream
  <1> QED BY <1>1, RampedSameStream DEF ProcessAudio

LEMMA StepsSameStream ==
    ASSUME TypeOK,
           \/ Play \/ BeginPause \/ Quit \/ NotifyStarving \/ ReportEvent
           \/ \E id \in 1 .. MaxHalts : BeginStop(id)
           \/ CheckHaltPending \/ CheckState \/ Wait \/ Return
           \/ PullQueued \/ PullSilence \/ PullFlushable \/ PullQuit
           \/ \E n \in 1 .. MaxAudio : PullAudio(n)
           \/ \E id \in 0 .. MaxHalts : PullHalt(id)
    PROVE  SameStream(stopper, stopper') /\ UNCHANGED phase
  <1>1. stopper \in Members
    BY DEF TypeOK
  <1>2. SameStream(stopper, stopper)
    BY DEF SameStream
  <1>3. UNCHANGED phase
    BY DEF Play, BeginPause, Quit, NotifyStarving, ReportEvent, BeginStop, Client, upstream,
           CheckHaltPending, CheckState, Wait, Return, PullQueued, PullSilence, PullFlushable,
           PullQuit, PullAudio, PullHalt
  <1>4. Play \/ BeginPause => SameStream(stopper, stopper')
    BY <1>1, ClientCallsSameStream DEF Play, BeginPause
  <1>5. ASSUME NEW id \in 1 .. MaxHalts, BeginStop(id)
        PROVE  SameStream(stopper, stopper')
    <2> DEFINE s == [stopper EXCEPT !.iTargetHaltId = id]
    <2>1. id \in 1 .. kIdInvalid
      BY HaltAssumption DEF kIdInvalid
    <2>2. s \in Members /\ SameStream(stopper, s)
      BY <1>1, <2>1 DEF Members, SameStream
    <2>3. stopper' = Stopped(s)
      BY <1>5 DEF BeginStop
    <2> HIDE DEF s
    <2> QED BY <2>2, <2>3, ClientCallsSameStream, SameStreamTransitive
  <1>6. ASSUME Quit PROVE SameStream(stopper, stopper')
    <2> DEFINE flush == stopper.iFlushStream \/ stopper.iState \in Blocked
               s == [stopper EXCEPT !.iQuit = TRUE, !.iFlushStream = flush]
    <2>1. flush \in BOOLEAN
      BY <1>1 DEF Members
    <2>2. stopper' = Played(s)
      BY <1>6 DEF Quit
    <2> HIDE DEF flush
    <2>3. s \in Members /\ SameStream(stopper, s)
      BY <1>1, <2>1 DEF Members, SameStream
    <2> HIDE DEF s
    <2> QED BY <2>2, <2>3, ClientCallsSameStream, SameStreamTransitive
  <1>7. ASSUME NotifyStarving PROVE SameStream(stopper, stopper')
    <2>1. SameStream(stopper, [stopper EXCEPT !.iBuffering = TRUE])
      BY <1>1 DEF Members, SameStream
    <2>2. \/ stopper' = stopper \/ stopper' = RampCompleted(stopper)
          \/ stopper' = [stopper EXCEPT !.iBuffering = TRUE]
      BY <1>7 DEF NotifyStarving
    <2> QED BY <2>1, <2>2, <1>1, <1>2, RampCompletedSameStream
  <1>8. ReportEvent \/ Wait \/ Return => SameStream(stopper, stopper')
    BY <1>1 DEF ReportEvent, Wait, Return, Members, SameStream
  <1>9. CheckHaltPending \/ CheckState => SameStream(stopper, stopper')
    BY <1>1 DEF CheckHaltPending, CheckState, Members, SameStream
  <1>10. ASSUME PullQueued PROVE SameStream(stopper, stopper')
    <2> DEFINE head == stopper.iQueue[1]
               popped == [stopper EXCEPT !.iQueue = << >>]
    <2>1. popped \in Members /\ SameStream(stopper, popped)
      BY <1>1, Values DEF Members, SameStream
    <2>2. stopper.iQueue \in Queues /\ stopper.iQueue # << >>
      BY <1>1, <1>10 DEF Members, PullQueued
    <2>3. head.size \in 1 .. MaxAudio /\ head.muted \in BOOLEAN
      BY <2>2 DEF Queues
    <2>4. ProcessAudio(popped, head.size, head.muted)
      BY <1>10 DEF PullQueued
    <2> HIDE DEF head, popped
    <2> QED BY <2>1, <2>3, <2>4, ProcessAudioSameStream, SameStreamTransitive
  <1>11. ASSUME NEW n \in 1 .. MaxAudio, PullAudio(n) PROVE SameStream(stopper, stopper')
    BY <1>1, <1>11, ProcessAudioSameStream DEF PullAudio
  <1>12. PullSilence \/ PullFlushable \/ PullQuit => SameStream(stopper, stopper')
    BY <1>1, <1>2, RampCompletedSameStream DEF PullSilence, PullFlushable, PullQuit
  <1>13. ASSUME NEW id \in 0 .. MaxHalts, PullHalt(id) PROVE SameStream(stopper, stopper')
    <2> DEFINE s == [stopper EXCEPT !.iTargetHaltId = kIdInvalid]
    <2>1. s \in Members /\ SameStream(stopper, s)
      BY <1>1, Values DEF Members, SameStream
    <2>2. stopper' = HandleStopped(s) \/ stopper' = stopper
      BY <1>13 DEF PullHalt
    <2> HIDE DEF s
    <2> QED BY <2>1, <2>2, <1>2, HandlersSameStream, SameStreamTransitive
  <1> QED BY <1>3, <1>4, <1>5, <1>6, <1>7, <1>8, <1>9, <1>10, <1>11, <1>12, <1>13

(* Once CheckPlayable has been called, nothing is owed.                    *)
LEMMA CheckPlayableAsks ==
    ASSUME NEW s \in Members, NEW a \in Answers, s.iStreamHandler,
           s.owed = IF ~s.iCheckedStreamPlayable THEN 1 ELSE 0
    PROVE  /\ CheckPlayable(s, a) \in Members
           /\ CheckPlayable(s, a).owed = 0
           /\ CheckPlayable(s, a).iCheckedStreamPlayable
           /\ CheckPlayable(s, a).iStreamHandler
           /\ CheckPlayable(s, a).iStreamIsLive = s.iStreamIsLive
  <1>1. CASE s.iCheckedStreamPlayable
    BY <1>1 DEF CheckPlayable
  <1>2. CASE ~s.iCheckedStreamPlayable
    BY <1>2, OkToPlayAsks, OkToPlayTyped DEF CheckPlayable
  <1> QED BY <1>1, <1>2

LEMMA NewStreamAsks ==
    ASSUME TypeOK, AskedInv, NEW a \in Answers
    PROVE  LET clean == NewStream(IF stopper.iStreamHandler THEN CheckPlayable(stopper, a) ELSE stopper)
           IN  /\ clean \in Members /\ clean.owed = 0
               /\ ~clean.iStreamHandler /\ ~clean.iCheckedStreamPlayable
  <1> DEFINE asked == IF stopper.iStreamHandler THEN CheckPlayable(stopper, a) ELSE stopper
  <1>1. stopper \in Members
    BY DEF TypeOK
  <1>2. asked \in Members /\ asked.owed = 0
    BY <1>1, CheckPlayableAsks DEF AskedInv
  <1>3. NewStream(asked) \in Members
    BY <1>2, HandlersTyped
  <1> HIDE DEF asked
  <1>4. /\ NewStream(asked).owed = 0
        /\ ~NewStream(asked).iStreamHandler /\ ~NewStream(asked).iCheckedStreamPlayable
    BY <1>2 DEF NewStream, Members
  <1> QED BY <1>3, <1>4 DEF asked

LEMMA StreamStepsAsk ==
    ASSUME TypeOK, AskedInv
    PROVE  /\ \A ramp \in {RampLong, RampShort} : PullMode(ramp) => AskedInv'
           /\ \A a \in Answers : PullTrack(a) => AskedInv'
           /\ \A live \in BOOLEAN, a, b \in Answers : PullEncodedStream(live, a, b) => AskedInv'
           /\ \A a \in Answers : PullDecodedStream(a) => AskedInv'
  <1>1. stopper \in Members
    BY DEF TypeOK
  <1>2. ASSUME NEW ramp \in {RampLong, RampShort}, PullMode(ramp) PROVE AskedInv'
    <2>1. SameStream(stopper, stopper') /\ phase' = "idle"
      BY <1>1, <1>2 DEF PullMode, SameStream, Members
    <2> QED BY <2>1 DEF AskedInv, SameStream
  <1>3. ASSUME NEW a \in Answers, PullTrack(a) PROVE AskedInv'
    BY <1>3, NewStreamAsks DEF PullTrack, AskedInv
  <1>4. ASSUME NEW live \in BOOLEAN, NEW a \in Answers, NEW b \in Answers,
               PullEncodedStream(live, a, b)
        PROVE  AskedInv'
    <2> DEFINE clean == NewStream(IF stopper.iStreamHandler THEN CheckPlayable(stopper, a) ELSE stopper)
               new == [clean EXCEPT !.iStreamHandler = TRUE, !.iStreamIsLive = live, !.owed = @ + 1]
    <2>1. clean \in Members /\ clean.owed = 0 /\ ~clean.iCheckedStreamPlayable
      BY NewStreamAsks
    <2>2. stopper' = (IF live THEN OkToPlay(new, b) ELSE new) /\ phase' = "encoded"
      BY <1>4 DEF PullEncodedStream
    <2> HIDE DEF clean
    <2>3. /\ new \in Members /\ new.owed = 1 /\ ~new.iCheckedStreamPlayable
          /\ new.iStreamHandler /\ new.iStreamIsLive = live
      <3>1. clean.owed + 1 = 1
        BY <2>1
      <3>2. clean.owed + 1 \in Int
        BY <3>1
      <3>3. new \in Members
        BY <2>1, <3>2 DEF Members
      <3>4. new.owed = 1
        BY <2>1, <3>1 DEF Members
      <3>5. new.iCheckedStreamPlayable = clean.iCheckedStreamPlayable
        BY <2>1 DEF Members
      <3>6. new.iStreamHandler = TRUE
        BY <2>1 DEF Members
      <3>7. new.iStreamIsLive = live
        BY <2>1 DEF Members
      <3> HIDE DEF new
      <3> QED BY <2>1, <3>3, <3>4, <3>5, <3>6, <3>7
    <2> HIDE DEF new
    <2>4. CASE live
      BY <2>2, <2>3, <2>4, OkToPlayAsks DEF AskedInv
    <2>5. CASE ~live
      BY <2>2, <2>3, <2>5 DEF AskedInv
    <2> QED BY <2>4, <2>5
  <1>5. ASSUME NEW a \in Answers, PullDecodedStream(a) PROVE AskedInv'
    <2>1. stopper.iStreamHandler /\ phase' = "decoded"
      BY <1>5 DEF PullDecodedStream, AskedInv
    <2>2. CASE stopper.iStreamIsLive
      BY <2>1, <2>2, <1>5 DEF PullDecodedStream, AskedInv
    <2>3. CASE ~stopper.iStreamIsLive
      BY <2>1, <2>3, <1>1, <1>5, CheckPlayableAsks DEF PullDecodedStream, AskedInv
    <2> QED BY <2>2, <2>3
  <1> QED BY <1>2, <1>3, <1>4, <1>5

(* A stream is owed a question until it is asked: the invariant behind the *)
(* next, and part of that of RunningSaysPlaying.                           *)
THEOREM AskedInvariant == Spec => []AskedInv
  <1>1. Init => AskedInv
    BY DEF Init, AskedInv
  <1>2. TypeOK /\ AskedInv /\ [Next]_vars => AskedInv'
    <2> SUFFICES ASSUME TypeOK, AskedInv, [Next]_vars PROVE AskedInv'
      OBVIOUS
    <2>1. CASE UNCHANGED vars
      BY <2>1 DEF vars, AskedInv
    <2>2. CASE Next
      BY <2>2, StepsSameStream, SameStreamAsked, StreamStepsAsk DEF Next, Puller, PullAny
    <2> QED BY <2>1, <2>2
  <1> QED BY <1>1, <1>2, TypeCorrect, PTL DEF Spec

(* IdManager is asked about every encoded stream once, recognised or not,  *)
(* by the time the next track or its own audio gets out (Stopper.cpp:221). *)
THEOREM EveryStreamAskedOnce == Spec => []AskedOnce
  <1>1. AskedInv => AskedOnce
    BY DEF AskedInv, AskedOnce
  <1> QED BY <1>1, AskedInvariant, PTL

-----------------------------------------------------------------------------
(* The event each step raises, and whether Pull() is held up after it.     *)

PlayOf(s) == /\ s.iState = ERampingUp => s.told = EEventPlaying
             /\ s.iState = ERunning /\ ~s.iFlushStream
                   /\ s.iStreamHandler /\ s.iCheckedStreamPlayable
                      => s.told = EEventPlaying
PlayInv == PlayOf(stopper)

Halted(s) == IF s.iState \in Blocked THEN s.iState ELSE "no"

(* The steps StopperEvents allows, between two states of the members.      *)
Stays(s, t) == Halted(t) = Halted(s) /\ t.iEventState = s.iEventState
HaltsAs(t, h) == Halted(t) = h /\ t.iEventState = h
MayPlay(s, t) == Halted(t) = Halted(s) /\ t.iEventState = EEventPlaying
MovesOn(s, t) == Halted(t) = "no" /\ t.iEventState \in {s.iEventState, EEventPlaying, EEventStopped}
Taken(s, t) == /\ Halted(t) = Halted(s)
               /\ s.iEventState # EEventNone /\ t.iEventState = EEventNone
Seen(s, t) == \/ Stays(s, t) \/ HaltsAs(t, EPaused) \/ HaltsAs(t, EStopped)
              \/ MayPlay(s, t) \/ MovesOn(s, t) \/ Taken(s, t)

LEMMA Names ==
    /\ \A st \in {ERunning, ERampingDown, ERampingUp, EFlushing} :
          st # EPaused /\ st # EStopped
    /\ ERunning # ERampingUp /\ ERunning # ERampingDown /\ ERunning # EFlushing
    /\ ERampingUp # ERampingDown /\ ERampingUp # EFlushing /\ ERampingDown # EFlushing
    /\ EPaused # EStopped
    /\ EEventPaused = EPaused /\ EEventStopped = EStopped
    /\ Ramping = {ERampingDown, ERampingUp}
  BY DEF ERunning, ERampingDown, ERampingUp, EFlushing, EPaused, EStopped,
         EEventPaused, EEventStopped, Ramping

LEMMA HaltedOf ==
    ASSUME NEW s
    PROVE  /\ s.iState \in {ERunning, ERampingDown, ERampingUp, EFlushing} => Halted(s) = "no"
           /\ s.iState \in {EPaused, EStopped} => Halted(s) = s.iState
  BY StateNames DEF Halted

LEMMA HandlersReport ==
    ASSUME NEW s \in Members
    PROVE  /\ PlayOf(HandlePaused(s)) /\ HaltsAs(HandlePaused(s), EPaused)
           /\ PlayOf(HandleStopped(s)) /\ HaltsAs(HandleStopped(s), EStopped)
  <1>1. HandlePaused(s).iState = EPaused /\ HandlePaused(s).iEventState = EEventPaused
    BY DEF Members, HandlePaused, ScheduleEvent
  <1>2. HandleStopped(s).iState = EStopped /\ HandleStopped(s).iEventState = EEventStopped
    BY DEF Members, HandleStopped, ScheduleEvent
  <1>3. \A t : t.iState \in {EPaused, EStopped} => PlayOf(t)
    BY Names DEF PlayOf
  <1>4. HaltsAs(HandlePaused(s), EPaused) /\ HaltsAs(HandleStopped(s), EStopped)
    BY <1>1, <1>2, Names, HaltedOf DEF HaltsAs
  <1> QED BY <1>1, <1>2, <1>3, <1>4

(* A ramp down that is complete leaves nothing of the stream to be heard,  *)
(* or a pipeline that is paused and has said so.                           *)
LEMMA RampCompletedReports ==
    ASSUME NEW s \in Members, PlayOf(s), s.iState \in Ramping
    PROVE  /\ PlayOf(RampCompleted(s))
           /\ Stays(s, RampCompleted(s)) \/ HaltsAs(RampCompleted(s), EPaused)
  <1>1. ASSUME NEW t \in Members, PlayOf(t)
        PROVE  /\ PlayOf([t EXCEPT !.iHaltPending = TRUE])
               /\ \A h : HaltsAs(t, h) => HaltsAs([t EXCEPT !.iHaltPending = TRUE], h)
    BY <1>1 DEF Members, PlayOf, HaltsAs, Halted
  <1>2. CASE s.iState = ERampingUp
    <2>1. RampCompleted(s) = [s EXCEPT !.iState = ERunning]
      BY <1>2, Names DEF RampCompleted
    <2>2. /\ RampCompleted(s).iState = ERunning /\ RampCompleted(s).told = s.told
          /\ RampCompleted(s).iEventState = s.iEventState
      BY <2>1 DEF Members
    <2> QED BY <2>2, <1>2, Names, HaltedOf DEF PlayOf, Stays
  <1>3. CASE s.iState = ERampingDown /\ s.iTargetHaltId = kIdInvalid
    <2>1. RampCompleted(s) = [HandlePaused(s) EXCEPT !.iHaltPending = TRUE]
      BY <1>3 DEF RampCompleted
    <2> QED BY <2>1, <1>1, HandlersReport, HandlersTyped
  <1>4. CASE s.iState = ERampingDown /\ s.iTargetHaltId # kIdInvalid
    <2> DEFINE t == RampCompleted(s)
    <2>1. t = [[s EXCEPT !.iState = ERunning, !.iFlushStream = TRUE] EXCEPT !.iHaltPending = TRUE]
      BY <1>4 DEF RampCompleted
    <2>2. t.iState = ERunning /\ t.iFlushStream /\ t.iEventState = s.iEventState
      BY <2>1 DEF Members
    <2> HIDE DEF t
    <2>3. PlayOf(t) /\ Stays(s, t)
      BY <2>2, <1>4, Names, HaltedOf DEF PlayOf, Stays
    <2> QED BY <2>3 DEF t
  <1> QED BY <1>2, <1>3, <1>4, Names

LEMMA OkToPlayReports ==
    ASSUME NEW s \in Members, NEW a \in Answers
    PROVE  LET t == OkToPlay(s, a)
           IN  \/ /\ t.iState = s.iState /\ t.told = EEventPlaying
                  /\ t.iEventState = EEventPlaying
               \/ t.iState = EFlushing /\ t.iFlushStream /\ t.iEventState = s.iEventState
               \/ t.iState = EStopped /\ t.iEventState = EEventStopped
  <1> DEFINE asked == [s EXCEPT !.iCheckedStreamPlayable = TRUE, !.owed = @ - 1]
             flush == [asked EXCEPT !.iState = EFlushing, !.iFlushStream = TRUE]
  <1>1. s.owed - 1 \in Int
    BY DEF Members
  <1>2. /\ asked \in Members /\ asked.iState = s.iState
        /\ asked.iEventState = s.iEventState
    BY <1>1 DEF Members
  <1>3. /\ flush \in Members /\ flush.iState = EFlushing /\ flush.iFlushStream
        /\ flush.iEventState = s.iEventState
    <2> HIDE DEF asked
    <2> QED BY <1>2, Values DEF Members
  <1>4. OkToPlay(s, a) = CASE s.iQuit -> flush
         [] ~s.iQuit /\ a = ePlayYes -> ScheduleEvent(asked, EEventPlaying)
         [] ~s.iQuit /\ a = ePlayNo -> [flush EXCEPT !.iHaltPending = TRUE]
         [] OTHER -> [HandleStopped(asked) EXCEPT !.iHaltPending = TRUE]
    BY DEF OkToPlay
  <1> HIDE DEF asked, flush
  <1>5. ASSUME NEW t \in Members
        PROVE  LET u == [t EXCEPT !.iHaltPending = TRUE]
               IN  /\ u.iState = t.iState /\ u.iEventState = t.iEventState
                   /\ u.iFlushStream = t.iFlushStream
    BY DEF Members
  <1>6. LET t == ScheduleEvent(asked, EEventPlaying)
        IN  t.iState = s.iState /\ t.told = EEventPlaying /\ t.iEventState = EEventPlaying
    BY <1>2 DEF Members, ScheduleEvent
  <1>7. LET t == HandleStopped(asked)
        IN  t \in Members /\ t.iState = EStopped /\ t.iEventState = EEventStopped
    BY <1>2, HandlersTyped DEF Members, HandleStopped, ScheduleEvent
  <1> QED BY <1>3, <1>4, <1>5, <1>6, <1>7

LEMMA NewStreamReports ==
    ASSUME NEW s \in Members
    PROVE  LET t == NewStream(s)
           IN  /\ t.iState = ERunning /\ ~t.iStreamHandler /\ ~t.iCheckedStreamPlayable
               /\ t.iEventState = s.iEventState /\ ~t.iFlushStream
               /\ t.iRampJiffies = s.iRampJiffies /\ t.iQueue = s.iQueue
  BY DEF Members, NewStream

LEMMA ClientCallsReport ==
    ASSUME NEW s \in Members, PlayOf(s)
    PROVE  /\ PlayOf(Played(s)) /\ MovesOn(s, Played(s))
           /\ PlayOf(Paused(s)) /\ Seen(s, Paused(s))
           /\ PlayOf(Stopped(s)) /\ Seen(s, Stopped(s))
  <1>1. PlayOf(Played(s)) /\ MovesOn(s, Played(s))
    <2> DEFINE back == ReverseRamp(s, ERampingUp)
               up == [back EXCEPT !.iState = IF back.iRemainingRampSize = 0
                                             THEN ERunning ELSE ERampingUp]
               resumed == [s EXCEPT !.iState = ERampingUp, !.iCurrentRampValue = 0,
                                    !.iRemainingRampSize = s.iRampJiffies, !.iSem = @ + 1]
               restarted == [s EXCEPT !.iState = ERunning, !.iSem = @ + 1]
               ramped == CASE s.iState = ERampingDown -> up
                           [] s.iState = EPaused -> resumed
                           [] s.iState = EStopped -> restarted
                           [] OTHER -> s
               done == [ramped EXCEPT !.iTargetHaltId = kIdInvalid]
               Awake(t) == t.iState \in States \ {EPaused, EStopped}
    <2>1. Played(s) = ScheduleEvent(done, EEventPlaying)
      BY DEF Played
    <2>2. back \in Members
      BY RampsTyped, Values
    <2> HIDE DEF back
    <2>3. up \in Members /\ Awake(up)
      BY <2>2, Values, Names DEF Members
    <2>4. s.iSem + 1 \in Nat /\ s.iRampJiffies \in 0 .. Wrap - 1
      BY Values DEF Members
    <2>5. resumed \in Members /\ Awake(resumed)
      BY <2>4, Values, Names DEF Members
    <2>6. restarted \in Members /\ Awake(restarted)
      BY <2>4, Values, Names DEF Members
    <2>7. s.iState \notin {EPaused, EStopped} => Awake(s)
      BY DEF Members
    <2> HIDE DEF up, resumed, restarted
    <2>8. ramped \in Members /\ Awake(ramped)
      <3>1. CASE s.iState = ERampingDown
        BY <3>1, <2>3, Names
      <3>2. CASE s.iState = EPaused
        BY <3>2, <2>5, Names
      <3>3. CASE s.iState = EStopped
        BY <3>3, <2>6, Names
      <3>4. CASE s.iState \notin {ERampingDown, EPaused, EStopped}
        BY <3>4, <2>7
      <3> QED BY <3>1, <3>2, <3>3, <3>4
    <2> HIDE DEF ramped
    <2>9. done \in Members /\ Awake(done)
      BY <2>8, Values DEF Members
    <2> HIDE DEF done
    <2>10. /\ Awake(Played(s)) /\ Played(s).told = EEventPlaying
           /\ Played(s).iEventState = EEventPlaying
      BY <2>1, <2>9, Values DEF ScheduleEvent, Members
    <2>11. Halted(Played(s)) = "no"
      BY <2>10, HaltedOf DEF States
    <2> QED BY <2>10, <2>11 DEF PlayOf, MovesOn
  <1>2. \A st \in {ERampingDown} : LET t == ReverseRamp(s, st)
                                   IN  t.iState = st /\ t.iEventState = s.iEventState
    BY DEF Members, ReverseRamp
  <1>3. LET t == StartRampDown(s)
        IN  t.iState = ERampingDown /\ t.iEventState = s.iEventState
    BY DEF Members, StartRampDown
  <1>4. \A t : t.iState = ERampingDown /\ t.iEventState = s.iEventState
               /\ s.iState \in {ERunning, ERampingUp}
                  => PlayOf(t) /\ Stays(s, t)
    BY Names, HaltedOf DEF PlayOf, Stays
  <1>5. Seen(s, s)
    BY DEF Seen, Stays
  <1>6. PlayOf(Paused(s)) /\ Seen(s, Paused(s))
    <2>1. \/ Paused(s) = HandlePaused(s)
          \/ s.iState = ERunning /\ Paused(s) = StartRampDown(s)
          \/ s.iState = ERampingUp /\ Paused(s) = ReverseRamp(s, ERampingDown)
          \/ Paused(s) = s
      BY DEF Paused
    <2> QED BY <2>1, <1>2, <1>3, <1>4, <1>5, HandlersReport DEF Seen
  <1>7. PlayOf(Stopped(s)) /\ Seen(s, Stopped(s))
    <2> DEFINE flush == [s EXCEPT !.iFlushStream = TRUE, !.iState = EFlushing, !.iSem = @ + 1]
    <2>1. \/ Stopped(s) = HandleStopped(s)
          \/ s.iState = ERunning /\ Stopped(s) = StartRampDown(s)
          \/ s.iState = ERampingUp /\ Stopped(s) = ReverseRamp(s, ERampingDown)
          \/ Stopped(s) = flush \/ Stopped(s) = s
      BY DEF Stopped
    <2>2. flush.iState = EFlushing /\ flush.iEventState = s.iEventState
      BY DEF Members
    <2> HIDE DEF flush
    <2>3. PlayOf(flush) /\ MovesOn(s, flush)
      BY <2>2, Names, HaltedOf DEF PlayOf, MovesOn
    <2> QED BY <2>1, <2>3, <1>2, <1>3, <1>4, <1>5, HandlersReport DEF Seen
  <1> QED BY <1>1, <1>6, <1>7

(* A part of a ramp raises no event unless it is the last.                 *)
LEMMA RampedReports ==
    ASSUME NEW s \in Members, PlayOf(s), s.iState \in Ramping,
           NEW size \in 1 .. MaxAudio, NEW muted \in BOOLEAN
    PROVE  /\ PlayOf(Ramped(s, size, muted))
           /\ Stays(s, Ramped(s, size, muted)) \/ HaltsAs(Ramped(s, size, muted), EPaused)
  <1> DEFINE rest == SplitOff(s, size, muted)
             first == IF rest = << >> THEN size ELSE s.iRemainingRampSize
             kept == [s EXCEPT !.iQueue = rest]
             set == SetRamp(kept, first, muted)
             Like(t, u) == /\ t.iState = u.iState /\ t.told = u.told
                           /\ t.iEventState = u.iEventState
  <1>1. kept \in Members /\ Like(kept, s)
        /\ kept.iRemainingRampSize = s.iRemainingRampSize
    BY SplitOffTyped DEF Members
  <1>2. first \in Nat /\ (s.iRemainingRampSize = 0 \/ first <= s.iRemainingRampSize)
    BY SplitOffTyped, RampAssumption
  <1> HIDE DEF kept, first
  <1>3. set \in Members
    BY <1>1, <1>2, SetRampTyped
  <1>4. Like(set, kept)
    <2> DEFINE end == RampTo(kept, first)
               left == IF end = (IF kept.iState = ERampingDown THEN 0 ELSE kMax)
                       THEN 0 ELSE kept.iRemainingRampSize - first
               mutedLeft == IF kept.iState = ERampingDown THEN 0 ELSE kept.iRemainingRampSize
    <2>1. \/ set = kept
          \/ set = [kept EXCEPT !.iCurrentRampValue = end, !.iRemainingRampSize = left]
          \/ set = [kept EXCEPT !.iCurrentRampValue = 0, !.iRemainingRampSize = mutedLeft]
      BY <1>1, RampAssumption DEF SetRamp, Members
    <2> HIDE DEF set, end, left, mutedLeft
    <2> QED BY <2>1, <1>1 DEF Members
  <1>5. Ramped(s, size, muted) = IF set.iRemainingRampSize = 0 THEN RampCompleted(set) ELSE set
    BY DEF Ramped, kept, first
  <1> HIDE DEF set
  <1>6. set.iState \in Ramping /\ PlayOf(set) /\ Stays(s, set)
    BY <1>1, <1>4, Names DEF PlayOf, Stays, Halted
  <1> QED BY <1>3, <1>5, <1>6, RampCompletedReports DEF Stays

(* Members a call changes before it does anything else: no event sees them. *)
LEMMA LikeReports ==
    ASSUME NEW r, NEW s, PlayOf(r),
           s.iState = r.iState, s.told = r.told, s.iEventState = r.iEventState,
           s.iStreamHandler = r.iStreamHandler,
           s.iCheckedStreamPlayable = r.iCheckedStreamPlayable,
           r.iFlushStream => s.iFlushStream
    PROVE  /\ PlayOf(s) /\ Stays(r, s)
           /\ \A t : Seen(s, t) => Seen(r, t)
  BY DEF PlayOf, Stays, Seen, HaltsAs, MayPlay, MovesOn, Taken, Halted

LEMMA ProcessAudioReports ==
    ASSUME NEW s \in Members, PlayOf(s), NEW size \in 1 .. MaxAudio, NEW muted \in BOOLEAN,
           ProcessAudio(s, size, muted)
    PROVE  PlayOf(stopper') /\ Seen(s, stopper')
  <1>1. CASE s.iState \in Ramping
    BY <1>1, RampedReports DEF ProcessAudio, Seen
  <1>2. CASE s.iState \notin Ramping
    BY <1>2 DEF ProcessAudio, Seen, Stays
  <1> QED BY <1>1, <1>2

LEMMA CallsReport ==
    ASSUME TypeOK, PlayInv,
           \/ Play \/ BeginPause \/ Quit \/ NotifyStarving \/ ReportEvent
           \/ \E id \in 1 .. MaxHalts : BeginStop(id)
    PROVE  PlayInv' /\ Seen(stopper, stopper')
  <1>1. stopper \in Members /\ PlayOf(stopper)
    BY DEF TypeOK, PlayInv
  <1>2. Stays(stopper, stopper) /\ Seen(stopper, stopper)
    BY DEF Seen, Stays
  <1>3. Play \/ BeginPause => PlayInv' /\ Seen(stopper, stopper')
    BY <1>1, ClientCallsReport DEF Play, BeginPause, PlayInv, Seen
  <1>4. ASSUME NEW id \in 1 .. MaxHalts, BeginStop(id)
        PROVE  PlayInv' /\ Seen(stopper, stopper')
    <2> DEFINE s == [stopper EXCEPT !.iTargetHaltId = id]
    <2>1. id \in 1 .. kIdInvalid
      BY HaltAssumption DEF kIdInvalid
    <2>2. s \in Members /\ PlayOf(s) /\ \A t : Seen(s, t) => Seen(stopper, t)
      <3>1. s \in Members /\ s.iState = stopper.iState /\ s.told = stopper.told
            /\ s.iEventState = stopper.iEventState /\ s.iStreamHandler = stopper.iStreamHandler
            /\ s.iCheckedStreamPlayable = stopper.iCheckedStreamPlayable
            /\ s.iFlushStream = stopper.iFlushStream
        BY <1>1, <2>1 DEF Members
      <3> HIDE DEF s
      <3> QED BY <3>1, <1>1, LikeReports
    <2>3. stopper' = Stopped(s)
      BY <1>4 DEF BeginStop
    <2> HIDE DEF s
    <2> QED BY <2>2, <2>3, ClientCallsReport DEF PlayInv
  <1>5. ASSUME Quit PROVE PlayInv' /\ Seen(stopper, stopper')
    <2> DEFINE flush == stopper.iFlushStream \/ stopper.iState \in Blocked
               s == [stopper EXCEPT !.iQuit = TRUE, !.iFlushStream = flush]
    <2>1. flush \in BOOLEAN /\ (stopper.iFlushStream => flush)
      BY <1>1 DEF Members
    <2>2. stopper' = Played(s)
      BY <1>5 DEF Quit
    <2> HIDE DEF flush
    <2>3. s \in Members /\ s.iState = stopper.iState /\ s.told = stopper.told
          /\ s.iEventState = stopper.iEventState /\ s.iStreamHandler = stopper.iStreamHandler
          /\ s.iCheckedStreamPlayable = stopper.iCheckedStreamPlayable
          /\ s.iFlushStream = flush
      BY <1>1, <2>1 DEF Members
    <2> HIDE DEF s
    <2>4. PlayOf(s) /\ \A t : Seen(s, t) => Seen(stopper, t)
      BY <1>1, <2>1, <2>3, LikeReports
    <2> QED BY <2>2, <2>3, <2>4, ClientCallsReport DEF PlayInv, Seen
  <1>6. ASSUME NotifyStarving PROVE PlayInv' /\ Seen(stopper, stopper')
    <2> DEFINE s == [stopper EXCEPT !.iBuffering = TRUE]
    <2>1. \/ stopper' = stopper \/ stopper' = s
          \/ stopper.iState = ERampingDown /\ stopper' = RampCompleted(stopper)
      BY <1>6 DEF NotifyStarving
    <2>2. s.iState = stopper.iState /\ s.told = stopper.told
          /\ s.iEventState = stopper.iEventState /\ s.iStreamHandler = stopper.iStreamHandler
          /\ s.iCheckedStreamPlayable = stopper.iCheckedStreamPlayable
          /\ s.iFlushStream = stopper.iFlushStream
      BY <1>1 DEF Members
    <2> HIDE DEF s
    <2>3. PlayOf(s) /\ Stays(stopper, s)
      BY <1>1, <2>2, LikeReports
    <2> QED BY <2>1, <2>3, <1>1, <1>2, RampCompletedReports, Names DEF PlayInv, Seen
  <1>7. ASSUME ReportEvent PROVE PlayInv' /\ Seen(stopper, stopper')
    <2>1. /\ stopper'.iState = stopper.iState /\ stopper'.told = stopper.told
          /\ stopper.iEventState # EEventNone /\ stopper'.iEventState = EEventNone
          /\ stopper'.iStreamHandler = stopper.iStreamHandler
          /\ stopper'.iCheckedStreamPlayable = stopper.iCheckedStreamPlayable
          /\ stopper'.iFlushStream = stopper.iFlushStream
      BY <1>1, <1>7 DEF ReportEvent, Members
    <2> QED BY <2>1, <1>1 DEF PlayInv, PlayOf, Seen, Taken, Halted
  <1> QED BY <1>3, <1>4, <1>5, <1>6, <1>7

LEMMA PullReports ==
    ASSUME TypeOK, PlayInv,
           \/ CheckHaltPending \/ CheckState \/ Wait \/ Return
           \/ PullQueued \/ PullSilence \/ PullFlushable \/ PullQuit
           \/ \E n \in 1 .. MaxAudio : PullAudio(n)
           \/ \E id \in 0 .. MaxHalts : PullHalt(id)
           \/ \E ramp \in {RampLong, RampShort} : PullMode(ramp)
    PROVE  PlayInv' /\ Seen(stopper, stopper')
  <1>1. stopper \in Members /\ PlayOf(stopper)
    BY DEF TypeOK, PlayInv
  <1>2. Seen(stopper, stopper)
    BY DEF Seen, Stays
  <1>3. ASSUME \/ CheckHaltPending \/ CheckState \/ Wait \/ Return \/ PullFlushable \/ PullQuit
               \/ \E ramp \in {RampLong, RampShort} : PullMode(ramp)
        PROVE  PlayInv' /\ Seen(stopper, stopper')
    <2>1. /\ stopper'.iState = stopper.iState /\ stopper'.told = stopper.told
          /\ stopper'.iEventState = stopper.iEventState
          /\ stopper'.iStreamHandler = stopper.iStreamHandler
          /\ stopper'.iCheckedStreamPlayable = stopper.iCheckedStreamPlayable
          /\ stopper'.iFlushStream = stopper.iFlushStream
      BY <1>1, <1>3 DEF CheckHaltPending, CheckState, Wait, Return, PullFlushable, PullQuit,
                        PullMode, Members
    <2> QED BY <2>1, <1>1, LikeReports DEF PlayInv, Seen
  <1>4. ASSUME PullQueued PROVE PlayInv' /\ Seen(stopper, stopper')
    <2> DEFINE head == stopper.iQueue[1]
               popped == [stopper EXCEPT !.iQueue = << >>]
    <2>1. popped \in Members /\ popped.iState = stopper.iState /\ popped.told = stopper.told
          /\ popped.iEventState = stopper.iEventState
          /\ popped.iStreamHandler = stopper.iStreamHandler
          /\ popped.iCheckedStreamPlayable = stopper.iCheckedStreamPlayable
          /\ popped.iFlushStream = stopper.iFlushStream
      BY <1>1, Values DEF Members
    <2>2. stopper.iQueue \in Queues /\ stopper.iQueue # << >>
      BY <1>1, <1>4 DEF Members, PullQueued
    <2>3. head.size \in 1 .. MaxAudio /\ head.muted \in BOOLEAN
      BY <2>2 DEF Queues
    <2>4. ProcessAudio(popped, head.size, head.muted)
      BY <1>4 DEF PullQueued
    <2> HIDE DEF head, popped
    <2>5. PlayOf(popped) /\ \A t : Seen(popped, t) => Seen(stopper, t)
      BY <1>1, <2>1, LikeReports
    <2> QED BY <2>1, <2>3, <2>4, <2>5, ProcessAudioReports DEF PlayInv
  <1>5. ASSUME NEW n \in 1 .. MaxAudio, PullAudio(n) PROVE PlayInv' /\ Seen(stopper, stopper')
    BY <1>1, <1>5, ProcessAudioReports DEF PullAudio, PlayInv
  <1>6. ASSUME PullSilence PROVE PlayInv' /\ Seen(stopper, stopper')
    BY <1>1, <1>2, <1>6, RampCompletedReports DEF PullSilence, PlayInv, Seen
  <1>7. ASSUME NEW id \in 0 .. MaxHalts, PullHalt(id) PROVE PlayInv' /\ Seen(stopper, stopper')
    <2> DEFINE s == [stopper EXCEPT !.iTargetHaltId = kIdInvalid]
    <2>1. s \in Members
      BY <1>1, Values DEF Members
    <2>2. stopper' = HandleStopped(s) \/ stopper' = stopper
      BY <1>7 DEF PullHalt
    <2> HIDE DEF s
    <2> QED BY <2>1, <2>2, <1>1, <1>2, HandlersReport DEF PlayInv, Seen
  <1> QED BY <1>3, <1>4, <1>5, <1>6, <1>7

(* A stream that may play says so before any of its audio is let through.  *)
LEMMA StreamsReport ==
    ASSUME TypeOK, PlayInv,
           \/ \E a \in Answers : PullTrack(a)
           \/ \E live \in BOOLEAN, a, b \in Answers : PullEncodedStream(live, a, b)
           \/ \E a \in Answers : PullDecodedStream(a)
    PROVE  PlayInv' /\ Seen(stopper, stopper')
  <1>1. stopper \in Members /\ PlayOf(stopper)
    BY DEF TypeOK, PlayInv
  <1>2. Seen(stopper, stopper)
    BY DEF Seen, Stays
  <1> DEFINE Raised(s, t) == t.iEventState \in {s.iEventState, EEventPlaying, EEventStopped}
  <1>3. ASSUME NEW s \in Members, NEW a \in Answers
        PROVE  Raised(s, CheckPlayable(s, a))
    BY OkToPlayReports DEF CheckPlayable
  <1>4. ASSUME NEW a \in Answers
        PROVE  LET asked == IF stopper.iStreamHandler THEN CheckPlayable(stopper, a) ELSE stopper
               IN  asked \in Members /\ Raised(stopper, asked)
    BY <1>1, <1>3, OkToPlayTyped
  <1>5. ASSUME NEW a \in Answers, PullTrack(a) PROVE PlayInv' /\ Seen(stopper, stopper')
    <2> DEFINE asked == IF stopper.iStreamHandler THEN CheckPlayable(stopper, a) ELSE stopper
    <2>1. asked \in Members /\ Raised(stopper, asked)
      BY <1>4
    <2>2. stopper' = NewStream(asked)
      BY <1>5 DEF PullTrack
    <2> HIDE DEF asked
    <2>3. stopper'.iState = ERunning /\ ~stopper'.iStreamHandler /\ Raised(stopper, stopper')
      BY <2>1, <2>2, NewStreamReports
    <2> QED BY <2>3, Names, HaltedOf DEF PlayInv, PlayOf, Seen, MovesOn
  <1>6. ASSUME NEW live \in BOOLEAN, NEW a \in Answers, NEW b \in Answers,
               PullEncodedStream(live, a, b)
        PROVE  PlayInv' /\ Seen(stopper, stopper')
    <2> DEFINE asked == IF stopper.iStreamHandler THEN CheckPlayable(stopper, a) ELSE stopper
               clean == NewStream(asked)
               new == [clean EXCEPT !.iStreamHandler = TRUE, !.iStreamIsLive = live, !.owed = @ + 1]
    <2>1. asked \in Members /\ Raised(stopper, asked)
      BY <1>4
    <2>2. stopper' = IF live THEN OkToPlay(new, b) ELSE new
      BY <1>6 DEF PullEncodedStream
    <2> HIDE DEF asked
    <2>3. /\ clean \in Members /\ clean.iState = ERunning /\ ~clean.iCheckedStreamPlayable
          /\ Raised(stopper, clean)
      BY <2>1, NewStreamReports, HandlersTyped
    <2> HIDE DEF clean
    <2>4. clean.owed + 1 \in Int
      BY <2>3 DEF Members
    <2>5. /\ new \in Members /\ new.iState = ERunning /\ ~new.iCheckedStreamPlayable
          /\ Raised(stopper, new)
      BY <2>3, <2>4 DEF Members
    <2> HIDE DEF new
    <2>6. CASE ~live
      BY <2>2, <2>5, <2>6, Names, HaltedOf DEF PlayInv, PlayOf, Seen, MovesOn
    <2>7. CASE live
      <3>1. stopper' = OkToPlay(new, b)
        BY <2>2, <2>7
      <3>2. \/ /\ stopper'.iState = ERunning /\ stopper'.told = EEventPlaying
               /\ stopper'.iEventState = EEventPlaying
            \/ stopper'.iState = EFlushing /\ Raised(stopper, stopper')
            \/ stopper'.iState = EStopped /\ stopper'.iEventState = EEventStopped
        BY <3>1, <2>5, OkToPlayReports
      <3>3. PlayInv'
        BY <3>2, Names DEF PlayInv, PlayOf
      <3>4. MovesOn(stopper, stopper') \/ HaltsAs(stopper', EStopped)
        BY <3>2, Names, HaltedOf DEF MovesOn, HaltsAs
      <3> QED BY <3>3, <3>4 DEF Seen
    <2> QED BY <2>6, <2>7
  <1>7. ASSUME NEW a \in Answers, PullDecodedStream(a) PROVE PlayInv' /\ Seen(stopper, stopper')
    <2>1. stopper' = stopper \/ stopper' = OkToPlay(stopper, a)
      BY <1>7 DEF PullDecodedStream, CheckPlayable
    <2>2. ASSUME stopper' = OkToPlay(stopper, a)
          PROVE  PlayInv' /\ Seen(stopper, stopper')
      <3>1. \/ /\ stopper'.iState = stopper.iState /\ stopper'.told = EEventPlaying
               /\ stopper'.iEventState = EEventPlaying
            \/ stopper'.iState = EFlushing /\ stopper'.iEventState = stopper.iEventState
            \/ stopper'.iState = EStopped /\ stopper'.iEventState = EEventStopped
        BY <2>2, <1>1, OkToPlayReports
      <3>2. PlayInv'
        BY <3>1, Names DEF PlayInv, PlayOf
      <3>3. \/ MayPlay(stopper, stopper') \/ MovesOn(stopper, stopper')
            \/ HaltsAs(stopper', EStopped)
        BY <3>1, Names, HaltedOf DEF MayPlay, MovesOn, HaltsAs, Halted
      <3> QED BY <3>2, <3>3 DEF Seen
    <2> QED BY <2>1, <2>2, <1>1, <1>2 DEF PlayInv
  <1> QED BY <1>5, <1>6, <1>7

LEMMA StepReports == TypeOK /\ PlayInv /\ [Next]_vars => PlayInv' /\ Seen(stopper, stopper')
  <1> SUFFICES ASSUME TypeOK, PlayInv, [Next]_vars PROVE PlayInv' /\ Seen(stopper, stopper')
    OBVIOUS
  <1>1. CASE UNCHANGED vars
    BY <1>1 DEF vars, PlayInv, PlayOf, Seen, Stays, Halted
  <1>2. CASE Next
    BY <1>2, CallsReport, PullReports, StreamsReport DEF Next, Puller, PullAny
  <1> QED BY <1>1, <1>2

THEOREM PlayInvariant == Spec => []PlayInv
  <1>1. Init => PlayInv
    BY DEF Init, PlayInv, PlayOf, ERunning, ERampingUp
  <1> QED BY <1>1, StepReports, TypeCorrect, PTL DEF Spec

(* Audio runs only when the last event raised says playing, whatever the   *)
(* order of the calls, streams and answers (Stopper.cpp 228-250, 380-389). *)
THEOREM RunningSaysPlaying == Spec => []AudioMeansPlaying
  <1>1. AskedInv /\ PlayInv => AudioMeansPlaying
    BY DEF AskedInv, PlayInv, PlayOf, AudioMeansPlaying
  <1> QED BY <1>1, AskedInvariant, PlayInvariant, PTL

(* Stopper implements StopperEvents: Pull() is held up only by a step that *)
(* raises the event saying so, and no step raises an event for any other   *)
(* reason, for every ramp, message and call (Stopper.cpp:508, 515, 533).   *)
THEOREM EventsImplemented == Spec => ImplementsEvents
  <1>1. Init => Promised!Init
    BY StateNames DEF Init, Promised!Init, EEventNone
  <1>2. TypeOK /\ PlayInv /\ [Next]_vars => [Promised!Next]_(Promised!events)
    <2> SUFFICES ASSUME Seen(stopper, stopper')
                 PROVE  [Promised!Next]_(Promised!events)
      BY StepReports
    <2> DEFINE from == IF stopper.iState \in Blocked THEN stopper.iState ELSE "no"
               to == IF stopper'.iState \in Blocked THEN stopper'.iState ELSE "no"
    <2>1. from = Halted(stopper) /\ to = Halted(stopper')
      BY DEF Halted
    <2>2. CASE Stays(stopper, stopper')
      BY <2>1, <2>2 DEF Stays, Promised!events
    <2>3. CASE HaltsAs(stopper', EPaused) \/ HaltsAs(stopper', EStopped)
      BY <2>1, <2>3 DEF HaltsAs, EPaused, EStopped, Promised!Next, Promised!Pull,
                        Promised!Halt, Promised!Halts, Promised!Raise
    <2>4. CASE MayPlay(stopper, stopper')
      BY <2>1, <2>4 DEF MayPlay, EEventPlaying, Promised!Next, Promised!Pull, Promised!Raise
    <2>5. CASE MovesOn(stopper, stopper')
      BY <2>1, <2>5 DEF MovesOn, EEventPlaying, EEventStopped,
                        Promised!Next, Promised!Pull, Promised!Raise
    <2>6. CASE Taken(stopper, stopper')
      BY <2>1, <2>6 DEF Taken, EEventNone, Promised!Next, Promised!ReportEvent, Promised!Raise
    <2> QED BY <2>2, <2>3, <2>4, <2>5, <2>6 DEF Seen
  <1> QED BY <1>1, <1>2, TypeCorrect, PlayInvariant, PTL DEF Spec, ImplementsEvents, Promised!Spec
-----------------------------------------------------------------------------
(* The volume at which audio was last heard, and the one that comes next.  *)

(* A multiple of r, rounded up to one. *)
LEMMA WholeDivision ==
    ASSUME NEW q \in Nat, NEW r \in Nat, r > 0
    PROVE  (q * r + r - 1) \div r = q
  <1> DEFINE d == (q * r + r - 1) \div r
  <1>1. q * r \in Nat
    OBVIOUS
  <1>2. d \in Nat /\ r * d <= q * r + r - 1 /\ q * r + r - 1 < r * d + r
    <2> DEFINE n == q * r + r - 1
    <2>1. n \in Nat
      BY <1>1
    <2> HIDE DEF n
    <2>2. n \div r \in Nat /\ r * (n \div r) <= n /\ n < r * (n \div r) + r
      BY <2>1
    <2> QED BY <2>2 DEF n
  <1> HIDE DEF d
  <1>3. ~(d > q)
    <2> SUFFICES ASSUME d >= q + 1 PROVE FALSE
      BY <1>2
    <2>1. r * d >= r * (q + 1)
      BY <1>2
    <2>2. r * (q + 1) = q * r + r
      OBVIOUS
    <2> QED BY <2>1, <2>2, <1>1, <1>2
  <1>4. ~(d < q)
    <2> SUFFICES ASSUME d + 1 <= q PROVE FALSE
      BY <1>2
    <2>1. r * (d + 1) <= q * r
      BY <1>2
    <2>2. r * (d + 1) = r * d + r
      BY <1>2
    <2> QED BY <2>1, <2>2, <1>1, <1>2
  <1> QED BY <1>2, <1>3, <1>4 DEF d

(* All that is left of a ramp ends it, whatever the rounding.              *)
LEMMA RampEnds ==
    ASSUME NEW s \in Members, s.iRemainingRampSize > 0
    PROVE  RampTo(s, s.iRemainingRampSize) = IF s.iState = ERampingDown THEN 0 ELSE kMax
  <1> DEFINE r == s.iRemainingRampSize
             down == s.iState = ERampingDown
             value == s.iCurrentRampValue
             left == IF down THEN value ELSE kMax - value
             delta == (left * r + r - 1) \div r
             step == IF delta > left THEN left ELSE delta
  <1>1. value \in 0 .. kMax /\ kMax \in Nat /\ r \in Nat /\ r > 0
    BY RampAssumption DEF Members, Volumes
  <1>2. left \in Nat
    BY <1>1
  <1>3. delta = left
    <2> HIDE DEF left, r
    <2> QED BY <1>1, <1>2, WholeDivision
  <1>4. RampTo(s, r) = IF down THEN value - step ELSE value + step
    BY DEF RampTo
  <1> HIDE DEF delta
  <1>5. step = left
    BY <1>3
  <1> HIDE DEF step, r, value
  <1> QED BY <1>1, <1>4, <1>5 DEF r

(* How far a ramp may have got, and where its volume then is.              *)
BoundsOf(s) ==
    /\ s.iState = ERampingUp => /\ s.iRemainingRampSize \in 1 .. s.iRampJiffies
                                /\ s.iRemainingRampSize = s.iRampJiffies => s.iCurrentRampValue = 0
    /\ s.iState = ERampingDown => /\ s.iRemainingRampSize \in 0 .. s.iRampJiffies
                                  /\ s.iRemainingRampSize = s.iRampJiffies => s.iCurrentRampValue = kMax
                                  /\ s.iRemainingRampSize = 0 => s.iCurrentRampValue = 0
    /\ s.iState = EFlushing => s.iFlushStream

(* What was heard last is where the next ramp starts, unless the stream is *)
(* being discarded; a stopped stream is not heard.                         *)
LevelOf(s, h) ==
    \/ s.iFlushStream \/ h = Gap
    \/ /\ s.iState = ERunning => h = kMax
       /\ s.iState \in Ramping => h = s.iCurrentRampValue
       /\ s.iState = EPaused => h = 0
       /\ s.iState # EStopped

(* The rest of a message that a ramp ended in waits for the next Pull():   *)
(* at full volume, or muted and in front of the halt.                      *)
RestOf(s, h) ==
    s.iQueue # << >> =>
        /\ s.iQueue[1].muted => s.iHaltPending /\ (s.iFlushStream \/ h \in {0, Gap})
        /\ ~s.iQueue[1].muted => s.iFlushStream \/ h \in {kMax, Gap}

(* A puller that is past its test of iState heard nothing before a pause.  *)
HeldOf(s, h) == s.iState = EPaused => s.iFlushStream \/ h = Gap

SoundInv ==
    /\ phase # "idle" => BoundsOf(stopper)
    /\ phase = "decoded" => /\ LevelOf(stopper, heard)
                            /\ pc = "pull" => HeldOf(stopper, heard)
    /\ RestOf(stopper, heard)
    /\ stopper.iQueue # << >> =>
          /\ phase = "decoded"
          /\ stopper.iQueue[1].muted => pc \notin {"check", "wait", "pull"}

(* Members that decide what is heard. *)
SameSound(s, t) ==
    /\ t.iQueue = s.iQueue /\ t.iRampJiffies = s.iRampJiffies
    /\ s.iHaltPending => t.iHaltPending
    /\ s.iFlushStream => t.iFlushStream
SameRamp(s, t) ==
    /\ t.iState = s.iState /\ t.iRemainingRampSize = s.iRemainingRampSize
    /\ t.iCurrentRampValue = s.iCurrentRampValue

LEMMA HandlersSound ==
    ASSUME NEW s \in Members
    PROVE  /\ SameSound(s, HandlePaused(s)) /\ HandlePaused(s).iState = EPaused
           /\ SameSound(s, HandleStopped(s)) /\ HandleStopped(s).iState = EStopped
           /\ \A e \in Events : /\ SameSound(s, ScheduleEvent(s, e))
                                /\ SameRamp(s, ScheduleEvent(s, e))
           /\ LET t == [s EXCEPT !.iHaltPending = TRUE]
              IN  SameSound(s, t) /\ SameRamp(s, t) /\ t.iHaltPending
  <1>1. SameSound(s, HandlePaused(s)) /\ HandlePaused(s).iState = EPaused
    BY DEF Members, HandlePaused, ScheduleEvent, SameSound
  <1>2. SameSound(s, HandleStopped(s)) /\ HandleStopped(s).iState = EStopped
    BY DEF Members, HandleStopped, ScheduleEvent, SameSound
  <1>3. \A e \in Events : /\ SameSound(s, ScheduleEvent(s, e))
                          /\ SameRamp(s, ScheduleEvent(s, e))
    BY DEF Members, ScheduleEvent, SameSound, SameRamp
  <1>4. LET t == [s EXCEPT !.iHaltPending = TRUE]
        IN  SameSound(s, t) /\ SameRamp(s, t) /\ t.iHaltPending
    BY DEF Members, SameSound, SameRamp
  <1> QED BY <1>1, <1>2, <1>3, <1>4

LEMMA RampCompletedSound ==
    ASSUME NEW s \in Members, s.iState \in Ramping
    PROVE  LET t == RampCompleted(s)
           IN  /\ SameSound(s, t)
               /\ \/ s.iState = ERampingUp /\ t.iState = ERunning
                  \/ s.iState = ERampingDown /\ t.iState = EPaused /\ t.iHaltPending
                  \/ /\ s.iState = ERampingDown /\ t.iState = ERunning
                     /\ t.iFlushStream /\ t.iHaltPending
  <1> DEFINE t == RampCompleted(s)
  <1>1. CASE s.iState = ERampingUp
    <2>1. t = [s EXCEPT !.iState = ERunning]
      BY <1>1, Names DEF RampCompleted
    <2>2. t.iState = ERunning /\ SameSound(s, t)
      BY <2>1 DEF Members, SameSound
    <2> QED BY <2>2, <1>1
  <1>2. CASE s.iState = ERampingDown /\ s.iTargetHaltId = kIdInvalid
    <2>1. t = [HandlePaused(s) EXCEPT !.iHaltPending = TRUE]
      BY <1>2 DEF RampCompleted
    <2>2. HandlePaused(s) \in Members /\ SameSound(s, HandlePaused(s)) /\ HandlePaused(s).iState = EPaused
      BY HandlersTyped, HandlersSound
    <2>3. SameSound(HandlePaused(s), t) /\ SameRamp(HandlePaused(s), t) /\ t.iHaltPending
      BY <2>1, <2>2, HandlersSound
    <2> HIDE DEF t
    <2> QED BY <2>2, <2>3, <1>2 DEF SameSound, SameRamp, t
  <1>3. CASE s.iState = ERampingDown /\ s.iTargetHaltId # kIdInvalid
    <2>1. t = [[s EXCEPT !.iState = ERunning, !.iFlushStream = TRUE] EXCEPT !.iHaltPending = TRUE]
      BY <1>3 DEF RampCompleted
    <2>2. t.iState = ERunning /\ t.iFlushStream /\ t.iHaltPending /\ SameSound(s, t)
      BY <2>1 DEF Members, SameSound
    <2> QED BY <2>2, <1>3
  <1> QED BY <1>1, <1>2, <1>3, Names

(* Clients find the volume where the last message left it, and turn a ramp *)
(* around there.                                                           *)
CallSound(s, t, h) == /\ BoundsOf(t) /\ SameSound(s, t)
                      /\ LevelOf(s, h) => LevelOf(t, h) /\ (HeldOf(s, h) => HeldOf(t, h))

LEMMA ReverseRampSound ==
    ASSUME NEW s \in Members, s.iRemainingRampSize \in 0 .. s.iRampJiffies, NEW st \in States
    PROVE  LET t == ReverseRamp(s, st)
           IN  /\ t.iState = st /\ SameSound(s, t)
               /\ t.iCurrentRampValue = s.iCurrentRampValue
               /\ t.iRemainingRampSize = s.iRampJiffies - s.iRemainingRampSize
  <1> DEFINE r == (s.iRampJiffies - s.iRemainingRampSize) % Wrap
  <1>1. s.iRampJiffies \in Nat /\ s.iRampJiffies < Wrap /\ Wrap \in Nat
    BY RampAssumption DEF Members
  <1>2. s.iRampJiffies - s.iRemainingRampSize \in 0 .. Wrap - 1
    BY <1>1
  <1>3. r = s.iRampJiffies - s.iRemainingRampSize
    <2> DEFINE n == s.iRampJiffies - s.iRemainingRampSize
    <2> HIDE DEF n
    <2>1. n \in 0 .. Wrap - 1 => n % Wrap = n
      BY <1>1
    <2> QED BY <2>1, <1>2 DEF n
  <1>4. ReverseRamp(s, st) = [s EXCEPT !.iState = st, !.iRemainingRampSize = r]
    BY DEF ReverseRamp
  <1> HIDE DEF r
  <1> QED BY <1>3, <1>4 DEF Members, SameSound

LEMMA PlayedSound ==
    ASSUME NEW s \in Members, BoundsOf(s), NEW h
    PROVE  CallSound(s, Played(s), h)
  <1> DEFINE back == ReverseRamp(s, ERampingUp)
             up == [back EXCEPT !.iState = IF back.iRemainingRampSize = 0
                                           THEN ERunning ELSE ERampingUp]
             resumed == [s EXCEPT !.iState = ERampingUp, !.iCurrentRampValue = 0,
                                  !.iRemainingRampSize = s.iRampJiffies, !.iSem = @ + 1]
             restarted == [s EXCEPT !.iState = ERunning, !.iSem = @ + 1]
             ramped == CASE s.iState = ERampingDown -> up
                         [] s.iState = EPaused -> resumed
                         [] s.iState = EStopped -> restarted
                         [] OTHER -> s
             done == [ramped EXCEPT !.iTargetHaltId = kIdInvalid]
  <1>1. Played(s) = ScheduleEvent(done, EEventPlaying)
    BY DEF Played
  <1>2. ramped \in Members /\ CallSound(s, ramped, h)
    <2>1. CASE s.iState = ERampingDown
      <3>1. back \in Members
        BY RampsTyped, Values
      <3>2. /\ SameSound(s, back) /\ back.iCurrentRampValue = s.iCurrentRampValue
            /\ back.iRemainingRampSize = s.iRampJiffies - s.iRemainingRampSize
        BY <2>1, ReverseRampSound, Values DEF BoundsOf
      <3> HIDE DEF back
      <3>3. up \in Members /\ SameSound(back, up)
            /\ up.iState = (IF back.iRemainingRampSize = 0 THEN ERunning ELSE ERampingUp)
            /\ up.iRemainingRampSize = back.iRemainingRampSize
            /\ up.iCurrentRampValue = back.iCurrentRampValue
        BY <3>1, Values DEF Members, SameSound
      <3> HIDE DEF up
      <3>4. SameSound(s, up)
        BY <3>2, <3>3 DEF SameSound
      <3>5. s.iRampJiffies \in Nat /\ s.iRemainingRampSize \in 0 .. s.iRampJiffies
        BY <2>1, RampAssumption DEF BoundsOf, Members
      <3>6. BoundsOf(up)
        BY <2>1, <3>2, <3>3, <3>4, <3>5, Names DEF BoundsOf, SameSound
      <3>7. LevelOf(s, h) => LevelOf(up, h)
        BY <2>1, <3>2, <3>3, <3>4, <3>5, Names DEF BoundsOf, SameSound, LevelOf
      <3>8. HeldOf(up, h)
        BY <3>3, Names DEF HeldOf
      <3>9. ramped = up
        BY <2>1, Names
      <3> QED BY <3>3, <3>4, <3>6, <3>7, <3>8, <3>9 DEF CallSound
    <2>2. CASE s.iState = EPaused
      <3>1. s.iSem + 1 \in Nat /\ s.iRampJiffies \in 0 .. Wrap - 1 /\ s.iRampJiffies > 0
        BY Values DEF Members
      <3>2. /\ resumed \in Members /\ resumed.iState = ERampingUp
            /\ resumed.iCurrentRampValue = 0 /\ resumed.iRemainingRampSize = s.iRampJiffies
            /\ SameSound(s, resumed)
        BY <3>1, Values DEF Members, SameSound
      <3>3. ramped = resumed
        BY <2>2, Names
      <3> HIDE DEF resumed, ramped
      <3>4. BoundsOf(resumed)
        BY <3>1, <3>2, Names DEF BoundsOf, SameSound
      <3>5. (LevelOf(s, h) => LevelOf(resumed, h)) /\ HeldOf(resumed, h)
        BY <2>2, <3>2, Names DEF LevelOf, HeldOf, SameSound
      <3> QED BY <3>2, <3>3, <3>4, <3>5 DEF CallSound
    <2>3. CASE s.iState = EStopped
      <3>1. s.iSem + 1 \in Nat
        BY DEF Members
      <3>2. restarted \in Members /\ restarted.iState = ERunning /\ SameSound(s, restarted)
        BY <3>1, Values DEF Members, SameSound
      <3>3. ramped = restarted
        BY <2>3, Names
      <3> HIDE DEF restarted, ramped
      <3>4. BoundsOf(restarted)
        BY <3>2, Names DEF BoundsOf
      <3>5. (LevelOf(s, h) => LevelOf(restarted, h)) /\ HeldOf(restarted, h)
        BY <2>3, <3>2, Names DEF LevelOf, HeldOf, SameSound
      <3> QED BY <3>2, <3>3, <3>4, <3>5 DEF CallSound
    <2>4. CASE s.iState \notin {ERampingDown, EPaused, EStopped}
      <3>1. ramped = s
        BY <2>4
      <3> HIDE DEF ramped
      <3> QED BY <3>1 DEF CallSound, SameSound
    <2> QED BY <2>1, <2>2, <2>3, <2>4
  <1> HIDE DEF ramped
  <1>3. done \in Members /\ SameSound(ramped, done) /\ SameRamp(ramped, done)
        /\ done.iFlushStream = ramped.iFlushStream
    BY <1>2, Values DEF Members, SameSound, SameRamp
  <1> HIDE DEF done
  <1>4. SameSound(done, Played(s)) /\ SameRamp(done, Played(s))
    BY <1>1, <1>3, HandlersSound, Values
  <1> QED BY <1>2, <1>3, <1>4 DEF CallSound, SameSound, SameRamp, BoundsOf, LevelOf, HeldOf

LEMMA PausedSound ==
    ASSUME NEW s \in Members, BoundsOf(s), NEW h
    PROVE  LET g == IF s.iBuffering /\ Paused(s).iState \in Blocked THEN Gap ELSE h
           IN  /\ BoundsOf(Paused(s)) /\ SameSound(s, Paused(s))
               /\ LevelOf(s, h) => /\ LevelOf(Paused(s), g)
                                   /\ HeldOf(s, h) => HeldOf(Paused(s), g)
  <1> DEFINE t == Paused(s)
             g == IF s.iBuffering /\ t.iState \in Blocked THEN Gap ELSE h
  <1>1. g = h \/ g = Gap
    OBVIOUS
  <1>2. CASE s.iBuffering \/ s.iState \in {EStopped, EFlushing}
    <2>1. t = HandlePaused(s)
      BY <1>2, Names DEF Paused
    <2>2. SameSound(s, t) /\ t.iState = EPaused
      BY <2>1, HandlersSound
    <2>3. s.iBuffering => g = Gap
      BY <2>2, StateNames
    <2> HIDE DEF t, g
    <2> QED BY <1>1, <1>2, <2>2, <2>3, Names DEF BoundsOf, LevelOf, HeldOf, SameSound, t, g
  <1>3. CASE ~s.iBuffering /\ s.iState = ERunning
    <2>1. t = StartRampDown(s)
      BY <1>3, Names DEF Paused
    <2>2. /\ SameSound(s, t) /\ t.iState = ERampingDown
          /\ t.iRemainingRampSize = s.iRampJiffies /\ t.iCurrentRampValue = kMax
      BY <2>1 DEF StartRampDown, Members, SameSound
    <2>3. s.iRampJiffies \in Nat /\ s.iRampJiffies > 0
      BY Values, RampAssumption DEF Members
    <2> HIDE DEF t, g
    <2> QED BY <1>1, <1>3, <2>2, <2>3, Names DEF BoundsOf, LevelOf, HeldOf, SameSound, t, g
  <1>4. CASE ~s.iBuffering /\ s.iState = ERampingUp
    <2>1. t = ReverseRamp(s, ERampingDown)
      BY <1>4, Names DEF Paused
    <2>2. s.iRampJiffies \in Nat /\ s.iRemainingRampSize \in 1 .. s.iRampJiffies
      BY <1>4, RampAssumption DEF Members, BoundsOf
    <2>3. /\ t.iState = ERampingDown /\ SameSound(s, t)
          /\ t.iCurrentRampValue = s.iCurrentRampValue
          /\ t.iRemainingRampSize = s.iRampJiffies - s.iRemainingRampSize
      BY <2>1, <2>2, ReverseRampSound, Values
    <2> HIDE DEF t, g
    <2> QED BY <1>1, <1>4, <2>2, <2>3, Names DEF BoundsOf, LevelOf, HeldOf, SameSound, t, g
  <1>5. CASE ~s.iBuffering /\ s.iState \notin {ERunning, ERampingUp, EStopped, EFlushing}
    <2>1. t = s /\ g = h
      BY <1>5 DEF Paused
    <2> HIDE DEF t, g
    <2> QED BY <2>1 DEF SameSound, t, g
  <1> QED BY <1>2, <1>3, <1>4, <1>5

LEMMA StoppedSound ==
    ASSUME NEW s \in Members, BoundsOf(s), NEW h
    PROVE  LET g == IF s.iBuffering /\ Stopped(s).iState \in Blocked THEN Gap ELSE h
           IN  /\ BoundsOf(Stopped(s)) /\ SameSound(s, Stopped(s))
               /\ LevelOf(s, h) => /\ LevelOf(Stopped(s), g)
                                   /\ HeldOf(s, h) => HeldOf(Stopped(s), g)
  <1> DEFINE t == Stopped(s)
             g == IF s.iBuffering /\ t.iState \in Blocked THEN Gap ELSE h
             flush == [s EXCEPT !.iFlushStream = TRUE, !.iState = EFlushing, !.iSem = @ + 1]
  <1>1. g = h \/ g = Gap
    OBVIOUS
  <1>2. CASE s.iBuffering \/ s.iState = EFlushing
    <2>1. t = HandleStopped(s)
      BY <1>2, Names DEF Stopped
    <2>2. SameSound(s, t) /\ t.iState = EStopped
      BY <2>1, HandlersSound
    <2>3. s.iBuffering => g = Gap
      BY <2>2, StateNames
    <2> HIDE DEF t, g
    <2> QED BY <1>1, <1>2, <2>2, <2>3, Names DEF BoundsOf, LevelOf, HeldOf, SameSound, t, g
  <1>3. CASE ~s.iBuffering /\ s.iState = ERunning
    <2>1. t = StartRampDown(s)
      BY <1>3, Names DEF Stopped
    <2>2. /\ SameSound(s, t) /\ t.iState = ERampingDown
          /\ t.iRemainingRampSize = s.iRampJiffies /\ t.iCurrentRampValue = kMax
      BY <2>1 DEF StartRampDown, Members, SameSound
    <2>3. s.iRampJiffies \in Nat /\ s.iRampJiffies > 0
      BY Values, RampAssumption DEF Members
    <2> HIDE DEF t, g
    <2> QED BY <1>1, <1>3, <2>2, <2>3, Names DEF BoundsOf, LevelOf, HeldOf, SameSound, t, g
  <1>4. CASE ~s.iBuffering /\ s.iState = ERampingUp
    <2>1. t = ReverseRamp(s, ERampingDown)
      BY <1>4, Names DEF Stopped
    <2>2. s.iRampJiffies \in Nat /\ s.iRemainingRampSize \in 1 .. s.iRampJiffies
      BY <1>4, RampAssumption DEF Members, BoundsOf
    <2>3. /\ t.iState = ERampingDown /\ SameSound(s, t)
          /\ t.iCurrentRampValue = s.iCurrentRampValue
          /\ t.iRemainingRampSize = s.iRampJiffies - s.iRemainingRampSize
      BY <2>1, <2>2, ReverseRampSound, Values
    <2> HIDE DEF t, g
    <2> QED BY <1>1, <1>4, <2>2, <2>3, Names DEF BoundsOf, LevelOf, HeldOf, SameSound, t, g
  <1>5. CASE ~s.iBuffering /\ s.iState = EPaused
    <2>1. t = flush
      BY <1>5, Names DEF Stopped
    <2>2. flush.iState = EFlushing /\ flush.iFlushStream /\ SameSound(s, flush)
      BY DEF Members, SameSound
    <2> HIDE DEF t, g, flush
    <2> QED BY <2>1, <2>2, Names DEF BoundsOf, LevelOf, HeldOf, SameSound, t, g
  <1>6. CASE ~s.iBuffering /\ s.iState \notin {ERunning, ERampingUp, EPaused, EFlushing}
    <2>1. t = s /\ g = h
      BY <1>6 DEF Stopped
    <2> HIDE DEF t, g
    <2> QED BY <2>1 DEF SameSound, t, g
  <1> QED BY <1>2, <1>3, <1>4, <1>5, <1>6

(* Audio that is not muted leaves where the ramp left it, and what follows *)
(* takes up its end: a ramp that is over has reached an end of the scale,  *)
(* and the rest of its message with it.                                    *)
LEMMA RampedSound ==
    ASSUME NEW s \in Members, BoundsOf(s), s.iState \in Ramping,
           s.iQueue = << >>, NEW size \in 1 .. MaxAudio, NEW h,
           \/ s.iState = ERampingDown /\ s.iRemainingRampSize = 0 /\ h = Gap
           \/ s.iRemainingRampSize > 0 /\ h = Sound(s, size, FALSE).to
    PROVE  LET t == Ramped(s, size, FALSE)
           IN  /\ BoundsOf(t) /\ LevelOf(t, h) /\ RestOf(t, h)
               /\ s.iRemainingRampSize > 0 =>
                     Sound(s, size, FALSE) = Audio(s.iCurrentRampValue, h)
  <1> DEFINE r == s.iRemainingRampSize
             rest == SplitOff(s, size, FALSE)
             first == IF rest = << >> THEN size ELSE r
             kept == [s EXCEPT !.iQueue = rest]
             set == SetRamp(kept, first, FALSE)
             t == Ramped(s, size, FALSE)
             end == RampTo(kept, first)
             target == IF s.iState = ERampingDown THEN 0 ELSE kMax
             left == IF end = target THEN 0 ELSE r - first
  <1>0. r \in Nat /\ size \in Nat /\ size > 0 /\ r <= s.iRampJiffies /\ s.iRampJiffies \in Nat
    BY RampAssumption, Names DEF Members, BoundsOf
  <1>1. kept \in Members /\ SameRamp(s, kept) /\ kept.iQueue = rest
        /\ kept.iRampJiffies = s.iRampJiffies /\ kept.iFlushStream = s.iFlushStream
        /\ kept.iHaltPending = s.iHaltPending
    BY SplitOffTyped DEF Members, SameRamp
  <1>2. first \in Nat /\ first > 0 /\ (r = 0 \/ first <= r) /\ (rest # << >> => first = r)
    <2>1. /\ rest # << >> => r \in 1 .. size
          /\ rest = << >> => r = 0 \/ size <= r
      BY SplitOffTyped
    <2> HIDE DEF rest, r
    <2> QED BY <1>0, <2>1
  <1>3. rest # << >> => rest[1].muted = (s.iState = ERampingDown)
    BY DEF SplitOff
  <1>4. r > 0 => RampTo(s, first) = end
    BY <1>1 DEF RampTo, SameRamp
  <1>5. r > 0 => /\ Sound(s, size, FALSE) = Audio(s.iCurrentRampValue, end)
                 /\ Sound(s, size, FALSE).to = end
    BY <1>4 DEF Sound, Audio
  <1>6. t = IF set.iRemainingRampSize = 0 THEN RampCompleted(set) ELSE set
    BY DEF Ramped
  <1>7. CASE r = 0
    <2>1. set = kept /\ s.iState = ERampingDown /\ h = Gap /\ rest = << >>
      <3>1. rest = << >>
        BY <1>7, <1>0 DEF SplitOff
      <3>2. s.iState = ERampingDown
        BY <1>7, Names DEF BoundsOf
      <3>3. kept.iRemainingRampSize = 0
        BY <1>1, <1>7 DEF SameRamp
      <3>4. set = kept
        BY <3>3 DEF SetRamp
      <3>5. h = Gap
        BY <1>7
      <3> QED BY <3>1, <3>2, <3>4, <3>5
    <2>2. t = RampCompleted(kept)
      BY <1>1, <1>6, <1>7, <2>1 DEF SameRamp
    <2> HIDE DEF t, kept, set, rest, first, end, left
    <2>3. SameSound(kept, t) /\ t.iState \in {EPaused, ERunning}
      BY <1>1, <2>1, <2>2, RampCompletedSound, Names DEF SameRamp
    <2>4. BoundsOf(t) /\ LevelOf(t, h) /\ RestOf(t, h)
      BY <1>1, <2>1, <2>3, Names DEF BoundsOf, LevelOf, RestOf, SameSound
    <2>5. ~(s.iRemainingRampSize > 0)
      BY <1>7
    <2> QED BY <2>4, <2>5 DEF t
  <1>8. CASE r > 0
    <2>0. h = end
      <3>1. h = Sound(s, size, FALSE).to
        <4>1. s.iRemainingRampSize # 0
          BY <1>0, <1>8
        <4> QED BY <4>1
      <3> QED BY <3>1, <1>5, <1>8
    <2>1. set = [kept EXCEPT !.iCurrentRampValue = end, !.iRemainingRampSize = left]
      BY <1>1, <1>8, <1>0 DEF SetRamp, SameRamp
    <2>2. end \in Volumes
      <3> HIDE DEF kept, first
      <3> QED BY <1>1, <1>2, <1>8, RampToTyped DEF SameRamp
    <2>3. first = r => end = target
      <3>1. kept.iRemainingRampSize = r /\ kept.iState = s.iState
        BY <1>1 DEF SameRamp
      <3> HIDE DEF kept, first
      <3> QED BY <1>1, <1>8, <3>1, RampEnds
    <2>4. left \in 0 .. r /\ (left = 0 <=> end = target) /\ left < r
      <3> HIDE DEF first, end, target
      <3> QED BY <1>0, <1>2, <1>8, <2>3
    <2>5. left \in 0 .. Wrap - 1
      <3>1. r \in 0 .. Wrap - 1 /\ Wrap \in Nat
        BY RampAssumption DEF Members
      <3> HIDE DEF left, r
      <3> QED BY <2>4, <3>1
    <2> HIDE DEF end, left, kept
    <2>6. set \in Members /\ set.iState = s.iState /\ set.iQueue = rest
          /\ set.iCurrentRampValue = end /\ set.iRemainingRampSize = left
          /\ set.iRampJiffies = s.iRampJiffies
      BY ZenonT(30), <1>1, <2>1, <2>2, <2>5 DEF Members, SameRamp
    <2> HIDE DEF set
    <2>7. CASE left = 0
      <3>1. t = RampCompleted(set) /\ end = target
        BY <1>6, <2>4, <2>6, <2>7
      <3> HIDE DEF t, rest
      <3>2. /\ SameSound(set, t)
            /\ \/ s.iState = ERampingUp /\ t.iState = ERunning
               \/ s.iState = ERampingDown /\ t.iState = EPaused /\ t.iHaltPending
               \/ s.iState = ERampingDown /\ t.iState = ERunning /\ t.iFlushStream /\ t.iHaltPending
        BY <2>6, <3>1, RampCompletedSound
      <3>3. s.iState = ERampingUp => h = kMax
        BY <2>0, <3>1, Names
      <3>4. s.iState = ERampingDown => h = 0
        BY <2>0, <3>1
      <3>5. BoundsOf(t)
        BY <3>2, Names DEF BoundsOf
      <3>6. LevelOf(t, h)
        BY <3>2, <3>3, <3>4, Names DEF LevelOf
      <3>7. RestOf(t, h)
        BY <1>3, <2>6, <3>2, <3>3, <3>4, Names DEF RestOf, SameSound
      <3> QED BY <1>5, <1>8, <2>0, <3>5, <3>6, <3>7 DEF t
    <2>8. CASE left # 0
      <3>1. t = set /\ rest = << >>
        BY <1>2, <1>6, <2>3, <2>4, <2>6, <2>8
      <3> HIDE DEF t, rest, r
      <3>2. BoundsOf(t)
        BY <1>0, <2>4, <2>6, <2>8, <3>1, Names DEF BoundsOf
      <3>3. LevelOf(t, h) /\ RestOf(t, h)
        BY <2>0, <2>6, <3>1, Names DEF LevelOf, RestOf
      <3> QED BY <1>5, <1>8, <2>0, <3>2, <3>3 DEF t, r
    <2> QED BY <2>7, <2>8
  <1> QED BY <1>0, <1>7, <1>8

-----------------------------------------------------------------------------
(* The steps.                                                              *)

LEMMA CallsKeepQueue ==
    ASSUME NEW s \in Members
    PROVE  /\ Played(s).iQueue = s.iQueue
           /\ Paused(s).iQueue = s.iQueue
           /\ Stopped(s).iQueue = s.iQueue
  <1>1. /\ \A st \in States : ReverseRamp(s, st).iQueue = s.iQueue
        /\ StartRampDown(s).iQueue = s.iQueue
        /\ HandlePaused(s).iQueue = s.iQueue /\ HandleStopped(s).iQueue = s.iQueue
    BY HandlersSound DEF ReverseRamp, StartRampDown, SameSound, Members
  <1>2. Played(s).iQueue = s.iQueue
    <2> DEFINE back == ReverseRamp(s, ERampingUp)
               up == [back EXCEPT !.iState = IF back.iRemainingRampSize = 0
                                             THEN ERunning ELSE ERampingUp]
               resumed == [s EXCEPT !.iState = ERampingUp, !.iCurrentRampValue = 0,
                                    !.iRemainingRampSize = s.iRampJiffies, !.iSem = @ + 1]
               restarted == [s EXCEPT !.iState = ERunning, !.iSem = @ + 1]
               ramped == CASE s.iState = ERampingDown -> up
                           [] s.iState = EPaused -> resumed
                           [] s.iState = EStopped -> restarted
                           [] OTHER -> s
               done == [ramped EXCEPT !.iTargetHaltId = kIdInvalid]
    <2>1. Played(s) = ScheduleEvent(done, EEventPlaying)
      BY DEF Played
    <2>2. back \in Members /\ back.iQueue = s.iQueue
      BY RampsTyped, <1>1, Values
    <2> HIDE DEF back
    <2>3. up \in Members /\ up.iQueue = s.iQueue
      BY <2>2, Values DEF Members
    <2>4. s.iSem + 1 \in Nat /\ s.iRampJiffies \in 0 .. Wrap - 1
      BY Values DEF Members
    <2>5. resumed \in Members /\ resumed.iQueue = s.iQueue
      BY <2>4, Values DEF Members
    <2>6. restarted \in Members /\ restarted.iQueue = s.iQueue
      BY <2>4, Values DEF Members
    <2> HIDE DEF up, resumed, restarted
    <2>7. ramped \in Members /\ ramped.iQueue = s.iQueue
      BY <2>3, <2>5, <2>6
    <2> HIDE DEF ramped
    <2>8. done \in Members /\ done.iQueue = s.iQueue
      BY <2>7, Values DEF Members
    <2> HIDE DEF done
    <2> QED BY <2>1, <2>8 DEF ScheduleEvent, Members
  <1>3. Paused(s).iQueue = s.iQueue
    BY <1>1, Values DEF Paused
  <1>4. Stopped(s).iQueue = s.iQueue
    <2> DEFINE flush == [s EXCEPT !.iFlushStream = TRUE, !.iState = EFlushing, !.iSem = @ + 1]
    <2>1. flush.iQueue = s.iQueue
      BY DEF Members
    <2>2. \/ Stopped(s) = HandleStopped(s) \/ Stopped(s) = StartRampDown(s)
          \/ Stopped(s) = ReverseRamp(s, ERampingDown) \/ Stopped(s) = flush \/ Stopped(s) = s
      BY DEF Stopped
    <2> HIDE DEF flush
    <2> QED BY <2>1, <2>2, <1>1, Values
  <1> QED BY <1>2, <1>3, <1>4

(* A call of another thread, at any point of Pull().                       *)
LEMMA CallKeepsSound ==
    ASSUME SoundInv, stopper'.iQueue = stopper.iQueue, UNCHANGED <<pc, phase>>,
           heard' = heard \/ heard' = Gap,
           BoundsOf(stopper) =>
               /\ BoundsOf(stopper') /\ SameSound(stopper, stopper')
               /\ LevelOf(stopper, heard) =>
                     /\ LevelOf(stopper', heard')
                     /\ HeldOf(stopper, heard) => HeldOf(stopper', heard')
    PROVE  SoundInv'
  <1>1. phase = "decoded" => phase # "idle"
    OBVIOUS
  <1>2. RestOf(stopper', heard')
    <2>1. CASE stopper.iQueue = << >>
      BY <2>1 DEF RestOf
    <2>2. CASE stopper.iQueue # << >>
      <3>1. SameSound(stopper, stopper')
        BY <2>2, <1>1 DEF SoundInv
      <3> QED BY <3>1 DEF SoundInv, RestOf, SameSound
    <2> QED BY <2>1, <2>2
  <1> QED BY <1>1, <1>2 DEF SoundInv

(* What a call does to its members before it does anything else.           *)
LEMMA LikeSound ==
    ASSUME NEW r, NEW s, SameSound(r, s), SameRamp(r, s), BoundsOf(r), NEW h
    PROVE  /\ BoundsOf(s)
           /\ LevelOf(r, h) => LevelOf(s, h)
           /\ HeldOf(r, h) => HeldOf(s, h)
           /\ \A t : SameSound(s, t) => SameSound(r, t)
  BY DEF SameSound, SameRamp, BoundsOf, LevelOf, HeldOf

LEMMA CallsSound ==
    ASSUME TypeOK, SoundInv,
           \/ Play \/ BeginPause \/ Quit \/ NotifyStarving \/ ReportEvent
           \/ \E id \in 1 .. MaxHalts : BeginStop(id)
    PROVE  SoundInv'
  <1>1. stopper \in Members
    BY DEF TypeOK
  <1>2. UNCHANGED <<pc, phase>>
    BY DEF Play, BeginPause, Quit, NotifyStarving, ReportEvent, BeginStop, Client, upstream
  <1>3. heard' = heard \/ heard' = Gap
    BY DEF Play, BeginPause, Quit, NotifyStarving, ReportEvent, BeginStop, Client
  <1> DEFINE Goal == /\ stopper'.iQueue = stopper.iQueue
                     /\ BoundsOf(stopper) =>
                           /\ BoundsOf(stopper') /\ SameSound(stopper, stopper')
                           /\ LevelOf(stopper, heard) =>
                                 /\ LevelOf(stopper', heard')
                                 /\ HeldOf(stopper, heard) => HeldOf(stopper', heard')
  <1>4. Goal => SoundInv'
    BY <1>2, <1>3, CallKeepsSound
  <1>5. \A h, u : LevelOf(h, u) => LevelOf(h, Gap) /\ HeldOf(h, Gap)
    BY DEF LevelOf, HeldOf
  <1>6. ASSUME Play PROVE Goal
    <2>1. stopper' = Played(stopper) /\ stopper'.iQueue = stopper.iQueue
      BY <1>1, <1>6, CallsKeepQueue DEF Play
    <2>2. BoundsOf(stopper) => CallSound(stopper, stopper', heard)
      BY <2>1, <1>1, PlayedSound
    <2> QED BY <2>1, <2>2, <1>3, <1>5 DEF CallSound
  <1>7. ASSUME BeginPause PROVE Goal
    <2>1. stopper' = Paused(stopper) /\ stopper'.iQueue = stopper.iQueue
      BY <1>1, <1>7, CallsKeepQueue DEF BeginPause
    <2>2. heard' = IF stopper.iBuffering /\ Paused(stopper).iState \in Blocked THEN Gap ELSE heard
      BY <1>7, <2>1 DEF BeginPause, Client
    <2> QED BY <2>1, <2>2, <1>1, PausedSound
  <1>8. ASSUME NEW id \in 1 .. MaxHalts, BeginStop(id) PROVE Goal
    <2> DEFINE s == [stopper EXCEPT !.iTargetHaltId = id]
    <2>1. id \in 1 .. kIdInvalid
      BY HaltAssumption DEF kIdInvalid
    <2>2. /\ s \in Members /\ SameSound(stopper, s) /\ SameRamp(stopper, s)
          /\ s.iBuffering = stopper.iBuffering
      BY <1>1, <2>1 DEF Members, SameSound, SameRamp
    <2>3. stopper' = Stopped(s)
      BY <1>8 DEF BeginStop
    <2> HIDE DEF s
    <2>4. stopper'.iQueue = stopper.iQueue
      BY <2>2, <2>3, CallsKeepQueue DEF SameSound
    <2>5. heard' = IF s.iBuffering /\ Stopped(s).iState \in Blocked THEN Gap ELSE heard
      BY <1>8, <2>2, <2>3 DEF BeginStop, Client
    <2> QED BY <2>2, <2>3, <2>4, <2>5, LikeSound, StoppedSound
  <1>9. ASSUME Quit PROVE Goal
    <2> DEFINE flush == stopper.iFlushStream \/ stopper.iState \in Blocked
               s == [stopper EXCEPT !.iQuit = TRUE, !.iFlushStream = flush]
    <2>1. flush \in BOOLEAN /\ (stopper.iFlushStream => flush)
      BY <1>1 DEF Members
    <2>2. stopper' = Played(s)
      BY <1>9 DEF Quit
    <2> HIDE DEF flush
    <2>3. s \in Members /\ SameSound(stopper, s) /\ SameRamp(stopper, s)
      BY <1>1, <2>1 DEF Members, SameSound, SameRamp
    <2> HIDE DEF s
    <2>4. stopper'.iQueue = stopper.iQueue
      BY <2>2, <2>3, CallsKeepQueue DEF SameSound
    <2>5. BoundsOf(s) => CallSound(s, stopper', heard)
      BY <2>2, <2>3, PlayedSound
    <2>6. BoundsOf(stopper) => CallSound(stopper, stopper', heard)
      BY <2>3, <2>5, LikeSound DEF CallSound
    <2> QED BY <2>4, <2>6, <1>3, <1>5 DEF CallSound
  <1>10. ASSUME NotifyStarving PROVE Goal
    <2>1. heard' = Gap
      BY <1>10 DEF NotifyStarving
    <2>2. \A t : LevelOf(t, heard') /\ HeldOf(t, heard')
      BY <2>1 DEF LevelOf, HeldOf
    <2> DEFINE s == [stopper EXCEPT !.iBuffering = TRUE]
    <2>3. \/ stopper' = stopper \/ stopper' = s
          \/ stopper.iState = ERampingDown /\ stopper' = RampCompleted(stopper)
      BY <1>10 DEF NotifyStarving
    <2>4. CASE stopper' = stopper
      BY <2>2, <2>4 DEF SameSound
    <2>5. CASE stopper' = s
      <3>1. SameSound(stopper, s) /\ SameRamp(stopper, s)
        BY <1>1 DEF Members, SameSound, SameRamp
      <3> HIDE DEF s
      <3> QED BY <2>2, <2>5, <3>1, LikeSound DEF SameSound
    <2>6. CASE stopper.iState = ERampingDown /\ stopper' = RampCompleted(stopper)
      <3>1. SameSound(stopper, stopper') /\ stopper'.iState \in {EPaused, ERunning}
        BY <2>6, <1>1, RampCompletedSound, Names
      <3>2. BoundsOf(stopper')
        BY <3>1, Names DEF BoundsOf
      <3> QED BY <2>2, <3>1, <3>2 DEF SameSound
    <2> QED BY <2>3, <2>4, <2>5, <2>6
  <1>11. ASSUME ReportEvent PROVE Goal
    <2>1. SameSound(stopper, stopper') /\ SameRamp(stopper, stopper') /\ UNCHANGED heard
      BY <1>1, <1>11 DEF ReportEvent, Members, SameSound, SameRamp
    <2> QED BY <2>1, LikeSound DEF SameSound
  <1> HIDE DEF Goal
  <1> QED BY <1>4, <1>6, <1>7, <1>8, <1>9, <1>10, <1>11

LEMMA OkToPlaySound ==
    ASSUME NEW s \in Members, NEW a \in Answers
    PROVE  LET t == OkToPlay(s, a)
           IN  /\ SameSound(s, t)
               /\ SameRamp(s, t) \/ (t.iState = EFlushing /\ t.iFlushStream) \/ t.iState = EStopped
  <1> DEFINE asked == [s EXCEPT !.iCheckedStreamPlayable = TRUE, !.owed = @ - 1]
             flush == [asked EXCEPT !.iState = EFlushing, !.iFlushStream = TRUE]
  <1>1. s.owed - 1 \in Int
    BY DEF Members
  <1>2. asked \in Members /\ SameSound(s, asked) /\ SameRamp(s, asked)
    BY <1>1 DEF Members, SameSound, SameRamp
  <1>3. flush \in Members /\ SameSound(asked, flush) /\ flush.iState = EFlushing /\ flush.iFlushStream
    <2> HIDE DEF asked
    <2> QED BY <1>2, Values DEF Members, SameSound
  <1>4. OkToPlay(s, a) = CASE s.iQuit -> flush
         [] ~s.iQuit /\ a = ePlayYes -> ScheduleEvent(asked, EEventPlaying)
         [] ~s.iQuit /\ a = ePlayNo -> [flush EXCEPT !.iHaltPending = TRUE]
         [] OTHER -> [HandleStopped(asked) EXCEPT !.iHaltPending = TRUE]
    BY DEF OkToPlay
  <1> HIDE DEF asked, flush
  <1>5. ASSUME NEW t \in Members
        PROVE  LET u == [t EXCEPT !.iHaltPending = TRUE] IN SameSound(t, u) /\ SameRamp(t, u)
    BY HandlersSound
  <1>6. LET t == ScheduleEvent(asked, EEventPlaying) IN SameSound(asked, t) /\ SameRamp(asked, t)
    BY <1>2, HandlersSound, Values
  <1>7. LET t == HandleStopped(asked)
        IN  t \in Members /\ SameSound(asked, t) /\ t.iState = EStopped
    BY <1>2, HandlersTyped, HandlersSound
  <1>8. ASSUME NEW u, NEW v, SameSound(asked, u), SameSound(u, v) PROVE SameSound(s, v)
    BY <1>2, <1>8 DEF SameSound
  <1>9. CASE OkToPlay(s, a) = flush
    BY <1>2, <1>3, <1>9 DEF SameSound
  <1>10. CASE OkToPlay(s, a) = ScheduleEvent(asked, EEventPlaying)
    BY <1>2, <1>6, <1>10 DEF SameSound, SameRamp
  <1>11. CASE OkToPlay(s, a) = [flush EXCEPT !.iHaltPending = TRUE]
    BY <1>3, <1>5, <1>8, <1>11 DEF SameSound, SameRamp
  <1>12. CASE OkToPlay(s, a) = [HandleStopped(asked) EXCEPT !.iHaltPending = TRUE]
    BY <1>5, <1>7, <1>8, <1>12 DEF SameRamp
  <1> QED BY <1>4, <1>9, <1>10, <1>11, <1>12

(* What the next audio message starts at. *)
Smooth == Delivers /\ out'.kind = "audio" /\ ~stopper.iFlushStream /\ ~SpentRampDown
             => heard = Gap \/ out'.from = heard

LEMMA DeliverySound ==
    /\ \A k \in Seams \union {"silence"} :
          /\ Deliver(Plain(k)) => heard' = Gap /\ pc' = "return" /\ out'.kind # "audio"
          /\ \A s : DeliverUnlessFlushing(s, Plain(k)) =>
                /\ pc' \in {"top", "return"}
                /\ \/ s.iFlushStream /\ UNCHANGED <<heard, out>>
                   \/ heard' = Gap /\ out'.kind # "audio"
    /\ \A k \in {"ownHalt", "other", "quit"} :
          /\ Deliver(Plain(k)) => heard' = heard /\ pc' = "return" /\ out'.kind # "audio"
          /\ \A s : DeliverUnlessFlushing(s, Plain(k)) =>
                /\ pc' \in {"top", "return"} /\ heard' = heard
                /\ UNCHANGED out \/ out'.kind # "audio"
    /\ Discard => pc' = "top" /\ UNCHANGED <<heard, out>>
    /\ (UNCHANGED out \/ out' = NoMsg \/ out'.kind # "audio") => Smooth
  <1>1. Discard => pc' = "top" /\ UNCHANGED <<heard, out>>
    BY DEF Discard
  <1>2. ASSUME NEW k \in Seams \union {"silence"}
        PROVE  Deliver(Plain(k)) => heard' = Gap /\ pc' = "return" /\ out'.kind # "audio"
    <2>1. Plain(k).kind = k /\ k # "audio"
      BY DEF Plain, Seams
    <2> HIDE DEF Plain
    <2> QED BY <2>1 DEF Deliver
  <1>3. ASSUME NEW k \in {"ownHalt", "other", "quit"}
        PROVE  Deliver(Plain(k)) => heard' = heard /\ pc' = "return" /\ out'.kind # "audio"
    <2>1. Plain(k).kind = k /\ k # "audio" /\ k \notin Seams \union {"silence", "audio"}
      BY DEF Plain, Seams
    <2> QED BY <2>1 DEF Deliver
  <1>4. (UNCHANGED out \/ out' = NoMsg \/ out'.kind # "audio") => Smooth
    BY DEF Smooth, Delivers
  <1> QED BY <1>1, <1>2, <1>3, <1>4 DEF DeliverUnlessFlushing

LEMMA PlacesSound ==
    ASSUME TypeOK, WakeupInv, SoundInv
    PROVE  /\ CheckHaltPending => SoundInv' /\ Smooth
           /\ CheckState => SoundInv' /\ Smooth
           /\ Wait => SoundInv' /\ Smooth
           /\ Return => SoundInv' /\ Smooth
  <1>1. stopper \in Members /\ SemOf(stopper)
    BY DEF TypeOK, WakeupInv
  <1> DEFINE Kept == /\ UNCHANGED <<phase, heard>> /\ SameRamp(stopper, stopper')
                     /\ stopper'.iRampJiffies = stopper.iRampJiffies
                     /\ stopper'.iFlushStream = stopper.iFlushStream
  <1>2. ASSUME Kept
        PROVE  /\ phase' # "idle" => BoundsOf(stopper')
               /\ phase' = "decoded" => LevelOf(stopper', heard')
    BY <1>2 DEF SoundInv, SameRamp, BoundsOf, LevelOf
  <1>3. ASSUME CheckHaltPending PROVE SoundInv' /\ Smooth
    <2>1. Kept
      <3>1. UNCHANGED <<phase, heard>>
        BY <1>3, DeliverySound DEF CheckHaltPending, upstream
      <3> QED BY <1>1, <1>3, <3>1 DEF CheckHaltPending, SameRamp, Members
    <2>2. CASE stopper.iHaltPending /\ stopper.iQueue = << >>
      <3>1. pc' = "return" /\ out'.kind # "audio"
        BY <1>3, <2>2, DeliverySound DEF CheckHaltPending
      <3>2. stopper'.iQueue = << >>
        BY <1>1, <1>3, <2>2 DEF CheckHaltPending, Members
      <3> QED BY <1>2, <2>1, <3>1, <3>2, DeliverySound DEF SoundInv, RestOf
    <2>3. CASE stopper.iHaltPending /\ stopper.iQueue # << >>
      <3> DEFINE volume == IF stopper.iQueue[1].muted THEN 0 ELSE kMax
      <3>1. pc' = "return" /\ out' = Audio(volume, volume) /\ stopper' = [stopper EXCEPT !.iQueue = << >>]
        BY <1>3, <2>3 DEF CheckHaltPending
      <3>2. stopper'.iQueue = << >>
        BY <1>1, <3>1 DEF Members
      <3>3. ~stopper.iFlushStream => heard = Gap \/ heard = volume
        BY <2>3 DEF SoundInv, RestOf
      <3> HIDE DEF volume
      <3>4. out'.from = volume
        BY <3>1 DEF Audio
      <3>5. Smooth
        BY <3>3, <3>4 DEF Smooth
      <3> QED BY <1>2, <2>1, <3>1, <3>2, <3>5 DEF SoundInv, RestOf
    <2>4. CASE ~stopper.iHaltPending
      <3>1. pc' = "check" /\ UNCHANGED <<stopper, out>>
        BY <1>3, <2>4 DEF CheckHaltPending
      <3>2. stopper.iQueue # << >> => ~stopper.iQueue[1].muted
        BY <2>4 DEF SoundInv, RestOf
      <3> QED BY <1>2, <2>1, <3>1, <3>2, DeliverySound DEF SoundInv, RestOf
    <2> QED BY <1>3, <2>2, <2>3, <2>4 DEF CheckHaltPending
  <1>4. ASSUME CheckState PROVE SoundInv' /\ Smooth
    <2>1. Kept /\ UNCHANGED <<stopper, out>> /\ pc = "check"
      BY <1>4 DEF CheckState, At, upstream, downstream, SameRamp
    <2>2. pc' = "pull" => stopper.iState # EPaused
      BY <1>4, StateNames DEF CheckState
    <2> QED BY <1>2, <2>1, <2>2, DeliverySound DEF SoundInv, RestOf, HeldOf
  <1>5. ASSUME Wait PROVE SoundInv' /\ Smooth
    <2>1. Kept /\ UNCHANGED out /\ pc = "wait" /\ pc' = "pull" /\ stopper'.iQueue = stopper.iQueue
          /\ stopper'.iHaltPending = stopper.iHaltPending
      BY <1>1, <1>5 DEF Wait, At, upstream, downstream, SameRamp, Members
    <2>2. stopper.iState # EPaused
      BY <1>1, <1>5, StateNames DEF Wait, SemOf
    <2>3. HeldOf(stopper', heard')
      BY <2>1, <2>2 DEF HeldOf, SameRamp
    <2>4. RestOf(stopper', heard')
      BY <2>1 DEF SoundInv, RestOf
    <2> QED BY <1>2, <2>1, <2>3, <2>4, DeliverySound DEF SoundInv
  <1>6. ASSUME Return PROVE SoundInv' /\ Smooth
    <2>1. /\ Kept /\ out' = NoMsg /\ pc' \notin {"check", "wait", "pull"}
          /\ stopper'.iQueue = stopper.iQueue /\ stopper'.iHaltPending = stopper.iHaltPending
      BY <1>1, <1>6 DEF Return, upstream, SameRamp, Members
    <2>2. RestOf(stopper', heard')
      BY <2>1 DEF SoundInv, RestOf
    <2> QED BY <1>2, <2>1, <2>2, DeliverySound DEF SoundInv
  <1> QED BY <1>3, <1>4, <1>5, <1>6

(* Audio that leaves, from a puller that is past its test of iState.       *)
LEMMA ProcessAudioSound ==
    ASSUME TypeOK, SoundInv, pc = "pull", phase = "decoded", UNCHANGED phase,
           NEW s \in Members, SameRamp(stopper, s), s.iQueue = << >>,
           s.iRampJiffies = stopper.iRampJiffies, s.iFlushStream = stopper.iFlushStream,
           NEW size \in 1 .. MaxAudio, ProcessAudio(s, size, FALSE)
    PROVE  SoundInv' /\ Smooth
  <1> DEFINE m == Sound(s, size, FALSE)
             h == IF stopper.iState \notin Blocked /\ ~SpentRampDown THEN m.to ELSE Gap
  <1>1. /\ BoundsOf(s) /\ LevelOf(s, heard) /\ HeldOf(s, heard)
        /\ s.iState = stopper.iState
        /\ SpentRampDown <=> s.iState = ERampingDown /\ s.iRemainingRampSize = 0
    BY DEF SoundInv, SameRamp, BoundsOf, LevelOf, HeldOf, SpentRampDown
  <1>2. PICK from \in Volumes, to \in Volumes : m = Audio(from, to)
    BY SoundTyped
  <1>3. m.kind = "audio"
    <2> HIDE DEF m
    <2> QED BY <1>2 DEF Audio
  <1>4. Deliver(m) => pc' = "return" /\ heard' = h /\ out' = m
    <2> HIDE DEF m
    <2> QED BY <1>3 DEF Deliver, Seams
  <1>5. CASE s.iState \in Ramping
    <2>1. stopper' = Ramped(s, size, FALSE) /\ Deliver(m)
      BY <1>5 DEF ProcessAudio
    <2>2. s.iState \notin Blocked
      BY <1>5, StateNames, Names
    <2>3. \/ s.iState = ERampingDown /\ s.iRemainingRampSize = 0 /\ h = Gap
          \/ s.iRemainingRampSize > 0 /\ h = m.to /\ ~SpentRampDown
      <3>1. s.iRemainingRampSize \in Nat
        BY RampAssumption DEF Members
      <3>2. s.iState = ERampingUp => s.iRemainingRampSize > 0
        BY <1>1, <3>1, RampAssumption DEF BoundsOf, Members
      <3> HIDE DEF m
      <3> QED BY <1>1, <1>5, <2>2, <3>1, <3>2, Names
    <2>4. /\ BoundsOf(stopper') /\ LevelOf(stopper', h) /\ RestOf(stopper', h)
          /\ s.iRemainingRampSize > 0 => m = Audio(s.iCurrentRampValue, h)
      <3> HIDE DEF h
      <3> QED BY <1>1, <1>5, <2>1, <2>3, RampedSound
    <2> HIDE DEF h, m
    <2>5. pc' = "return" /\ heard' = h /\ out' = m
      BY <1>4, <2>1
    <2>6. SoundInv'
      BY <2>4, <2>5 DEF SoundInv
    <2>7. ~stopper.iFlushStream /\ ~SpentRampDown => heard = Gap \/ m.from = heard
      <3>1. ~SpentRampDown => m.from = s.iCurrentRampValue
        BY <2>3, <2>4, <1>1 DEF Audio
      <3>2. s.iFlushStream \/ heard = Gap \/ heard = s.iCurrentRampValue
        BY <1>1, <1>5 DEF LevelOf
      <3> QED BY <3>1, <3>2
    <2> QED BY <2>5, <2>6, <2>7 DEF Smooth
  <1>6. CASE s.iState \notin Ramping
    <2>1. stopper' = s /\ DeliverUnlessFlushing(s, m)
      BY <1>6 DEF ProcessAudio
    <2>2. m = Audio(kMax, kMax) /\ m.from = kMax /\ m.to = kMax
      BY <1>6 DEF Sound, Audio
    <2> HIDE DEF h, m
    <2>3. RestOf(stopper', heard') /\ stopper'.iQueue = << >> /\ BoundsOf(stopper')
      BY <1>1, <2>1 DEF RestOf
    <2>4. CASE s.iFlushStream
      <3>1. pc' = "top" /\ UNCHANGED <<heard, out>>
        BY <2>1, <2>4, DeliverySound DEF DeliverUnlessFlushing
      <3>2. LevelOf(stopper', heard')
        BY <2>1, <2>4 DEF LevelOf
      <3> QED BY <2>3, <3>1, <3>2, DeliverySound DEF SoundInv
    <2>5. CASE ~s.iFlushStream
      <3>1. pc' = "return" /\ heard' = h /\ out' = m
        BY <1>4, <2>1, <2>5 DEF DeliverUnlessFlushing
      <3>2. s.iState \in {ERunning, EPaused, EStopped}
        BY <1>1, <1>6, <2>5, Names DEF BoundsOf, Members, States
      <3>3. h = IF s.iState = ERunning THEN kMax ELSE Gap
        BY <1>1, <2>2, <3>2, StateNames, Names DEF h
      <3>4. heard = Gap \/ heard = kMax
        BY <1>1, <2>5, <3>2 DEF LevelOf, HeldOf
      <3>5. LevelOf(stopper', heard')
        BY <2>1, <3>1, <3>2, <3>3, Names DEF LevelOf
      <3>6. Smooth
        BY <2>2, <3>1, <3>4 DEF Smooth
      <3> QED BY <2>3, <3>1, <3>5, <3>6 DEF SoundInv
    <2> QED BY <2>4, <2>5
  <1> QED BY <1>5, <1>6

LEMMA PullAnySound ==
    ASSUME TypeOK, SoundInv, PullAny
    PROVE  SoundInv' /\ Smooth
  <1>1. stopper \in Members
    BY DEF TypeOK
  <1>2. ASSUME PullQueued PROVE SoundInv' /\ Smooth
    <2> DEFINE head == stopper.iQueue[1]
               popped == [stopper EXCEPT !.iQueue = << >>]
    <2>1. /\ popped \in Members /\ SameRamp(stopper, popped) /\ popped.iQueue = << >>
          /\ popped.iRampJiffies = stopper.iRampJiffies
          /\ popped.iFlushStream = stopper.iFlushStream
      BY <1>1, Values DEF Members, SameRamp
    <2>2. stopper.iQueue \in Queues /\ stopper.iQueue # << >> /\ pc = "pull" /\ UNCHANGED phase
      BY <1>1, <1>2 DEF Members, PullQueued, At, upstream
    <2>3. head.size \in 1 .. MaxAudio /\ head.muted = FALSE /\ phase = "decoded"
      BY <2>2 DEF Queues, SoundInv
    <2>4. ProcessAudio(popped, head.size, FALSE)
      BY <1>2, <2>3 DEF PullQueued
    <2> HIDE DEF head, popped
    <2> QED BY <2>1, <2>2, <2>3, <2>4, ProcessAudioSound
  <1>3. ASSUME NEW n \in 1 .. MaxAudio, PullAudio(n) PROVE SoundInv' /\ Smooth
    <2>1. /\ pc = "pull" /\ phase = "decoded" /\ UNCHANGED phase
          /\ stopper.iQueue = << >> /\ ProcessAudio(stopper, n, FALSE)
      BY <1>3 DEF PullAudio, Pulled, At
    <2> QED BY <1>1, <2>1, ProcessAudioSound DEF SameRamp
  <1>4. ASSUME stopper'.iQueue = << >>, pc' \in {"top", "return"},
               phase' # "idle" => BoundsOf(stopper'),
               phase' = "decoded" => LevelOf(stopper', heard'),
               UNCHANGED out \/ out'.kind # "audio"
        PROVE  SoundInv' /\ Smooth
    BY <1>4, DeliverySound DEF SoundInv, RestOf
  <1>5. ASSUME PullSilence PROVE SoundInv' /\ Smooth
    <2>1. phase = "decoded" /\ UNCHANGED phase /\ stopper.iQueue = << >> /\ BoundsOf(stopper)
      BY <1>5 DEF PullSilence, Pulled, SoundInv
    <2>2. SameSound(stopper, stopper') /\ BoundsOf(stopper')
      <3>1. CASE stopper.iState \in Ramping
        <4>1. stopper' = RampCompleted(stopper)
          BY <1>5, <3>1 DEF PullSilence
        <4>2. SameSound(stopper, stopper') /\ stopper'.iState \in {ERunning, EPaused}
          BY <1>1, <3>1, <4>1, RampCompletedSound
        <4> QED BY <4>2, Names DEF BoundsOf
      <3>2. CASE stopper.iState \notin Ramping
        BY <1>5, <2>1, <3>2 DEF PullSilence, SameSound
      <3> QED BY <3>1, <3>2
    <2>3. DeliverUnlessFlushing(stopper', Plain("silence"))
      BY <1>5 DEF PullSilence
    <2>4. /\ pc' \in {"top", "return"}
          /\ stopper'.iFlushStream \/ heard' = Gap
          /\ UNCHANGED out \/ out'.kind # "audio"
      BY <2>3, DeliverySound
    <2>5. LevelOf(stopper', heard')
      BY <2>4 DEF LevelOf
    <2> QED BY <2>1, <2>2, <2>4, <2>5, <1>4 DEF SameSound
  <1>6. ASSUME PullFlushable \/ PullQuit PROVE SoundInv' /\ Smooth
    <2>1. stopper.iQueue = << >> /\ UNCHANGED <<stopper, phase>>
      BY <1>6 DEF PullFlushable, PullQuit, Pulled
    <2>2. /\ pc' \in {"top", "return"} /\ heard' = heard
          /\ UNCHANGED out \/ out'.kind # "audio"
      BY <1>6, DeliverySound DEF PullFlushable, PullQuit
    <2> QED BY <2>1, <2>2, <1>4 DEF SoundInv
  <1>7. ASSUME NEW ramp \in {RampLong, RampShort}, PullMode(ramp) PROVE SoundInv' /\ Smooth
    <2>1. stopper'.iQueue = << >> /\ phase' = "idle"
      BY <1>1, <1>7 DEF PullMode, Pulled, Members
    <2>2. pc' = "return" /\ out'.kind # "audio"
      BY <1>7, DeliverySound DEF PullMode, Seams
    <2> QED BY <2>1, <2>2, <1>4
  <1>8. ASSUME NEW a \in Answers
        PROVE  LET clean == NewStream(IF stopper.iStreamHandler THEN CheckPlayable(stopper, a) ELSE stopper)
               IN  /\ clean \in Members /\ clean.iState = ERunning
                   /\ stopper.iQueue = << >> => clean.iQueue = << >>
    <2> DEFINE asked == IF stopper.iStreamHandler THEN CheckPlayable(stopper, a) ELSE stopper
    <2>1. asked \in Members /\ asked.iQueue = stopper.iQueue
      BY <1>1, OkToPlayTyped, OkToPlaySound DEF CheckPlayable, SameSound
    <2> HIDE DEF asked
    <2> QED BY <2>1, NewStreamReports, HandlersTyped DEF asked
  <1>9. ASSUME NEW a \in Answers, PullTrack(a) PROVE SoundInv' /\ Smooth
    <2>1. stopper'.iState = ERunning /\ stopper'.iQueue = << >> /\ phase' = "track"
      BY <1>8, <1>9 DEF PullTrack, Pulled
    <2>2. pc' = "return" /\ out'.kind # "audio"
      BY <1>9, DeliverySound DEF PullTrack, Seams
    <2>3. BoundsOf(stopper')
      BY <2>1, Names DEF BoundsOf
    <2> QED BY <2>1, <2>2, <2>3, <1>4
  <1>10. ASSUME NEW live \in BOOLEAN, NEW a \in Answers, NEW b \in Answers,
                PullEncodedStream(live, a, b)
         PROVE  SoundInv' /\ Smooth
    <2> DEFINE clean == NewStream(IF stopper.iStreamHandler THEN CheckPlayable(stopper, a) ELSE stopper)
               new == [clean EXCEPT !.iStreamHandler = TRUE, !.iStreamIsLive = live, !.owed = @ + 1]
    <2>1. clean \in Members /\ clean.iState = ERunning /\ clean.iQueue = << >>
      BY <1>8, <1>10 DEF PullEncodedStream, Pulled
    <2>2. /\ stopper' = IF live THEN OkToPlay(new, b) ELSE new
          /\ Discard /\ phase' = "encoded"
      BY <1>10 DEF PullEncodedStream
    <2> HIDE DEF clean
    <2>3. clean.owed + 1 \in Int
      BY <2>1 DEF Members
    <2>4. new \in Members /\ new.iState = ERunning /\ new.iQueue = << >>
      BY <2>1, <2>3 DEF Members
    <2> HIDE DEF new
    <2>5. /\ stopper'.iQueue = << >>
          /\ \/ stopper'.iState \in {ERunning, EStopped}
             \/ stopper'.iState = EFlushing /\ stopper'.iFlushStream
      BY <2>2, <2>4, OkToPlaySound DEF SameSound, SameRamp
    <2>6. BoundsOf(stopper')
      BY <2>5, Names DEF BoundsOf
    <2> QED BY <2>2, <2>5, <2>6, <1>4, DeliverySound
  <1>11. ASSUME NEW a \in Answers, PullDecodedStream(a) PROVE SoundInv' /\ Smooth
    <2>1. phase \in {"encoded", "decoded"} /\ stopper.iQueue = << >> /\ BoundsOf(stopper)
      BY <1>11 DEF PullDecodedStream, Pulled, SoundInv
    <2>2. \/ stopper' = stopper \/ stopper' = OkToPlay(stopper, a)
      BY <1>11 DEF PullDecodedStream, CheckPlayable
    <2>3. /\ SameSound(stopper, stopper')
          /\ \/ SameRamp(stopper, stopper') \/ stopper'.iState = EStopped
             \/ stopper'.iState = EFlushing /\ stopper'.iFlushStream
      BY <1>1, <2>2, OkToPlaySound DEF SameSound, SameRamp
    <2>4. BoundsOf(stopper')
      BY <2>1, <2>3, Names DEF BoundsOf, SameRamp, SameSound
    <2>5. DeliverUnlessFlushing(stopper', Plain("stream"))
      BY <1>11 DEF PullDecodedStream
    <2>6. /\ pc' \in {"top", "return"}
          /\ stopper'.iFlushStream \/ heard' = Gap
          /\ UNCHANGED out \/ out'.kind # "audio"
      BY <2>5, DeliverySound DEF Seams
    <2>7. LevelOf(stopper', heard')
      BY <2>6 DEF LevelOf
    <2> QED BY <2>1, <2>3, <2>4, <2>6, <2>7, <1>4 DEF SameSound
  <1>12. ASSUME NEW id \in 0 .. MaxHalts, PullHalt(id) PROVE SoundInv' /\ Smooth
    <2> DEFINE s == [stopper EXCEPT !.iTargetHaltId = kIdInvalid]
    <2>1. s \in Members /\ SameSound(stopper, s)
      BY <1>1, Values DEF Members, SameSound
    <2>2. /\ stopper' = HandleStopped(s) \/ stopper' = stopper
          /\ stopper.iQueue = << >> /\ UNCHANGED phase
      BY <1>12 DEF PullHalt, Pulled
    <2> HIDE DEF s
    <2>3. stopper'.iQueue = << >> /\ (stopper' = stopper \/ stopper'.iState = EStopped)
      BY <2>1, <2>2, HandlersSound DEF SameSound
    <2>4. phase # "idle" => BoundsOf(stopper')
      BY <2>3, Names DEF SoundInv, BoundsOf
    <2>5. pc' = "return" /\ heard' = Gap /\ out'.kind # "audio"
      BY <1>12, DeliverySound DEF PullHalt, Seams
    <2>6. LevelOf(stopper', heard')
      BY <2>5 DEF LevelOf
    <2> QED BY <2>2, <2>3, <2>4, <2>5, <2>6, <1>4
  <1> QED BY <1>2, <1>3, <1>5, <1>6, <1>7, <1>9, <1>10, <1>11, <1>12 DEF PullAny

LEMMA NextSound ==
    ASSUME TypeOK, WakeupInv, SoundInv, [Next]_vars
    PROVE  SoundInv' /\ Smooth
  <1>1. CASE UNCHANGED vars
    BY <1>1, DeliverySound DEF vars, SoundInv, BoundsOf, LevelOf, HeldOf, RestOf
  <1>2. ASSUME \/ Play \/ BeginPause \/ Quit \/ NotifyStarving \/ ReportEvent
               \/ \E id \in 1 .. MaxHalts : BeginStop(id)
        PROVE  SoundInv' /\ Smooth
    <2>1. UNCHANGED out
      BY <1>2 DEF Play, BeginPause, Quit, NotifyStarving, ReportEvent, BeginStop, Client
    <2> QED BY <1>2, <2>1, CallsSound, DeliverySound
  <1>3. ASSUME Puller PROVE SoundInv' /\ Smooth
    BY <1>3, PlacesSound, PullAnySound DEF Puller
  <1> QED BY <1>1, <1>2, <1>3 DEF Next

(* Members, message and volume agree: the invariant behind the next.       *)
THEOREM SoundInvariant == Spec => []SoundInv
  <1>1. Init => SoundInv
    BY DEF Init, SoundInv, RestOf
  <1> QED BY <1>1, NextSound, TypeCorrect, WakeupInvariant, PTL DEF Spec

(* The volume never jumps within a stretch of audio, for every length of   *)
(* ramp, size of message and order of calls: a ramp that is split or       *)
(* turned around goes on where it was, and one that ends has reached an    *)
(* end of the scale (Stopper.cpp 59-75, 103-157, 341-371).                *)
THEOREM VolumeNeverJumps == Spec => RampContinuity
  <1>1. TypeOK /\ WakeupInv /\ SoundInv /\ [Next]_vars
          => [Delivers /\ out'.kind = "audio" /\ ~stopper.iFlushStream /\ ~SpentRampDown
                 => heard = Gap \/ out'.from = heard]_vars
    BY NextSound DEF Smooth
  <1> QED BY <1>1, TypeCorrect, WakeupInvariant, SoundInvariant, PTL DEF Spec, RampContinuity
=============================================================================
