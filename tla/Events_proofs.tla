--------------------------- MODULE Events_proofs ---------------------------
(***************************************************************************)
(* The way of an event from an element to the pipeline's observers.        *)
(*                                                                         *)
(* First ElementObserver: for any number of callbacks and of threads that  *)
(* schedule them, no change is forgotten, and the thread implements the    *)
(* safety part of EventChannel.  Then PipelineState, whose variables are   *)
(* others, and which takes events from such a channel: what it reports is  *)
(* what the elements have said.                                            *)
(***************************************************************************)
EXTENDS ElementObserver, PipelineState, TLAPS

(* Where each change is that has not been seen yet... *)
ChangeInFlight ==
    \A id \in Callbacks :
        seen[id] # stored[id] => \/ iPending[id]
                                 \/ at = id /\ running
                                 \/ \E p \in Producers : scheduling[p] = [id |-> id, next |-> "SetPending"]

(* ... and why the thread will come to it.  A callback marked pending      *)
(* while it runs, or that the thread has already passed, needs a signal    *)
(* that has not been consumed.                                             *)
PendingWillRun ==
    \A id \in Callbacks :
        iPending[id] => \/ signals > 0
                        \/ 0 < at /\ at < id
                        \/ at = id /\ ~running
                        \/ \E p \in Producers : scheduling[p] = [id |-> id, next |-> "Signal"]

IInv == /\ ObserverTypeOK
        /\ running => at # 0
        /\ ChangeInFlight
        /\ PendingWillRun

LEMMA InitInv == ObserverInit => IInv
  <1> SUFFICES ASSUME ObserverInit PROVE IInv
    OBVIOUS
  <1>1. ObserverTypeOK
    <2>1. NotScheduling \in Places
      BY DEF Places
    <2>2. stored \in [Callbacks -> Nat] /\ seen \in [Callbacks -> Nat]
      BY DEF ObserverInit
    <2>3. iPending \in [Callbacks -> BOOLEAN] /\ running \in BOOLEAN
      BY DEF ObserverInit
    <2>4. scheduling \in [Producers -> Places]
      BY <2>1 DEF ObserverInit
    <2>5. signals \in Nat /\ at \in 0 .. Ids
      BY IdsAssumption DEF ObserverInit
    <2> QED BY <2>2, <2>3, <2>4, <2>5 DEF ObserverTypeOK
  <1>2. \A id \in Callbacks : seen[id] = stored[id] /\ ~iPending[id]
    BY DEF ObserverInit
  <1>3. ~running
    BY DEF ObserverInit
  <1> QED BY <1>1, <1>2, <1>3 DEF IInv, ChangeInFlight, PendingWillRun

LEMMA SchedulingInv ==
    ASSUME IInv, NEW p \in Producers
    PROVE  /\ \A id \in Callbacks : Change(p, id) => IInv'
           /\ SetPending(p) => IInv'
           /\ Signal(p) => IInv'
  <1>1. ASSUME NEW id \in Callbacks, Change(p, id) PROVE IInv'
    BY <1>1 DEF Change, place, IInv, ObserverTypeOK, ChangeInFlight, PendingWillRun, Places, NotScheduling
  <1>2. ASSUME SetPending(p) PROVE IInv'
    BY <1>2 DEF SetPending, place, IInv, ObserverTypeOK, ChangeInFlight, PendingWillRun, Places, NotScheduling
  <1>3. ASSUME Signal(p) PROVE IInv'
    BY <1>3 DEF Signal, place, IInv, ObserverTypeOK, ChangeInFlight, PendingWillRun, Places, NotScheduling
  <1> QED BY <1>1, <1>2, <1>3

LEMMA MoveOnStays == ASSUME ObserverTypeOK, at # 0, MoveOn
                     PROVE  /\ at' \in 0 .. Ids
                            /\ \A id \in Callbacks : at < id => 0 < at' /\ at' <= id
  BY IdsAssumption DEF ObserverTypeOK, MoveOn, Callbacks

LEMMA WakeInv == ASSUME IInv, Wake
                 PROVE  IInv'
  <1>1. ObserverTypeOK'
    BY IdsAssumption DEF Wake, IInv, ObserverTypeOK
  <1>2. ChangeInFlight'
    BY DEF Wake, IInv, ChangeInFlight
  <1>3. PendingWillRun'
    <2> SUFFICES ASSUME NEW id \in Callbacks
                 PROVE  (0 < 1 /\ 1 < id) \/ 1 = id
      BY DEF Wake, IInv, PendingWillRun
    <2> QED BY IdsAssumption DEF Callbacks
  <1> QED BY <1>1, <1>2, <1>3 DEF Wake, IInv

LEMMA RunIfPendingInv == ASSUME IInv, RunIfPending
                         PROVE  IInv'
  <1>1. at \in Callbacks
    BY IdsAssumption DEF RunIfPending, IInv, ObserverTypeOK, Callbacks
  <1>2. ObserverTypeOK'
    BY <1>1, MoveOnStays DEF RunIfPending, IInv, ObserverTypeOK
  <1>3. (running => at # 0)'
    BY <1>1 DEF RunIfPending, IInv, ObserverTypeOK, Callbacks
  <1>4. ChangeInFlight'
    BY <1>1 DEF RunIfPending, IInv, ObserverTypeOK, ChangeInFlight
  <1>5. PendingWillRun'
    <2> SUFFICES ASSUME NEW id \in Callbacks, iPending'[id]
                 PROVE  \/ signals' > 0
                        \/ 0 < at' /\ at' < id
                        \/ at' = id /\ ~running'
                        \/ \E p \in Producers : scheduling'[p] = [id |-> id, next |-> "Signal"]
      BY DEF PendingWillRun
    <2>1. id # at /\ iPending[id]
      BY <1>1 DEF RunIfPending, IInv, ObserverTypeOK
    <2>2. CASE 0 < at /\ at < id
      BY <1>1, <2>1, <2>2, MoveOnStays, IdsAssumption DEF RunIfPending, IInv, ObserverTypeOK, Callbacks
    <2>3. CASE ~(0 < at /\ at < id)
      BY <1>1, <2>1, <2>3 DEF RunIfPending, IInv, PendingWillRun
    <2> QED BY <2>2, <2>3
  <1> QED BY <1>2, <1>3, <1>4, <1>5 DEF IInv

LEMMA CallInv == ASSUME IInv, Call
                 PROVE  IInv'
  <1>1. at \in Callbacks
    BY IdsAssumption DEF Call, IInv, ObserverTypeOK, Callbacks
  <1>2. ObserverTypeOK'
    BY <1>1, MoveOnStays DEF Call, IInv, ObserverTypeOK, Callbacks
  <1>3. ChangeInFlight'
    BY <1>1 DEF Call, IInv, ObserverTypeOK, ChangeInFlight
  <1>4. PendingWillRun'
    <2> SUFFICES ASSUME NEW id \in Callbacks, iPending[id]
                 PROVE  \/ signals > 0
                        \/ 0 < at' /\ at' <= id
                        \/ \E p \in Producers : scheduling[p] = [id |-> id, next |-> "Signal"]
      <3>1. at' \in Nat /\ \A id \in Callbacks : id \in Nat
        BY <1>2, IdsAssumption DEF ObserverTypeOK, Callbacks
      <3>2. ~running' /\ UNCHANGED <<iPending, signals, scheduling>>
        BY DEF Call
      <3>3. \A id \in Callbacks : at' <= id => at' < id \/ at' = id
        BY <3>1
      <3> QED BY <3>2, <3>3 DEF PendingWillRun
    <2> QED BY <1>1, MoveOnStays DEF Call, IInv, PendingWillRun, Callbacks
  <1> QED BY <1>2, <1>3, <1>4 DEF Call, IInv

(* Changes in flight and pending callbacks are always on their way: the    *)
(* invariant behind the next two.                                          *)
THEOREM Invariant == ObserverSpec => []IInv
  <1>1. IInv /\ [ObserverNext]_observer => IInv'
    <2> SUFFICES ASSUME IInv, [ObserverNext]_observer PROVE IInv'
      OBVIOUS
    <2>1. CASE UNCHANGED observer
      BY <2>1 DEF observer, IInv, ObserverTypeOK, ChangeInFlight, PendingWillRun
    <2>2. CASE ObserverNext
      BY <2>2, SchedulingInv, WakeInv, RunIfPendingInv, CallInv DEF ObserverNext, Schedule, RunCallbacks
    <2> QED BY <2>1, <2>2
  <1> QED BY <1>1, InitInv, PTL DEF ObserverSpec

(* When the event thread sleeps and nobody is scheduling, every observer   *)
(* has been told the latest change of its element (ElementObserver.cpp:47). *)
THEOREM NeverForgets == ObserverSpec => []NothingForgotten
  <1>1. IInv => NothingForgotten
    <2> SUFFICES ASSUME IInv, at = 0, signals = 0, \A p \in Producers : scheduling[p] = NotScheduling,
                        NEW id \in Callbacks
                 PROVE  seen[id] = stored[id]
      BY DEF NothingForgotten
    <2>1. \A p \in Producers : scheduling[p].id = 0
      BY DEF NotScheduling
    <2>2. \A p \in Producers, n \in {"SetPending", "Signal"} : scheduling[p] # [id |-> id, next |-> n]
      BY <2>1, IdsAssumption DEF Callbacks
    <2>3. ~iPending[id]
      BY <2>2, IdsAssumption DEF IInv, PendingWillRun, Callbacks
    <2> QED BY <2>2, <2>3 DEF IInv, ChangeInFlight
  <1> QED BY <1>1, Invariant, PTL

(* Callbacks run at least once after a change and never before it: the     *)
(* thread's steps are changes and reports of EventChannel, or neither.     *)
THEOREM ImplementsSafeChannel == ObserverSpec => Channel!Safe
  <1>1. ObserverInit => Channel!Init
    BY DEF ObserverInit, Channel!Init, Callbacks
  <1>2. IInv /\ [ObserverNext]_observer => [Channel!Next]_Channel!channel
    <2> SUFFICES ASSUME IInv, ObserverNext
                 PROVE  Channel!Next \/ UNCHANGED Channel!channel
      BY DEF observer, Channel!channel
    <2>1. ASSUME NEW p \in Producers, NEW id \in Callbacks, Change(p, id)
          PROVE  Channel!Next
      BY <2>1 DEF Change, Channel!Next, Channel!Change, Callbacks
    <2>2. ASSUME NEW p \in Producers, Schedule(p)
          PROVE  UNCHANGED Channel!channel
      BY <2>2 DEF Schedule, SetPending, Signal, Channel!channel
    <2>3. CASE Wake \/ RunIfPending
      BY <2>3 DEF Wake, RunIfPending, Channel!channel
    <2>4. CASE Call
      <3>1. at \in Callbacks
        BY <2>4, IdsAssumption DEF Call, IInv, ObserverTypeOK, Callbacks
      <3>2. CASE seen[at] = stored[at]
        BY <3>1, <3>2, <2>4 DEF Call, IInv, ObserverTypeOK, Channel!channel
      <3>3. CASE seen[at] # stored[at]
        BY <3>1, <3>3, <2>4 DEF Call, Channel!Next, Channel!Report, Callbacks
      <3> QED BY <3>2, <3>3
    <2> QED BY <2>1, <2>2, <2>3, <2>4 DEF ObserverNext, RunCallbacks
  <1> QED BY <1>1, <1>2, Invariant, PTL DEF ObserverSpec, Channel!Safe

-----------------------------------------------------------------------------
(* An event of Stopper is due for as long as it has not been taken, and    *)
(* then the event thread holds it until it has set the state, so that only *)
(* a client that has set it itself can have left it behind.                *)
EventIsDue == iEventState # "None" => "Stopper" \in pending /\ iEventState = lastRaised
HeldIsLast == "Stopper" \notin pending /\ thread.at = "set" => thread.state = lastRaised
StateInv == EventIsDue /\ HeldIsLast /\ StateIsLastEvent

LEMMA StopperStepKeepsState ==
    ASSUME NEW step, StateInv,
           StopperStep(step), iEventState' # "None" \/ iEventState' = iEventState,
           UNCHANGED thread,
           \/ UNCHANGED <<client, iState>>
           \/ client.at = "play" /\ iEventState' = "Playing"
    PROVE  StateInv'
  <1>1. \/ iEventState' = iEventState /\ UNCHANGED <<pending, lastRaised>>
        \/ iEventState' # iEventState /\ pending' = pending \union {"Stopper"} /\ lastRaised' = iEventState'
    BY DEF StopperStep
  <1>2. iEventState' # "None" => "Stopper" \in pending'
    BY <1>1 DEF StateInv, EventIsDue
  <1>3. EventIsDue'
    BY <1>1 DEF StateInv, EventIsDue
  <1>4. HeldIsLast'
    BY <1>1 DEF StateInv, HeldIsLast
  <1>5. StateIsLastEvent'
    <2>1. CASE iEventState' # "None"
      BY <1>2, <2>1 DEF StateIsLastEvent, StopperSettled
    <2>2. CASE iEventState' = "None"
      BY <1>1, <2>2 DEF StateInv, StateIsLastEvent, StopperSettled
    <2> QED BY <2>1, <2>2
  <1> QED BY <1>3, <1>4, <1>5 DEF StateInv

LEMMA StateInit == Init => StateInv
BY DEF Init, S!Init, Idle, StateInv, EventIsDue, HeldIsLast,
       StateIsLastEvent, StopperSettled

LEMMA PullKeepsState == StateInv /\ Pull => StateInv'
<1> SUFFICES ASSUME StateInv, Pull PROVE StateInv'
  OBVIOUS
<1>1. iEventState' # "None" \/ iEventState' = iEventState
  BY DEF Pull, StopperStep, S!Pull, S!Halt, S!Raise,
         S!Halts
<1>2. StopperStep(S!Pull) /\ UNCHANGED <<thread, client, iState>>
  BY DEF Pull, pipeline
<1> QED BY <1>1, <1>2, StopperStepKeepsState

LEMMA PlayKeepsState == StateInv /\ Play => StateInv'
<1> SUFFICES ASSUME StateInv, Play PROVE StateInv'
  OBVIOUS
<1> DEFINE step == IF iQuitting THEN S!Quit ELSE S!Play
<1>1. iEventState' = "Playing"
  BY DEF Play, StopperStep, S!Play, S!Quit, S!Raise
<1>2. StopperStep(step) /\ client.at = "play" /\ UNCHANGED thread
  BY DEF Play, ClientOnly
<1> QED BY <1>1, <1>2, StopperStepKeepsState

LEMMA PauseAndStopKeepState == StateInv /\ (Pause \/ Stop) => StateInv'
<1> SUFFICES ASSUME StateInv, Pause \/ Stop PROVE StateInv'
  OBVIOUS
<1>1. \/ StopperStep(S!BeginPause)
      \/ StopperStep(S!BeginStop)
  BY DEF Pause, Stop
<1>2. iEventState' # "None" \/ iEventState' = iEventState
  BY <1>1 DEF StopperStep, S!BeginPause, S!BeginStop, S!Halt,
              S!Raise, S!events
<1>3. UNCHANGED <<client, iState, thread>>
  BY DEF Pause, Stop, ClientOnly
<1> QED BY <1>1, <1>2, <1>3, StopperStepKeepsState

(* Everything the event thread and a client's call do besides.             *)
LEMMA OthersKeepState ==
    ASSUME StateInv,
           \/ \E b \in BOOLEAN : RaiseWaiting(b) \/ SetBuffering(b)
           \/ \E quit \in BOOLEAN : BeginPlay(quit)
           \/ ClientNotify \/ EventThread
    PROVE  StateInv'
<1> USE DEF StateInv, EventIsDue, HeldIsLast, StateIsLastEvent, StopperSettled,
            elements, reporter
<1>1. ASSUME NEW b \in BOOLEAN, RaiseWaiting(b) PROVE StateInv'
  BY <1>1 DEF RaiseWaiting, pipeline
<1>2. ASSUME NEW b \in BOOLEAN, SetBuffering(b) PROVE StateInv'
  BY <1>2 DEF SetBuffering, pipeline
<1>3. ASSUME NEW quit \in BOOLEAN, BeginPlay(quit) PROVE StateInv'
  BY <1>3 DEF BeginPlay, ClientOnly, Idle
<1>4. ASSUME ClientNotify PROVE StateInv'
  BY <1>4 DEF ClientNotify, NotifyUnchanged, Decide, Decided,
              SetPipelineState, Idle
<1>5. ASSUME ThreadNotify PROVE StateInv'
  BY <1>5 DEF ThreadNotify, NotifyUnchanged, Decide, Decided,
              SetPipelineState, Idle
<1>6. ASSUME SetState PROVE StateInv'
  BY <1>6 DEF SetState, NotifyNext
<1>7. ASSUME TakeStopper PROVE StateInv'
  BY <1>7 DEF TakeStopper, Take, S!ReportEvent, S!Raise, Idle
<1>8. ASSUME TakeWaiter PROVE StateInv'
  BY <1>8 DEF TakeWaiter, Take, NotifyNext, Idle
<1>9. ASSUME TakeBuffering PROVE StateInv'
  BY <1>9 DEF TakeBuffering, Take, NotifyNext, Idle
<1>10. ASSUME TellObservers PROVE StateInv'
  BY <1>10 DEF TellObservers, Take, Idle
<1> QED BY <1>1, <1>2, <1>3, <1>4, <1>5, <1>6, <1>7, <1>8, <1>9, <1>10 DEF EventThread

LEMMA StateKept == StateInv /\ [Next]_vars => StateInv'
<1> SUFFICES ASSUME StateInv, [Next]_vars PROVE StateInv'
  OBVIOUS
<1>1. CASE UNCHANGED vars
  BY <1>1 DEF vars, elements, pipeline, StateInv, EventIsDue, HeldIsLast,
              StateIsLastEvent, StopperSettled
<1>2. CASE Next
  BY <1>2, PullKeepsState, PlayKeepsState, PauseAndStopKeepState, OthersKeepState
     DEF Next, Client
<1> QED BY <1>1, <1>2

(* Though a client sets iState as well as the event thread, and events     *)
(* overwrite each other, the state Pipeline is left in is the one that     *)
(* Stopper's last event says (Pipeline.cpp, PipelinePlaying and DoPlay).   *)
THEOREM StateFollowsEvents == Spec => []StateIsLastEvent
<1>1. StateInv => StateIsLastEvent
  BY DEF StateInv
<1> QED BY <1>1, StateInit, StateKept, PTL DEF Spec

(* Waiter's and StarvationRamper's events: what Pipeline holds is what     *)
(* they say unless they have a callback due.                               *)
Mirrored == /\ "Waiter" \notin pending => iWaiting = iEventWaiting
            /\ "StarvationRamper" \notin pending => iBuffering = iEventBuffering
            /\ iLastEventBuffering = iBuffering

(* A state not yet reported has somebody on the way to NotifyStatus()...   *)
WillNotify == \/ thread.at = "notify" \/ client.at = "notify"
              \/ client.at = "play" /\ client.state # "None"
StatusNotified == HasReported => Status = iLastReportedState \/ WillNotify

(* ... the state worked out last is the one on the way to Reporter...      *)
ReportsLatest == ~overlapped =>
    /\ client.at # "report" \/ thread.at # "report"
    /\ client.at = "report" => client.state = iLastReportedState
    /\ thread.at = "report" => thread.state = iLastReportedState

(* ... and once it has arrived observers know it or are about to be told.  *)
Told == /\ iPipelineState = iLastReportedState
        /\ "Reporter" \in pending \/ iPrevPipelineState = iPipelineState
LatestTold == ~overlapped /\ iLastReportedState # "None" =>
    client.at = "report" \/ thread.at = "report" \/ Told

ReportInv == overlapped \in BOOLEAN /\ Mirrored /\ StatusNotified /\ ReportsLatest /\ LatestTold

LEMMA ReportInit == Init => ReportInv
<1> SUFFICES ASSUME Init PROVE ReportInv
  OBVIOUS
<1>1. iLastReportedState = "None" /\ client.at = "idle" /\ thread.at = "idle"
  BY DEF Init, Idle, None
<1>2. Mirrored /\ overlapped \in BOOLEAN
  BY DEF Init, Mirrored
<1>3. StatusNotified /\ ReportsLatest /\ LatestTold
  BY <1>1 DEF StatusNotified, ReportsLatest, LatestTold, HasReported, None
<1> QED BY <1>2, <1>3 DEF ReportInv

(* What Stopper does, on whatever thread, reports nothing.                 *)
LEMMA StopperKeepsReports ==
    ASSUME ReportInv, Pull \/ Play \/ Pause \/ Stop
    PROVE  ReportInv'
<1>1. \/ UNCHANGED pending
      \/ pending' = pending \union {"Stopper"}
  BY DEF Pull, Play, Pause, Stop, StopperStep
<1>2. UNCHANGED <<iEventWaiting, iEventBuffering, iLastEventBuffering, iState, iWaiting, iBuffering,
                  iQuitting, iLastReportedState, iPipelineState, iPrevPipelineState, thread,
                  overlapped>>
  BY DEF Pull, Play, Pause, Stop, StopperStep,
         ClientOnly, pipeline, reporter
<1>3. \/ UNCHANGED client
      \/ client.at = "play" /\ client.state # "None" /\ client' = [at |-> "notify", state |-> "None"]
      \/ client.at = "play" /\ client.state = "None" /\ client' = Idle
  BY DEF Pull, Play, Pause, Stop, None
<1>4. Mirrored'
  BY <1>1, <1>2 DEF ReportInv, Mirrored
<1>5. Status' = Status /\ HasReported' = HasReported
  BY <1>2 DEF Status, HasReported
<1>6. WillNotify => WillNotify'
  BY <1>2, <1>3 DEF WillNotify
<1>7. StatusNotified'
  BY <1>2, <1>5, <1>6 DEF ReportInv, StatusNotified
<1>8. overlapped' \in BOOLEAN /\ ReportsLatest' /\ LatestTold'
  BY <1>1, <1>2, <1>3 DEF ReportInv, ReportsLatest, LatestTold, Told, Idle
<1> QED BY <1>4, <1>7, <1>8 DEF ReportInv

LEMMA ElementsKeepReports ==
    ASSUME ReportInv, NEW b \in BOOLEAN, RaiseWaiting(b) \/ SetBuffering(b)
    PROVE  ReportInv'
<1>1. \/ pending' = pending \union {"Waiter"} /\ UNCHANGED iEventBuffering
      \/ pending' = pending \union {"StarvationRamper"} /\ UNCHANGED iEventWaiting
  BY DEF RaiseWaiting, SetBuffering
<1>2. UNCHANGED <<iLastEventBuffering, iState, iWaiting, iBuffering, iQuitting, iLastReportedState,
                  iPipelineState, iPrevPipelineState, client, thread, overlapped>>
  BY DEF RaiseWaiting, SetBuffering, pipeline, reporter
<1>3. Mirrored'
  BY <1>1, <1>2 DEF ReportInv, Mirrored
<1>4. StatusNotified'
  BY <1>2 DEF ReportInv, StatusNotified, WillNotify, Status, HasReported
<1>5. overlapped' \in BOOLEAN /\ ReportsLatest' /\ LatestTold'
  BY <1>1, <1>2 DEF ReportInv, ReportsLatest, LatestTold, Told
<1> QED BY <1>3, <1>4, <1>5 DEF ReportInv

LEMMA BeginPlayKeepsReports ==
    ASSUME ReportInv, NEW quit \in BOOLEAN, BeginPlay(quit)
    PROVE  ReportInv'
<1>1. UNCHANGED <<iEventWaiting, iEventBuffering, pending, iLastEventBuffering, iWaiting, iBuffering,
                  iLastReportedState, iPipelineState, iPrevPipelineState, thread, overlapped>>
  BY DEF BeginPlay, ClientOnly, elements, reporter
<1>2. ~iQuitting /\ client.at = "idle" /\ client'.at = "play"
  BY DEF BeginPlay, Idle
<1>3. overlapped' \in BOOLEAN /\ Mirrored' /\ ReportsLatest' /\ LatestTold'
  BY <1>1, <1>2 DEF ReportInv, Mirrored, ReportsLatest, LatestTold, Told
<1>4. StatusNotified'
  <2>1. CASE iState = "Playing"
    <3>1. Status' = Status
      BY <1>1, <2>1 DEF BeginPlay, Status
    <3> QED BY <1>1, <1>2, <3>1 DEF ReportInv, StatusNotified, WillNotify, HasReported
  <2>2. CASE iState # "Playing"
    BY <1>2, <2>2 DEF BeginPlay, None, StatusNotified, WillNotify
  <2> QED BY <2>1, <2>2
<1> QED BY <1>3, <1>4 DEF ReportInv

(* NotifyStatus(), for a client and for the event thread.                  *)
LEMMA NotifyKeepsReports ==
    ASSUME ReportInv, ClientNotify \/ ThreadNotify
    PROVE  ReportInv'
<1> USE DEF NotifyUnchanged, elements
<1>1. UNCHANGED <<iEventWaiting, iEventBuffering, iLastEventBuffering, iState, iWaiting, iBuffering,
                  iQuitting, iPrevPipelineState>>
  BY DEF ClientNotify, ThreadNotify
<1>2. Status' = Status
  BY <1>1 DEF Status
<1>3. Mirrored'
  BY <1>1 DEF ClientNotify, ThreadNotify, SetPipelineState, ReportInv, Mirrored
<1>4. StatusNotified'
  <2>1. ASSUME Decide(client) \/ Decide(thread) PROVE StatusNotified'
    BY <1>1, <1>2, <2>1 DEF Decide, StatusNotified, HasReported
  <2>2. ASSUME \/ /\ client.at = "report" /\ UNCHANGED thread
                  /\ client' = Idle
               \/ /\ thread.at = "report" /\ UNCHANGED client
                  /\ thread' = Idle,
               UNCHANGED iLastReportedState
        PROVE  StatusNotified'
    BY <1>1, <1>2, <2>2 DEF ReportInv, StatusNotified, WillNotify, HasReported, Idle
  <2> QED BY <2>1, <2>2 DEF ClientNotify, ThreadNotify, SetPipelineState
<1>5. overlapped' \in BOOLEAN /\ ReportsLatest' /\ LatestTold'
  <2> DEFINE Same == iQuitting \/ Status = iLastReportedState
             Goal == overlapped' \in BOOLEAN /\ ReportsLatest' /\ LatestTold'
  <2> USE DEF ReportInv, ReportsLatest, LatestTold, Told, Idle
  <2>1. ASSUME ClientNotify, Decide(client) PROVE Goal
    <3>1. /\ client.at = "notify"
          /\ client' = Decided(client)
          /\ overlapped' = (overlapped \/ (client'.at = "report" /\ thread.at = "report"))
          /\ UNCHANGED <<pending, iPipelineState, iPrevPipelineState, thread>>
          /\ iLastReportedState' = IF iQuitting THEN iLastReportedState ELSE Status
      BY <2>1, <1>1 DEF ClientNotify, Decide, SetPipelineState
    <3>2. CASE Same
      <4>1. client'.at = "idle" /\ UNCHANGED iLastReportedState
        BY <3>1, <3>2 DEF Decided
      <4>2. UNCHANGED overlapped
        BY <3>1, <4>1
      <4> QED BY <3>1, <4>1, <4>2
    <3>3. CASE ~Same
      <4>1. client' = [at |-> "report", state |-> Status]
        BY <3>1, <3>3 DEF Decided
      <4>2. client'.state = iLastReportedState' /\ client'.at = "report"
        BY <3>1, <3>3, <4>1
      <4>3. overlapped' = (overlapped \/ thread.at = "report")
        BY <3>1, <4>2
      <4>4. overlapped' \in BOOLEAN /\ (~overlapped' => thread.at # "report")
        BY <4>3
      <4> QED BY <3>1, <4>2, <4>4
    <3> QED BY <3>2, <3>3
  <2>2. ASSUME ThreadNotify, Decide(thread) PROVE Goal
    <3>1. /\ thread.at = "notify"
          /\ thread' = Decided(thread)
          /\ overlapped' = (overlapped \/ (client.at = "report" /\ thread'.at = "report"))
          /\ UNCHANGED <<pending, iPipelineState, iPrevPipelineState, client>>
          /\ iLastReportedState' = IF iQuitting THEN iLastReportedState ELSE Status
      BY <2>2, <1>1 DEF ThreadNotify, Decide, SetPipelineState
    <3>2. CASE Same
      <4>1. thread'.at = "idle" /\ UNCHANGED iLastReportedState
        BY <3>1, <3>2 DEF Decided
      <4>2. UNCHANGED overlapped
        BY <3>1, <4>1
      <4> QED BY <3>1, <4>1, <4>2
    <3>3. CASE ~Same
      <4>1. thread' = [at |-> "report", state |-> Status]
        BY <3>1, <3>3 DEF Decided
      <4>2. thread'.state = iLastReportedState' /\ thread'.at = "report"
        BY <3>1, <3>3, <4>1
      <4>3. overlapped' = (overlapped \/ client.at = "report")
        BY <3>1, <4>2
      <4>4. overlapped' \in BOOLEAN /\ (~overlapped' => client.at # "report")
        BY <4>3
      <4> QED BY <3>1, <4>2, <4>4
    <3> QED BY <3>2, <3>3
  <2>3. ASSUME ClientNotify, SetPipelineState(client) PROVE Goal
    <3>1. client.at = "report" /\ client' = Idle /\ iPipelineState' = client.state
          /\ "Reporter" \in pending' /\ UNCHANGED <<iLastReportedState, thread, overlapped>>
      BY <2>3 DEF ClientNotify, SetPipelineState, Decide
    <3> QED BY <3>1
  <2>4. ASSUME ThreadNotify, SetPipelineState(thread) PROVE Goal
    <3>1. thread.at = "report" /\ thread' = Idle /\ iPipelineState' = thread.state
          /\ "Reporter" \in pending' /\ UNCHANGED <<iLastReportedState, client, overlapped>>
      BY <2>4 DEF ThreadNotify, SetPipelineState, Decide
    <3> QED BY <3>1
  <2> QED BY <2>1, <2>2, <2>3, <2>4 DEF ClientNotify, ThreadNotify
<1> QED BY <1>3, <1>4, <1>5 DEF ReportInv

(* The event thread takes what is due.                                     *)
LEMMA TakingKeepsReports ==
    ASSUME ReportInv,
           \/ SetState \/ TakeStopper \/ TakeWaiter
           \/ TakeBuffering \/ TellObservers
    PROVE  ReportInv'
<1> USE DEF ReportInv, Mirrored, StatusNotified, WillNotify, ReportsLatest, LatestTold, Told,
            HasReported, Take, Idle, NotifyNext,
            elements, reporter
<1>1. ASSUME SetState PROVE ReportInv'
  BY <1>1 DEF SetState
<1>2. ASSUME TakeStopper PROVE ReportInv'
  <2>1. Status' = Status
    BY <1>2 DEF TakeStopper, Status
  <2> QED BY <1>2, <2>1 DEF TakeStopper
<1>3. ASSUME TakeWaiter PROVE ReportInv'
  BY <1>3 DEF TakeWaiter
<1>4. ASSUME TakeBuffering PROVE ReportInv'
  <2>1. \/ thread'.at = "notify"
        \/ thread' = Idle /\ Status' = Status
    BY <1>4 DEF TakeBuffering, Status
  <2> QED BY <1>4, <2>1 DEF TakeBuffering
<1>5. ASSUME TellObservers PROVE ReportInv'
  <2>1. Status' = Status
    BY <1>5 DEF TellObservers, Status
  <2> QED BY <1>5, <2>1 DEF TellObservers
<1> QED BY <1>1, <1>2, <1>3, <1>4, <1>5

LEMMA ReportKept == ReportInv /\ [Next]_vars => ReportInv'
<1> SUFFICES ASSUME ReportInv, [Next]_vars PROVE ReportInv'
  OBVIOUS
<1>1. CASE UNCHANGED vars
  BY <1>1 DEF vars, elements, pipeline, reporter, ReportInv, Mirrored,
              StatusNotified, WillNotify, ReportsLatest, LatestTold, Told, HasReported,
              Status
<1>2. CASE Next
  BY <1>2, StopperKeepsReports, ElementsKeepReports, BeginPlayKeepsReports, NotifyKeepsReports,
     TakingKeepsReports DEF Next, Client, EventThread
<1> QED BY <1>1, <1>2

(* Unless a client and the event thread have reported at the same time     *)
(* (NotifyStatus lets go of iLock before it calls Reporter), observers of  *)
(* a settled pipeline know what its elements have said last.               *)
THEOREM ObserversFollowElements == Spec => []UpToDateUnlessOverlapped
<1>1. StateInv /\ ReportInv => UpToDateUnlessOverlapped
  <2> SUFFICES ASSUME StateInv, ReportInv, ~overlapped, Settled, HasReported
               PROVE  iPrevPipelineState = Raised
    BY DEF UpToDateUnlessOverlapped, ObserversUpToDate
  <2>1. pending = {} /\ thread.at = "idle" /\ client.at = "idle"
    BY DEF Settled, Idle
  <2>2. iState = lastRaised
    BY <2>1 DEF StateInv, StateIsLastEvent, StopperSettled
  <2>3. Status = Raised
    BY <2>1, <2>2 DEF ReportInv, Mirrored, Status, Raised
  <2>4. Status = iLastReportedState
    BY <2>1 DEF ReportInv, StatusNotified, WillNotify
  <2>5. iPrevPipelineState = iLastReportedState
    BY <2>1 DEF ReportInv, LatestTold, Told, HasReported, None
  <2> QED BY <2>3, <2>4, <2>5
<1> QED BY <1>1, StateInit, StateKept, ReportInit, ReportKept, PTL DEF Spec
=============================================================================
