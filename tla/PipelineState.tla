--------------------------- MODULE PipelineState ---------------------------
(***************************************************************************)
(* The state that Pipeline (Media/Pipeline/Pipeline.cpp) reports, and how  *)
(* it reaches observers through Reporter (Reporter.cpp).                   *)
(*                                                                         *)
(* Three elements raise events: Stopper (StopperEvents says which), Waiter *)
(* and StarvationRamper.  The event thread takes them (EventChannel: each  *)
(* element's latest is not missed, in no particular order) and changes     *)
(* iState, iWaiting and iBuffering under iLock.  A client that plays       *)
(* changes iState too.  Both then call NotifyStatus(), which works out the *)
(* state under iLock but hands it to Reporter after releasing it.          *)
(***************************************************************************)
CONSTANTS Raisers,  \* elements, besides Stopper, that raise events
          MayQuit   \* whether clients may quit

ASSUME RaisersAssumption == Raisers \subseteq {"Waiter", "StarvationRamper"}
ASSUME QuitAssumption == MayQuit \in BOOLEAN

VARIABLES
    halted, iEventState,                \* Stopper
    iEventWaiting,                      \* Waiter
    iEventBuffering,                    \* StarvationRamper
    iLastEventBuffering,                \* StarvationRamper
    pending,                            \* elements whose callback is due
    iState, iWaiting, iBuffering,       \* Pipeline
    iQuitting, iLastReportedState,      \* Pipeline
    iPipelineState, iPrevPipelineState, \* Reporter; the latter is what observers know
    client, thread,                     \* where the client's call and the event thread are
    lastRaised,                         \* last event Stopper raised
    overlapped                          \* two reports were ever under way at once

elements == <<halted, iEventState, iEventWaiting, iEventBuffering, lastRaised>>
pipeline == <<iState, iWaiting, iBuffering, iQuitting, iLastReportedState>>
reporter == <<iPipelineState, iPrevPipelineState>>
vars == <<elements, pending, iLastEventBuffering, pipeline, reporter, client, thread, overlapped>>

S == INSTANCE StopperEvents

Observed == {"Stopper", "Waiter", "StarvationRamper", "Reporter"}
Internal == {"Playing", "Paused", "Stopped"}
Reported == Internal \union {"Waiting", "Buffering"}
None == "None"

Idle == [at |-> "idle", state |-> None]
(* at: what comes next; state: what it is about to set or to report. *)
Calls == {"idle", "play", "set", "notify", "report"}

Init == /\ S!Init
        /\ lastRaised = "Stopped"
        /\ iEventWaiting = FALSE
        /\ iEventBuffering = FALSE /\ iLastEventBuffering = FALSE
        /\ pending = {}
        /\ iState = "Stopped" /\ iWaiting = FALSE /\ iBuffering = FALSE
        /\ iQuitting = FALSE /\ iLastReportedState = None
        /\ iPipelineState = "Stopped" /\ iPrevPipelineState = None
        /\ client = Idle /\ thread = Idle
        /\ overlapped = FALSE

-----------------------------------------------------------------------------
(* Elements.                                                               *)

(* What Stopper does, and its call of Schedule() if it raised an event.    *)
StopperStep(step) ==
    /\ step
    /\ IF iEventState' = iEventState
       THEN UNCHANGED <<pending, lastRaised>>
       ELSE pending' = pending \union {"Stopper"} /\ lastRaised' = iEventState'
    /\ UNCHANGED <<iEventWaiting, iEventBuffering>>

Pull == /\ StopperStep(S!Pull)
        /\ UNCHANGED <<iLastEventBuffering, pipeline, reporter, client, thread, overlapped>>

(* Waiter::ScheduleEvent *)
RaiseWaiting(waiting) ==
    /\ "Waiter" \in Raisers
    /\ iEventWaiting' = waiting
    /\ pending' = pending \union {"Waiter"}
    /\ UNCHANGED <<halted, iEventState, iEventBuffering, lastRaised, iLastEventBuffering,
                   pipeline, reporter, client, thread, overlapped>>

(* StarvationRamper::SetBuffering *)
SetBuffering(buffering) ==
    /\ "StarvationRamper" \in Raisers
    /\ iEventBuffering # buffering
    /\ iEventBuffering' = buffering
    /\ pending' = pending \union {"StarvationRamper"}
    /\ UNCHANGED <<halted, iEventState, iEventWaiting, lastRaised, iLastEventBuffering,
                   pipeline, reporter, client, thread, overlapped>>

-----------------------------------------------------------------------------
(* A client's call; PipelineManager's iPublicLock admits one at a time.    *)

ClientOnly == UNCHANGED <<iLastEventBuffering, iWaiting, iBuffering, iLastReportedState,
                          reporter, thread, overlapped>>

(* DoPlay sets iState and lets go of iLock before it calls Stopper. *)
BeginPlay(quit) ==
    /\ client = Idle /\ ~iQuitting
    /\ quit => MayQuit
    /\ iQuitting' = quit
    /\ client' = [at |-> "play",
                  state |-> IF iState = "Playing" THEN None ELSE "Playing"]
    /\ iState' = "Playing"
    /\ UNCHANGED <<elements, pending>> /\ ClientOnly

Play == /\ client.at = "play"
        /\ StopperStep(IF iQuitting THEN S!Quit ELSE S!Play)
        /\ client' = IF client.state = None THEN Idle ELSE [at |-> "notify", state |-> None]
        /\ UNCHANGED <<iState, iQuitting>> /\ ClientOnly

Pause == /\ client = Idle /\ ~iQuitting
         /\ StopperStep(S!BeginPause)
         /\ UNCHANGED <<client, iState, iQuitting>> /\ ClientOnly

Stop == /\ client = Idle /\ ~iQuitting
        /\ StopperStep(S!BeginStop)
        /\ UNCHANGED <<client, iState, iQuitting>> /\ ClientOnly

-----------------------------------------------------------------------------
(* NotifyStatus(), for whichever thread has called it.                     *)

Status == IF iState # "Playing" THEN iState
          ELSE IF iWaiting THEN "Waiting"
          ELSE IF iBuffering THEN "Buffering" ELSE "Playing"

(* Under iLock; a state that was the last to be reported is not again. *)
Decide(t) == /\ t.at = "notify"
             /\ iLastReportedState' = IF iQuitting THEN iLastReportedState ELSE Status

Decided(t) == IF iQuitting \/ Status = iLastReportedState
              THEN Idle
              ELSE [at |-> "report", state |-> Status]

(* Fault: does not schedule the callback. *)
SetPipelineStateSilent(t) == /\ t.at = "report"
                             /\ iPipelineState' = t.state
                             /\ UNCHANGED pending

(* Reporter::SetPipelineState *)
SetPipelineState(t) == /\ t.at = "report"
                       /\ iPipelineState' = t.state
                       /\ pending' = pending \union {"Reporter"}

NotifyUnchanged == UNCHANGED <<elements, iLastEventBuffering, iState, iWaiting, iBuffering, iQuitting,
                               iPrevPipelineState>>

ClientNotify == \/ /\ Decide(client)
                   /\ client' = Decided(client)
                   /\ overlapped' = (overlapped \/ (client'.at = "report" /\ thread.at = "report"))
                   /\ NotifyUnchanged /\ UNCHANGED <<pending, iPipelineState, thread>>
                \/ /\ SetPipelineState(client)
                   /\ client' = Idle
                   /\ NotifyUnchanged /\ UNCHANGED <<iLastReportedState, thread, overlapped>>

ThreadNotify == \/ /\ Decide(thread)
                   /\ thread' = Decided(thread)
                   /\ overlapped' = (overlapped \/ (client.at = "report" /\ thread'.at = "report"))
                   /\ NotifyUnchanged /\ UNCHANGED <<pending, iPipelineState, client>>
                \/ /\ SetPipelineState(thread)
                   /\ thread' = Idle
                   /\ NotifyUnchanged /\ UNCHANGED <<iLastReportedState, client, overlapped>>

-----------------------------------------------------------------------------
(* The event thread.                                                       *)

Take(element) == /\ thread = Idle /\ element \in pending
                 /\ pending' = pending \ {element}
                 /\ UNCHANGED <<client, overlapped, iQuitting, iLastReportedState, iPipelineState>>

NotifyNext == [at |-> "notify", state |-> None]

(* Stopper::ReportEvent exchanges iEventState, then calls Pipeline. *)
TakeStopper == /\ Take("Stopper")
               /\ S!ReportEvent
               /\ thread' = [at |-> "set", state |-> iEventState]
               /\ UNCHANGED <<iEventWaiting, iEventBuffering, lastRaised, iLastEventBuffering,
                              iState, iWaiting, iBuffering, iPrevPipelineState>>

(* Fault: an event that arrives during a client's call is dropped. *)
SetStateUnlessBusy == /\ thread.at = "set"
                      /\ iState' = IF client = Idle THEN thread.state ELSE iState
                      /\ thread' = NotifyNext
                      /\ UNCHANGED <<elements, pending, iLastEventBuffering, iWaiting, iBuffering,
                                     iQuitting, iLastReportedState, reporter, client, overlapped>>

(* Fault: the new state is not notified. *)
SetStateQuiet == /\ thread.at = "set"
                 /\ iState' = thread.state
                 /\ thread' = Idle
                 /\ UNCHANGED <<elements, pending, iLastEventBuffering, iWaiting, iBuffering,
                                iQuitting, iLastReportedState, reporter, client, overlapped>>

(* PipelinePlaying, PipelinePaused, PipelineStopped *)
SetState == /\ thread.at = "set"
            /\ iState' = thread.state
            /\ thread' = NotifyNext
            /\ UNCHANGED <<elements, pending, iLastEventBuffering, iWaiting, iBuffering, iQuitting,
                           iLastReportedState, reporter, client, overlapped>>

(* Waiter::ReportEvent, PipelineWaiting *)
TakeWaiter == /\ Take("Waiter")
              /\ iWaiting' = iEventWaiting
              /\ thread' = NotifyNext
              /\ UNCHANGED <<elements, iLastEventBuffering, iState, iBuffering, iPrevPipelineState>>

(* StarvationRamper::EventCallback, NotifyStarvationRamperBuffering *)
TakeBuffering ==
    /\ Take("StarvationRamper")
    /\ iBuffering' = iEventBuffering
    /\ iLastEventBuffering' = iEventBuffering
    /\ thread' = IF iEventBuffering # iLastEventBuffering /\ iState = "Playing"
                 THEN NotifyNext ELSE Idle
    /\ UNCHANGED <<elements, iState, iWaiting, iPrevPipelineState>>

(* Reporter::EventCallback *)
TellObservers == /\ Take("Reporter")
                 /\ iPrevPipelineState' = iPipelineState
                 /\ UNCHANGED <<elements, iLastEventBuffering, iState, iWaiting, iBuffering, thread>>

Client == Play \/ ClientNotify
EventThread == SetState \/ ThreadNotify \/ TakeStopper \/ TakeWaiter \/ TakeBuffering \/ TellObservers

Next == \/ Pull
        \/ \E b \in BOOLEAN : RaiseWaiting(b) \/ SetBuffering(b)
        \/ \E quit \in BOOLEAN : BeginPlay(quit)
        \/ Pause \/ Stop
        \/ Client
        \/ EventThread

Spec == Init /\ [][Next]_vars

(* The event thread walks its callbacks in turn, so one that is due is not *)
(* passed over for ever, however often the others are; a client that has   *)
(* begun to play goes on.                                                  *)
FairSpec == /\ Spec
            /\ WF_vars(Client) /\ WF_vars(SetState \/ ThreadNotify)
            /\ SF_vars(TakeStopper) /\ SF_vars(TakeWaiter) /\ SF_vars(TakeBuffering)
            /\ SF_vars(TellObservers)

-----------------------------------------------------------------------------
TypeOK == /\ halted \in S!Halts \union {"no"}
          /\ iEventState \in S!Raised \union {None} /\ lastRaised \in S!Raised
          /\ iEventWaiting \in BOOLEAN /\ iEventBuffering \in BOOLEAN
          /\ iLastEventBuffering \in BOOLEAN
          /\ pending \subseteq Observed
          /\ iState \in Internal /\ iWaiting \in BOOLEAN /\ iBuffering \in BOOLEAN
          /\ iQuitting \in BOOLEAN /\ iLastReportedState \in Reported \union {None}
          /\ iPipelineState \in Reported /\ iPrevPipelineState \in Reported \union {None}
          /\ client \in [at : Calls, state : Reported \union {None}]
          /\ thread \in [at : Calls, state : Reported \union {None}]
          /\ overlapped \in BOOLEAN

StopperSettled == /\ "Stopper" \notin pending /\ thread.at # "set"
                  /\ client.at # "play"

(* Though a client sets iState as well as the event thread, and events     *)
(* overwrite each other, the last event that Stopper raised decides.       *)
StateIsLastEvent == StopperSettled => iState = lastRaised

Settled == pending = {} /\ thread = Idle /\ client = Idle

(* What the elements have said. *)
Raised == IF lastRaised # "Playing" THEN lastRaised
          ELSE IF iEventWaiting THEN "Waiting"
          ELSE IF iEventBuffering THEN "Buffering" ELSE "Playing"

HasReported == iLastReportedState # None /\ ~iQuitting

(* What observers know last is what the elements have said...              *)
ObserversUpToDate == Settled /\ HasReported => iPrevPipelineState = Raised

(* ... unless a client and the event thread have reported at the same      *)
(* time, which is the only way it goes wrong.                              *)
UpToDateUnlessOverlapped == ~overlapped => ObserversUpToDate

(* "All state changes are guaranteed to take effect" (PipelineObserver.h:31): *)
(* a state the pipeline stays in is made known, however often the same     *)
(* things are reported meanwhile.                                          *)
Known == HasReported /\ ~overlapped => iPrevPipelineState = Raised
StatesTakeEffect == <>[][UNCHANGED Raised]_vars => <>[]Known
=============================================================================
