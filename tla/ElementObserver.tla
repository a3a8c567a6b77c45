-------------------------- MODULE ElementObserver --------------------------
(***************************************************************************)
(* PipelineElementObserverThread (Media/Pipeline/ElementObserver.cpp): one *)
(* thread runs the callbacks of all pipeline elements, so that observers   *)
(* cannot hold up the messages.  No lock is taken: an element stores what  *)
(* has changed, marks its callback pending and signals the thread, each an *)
(* atomic step of its own, while the thread walks the list of callbacks.   *)
(* Names keep clear of those of PipelineState, which sees this thread from *)
(* outside: Events_proofs is about both.                                   *)
(***************************************************************************)
EXTENDS Naturals

CONSTANTS Ids,          \* callbacks are registered as 1 .. Ids
          Producers,    \* threads that call Schedule()
          MaxChanges    \* bound on the changes of each element

ASSUME IdsAssumption == Ids \in Nat /\ MaxChanges \in Nat

VARIABLES
    stored,     \* changes stored by each element, numbered
    seen,       \* the latest of them its callback has been run for
    iPending,   \* Callback::iPending
    signals,    \* count of the thread's semaphore
    at,         \* callback the thread is at; 0 while it waits
    running,    \* RunIfPending() has found it pending and calls it
    scheduling  \* where each producer is: the id it schedules and what is next

observer == <<stored, seen, iPending, signals, at, running, scheduling>>

Callbacks == 1 .. Ids
NotScheduling == [id |-> 0, next |-> "none"]
Places == {NotScheduling} \union [id : Callbacks, next : {"SetPending", "Signal"}]

ObserverInit == /\ stored = [id \in Callbacks |-> 0]
                /\ seen = [id \in Callbacks |-> 0]
                /\ iPending = [id \in Callbacks |-> FALSE]
                /\ signals = 0 /\ at = 0 /\ running = FALSE
                /\ scheduling = [p \in Producers |-> NotScheduling]

place == <<at, running>>

(* An element stores what has changed and calls Schedule(). *)
Change(p, id) == /\ scheduling[p] = NotScheduling
                 /\ stored[id] < MaxChanges
                 /\ stored' = [stored EXCEPT ![id] = @ + 1]
                 /\ scheduling' = [scheduling EXCEPT ![p] = [id |-> id, next |-> "SetPending"]]
                 /\ UNCHANGED <<seen, iPending, signals, place>>

SetPending(p) == /\ scheduling[p].next = "SetPending"
                 /\ iPending' = [iPending EXCEPT ![scheduling[p].id] = TRUE]
                 /\ scheduling' = [scheduling EXCEPT ![p].next = "Signal"]
                 /\ UNCHANGED <<stored, seen, signals, place>>

(* Fault: signals only a thread that waits. *)
SignalIfWaiting(p) == /\ scheduling[p].next = "Signal"
                      /\ signals' = IF at = 0 THEN signals + 1 ELSE signals
                      /\ scheduling' = [scheduling EXCEPT ![p] = NotScheduling]
                      /\ UNCHANGED <<stored, seen, iPending, place>>

Signal(p) == /\ scheduling[p].next = "Signal"
             /\ signals' = signals + 1
             /\ scheduling' = [scheduling EXCEPT ![p] = NotScheduling]
             /\ UNCHANGED <<stored, seen, iPending, place>>

Wake == /\ at = 0 /\ signals > 0 /\ Ids > 0
        /\ signals' = signals - 1
        /\ at' = 1
        /\ UNCHANGED <<stored, seen, iPending, running, scheduling>>

MoveOn == at' = IF at = Ids THEN 0 ELSE at + 1

(* Fault: one flag for all callbacks. *)
RunClearsAll == /\ at # 0 /\ ~running
                /\ running' = iPending[at]
                /\ IF iPending[at]
                   THEN iPending' = [id \in Callbacks |-> FALSE] /\ UNCHANGED at
                   ELSE MoveOn /\ UNCHANGED iPending
                /\ UNCHANGED <<stored, seen, signals, scheduling>>

(* RunIfPending() exchanges iPending for false before it calls. *)
RunIfPending == /\ at # 0 /\ ~running
                /\ running' = iPending[at]
                /\ iPending' = [iPending EXCEPT ![at] = FALSE]
                /\ IF iPending[at] THEN UNCHANGED at ELSE MoveOn
                /\ UNCHANGED <<stored, seen, signals, scheduling>>

(* The callback loads what its element has stored. *)
Call == /\ running
        /\ seen' = [seen EXCEPT ![at] = stored[at]]
        /\ running' = FALSE /\ MoveOn
        /\ UNCHANGED <<stored, iPending, signals, scheduling>>

Schedule(p) == SetPending(p) \/ Signal(p)
RunCallbacks == Wake \/ RunIfPending \/ Call

ObserverNext == \/ \E p \in Producers, id \in Callbacks : Change(p, id)
                \/ \E p \in Producers : Schedule(p)
                \/ RunCallbacks

ObserverSpec == ObserverInit /\ [][ObserverNext]_observer

(* A thread that has begun to schedule goes on, and so does the event thread. *)
FairObserverSpec == /\ ObserverSpec /\ WF_observer(RunCallbacks)
                    /\ \A p \in Producers : WF_observer(Schedule(p))

-----------------------------------------------------------------------------
ObserverTypeOK == /\ stored \in [Callbacks -> Nat] /\ seen \in [Callbacks -> Nat]
                  /\ iPending \in [Callbacks -> BOOLEAN]
                  /\ signals \in Nat /\ at \in 0 .. Ids /\ running \in BOOLEAN
                  /\ scheduling \in [Producers -> Places]

(* When the event thread sleeps and nobody is scheduling, every observer   *)
(* has been told the latest change of its element.                         *)
NothingForgotten ==
    at = 0 /\ signals = 0 /\ (\A p \in Producers : scheduling[p] = NotScheduling)
        => \A id \in Callbacks : seen[id] = stored[id]

Channel == INSTANCE EventChannel

(* "the callback is guaranteed to be called at least once"                 *)
(* (ElementObserver.h:18): no change is reported before it is made, and    *)
(* the last one is always reported.                                        *)
ImplementsChannel == Channel!Spec
=============================================================================
