--------------------------- MODULE StopperEvents ---------------------------
(***************************************************************************)
(* What the rest of the pipeline sees of Stopper: whether Pull() is held   *)
(* up, and the event that waits to be reported, of which only the latest   *)
(* is kept.  Stopper implements it (Stopper!ImplementsEvents).             *)
(***************************************************************************)
VARIABLES halted,       \* "no", or why Pull() blocks
          iEventState   \* raised by Stopper, not yet taken by the event thread

events == <<halted, iEventState>>

Halts == {"Paused", "Stopped"}
Raised == {"Playing"} \union Halts

Init == halted = "no" /\ iEventState = "None"

Raise(e) == iEventState' = e

(* Pull() stops at its next call; whoever makes it stop says so. *)
Halt(h) == halted' = h /\ Raise(h)

Play == halted' = "no" /\ Raise("Playing")

(* Effective at once, or only when a ramp has ended. *)
BeginPause == Halt("Paused") \/ UNCHANGED events

(* A paused pipeline first discards the rest of its stream. *)
BeginStop == \/ Halt("Stopped")
             \/ halted = "Paused" /\ halted' = "no" /\ UNCHANGED iEventState
             \/ UNCHANGED events

Quit == Play

(* A message is pulled, or audio runs out. *)
Pull == \/ \E h \in Halts : Halt(h)                        \* end of a ramp, halt, or not yet
        \/ UNCHANGED halted /\ Raise("Playing")             \* a stream that may play
        \/ halted' = "no" /\ \E e \in {iEventState, "Playing", "Stopped"} : Raise(e)  \* another stream

(* The event thread takes the event. *)
ReportEvent == /\ iEventState # "None"
               /\ Raise("None")
               /\ UNCHANGED halted

Next == Play \/ BeginPause \/ BeginStop \/ Quit \/ Pull \/ ReportEvent

Spec == Init /\ [][Next]_events
=============================================================================
