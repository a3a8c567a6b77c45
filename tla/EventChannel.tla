---------------------------- MODULE EventChannel ----------------------------
(***************************************************************************)
(* What PipelineElementObserverThread promises the elements of the         *)
(* pipeline: "the callback is guaranteed to be called at least once"       *)
(* (Media/Pipeline/ElementObserver.h:18) after each change an element      *)
(* schedules it for.  Changes are numbered; a callback that runs sees the  *)
(* latest one, so changes may be merged but the last one is never missed.  *)
(***************************************************************************)
EXTENDS Naturals

CONSTANTS Ids       \* callbacks are registered as 1 .. Ids

VARIABLES stored,   \* changes each element has made
          seen      \* the latest of them its callback has been run for

channel == <<stored, seen>>

Init == /\ stored = [id \in 1 .. Ids |-> 0]
        /\ seen = [id \in 1 .. Ids |-> 0]

Change(id) == /\ stored' = [stored EXCEPT ![id] = @ + 1]
              /\ UNCHANGED seen

Report(id) == /\ seen[id] # stored[id]
              /\ seen' = [seen EXCEPT ![id] = stored[id]]
              /\ UNCHANGED stored

Next == \E id \in 1 .. Ids : Change(id) \/ Report(id)

Safe == Init /\ [][Next]_channel
Spec == Safe /\ \A id \in 1 .. Ids : WF_channel(Report(id))
=============================================================================
