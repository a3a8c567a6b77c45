---------------------------- MODULE HaltPromises ----------------------------
(***************************************************************************)
(* What the Filler promises to the elements that wait for a MsgHalt by id: *)
(* an id is promised before it is pushed, the same one is promised again   *)
(* until it is, and each is pushed once, in the order they were promised.  *)
(***************************************************************************)
EXTENDS Naturals

VARIABLES promised,    \* the last id Stop() or Flush() returned
          delivered    \* the id of the last MsgHalt pushed

promiseVars == <<promised, delivered>>

Init == promised = delivered /\ promised \in Nat

Promise == /\ promised = delivered
           /\ promised' = promised + 1
           /\ UNCHANGED delivered

Deliver == /\ delivered < promised
           /\ delivered' = promised
           /\ UNCHANGED promised

Next == Promise \/ Deliver

Spec == Init /\ [][Next]_promiseVars
=============================================================================
