---------------------------- MODULE MCIdManager ----------------------------
(* A ring of four slots (three live entries): every wrap-around, shuffle   *)
(* over the end of the array and full ring happens within a few calls.     *)
EXTENDS IdManager, TLC

(* No operation reads a slot outside the live part of the ring before      *)
(* writing it, so states that differ only there are the same state.        *)
LiveView == <<Pending, iIndexHead, iPlaying, iNextStreamId, lastAnnounced, answer>>

(* Track ids are only ever compared for equality. *)
Symmetry == Permutations(Tracks)
=============================================================================
