------------------------------- MODULE Flusher -------------------------------
(***************************************************************************)
(* Flusher (Media/Pipeline/Flusher.cpp): discards what it pulls until the  *)
(* MsgHalt or MsgFlush it was told to wait for.  Skipper owns one and      *)
(* calls it from two sides: Pull() on the puller, DiscardUntilHalt and     *)
(* DiscardUntilFlush on whichever thread removes a stream.  Each runs      *)
(* under its iLock, so each is an operator on its members.                 *)
(***************************************************************************)
EXTENDS Naturals

CONSTANTS MaxHalts,     \* bound on the MsgHalt ids handed out
          MaxFlushes    \* bound on the MsgFlush ids handed out

ASSUME IdAssumption == MaxHalts \in Nat /\ MaxFlushes \in Nat

HaltNone == 0                    \* MsgHalt::kIdNone
HaltInvalid == MaxHalts + 1      \* MsgHalt::kIdInvalid
FlushInvalid == 0                \* MsgFlush::kIdInvalid
Halts == 1 .. MaxHalts
Flushes == 1 .. MaxFlushes

Plain == {"Mode", "Drain", "Quit"}
Flushable == {"Track", "TrackMidStream", "Encoded", "Interrupted", "Wait", "Decoded", "Audio", "Silence"}
Msg(kind, n) == [kind |-> kind, n |-> n]        \* n: an id, or a length
MetaText == Msg("MetaText", 0)

FlusherMembers == [iTargetHaltId : Halts \union {HaltInvalid}, iTargetFlushId : Flushes \union {FlushInvalid},
                   iLastHaltId : Halts \union {HaltInvalid}, iLastFlushId : Flushes \union {FlushInvalid},
                   iPendingMetatext : BOOLEAN]

NewFlusher == [iTargetHaltId |-> HaltInvalid, iTargetFlushId |-> FlushInvalid,
               iLastHaltId |-> HaltInvalid, iLastFlushId |-> FlushInvalid, iPendingMetatext |-> FALSE]

(* A halt that has been pulled already is not waited for. *)
DiscardUntilHaltUnchecked(f, id) == [f EXCEPT !.iTargetHaltId = id]
DiscardUntilHalt(f, id) ==
    IF f.iLastHaltId = HaltInvalid \/ f.iLastHaltId < id THEN [f EXCEPT !.iTargetHaltId = id] ELSE f

DiscardUntilFlush(f, id) ==
    IF f.iLastFlushId = FlushInvalid \/ f.iLastFlushId < id THEN [f EXCEPT !.iTargetFlushId = id] ELSE f

IsFlushing(f) == f.iTargetHaltId # HaltInvalid \/ f.iTargetFlushId # FlushInvalid

(* ProcessMsg returns nullptr: the message is discarded or held back. *)
Discards(f, m) == IsFlushing(f) /\ m.kind \in Flushable \union {"MetaText"}

(* What ProcessMsg leaves behind.  The text held back is that of the last  *)
(* stream discarded; the start of a track drops it.                        *)
Processed(f, m) ==
    CASE m.kind = "Halt" /\ m.n # HaltNone ->
           [f EXCEPT !.iLastHaltId = m.n, !.iTargetHaltId = IF @ = m.n THEN HaltInvalid ELSE @]
      [] m.kind = "Flush" ->
           [f EXCEPT !.iLastFlushId = m.n, !.iTargetFlushId = IF @ = m.n THEN FlushInvalid ELSE @]
      [] m.kind = "MetaText" /\ IsFlushing(f) -> [f EXCEPT !.iPendingMetatext = TRUE]
      [] m.kind = "Track" /\ IsFlushing(f) -> [f EXCEPT !.iPendingMetatext = FALSE]
      [] OTHER -> f
=============================================================================
