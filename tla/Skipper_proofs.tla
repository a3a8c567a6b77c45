--------------------------- MODULE Skipper_proofs ---------------------------
(***************************************************************************)
(* Skipper and its Flusher never wait for a halt or a flush that has been  *)
(* pulled already, for any number of streams, halts and flushes and any    *)
(* lengths of ramps and messages.                                          *)
(*                                                                         *)
(* A flush or halt id, from when it is handed out, is either still to be   *)
(* pulled or no later than the last one the Flusher has seen; both come in *)
(* the order they are handed out.  So an id the Flusher is told late, and  *)
(* does not reject, is still to come.                                      *)
(*                                                                         *)
(* From that follow two more: whatever is cut off is announced by a halt   *)
(* (HeardInv), and a removal of everything keeps hold until its halt       *)
(* (ToldOfTarget).                                                         *)
(***************************************************************************)
EXTENDS Skipper, TLAPS

(* Halts come in order; the Flusher knows the last one.                    *)
HaltsInOrder ==
    /\ source.pulled <= source.halts
    /\ flusher.iLastHaltId = IF source.pulled = 0 THEN HaltInvalid ELSE source.pulled
    /\ msg.kind = "Halt" => msg.n <= source.pulled

(* A protocol promises a flush only while it streams, and an id is left.   *)
PromisesKept ==
    /\ source.owed # FlushInvalid => source.streaming /\ source.owed = source.flushes
    /\ source.stopping => source.owed # FlushInvalid
    /\ source.streaming /\ ~source.stopping => source.flushes < MaxFlushes

(* Flushes come in order after the last one the Flusher has seen.          *)
FlushesInOrder ==
    /\ flusher.iLastFlushId <= source.flushes
    /\ source.owed # FlushInvalid => flusher.iLastFlushId < source.owed
    /\ \A i \in DOMAIN source.sent :
          /\ flusher.iLastFlushId < source.sent[i] /\ source.sent[i] <= source.flushes
          /\ source.owed # FlushInvalid => source.sent[i] < source.owed
          /\ \A j \in DOMAIN source.sent : i < j => source.sent[i] < source.sent[j]

(* What the Flusher has yet to be told has been handed out.                *)
DiscardKnown ==
    /\ discard.kind = "Halt" => discard.n <= source.halts
    /\ discard.kind = "Flush" => discard.n <= flusher.iLastFlushId \/ discard.n \in FlushesToPull

(* As long as iBlocker is held, the halt handed out is not processed.      *)
RemoverAhead ==
    remover # HaltInvalid => remover \in HaltsToPull \/ msg = Msg("Halt", remover)

SourceInv == HaltsInOrder /\ PromisesKept /\ FlushesInOrder
TargetInv == FlusherTargetsAhead /\ SkipperTargetsAhead /\ DiscardKnown /\ RemoverAhead
IInv == TypeOK /\ SourceInv /\ TargetInv

-----------------------------------------------------------------------------
(* The protocol.                                                           *)

(* Telling the protocol to stop yields no flush, the one it owes, or the   *)
(* next one; either way it is still to be pulled.                          *)
LEMMA StoppingKeeps ==
    ASSUME TypeOK, SourceInv, NEW id,
           NEW src \in Sources, src = [source EXCEPT !.phase = src.phase],
           source' = Stopping(src, id),
           UNCHANGED <<flusher.iLastHaltId, flusher.iLastFlushId>>,
           msg'.kind = "Halt" => msg' = msg
    PROVE  /\ source' \in Sources
           /\ SourceInv'
           /\ FlushesToPull \subseteq FlushesToPull'
           /\ source'.halts = source.halts /\ source'.pulled = source.pulled
           /\ Promised(src, id) \in Flushes \union {FlushInvalid}
           /\ Promised(src, id) # FlushInvalid => Promised(src, id) \in FlushesToPull'
<1> DEFINE p == Promised(src, id)
<1>1. source \in Sources /\ flusher \in FlusherMembers
  BY DEF TypeOK
<1>2. /\ src.owed = source.owed /\ src.stopping = source.stopping /\ src.flushes = source.flushes
      /\ src.streaming = source.streaming /\ src.sent = source.sent /\ src.halts = source.halts
      /\ src.pulled = source.pulled
  BY <1>1 DEF Sources
<1>3. HaltsInOrder /\ PromisesKept /\ FlushesInOrder
  BY DEF SourceInv
<1>6. CASE p = FlushInvalid
  <2>1. source' = src
    BY <1>6 DEF Stopping
  <2>2. HaltsInOrder' /\ PromisesKept'
    BY <2>1, <1>2, <1>3 DEF HaltsInOrder, PromisesKept
  <2>3. FlushesInOrder'
    BY <2>1, <1>2, <1>3 DEF FlushesInOrder
  <2>4. FlushesToPull' = FlushesToPull
    BY <2>1, <1>2 DEF FlushesToPull, SentFlushes
  <2> QED BY <1>2, <1>6, <2>1, <2>2, <2>3, <2>4 DEF SourceInv
<1>7. CASE p # FlushInvalid
  <2>1. src.streaming /\ p = IF src.owed # FlushInvalid THEN src.owed ELSE src.flushes + 1
    BY <1>7 DEF Promised
  <2>2. src.flushes \in 0 .. MaxFlushes /\ src.owed \in Flushes \union {FlushInvalid}
    BY DEF Sources
  <2>3. p \in Flushes
    BY <2>1, <2>2, <1>2, <1>3, <1>7, IdAssumption DEF PromisesKept, Flushes
  <2>4. source' = [src EXCEPT !.owed = p, !.stopping = TRUE, !.flushes = p]
    BY ZenonT(30), <1>2, <1>3, <1>7, <2>1, <2>2 DEF Stopping, PromisesKept, Sources
  <2>5. /\ source'.owed = p /\ source'.stopping /\ source'.flushes = p /\ source'.streaming
        /\ source'.sent = source.sent /\ source'.halts = source.halts /\ source'.pulled = source.pulled
    BY <1>2, <2>1, <2>4 DEF Sources
  <2>6. source' \in Sources
    <3>1. p \in 0 .. MaxFlushes
      BY <2>3, IdAssumption DEF Flushes
    <3> HIDE DEF p
    <3> QED BY <2>3, <2>4, <3>1 DEF Sources
  <2>7. HaltsInOrder'
    BY <2>5, <1>3 DEF HaltsInOrder
  <2>8. PromisesKept'
    BY <2>5, <1>7 DEF PromisesKept
  <2>9. /\ source.flushes <= p /\ flusher.iLastFlushId < p
        /\ \A i \in DOMAIN source.sent : source.sent[i] < p
    <3>1. flusher.iLastFlushId \in Nat /\ source.flushes \in Nat
      BY <1>1, <1>2, <2>2, IdAssumption DEF FlusherMembers, Flushes, FlushInvalid
    <3>2. \A i \in DOMAIN source.sent : source.sent[i] \in Nat
      BY SMTT(20), <1>1, IdAssumption DEF Sources, Flushes
    <3> QED BY <1>2, <1>3, <3>1, <3>2, <2>1 DEF PromisesKept, FlushesInOrder
  <2>10. FlushesInOrder'
    <3>1. p \in Nat /\ flusher.iLastFlushId \in Nat
      BY <1>1, <2>3, IdAssumption DEF FlusherMembers, Flushes, FlushInvalid
    <3>2. \A i \in DOMAIN source.sent : source.sent[i] \in Nat
      BY SMTT(20), <1>1, IdAssumption DEF Sources, Flushes
    <3> HIDE DEF p
    <3> QED BY <1>3, <2>5, <2>9, <3>1, <3>2 DEF FlushesInOrder
  <2>11. FlushesToPull \subseteq FlushesToPull' /\ p \in FlushesToPull'
    BY <1>2, <2>1, <2>5, <1>7 DEF FlushesToPull, SentFlushes
  <2> QED BY <2>3, <2>5, <2>6, <2>7, <2>8, <2>10, <2>11 DEF SourceInv
<1> QED BY <1>6, <1>7

-----------------------------------------------------------------------------
(* The Flusher.                                                            *)
Targets == {NoTarget} \union {Msg("Halt", n) : n \in Halts} \union {Msg("Flush", n) : n \in Flushes}

LEMMA ToldKeepsLast ==
    ASSUME NEW f \in FlusherMembers, NEW t
    PROVE  /\ Told(f, t).iLastHaltId = f.iLastHaltId /\ Told(f, t).iLastFlushId = f.iLastFlushId
           /\ t \in Targets => Told(f, t) \in FlusherMembers
<1>1. /\ Told(f, t).iLastHaltId = f.iLastHaltId /\ Told(f, t).iLastFlushId = f.iLastFlushId
  BY DEF FlusherMembers, Told, DiscardUntilHalt, DiscardUntilFlush
<1>2. ASSUME t \in Targets PROVE Told(f, t) \in FlusherMembers
  BY <1>2 DEF FlusherMembers, Targets, NoTarget, Msg, Told, DiscardUntilHalt, DiscardUntilFlush
<1> QED BY <1>1, <1>2

(* An id that has been handed out, and that the Flusher accepts, is still  *)
(* to be pulled.                                                           *)
LEMMA ToldAhead ==
    ASSUME TypeOK, SourceInv, FlusherTargetsAhead, NEW t \in Targets,
           flusher' = Told(flusher, t), source' \in Sources,
           FlushesToPull \subseteq FlushesToPull',
           source'.halts = source.halts, source'.pulled = source.pulled,
           t.kind = "Halt" => t.n <= source.halts,
           t.kind = "Flush" => t.n <= flusher.iLastFlushId \/ t.n \in FlushesToPull'
    PROVE  FlusherTargetsAhead'
<1>1. source \in Sources /\ flusher \in FlusherMembers
  BY DEF TypeOK
<1>2. HaltsToPull' = HaltsToPull
  BY DEF HaltsToPull
<1>3. CASE t.kind = "Halt"
  <2>1. t.n \in Halts /\ flusher' = DiscardUntilHalt(flusher, t.n)
    BY <1>3 DEF Targets, NoTarget, Msg, Told
  <2>2. flusher'.iTargetFlushId = flusher.iTargetFlushId
    BY <1>1, <2>1 DEF DiscardUntilHalt, FlusherMembers
  <2>3. CASE flusher.iLastHaltId = HaltInvalid \/ flusher.iLastHaltId < t.n
    <3>1. flusher'.iTargetHaltId = t.n
      BY <1>1, <2>1, <2>3 DEF DiscardUntilHalt, FlusherMembers
    <3>2. source.pulled \in 0 .. MaxHalts /\ source.halts \in 0 .. MaxHalts /\ t.n \in 1 .. MaxHalts
      BY <1>1, <2>1 DEF Sources, Halts
    <3>3. source.pulled < t.n
      BY <2>3, <3>2, IdAssumption DEF SourceInv, HaltsInOrder, HaltInvalid
    <3>4. t.n \in HaltsToPull
      BY <1>3, <3>2, <3>3, IdAssumption DEF HaltsToPull
    <3> QED BY <1>2, <2>2, <3>1, <3>4 DEF FlusherTargetsAhead
  <2>4. CASE ~(flusher.iLastHaltId = HaltInvalid \/ flusher.iLastHaltId < t.n)
    BY <1>2, <2>1, <2>4 DEF DiscardUntilHalt, FlusherTargetsAhead
  <2> QED BY <2>3, <2>4
<1>4. CASE t.kind = "Flush"
  <2>1. t.n \in Flushes /\ flusher' = DiscardUntilFlush(flusher, t.n)
    BY <1>4 DEF Targets, NoTarget, Msg, Told
  <2>2. flusher'.iTargetHaltId = flusher.iTargetHaltId
    BY <1>1, <2>1 DEF DiscardUntilFlush, FlusherMembers
  <2>3. CASE flusher.iLastFlushId = FlushInvalid \/ flusher.iLastFlushId < t.n
    <3>1. flusher'.iTargetFlushId = t.n
      BY <1>1, <2>1, <2>3 DEF DiscardUntilFlush, FlusherMembers
    <3>2. flusher.iLastFlushId \in 0 .. MaxFlushes /\ t.n \in 1 .. MaxFlushes
      BY <1>1, <2>1, IdAssumption DEF FlusherMembers, Flushes, FlushInvalid
    <3>3. t.n \in FlushesToPull'
      BY <1>4, <2>3, <3>2, IdAssumption DEF FlushInvalid
    <3> QED BY <1>2, <2>2, <3>1, <3>3 DEF FlusherTargetsAhead
  <2>4. CASE ~(flusher.iLastFlushId = FlushInvalid \/ flusher.iLastFlushId < t.n)
    BY <1>2, <2>1, <2>4 DEF DiscardUntilFlush, FlusherTargetsAhead
  <2> QED BY <2>3, <2>4
<1>5. CASE t = NoTarget
  BY <1>2, <1>5 DEF Told, NoTarget, Msg, FlusherTargetsAhead
<1> QED BY <1>3, <1>4, <1>5 DEF Targets, Msg

-----------------------------------------------------------------------------
(* Skipper starts to flush, on whichever thread.                           *)

(* The halt Skipper waits for, if any, has been handed out.                *)
LEMMA TargetHandedOut ==
    ASSUME TypeOK, SourceInv, NEW n \in Halts, n \in HaltsToPull \/ msg = Msg("Halt", n)
    PROVE  n <= source.halts
<1>1. source.pulled \in Nat /\ source.halts \in Nat /\ n \in Nat
  BY IdAssumption DEF TypeOK, Sources, Halts
<1>2. CASE n \in HaltsToPull
  BY <1>1, <1>2 DEF HaltsToPull
<1>3. CASE msg = Msg("Halt", n)
  BY <1>1, <1>3 DEF Msg, SourceInv, HaltsInOrder
<1> QED BY <1>2, <1>3

LEMMA FlushingStarts ==
    ASSUME TypeOK, SourceInv, FlusherTargetsAhead,
           NEW s \in Members, NEW generateHalt \in BOOLEAN,
           NEW after, after = StartFlushing(s, generateHalt),
           s.iTargetHaltId # HaltInvalid => s.iTargetHaltId <= source.halts,
           source' = Stopping(source, s.iStreamId),
           UNCHANGED <<flusher.iLastHaltId, flusher.iLastFlushId>>,
           msg' \in {msg, NoMsg}
    PROVE  /\ after \in Members /\ source' \in Sources /\ SourceInv'
           /\ after.iTargetHaltId = s.iTargetHaltId
           /\ after.iTargetFlushId # FlushInvalid => after.iTargetFlushId \in FlushesToPull'
           /\ Target(after) \in Targets
           /\ Target(after).kind = "Halt" => Target(after).n <= source.halts
           /\ Target(after).kind = "Flush" => Target(after).n \in FlushesToPull'
           /\ FlushesToPull \subseteq FlushesToPull'
           /\ source'.halts = source.halts /\ source'.pulled = source.pulled
<1>1. source \in Sources /\ source = [source EXCEPT !.phase = source.phase]
  BY DEF TypeOK, Sources
<1>2. /\ source' \in Sources /\ SourceInv'
      /\ FlushesToPull \subseteq FlushesToPull'
      /\ source'.halts = source.halts /\ source'.pulled = source.pulled
      /\ Promised(source, s.iStreamId) \in Flushes \union {FlushInvalid}
      /\ Promised(source, s.iStreamId) # FlushInvalid => Promised(source, s.iStreamId) \in FlushesToPull'
  <2>1. msg'.kind = "Halt" => msg' = msg
    BY DEF NoMsg, Msg
  <2> QED BY <1>1, <2>1, StoppingKeeps
<1>3. /\ after \in Members /\ after.iTargetHaltId = s.iTargetHaltId
      /\ after.iTargetFlushId = Promised(source, s.iStreamId)
  <2> DEFINE p == Promised(source, s.iStreamId)
  <2>1. p \in Flushes \union {FlushInvalid}
    BY <1>2
  <2>2. after = [s EXCEPT !.iHaltPending = s.iHaltPending \/ generateHalt, !.iState = eFlushing,
                             !.iTargetFlushId = p]
    BY DEF StartFlushing, Members
  <2>3. s.iHaltPending \/ generateHalt \in BOOLEAN
    BY DEF Members
  <2> DEFINE h == s.iHaltPending \/ generateHalt
  <2> HIDE DEF p, h
  <2>4. after = [s EXCEPT !.iHaltPending = h, !.iState = eFlushing, !.iTargetFlushId = p] /\ h \in BOOLEAN
    BY <2>2, <2>3 DEF h
  <2>5. after \in Members /\ after.iTargetHaltId = s.iTargetHaltId /\ after.iTargetFlushId = p
    BY <2>1, <2>4 DEF Members, eFlushing
  <2> QED BY <2>5 DEF p
<1>4. after.iTargetFlushId # FlushInvalid => after.iTargetFlushId \in FlushesToPull'
  BY <1>2, <1>3
<1>5. /\ Target(after) \in Targets
      /\ Target(after).kind = "Halt" => Target(after).n <= source.halts
      /\ Target(after).kind = "Flush" => Target(after).n \in FlushesToPull'
  <2>1. CASE after.iTargetHaltId # HaltInvalid
    <3>1. Target(after) = Msg("Halt", after.iTargetHaltId) /\ after.iTargetHaltId \in Halts
      BY <1>3, <2>1 DEF Target, Members
    <3> QED BY <3>1, <2>1, <1>3 DEF Targets, Msg
  <2>2. CASE after.iTargetHaltId = HaltInvalid /\ after.iTargetFlushId # FlushInvalid
    <3>1. Target(after) = Msg("Flush", after.iTargetFlushId) /\ after.iTargetFlushId \in Flushes
      BY <1>3, <2>2 DEF Target, Members
    <3> QED BY <3>1, <2>2, <1>4 DEF Targets, Msg
  <2>3. CASE after.iTargetHaltId = HaltInvalid /\ after.iTargetFlushId = FlushInvalid
    BY <2>3 DEF Target, Targets, NoTarget, Msg
  <2> QED BY <2>1, <2>2, <2>3
<1> QED BY <1>2, <1>3, <1>4, <1>5

-----------------------------------------------------------------------------
(* What the parts of the type invariant say, one variable at a time.       *)
Places == {"top", "flush", "process"}
Lines == {"silent", "audible", "gap", "glitch"}

LEMMA TypeParts ==
    TypeOK <=> /\ skipper \in Members /\ flusher \in FlusherMembers /\ pc \in Places
               /\ msg \in UpstreamMsgs \union {NoMsg} /\ discard \in Targets
               /\ remover \in Halts \union {HaltInvalid} /\ source \in Sources /\ line \in Lines
  BY DEF TypeOK, Targets, Places, Lines

(* Halts and flushes still to be pulled do not go away when nothing is     *)
(* pulled, and then the targets stay ahead.                                *)
LEMMA AheadKept ==
    ASSUME SkipperTargetsAhead, RemoverAhead,
           FlushesToPull \subseteq FlushesToPull', HaltsToPull \subseteq HaltsToPull', UNCHANGED msg
    PROVE  /\ (/\ skipper'.iTargetHaltId \in {skipper.iTargetHaltId, HaltInvalid}
               /\ skipper'.iTargetFlushId \in {skipper.iTargetFlushId, FlushInvalid}) => SkipperTargetsAhead'
           /\ remover' \in {remover, HaltInvalid} => RemoverAhead'
  BY DEF SkipperTargetsAhead, RemoverAhead

(* A step of Skipper alone. *)
LEMMA SkipperAlone ==
    ASSUME IInv, UNCHANGED <<flusher, source, discard>>, skipper' \in Members, line' \in Lines,
           pc' \in Places, msg' \in {msg, NoMsg}, remover' \in Halts \union {HaltInvalid},
           SkipperTargetsAhead', RemoverAhead'
    PROVE  IInv'
<1>1. TypeOK'
  BY DEF IInv, TypeOK, Targets, Places, Lines
<1>2. msg'.kind = "Halt" => msg' = msg
  BY DEF NoMsg, Msg
<1>3. SourceInv'
  BY <1>2 DEF IInv, SourceInv, HaltsInOrder, PromisesKept, FlushesInOrder
<1>4. FlushesToPull' = FlushesToPull /\ HaltsToPull' = HaltsToPull
  BY DEF FlushesToPull, SentFlushes, HaltsToPull
<1>5. FlusherTargetsAhead' /\ DiscardKnown'
  BY <1>4 DEF IInv, TargetInv, FlusherTargetsAhead, DiscardKnown
<1> QED BY <1>1, <1>3, <1>5 DEF IInv, TargetInv

-----------------------------------------------------------------------------
(* Threads other than the puller.                                          *)
LEMMA OtherFlushes ==
    ASSUME IInv, NEW s \in Members, NEW generateHalt \in BOOLEAN,
           s.iTargetHaltId # HaltInvalid =>
              s.iTargetHaltId \in HaltsToPull \/ msg = Msg("Halt", s.iTargetHaltId),
           skipper' = StartFlushing(s, generateHalt),
           source' = Stopping(source, s.iStreamId),
           discard' = Target(StartFlushing(s, generateHalt)),
           UNCHANGED <<flusher, pc, msg>>, line' \in Lines, remover' \in {remover, HaltInvalid}
    PROVE  IInv'
<1>1. TypeOK /\ SourceInv /\ FlusherTargetsAhead /\ RemoverAhead
  BY DEF IInv, TargetInv
<1>2. s.iTargetHaltId # HaltInvalid => s.iTargetHaltId \in Halts /\ s.iTargetHaltId <= source.halts
  BY <1>1, TargetHandedOut DEF Members
<1>3. /\ skipper' \in Members /\ source' \in Sources /\ SourceInv'
      /\ skipper'.iTargetHaltId = s.iTargetHaltId
      /\ skipper'.iTargetFlushId # FlushInvalid => skipper'.iTargetFlushId \in FlushesToPull'
      /\ discard' \in Targets
      /\ discard'.kind = "Halt" => discard'.n <= source.halts
      /\ discard'.kind = "Flush" => discard'.n \in FlushesToPull'
      /\ FlushesToPull \subseteq FlushesToPull'
      /\ source'.halts = source.halts /\ source'.pulled = source.pulled
  BY <1>1, <1>2, FlushingStarts
<1>4. HaltsToPull' = HaltsToPull
  BY <1>3 DEF HaltsToPull
<1>5. TypeOK'
  BY <1>1, <1>3 DEF TypeOK, Targets, Lines
<1>6. FlusherTargetsAhead'
  BY <1>1, <1>3, <1>4 DEF FlusherTargetsAhead
<1>7. SkipperTargetsAhead'
  BY <1>3, <1>4 DEF SkipperTargetsAhead
<1>8. DiscardKnown'
  BY <1>3 DEF DiscardKnown
<1>9. RemoverAhead'
  BY <1>1, <1>4 DEF RemoverAhead
<1> QED BY <1>3, <1>5, <1>6, <1>7, <1>8, <1>9 DEF IInv, TargetInv

LEMMA OtherRemoves ==
    ASSUME IInv, NEW s \in Members, NEW rampDown \in BOOLEAN,
           s.iTargetHaltId # HaltInvalid =>
              s.iTargetHaltId \in HaltsToPull \/ msg = Msg("Halt", s.iTargetHaltId),
           s.iTargetFlushId = skipper.iTargetFlushId,
           TryRemoveCurrentStream(s, rampDown),
           UNCHANGED <<flusher, pc, msg, line>>, remover' \in {remover, HaltInvalid}
    PROVE  IInv'
<1>1. line' \in Lines /\ pc' \in Places /\ remover' \in Halts \union {HaltInvalid}
  BY TypeParts DEF IInv
<1>2. CASE /\ skipper' = StartFlushing(s, TRUE) /\ source' = Stopping(source, s.iStreamId)
           /\ discard' = Target(StartFlushing(s, TRUE))
  BY <1>1, <1>2, OtherFlushes
<1>3. CASE /\ skipper' = IF s.iState = eRunning
                           THEN [s EXCEPT !.iState = eRamping, !.iRemainingRampSize = s.iRampJiffies]
                           ELSE s
           /\ UNCHANGED <<source, discard>>
  <2>1. /\ skipper' \in Members
        /\ skipper'.iTargetHaltId = s.iTargetHaltId /\ skipper'.iTargetFlushId = s.iTargetFlushId
    <3>1. s.iRampJiffies \in 0 .. (RampLong + RampShort)
      BY StreamAssumption DEF Members
    <3> QED BY <1>3, <3>1 DEF Members, eRamping
  <2>2. FlushesToPull' = FlushesToPull /\ HaltsToPull' = HaltsToPull
    BY <1>3 DEF FlushesToPull, SentFlushes, HaltsToPull
  <2>3. SkipperTargetsAhead' /\ RemoverAhead'
    BY <2>1, <2>2 DEF SkipperTargetsAhead, RemoverAhead, IInv, TargetInv
  <2> QED BY <1>1, <1>3, <2>1, <2>3, SkipperAlone
<1> QED BY <1>2, <1>3 DEF TryRemoveCurrentStream

LEMMA RemovalsInv ==
    ASSUME IInv
    PROVE  /\ \A rampDown \in BOOLEAN : RemoveCurrentStream(rampDown) => IInv'
           /\ \A id \in 1 .. MaxStreams, rampDown \in BOOLEAN : TryRemoveStream(id, rampDown) => IInv'
           /\ \A rampDown \in BOOLEAN : RemoveAll(rampDown) => IInv'
           /\ Unblock => IInv'
<1>1. skipper \in Members /\ remover \in Halts \union {HaltInvalid} /\ line \in Lines /\ pc \in Places
  BY TypeParts DEF IInv
<1>2. skipper.iTargetHaltId # HaltInvalid =>
         skipper.iTargetHaltId \in HaltsToPull \/ msg = Msg("Halt", skipper.iTargetHaltId)
  BY DEF IInv, TargetInv, SkipperTargetsAhead
<1>3. ASSUME NEW rampDown \in BOOLEAN, RemoveCurrentStream(rampDown)
      PROVE  IInv'
  BY <1>1, <1>2, <1>3, OtherRemoves DEF RemoveCurrentStream
<1>4. ASSUME NEW id \in 1 .. MaxStreams, NEW rampDown \in BOOLEAN, TryRemoveStream(id, rampDown)
      PROVE  IInv'
  BY <1>1, <1>2, <1>4, OtherRemoves DEF TryRemoveStream
<1>5. ASSUME NEW rampDown \in BOOLEAN, RemoveAll(rampDown)
      PROVE  IInv'
  <2> DEFINE s == [skipper EXCEPT !.iTargetHaltId = remover]
  <2>1. s \in Members /\ s.iTargetHaltId = remover /\ s.iTargetFlushId = skipper.iTargetFlushId
    BY <1>1 DEF Members
  <2>2. remover \in HaltsToPull \/ msg = Msg("Halt", remover)
    BY <1>5 DEF RemoveAll, IInv, TargetInv, RemoverAhead
  <2>3. /\ TryRemoveCurrentStream(s, rampDown) /\ remover' = HaltInvalid
        /\ UNCHANGED <<flusher, pc, msg, line>>
    BY <1>5 DEF RemoveAll
  <2> HIDE DEF s
  <2> QED BY <2>1, <2>2, <2>3, OtherRemoves
<1>6. ASSUME Unblock PROVE IInv'
  <2>1. FlushesToPull' = FlushesToPull /\ HaltsToPull' = HaltsToPull
    BY <1>6 DEF Unblock, FlushesToPull, SentFlushes, HaltsToPull
  <2>2. SkipperTargetsAhead' /\ RemoverAhead'
    BY <1>6, <2>1 DEF Unblock, IInv, TargetInv, SkipperTargetsAhead, RemoverAhead
  <2> QED BY <1>1, <1>6, <2>2, SkipperAlone DEF Unblock
<1> QED BY <1>3, <1>4, <1>5, <1>6

LEMMA NotifyStarvingInv ==
    ASSUME IInv, NotifyStarving
    PROVE  IInv'
<1> DEFINE quiet == [skipper EXCEPT !.iRunning = FALSE]
<1>1. skipper \in Members /\ remover \in Halts \union {HaltInvalid} /\ line \in Lines /\ pc \in Places
  BY TypeParts DEF IInv
<1>2. /\ quiet \in Members
      /\ quiet.iTargetHaltId = skipper.iTargetHaltId /\ quiet.iTargetFlushId = skipper.iTargetFlushId
  BY <1>1 DEF Members
<1>3. UNCHANGED <<flusher, pc, msg, remover>> /\ line' \in Lines
  BY <1>1 DEF NotifyStarving, Halted, Lines
<1>4. \/ /\ skipper' = StartFlushing(quiet, TRUE) /\ source' = Stopping(source, quiet.iStreamId)
         /\ discard' = Target(StartFlushing(quiet, TRUE))
      \/ skipper' = quiet /\ UNCHANGED <<source, discard>>
  BY DEF NotifyStarving
<1> HIDE DEF quiet
<1>5. ASSUME skipper' = quiet, UNCHANGED <<source, discard>>
      PROVE  IInv'
  <2>1. FlushesToPull' = FlushesToPull /\ HaltsToPull' = HaltsToPull
    BY <1>5 DEF FlushesToPull, SentFlushes, HaltsToPull
  <2>2. SkipperTargetsAhead' /\ RemoverAhead'
    BY <1>2, <1>3, <1>5, <2>1 DEF IInv, TargetInv, SkipperTargetsAhead, RemoverAhead
  <2> QED BY <1>1, <1>2, <1>3, <1>5, <2>2, SkipperAlone
<1>6. skipper.iTargetHaltId # HaltInvalid =>
         skipper.iTargetHaltId \in HaltsToPull \/ msg = Msg("Halt", skipper.iTargetHaltId)
  BY DEF IInv, TargetInv, SkipperTargetsAhead
<1>7. ASSUME skipper' = StartFlushing(quiet, TRUE), source' = Stopping(source, quiet.iStreamId),
             discard' = Target(StartFlushing(quiet, TRUE))
      PROVE  IInv'
  BY <1>2, <1>3, <1>6, <1>7, OtherFlushes
<1> QED BY <1>4, <1>5, <1>7

LEMMA DiscardInv ==
    ASSUME IInv, Discard
    PROVE  IInv'
<1>1. TypeOK /\ SourceInv /\ TargetInv
  BY DEF IInv
<1>2. flusher \in FlusherMembers /\ discard \in Targets /\ source \in Sources
  BY <1>1, TypeParts
<1>3. /\ flusher' = Told(flusher, discard) /\ discard' = NoTarget
      /\ UNCHANGED <<skipper, pc, msg, remover, source, line>>
  BY DEF Discard
<1>4. FlushesToPull' = FlushesToPull /\ HaltsToPull' = HaltsToPull
  BY <1>3 DEF FlushesToPull, SentFlushes, HaltsToPull
<1>5. FlusherTargetsAhead'
  BY <1>1, <1>2, <1>3, <1>4, ToldAhead DEF TargetInv, DiscardKnown
<1>6. /\ flusher' \in FlusherMembers
      /\ flusher'.iLastHaltId = flusher.iLastHaltId /\ flusher'.iLastFlushId = flusher.iLastFlushId
  BY <1>2, <1>3, ToldKeepsLast
<1>7. TypeOK'
  BY <1>1, <1>3, <1>6 DEF TypeOK
<1>8. SourceInv'
  BY <1>1, <1>3, <1>6 DEF SourceInv, HaltsInOrder, PromisesKept, FlushesInOrder
<1>9. SkipperTargetsAhead' /\ RemoverAhead' /\ DiscardKnown'
  BY <1>1, <1>3, <1>4 DEF TargetInv, SkipperTargetsAhead, RemoverAhead, DiscardKnown, NoTarget, Msg
<1> QED BY <1>5, <1>7, <1>8, <1>9 DEF IInv, TargetInv

-----------------------------------------------------------------------------
(* The protocol and the Filler.                                            *)
LEMMA SourceAlone ==
    ASSUME IInv, UNCHANGED <<skipper, flusher, pc, msg, discard, line>>,
           source' \in Sources, SourceInv', FlushesToPull \subseteq FlushesToPull',
           source.halts <= source'.halts, source'.pulled = source.pulled,
           remover' \in Halts \union {HaltInvalid}, HaltsToPull \subseteq HaltsToPull' => RemoverAhead'
    PROVE  IInv'
<1>1. TypeOK /\ TargetInv
  BY DEF IInv
<1>2. source.halts \in Nat /\ source.pulled \in Nat /\ source'.halts \in Nat
  BY <1>1, IdAssumption DEF TypeOK, Sources
<1>3. HaltsToPull \subseteq HaltsToPull'
  BY <1>2 DEF HaltsToPull
<1>4. TypeOK'
  BY <1>1 DEF TypeOK
<1>5. FlusherTargetsAhead' /\ SkipperTargetsAhead'
  BY <1>1, <1>3 DEF TargetInv, FlusherTargetsAhead, SkipperTargetsAhead
<1>6. DiscardKnown'
  <2>1. discard.kind = "Halt" => discard.n \in Nat
    BY <1>1, TypeParts, IdAssumption DEF Targets, NoTarget, Msg, Halts
  <2> QED BY <1>1, <1>2, <2>1 DEF TargetInv, DiscardKnown
<1> QED BY <1>3, <1>4, <1>5, <1>6 DEF IInv, TargetInv

LEMMA ProtocolInv ==
    ASSUME IInv
    PROVE  /\ TrySeek => IInv'
           /\ OutputFlush => IInv'
           /\ StreamEnds => IInv'
           /\ TryStop => IInv'
<1>1. TypeOK /\ SourceInv /\ TargetInv
  BY DEF IInv
<1>2. source \in Sources /\ flusher \in FlusherMembers /\ remover \in Halts \union {HaltInvalid}
  BY <1>1, TypeParts
<1>3. /\ source.flushes \in Nat /\ flusher.iLastFlushId \in Nat /\ source.halts \in Nat
      /\ source.owed \in Nat /\ \A i \in DOMAIN source.sent : source.sent[i] \in Nat
  BY <1>2, IdAssumption DEF Sources, FlusherMembers, Flushes, FlushInvalid
<1>4. (HaltsToPull \subseteq HaltsToPull' /\ UNCHANGED <<msg, remover>>) => RemoverAhead'
  BY <1>1 DEF TargetInv, RemoverAhead
<1>5. ASSUME TrySeek PROVE IInv'
  <2> DEFINE p == source.flushes + 1
  <2>1. /\ source.streaming /\ source.owed = FlushInvalid /\ p < MaxFlushes
        /\ source' = [source EXCEPT !.owed = p, !.flushes = p]
        /\ UNCHANGED <<skipper, flusher, pc, msg, discard, remover, line>>
    BY <1>2, <1>5 DEF TrySeek, Sources
  <2>2. p \in Flushes /\ p \in 0 .. MaxFlushes /\ p # FlushInvalid /\ p \in Nat
    BY <1>3, <2>1, IdAssumption DEF Flushes, FlushInvalid
  <2>3. source.flushes < p /\ \A i \in DOMAIN source.sent : source.sent[i] < p
    BY <1>1, <1>3 DEF SourceInv, FlushesInOrder
  <2> HIDE DEF p
  <2>4. source' \in Sources
    BY <1>2, <2>1, <2>2 DEF Sources
  <2>5. /\ source'.owed = p /\ source'.flushes = p /\ source'.streaming /\ source'.stopping = source.stopping
        /\ source'.sent = source.sent /\ source'.halts = source.halts /\ source'.pulled = source.pulled
    BY <1>2, <2>1 DEF Sources
  <2>6. HaltsInOrder'
    BY <1>1, <2>1, <2>5 DEF SourceInv, HaltsInOrder
  <2>7. PromisesKept'
    BY <2>1, <2>2, <2>5 DEF PromisesKept
  <2>8. FlushesInOrder'
    <3>1. flusher.iLastFlushId < p
      BY <1>1, <1>3, <2>2, <2>3 DEF SourceInv, FlushesInOrder
    <3> QED BY <1>1, <1>3, <2>1, <2>2, <2>3, <2>5, <3>1 DEF SourceInv, FlushesInOrder
  <2>9. FlushesToPull \subseteq FlushesToPull'
    BY <2>1, <2>5 DEF FlushesToPull, SentFlushes
  <2> QED BY <1>2, <1>3, <1>4, <2>1, <2>4, <2>5, <2>6, <2>7, <2>8, <2>9, SourceAlone DEF SourceInv
<1>6. ASSUME OutputFlush PROVE IInv'
  <2>1. /\ source.owed # FlushInvalid
        /\ source' = [source EXCEPT !.sent = Append(source.sent, source.owed), !.owed = FlushInvalid,
                                    !.streaming = ~source.stopping, !.stopping = FALSE]
        /\ UNCHANGED <<skipper, flusher, pc, msg, discard, remover, line>>
    BY <1>2, <1>6 DEF OutputFlush, Sources
  <2>2. source.owed \in Flushes /\ source.sent \in Seq(Flushes)
    BY <1>2, <2>1 DEF Sources
  <2>3. /\ source'.owed = FlushInvalid /\ source'.flushes = source.flushes
        /\ source'.streaming = ~source.stopping /\ source'.stopping = FALSE
        /\ source'.sent = Append(source.sent, source.owed)
        /\ source'.halts = source.halts /\ source'.pulled = source.pulled
    BY <1>2, <2>1 DEF Sources
  <2>4. source' \in Sources
    <3> DEFINE q == Append(source.sent, source.owed)
    <3>1. q \in Seq(Flushes)
      BY <2>2
    <3>2. (~source.stopping) \in BOOLEAN
      OBVIOUS
    <3>3. source' = [source EXCEPT !.sent = q, !.owed = FlushInvalid, !.streaming = ~source.stopping,
                                   !.stopping = FALSE]
      BY <2>1
    <3> HIDE DEF q
    <3> QED BY <1>2, <3>1, <3>2, <3>3 DEF Sources
  <2>5. HaltsInOrder'
    BY <1>1, <2>1, <2>3 DEF SourceInv, HaltsInOrder
  <2>6. PromisesKept'
    BY <1>1, <2>1, <2>3 DEF SourceInv, PromisesKept
  <2>7. FlushesInOrder'
    <3>1. source.owed = source.flushes
      BY <1>1, <2>1 DEF SourceInv, PromisesKept
    <3>2. /\ DOMAIN source'.sent = 1 .. Len(source.sent) + 1 /\ DOMAIN source.sent = 1 .. Len(source.sent)
          /\ Len(source.sent) \in Nat
          /\ source'.sent[Len(source.sent) + 1] = source.owed
          /\ \A i \in 1 .. Len(source.sent) : source'.sent[i] = source.sent[i]
      BY <2>2, <2>3
    <3>3. \A i \in DOMAIN source'.sent :
             flusher'.iLastFlushId < source'.sent[i] /\ source'.sent[i] <= source'.flushes
      BY <1>1, <1>3, <2>1, <2>3, <3>1, <3>2 DEF SourceInv, FlushesInOrder
    <3>4. ASSUME NEW i \in DOMAIN source'.sent, NEW j \in DOMAIN source'.sent, i < j
          PROVE  source'.sent[i] < source'.sent[j]
      <4>1. i \in DOMAIN source.sent /\ source'.sent[i] = source.sent[i]
        BY <3>2, <3>4
      <4>2. CASE j \in DOMAIN source.sent
        <5>1. source'.sent[j] = source.sent[j]
          BY <3>2, <4>2
        <5> QED BY <1>1, <3>4, <4>1, <4>2, <5>1 DEF SourceInv, FlushesInOrder
      <4>3. CASE j = Len(source.sent) + 1
        BY <1>1, <2>1, <3>2, <4>1, <4>3 DEF SourceInv, FlushesInOrder
      <4> QED BY <3>2, <3>4, <4>2, <4>3
    <3>5. flusher'.iLastFlushId <= source'.flushes
      BY <1>1, <2>1, <2>3 DEF SourceInv, FlushesInOrder
    <3> QED BY <2>3, <3>3, <3>4, <3>5 DEF FlushesInOrder
  <2>8. FlushesToPull \subseteq FlushesToPull'
    <3>1. /\ DOMAIN source.sent \subseteq DOMAIN source'.sent
          /\ \A i \in DOMAIN source.sent : source'.sent[i] = source.sent[i]
          /\ Len(source.sent) + 1 \in DOMAIN source'.sent /\ source'.sent[Len(source.sent) + 1] = source.owed
      BY <2>2, <2>3
    <3> QED BY <3>1 DEF FlushesToPull, SentFlushes
  <2> QED BY <1>2, <1>3, <1>4, <2>1, <2>3, <2>4, <2>5, <2>6, <2>7, <2>8, SourceAlone DEF SourceInv
<1>7. ASSUME StreamEnds PROVE IInv'
  <2>1. /\ source.owed = FlushInvalid /\ source' = [source EXCEPT !.streaming = FALSE]
        /\ UNCHANGED <<skipper, flusher, pc, msg, discard, remover, line>>
    BY <1>7 DEF StreamEnds
  <2>2. /\ source' \in Sources /\ source'.streaming = FALSE
        /\ source'.owed = source.owed /\ source'.flushes = source.flushes /\ source'.stopping = source.stopping
        /\ source'.sent = source.sent /\ source'.halts = source.halts /\ source'.pulled = source.pulled
    BY <1>2, <2>1 DEF Sources
  <2>3. SourceInv'
    BY <1>1, <2>1, <2>2 DEF SourceInv, HaltsInOrder, PromisesKept, FlushesInOrder
  <2>4. FlushesToPull \subseteq FlushesToPull'
    BY <2>2 DEF FlushesToPull, SentFlushes
  <2> QED BY <1>2, <1>3, <1>4, <2>1, <2>2, <2>3, <2>4, SourceAlone
<1>8. ASSUME TryStop PROVE IInv'
  <2>1. /\ source' = Stopping(source, skipper.iStreamId)
        /\ UNCHANGED <<skipper, flusher, pc, msg, discard, remover, line>>
    BY <1>8 DEF TryStop
  <2>2. source = [source EXCEPT !.phase = source.phase]
    BY <1>2 DEF Sources
  <2>3. /\ source' \in Sources /\ SourceInv' /\ FlushesToPull \subseteq FlushesToPull'
        /\ source'.halts = source.halts /\ source'.pulled = source.pulled
    BY <1>1, <1>2, <2>1, <2>2, StoppingKeeps
  <2> QED BY <1>2, <1>3, <1>4, <2>1, <2>3, SourceAlone
<1> QED BY <1>5, <1>6, <1>7, <1>8

LEMMA BlockInv ==
    ASSUME IInv, Block
    PROVE  IInv'
<1>1. TypeOK /\ SourceInv /\ TargetInv
  BY DEF IInv
<1>2. source \in Sources
  BY <1>1, TypeParts
<1>3. PICK id \in Halts : FillerStop(id) /\ remover' = id
  BY DEF Block
<1>4. UNCHANGED <<skipper, flusher, pc, msg, discard, line>>
  BY DEF Block
<1>5. source.halts \in Nat /\ source.pulled \in Nat /\ id \in Nat /\ source.pulled <= source.halts
  BY <1>1, <1>2, IdAssumption DEF Sources, Halts, SourceInv, HaltsInOrder
<1>6. CASE HaltDue /\ id = source.halts /\ source' = source
  <2>1. id \in HaltsToPull
    BY <1>5, <1>6 DEF HaltDue, HaltsToPull
  <2>2. HaltsToPull' = HaltsToPull /\ FlushesToPull' = FlushesToPull
    BY <1>6 DEF HaltsToPull, FlushesToPull, SentFlushes
  <2>3. SourceInv'
    BY <1>1, <1>4, <1>6 DEF SourceInv, HaltsInOrder, PromisesKept, FlushesInOrder
  <2> QED BY <1>2, <1>3, <1>4, <1>5, <1>6, <2>1, <2>2, <2>3, SourceAlone DEF RemoverAhead
<1>7. CASE /\ id = source.halts + 1 /\ id <= MaxHalts
           /\ \E next \in BOOLEAN :
                source' = [source EXCEPT !.halts = id, !.next = IF HaltDue THEN @ ELSE next]
  <2>1. PICK next \in BOOLEAN : source' = [source EXCEPT !.halts = id, !.next = next]
    <3>1. PICK next \in BOOLEAN : source' = [source EXCEPT !.halts = id, !.next = IF HaltDue THEN @ ELSE next]
      BY <1>7
    <3>2. CASE HaltDue
      BY <1>2, <3>1, <3>2 DEF Sources
    <3>3. CASE ~HaltDue
      BY <1>2, <3>1, <3>3 DEF Sources
    <3> QED BY <3>2, <3>3
  <2>2. id \in 0 .. MaxHalts
    BY <1>5, <1>7, IdAssumption
  <2>3. source' \in Sources
    BY <1>2, <2>1, <2>2 DEF Sources
  <2>4. /\ source'.halts = id /\ source'.pulled = source.pulled /\ source'.owed = source.owed
        /\ source'.flushes = source.flushes /\ source'.streaming = source.streaming
        /\ source'.stopping = source.stopping /\ source'.sent = source.sent
    BY <1>2, <2>1 DEF Sources
  <2>5. SourceInv'
    BY <1>1, <1>4, <1>5, <1>7, <2>4 DEF SourceInv, HaltsInOrder, PromisesKept, FlushesInOrder
  <2>6. FlushesToPull' = FlushesToPull
    BY <2>4 DEF FlushesToPull, SentFlushes
  <2>7. RemoverAhead'
    BY <1>3, <1>5, <1>7, <2>4 DEF RemoverAhead, HaltsToPull
  <2> QED BY <1>3, <1>4, <1>5, <1>7, <2>3, <2>4, <2>5, <2>6, <2>7, SourceAlone
<1> QED BY <1>3, <1>6, <1>7 DEF FillerStop

-----------------------------------------------------------------------------
(* The puller under iLock: ProcessMsg.                                     *)

(* What the number in a message is, by its kind. *)
LEMMA MsgParts ==
    ASSUME NEW m \in UpstreamMsgs \union {NoMsg}
    PROVE  /\ m.kind = "Mode" => m.n \in {RampLong, RampShort}
           /\ m.kind = "Encoded" => m.n \in 1 .. MaxStreams
           /\ m.kind = "Audio" => m.n \in 1 .. MaxAudio
           /\ m.kind = "Halt" => m = Msg("Halt", m.n)
           /\ m.kind = "Flush" => m = Msg("Flush", m.n)
  BY DEF UpstreamMsgs, NoMsg, Msg

(* A message that leaves the Flusher alone. *)
LEMMA SkipperProcesses ==
    ASSUME IInv, remover = HaltInvalid, UNCHANGED <<flusher, source, discard, remover>>,
           skipper' \in Members, line' \in Lines, pc' = "top", msg' = NoMsg,
           skipper'.iTargetHaltId \in {skipper.iTargetHaltId, HaltInvalid},
           skipper'.iTargetFlushId \in {skipper.iTargetFlushId, FlushInvalid},
           skipper'.iTargetHaltId # HaltInvalid => msg # Msg("Halt", skipper'.iTargetHaltId),
           skipper'.iTargetFlushId # FlushInvalid => msg # Msg("Flush", skipper'.iTargetFlushId)
    PROVE  IInv'
<1>1. FlushesToPull' = FlushesToPull /\ HaltsToPull' = HaltsToPull
  BY DEF FlushesToPull, SentFlushes, HaltsToPull
<1>2. SkipperTargetsAhead' /\ RemoverAhead'
  BY <1>1 DEF IInv, TargetInv, SkipperTargetsAhead, RemoverAhead
<1> QED BY <1>2, SkipperAlone DEF Places

(* A message that makes Skipper flush, whatever becomes of the halt it     *)
(* waited for.                                                             *)
LEMMA FlushesProcessed ==
    ASSUME IInv, LockFree, remover = HaltInvalid, UNCHANGED <<discard, remover>>,
           NEW s \in Members, NEW generateHalt \in BOOLEAN,
           NEW after, after = StartFlushing(s, generateHalt),
           s.iTargetHaltId # HaltInvalid =>
              s.iTargetHaltId \in HaltsToPull \/ msg = Msg("Halt", s.iTargetHaltId),
           source' = Stopping(source, s.iStreamId), flusher' = Told(flusher, Target(after)),
           skipper' \in Members, skipper'.iTargetFlushId = after.iTargetFlushId,
           skipper'.iTargetHaltId # HaltInvalid => skipper'.iTargetHaltId \in HaltsToPull,
           line' \in Lines, pc' = "top", msg' = NoMsg
    PROVE  IInv'
<1>1. TypeOK /\ SourceInv /\ FlusherTargetsAhead
  BY DEF IInv, TargetInv
<1>2. flusher \in FlusherMembers
  BY <1>1, TypeParts
<1>3. UNCHANGED <<flusher.iLastHaltId, flusher.iLastFlushId>>
  BY <1>2, ToldKeepsLast
<1>4. s.iTargetHaltId # HaltInvalid => s.iTargetHaltId \in Halts /\ s.iTargetHaltId <= source.halts
  BY <1>1, TargetHandedOut DEF Members
<1>5. /\ source' \in Sources /\ SourceInv'
      /\ after.iTargetFlushId # FlushInvalid => after.iTargetFlushId \in FlushesToPull'
      /\ Target(after) \in Targets
      /\ Target(after).kind = "Halt" => Target(after).n <= source.halts
      /\ Target(after).kind = "Flush" => Target(after).n \in FlushesToPull'
      /\ FlushesToPull \subseteq FlushesToPull'
      /\ source'.halts = source.halts /\ source'.pulled = source.pulled
  BY <1>1, <1>3, <1>4, FlushingStarts
<1>6. HaltsToPull' = HaltsToPull
  BY <1>5 DEF HaltsToPull
<1>7. FlusherTargetsAhead'
  BY <1>1, <1>5, ToldAhead
<1>8. SkipperTargetsAhead' /\ RemoverAhead'
  BY <1>5, <1>6 DEF SkipperTargetsAhead, RemoverAhead
<1>9. DiscardKnown'
  BY DEF LockFree, DiscardKnown, NoTarget, Msg
<1>10. TypeOK'
  BY <1>1, <1>2, <1>5, ToldKeepsLast DEF TypeOK, Lines
<1> QED BY <1>5, <1>7, <1>8, <1>9, <1>10 DEF IInv, TargetInv

(* The same for any message but a halt. *)
LEMMA PullerFlushesInv ==
    ASSUME IInv, LockFree, remover = HaltInvalid, UNCHANGED <<discard, remover>>, msg.kind # "Halt",
           NEW s \in Members, NEW generateHalt \in BOOLEAN,
           s.iTargetHaltId = skipper.iTargetHaltId, PullerFlushes(s, generateHalt),
           line' \in Lines, pc' = "top", msg' = NoMsg
    PROVE  IInv'
<1> DEFINE after == StartFlushing(s, generateHalt)
<1>1. s.iTargetHaltId # HaltInvalid => s.iTargetHaltId \in HaltsToPull
  BY DEF IInv, TargetInv, SkipperTargetsAhead, Msg
<1>2. skipper' = after /\ source' = Stopping(source, s.iStreamId) /\ flusher' = Told(flusher, Target(after))
  BY DEF PullerFlushes
<1>3. TypeOK /\ SourceInv /\ FlusherTargetsAhead /\ flusher \in FlusherMembers
  BY TypeParts DEF IInv, TargetInv
<1>4. UNCHANGED <<flusher.iLastHaltId, flusher.iLastFlushId>>
  BY <1>2, <1>3, ToldKeepsLast
<1>5. s.iTargetHaltId # HaltInvalid => s.iTargetHaltId \in Halts /\ s.iTargetHaltId <= source.halts
  BY <1>1, <1>3, TargetHandedOut DEF Members
<1> HIDE DEF after
<1>6. after = StartFlushing(s, generateHalt)
  BY DEF after
<1>7. after \in Members /\ after.iTargetHaltId = s.iTargetHaltId
  BY <1>2, <1>3, <1>4, <1>5, <1>6, FlushingStarts
<1> QED BY <1>1, <1>2, <1>6, <1>7, FlushesProcessed

(* The messages that leave the targets alone or make Skipper flush.        *)
LEMMA ProcessOthersInv ==
    ASSUME IInv
    PROVE  /\ ProcessMode => IInv'
           /\ ProcessTrack => IInv'
           /\ ProcessDrain => IInv'
           /\ ProcessEncoded => IInv'
           /\ ProcessMetaText => IInv'
           /\ ProcessInterrupted => IInv'
           /\ ProcessQuit => IInv'
           /\ ProcessWait => IInv'
           /\ ProcessDecoded => IInv'
<1>1. skipper \in Members /\ line \in Lines /\ msg \in UpstreamMsgs \union {NoMsg}
  BY TypeParts DEF IInv
<1>2. ASSUME NEW kinds, Processes(kinds), "Halt" \notin kinds, "Flush" \notin kinds
      PROVE  /\ LockFree /\ remover = HaltInvalid /\ UNCHANGED <<discard, remover>>
             /\ pc' = "top" /\ msg' = NoMsg /\ msg.kind \in kinds /\ msg.kind # "Halt"
             /\ \A n : msg # Msg("Halt", n) /\ msg # Msg("Flush", n)
  BY <1>2 DEF Processes, Msg
<1>3. ASSUME NEW kinds, Processes(kinds), "Halt" \notin kinds, "Flush" \notin kinds,
             UNCHANGED <<flusher, source, line>>, skipper' \in Members,
             skipper'.iTargetHaltId = skipper.iTargetHaltId, skipper'.iTargetFlushId = skipper.iTargetFlushId
      PROVE  IInv'
  <2>1. /\ LockFree /\ remover = HaltInvalid /\ UNCHANGED <<discard, remover>>
        /\ pc' = "top" /\ msg' = NoMsg /\ msg.kind # "Halt"
        /\ \A n : msg # Msg("Halt", n) /\ msg # Msg("Flush", n)
    BY <1>2, <1>3
  <2> QED BY <1>1, <1>3, <2>1, SkipperProcesses
<1>4. ASSUME NEW kinds, Processes(kinds), "Halt" \notin kinds, "Flush" \notin kinds, UNCHANGED line,
             NEW s \in Members, s.iTargetHaltId = skipper.iTargetHaltId, PullerFlushes(s, TRUE)
      PROVE  IInv'
  <2>1. /\ LockFree /\ remover = HaltInvalid /\ UNCHANGED <<discard, remover>>
        /\ pc' = "top" /\ msg' = NoMsg /\ msg.kind # "Halt"
    BY <1>2, <1>4
  <2> QED BY <1>1, <1>4, <2>1, PullerFlushesInv
<1>5. ASSUME ProcessMode PROVE IInv'
  <2>1. Processes({"Mode"}) /\ UNCHANGED <<flusher, source, line>>
    BY <1>5 DEF ProcessMode
  <2>2. msg.n \in {RampLong, RampShort}
    BY <1>1, <1>2, <2>1, MsgParts
  <2>3. skipper' = [skipper EXCEPT !.iStreamId = StreamInvalid, !.iRampJiffies = msg.n]
    BY <1>5 DEF ProcessMode
  <2>4. /\ skipper' \in Members /\ skipper'.iTargetHaltId = skipper.iTargetHaltId
        /\ skipper'.iTargetFlushId = skipper.iTargetFlushId
    <3> DEFINE n == msg.n
    <3>1. StreamInvalid \in 0 .. MaxStreams /\ n \in {RampLong, RampShort}
      BY <2>2, StreamAssumption DEF StreamInvalid
    <3>2. skipper' = [skipper EXCEPT !.iStreamId = StreamInvalid, !.iRampJiffies = n]
      BY <2>3
    <3> HIDE DEF n
    <3> QED BY <1>1, <3>1, <3>2 DEF Members
  <2> QED BY <1>3, <2>1, <2>4
<1>6. ASSUME ProcessTrack PROVE IInv'
  <2>1. Processes({"Track", "TrackMidStream"}) /\ UNCHANGED line
    BY <1>6 DEF ProcessTrack
  <2>2. PullerFlushes(skipper, TRUE) \/ UNCHANGED <<skipper, flusher, source>>
    BY <1>6 DEF ProcessTrack
  <2> QED BY <1>1, <1>3, <1>4, <2>1, <2>2
<1>7. ASSUME ProcessDrain PROVE IInv'
  <2>1. Processes({"Drain"}) /\ UNCHANGED <<flusher, source, line>>
    BY <1>7 DEF ProcessDrain
  <2>2. /\ skipper' \in Members /\ skipper'.iTargetHaltId = skipper.iTargetHaltId
        /\ skipper'.iTargetFlushId = skipper.iTargetFlushId
    BY <1>1, <1>7 DEF ProcessDrain, Members, eRunning, eStarting
  <2> QED BY <1>3, <2>1, <2>2
<1>8. ASSUME ProcessEncoded PROVE IInv'
  <2>1. Processes({"Encoded"}) /\ UNCHANGED line
    BY <1>8 DEF ProcessEncoded
  <2>2. msg.n \in 0 .. MaxStreams
    BY <1>1, <1>2, <2>1, MsgParts, StreamAssumption
  <2>3. \/ PullerFlushes(skipper, TRUE)
        \/ /\ skipper' = NewStream([skipper EXCEPT !.iStreamId = msg.n])
           /\ UNCHANGED <<flusher, source>>
    BY <1>8 DEF ProcessEncoded
  <2>4. ASSUME skipper' = NewStream([skipper EXCEPT !.iStreamId = msg.n])
        PROVE  /\ skipper' \in Members /\ skipper'.iTargetHaltId = skipper.iTargetHaltId
               /\ skipper'.iTargetFlushId = skipper.iTargetFlushId
    <3>1. 0 \in 0 .. (RampLong + RampShort)
      BY StreamAssumption
    <3> QED BY <1>1, <2>2, <2>4, <3>1 DEF NewStream, Members, eStarting, eFlushing
  <2> QED BY <1>1, <1>3, <1>4, <2>1, <2>3, <2>4
<1>9. ASSUME ProcessMetaText PROVE IInv'
  BY <1>1, <1>3, <1>9 DEF ProcessMetaText
<1>10. ASSUME ProcessInterrupted PROVE IInv'
  <2>1. Processes({"Interrupted"}) /\ UNCHANGED <<flusher, source, line>>
    BY <1>10 DEF ProcessInterrupted
  <2>2. /\ skipper' \in Members /\ skipper'.iTargetHaltId = skipper.iTargetHaltId
        /\ skipper'.iTargetFlushId = skipper.iTargetFlushId
    BY <1>1, <1>10 DEF ProcessInterrupted, Members
  <2> QED BY <1>3, <2>1, <2>2
<1>11. ASSUME ProcessQuit PROVE IInv'
  <2>1. Processes({"Quit"}) /\ UNCHANGED <<flusher, source, line>>
    BY <1>11 DEF ProcessQuit
  <2>2. /\ skipper' \in Members /\ skipper'.iTargetHaltId = skipper.iTargetHaltId
        /\ skipper'.iTargetFlushId = skipper.iTargetFlushId
    BY <1>1, <1>11 DEF ProcessQuit, Members
  <2> QED BY <1>3, <2>1, <2>2
<1>12. ASSUME ProcessWait PROVE IInv'
  <2> DEFINE quiet == [skipper EXCEPT !.iRunning = FALSE]
  <2>1. Processes({"Wait"}) /\ UNCHANGED line
    BY <1>12 DEF ProcessWait
  <2>2. /\ quiet \in Members
        /\ quiet.iTargetHaltId = skipper.iTargetHaltId /\ quiet.iTargetFlushId = skipper.iTargetFlushId
    BY <1>1 DEF Members
  <2>3. \/ PullerFlushes(quiet, TRUE)
        \/ skipper' = quiet /\ UNCHANGED <<flusher, source>>
    BY <1>12 DEF ProcessWait
  <2> HIDE DEF quiet
  <2> QED BY <1>3, <1>4, <2>1, <2>2, <2>3
<1>13. ASSUME ProcessDecoded PROVE IInv'
  <2>1. Processes({"Decoded"}) /\ UNCHANGED <<flusher, source, line>>
    BY <1>13 DEF ProcessDecoded
  <2>2. /\ skipper' \in Members /\ skipper'.iTargetHaltId = skipper.iTargetHaltId
        /\ skipper'.iTargetFlushId = skipper.iTargetFlushId
    BY <1>1, <1>13 DEF ProcessDecoded, Members, eStarting, eFlushing
  <2> QED BY <1>3, <2>1, <2>2
<1> QED BY <1>5, <1>6, <1>7, <1>8, <1>9, <1>10, <1>11, <1>12, <1>13

(* Sound: heard, ramped down, or discarded. *)
LEMMA ProcessSoundInv ==
    ASSUME IInv
    PROVE  /\ ProcessAudio => IInv'
           /\ ProcessSilence => IInv'
<1>1. skipper \in Members /\ line \in Lines /\ msg \in UpstreamMsgs \union {NoMsg}
  BY TypeParts DEF IInv
<1>2. ASSUME NEW kinds \in {{"Audio"}, {"Silence"}}, Processes(kinds), line' \in Lines,
             skipper' \in Members, skipper'.iTargetHaltId = skipper.iTargetHaltId,
             skipper'.iTargetFlushId = skipper.iTargetFlushId, UNCHANGED <<flusher, source>>
      PROVE  IInv'
  <2>1. /\ remover = HaltInvalid /\ UNCHANGED <<discard, remover>> /\ pc' = "top" /\ msg' = NoMsg
        /\ \A n : msg # Msg("Halt", n) /\ msg # Msg("Flush", n)
    BY <1>2 DEF Processes, Msg
  <2> QED BY <1>2, <2>1, SkipperProcesses
<1>3. ASSUME NEW kinds \in {{"Audio"}, {"Silence"}}, Processes(kinds), line' \in Lines,
              NEW s \in Members, s.iTargetHaltId = skipper.iTargetHaltId, PullerFlushes(s, TRUE)
       PROVE  IInv'
  <2>1. /\ LockFree /\ remover = HaltInvalid /\ UNCHANGED <<discard, remover>>
        /\ pc' = "top" /\ msg' = NoMsg /\ msg.kind # "Halt"
    BY <1>3 DEF Processes
  <2> QED BY <1>3, <2>1, PullerFlushesInv
<1>4. ASSUME ProcessAudio PROVE IInv'
  <2> DEFINE s == [skipper EXCEPT !.iRunning = TRUE]
             left == RampLeft(s, msg.n)
             cut == [s EXCEPT !.iRemainingRampSize = 0]
  <2>1. Processes({"Audio"})
    BY <1>4 DEF ProcessAudio
  <2>2. msg.n \in 1 .. MaxAudio
    BY <1>1, <2>1, MsgParts DEF Processes
  <2>3. /\ s \in Members /\ s.iTargetHaltId = skipper.iTargetHaltId
        /\ s.iTargetFlushId = skipper.iTargetFlushId
    BY <1>1 DEF Members
  <2>4. left \in 0 .. (RampLong + RampShort)
    <3> DEFINE size == s.iRemainingRampSize
    <3>1. size \in 0 .. (RampLong + RampShort)
      BY <2>3 DEF Members
    <3>2. left = IF msg.n > size THEN 0 ELSE size - msg.n
      BY DEF RampLeft
    <3> HIDE DEF size, left
    <3> QED BY <2>2, <3>1, <3>2, StreamAssumption
  <2>5. \/ skipper' = [s EXCEPT !.iState = eRunning] /\ UNCHANGED <<flusher, source>>
        \/ skipper' = [s EXCEPT !.iRemainingRampSize = left] /\ UNCHANGED <<flusher, source>>
        \/ PullerFlushes(cut, TRUE)
        \/ skipper' = s /\ UNCHANGED <<flusher, source>>
    BY <1>4 DEF ProcessAudio
  <2>6. line' \in Lines
    BY <1>1, <1>4 DEF ProcessAudio, Lines, Heard, Dropped
  <2> HIDE DEF s, left
  <2>7. cut \in Members /\ cut.iTargetHaltId = skipper.iTargetHaltId
    <3>1. 0 \in 0 .. (RampLong + RampShort)
      BY StreamAssumption
    <3> QED BY <2>3, <3>1 DEF Members
  <2> HIDE DEF cut
  <2>8. ASSUME PullerFlushes(cut, TRUE) PROVE IInv'
    BY <1>3, <2>1, <2>6, <2>7, <2>8
  <2>9. ASSUME skipper' \in {[s EXCEPT !.iState = eRunning], [s EXCEPT !.iRemainingRampSize = left], s},
               UNCHANGED <<flusher, source>>
        PROVE  IInv'
    <3>1. /\ skipper' \in Members /\ skipper'.iTargetHaltId = skipper.iTargetHaltId
          /\ skipper'.iTargetFlushId = skipper.iTargetFlushId
      BY <2>3, <2>4, <2>9 DEF Members, eRunning
    <3> QED BY <1>2, <2>1, <2>6, <2>9, <3>1
  <2> QED BY <2>5, <2>8, <2>9
<1>5. ASSUME ProcessSilence PROVE IInv'
  <2> DEFINE cut == [skipper EXCEPT !.iRemainingRampSize = 0]
  <2>1. Processes({"Silence"}) /\ line' = line
    BY <1>5 DEF ProcessSilence
  <2>2. cut \in Members /\ cut.iTargetHaltId = skipper.iTargetHaltId
    <3>1. 0 \in 0 .. (RampLong + RampShort)
      BY StreamAssumption
    <3> QED BY <1>1, <3>1 DEF Members
  <2>3. \/ skipper' \in {skipper, [skipper EXCEPT !.iState = eRunning]} /\ UNCHANGED <<flusher, source>>
        \/ PullerFlushes(cut, TRUE)
    BY <1>5 DEF ProcessSilence, eStarting, eRamping
  <2> HIDE DEF cut
  <2>4. ASSUME PullerFlushes(cut, TRUE) PROVE IInv'
    BY <1>1, <1>3, <2>1, <2>2, <2>4
  <2>5. ASSUME skipper' \in {skipper, [skipper EXCEPT !.iState = eRunning]}, UNCHANGED <<flusher, source>>
        PROVE  IInv'
    <3>1. /\ skipper' \in Members /\ skipper'.iTargetHaltId = skipper.iTargetHaltId
          /\ skipper'.iTargetFlushId = skipper.iTargetFlushId
      BY <1>1, <2>5 DEF Members, eRunning
    <3> QED BY <1>1, <1>2, <2>1, <2>5, <3>1
  <2> QED BY <2>3, <2>4, <2>5
<1> QED BY <1>4, <1>5

(* The messages that end a removal. *)
LEMMA ProcessFlushInv ==
    ASSUME IInv, ProcessFlush
    PROVE  IInv'
<1>1. skipper \in Members /\ line \in Lines
  BY TypeParts DEF IInv
<1>2. /\ remover = HaltInvalid /\ UNCHANGED <<discard, remover, flusher, source, line>>
      /\ pc' = "top" /\ msg' = NoMsg /\ msg.kind = "Flush" /\ \A n : msg # Msg("Halt", n)
  BY DEF ProcessFlush, Processes, Msg
<1>3. \/ /\ msg.n = skipper.iTargetFlushId
         /\ skipper' = [skipper EXCEPT !.iState = eStarting, !.iTargetFlushId = FlushInvalid]
      \/ msg.n # skipper.iTargetFlushId /\ skipper' = skipper
  BY DEF ProcessFlush
<1>4. /\ skipper' \in Members /\ skipper'.iTargetHaltId = skipper.iTargetHaltId
      /\ skipper'.iTargetFlushId \in {skipper.iTargetFlushId, FlushInvalid}
      /\ skipper'.iTargetFlushId # FlushInvalid => skipper'.iTargetFlushId # msg.n
  BY <1>1, <1>3 DEF Members, eStarting
<1>5. \A n : n # msg.n => msg # Msg("Flush", n)
  BY DEF Msg
<1> QED BY <1>1, <1>2, <1>4, <1>5, SkipperProcesses

LEMMA ProcessHaltInv ==
    ASSUME IInv, ProcessHalt
    PROVE  IInv'
<1> DEFINE quiet == [skipper EXCEPT !.iRunning = FALSE]
           after == StartFlushing(quiet, FALSE)
           flushes == skipper.iState = eRamping
           s == IF flushes THEN after ELSE quiet
<1>1. skipper \in Members /\ flusher \in FlusherMembers /\ line \in Lines
  BY TypeParts DEF IInv
<1>2. TypeOK /\ SourceInv /\ FlusherTargetsAhead
  BY DEF IInv, TargetInv
<1>3. /\ LockFree /\ remover = HaltInvalid /\ UNCHANGED <<discard, remover>>
      /\ pc' = "top" /\ msg' = NoMsg /\ \A n : msg # Msg("Flush", n)
  BY DEF ProcessHalt, Processes, Msg
<1>4. line' \in Lines
  BY <1>1 DEF ProcessHalt, Halted, Lines
<1>5. skipper.iTargetHaltId # HaltInvalid =>
         skipper.iTargetHaltId \in HaltsToPull \/ msg = Msg("Halt", skipper.iTargetHaltId)
  BY DEF IInv, TargetInv, SkipperTargetsAhead
<1>6. \A n : n # msg.n => msg # Msg("Halt", n)
  BY DEF Msg
<1>7. /\ quiet \in Members
      /\ quiet.iTargetHaltId = skipper.iTargetHaltId /\ quiet.iTargetFlushId = skipper.iTargetFlushId
  BY <1>1 DEF Members
<1>8. /\ skipper' = IF msg.n = s.iTargetHaltId
                      THEN [s EXCEPT !.iTargetHaltId = HaltInvalid, !.iState = eRunning] ELSE s
      /\ source' = IF flushes THEN Stopping(source, s.iStreamId) ELSE source
      /\ flusher' = IF flushes THEN Told(flusher, Target(s)) ELSE flusher
  BY DEF ProcessHalt
<1>9. after = StartFlushing(quiet, FALSE) /\ after.iStreamId = quiet.iStreamId
  BY <1>7 DEF StartFlushing, Members
<1>10. ASSUME s \in Members, s.iTargetHaltId = skipper.iTargetHaltId
       PROVE  /\ skipper' \in Members /\ skipper'.iTargetFlushId = s.iTargetFlushId
              /\ skipper'.iTargetHaltId \in {skipper.iTargetHaltId, HaltInvalid}
              /\ skipper'.iTargetHaltId # HaltInvalid => skipper'.iTargetHaltId # msg.n
  <2> HIDE DEF s
  <2>1. CASE msg.n = s.iTargetHaltId
    <3>1. skipper' = [s EXCEPT !.iTargetHaltId = HaltInvalid, !.iState = eRunning]
      BY <1>8, <2>1
    <3> QED BY <1>10, <3>1 DEF Members, eRunning
  <2>2. CASE msg.n # s.iTargetHaltId
    BY <1>8, <1>10, <2>2
  <2> QED BY <2>1, <2>2
<1>11. ASSUME flushes PROVE IInv'
  <2>1. s = after /\ source' = Stopping(source, quiet.iStreamId) /\ flusher' = Told(flusher, Target(after))
    BY <1>8, <1>9, <1>11
  <2>2. UNCHANGED <<flusher.iLastHaltId, flusher.iLastFlushId>>
    BY <1>1, <2>1, ToldKeepsLast
  <2>3. quiet.iTargetHaltId # HaltInvalid =>
           quiet.iTargetHaltId \in Halts /\ quiet.iTargetHaltId <= source.halts
    BY <1>2, <1>5, <1>7, TargetHandedOut DEF Members
  <2> HIDE DEF quiet, after, flushes, s
  <2>4. after \in Members /\ after.iTargetHaltId = quiet.iTargetHaltId
    BY <1>2, <1>3, <1>7, <1>9, <2>1, <2>2, <2>3, FlushingStarts
  <2>5. /\ skipper' \in Members /\ skipper'.iTargetFlushId = after.iTargetFlushId
        /\ skipper'.iTargetHaltId # HaltInvalid => skipper'.iTargetHaltId \in HaltsToPull
    BY <1>5, <1>6, <1>7, <1>10, <2>1, <2>4
  <2> QED BY <1>3, <1>4, <1>5, <1>7, <1>9, <2>1, <2>5, FlushesProcessed
<1>12. ASSUME ~flushes PROVE IInv'
  <2>1. s = quiet /\ UNCHANGED <<source, flusher>>
    BY <1>8, <1>12
  <2> HIDE DEF quiet, after, flushes, s
  <2>2. /\ skipper' \in Members /\ skipper'.iTargetFlushId = skipper.iTargetFlushId
        /\ skipper'.iTargetHaltId \in {skipper.iTargetHaltId, HaltInvalid}
        /\ skipper'.iTargetHaltId # HaltInvalid => skipper'.iTargetHaltId # msg.n
    BY <1>7, <1>10, <2>1
  <2> QED BY <1>3, <1>4, <1>6, <2>1, <2>2, SkipperProcesses
<1> QED BY <1>11, <1>12

-----------------------------------------------------------------------------
(* The puller outside iLock.                                               *)

(* Pull() has no message in hand until it has pulled one. *)
MsgInHand == pc # "process" => msg = NoMsg

(* A message, or none, comes through the Flusher.  What is no longer to be *)
(* pulled is the message in hand, and the Flusher has seen it.             *)
LEMMA PulledKeeps ==
    ASSUME IInv, MsgInHand, pc # "process", UNCHANGED <<discard, remover>>,
           skipper' \in Members, skipper'.iTargetHaltId = skipper.iTargetHaltId,
           skipper'.iTargetFlushId = skipper.iTargetFlushId,
           line' \in Lines, pc' \in Places, msg' \in UpstreamMsgs \union {NoMsg},
           source' \in Sources, flusher' \in FlusherMembers, SourceInv', FlusherTargetsAhead',
           source'.halts = source.halts,
           \A n \in HaltsToPull : n \in HaltsToPull' \/ msg' = Msg("Halt", n),
           \A n \in FlushesToPull : \/ n \in FlushesToPull'
                                    \/ msg' = Msg("Flush", n) /\ n <= flusher'.iLastFlushId,
           flusher.iLastFlushId <= flusher'.iLastFlushId
    PROVE  IInv'
<1>1. TypeOK /\ SkipperTargetsAhead /\ RemoverAhead /\ DiscardKnown
  BY DEF IInv, TargetInv
<1>2. \A kind \in {"Halt", "Flush"} : \A n : msg # Msg(kind, n)
  BY DEF MsgInHand, NoMsg, Msg
<1>3. TypeOK'
  BY <1>1 DEF TypeOK, Places, Lines
<1>4. SkipperTargetsAhead'
  BY <1>1, <1>2 DEF SkipperTargetsAhead
<1>5. RemoverAhead'
  BY <1>1, <1>2 DEF RemoverAhead
<1>6. DiscardKnown'
  <2>1. discard.kind = "Flush" => discard.n \in Nat
    BY <1>1, TypeParts, IdAssumption DEF Targets, NoTarget, Msg, Flushes
  <2>2. flusher.iLastFlushId \in Nat /\ flusher'.iLastFlushId \in Nat
    BY <1>1, TypeParts, IdAssumption DEF FlusherMembers, Flushes, FlushInvalid
  <2>3. discard.kind = "Flush" => discard.n <= flusher'.iLastFlushId \/ discard.n \in FlushesToPull'
    BY <1>1, <2>1, <2>2 DEF DiscardKnown
  <2> QED BY <1>1, <2>3 DEF DiscardKnown
<1> QED BY <1>3, <1>4, <1>5, <1>6 DEF IInv, TargetInv

(* What the Flusher remembers of a message. *)
LEMMA ProcessedKeeps ==
    ASSUME NEW f \in FlusherMembers, NEW m, m.kind # "Flush", m.kind = "Halt" => m.n = HaltNone
    PROVE  /\ Processed(f, m) \in FlusherMembers
           /\ Processed(f, m).iTargetHaltId = f.iTargetHaltId
           /\ Processed(f, m).iTargetFlushId = f.iTargetFlushId
           /\ Processed(f, m).iLastHaltId = f.iLastHaltId
           /\ Processed(f, m).iLastFlushId = f.iLastFlushId
<1>1. Processed(f, m) \in {f, [f EXCEPT !.iPendingMetatext = TRUE], [f EXCEPT !.iPendingMetatext = FALSE]}
  BY DEF Processed
<1> QED BY <1>1 DEF FlusherMembers

LEMMA ProcessedHalt ==
    ASSUME NEW f \in FlusherMembers, NEW n \in Halts
    PROVE  LET g == Processed(f, Msg("Halt", n))
           IN /\ g \in FlusherMembers
              /\ g.iLastHaltId = n /\ g.iLastFlushId = f.iLastFlushId
              /\ g.iTargetFlushId = f.iTargetFlushId
              /\ g.iTargetHaltId = IF f.iTargetHaltId = n THEN HaltInvalid ELSE f.iTargetHaltId
<1>1. n # HaltNone
  BY IdAssumption DEF Halts, HaltNone
<1>2. Processed(f, Msg("Halt", n)) =
         [f EXCEPT !.iLastHaltId = n,
                   !.iTargetHaltId = IF f.iTargetHaltId = n THEN HaltInvalid ELSE f.iTargetHaltId]
  BY <1>1 DEF Processed, Msg, FlusherMembers
<1> QED BY <1>2 DEF FlusherMembers

LEMMA ProcessedFlush ==
    ASSUME NEW f \in FlusherMembers, NEW n \in Flushes
    PROVE  LET g == Processed(f, Msg("Flush", n))
           IN /\ g \in FlusherMembers
              /\ g.iLastFlushId = n /\ g.iLastHaltId = f.iLastHaltId
              /\ g.iTargetHaltId = f.iTargetHaltId
              /\ g.iTargetFlushId = IF f.iTargetFlushId = n THEN FlushInvalid ELSE f.iTargetFlushId
<1>1. Processed(f, Msg("Flush", n)) =
         [f EXCEPT !.iLastFlushId = n,
                   !.iTargetFlushId = IF f.iTargetFlushId = n THEN FlushInvalid ELSE f.iTargetFlushId]
  BY DEF Processed, Msg, FlusherMembers
<1> QED BY <1>1 DEF FlusherMembers

(* Where a message goes once the Flusher has seen it: to Skipper, or       *)
(* nowhere.                                                                *)
PassedOn(m) ==
    /\ flusher' = Processed(flusher, m) /\ UNCHANGED <<skipper, discard, remover>>
    /\ pc = "flush" /\ line' \in Lines
    /\ \/ UNCHANGED <<pc, msg>> /\ m.kind \in Flushable \union {"MetaText"}
       \/ msg' = m /\ pc' = "process"

LEMMA FlusherPullPassesOn ==
    ASSUME TypeOK, NEW m, FlusherPull(m)
    PROVE  UpstreamPull(m) /\ PassedOn(m)
<1>1. line \in Lines
  BY TypeParts
<1> QED BY <1>1 DEF FlusherPull, PassedOn, Discards, Lines, Dropped

(* A message that is neither a halt waited for nor a flush. *)
LEMMA PlainPassesOn ==
    ASSUME IInv, MsgInHand, NEW m \in UpstreamMsgs, PassedOn(m),
           m.kind # "Flush", m.kind = "Halt" => m.n = HaltNone,
           source' \in Sources, SourceInv', FlushesToPull \subseteq FlushesToPull',
           source'.halts = source.halts, source'.pulled = source.pulled
    PROVE  IInv'
<1>1. skipper \in Members /\ flusher \in FlusherMembers /\ FlusherTargetsAhead
  BY TypeParts DEF IInv, TargetInv
<1>2. /\ flusher' \in FlusherMembers
      /\ flusher'.iTargetHaltId = flusher.iTargetHaltId /\ flusher'.iTargetFlushId = flusher.iTargetFlushId
      /\ flusher'.iLastFlushId = flusher.iLastFlushId
  BY <1>1, ProcessedKeeps DEF PassedOn
<1>3. HaltsToPull' = HaltsToPull
  BY DEF HaltsToPull
<1>4. FlusherTargetsAhead'
  BY <1>1, <1>2, <1>3 DEF FlusherTargetsAhead
<1>5. flusher.iLastFlushId <= flusher'.iLastFlushId
  BY <1>1, <1>2, IdAssumption DEF FlusherMembers, Flushes, FlushInvalid
<1>6. pc # "process" /\ pc' \in Places /\ line' \in Lines /\ msg' \in UpstreamMsgs \union {NoMsg}
  BY DEF PassedOn, MsgInHand, Places
<1> QED BY <1>1, <1>2, <1>3, <1>4, <1>5, <1>6, PulledKeeps DEF PassedOn

(* Most messages leave the halts and flushes of upstream alone. *)
LEMMA QuietPull ==
    ASSUME IInv, MsgInHand, NEW m \in UpstreamMsgs, PassedOn(m),
           m.kind # "Flush", m.kind = "Halt" => m.n = HaltNone,
           source' \in Sources, PromisesKept',
           UNCHANGED <<source.owed, source.sent, source.flushes, source.halts, source.pulled>>
    PROVE  IInv'
<1>1. flusher \in FlusherMembers /\ source \in Sources /\ SourceInv
  BY TypeParts DEF IInv
<1>2. flusher'.iLastHaltId = flusher.iLastHaltId /\ flusher'.iLastFlushId = flusher.iLastFlushId
  BY <1>1, ProcessedKeeps DEF PassedOn
<1>3. msg'.kind = "Halt" => msg'.n <= source.pulled
  <2>1. HaltNone <= source.pulled
    BY <1>1, IdAssumption DEF Sources, HaltNone
  <2>2. msg.kind # "Halt"
    BY DEF PassedOn, MsgInHand, NoMsg, Msg
  <2> QED BY <2>1, <2>2 DEF PassedOn
<1>4. HaltsInOrder'
  BY <1>1, <1>2, <1>3 DEF SourceInv, HaltsInOrder
<1>5. FlushesInOrder'
  BY <1>1, <1>2 DEF SourceInv, FlushesInOrder
<1>6. FlushesToPull' = FlushesToPull
  BY DEF FlushesToPull, SentFlushes
<1> QED BY <1>4, <1>5, <1>6, PlainPassesOn DEF SourceInv

(* The next halt. *)
LEMMA HaltPull ==
    ASSUME IInv, MsgInHand, PassedOn(Msg("Halt", source.pulled + 1)), HaltDue,
           NEW next \in BOOLEAN,
           source' = [source EXCEPT !.pulled = source.pulled + 1, !.phase = "between", !.next = next]
    PROVE  IInv'
<1> DEFINE n == source.pulled + 1
<1>1. TypeOK /\ SourceInv /\ FlusherTargetsAhead
  BY DEF IInv, TargetInv
<1>2. skipper \in Members /\ flusher \in FlusherMembers /\ source \in Sources
  BY <1>1, TypeParts
<1>3. /\ n \in Halts /\ n \in 0 .. MaxHalts /\ n <= source.halts /\ source.halts \in Nat
      /\ n # 0 /\ n \in Nat
  BY <1>2, IdAssumption DEF HaltDue, Sources, Halts
<1>4. HaltsToPull \subseteq {n} \union (n + 1 .. source.halts)
  BY <1>3 DEF HaltsToPull
<1>5. /\ flusher' = Processed(flusher, Msg("Halt", n)) /\ UNCHANGED <<skipper, discard, remover>>
      /\ pc = "flush" /\ pc' = "process" /\ line' \in Lines /\ msg' = Msg("Halt", n)
  BY DEF PassedOn, Flushable, Msg
<1>6. source' = [source EXCEPT !.pulled = n, !.phase = "between", !.next = next]
  OBVIOUS
<1> HIDE DEF n
<1>7. /\ source' \in Sources /\ source'.pulled = n /\ source'.halts = source.halts
      /\ source'.owed = source.owed /\ source'.sent = source.sent /\ source'.flushes = source.flushes
      /\ source'.streaming = source.streaming /\ source'.stopping = source.stopping
  BY <1>2, <1>3, <1>6 DEF Sources
<1>8. /\ flusher' \in FlusherMembers /\ flusher'.iLastHaltId = n
      /\ flusher'.iLastFlushId = flusher.iLastFlushId /\ flusher'.iTargetFlushId = flusher.iTargetFlushId
      /\ flusher'.iTargetHaltId = IF flusher.iTargetHaltId = n THEN HaltInvalid ELSE flusher.iTargetHaltId
  BY <1>2, <1>3, <1>5, ProcessedHalt
<1>9. HaltsInOrder'
  BY <1>3, <1>5, <1>7, <1>8 DEF HaltsInOrder, Msg
<1>10. PromisesKept' /\ FlushesInOrder'
  BY <1>1, <1>7, <1>8 DEF SourceInv, PromisesKept, FlushesInOrder
<1>11. FlushesToPull' = FlushesToPull /\ HaltsToPull' = n + 1 .. source.halts
  BY <1>7 DEF FlushesToPull, SentFlushes, HaltsToPull
<1>12. FlusherTargetsAhead'
  BY <1>1, <1>4, <1>8, <1>11 DEF FlusherTargetsAhead
<1>13. msg' \in UpstreamMsgs
  BY <1>3, <1>5 DEF UpstreamMsgs
<1>14. \A k \in HaltsToPull : k \in HaltsToPull' \/ msg' = Msg("Halt", k)
  BY <1>4, <1>5, <1>11
<1>15. flusher.iLastFlushId <= flusher'.iLastFlushId
  BY <1>2, <1>8, IdAssumption DEF FlusherMembers, Flushes, FlushInvalid
<1>16. pc # "process" /\ pc' \in Places
  BY <1>5 DEF Places
<1> QED
  BY <1>2, <1>5, <1>7, <1>8, <1>9, <1>10, <1>11, <1>12, <1>13, <1>14, <1>15, <1>16, PulledKeeps DEF SourceInv

(* The next flush. *)
LEMMA FlushPull ==
    ASSUME IInv, MsgInHand, source.sent # << >>, PassedOn(Msg("Flush", Head(source.sent))),
           source' = [source EXCEPT !.sent = Tail(source.sent)]
    PROVE  IInv'
<1> DEFINE n == Head(source.sent)
<1>1. TypeOK /\ SourceInv /\ FlusherTargetsAhead
  BY DEF IInv, TargetInv
<1>2. skipper \in Members /\ flusher \in FlusherMembers /\ source \in Sources
  BY <1>1, TypeParts
<1>3. source.sent \in Seq(Flushes) /\ Tail(source.sent) \in Seq(Flushes) /\ n \in Flushes
  BY <1>2 DEF Sources
<1>4. /\ Len(source.sent) \in Nat \ {0} /\ DOMAIN source.sent = 1 .. Len(source.sent)
      /\ n = source.sent[1]
      /\ DOMAIN Tail(source.sent) = 1 .. Len(source.sent) - 1
      /\ \A i \in 1 .. Len(source.sent) - 1 : Tail(source.sent)[i] = source.sent[i + 1]
  BY <1>3
<1>5. /\ flusher' = Processed(flusher, Msg("Flush", n)) /\ UNCHANGED <<skipper, discard, remover>>
      /\ pc = "flush" /\ pc' = "process" /\ line' \in Lines /\ msg' = Msg("Flush", n)
  BY DEF PassedOn, Flushable, Msg
<1>6. /\ source' \in Sources /\ source'.pulled = source.pulled /\ source'.halts = source.halts
      /\ source'.owed = source.owed /\ source'.sent = Tail(source.sent) /\ source'.flushes = source.flushes
      /\ source'.streaming = source.streaming /\ source'.stopping = source.stopping
  BY <1>2, <1>3 DEF Sources
<1> HIDE DEF n
<1>7. /\ n \in Nat /\ flusher.iLastFlushId \in Nat /\ source.owed \in Nat /\ source.flushes \in Nat
      /\ \A i \in DOMAIN source.sent : source.sent[i] \in Nat
  <2>1. n \in Nat
    BY <1>3, IdAssumption DEF Flushes
  <2>2. /\ flusher.iLastFlushId \in Nat /\ source.owed \in Nat /\ source.flushes \in Nat
        /\ \A i \in DOMAIN source.sent : source.sent[i] \in Nat
    BY SMTT(20), <1>2, IdAssumption DEF FlusherMembers, Sources, Flushes, FlushInvalid
  <2> QED BY <2>1, <2>2
<1>8. flusher.iLastFlushId < n /\ n <= source.flushes /\ (source.owed # FlushInvalid => n < source.owed)
  BY <1>1, <1>4 DEF SourceInv, FlushesInOrder
<1>9. \A i \in 1 .. Len(source.sent) - 1 : n < source.sent[i + 1]
  <2>1. \A i \in 1 .. Len(source.sent) - 1 : i + 1 \in DOMAIN source.sent /\ 1 < i + 1
    BY <1>4
  <2>2. 1 \in DOMAIN source.sent
    BY <1>4
  <2> QED BY <1>1, <1>4, <2>1, <2>2 DEF SourceInv, FlushesInOrder
<1>10. /\ flusher' \in FlusherMembers /\ flusher'.iLastFlushId = n
       /\ flusher'.iLastHaltId = flusher.iLastHaltId /\ flusher'.iTargetHaltId = flusher.iTargetHaltId
       /\ flusher'.iTargetFlushId = IF flusher.iTargetFlushId = n THEN FlushInvalid ELSE flusher.iTargetFlushId
  BY <1>2, <1>3, <1>5, ProcessedFlush
<1>11. HaltsInOrder' /\ PromisesKept'
  BY <1>1, <1>5, <1>6, <1>10 DEF SourceInv, HaltsInOrder, PromisesKept, Msg
<1>12. FlushesInOrder'
  <2>1. \A i \in DOMAIN source'.sent : /\ i + 1 \in DOMAIN source.sent
                                       /\ source'.sent[i] = source.sent[i + 1] /\ n < source'.sent[i]
    BY <1>4, <1>6, <1>9
  <2>2. \A i \in DOMAIN source'.sent :
           /\ source'.sent[i] <= source'.flushes
           /\ source'.owed # FlushInvalid => source'.sent[i] < source'.owed
    BY <1>1, <1>6, <2>1 DEF SourceInv, FlushesInOrder
  <2>3. \A i, j \in DOMAIN source'.sent : i < j => source'.sent[i] < source'.sent[j]
    <3>1. \A i, j \in DOMAIN source'.sent : i < j => i + 1 < j + 1
      BY <1>4, <1>6
    <3> QED BY <1>1, <2>1, <3>1 DEF SourceInv, FlushesInOrder
  <2> QED BY <1>6, <1>8, <1>10, <2>1, <2>2, <2>3 DEF FlushesInOrder
<1>13. FlushesToPull \subseteq {n} \union FlushesToPull'
  <2>1. \A i \in DOMAIN source.sent : \/ source.sent[i] = n
                                      \/ \E k \in DOMAIN source'.sent : source'.sent[k] = source.sent[i]
    <3>1. SUFFICES ASSUME NEW i \in DOMAIN source.sent, i # 1
                   PROVE  \E k \in DOMAIN source'.sent : source'.sent[k] = source.sent[i]
      BY <1>4
    <3>2. i - 1 \in DOMAIN source'.sent /\ source'.sent[i - 1] = source.sent[i]
      BY <1>4, <1>6, <3>1
    <3> QED BY <3>2
  <2> QED BY <1>6, <2>1 DEF FlushesToPull, SentFlushes
<1>14. HaltsToPull' = HaltsToPull
  BY <1>6 DEF HaltsToPull
<1>15. FlusherTargetsAhead'
  BY <1>1, <1>10, <1>13, <1>14 DEF FlusherTargetsAhead
<1>16. msg' \in UpstreamMsgs /\ pc # "process" /\ pc' \in Places
  BY <1>3, <1>5 DEF UpstreamMsgs, Places
<1>17. \A k \in FlushesToPull : \/ k \in FlushesToPull'
                                \/ msg' = Msg("Flush", k) /\ k <= flusher'.iLastFlushId
  BY <1>5, <1>7, <1>10, <1>13
<1>18. flusher.iLastFlushId <= flusher'.iLastFlushId
  BY <1>7, <1>8, <1>10
<1> QED
  BY <1>2, <1>5, <1>6, <1>10, <1>11, <1>12, <1>14, <1>15, <1>16, <1>17, <1>18, PulledKeeps DEF SourceInv

(* The start of a stream, which the Flusher may discard; the protocol is   *)
(* told to stop then.                                                      *)
LEMMA DecodedPull ==
    ASSUME IInv, MsgInHand, NEW m \in UpstreamMsgs, PassedOn(m), m.kind = "Decoded",
           NEW after, after = [source EXCEPT !.phase = "decoded"],
           source' \in {after, Stopping(after, after.stream)}
    PROVE  IInv'
<1>1. TypeOK /\ SourceInv
  BY DEF IInv
<1>2. source \in Sources /\ flusher \in FlusherMembers
  BY <1>1, TypeParts
<1>3. /\ after \in Sources /\ after = [source EXCEPT !.phase = after.phase]
      /\ after.owed = source.owed /\ after.sent = source.sent /\ after.flushes = source.flushes
      /\ after.halts = source.halts /\ after.pulled = source.pulled
      /\ after.streaming = source.streaming /\ after.stopping = source.stopping
  BY <1>2 DEF Sources
<1>4. CASE source' = after
  <2>1. PromisesKept'
    BY <1>1, <1>3, <1>4 DEF SourceInv, PromisesKept
  <2> QED BY <1>3, <1>4, <2>1, QuietPull
<1>5. CASE source' = Stopping(after, after.stream)
  <2>1. UNCHANGED <<flusher.iLastHaltId, flusher.iLastFlushId>>
    BY <1>2, ProcessedKeeps DEF PassedOn
  <2>2. msg'.kind = "Halt" => msg' = msg
    BY DEF PassedOn
  <2>3. /\ source' \in Sources /\ SourceInv' /\ FlushesToPull \subseteq FlushesToPull'
        /\ source'.halts = source.halts /\ source'.pulled = source.pulled
    BY <1>1, <1>3, <1>5, <2>1, <2>2, StoppingKeeps
  <2> QED BY <2>3, PlainPassesOn
<1> QED BY <1>4, <1>5

LEMMA FlusherPullInv ==
    ASSUME IInv, MsgInHand, NEW m \in UpstreamMsgs, FlusherPull(m)
    PROVE  IInv'
<1>1. UpstreamPull(m) /\ PassedOn(m)
  BY FlusherPullPassesOn DEF IInv
<1>2. source \in Sources /\ PromisesKept
  BY TypeParts DEF IInv, SourceInv
<1>3. ASSUME m.kind \notin {"Flush", "Halt"} \/ m = Msg("Halt", HaltNone),
             source' \in Sources, PromisesKept',
             UNCHANGED <<source.owed, source.sent, source.flushes, source.halts, source.pulled>>
      PROVE  IInv'
  <2>1. m.kind # "Flush" /\ (m.kind = "Halt" => m.n = HaltNone)
    BY <1>3 DEF Msg
  <2> QED BY <1>1, <1>3, <2>1, QuietPull
<1>4. ASSUME m = Msg("Track", 0), NEW next \in BOOLEAN,
             source' = [source EXCEPT !.phase = "track", !.next = next]
      PROVE  IInv'
  <2>1. /\ source' \in Sources /\ PromisesKept'
        /\ UNCHANGED <<source.owed, source.sent, source.flushes, source.halts, source.pulled>>
    BY <1>2, <1>4 DEF Sources, PromisesKept
  <2>2. m.kind \notin {"Flush", "Halt"}
    BY <1>4 DEF Msg
  <2> QED BY <1>3, <2>1, <2>2
<1>5. ASSUME m = Msg("Encoded", source.stream + 1), Boundary,
             source.stream < MaxStreams, source.flushes < MaxFlushes,
             source' = [source EXCEPT !.stream = source.stream + 1, !.phase = "encoded",
                                      !.streaming = HaltDue => source.next]
      PROVE  IInv'
  <2> DEFINE stream == source.stream + 1
             streaming == HaltDue => source.next
  <2>1. stream \in 0 .. MaxStreams /\ streaming \in BOOLEAN
    BY <1>2, <1>5, StreamAssumption, IdAssumption DEF Sources
  <2>2. source' = [source EXCEPT !.stream = stream, !.phase = "encoded", !.streaming = streaming]
    BY <1>5
  <2> HIDE DEF stream, streaming
  <2>3. /\ source' \in Sources /\ source'.stopping = source.stopping
        /\ UNCHANGED <<source.owed, source.sent, source.flushes, source.halts, source.pulled>>
    BY <1>2, <2>1, <2>2 DEF Sources
  <2>4. source.owed = FlushInvalid /\ ~source.stopping
    BY <1>2, <1>5 DEF PromisesKept, Boundary
  <2>5. PromisesKept'
    BY <1>5, <2>3, <2>4 DEF PromisesKept
  <2>6. m.kind \notin {"Flush", "Halt"}
    BY <1>5 DEF Msg
  <2> QED BY <1>3, <2>3, <2>5, <2>6
<1>6. ASSUME m = Msg("Decoded", source.stream),
             source' \in {[source EXCEPT !.phase = "decoded"],
                          Stopping([source EXCEPT !.phase = "decoded"],
                                   [source EXCEPT !.phase = "decoded"].stream)}
      PROVE  IInv'
  <2> DEFINE after == [source EXCEPT !.phase = "decoded"]
  <2>1. source' \in {after, Stopping(after, after.stream)} /\ after = [source EXCEPT !.phase = "decoded"]
    BY <1>6
  <2> HIDE DEF after
  <2>2. m.kind = "Decoded"
    BY <1>6 DEF Msg
  <2> QED BY <1>1, <2>1, <2>2, DecodedPull
<1>7. ASSUME m.kind \notin {"Flush", "Halt"} \/ m = Msg("Halt", HaltNone), source' = source
      PROVE  IInv'
  <2>1. PromisesKept'
    BY <1>2, <1>7 DEF PromisesKept
  <2> QED BY <1>2, <1>3, <1>7, <2>1
<1>8. ASSUME m \in {Msg("Mode", RampLong), Msg("Mode", RampShort)},
             source' = [source EXCEPT !.phase = "between"]
      PROVE  IInv'
  <2>1. /\ source' \in Sources /\ PromisesKept'
        /\ UNCHANGED <<source.owed, source.sent, source.flushes, source.halts, source.pulled>>
    BY <1>2, <1>8 DEF Sources, PromisesKept
  <2>2. m.kind \notin {"Flush", "Halt"}
    BY <1>8 DEF Msg
  <2> QED BY <1>3, <2>1, <2>2
<1>9. ASSUME m = Msg("Halt", source.pulled + 1), HaltDue, NEW next \in BOOLEAN,
             source' = [source EXCEPT !.pulled = source.pulled + 1, !.phase = "between", !.next = next]
      PROVE  IInv'
  BY <1>1, <1>9, HaltPull
<1>10. ASSUME source.sent # << >>, m = Msg("Flush", Head(source.sent)),
              source' = [source EXCEPT !.sent = Tail(source.sent)]
       PROVE  IInv'
  BY <1>1, <1>10, FlushPull
<1>11. ASSUME m = Msg("Quit", 0), source' = [source EXCEPT !.phase = "over"]
       PROVE  IInv'
  <2>1. /\ source' \in Sources /\ PromisesKept'
        /\ UNCHANGED <<source.owed, source.sent, source.flushes, source.halts, source.pulled>>
    BY <1>2, <1>11 DEF Sources, PromisesKept
  <2>2. m.kind \notin {"Flush", "Halt"}
    BY <1>11 DEF Msg
  <2> QED BY <1>3, <2>1, <2>2
<1>12. \/ /\ m = Msg("Track", 0)
          /\ \E next \in BOOLEAN : source' = [source EXCEPT !.phase = "track", !.next = next]
       \/ /\ m = Msg("Encoded", source.stream + 1) /\ Boundary
          /\ source.stream < MaxStreams /\ source.flushes < MaxFlushes
          /\ source' = [source EXCEPT !.stream = source.stream + 1, !.phase = "encoded",
                                      !.streaming = HaltDue => source.next]
       \/ /\ m = Msg("Decoded", source.stream)
          /\ source' \in {[source EXCEPT !.phase = "decoded"],
                          Stopping([source EXCEPT !.phase = "decoded"],
                                   [source EXCEPT !.phase = "decoded"].stream)}
       \/ /\ m.kind \notin {"Flush", "Halt"} \/ m = Msg("Halt", HaltNone)
          /\ source' = source
       \/ /\ m \in {Msg("Mode", RampLong), Msg("Mode", RampShort)}
          /\ source' = [source EXCEPT !.phase = "between"]
       \/ /\ m = Msg("Halt", source.pulled + 1) /\ HaltDue
          /\ \E next \in BOOLEAN :
               source' = [source EXCEPT !.pulled = source.pulled + 1, !.phase = "between", !.next = next]
       \/ /\ source.sent # << >> /\ m = Msg("Flush", Head(source.sent))
          /\ source' = [source EXCEPT !.sent = Tail(source.sent)]
       \/ /\ m = Msg("Quit", 0) /\ source' = [source EXCEPT !.phase = "over"]
  <2>1. \A k \in {Msg("Audio", n) : n \in 1 .. MaxAudio} \union {Msg("Silence", 0)}
               \union {Msg("Interrupted", 0), Msg("Wait", 0), Msg("TrackMidStream", 0)} :
             k.kind \notin {"Flush", "Halt"}
    BY DEF Msg
  <2>2. \A k \in {MetaText, Msg("Drain", 0), Msg("Halt", HaltNone)} :
             k.kind \notin {"Flush", "Halt"} \/ k = Msg("Halt", HaltNone)
    BY DEF MetaText, Msg
  <2> QED BY <1>1, <2>1, <2>2 DEF UpstreamPull
<1> QED BY <1>4, <1>5, <1>6, <1>7, <1>8, <1>9, <1>10, <1>11, <1>12

(* Asking for a halt, and the text held back. *)
LEMMA PullerStartsInv ==
    ASSUME IInv, MsgInHand
    PROVE  /\ CheckHaltPending => IInv'
           /\ PullPendingMetatext => IInv'
<1>1. /\ skipper \in Members /\ flusher \in FlusherMembers /\ source \in Sources /\ line \in Lines
      /\ SourceInv /\ FlusherTargetsAhead
  BY TypeParts DEF IInv, TargetInv
<1>2. ASSUME skipper' \in Members, skipper'.iTargetHaltId = skipper.iTargetHaltId,
             skipper'.iTargetFlushId = skipper.iTargetFlushId,
             flusher' \in FlusherMembers, flusher'.iTargetHaltId = flusher.iTargetHaltId,
             flusher'.iTargetFlushId = flusher.iTargetFlushId,
             flusher'.iLastHaltId = flusher.iLastHaltId, flusher'.iLastFlushId = flusher.iLastFlushId,
             pc # "process", pc' \in Places, msg' \in {NoMsg, MetaText, Msg("Halt", HaltNone)},
             UNCHANGED <<discard, remover, source, line>>
      PROVE  IInv'
  <2>1. HaltsToPull' = HaltsToPull /\ FlushesToPull' = FlushesToPull
    BY <1>2 DEF HaltsToPull, FlushesToPull, SentFlushes
  <2>2. msg'.kind = "Halt" => msg'.n <= source.pulled
    <3>1. HaltNone <= source.pulled
      BY <1>1, IdAssumption DEF Sources, HaltNone
    <3> QED BY <1>2, <3>1 DEF NoMsg, MetaText, Msg
  <2>3. SourceInv'
    BY <1>1, <1>2, <2>2 DEF SourceInv, HaltsInOrder, PromisesKept, FlushesInOrder
  <2>4. FlusherTargetsAhead'
    BY <1>1, <1>2, <2>1 DEF FlusherTargetsAhead
  <2>5. flusher.iLastFlushId <= flusher'.iLastFlushId
    BY <1>1, <1>2, IdAssumption DEF FlusherMembers, Flushes, FlushInvalid
  <2>6. msg' \in UpstreamMsgs \union {NoMsg}
    BY <1>2 DEF UpstreamMsgs, MetaText
  <2> QED BY <1>1, <1>2, <2>1, <2>3, <2>4, <2>5, <2>6, PulledKeeps
<1>3. ASSUME CheckHaltPending PROVE IInv'
  <2>1. /\ skipper' \in Members /\ skipper'.iTargetHaltId = skipper.iTargetHaltId
        /\ skipper'.iTargetFlushId = skipper.iTargetFlushId
    BY <1>1, <1>3 DEF CheckHaltPending, Members
  <2>2. /\ UNCHANGED <<flusher, discard, remover, source, line>> /\ pc # "process" /\ pc' \in Places
        /\ msg' \in {NoMsg, MetaText, Msg("Halt", HaltNone)}
    BY <1>3 DEF CheckHaltPending, Places
  <2> QED BY <1>1, <1>2, <2>1, <2>2
<1>4. ASSUME PullPendingMetatext PROVE IInv'
  <2>1. /\ flusher' \in FlusherMembers /\ flusher'.iTargetHaltId = flusher.iTargetHaltId
        /\ flusher'.iTargetFlushId = flusher.iTargetFlushId
        /\ flusher'.iLastHaltId = flusher.iLastHaltId /\ flusher'.iLastFlushId = flusher.iLastFlushId
    BY <1>1, <1>4 DEF PullPendingMetatext, FlusherMembers
  <2>2. /\ UNCHANGED <<skipper, discard, remover, source, line>> /\ pc # "process" /\ pc' \in Places
        /\ msg' = MetaText
    BY <1>4 DEF PullPendingMetatext, Places
  <2> QED BY <1>1, <1>2, <2>1, <2>2
<1> QED BY <1>3, <1>4

-----------------------------------------------------------------------------
(* Every step.                                                             *)
LEMMA InitInv == Init => IInv /\ MsgInHand
<1> SUFFICES ASSUME Init PROVE IInv /\ MsgInHand
  OBVIOUS
<1> USE DEF Init, NewFlusher, NoMsg, NoTarget, Msg
<1>1. /\ 0 \in Nat /\ 0 \in 0 .. MaxStreams /\ 0 \in 0 .. MaxFlushes /\ 0 \in 0 .. MaxHalts
      /\ 0 \in 0 .. (RampLong + RampShort) /\ << >> \in Seq(Flushes)
  BY IdAssumption, StreamAssumption
<1>2. skipper \in Members /\ flusher \in FlusherMembers
  BY <1>1 DEF Members, FlusherMembers, StreamInvalid, eStarting
<1>3. source \in Sources
  BY <1>1 DEF Sources
<1>4. TypeOK
  BY <1>2, <1>3 DEF TypeOK
<1>5. HaltsInOrder
  BY DEF HaltsInOrder
<1>6. PromisesKept
  BY DEF PromisesKept
<1>7. FlushesInOrder
  BY DEF FlushesInOrder, FlushInvalid
<1>8. TargetInv
  BY DEF TargetInv, FlusherTargetsAhead, SkipperTargetsAhead, DiscardKnown, RemoverAhead
<1> QED BY <1>4, <1>5, <1>6, <1>7, <1>8 DEF IInv, SourceInv, MsgInHand

LEMMA NextMsgInHand == MsgInHand /\ [Next]_vars => MsgInHand'
<1> SUFFICES ASSUME MsgInHand, [Next]_vars PROVE MsgInHand'
  OBVIOUS
<1>1. CASE UNCHANGED <<pc, msg>>
  BY <1>1 DEF MsgInHand
<1>2. CASE pc' = "process" \/ msg' = NoMsg
  BY <1>2 DEF MsgInHand
<1>3. CASE Puller
  <2>1. CheckHaltPending => pc' = "process" \/ msg' = NoMsg
    BY DEF CheckHaltPending
  <2>2. PullPendingMetatext => pc' = "process"
    BY DEF PullPendingMetatext
  <2>3. \A m \in UpstreamMsgs : FlusherPull(m) => pc' = "process" \/ UNCHANGED <<pc, msg>>
    BY DEF FlusherPull
  <2>4. Process => msg' = NoMsg
    BY DEF Process, Processes, ProcessMode, ProcessTrack, ProcessDrain, ProcessEncoded, ProcessMetaText,
           ProcessInterrupted, ProcessHalt, ProcessFlush, ProcessWait, ProcessDecoded, ProcessAudio,
           ProcessSilence, ProcessQuit
  <2> QED BY <1>1, <1>2, <1>3, <2>1, <2>2, <2>3, <2>4 DEF Puller
<1>4. CASE ~Puller /\ Next
  BY <1>1, <1>4 DEF Next, Discard, TrySeek, OutputFlush, StreamEnds, RemoveCurrentStream, TryRemoveStream,
                    Block, RemoveAll, Unblock, NotifyStarving, TryStop
<1>5. CASE UNCHANGED vars
  BY <1>1, <1>5 DEF vars
<1> QED BY <1>3, <1>4, <1>5

LEMMA NextInv == IInv /\ MsgInHand /\ [Next]_vars => IInv'
<1> SUFFICES ASSUME IInv, MsgInHand, [Next]_vars PROVE IInv'
  OBVIOUS
<1>1. CASE Puller
  <2>1. Process => IInv'
    BY ProcessOthersInv, ProcessSoundInv, ProcessFlushInv, ProcessHaltInv DEF Process
  <2> QED BY <1>1, <2>1, PullerStartsInv, FlusherPullInv DEF Puller
<1>2. CASE Discard
  BY <1>2, DiscardInv
<1>3. CASE TrySeek \/ OutputFlush \/ StreamEnds \/ TryStop
  BY <1>3, ProtocolInv
<1>4. CASE \/ \E rampDown \in BOOLEAN : RemoveCurrentStream(rampDown)
           \/ \E id \in 1 .. MaxStreams, rampDown \in BOOLEAN : TryRemoveStream(id, rampDown)
           \/ \E rampDown \in BOOLEAN : RemoveAll(rampDown)
           \/ Unblock
  BY <1>4, RemovalsInv
<1>5. CASE Block
  BY <1>5, BlockInv
<1>6. CASE NotifyStarving
  BY <1>6, NotifyStarvingInv
<1>7. CASE UNCHANGED vars
  BY <1>7 DEF vars, IInv, TypeOK, SourceInv, HaltsInOrder, PromisesKept, FlushesInOrder, TargetInv,
              FlusherTargetsAhead, SkipperTargetsAhead, DiscardKnown, RemoverAhead, FlushesToPull,
              SentFlushes, HaltsToPull
<1> QED BY <1>1, <1>2, <1>3, <1>4, <1>5, <1>6, <1>7 DEF Next

(* The inductive invariant holds throughout. *)
LEMMA IInvHolds == Spec => []IInv
<1>1. Spec => [](IInv /\ MsgInHand)
  <2>1. IInv /\ MsgInHand /\ [Next]_vars => (IInv /\ MsgInHand)'
    BY NextInv, NextMsgInHand
  <2> QED BY InitInv, <2>1, PTL DEF Spec
<1> QED BY <1>1, PTL

-----------------------------------------------------------------------------
(* Every member of Skipper and its Flusher, and what is under way around   *)
(* them, keeps its range.                                                  *)
THEOREM TypeCorrect == Spec => []TypeOK
<1>1. IInv => TypeOK
  BY DEF IInv
<1> QED BY IInvHolds, <1>1, PTL

(* The Flusher never waits for a halt or a flush that it has pulled        *)
(* already, so that it never discards everything from then on: told late   *)
(* (Skipper.cpp:342), it compares the id with the last one it has pulled   *)
(* (Flusher.cpp:34).                                                       *)
THEOREM FlusherAlwaysAhead == Spec => []FlusherTargetsAhead
<1>1. IInv => FlusherTargetsAhead
  BY DEF IInv, TargetInv
<1> QED BY IInvHolds, <1>1, PTL

(* Skipper never waits for a halt or a flush that it has processed         *)
(* already (Skipper.cpp:68, :340), so that no stream starts in eFlushing   *)
(* for the sake of a removal that is over.                                 *)
THEOREM SkipperAlwaysAhead == Spec => []SkipperTargetsAhead
<1>1. IInv => SkipperTargetsAhead
  BY DEF IInv, TargetInv
<1> QED BY IInvHolds, <1>1, PTL

-----------------------------------------------------------------------------
(* What is heard, and the flush that is waited for.                        *)

(* A halt of Filler's in hand is the last one pulled, and nothing of the   *)
(* stream before it is left upstream.                                      *)
HaltAtBoundary == msg.kind = "Halt" /\ msg.n # HaltNone => Boundary /\ msg.n = source.pulled

Flushing == skipper.iState = eFlushing
HaltComing == skipper.iHaltPending \/ (pc = "process" /\ msg.kind = "Halt")

(* Audio has been cut off, or is about to be. *)
Cut == \/ line = "gap"
       \/ line = "audible" /\ (Flushing \/ IsFlushing(flusher))

WaitingInv == skipper.iTargetFlushId # FlushInvalid => Flushing
TellingInv == discard # NoTarget => Flushing
PendingInv == skipper.iHaltPending => pc = "top" \/ Flushing
AudioInv == IsFlushing(flusher) /\ pc = "process" /\ msg.kind = "Audio" => Flushing
GapInv == line # "glitch" /\ (Cut => HaltComing)

HeardInv == WaitingInv /\ TellingInv /\ PendingInv /\ AudioInv /\ GapInv

LEMMA StoppingMovesNothing ==
    ASSUME NEW src \in Sources, NEW id
    PROVE  LET after == Stopping(src, id)
           IN /\ after.streaming = src.streaming /\ after.sent = src.sent
              /\ after.pulled = src.pulled /\ after.halts = src.halts
<1> DEFINE p == Promised(src, id)
           n == IF src.owed # FlushInvalid THEN src.flushes ELSE src.flushes + 1
<1>1. Stopping(src, id) \in {src, [src EXCEPT !.owed = p, !.stopping = TRUE, !.flushes = n]}
  BY DEF Stopping, Sources
<1> HIDE DEF p, n
<1> QED BY <1>1 DEF Sources

LEMMA StartFlushingFields ==
    ASSUME NEW s \in Members, NEW generateHalt \in BOOLEAN
    PROVE  LET after == StartFlushing(s, generateHalt)
           IN /\ after.iState = eFlushing /\ after.iTargetHaltId = s.iTargetHaltId
              /\ after.iTargetFlushId = Promised(source, s.iStreamId)
              /\ generateHalt => after.iHaltPending
              /\ after.iTargetHaltId # HaltInvalid => Target(after) = Msg("Halt", s.iTargetHaltId)
BY DEF StartFlushing, Members, Target

(* A halt comes with every flush of a stream that is heard. *)
LEMMA FlushHeard ==
    ASSUME skipper'.iState = eFlushing, skipper'.iHaltPending, line' # "glitch"
    PROVE  HeardInv'
BY DEF HeardInv, WaitingInv, TellingInv, PendingInv, AudioInv, GapInv, Cut, HaltComing, Flushing

(* Nobody moves, or a removal ramps down. *)
LEMMA NothingHeard ==
    ASSUME HeardInv, UNCHANGED <<flusher, pc, msg, discard>>, line' \in {line, "silent"},
           UNCHANGED <<skipper.iTargetFlushId, skipper.iHaltPending>>,
           (skipper'.iState = eFlushing) <=> (skipper.iState = eFlushing)
    PROVE  HeardInv'
BY DEF HeardInv, WaitingInv, TellingInv, PendingInv, AudioInv, GapInv, Cut, HaltComing, Flushing, IsFlushing

(* A message that is neither audio nor a halt is processed. *)
LEMMA ProcessedUnheard ==
    ASSUME HeardInv, LockFree, msg.kind # "Halt", UNCHANGED <<flusher, discard, line, skipper.iHaltPending>>,
           pc' = "top", msg' = NoMsg,
           skipper'.iState = eFlushing => skipper.iState = eFlushing,
           skipper'.iTargetFlushId # FlushInvalid => skipper'.iState = eFlushing
    PROVE  HeardInv'
<1>1. msg'.kind # "Audio" /\ discard' = NoTarget
  BY DEF NoMsg, Msg, LockFree
<1>2. Cut' => Cut
  BY DEF Cut, Flushing, IsFlushing
<1>3. HaltComing => skipper'.iHaltPending
  BY DEF HaltComing
<1>4. GapInv'
  BY <1>2, <1>3 DEF HeardInv, GapInv, HaltComing
<1> QED BY <1>1, <1>4 DEF HeardInv, WaitingInv, TellingInv, PendingInv, AudioInv, Flushing

LEMMA RemovalsHeard ==
    ASSUME IInv, HeardInv
    PROVE  /\ \A rampDown \in BOOLEAN : RemoveCurrentStream(rampDown) => HeardInv'
           /\ \A id \in 1 .. MaxStreams, rampDown \in BOOLEAN : TryRemoveStream(id, rampDown) => HeardInv'
           /\ \A rampDown \in BOOLEAN : RemoveAll(rampDown) => HeardInv'
           /\ NotifyStarving => HeardInv'
<1>1. skipper \in Members /\ remover \in Halts \union {HaltInvalid} /\ line # "glitch"
  BY TypeParts DEF IInv, HeardInv, GapInv
<1>2. ASSUME NEW s \in Members, NEW rampDown \in BOOLEAN, TryRemoveCurrentStream(s, rampDown),
             UNCHANGED <<flusher, pc, msg, line>>,
             s.iState = skipper.iState, s.iTargetFlushId = skipper.iTargetFlushId,
             s.iHaltPending = skipper.iHaltPending
      PROVE  HeardInv'
  <2>1. CASE skipper' = StartFlushing(s, TRUE)
    BY <1>1, <1>2, <2>1, StartFlushingFields, FlushHeard
  <2>2. CASE /\ UNCHANGED discard
             /\ skipper' = IF s.iState = eRunning
                             THEN [s EXCEPT !.iState = eRamping, !.iRemainingRampSize = s.iRampJiffies]
                             ELSE s
    <3>1. /\ UNCHANGED <<skipper.iTargetFlushId, skipper.iHaltPending>>
          /\ (skipper'.iState = eFlushing) <=> (skipper.iState = eFlushing)
      BY <1>2, <2>2 DEF Members, eRunning, eRamping, eFlushing
    <3> QED BY <1>2, <2>2, <3>1, NothingHeard
  <2> QED BY <1>2, <2>1, <2>2 DEF TryRemoveCurrentStream
<1>3. ASSUME NEW rampDown \in BOOLEAN,
             \/ RemoveCurrentStream(rampDown)
             \/ \E id \in 1 .. MaxStreams : TryRemoveStream(id, rampDown)
      PROVE  HeardInv'
  BY <1>1, <1>2, <1>3 DEF RemoveCurrentStream, TryRemoveStream
<1>4. ASSUME NEW rampDown \in BOOLEAN, RemoveAll(rampDown) PROVE HeardInv'
  <2> DEFINE s == [skipper EXCEPT !.iTargetHaltId = remover]
  <2>1. s \in Members /\ s.iState = skipper.iState /\ s.iTargetFlushId = skipper.iTargetFlushId
        /\ s.iHaltPending = skipper.iHaltPending
    BY <1>1 DEF Members
  <2>2. TryRemoveCurrentStream(s, rampDown) /\ UNCHANGED <<flusher, pc, msg, line>>
    BY <1>4 DEF RemoveAll
  <2> QED BY <1>2, <2>1, <2>2
<1>5. ASSUME NotifyStarving PROVE HeardInv'
  <2> DEFINE quiet == [skipper EXCEPT !.iRunning = FALSE]
  <2>1. quiet \in Members /\ quiet.iState = skipper.iState /\ quiet.iTargetFlushId = skipper.iTargetFlushId
        /\ quiet.iHaltPending = skipper.iHaltPending
    BY <1>1 DEF Members
  <2>2. line' = "silent" /\ UNCHANGED <<flusher, pc, msg>>
    BY <1>1, <1>5 DEF NotifyStarving, Halted
  <2>3. \/ skipper' = StartFlushing(quiet, TRUE)
        \/ skipper' = quiet /\ UNCHANGED discard
    BY <1>5 DEF NotifyStarving
  <2> HIDE DEF quiet
  <2>4. CASE skipper' = StartFlushing(quiet, TRUE)
    BY <2>1, <2>2, <2>4, StartFlushingFields, FlushHeard
  <2>5. CASE skipper' = quiet /\ UNCHANGED discard
    BY <2>1, <2>2, <2>5, NothingHeard
  <2> QED BY <2>3, <2>4, <2>5
<1> QED BY <1>3, <1>4, <1>5

LEMMA OutsideHeard ==
    ASSUME HeardInv,
           TrySeek \/ OutputFlush \/ StreamEnds \/ TryStop \/ Block \/ Unblock
    PROVE  HeardInv'
BY NothingHeard DEF TrySeek, OutputFlush, StreamEnds, TryStop, Block, Unblock

LEMMA DiscardHeard ==
    ASSUME HeardInv, Discard
    PROVE  HeardInv'
<1>1. Flushing /\ Flushing' /\ UNCHANGED <<skipper, pc, msg, line>>
  BY DEF Discard, HeardInv, TellingInv, Flushing
<1>2. Cut' => Cut
  BY <1>1 DEF Cut
<1>3. HaltComing <=> HaltComing'
  BY <1>1 DEF HaltComing
<1> QED BY <1>1, <1>2, <1>3 DEF HeardInv, WaitingInv, TellingInv, PendingInv, AudioInv, GapInv

LEMMA PullStartsHeard ==
    ASSUME IInv, HeardInv
    PROVE  /\ CheckHaltPending => HeardInv'
           /\ PullPendingMetatext => HeardInv'
<1>1. skipper \in Members /\ flusher \in FlusherMembers
  BY TypeParts DEF IInv
<1>2. ASSUME CheckHaltPending PROVE HeardInv'
  <2>1. /\ pc = "top" /\ ~skipper'.iHaltPending /\ UNCHANGED <<flusher, discard, line>>
        /\ skipper'.iState = skipper.iState /\ skipper'.iTargetFlushId = skipper.iTargetFlushId
    BY <1>1, <1>2 DEF CheckHaltPending, Members
  <2>2. \/ skipper.iHaltPending /\ msg' = Msg("Halt", HaltNone) /\ pc' = "process"
        \/ ~skipper.iHaltPending /\ pc' = "flush"
    BY <1>2 DEF CheckHaltPending
  <2>3. GapInv' /\ AudioInv'
    BY <2>1, <2>2 DEF HeardInv, GapInv, AudioInv, Cut, HaltComing, Flushing, IsFlushing, Msg
  <2> QED BY <2>1, <2>3 DEF HeardInv, WaitingInv, TellingInv, PendingInv, Flushing
<1>3. ASSUME PullPendingMetatext PROVE HeardInv'
  <2>1. /\ pc = "flush" /\ pc' = "process" /\ msg'.kind = "MetaText" /\ UNCHANGED <<skipper, discard, line>>
        /\ IsFlushing(flusher') = IsFlushing(flusher)
    BY <1>1, <1>3 DEF PullPendingMetatext, FlusherMembers, IsFlushing, MetaText, Msg
  <2> QED BY <2>1 DEF HeardInv, WaitingInv, TellingInv, PendingInv, AudioInv, GapInv, Cut, HaltComing,
                      Flushing
<1> QED BY <1>2, <1>3

LEMMA FlusherPullHeard ==
    ASSUME IInv, HeardInv, NEW m \in UpstreamMsgs, FlusherPull(m)
    PROVE  HeardInv'
<1>1. flusher \in FlusherMembers /\ pc = "flush" /\ flusher' = Processed(flusher, m)
      /\ UNCHANGED <<skipper, discard>>
  BY TypeParts DEF IInv, FlusherPull
<1>2. IsFlushing(flusher') => IsFlushing(flusher)
  BY <1>1 DEF FlusherMembers, Processed, IsFlushing
<1>3. CASE Discards(flusher, m)
  <2>1. IsFlushing(flusher) /\ UNCHANGED <<pc, msg>> /\ line' \in {line, Dropped}
    BY <1>3 DEF FlusherPull, Discards
  <2>2. Cut' => Cut
    BY <1>1, <2>1 DEF Cut, Dropped
  <2>3. line' # "glitch"
    BY <2>1 DEF Dropped, HeardInv, GapInv
  <2> QED BY <1>1, <2>1, <2>2, <2>3
          DEF HeardInv, WaitingInv, TellingInv, PendingInv, AudioInv, GapInv, HaltComing, Flushing
<1>4. CASE ~Discards(flusher, m)
  <2>1. msg' = m /\ pc' = "process" /\ UNCHANGED line
    BY <1>4 DEF FlusherPull
  <2>2. Cut' => Cut
    BY <1>1, <1>2, <2>1 DEF Cut, Flushing
  <2>3. m.kind = "Audio" => ~IsFlushing(flusher)
    BY <1>4 DEF Discards, Flushable
  <2> QED BY <1>1, <1>2, <2>1, <2>2, <2>3
          DEF HeardInv, WaitingInv, TellingInv, PendingInv, AudioInv, GapInv, HaltComing, Flushing
<1> QED BY <1>3, <1>4

(* Removals that the puller starts, or has ramped down for. *)
LEMMA PullerFlushesHeard ==
    ASSUME NEW s \in Members, PullerFlushes(s, TRUE), line' # "glitch"
    PROVE  HeardInv'
BY StartFlushingFields, FlushHeard DEF PullerFlushes

LEMMA ProcessOthersHeard ==
    ASSUME IInv, HeardInv
    PROVE  /\ ProcessMode => HeardInv'
           /\ ProcessTrack => HeardInv'
           /\ ProcessDrain => HeardInv'
           /\ ProcessEncoded => HeardInv'
           /\ ProcessMetaText => HeardInv'
           /\ ProcessInterrupted => HeardInv'
           /\ ProcessQuit => HeardInv'
           /\ ProcessWait => HeardInv'
           /\ ProcessDecoded => HeardInv'
           /\ ProcessFlush => HeardInv'
           /\ ProcessSilence => HeardInv'
<1> DEFINE Quietly == /\ LockFree /\ msg.kind # "Halt" /\ UNCHANGED <<discard, line>>
                      /\ pc' = "top" /\ msg' = NoMsg
<1>1. skipper \in Members /\ line # "glitch"
      /\ (skipper.iTargetFlushId # FlushInvalid => skipper.iState = eFlushing)
  BY TypeParts DEF IInv, HeardInv, GapInv, WaitingInv, Flushing
<1>2. ASSUME Quietly, UNCHANGED flusher, skipper'.iHaltPending = skipper.iHaltPending,
             skipper'.iState = eFlushing => skipper.iState = eFlushing,
             skipper'.iTargetFlushId # FlushInvalid => skipper'.iState = eFlushing
      PROVE  HeardInv'
  BY <1>2, ProcessedUnheard
<1>3. ASSUME ProcessMode PROVE HeardInv'
  <2>1. Quietly /\ UNCHANGED flusher
    BY <1>3 DEF ProcessMode, Processes
  <2>2. /\ skipper'.iHaltPending = skipper.iHaltPending /\ skipper'.iState = skipper.iState
        /\ skipper'.iTargetFlushId = skipper.iTargetFlushId
    BY <1>1, <1>3 DEF ProcessMode, Members
  <2> QED BY <1>1, <1>2, <2>1, <2>2
<1>4. ASSUME ProcessTrack PROVE HeardInv'
  <2>1. Quietly
    BY <1>4 DEF ProcessTrack, Processes
  <2>2. CASE PullerFlushes(skipper, TRUE)
    BY <1>1, <2>1, <2>2, PullerFlushesHeard
  <2>3. CASE UNCHANGED <<skipper, flusher, source>>
    BY <1>1, <1>2, <2>1, <2>3
  <2> QED BY <1>4, <2>2, <2>3 DEF ProcessTrack
<1>5. ASSUME ProcessDrain PROVE HeardInv'
  <2>1. Quietly /\ UNCHANGED flusher
    BY <1>5 DEF ProcessDrain, Processes
  <2>2. /\ skipper'.iHaltPending = skipper.iHaltPending
        /\ skipper'.iTargetFlushId = skipper.iTargetFlushId
        /\ (skipper'.iState = eFlushing) <=> (skipper.iState = eFlushing)
    BY <1>1, <1>5 DEF ProcessDrain, Members, eRunning, eStarting, eFlushing
  <2> QED BY <1>1, <1>2, <2>1, <2>2
<1>6. ASSUME ProcessEncoded PROVE HeardInv'
  <2>1. Quietly
    BY <1>6 DEF ProcessEncoded, Processes
  <2>2. CASE PullerFlushes(skipper, TRUE)
    BY <1>1, <2>1, <2>2, PullerFlushesHeard
  <2>3. CASE skipper' = NewStream([skipper EXCEPT !.iStreamId = msg.n]) /\ UNCHANGED <<flusher, source>>
    <3>1. /\ skipper'.iHaltPending = skipper.iHaltPending
          /\ skipper'.iTargetFlushId = skipper.iTargetFlushId
          /\ skipper'.iState = IF skipper.iTargetFlushId = FlushInvalid THEN eStarting ELSE eFlushing
      BY <1>1, <2>3 DEF NewStream, Members
    <3> QED BY <1>1, <1>2, <2>1, <2>3, <3>1 DEF eStarting, eFlushing
  <2> QED BY <1>6, <2>2, <2>3 DEF ProcessEncoded
<1>7. ASSUME ProcessMetaText PROVE HeardInv'
  BY <1>1, <1>2, <1>7 DEF ProcessMetaText, Processes
<1>8. ASSUME ProcessInterrupted \/ ProcessQuit PROVE HeardInv'
  <2>1. Quietly /\ UNCHANGED flusher
    BY <1>8 DEF ProcessInterrupted, ProcessQuit, Processes
  <2>2. /\ skipper'.iHaltPending = skipper.iHaltPending /\ skipper'.iState = skipper.iState
        /\ skipper'.iTargetFlushId = skipper.iTargetFlushId
    BY <1>1, <1>8 DEF ProcessInterrupted, ProcessQuit, Members
  <2> QED BY <1>1, <1>2, <2>1, <2>2
<1>9. ASSUME ProcessWait PROVE HeardInv'
  <2> DEFINE quiet == [skipper EXCEPT !.iRunning = FALSE]
  <2>1. Quietly
    BY <1>9 DEF ProcessWait, Processes
  <2>2. quiet \in Members /\ quiet.iHaltPending = skipper.iHaltPending /\ quiet.iState = skipper.iState
        /\ quiet.iTargetFlushId = skipper.iTargetFlushId
    BY <1>1 DEF Members
  <2>3. PullerFlushes(quiet, TRUE) \/ (skipper' = quiet /\ UNCHANGED <<flusher, source>>)
    BY <1>9 DEF ProcessWait
  <2> HIDE DEF quiet
  <2>4. CASE PullerFlushes(quiet, TRUE)
    BY <1>1, <2>1, <2>2, <2>4, PullerFlushesHeard
  <2>5. CASE skipper' = quiet /\ UNCHANGED <<flusher, source>>
    BY <1>1, <1>2, <2>1, <2>2, <2>5
  <2> QED BY <2>3, <2>4, <2>5
<1>10. ASSUME ProcessDecoded PROVE HeardInv'
  <2>1. Quietly /\ UNCHANGED flusher
    BY <1>10 DEF ProcessDecoded, Processes
  <2>2. /\ skipper'.iHaltPending = skipper.iHaltPending
        /\ skipper'.iTargetFlushId = skipper.iTargetFlushId
        /\ skipper'.iState = IF skipper.iTargetFlushId = FlushInvalid THEN eStarting ELSE eFlushing
    BY <1>1, <1>10 DEF ProcessDecoded, Members
  <2> QED BY <1>1, <1>2, <2>1, <2>2 DEF eStarting, eFlushing
<1>11. ASSUME ProcessFlush PROVE HeardInv'
  <2>1. Quietly /\ UNCHANGED flusher
    BY <1>11 DEF ProcessFlush, Processes
  <2>2. \/ UNCHANGED skipper
        \/ /\ skipper'.iHaltPending = skipper.iHaltPending
           /\ skipper'.iTargetFlushId = FlushInvalid /\ skipper'.iState = eStarting
    BY <1>1, <1>11 DEF ProcessFlush, Members
  <2> QED BY <1>1, <1>2, <2>1, <2>2 DEF eStarting, eFlushing
<1>12. ASSUME ProcessSilence PROVE HeardInv'
  <2> DEFINE done == [skipper EXCEPT !.iRemainingRampSize = 0]
  <2>1. Quietly
    BY <1>12 DEF ProcessSilence, Processes
  <2>2. done \in Members
    BY <1>1, StreamAssumption DEF Members
  <2>3. \/ skipper.iState = eStarting /\ skipper' = [skipper EXCEPT !.iState = eRunning]
                                      /\ UNCHANGED <<flusher, source>>
        \/ PullerFlushes(done, TRUE)
        \/ UNCHANGED <<skipper, flusher, source>>
    BY <1>12 DEF ProcessSilence, eStarting, eRamping
  <2> HIDE DEF done
  <2>4. CASE PullerFlushes(done, TRUE)
    BY <1>1, <2>1, <2>2, <2>4, PullerFlushesHeard
  <2>5. CASE skipper.iState = eStarting /\ skipper' = [skipper EXCEPT !.iState = eRunning]
                                        /\ UNCHANGED <<flusher, source>>
    <3>1. /\ skipper'.iHaltPending = skipper.iHaltPending /\ skipper'.iState = eRunning
          /\ skipper'.iTargetFlushId = skipper.iTargetFlushId
      BY <1>1, <2>5 DEF Members
    <3> QED BY <1>1, <1>2, <2>1, <2>5, <3>1 DEF eStarting, eRunning, eFlushing
  <2>6. CASE UNCHANGED <<skipper, flusher, source>>
    BY <1>1, <1>2, <2>1, <2>6
  <2> QED BY <2>3, <2>4, <2>5, <2>6
<1> QED BY <1>3, <1>4, <1>5, <1>6, <1>7, <1>8, <1>9, <1>10, <1>11, <1>12

(* Audio is let through only if none was cut off before it. *)
LEMMA ProcessAudioHeard ==
    ASSUME IInv, HeardInv, ProcessAudio
    PROVE  HeardInv'
<1> DEFINE s == [skipper EXCEPT !.iRunning = TRUE]
           left == RampLeft(s, msg.n)
           done == [s EXCEPT !.iRemainingRampSize = 0]
<1>1. skipper \in Members /\ pc = "process" /\ msg.kind = "Audio" /\ discard' = NoTarget
      /\ pc' = "top" /\ msg'.kind # "Audio" /\ UNCHANGED discard
  BY TypeParts DEF IInv, ProcessAudio, Processes, LockFree, NoMsg, Msg
<1>2. s \in Members /\ done \in Members /\ s.iState = skipper.iState
      /\ s.iTargetFlushId = skipper.iTargetFlushId /\ s.iHaltPending = skipper.iHaltPending
  <2>1. s \in Members /\ s.iState = skipper.iState
        /\ s.iTargetFlushId = skipper.iTargetFlushId /\ s.iHaltPending = skipper.iHaltPending
    BY <1>1 DEF Members
  <2> HIDE DEF s
  <2>2. 0 \in 0 .. (RampLong + RampShort)
    BY StreamAssumption
  <2>3. done \in Members
    BY <2>1, <2>2 DEF Members
  <2> QED BY <2>1, <2>3
<1>3. line # "glitch" /\ (line = "gap" => Flushing) /\ (IsFlushing(flusher) => Flushing)
      /\ (Cut /\ Flushing => skipper.iHaltPending) /\ WaitingInv
  BY <1>1 DEF HeardInv, GapInv, AudioInv, PendingInv, Cut, HaltComing
<1>4. ASSUME ~Flushing, line' = Heard("audible"), UNCHANGED flusher,
             skipper'.iState # eFlushing, skipper'.iTargetFlushId = skipper.iTargetFlushId
      PROVE  HeardInv'
  <2>1. line' = "audible"
    BY <1>3, <1>4 DEF Heard
  <2>2. ~Cut'
    BY <1>3, <1>4, <2>1 DEF Cut, Flushing
  <2> QED BY <1>1, <1>3, <1>4, <2>1, <2>2
          DEF HeardInv, WaitingInv, TellingInv, PendingInv, AudioInv, GapInv, Flushing
<1>5. CASE s.iState \in {eStarting, eRunning} /\ skipper' = [s EXCEPT !.iState = eRunning]
           /\ line' = Heard("audible") /\ UNCHANGED <<flusher, source>>
  <2>1. skipper'.iState = eRunning /\ skipper'.iTargetFlushId = skipper.iTargetFlushId
    BY <1>1, <1>5 DEF Members
  <2> QED BY <1>2, <1>4, <1>5, <2>1 DEF Flushing, eStarting, eRunning, eFlushing
<1>6. CASE s.iState = eRamping /\ skipper' = [s EXCEPT !.iRemainingRampSize = left]
           /\ line' = Heard("audible") /\ UNCHANGED <<flusher, source>>
  <2>1. skipper'.iState = eRamping /\ skipper'.iTargetFlushId = skipper.iTargetFlushId
    BY <1>1, <1>2, <1>6 DEF Members
  <2> QED BY <1>2, <1>4, <1>6, <2>1 DEF Flushing, eRamping, eFlushing
<1>7. CASE s.iState = eRamping /\ PullerFlushes(done, TRUE) /\ line' = Heard("silent")
  <2>1. line' # "glitch"
    BY <1>2, <1>3, <1>7 DEF Heard, Flushing, eRamping, eFlushing
  <2> HIDE DEF done
  <2> QED BY <1>2, <1>7, <2>1, PullerFlushesHeard
<1>8. CASE s.iState = eFlushing /\ skipper' = s /\ line' = Dropped /\ UNCHANGED <<flusher, source>>
  <2>1. skipper'.iState = eFlushing /\ skipper'.iHaltPending = skipper.iHaltPending /\ line' # "glitch"
    BY <1>2, <1>3, <1>8 DEF Dropped
  <2>2. Cut' => Cut
    BY <1>2, <1>8 DEF Cut, Dropped, Flushing
  <2> QED BY <1>1, <1>2, <1>3, <1>8, <2>1, <2>2
          DEF HeardInv, WaitingInv, TellingInv, PendingInv, AudioInv, GapInv, HaltComing, Flushing
<1> QED BY <1>5, <1>6, <1>7, <1>8 DEF ProcessAudio

(* The halt waited for comes when no flush is: everything of the stream    *)
(* before it has been pulled, and nothing is promised any more.            *)
LEMMA ProcessHaltHeard ==
    ASSUME IInv, HeardInv, HaltAtBoundary, ProcessHalt
    PROVE  HeardInv'
<1> DEFINE quiet == [skipper EXCEPT !.iRunning = FALSE]
           after == StartFlushing(quiet, FALSE)
           flushes == skipper.iState = eRamping
           s == IF flushes THEN after ELSE quiet
<1>1. /\ skipper \in Members /\ source \in Sources /\ pc' = "top" /\ msg'.kind # "Audio"
      /\ msg.kind = "Halt" /\ discard' = NoTarget
  BY TypeParts DEF IInv, ProcessHalt, Processes, LockFree, NoMsg, Msg
<1>2. line' = "silent"
  BY DEF ProcessHalt, Halted, HeardInv, GapInv
<1>3. skipper' = IF msg.n = s.iTargetHaltId
                   THEN [s EXCEPT !.iTargetHaltId = HaltInvalid, !.iState = eRunning] ELSE s
  BY DEF ProcessHalt
<1>4. quiet \in Members /\ quiet.iState = skipper.iState /\ quiet.iTargetHaltId = skipper.iTargetHaltId
      /\ quiet.iTargetFlushId = skipper.iTargetFlushId
  BY <1>1 DEF Members
<1>5. /\ s.iTargetHaltId = skipper.iTargetHaltId
      /\ s.iTargetFlushId # FlushInvalid => s.iState = eFlushing
      /\ s.iTargetFlushId = IF flushes THEN Promised(source, quiet.iStreamId) ELSE skipper.iTargetFlushId
  <2>1. CASE flushes
    <3> HIDE DEF quiet
    <3> QED BY <1>4, <2>1, StartFlushingFields
  <2>2. CASE ~flushes
    BY <1>4, <2>2 DEF HeardInv, WaitingInv, Flushing
  <2> QED BY <2>1, <2>2
<1>6. ASSUME msg.n = skipper.iTargetHaltId PROVE s.iTargetFlushId = FlushInvalid
  <2>1. msg.n # HaltNone
    BY <1>1, <1>6, IdAssumption DEF Members, Halts, HaltNone, HaltInvalid
  <2>2. ~source.streaming /\ source.sent = << >>
    BY <1>1, <2>1 DEF HaltAtBoundary, Boundary
  <2>3. FlushesToPull = {}
    BY <2>2 DEF IInv, SourceInv, PromisesKept, FlushesToPull, SentFlushes
  <2>4. skipper.iTargetFlushId = FlushInvalid
    BY <1>1, <2>3 DEF IInv, TargetInv, SkipperTargetsAhead, Msg
  <2>5. Promised(source, quiet.iStreamId) = FlushInvalid
    BY <2>2 DEF Promised
  <2> QED BY <1>5, <2>4, <2>5
<1>7. skipper'.iTargetFlushId # FlushInvalid => skipper'.iState = eFlushing
  <2>1. CASE msg.n = s.iTargetHaltId
    <3>1. skipper'.iTargetFlushId = s.iTargetFlushId
      BY <1>1, <1>3, <2>1 DEF StartFlushing, Members
    <3> QED BY <1>5, <1>6, <2>1, <3>1
  <2>2. CASE msg.n # s.iTargetHaltId
    BY <1>3, <1>5, <2>2
  <2> QED BY <2>1, <2>2
<1> QED BY <1>1, <1>2, <1>7
    DEF HeardInv, WaitingInv, TellingInv, PendingInv, AudioInv, GapInv, Cut, Flushing

LEMMA BoundaryKept ==
    ASSUME IInv, MsgInHand, HaltAtBoundary, [Next]_vars
    PROVE  HaltAtBoundary'
<1>1. source \in Sources /\ PromisesKept
  BY TypeParts DEF IInv, SourceInv
<1>2. ASSUME msg'.kind = "Halt" => msg' = msg \/ msg'.n = HaltNone,
             Boundary => Boundary', source'.pulled = source.pulled
      PROVE  HaltAtBoundary'
  BY <1>2 DEF HaltAtBoundary
<1>3. ASSUME NEW id, source' \in {source, Stopping(source, id)},
             msg'.kind = "Halt" => msg' = msg \/ msg'.n = HaltNone
      PROVE  HaltAtBoundary'
  BY <1>1, <1>2, <1>3, StoppingMovesNothing DEF Boundary
<1>4. ASSUME Process PROVE HaltAtBoundary'
  <2>1. msg' = NoMsg
    BY <1>4 DEF Process, Processes, ProcessMode, ProcessTrack, ProcessDrain, ProcessEncoded,
                ProcessMetaText, ProcessInterrupted, ProcessHalt, ProcessFlush, ProcessWait,
                ProcessDecoded, ProcessAudio, ProcessSilence, ProcessQuit
  <2> QED BY <2>1 DEF HaltAtBoundary, NoMsg, Msg
<1>5. ASSUME CheckHaltPending \/ PullPendingMetatext \/ Discard PROVE HaltAtBoundary'
  <2>1. source' = source /\ (msg'.kind = "Halt" => msg' = msg \/ msg'.n = HaltNone)
    BY <1>5 DEF CheckHaltPending, PullPendingMetatext, Discard, NoMsg, MetaText, Msg
  <2> QED BY <1>3, <2>1
<1>6. ASSUME NEW m \in UpstreamMsgs, FlusherPull(m) PROVE HaltAtBoundary'
  <2>1. UpstreamPull(m) /\ msg = NoMsg /\ msg' \in {m, NoMsg}
    BY <1>6 DEF FlusherPull, MsgInHand
  <2>2. ASSUME m.kind = "Halt", m.n # HaltNone
        PROVE  /\ m = Msg("Halt", source.pulled + 1) /\ Boundary
               /\ \E next \in BOOLEAN : source' = [source EXCEPT !.pulled = source.pulled + 1,
                                                                 !.phase = "between", !.next = next]
    <3>1. m \notin {Msg("Audio", n) : n \in 1 .. MaxAudio} \union {Msg("Silence", 0)}
                     \union {Msg("Interrupted", 0), Msg("Wait", 0), Msg("TrackMidStream", 0)}
      BY <2>2 DEF Msg
    <3>2. m \notin {MetaText, Msg("Drain", 0), Msg("Halt", HaltNone)}
      BY <2>2 DEF MetaText, Msg
    <3>3. \A kind, n : m = Msg(kind, n) => kind = "Halt"
      BY <2>2 DEF Msg
    <3>4. m \notin {Msg("Mode", RampLong), Msg("Mode", RampShort)}
      BY <3>3
    <3> QED BY <2>1, <3>1, <3>2, <3>3, <3>4 DEF UpstreamPull
  <2>3. m.kind = "Halt" /\ m.n # HaltNone => Boundary' /\ m.n = source'.pulled
    <3>1. SUFFICES ASSUME NEW next \in BOOLEAN, m = Msg("Halt", source.pulled + 1), Boundary,
                          source' = [source EXCEPT !.pulled = source.pulled + 1, !.phase = "between",
                                                   !.next = next]
                   PROVE  Boundary' /\ m.n = source'.pulled
      BY <2>2
    <3>2. source'.pulled = source.pulled + 1 /\ source'.streaming = source.streaming
          /\ source'.sent = source.sent
      BY <1>1, <3>1 DEF Sources
    <3> QED BY <3>1, <3>2 DEF Boundary, Msg
  <2> QED BY <2>1, <2>3 DEF HaltAtBoundary, NoMsg, Msg
<1>7. ASSUME TrySeek \/ OutputFlush \/ StreamEnds PROVE HaltAtBoundary'
  <2>1. source.streaming /\ UNCHANGED msg
    BY <1>1, <1>7 DEF TrySeek, OutputFlush, StreamEnds, PromisesKept
  <2>2. source'.pulled = source.pulled
    BY <1>1, <1>7 DEF TrySeek, OutputFlush, StreamEnds, Sources
  <2> QED BY <1>2, <2>1, <2>2 DEF Boundary
<1>8. ASSUME Block PROVE HaltAtBoundary'
  <2>1. PICK id \in Halts : FillerStop(id)
    BY <1>8 DEF Block
  <2>2. Boundary => Boundary'
    BY <1>1, <2>1 DEF FillerStop, Boundary, Sources
  <2>3. source'.pulled = source.pulled
    BY <1>1, <2>1 DEF FillerStop, Sources
  <2> QED BY <1>2, <1>8, <2>2, <2>3 DEF Block
<1>9. ASSUME TryStop PROVE HaltAtBoundary'
  BY <1>3, <1>9 DEF TryStop
<1>10. ASSUME NEW s, NEW rampDown \in BOOLEAN, TryRemoveCurrentStream(s, rampDown), UNCHANGED msg
       PROVE  HaltAtBoundary'
  <2>1. source' \in {source, Stopping(source, s.iStreamId)}
    BY <1>10 DEF TryRemoveCurrentStream
  <2> QED BY <1>3, <1>10, <2>1
<1>11. ASSUME NEW rampDown \in BOOLEAN,
              \/ RemoveCurrentStream(rampDown) \/ RemoveAll(rampDown)
              \/ \E id \in 1 .. MaxStreams : TryRemoveStream(id, rampDown)
       PROVE  HaltAtBoundary'
  BY <1>10, <1>11 DEF RemoveCurrentStream, TryRemoveStream, RemoveAll
<1>12. ASSUME NotifyStarving \/ Unblock PROVE HaltAtBoundary'
  <2> DEFINE quiet == [skipper EXCEPT !.iRunning = FALSE]
  <2>1. source' \in {source, Stopping(source, quiet.iStreamId)} /\ UNCHANGED msg
    BY <1>12 DEF NotifyStarving, Unblock
  <2> QED BY <1>3, <2>1
<1>13. CASE UNCHANGED vars
  BY <1>3, <1>13 DEF vars
<1> QED BY <1>4, <1>5, <1>6, <1>7, <1>8, <1>9, <1>11, <1>12, <1>13 DEF Next, Puller

LEMMA HeardInit == Init => HeardInv /\ HaltAtBoundary
BY IdAssumption DEF Init, HeardInv, WaitingInv, TellingInv, PendingInv, AudioInv, GapInv, Cut,
                    HaltAtBoundary, NoTarget, NoMsg, Msg

LEMMA HeardKept == IInv /\ HeardInv /\ HaltAtBoundary /\ [Next]_vars => HeardInv'
<1> SUFFICES ASSUME IInv, HeardInv, HaltAtBoundary, [Next]_vars PROVE HeardInv'
  OBVIOUS
<1>1. Process => HeardInv'
  BY ProcessOthersHeard, ProcessAudioHeard, ProcessHaltHeard DEF Process
<1>2. Puller => HeardInv'
  BY <1>1, PullStartsHeard, FlusherPullHeard DEF Puller
<1>3. CASE UNCHANGED vars
  BY <1>3, NothingHeard DEF vars
<1> QED BY <1>2, <1>3, DiscardHeard, OutsideHeard, RemovalsHeard DEF Next

LEMMA HeardHolds == Spec => [](IInv /\ MsgInHand /\ HeardInv /\ HaltAtBoundary)
<1> DEFINE Inv == IInv /\ MsgInHand /\ HeardInv /\ HaltAtBoundary
<1>1. Inv /\ [Next]_vars => Inv'
  BY NextInv, NextMsgInHand, HeardKept, BoundaryKept
<1>2. Init => Inv
  BY InitInv, HeardInit
<1> QED BY <1>1, <1>2, PTL DEF Spec

(* When the promised flush arrives Skipper is flushing, whatever came      *)
(* between: ASSERT_VA(iState == eFlushing) (Skipper.cpp:183) never fires.  *)
THEOREM FlushAlwaysAwaited == Spec => []FlushFindsFlushing
<1>1. IInv /\ HeardInv => FlushFindsFlushing
  <2> SUFFICES ASSUME IInv, HeardInv, msg.kind = "Flush", msg.n = skipper.iTargetFlushId
               PROVE  skipper.iState = eFlushing
    BY DEF FlushFindsFlushing
  <2>1. msg \in UpstreamMsgs \union {NoMsg}
    BY TypeParts DEF IInv
  <2>2. msg.n \in Flushes
    BY <2>1 DEF UpstreamMsgs, NoMsg, Msg
  <2>3. skipper.iTargetFlushId # FlushInvalid
    BY <2>2 DEF Flushes, FlushInvalid
  <2> QED BY <2>3 DEF HeardInv, WaitingInv, Flushing
<1> QED BY <1>1, HeardHolds, PTL

(* Audio is never heard again after some was discarded, unless a halt or   *)
(* the end of a ramp came before it (iHaltPending, Skipper.cpp:81, :336).  *)
THEOREM GapsAlwaysAnnounced == Spec => []GapsAreAnnounced
<1>1. HeardInv => GapsAreAnnounced
  BY DEF HeardInv, GapInv, GapsAreAnnounced
<1> QED BY <1>1, HeardHolds, PTL

-----------------------------------------------------------------------------
(* A RemoveAll that has taken hold.                                        *)

(* What the Flusher is to be told is the halt Skipper waits for. *)
TellsTarget == discard.kind = "Halt" => discard.n = skipper.iTargetHaltId

RemovalInv == IInv /\ MsgInHand /\ HeardInv /\ HaltAtBoundary /\ TellsTarget

(* How a removal is held without Skipper's ramp. *)
HaltHeld(id) == flusher.iTargetHaltId = id \/ flusher.iLastHaltId = id

LEMMA HeldFields ==
    ASSUME RemovalHolds, UNCHANGED skipper.iTargetHaltId,
           \/ skipper'.iState = eRamping
           \/ discard' = Msg("Halt", skipper.iTargetHaltId)
           \/ HaltHeld(skipper.iTargetHaltId)'
    PROVE  RemovalHolds'
BY DEF RemovalHolds, HaltHeld

(* Told of the halt Skipper waits for, the Flusher waits for it or has     *)
(* pulled it last.                                                         *)
LEMMA ToldOfTarget ==
    ASSUME RemovalInv, skipper.iTargetHaltId # HaltInvalid,
           flusher' = Told(flusher, Msg("Halt", skipper.iTargetHaltId)),
           UNCHANGED skipper.iTargetHaltId
    PROVE  HaltHeld(skipper.iTargetHaltId)'
<1> DEFINE id == skipper.iTargetHaltId
<1>1. flusher \in FlusherMembers /\ source \in Sources /\ id \in Halts
  BY TypeParts DEF RemovalInv, IInv, Members
<1>2. source.pulled \in Nat /\ source.halts \in Nat /\ id \in Nat \ {0}
  BY <1>1, IdAssumption DEF Sources, Halts
<1>3. flusher.iLastHaltId = IF source.pulled = 0 THEN HaltInvalid ELSE source.pulled
  BY DEF RemovalInv, IInv, SourceInv, HaltsInOrder
<1>4. id > source.pulled \/ id = source.pulled
  <2>1. CASE id \in HaltsToPull
    BY <1>2, <2>1 DEF HaltsToPull
  <2>2. CASE msg = Msg("Halt", id)
    BY <1>2, <2>2 DEF RemovalInv, HaltAtBoundary, Msg, HaltNone
  <2> QED BY <2>1, <2>2 DEF RemovalInv, IInv, TargetInv, SkipperTargetsAhead
<1>5. Told(flusher, Msg("Halt", id)) = DiscardUntilHalt(flusher, id)
  BY DEF Told, Msg
<1> HIDE DEF id
<1>6. CASE flusher.iLastHaltId = id
  BY <1>1, <1>5, <1>6 DEF DiscardUntilHalt, HaltHeld, FlusherMembers, id
<1>7. CASE flusher.iLastHaltId # id
  <2>1. flusher.iLastHaltId = HaltInvalid \/ flusher.iLastHaltId < id
    BY <1>2, <1>3, <1>4, <1>7
  <2> QED BY <1>1, <1>5, <2>1 DEF DiscardUntilHalt, HaltHeld, FlusherMembers, id
<1> QED BY <1>6, <1>7

LEMMA DiscardHolds ==
    ASSUME RemovalInv, RemovalHolds, Discard
    PROVE  RemovalHolds'
<1>1. flusher \in FlusherMembers /\ UNCHANGED skipper /\ flusher' = Told(flusher, discard)
      /\ discard \in Targets /\ discard # NoTarget
  BY TypeParts DEF RemovalInv, IInv, Discard
<1>2. CASE discard.kind = "Halt"
  <2>1. discard = Msg("Halt", skipper.iTargetHaltId) /\ skipper.iTargetHaltId # HaltInvalid
    BY <1>1, <1>2 DEF RemovalInv, TellsTarget, Targets, NoTarget, Msg, RemovalHolds
  <2> QED BY <1>1, <2>1, ToldOfTarget, HeldFields
<1>3. CASE discard.kind # "Halt"
  <2>1. discard # Msg("Halt", skipper.iTargetHaltId)
    BY <1>3 DEF Msg
  <2>2. flusher'.iTargetHaltId = flusher.iTargetHaltId /\ flusher'.iLastHaltId = flusher.iLastHaltId
    BY <1>1, <1>3 DEF Told, DiscardUntilFlush, FlusherMembers
  <2> QED BY <1>1, <2>1, <2>2 DEF RemovalHolds
<1> QED BY <1>2, <1>3

LEMMA RemovalsHold ==
    ASSUME RemovalInv, RemovalHolds, UNCHANGED skipper.iTargetHaltId,
           \/ \E rampDown \in BOOLEAN : RemoveCurrentStream(rampDown) \/ RemoveAll(rampDown)
           \/ \E id \in 1 .. MaxStreams, rampDown \in BOOLEAN : TryRemoveStream(id, rampDown)
           \/ NotifyStarving
    PROVE  RemovalHolds'
<1>1. skipper \in Members /\ remover \in Halts \union {HaltInvalid}
      /\ skipper.iTargetHaltId # HaltInvalid
  BY TypeParts DEF RemovalInv, IInv, RemovalHolds
<1>2. ASSUME NEW s \in Members, s.iTargetHaltId = skipper.iTargetHaltId,
             skipper' = StartFlushing(s, TRUE), discard' = Target(StartFlushing(s, TRUE))
      PROVE  RemovalHolds'
  <2>1. discard' = Msg("Halt", skipper.iTargetHaltId)
    BY <1>1, <1>2, StartFlushingFields
  <2> QED BY <2>1, HeldFields
<1>3. ASSUME NEW s \in Members, NEW rampDown \in BOOLEAN, TryRemoveCurrentStream(s, rampDown),
             s.iTargetHaltId = skipper.iTargetHaltId, s.iState = skipper.iState, UNCHANGED flusher
      PROVE  RemovalHolds'
  <2>1. CASE skipper' = StartFlushing(s, TRUE) /\ discard' = Target(StartFlushing(s, TRUE))
    BY <1>2, <1>3, <2>1
  <2>2. CASE /\ UNCHANGED discard
             /\ skipper' = IF s.iState = eRunning
                             THEN [s EXCEPT !.iState = eRamping, !.iRemainingRampSize = s.iRampJiffies]
                             ELSE s
    <3>1. skipper.iState = eRamping => skipper'.iState = eRamping
      BY <1>3, <2>2 DEF eRunning, eRamping
    <3> QED BY <1>3, <2>2, <3>1 DEF RemovalHolds
  <2> QED BY <1>3, <2>1, <2>2 DEF TryRemoveCurrentStream
<1>4. ASSUME NEW rampDown \in BOOLEAN,
             \/ RemoveCurrentStream(rampDown)
             \/ \E id \in 1 .. MaxStreams : TryRemoveStream(id, rampDown)
      PROVE  RemovalHolds'
  BY <1>1, <1>3, <1>4 DEF RemoveCurrentStream, TryRemoveStream
<1>5. ASSUME NEW rampDown \in BOOLEAN, RemoveAll(rampDown) PROVE RemovalHolds'
  <2> DEFINE s == [skipper EXCEPT !.iTargetHaltId = remover]
  <2>1. s \in Members /\ s.iState = skipper.iState /\ s.iTargetHaltId = remover
    BY <1>1 DEF Members
  <2>2. TryRemoveCurrentStream(s, rampDown) /\ UNCHANGED flusher
    BY <1>5 DEF RemoveAll
  <2>3. skipper'.iTargetHaltId = s.iTargetHaltId
    <3> HIDE DEF s
    <3>1. CASE skipper' = StartFlushing(s, TRUE)
      BY <2>1, <3>1, StartFlushingFields
    <3>2. CASE skipper' \in {s, [s EXCEPT !.iState = eRamping, !.iRemainingRampSize = s.iRampJiffies]}
      BY <2>1, <3>2 DEF Members
    <3> QED BY <2>2, <3>1, <3>2 DEF TryRemoveCurrentStream
  <2> HIDE DEF s
  <2> QED BY <1>3, <2>1, <2>2, <2>3
<1>6. ASSUME NotifyStarving PROVE RemovalHolds'
  <2> DEFINE quiet == [skipper EXCEPT !.iRunning = FALSE]
  <2>1. quiet \in Members /\ quiet.iState = skipper.iState /\ quiet.iTargetHaltId = skipper.iTargetHaltId
    BY <1>1 DEF Members
  <2>2. \/ skipper' = StartFlushing(quiet, TRUE) /\ discard' = Target(StartFlushing(quiet, TRUE))
        \/ skipper' = quiet /\ UNCHANGED discard
    BY <1>6 DEF NotifyStarving
  <2>3. UNCHANGED flusher
    BY <1>6 DEF NotifyStarving
  <2> HIDE DEF quiet
  <2>4. CASE skipper' = quiet /\ UNCHANGED discard
    BY <2>1, <2>3, <2>4 DEF RemovalHolds
  <2> QED BY <1>2, <2>1, <2>2, <2>4
<1> QED BY <1>4, <1>5, <1>6

LEMMA FlusherPullHolds ==
    ASSUME RemovalInv, RemovalHolds, NEW m \in UpstreamMsgs, FlusherPull(m)
    PROVE  RemovalHolds'
<1>1. /\ flusher \in FlusherMembers /\ source \in Sources /\ UpstreamPull(m)
      /\ flusher' = Processed(flusher, m) /\ UNCHANGED <<skipper, discard>> /\ msg = NoMsg
  BY TypeParts DEF RemovalInv, IInv, MsgInHand, FlusherPull
<1> DEFINE id == skipper.iTargetHaltId
<1>2. id \in Halts /\ id \in HaltsToPull
  <2>1. skipper \in Members /\ id # HaltInvalid
    BY TypeParts DEF RemovalInv, IInv, RemovalHolds
  <2> QED BY <1>1, <2>1 DEF Members, RemovalInv, IInv, TargetInv, SkipperTargetsAhead, NoMsg, Msg
<1>3. flusher.iLastHaltId # id
  BY <1>1, <1>2, IdAssumption DEF RemovalInv, IInv, SourceInv, HaltsInOrder, HaltsToPull, Sources, Halts,
                                  HaltInvalid
<1>4. flusher.iTargetHaltId = id => HaltHeld(id)'
  BY <1>1 DEF Processed, FlusherMembers, HaltHeld
<1> QED BY <1>1, <1>3, <1>4 DEF RemovalHolds, HaltHeld

LEMMA ProcessHolds ==
    ASSUME RemovalInv, RemovalHolds, UNCHANGED skipper.iTargetHaltId, Process,
           ~(skipper.iState = eRamping /\ msg.kind = "Decoded")
    PROVE  RemovalHolds'
<1> DEFINE Kept == UNCHANGED flusher /\ (skipper.iState = eRamping => skipper'.iState = eRamping)
<1>1. /\ skipper \in Members /\ skipper.iTargetHaltId # HaltInvalid
      /\ discard = NoTarget /\ msg \in UpstreamMsgs \union {NoMsg}
  BY TypeParts DEF RemovalInv, IInv, RemovalHolds, Process, Processes, LockFree, ProcessMode, ProcessTrack,
     ProcessDrain, ProcessEncoded, ProcessMetaText, ProcessInterrupted, ProcessHalt, ProcessFlush,
     ProcessWait, ProcessDecoded, ProcessAudio, ProcessSilence, ProcessQuit
<1>2. skipper.iState = eRamping \/ HaltHeld(skipper.iTargetHaltId)
  BY <1>1 DEF RemovalHolds, HaltHeld, NoTarget, Msg
<1>3. ASSUME Kept PROVE RemovalHolds'
  BY <1>2, <1>3, HeldFields DEF HaltHeld
<1>4. ASSUME NEW s \in Members, NEW generateHalt \in BOOLEAN, s.iTargetHaltId = skipper.iTargetHaltId,
             flusher' = Told(flusher, Target(StartFlushing(s, generateHalt)))
      PROVE  RemovalHolds'
  <2>1. Target(StartFlushing(s, generateHalt)) = Msg("Halt", skipper.iTargetHaltId)
    BY <1>1, <1>4, StartFlushingFields
  <2> QED BY <1>1, <1>4, <2>1, ToldOfTarget, HeldFields
<1>5. ASSUME NEW s \in Members, s.iTargetHaltId = skipper.iTargetHaltId, PullerFlushes(s, TRUE)
      PROVE  RemovalHolds'
  BY <1>4, <1>5 DEF PullerFlushes
<1>6. ASSUME ProcessMode \/ ProcessMetaText \/ ProcessInterrupted \/ ProcessQuit PROVE RemovalHolds'
  <2>1. UNCHANGED flusher /\ skipper'.iState = skipper.iState
    BY <1>1, <1>6 DEF ProcessMode, ProcessMetaText, ProcessInterrupted, ProcessQuit, Members
  <2> QED BY <1>3, <2>1
<1>7. ASSUME ProcessTrack PROVE RemovalHolds'
  BY <1>1, <1>3, <1>5, <1>7 DEF ProcessTrack
<1>8. ASSUME ProcessDrain PROVE RemovalHolds'
  <2>1. Kept
    BY <1>1, <1>8 DEF ProcessDrain, Members, eRunning, eRamping
  <2> QED BY <1>3, <2>1
<1>9. ASSUME ProcessEncoded PROVE RemovalHolds'
  <2>1. CASE RemoveAllPending
    BY <1>1, <1>5, <1>9, <2>1 DEF ProcessEncoded
  <2>2. CASE ~RemoveAllPending
    <3>1. UNCHANGED flusher /\ skipper.iState # eRamping
      BY <1>1, <1>9, <2>2 DEF ProcessEncoded, RemoveAllPending
    <3> QED BY <1>3, <3>1
  <2> QED BY <2>1, <2>2
<1>10. ASSUME ProcessHalt PROVE RemovalHolds'
  <2> DEFINE quiet == [skipper EXCEPT !.iRunning = FALSE]
  <2>1. quiet \in Members /\ quiet.iTargetHaltId = skipper.iTargetHaltId /\ quiet.iState = skipper.iState
    BY <1>1 DEF Members
  <2>2. CASE skipper.iState = eRamping
    <3>1. flusher' = Told(flusher, Target(StartFlushing(quiet, FALSE)))
      BY <1>10, <2>2 DEF ProcessHalt
    <3> HIDE DEF quiet
    <3> QED BY <1>4, <2>1, <3>1
  <2>3. CASE skipper.iState # eRamping
    BY <1>3, <1>10, <2>3 DEF ProcessHalt
  <2> QED BY <2>2, <2>3
<1>11. ASSUME ProcessFlush PROVE RemovalHolds'
  <2>1. msg.n \in Flushes
    BY <1>1, <1>11 DEF ProcessFlush, Processes, UpstreamMsgs, NoMsg, Msg
  <2>2. skipper.iState = eRamping => skipper.iTargetFlushId = FlushInvalid
    BY DEF RemovalInv, HeardInv, WaitingInv, Flushing, eRamping, eFlushing
  <2>3. Kept
    BY <1>11, <2>1, <2>2 DEF ProcessFlush, Flushes, FlushInvalid
  <2> QED BY <1>3, <2>3
<1>12. ASSUME ProcessWait PROVE RemovalHolds'
  <2> DEFINE quiet == [skipper EXCEPT !.iRunning = FALSE]
  <2>1. quiet \in Members /\ quiet.iTargetHaltId = skipper.iTargetHaltId /\ quiet.iState = skipper.iState
    BY <1>1 DEF Members
  <2>2. PullerFlushes(quiet, TRUE) \/ (skipper' = quiet /\ UNCHANGED flusher)
    BY <1>12 DEF ProcessWait
  <2> HIDE DEF quiet
  <2> QED BY <1>3, <1>5, <2>1, <2>2
<1>13. ASSUME ProcessDecoded PROVE RemovalHolds'
  BY <1>3, <1>13 DEF ProcessDecoded, Processes
<1>14. ASSUME ProcessAudio PROVE RemovalHolds'
  <2> DEFINE s == [skipper EXCEPT !.iRunning = TRUE]
             left == RampLeft(s, msg.n)
             done == [s EXCEPT !.iRemainingRampSize = 0]
  <2>1. s \in Members /\ s.iState = skipper.iState /\ s.iTargetHaltId = skipper.iTargetHaltId
    BY <1>1 DEF Members
  <2>2. done \in Members /\ done.iTargetHaltId = skipper.iTargetHaltId
    <3> HIDE DEF s
    <3>1. 0 \in 0 .. (RampLong + RampShort)
      BY StreamAssumption
    <3> QED BY <2>1, <3>1 DEF Members
  <2>3. \/ s.iState \in {eStarting, eRunning} /\ UNCHANGED flusher
        \/ s.iState = eRamping /\ skipper' = [s EXCEPT !.iRemainingRampSize = left] /\ UNCHANGED flusher
        \/ PullerFlushes(done, TRUE)
        \/ skipper' = s /\ UNCHANGED flusher
    BY <1>14 DEF ProcessAudio
  <2> HIDE DEF s, done, left
  <2>4. CASE s.iState \in {eStarting, eRunning} /\ UNCHANGED flusher
    BY <1>3, <2>1, <2>4 DEF eStarting, eRunning, eRamping
  <2>5. CASE s.iState = eRamping /\ skipper' = [s EXCEPT !.iRemainingRampSize = left] /\ UNCHANGED flusher
    BY <1>3, <2>1, <2>5 DEF Members
  <2>6. CASE skipper' = s /\ UNCHANGED flusher
    BY <1>3, <2>1, <2>6
  <2> QED BY <1>5, <2>2, <2>3, <2>4, <2>5, <2>6
<1>15. ASSUME ProcessSilence PROVE RemovalHolds'
  <2> DEFINE done == [skipper EXCEPT !.iRemainingRampSize = 0]
  <2>1. done \in Members /\ done.iTargetHaltId = skipper.iTargetHaltId
    BY <1>1, StreamAssumption DEF Members
  <2>2. \/ skipper.iState = eStarting /\ UNCHANGED flusher
        \/ PullerFlushes(done, TRUE)
        \/ UNCHANGED <<skipper, flusher>>
    BY <1>15 DEF ProcessSilence, eStarting, eRamping
  <2> HIDE DEF done
  <2> QED BY <1>3, <1>5, <2>1, <2>2 DEF eStarting, eRamping
<1> QED BY <1>6, <1>7, <1>8, <1>9, <1>10, <1>11, <1>12, <1>13, <1>14, <1>15 DEF Process

LEMMA TellsTargetKept == IInv /\ TellsTarget /\ [Next]_vars => TellsTarget'
<1> SUFFICES ASSUME IInv, TellsTarget, [Next]_vars PROVE TellsTarget'
  OBVIOUS
<1>1. skipper \in Members /\ remover \in Halts \union {HaltInvalid}
  BY TypeParts DEF IInv
<1>2. ASSUME discard' = NoTarget PROVE TellsTarget'
  BY <1>2 DEF TellsTarget, NoTarget, Msg
<1>3. ASSUME UNCHANGED <<discard, skipper.iTargetHaltId>> PROVE TellsTarget'
  BY <1>3 DEF TellsTarget
<1>4. ASSUME NEW s \in Members, skipper' = StartFlushing(s, TRUE),
             discard' = Target(StartFlushing(s, TRUE))
      PROVE  TellsTarget'
  <2>1. Target(skipper').kind = "Halt" => Target(skipper').n = skipper'.iTargetHaltId
    BY DEF Target, NoTarget, Msg
  <2> QED BY <1>4, <2>1 DEF TellsTarget
<1>5. ASSUME NEW s \in Members, NEW rampDown \in BOOLEAN, LockFree, TryRemoveCurrentStream(s, rampDown)
      PROVE  TellsTarget'
  BY <1>2, <1>4, <1>5 DEF TryRemoveCurrentStream, LockFree
<1>6. CASE Process \/ Discard
  <2>1. discard' = NoTarget
    BY <1>6 DEF Discard, Process, Processes, LockFree, ProcessMode, ProcessTrack, ProcessDrain,
       ProcessEncoded, ProcessMetaText, ProcessInterrupted, ProcessHalt, ProcessFlush, ProcessWait,
       ProcessDecoded, ProcessAudio, ProcessSilence, ProcessQuit
  <2> QED BY <1>2, <2>1
<1>7. CASE \/ CheckHaltPending \/ PullPendingMetatext \/ \E m \in UpstreamMsgs : FlusherPull(m)
           \/ TrySeek \/ OutputFlush \/ StreamEnds \/ Block \/ Unblock \/ TryStop \/ UNCHANGED vars
  <2>1. UNCHANGED discard
    BY <1>7 DEF CheckHaltPending, PullPendingMetatext, FlusherPull, TrySeek, OutputFlush, StreamEnds,
                Block, Unblock, TryStop, vars
  <2>2. skipper' \in {skipper, [skipper EXCEPT !.iHaltPending = FALSE]}
    BY <1>7 DEF CheckHaltPending, PullPendingMetatext, FlusherPull, TrySeek, OutputFlush, StreamEnds,
                Block, Unblock, TryStop, vars
  <2>3. UNCHANGED skipper.iTargetHaltId
    BY <1>1, <2>2 DEF Members
  <2> QED BY <1>3, <2>1, <2>3
<1>8. ASSUME NEW rampDown \in BOOLEAN,
             \/ RemoveCurrentStream(rampDown)
             \/ \E id \in 1 .. MaxStreams : TryRemoveStream(id, rampDown)
      PROVE  TellsTarget'
  BY <1>1, <1>5, <1>8 DEF RemoveCurrentStream, TryRemoveStream
<1>9. ASSUME NEW rampDown \in BOOLEAN, RemoveAll(rampDown) PROVE TellsTarget'
  <2> DEFINE s == [skipper EXCEPT !.iTargetHaltId = remover]
  <2>1. s \in Members
    BY <1>1 DEF Members
  <2>2. LockFree /\ TryRemoveCurrentStream(s, rampDown)
    BY <1>9 DEF RemoveAll
  <2> HIDE DEF s
  <2> QED BY <1>5, <2>1, <2>2
<1>10. CASE NotifyStarving
  <2> DEFINE quiet == [skipper EXCEPT !.iRunning = FALSE]
  <2>1. quiet \in Members
    BY <1>1 DEF Members
  <2>2. \/ skipper' = StartFlushing(quiet, TRUE) /\ discard' = Target(StartFlushing(quiet, TRUE))
        \/ discard' = NoTarget
    BY <1>10 DEF NotifyStarving, LockFree
  <2> HIDE DEF quiet
  <2> QED BY <1>2, <1>4, <2>1, <2>2
<1> QED BY <1>6, <1>7, <1>8, <1>9, <1>10 DEF Next, Puller

(* A RemoveAll that has taken hold keeps hold until its halt, whatever is  *)
(* pulled meanwhile and whoever else removes streams, but for a            *)
(* MsgDecodedStream of the same stream during its ramp (Skipper.cpp:204).  *)
THEOREM RemovalKeepsHold == Spec => RemovalGoesOn
<1> DEFINE GoesOn == RemovalHolds => \/ RemovalHolds'
                                     \/ skipper'.iTargetHaltId # skipper.iTargetHaltId
                                     \/ skipper.iState = eRamping /\ msg.kind = "Decoded"
<1>1. Spec => []RemovalInv
  <2>1. IInv /\ TellsTarget /\ [Next]_vars => TellsTarget'
    BY TellsTargetKept
  <2>2. Init => TellsTarget
    BY DEF Init, TellsTarget, NoTarget, Msg
  <2>3. IInv /\ MsgInHand /\ HeardInv /\ HaltAtBoundary /\ TellsTarget => RemovalInv
    BY DEF RemovalInv
  <2> QED BY <2>1, <2>2, <2>3, HeardHolds, PTL DEF Spec
<1>2. RemovalInv /\ [Next]_vars => [GoesOn]_vars
  <2> SUFFICES ASSUME RemovalInv, Next, RemovalHolds, UNCHANGED skipper.iTargetHaltId,
                      ~(skipper.iState = eRamping /\ msg.kind = "Decoded")
               PROVE  RemovalHolds'
    OBVIOUS
  <2>1. CASE CheckHaltPending \/ PullPendingMetatext
    <3>1. /\ UNCHANGED discard /\ skipper'.iState = skipper.iState
          /\ flusher'.iTargetHaltId = flusher.iTargetHaltId /\ flusher'.iLastHaltId = flusher.iLastHaltId
      BY <2>1, TypeParts DEF RemovalInv, IInv, CheckHaltPending, PullPendingMetatext, Members, FlusherMembers
    <3> QED BY <3>1 DEF RemovalHolds
  <2>2. CASE TrySeek \/ OutputFlush \/ StreamEnds \/ Block \/ Unblock \/ TryStop
    BY <2>2 DEF TrySeek, OutputFlush, StreamEnds, Block, Unblock, TryStop, RemovalHolds
  <2> QED BY <2>1, <2>2, DiscardHolds, RemovalsHold, FlusherPullHolds, ProcessHolds DEF Next, Puller
<1> QED BY <1>1, <1>2, PTL DEF Spec, RemovalGoesOn
=============================================================================
