------------------------- MODULE DecodedAudioReservoir -------------------------
(***************************************************************************)
(* The reservoir of decoded audio: DecodedAudioReservoir, its base class   *)
(* AudioReservoir and the counters of MsgReservoir.                        *)
(*                                                                         *)
(* The codec thread pushes and blocks (iSem) while the reservoir is full.  *)
(* The thread of StarvationRamper pulls and blocks (iSemOut) while the     *)
(* reservoir is "gorging", that is gathering audio before it lets any out. *)
(* The audio driver's thread may report starvation at any moment.  A step  *)
(* is one critical section; what one thread has read under a lock may be   *)
(* out of date when it acts on it.                                         *)
(*                                                                         *)
(* A message is its kind.  Audio messages all last one unit of time, so    *)
(* none is split.  Clock pullers, stream handlers and logging are left     *)
(* out.  Semaphores are Booleans: each wait takes one signal, and every    *)
(* wait is preceded by Clear(), so a second signal is never seen.          *)
(***************************************************************************)
EXTENDS Integers, Sequences, FiniteSets

CONSTANTS
    Kinds,          \* the kinds of message the codec thread may push
    MaxJiffies,     \* iMaxJiffies, in messages of audio
    MaxStreams,     \* iMaxStreamCount
    GorgeSize,      \* iGorgeSize, in messages of audio
    CounterSize,    \* number of values of a TUint counter: 2^32 in the code
    MaxQueue,       \* bound: nothing is pushed onto a queue this long
    MaxDiscards     \* bound on the calls of TryDiscard

ModeKinds     == {"GorgeMode", "LiveMode"}
PriorityKinds == ModeKinds \cup {"Track", "EncodedStream", "DecodedStream", "Drain", "Halt", "Quit"}
BlockingKinds == {"Track", "EncodedStream", "DecodedStream", "Audio"}
AllKinds      == PriorityKinds \cup {"Audio", "Delay", "MetaText", "Flush"}
None          == "None"

ASSUME KindsAssumption == Kinds \subseteq AllKinds
ASSUME SizesAssumption ==
    /\ MaxJiffies \in Nat \ {0} /\ MaxStreams \in Nat \ {0, 1}
    /\ GorgeSize \in 1..MaxJiffies
    /\ CounterSize \in Nat \ {0} /\ MaxQueue \in Nat \ {0} /\ MaxDiscards \in Nat
\* Messages come from the cells of MsgFactory: there are never 2^32 of them.
ASSUME CounterAssumption == MaxQueue + 1 < CounterSize

VARIABLES
    iQueue,             \* MsgReservoir::iQueue
    stage,              \* last part of a stream the codec thread announced
    pusher,             \* codec thread: pc, msg, and oldPriorityMsgCount
    puller,             \* thread of StarvationRamper: pc and msg
    iSem, iSemOut,      \* signalled?
    iCanGorge, iShouldGorge, iStartOfMode, iGorging,
    iPriorityMsgCount,
    iDiscardJiffies,
    iDecodedStream,     \* has a decoded stream been pulled?
    discards            \* calls of TryDiscard that were accepted

gorgeVars == <<iCanGorge, iShouldGorge, iStartOfMode, iGorging, iPriorityMsgCount, iSemOut>>
discardVars == <<iDiscardJiffies, iDecodedStream, discards>>
vars == <<iQueue, stage, pusher, puller, iSem, gorgeVars, discardVars>>

PusherStates == {"idle", "count", "block", "handle", "wait", "prio", "enqueue", "end"}
PullerStates == {"idle", "gorge", "dequeue", "out", "unblock", "end", "done"}

Init ==
    /\ iQueue = <<>> /\ stage = None
    /\ pusher = [pc |-> "idle", msg |-> None, old |-> 0]
    /\ puller = [pc |-> "idle", msg |-> None]
    /\ iSem = FALSE /\ iSemOut = FALSE
    /\ iCanGorge = FALSE /\ iShouldGorge = FALSE /\ iStartOfMode = FALSE /\ iGorging = FALSE
    /\ iPriorityMsgCount = 0
    /\ iDiscardJiffies = 0 /\ iDecodedStream = FALSE /\ discards = 0
--------------------------------------------------------------------------------
\* Counters of MsgReservoir.  The one for a message being pushed is incremented
\* before the push blocks or reaches the queue.
Held(kind) == IF /\ pusher.msg = kind
                 /\ pusher.pc \in {"block", "handle", "wait", "prio", "enqueue"}
              THEN 1 ELSE 0
Queued(kind) == Cardinality({i \in DOMAIN iQueue : iQueue[i] = kind})
Count(kind)  == Queued(kind) + Held(kind)
Jiffies      == Count("Audio")

IsFull ==
    \/ Jiffies > MaxJiffies
    \/ \E kind \in {"Track", "Delay", "MetaText", "DecodedStream"} : Count(kind) >= MaxStreams

Inc(n) == (n + 1) % CounterSize
Dec(n) == (n - 1) % CounterSize

SetGorging(gorging) ==
    /\ iGorging' = gorging
    /\ iSemOut' = (iSemOut \/ (iGorging /\ ~gorging))
--------------------------------------------------------------------------------
\* A stream is announced part by part; audio belongs to a decoded stream, and
\* nothing follows Quit.
MayFollow(kind) ==
    CASE kind \in ModeKinds       -> stage # "Quit"
      [] kind = "Track"           -> stage \notin {None, "Quit"}
      [] kind = "EncodedStream"   -> stage \notin {None, "Quit"} \cup ModeKinds
      [] kind = "DecodedStream"   -> stage \in {"EncodedStream", "DecodedStream"}
      [] kind = "Audio"           -> stage = "DecodedStream"
      [] OTHER                    -> stage \notin {None, "Quit"}

\* Push: the priority count as it was before the message is added.
BeginPush(kind) ==
    /\ pusher.pc = "idle" /\ Len(iQueue) < MaxQueue
    /\ MayFollow(kind)
    /\ pusher' = [pc |-> "count", msg |-> kind, old |-> iPriorityMsgCount]
    /\ stage' = IF kind \in {"Audio", "Delay", "MetaText", "Flush", "Halt", "Drain"} THEN stage ELSE kind
    /\ UNCHANGED <<iQueue, puller, iSem, gorgeVars, discardVars>>

\* DoEnqueue: the counter of the message's kind, then (for a mode) the start of the mode.
CountIn ==
    /\ pusher.pc = "count"
    /\ pusher' = [pusher EXCEPT !.pc = CASE pusher.msg \in BlockingKinds -> "block"
                                          [] pusher.msg \in PriorityKinds \ BlockingKinds -> "prio"
                                          [] OTHER -> "enqueue"]
    /\ iStartOfMode' = (iStartOfMode \/ pusher.msg \in ModeKinds)
    /\ UNCHANGED <<iQueue, stage, puller, iSem, iCanGorge, iShouldGorge, iGorging,
                   iPriorityMsgCount, iSemOut, discardVars>>

Admitted == IF pusher.msg \in PriorityKinds THEN "prio" ELSE "enqueue"

\* Fault: a signal left over from an earlier pull is not cleared.
BlockIfFullStale ==
    /\ pusher.pc = "block"
    /\ pusher' = [pusher EXCEPT !.pc = IF IsFull THEN "handle" ELSE Admitted]
    /\ UNCHANGED <<iQueue, stage, puller, iSem, gorgeVars, discardVars>>

\* BlockIfFull: read and clear under the lock, wait outside it.
BlockIfFull ==
    /\ pusher.pc = "block"
    /\ iSem' = FALSE
    /\ pusher' = [pusher EXCEPT !.pc = IF IsFull THEN "handle" ELSE Admitted]
    /\ UNCHANGED <<iQueue, stage, puller, gorgeVars, discardVars>>

HandleBlocked ==
    /\ pusher.pc = "handle"
    /\ IF iGorging /\ Jiffies >= GorgeSize THEN SetGorging(FALSE) ELSE UNCHANGED <<iGorging, iSemOut>>
    /\ pusher' = [pusher EXCEPT !.pc = "wait"]
    /\ UNCHANGED <<iQueue, stage, puller, iSem, iCanGorge, iShouldGorge, iStartOfMode,
                   iPriorityMsgCount, discardVars>>

SemWait ==
    /\ pusher.pc = "wait" /\ iSem
    /\ iSem' = FALSE
    /\ pusher' = [pusher EXCEPT !.pc = Admitted]
    /\ UNCHANGED <<iQueue, stage, puller, gorgeVars, discardVars>>

\* Fault: a halt is not counted on its way in.
PriorityInNoHalt ==
    /\ pusher.pc = "prio"
    /\ iPriorityMsgCount' = IF pusher.msg = "Halt" THEN iPriorityMsgCount ELSE Inc(iPriorityMsgCount)
    /\ IF pusher.msg \in ModeKinds
       THEN iShouldGorge' = FALSE /\ SetGorging(FALSE)
       ELSE UNCHANGED <<iShouldGorge, iGorging, iSemOut>>
    /\ pusher' = [pusher EXCEPT !.pc = "enqueue"]
    /\ UNCHANGED <<iQueue, stage, puller, iSem, iCanGorge, iStartOfMode, discardVars>>

\* Fault: a mode does not end gorging.
PriorityInGorging ==
    /\ pusher.pc = "prio"
    /\ iPriorityMsgCount' = Inc(iPriorityMsgCount)
    /\ iShouldGorge' = (iShouldGorge /\ pusher.msg \notin ModeKinds)
    /\ pusher' = [pusher EXCEPT !.pc = "enqueue"]
    /\ UNCHANGED <<iQueue, stage, puller, iSem, iCanGorge, iStartOfMode, iGorging, iSemOut, discardVars>>

\* ProcessMsgIn of a priority message; a mode also ends gorging.
PriorityIn ==
    /\ pusher.pc = "prio"
    /\ iPriorityMsgCount' = Inc(iPriorityMsgCount)
    /\ IF pusher.msg \in ModeKinds
       THEN iShouldGorge' = FALSE /\ SetGorging(FALSE)
       ELSE UNCHANGED <<iShouldGorge, iGorging, iSemOut>>
    /\ pusher' = [pusher EXCEPT !.pc = "enqueue"]
    /\ UNCHANGED <<iQueue, stage, puller, iSem, iCanGorge, iStartOfMode, discardVars>>

Enqueue ==
    /\ pusher.pc = "enqueue"
    /\ iQueue' = Append(iQueue, pusher.msg)
    /\ pusher' = [pusher EXCEPT !.pc = "end"]
    /\ UNCHANGED <<stage, puller, iSem, gorgeVars, discardVars>>

\* Fault: enough audio does not end gorging.
EndPushPriorityOnly ==
    /\ pusher.pc = "end"
    /\ LET first == iGorging /\ pusher.old = 0 /\ iPriorityMsgCount > 0
       IN  /\ iShouldGorge' = (iShouldGorge \/ first)
           /\ IF first THEN SetGorging(FALSE) ELSE UNCHANGED <<iGorging, iSemOut>>
    /\ pusher' = [pc |-> "idle", msg |-> None, old |-> 0]
    /\ UNCHANGED <<iQueue, stage, puller, iSem, iCanGorge, iStartOfMode, iPriorityMsgCount, discardVars>>

\* The end of Push: enough audio, or the first priority message, ends gorging.
EndPush ==
    /\ pusher.pc = "end"
    /\ LET enough == iGorging /\ Jiffies >= GorgeSize
           first  == iGorging /\ ~enough /\ pusher.old = 0 /\ iPriorityMsgCount > 0
       IN  /\ iShouldGorge' = (iShouldGorge \/ first)
           /\ IF enough \/ first THEN SetGorging(FALSE) ELSE UNCHANGED <<iGorging, iSemOut>>
    /\ pusher' = [pc |-> "idle", msg |-> None, old |-> 0]
    /\ UNCHANGED <<iQueue, stage, puller, iSem, iCanGorge, iStartOfMode, iPriorityMsgCount, discardVars>>
--------------------------------------------------------------------------------
\* Pull: wait while the reservoir gathers audio.
BeginPull ==
    /\ puller.pc = "idle"
    /\ LET wait == iGorging /\ Jiffies < GorgeSize
       IN  /\ puller' = [puller EXCEPT !.pc = IF wait THEN "gorge" ELSE "dequeue"]
           /\ iSemOut' = (iSemOut /\ ~wait)
    /\ UNCHANGED <<iQueue, stage, pusher, iSem, iCanGorge, iShouldGorge, iStartOfMode, iGorging,
                   iPriorityMsgCount, discardVars>>

SemOutWait ==
    /\ puller.pc = "gorge" /\ iSemOut
    /\ iSemOut' = FALSE
    /\ puller' = [puller EXCEPT !.pc = "dequeue"]
    /\ UNCHANGED <<iQueue, stage, pusher, iSem, iCanGorge, iShouldGorge, iStartOfMode, iGorging,
                   iPriorityMsgCount, discardVars>>

Dequeue ==
    /\ puller.pc = "dequeue" /\ iQueue # <<>>
    /\ iQueue' = Tail(iQueue)
    /\ puller' = [pc |-> "out", msg |-> Head(iQueue)]
    /\ UNCHANGED <<stage, pusher, iSem, gorgeVars, discardVars>>

\* ProcessMsgOut of every kind but audio.  Quit is not uncounted.
MsgOut ==
    /\ puller.pc = "out" /\ puller.msg # "Audio"
    /\ iCanGorge' = IF puller.msg \in ModeKinds THEN puller.msg = "GorgeMode" ELSE iCanGorge
    /\ iShouldGorge' = IF puller.msg \in ModeKinds \cup {"Halt", "Flush"} THEN iCanGorge' ELSE iShouldGorge
    /\ iStartOfMode' = (iStartOfMode /\ puller.msg # "DecodedStream")
    /\ iPriorityMsgCount' = IF puller.msg \in PriorityKinds \ {"Quit"}
                            THEN Dec(iPriorityMsgCount) ELSE iPriorityMsgCount
    /\ iDecodedStream' = (iDecodedStream \/ puller.msg = "DecodedStream")
    /\ puller' = [puller EXCEPT !.pc = "unblock"]
    /\ UNCHANGED <<iQueue, stage, pusher, iSem, iGorging, iSemOut, iDiscardJiffies, discards>>

\* ProcessAudioOut: pass the audio on, or discard it and go on dequeuing.  The last
\* message discarded becomes a flush, with the stream it belonged to behind it.
AudioOut ==
    /\ puller.pc = "out" /\ puller.msg = "Audio"
    /\ iDiscardJiffies' = IF iDiscardJiffies = 0 THEN 0 ELSE iDiscardJiffies - 1
    /\ iQueue' = IF iDiscardJiffies = 1 THEN <<"DecodedStream">> \o iQueue ELSE iQueue
    /\ puller' = [puller EXCEPT !.pc = IF iDiscardJiffies > 1 THEN "dequeue" ELSE "unblock"]
    /\ UNCHANGED <<stage, pusher, iSem, gorgeVars, iDecodedStream, discards>>

\* Fault: only audio taken out makes room.
UnblockAfterAudio ==
    /\ puller.pc = "unblock"
    /\ iSem' = (iSem \/ (~IsFull /\ puller.msg = "Audio"))
    /\ puller' = [puller EXCEPT !.pc = "end"]
    /\ UNCHANGED <<iQueue, stage, pusher, gorgeVars, discardVars>>

UnblockIfNotFull ==
    /\ puller.pc = "unblock"
    /\ iSem' = (iSem \/ ~IsFull)
    /\ puller' = [puller EXCEPT !.pc = "end"]
    /\ UNCHANGED <<iQueue, stage, pusher, gorgeVars, discardVars>>

\* The end of Pull: start gathering audio if that was asked for and nothing more urgent waits.
EndPull ==
    /\ puller.pc = "end"
    /\ IF iShouldGorge /\ iPriorityMsgCount = 0 /\ ~iStartOfMode /\ Jiffies < GorgeSize
       THEN iShouldGorge' = FALSE /\ SetGorging(TRUE)
       ELSE UNCHANGED <<iShouldGorge, iGorging, iSemOut>>
    /\ puller' = [pc |-> IF puller.msg = "Quit" THEN "done" ELSE "idle", msg |-> None]
    /\ UNCHANGED <<iQueue, stage, pusher, iSem, iCanGorge, iStartOfMode, iPriorityMsgCount, discardVars>>

\* NotifyStarving, for the mode last pulled; for any other mode it has no effect here.
NotifyStarving ==
    /\ iCanGorge /\ ~iStartOfMode /\ Jiffies < GorgeSize
    /\ IF iPriorityMsgCount = 0
       THEN SetGorging(TRUE) /\ UNCHANGED iShouldGorge
       ELSE iShouldGorge' = iCanGorge /\ UNCHANGED <<iGorging, iSemOut>>
    /\ UNCHANGED <<iQueue, stage, pusher, puller, iSem, iCanGorge, iStartOfMode, iPriorityMsgCount, discardVars>>

\* TryDiscard, called between pulls by the thread that pulls; VariableDelay does not
\* ask again before the flush of its last request.
TryDiscard(jiffies) ==
    /\ puller.pc = "idle" /\ iDecodedStream /\ iDiscardJiffies = 0
    /\ discards < MaxDiscards
    /\ jiffies <= Jiffies
    /\ iDiscardJiffies' = iDiscardJiffies + jiffies
    /\ discards' = discards + 1
    /\ UNCHANGED <<iQueue, stage, pusher, puller, iSem, gorgeVars, iDecodedStream>>
--------------------------------------------------------------------------------
PusherStep == CountIn \/ BlockIfFull \/ HandleBlocked \/ SemWait \/ PriorityIn \/ Enqueue \/ EndPush
PullerStep == SemOutWait \/ Dequeue \/ MsgOut \/ AudioOut \/ UnblockIfNotFull \/ EndPull

Next ==
    \/ \E kind \in Kinds : BeginPush(kind)
    \/ PusherStep
    \/ BeginPull
    \/ PullerStep
    \/ NotifyStarving
    \/ \E jiffies \in 1..(MaxJiffies + 1) : TryDiscard(jiffies)

Spec == Init /\ [][Next]_vars

\* Both threads keep running; StarvationRamper's pulls again whenever it has room.
FairSpec == Spec /\ WF_vars(PusherStep) /\ WF_vars(BeginPull) /\ WF_vars(PullerStep)
--------------------------------------------------------------------------------
TypeOK ==
    /\ iQueue \in Seq(AllKinds)
    /\ stage \in PriorityKinds \cup {None}
    /\ pusher \in [pc : PusherStates, msg : AllKinds \cup {None}, old : 0..(CounterSize - 1)]
    /\ pusher.pc # "idle" => pusher.msg # None
    /\ puller \in [pc : PullerStates, msg : AllKinds \cup {None}]
    /\ iSem \in BOOLEAN /\ iSemOut \in BOOLEAN /\ iDecodedStream \in BOOLEAN
    /\ iCanGorge \in BOOLEAN /\ iShouldGorge \in BOOLEAN
    /\ iStartOfMode \in BOOLEAN /\ iGorging \in BOOLEAN
    /\ iPriorityMsgCount \in 0..(CounterSize - 1)
    /\ iDiscardJiffies \in Nat /\ discards \in 0..MaxDiscards

\* The reservoir never holds more than it is made for: one message over the limit of
\* audio, and no more tracks or streams than the limit, the message being pushed
\* included (AudioReservoir::BlockIfFull, which does not look again after waiting); a
\* discard may put one stream back.
OccupancyBounded ==
    /\ Jiffies <= MaxJiffies + 1
    /\ Queued("Audio") <= MaxJiffies
    /\ Count("Track") <= MaxStreams /\ Queued("Track") < MaxStreams
    /\ Count("DecodedStream") <= MaxStreams + discards
    /\ Queued("DecodedStream") < MaxStreams + discards

\* iPriorityMsgCount is the number of priority messages between the two ends of the
\* reservoir: "last msg to be handled so we don't bother decrementing count on way out"
\* (DecodedAudioReservoir.cpp:216) is the only exception, of Quit.
QuitCounted == IF puller.pc = "done" \/ (puller.msg = "Quit" /\ puller.pc \in {"unblock", "end"}) THEN 1 ELSE 0
PriorityCountExact ==
    iPriorityMsgCount = Cardinality({i \in DOMAIN iQueue : iQueue[i] \in PriorityKinds})
                        + (IF pusher.pc = "enqueue" /\ pusher.msg \in PriorityKinds THEN 1 ELSE 0)
                        + (IF puller.pc = "out" /\ puller.msg \in PriorityKinds THEN 1 ELSE 0)
                        + QuitCounted

\* As long as nothing has been discarded, that count is exact whatever is pushed and pulled
\* at once (ProcessMsgIn, ProcessMsgOut).
PriorityCountFollowsQueue == discards = 0 => PriorityCountExact

\* A push that waits for room is woken: as long as it waits unsignalled the reservoir is
\* full, or the thread that made room is on its way to say so (UnblockIfNotFull).  Again
\* this is only so until something is discarded.
PushersAreWoken ==
    (discards = 0 /\ pusher.pc \in {"handle", "wait"} /\ ~iSem)
        => (IsFull \/ puller.pc \in {"out", "unblock"})

\* A pull that waits for audio is woken: as long as it waits unsignalled the reservoir is
\* still gathering and short of audio, or the push that ends it is under way (SetGorging).
PullersAreWoken ==
    (puller.pc = "gorge" /\ ~iSemOut) =>
        /\ iGorging
        /\ Jiffies < GorgeSize \/ (pusher.pc # "idle" /\ pusher.msg = "Audio")

\* A change of mode gets through the reservoir however much audio was being gathered
\* for the previous mode (ProcessMsgIn(MsgMode*); SuiteGorger::TestGorgingEndsWithNewMode),
\* until a discard upsets iPriorityMsgCount.
InReservoir(kinds) ==
    \/ \E i \in DOMAIN iQueue : iQueue[i] \in kinds
    \/ pusher.msg \in kinds /\ pusher.pc \notin {"idle", "end"}
ModesGetThrough ==
    InReservoir(ModeKinds) ~> (discards > 0 \/ (puller.pc = "out" /\ puller.msg \in ModeKinds))

\* "Msgs can be pulled whenever available" (AudioReservoir.h:13): the thread that pulls is
\* never blocked while the thread that pushes waits for it to make room.
NeverBothBlocked ==
    ~ /\ pusher.pc = "wait" /\ ~iSem
      /\ \/ puller.pc = "gorge" /\ ~iSemOut
         \/ puller.pc = "dequeue" /\ iQueue = <<>>
================================================================================
