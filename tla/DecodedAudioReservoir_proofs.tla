---------------------- MODULE DecodedAudioReservoir_proofs ----------------------
(***************************************************************************)
(* For any sizes of the reservoir and any messages: the type invariant,    *)
(* that neither thread waits for a signal that has been missed, that the   *)
(* reservoir holds no more than it is made for, and that the counter of    *)
(* priority messages is exact until something is discarded.                *)
(* The wakeup invariants need of the number of messages held only that the *)
(* steps of the other thread between two of its signals do not change it;  *)
(* the last two need what a step of either end does to that number.        *)
(***************************************************************************)
EXTENDS DecodedAudioReservoir, FiniteSetTheorems, TLAPS

USE KindsAssumption, SizesAssumption

(* The counters of a TUint stay in its range. *)
LEMMA CounterRange ==
    ASSUME NEW n \in Int
    PROVE  Inc(n) \in 0..(CounterSize - 1) /\ Dec(n) \in 0..(CounterSize - 1)
<1>1. CounterSize \in Nat \ {0}
  OBVIOUS
<1>2. \A m \in Int : m % CounterSize \in 0..(CounterSize - 1)
  BY <1>1
<1>3. n + 1 \in Int /\ n - 1 \in Int
  OBVIOUS
<1> QED BY <1>2, <1>3 DEF Inc, Dec

LEMMA KindsAreStrings == None \notin AllKinds /\ Kinds \subseteq AllKinds /\ ModeKinds \subseteq PriorityKinds
  BY DEF None, AllKinds, PriorityKinds, ModeKinds

LEMMA PusherTypes ==
    ASSUME TypeOK
    PROVE  /\ \A kind \in Kinds : BeginPush(kind) => TypeOK'
           /\ PusherStep => TypeOK'
<1> USE DEF TypeOK, gorgeVars, discardVars, PusherStates
<1> DEFINE PusherOK == pusher' \in [pc : PusherStates, msg : AllKinds \cup {None}, old : 0..(CounterSize - 1)]
<1>1. ASSUME NEW kind \in Kinds, BeginPush(kind) PROVE TypeOK'
  <2>1. stage' \in PriorityKinds \cup {None}
    BY <1>1, KindsAreStrings DEF BeginPush, AllKinds, PriorityKinds, ModeKinds
  <2>2. PusherOK /\ pusher'.msg # None
    BY <1>1, KindsAreStrings DEF BeginPush
  <2> QED BY <1>1, <2>1, <2>2 DEF BeginPush
<1>2. ASSUME CountIn PROVE TypeOK'
  <2>1. PusherOK /\ pusher'.msg # None
    BY <1>2 DEF CountIn
  <2>2. iStartOfMode' \in BOOLEAN
    BY <1>2 DEF CountIn
  <2> QED BY <1>2, <2>1, <2>2 DEF CountIn
<1>3. ASSUME BlockIfFull PROVE TypeOK'
  BY <1>3 DEF BlockIfFull, Admitted
<1>4. ASSUME HandleBlocked PROVE TypeOK'
  <2>1. iGorging' \in BOOLEAN /\ iSemOut' \in BOOLEAN
    BY <1>4 DEF HandleBlocked, SetGorging
  <2>2. PusherOK /\ pusher'.msg # None
    BY <1>4 DEF HandleBlocked
  <2> QED BY <1>4, <2>1, <2>2 DEF HandleBlocked
<1>5. ASSUME SemWait PROVE TypeOK'
  BY <1>5 DEF SemWait, Admitted
<1>6. ASSUME PriorityIn PROVE TypeOK'
  <2>1. iPriorityMsgCount' \in 0..(CounterSize - 1)
    BY <1>6, CounterRange DEF PriorityIn
  <2>2. iShouldGorge' \in BOOLEAN /\ iGorging' \in BOOLEAN /\ iSemOut' \in BOOLEAN
    BY <1>6 DEF PriorityIn, SetGorging
  <2>3. PusherOK /\ pusher'.msg # None
    BY <1>6 DEF PriorityIn
  <2> QED BY <1>6, <2>1, <2>2, <2>3 DEF PriorityIn
<1>7. ASSUME Enqueue PROVE TypeOK'
  <2>1. pusher.msg \in AllKinds
    BY <1>7 DEF Enqueue
  <2>2. iQueue' \in Seq(AllKinds)
    BY <1>7, <2>1 DEF Enqueue
  <2> QED BY <1>7, <2>2 DEF Enqueue
<1>8. ASSUME EndPush PROVE TypeOK'
  <2>1. iShouldGorge' \in BOOLEAN
    BY <1>8 DEF EndPush
  <2>2. iGorging' \in BOOLEAN /\ iSemOut' \in BOOLEAN
    BY <1>8 DEF EndPush, SetGorging
  <2>3. PusherOK /\ pusher'.pc = "idle"
    BY <1>8 DEF EndPush
  <2> QED BY <1>8, <2>1, <2>2, <2>3 DEF EndPush
<1> QED BY <1>1, <1>2, <1>3, <1>4, <1>5, <1>6, <1>7, <1>8 DEF PusherStep

LEMMA PullerTypes ==
    ASSUME TypeOK
    PROVE  /\ BeginPull => TypeOK'
           /\ PullerStep => TypeOK'
           /\ NotifyStarving => TypeOK'
           /\ \A jiffies \in 1..(MaxJiffies + 1) : TryDiscard(jiffies) => TypeOK'
<1> USE DEF TypeOK, gorgeVars, discardVars, PullerStates
<1> DEFINE PullerOK == puller' \in [pc : PullerStates, msg : AllKinds \cup {None}]
<1>1. ASSUME BeginPull PROVE TypeOK'
  BY <1>1 DEF BeginPull
<1>2. ASSUME SemOutWait PROVE TypeOK'
  BY <1>2 DEF SemOutWait
<1>3. ASSUME Dequeue PROVE TypeOK'
  <2>1. Head(iQueue) \in AllKinds /\ Tail(iQueue) \in Seq(AllKinds)
    BY <1>3 DEF Dequeue
  <2>2. PullerOK
    BY <1>3, <2>1 DEF Dequeue
  <2> QED BY <1>3, <2>1, <2>2 DEF Dequeue
<1>4. ASSUME MsgOut PROVE TypeOK'
  <2>1. iPriorityMsgCount' \in 0..(CounterSize - 1)
    BY <1>4, CounterRange DEF MsgOut
  <2>2. iCanGorge' \in BOOLEAN
    BY <1>4 DEF MsgOut
  <2>3. iShouldGorge' \in BOOLEAN /\ iStartOfMode' \in BOOLEAN /\ iDecodedStream' \in BOOLEAN
    BY <1>4, <2>2 DEF MsgOut
  <2>4. PullerOK
    BY <1>4 DEF MsgOut
  <2> QED BY <1>4, <2>1, <2>2, <2>3, <2>4 DEF MsgOut
<1>5. ASSUME AudioOut PROVE TypeOK'
  <2>1. "DecodedStream" \in AllKinds
    BY DEF AllKinds, PriorityKinds
  <2>2. iQueue' \in Seq(AllKinds)
    BY <1>5, <2>1 DEF AudioOut
  <2>3. iDiscardJiffies' \in Nat
    BY <1>5 DEF AudioOut
  <2>4. PullerOK
    BY <1>5 DEF AudioOut
  <2> QED BY <1>5, <2>2, <2>3, <2>4 DEF AudioOut
<1>6. ASSUME UnblockIfNotFull PROVE TypeOK'
  <2>1. iSem' \in BOOLEAN /\ PullerOK
    BY <1>6 DEF UnblockIfNotFull
  <2> QED BY <1>6, <2>1 DEF UnblockIfNotFull
<1>7. ASSUME EndPull PROVE TypeOK'
  <2>1. iShouldGorge' \in BOOLEAN /\ iGorging' \in BOOLEAN /\ iSemOut' \in BOOLEAN
    BY <1>7 DEF EndPull, SetGorging
  <2>2. PullerOK
    BY <1>7 DEF EndPull
  <2> QED BY <1>7, <2>1, <2>2 DEF EndPull
<1>8. ASSUME NotifyStarving PROVE TypeOK'
  <2>1. iShouldGorge' \in BOOLEAN /\ iGorging' \in BOOLEAN /\ iSemOut' \in BOOLEAN
    BY <1>8 DEF NotifyStarving, SetGorging
  <2> QED BY <1>8, <2>1 DEF NotifyStarving
<1>9. ASSUME NEW jiffies \in 1..(MaxJiffies + 1), TryDiscard(jiffies) PROVE TypeOK'
  BY <1>9 DEF TryDiscard
<1> QED BY <1>1, <1>2, <1>3, <1>4, <1>5, <1>6, <1>7, <1>8, <1>9 DEF PullerStep

LEMMA InitTypes == Init => TypeOK
<1> SUFFICES ASSUME Init PROVE TypeOK
  OBVIOUS
<1> USE DEF Init
<1>1. iQueue \in Seq(AllKinds) /\ stage \in PriorityKinds \cup {None}
  OBVIOUS
<1>2. 0 \in 0..(CounterSize - 1) /\ 0 \in 0..MaxDiscards
  OBVIOUS
<1>3. pusher \in [pc : PusherStates, msg : AllKinds \cup {None}, old : 0..(CounterSize - 1)]
  BY <1>2 DEF PusherStates
<1>4. puller \in [pc : PullerStates, msg : AllKinds \cup {None}]
  BY DEF PullerStates
<1> QED BY <1>1, <1>2, <1>3, <1>4 DEF TypeOK

(* Every variable keeps its type; in particular the counter of priority     *)
(* messages stays a TUint, whatever is discarded (DecodedAudioReservoir.h). *)
THEOREM TypeCorrect == Spec => []TypeOK
<1>1. Init => TypeOK
  BY InitTypes
<1>2. TypeOK /\ [Next]_vars => TypeOK'
  <2>1. TypeOK /\ UNCHANGED vars => TypeOK'
    BY DEF TypeOK, vars, gorgeVars, discardVars
  <2> QED BY <2>1, PusherTypes, PullerTypes DEF Next
<1> QED BY <1>1, <1>2, PTL DEF Spec
--------------------------------------------------------------------------------
(* The counters are numbers, and depend only on the queue and on whether     *)
(* the message being pushed is counted.                                      *)
LEMMA JiffiesIsNatural ==
    ASSUME TypeOK
    PROVE  Jiffies \in Nat
<1> DEFINE Audio == {i \in DOMAIN iQueue : iQueue[i] = "Audio"}
<1>1. IsFiniteSet(Audio)
  <2>1. Len(iQueue) \in Nat /\ DOMAIN iQueue = 1..Len(iQueue)
    BY DEF TypeOK
  <2>2. IsFiniteSet(1..Len(iQueue))
    BY <2>1, FS_Interval
  <2> QED BY <2>1, <2>2, FS_Subset
<1>2. Cardinality(Audio) \in Nat
  BY <1>1, FS_CardinalityType
<1> QED BY <1>2 DEF Jiffies, Count, Queued, Held

LEMMA SameJiffies ==
    ASSUME iQueue' = iQueue, Held("Audio")' = Held("Audio")
    PROVE  Jiffies' = Jiffies
  BY DEF Jiffies, Count, Queued

LEMMA SameJiffiesAppend ==
    ASSUME TypeOK, NEW kind \in AllKinds, kind # "Audio",
           iQueue' = Append(iQueue, kind), Held("Audio")' = Held("Audio")
    PROVE  Jiffies' = Jiffies
<1> DEFINE Old == {i \in DOMAIN iQueue : iQueue[i] = "Audio"}
           New == {i \in DOMAIN iQueue' : iQueue'[i] = "Audio"}
<1>1. DOMAIN iQueue = 1..Len(iQueue) /\ Len(iQueue) \in Nat
  BY DEF TypeOK
<1>2. DOMAIN iQueue' = 1..(Len(iQueue) + 1)
  BY <1>1 DEF TypeOK
<1>3. /\ \A i \in DOMAIN iQueue : iQueue'[i] = iQueue[i]
      /\ iQueue'[Len(iQueue) + 1] = kind
  BY <1>1 DEF TypeOK
<1>4. New = Old
  BY <1>1, <1>2, <1>3
<1> QED BY <1>4 DEF Jiffies, Count, Queued

LEMMA SameIsFull ==
    ASSUME iQueue' = iQueue, \A kind \in AllKinds : Held(kind)' = Held(kind)
    PROVE  IsFull' = IsFull
<1>1. {"Track", "Delay", "MetaText", "DecodedStream", "Audio"} \subseteq AllKinds
  BY DEF AllKinds, PriorityKinds
<1>2. \A kind \in {"Track", "Delay", "MetaText", "DecodedStream"} : Count(kind)' = Count(kind)
  BY <1>1 DEF Count, Queued
<1>3. Jiffies' = Jiffies
  BY <1>1, SameJiffies
<1> QED BY <1>2, <1>3 DEF IsFull

(* A pull that waits for audio is always woken: SetGorging(FALSE) signals    *)
(* whenever it ends gorging, and Push looks at the amount of audio after it  *)
(* has added to it (DecodedAudioReservoir::Push, HandleBlocked, SetGorging). *)
THEOREM PullersWoken == Spec => []PullersAreWoken
<1> DEFINE Inv == TypeOK /\ PullersAreWoken
<1>1. Init => Inv
  BY InitTypes DEF Init, PullersAreWoken
<1>2. Inv /\ [Next]_vars => Inv'
  <2> SUFFICES ASSUME Inv, [Next]_vars PROVE PullersAreWoken'
    BY PusherTypes, PullerTypes DEF Next, TypeOK, vars, gorgeVars, discardVars
  <2> DEFINE Waiting == puller.pc = "gorge" /\ ~iSemOut
             InPush  == pusher.pc # "idle" /\ pusher.msg = "Audio"
  <2> USE DEF PullersAreWoken
  <2>0. Jiffies \in Nat /\ GorgeSize \in Nat
    BY JiffiesIsNatural
  <2>p. /\ pusher = [pc |-> pusher.pc, msg |-> pusher.msg, old |-> pusher.old]
        /\ pusher.msg \in AllKinds \cup {None}
        /\ puller = [pc |-> puller.pc, msg |-> puller.msg]
    BY DEF TypeOK
  <2> HIDE DEF Inv
  <2>i. Waiting => iGorging /\ (Jiffies < GorgeSize \/ InPush)
    BY DEF Inv
  <2>s. TypeOK
    BY DEF Inv
  <2>1. ASSUME NEW kind \in Kinds, BeginPush(kind) PROVE PullersAreWoken'
    <3>1. CASE kind = "Audio"
      BY <2>1, <2>i, <3>1 DEF BeginPush, gorgeVars
    <3>2. CASE kind # "Audio"
      <4>1. Held("Audio")' = Held("Audio") /\ iQueue' = iQueue
        BY <2>1 DEF Held, BeginPush
      <4>2. Jiffies' = Jiffies
        BY <4>1, SameJiffies
      <4> QED BY <2>1, <2>i, <4>2 DEF BeginPush, gorgeVars
    <3> QED BY <3>1, <3>2
  <2>2. ASSUME CountIn \/ BlockIfFull \/ SemWait PROVE PullersAreWoken'
    <3>1. /\ pusher'.msg = pusher.msg /\ pusher.pc # "idle" /\ pusher'.pc # "idle"
          /\ iQueue' = iQueue /\ puller' = puller /\ iSemOut' = iSemOut /\ iGorging' = iGorging
      BY <2>2, <2>p DEF CountIn, BlockIfFull, SemWait, Admitted, gorgeVars
    <3>2. CASE pusher.msg = "Audio"
      BY <2>i, <3>1, <3>2
    <3>3. CASE pusher.msg # "Audio"
      <4>1. Jiffies' = Jiffies
        BY <3>1, <3>3, SameJiffies DEF Held
      <4> QED BY <2>i, <3>1, <3>3, <4>1
    <3> QED BY <3>2, <3>3
  <2>3. ASSUME HandleBlocked PROVE PullersAreWoken'
    <3>1. /\ Jiffies' = Jiffies /\ puller' = puller
          /\ pusher.pc # "idle" /\ pusher'.pc # "idle" /\ pusher'.msg = pusher.msg
      BY <2>3, <2>p, SameJiffies DEF HandleBlocked, Held
    <3>2. CASE iGorging /\ Jiffies >= GorgeSize
      BY <2>3, <3>2 DEF HandleBlocked, SetGorging
    <3>3. CASE ~(iGorging /\ Jiffies >= GorgeSize)
      <4>1. iGorging' = iGorging /\ iSemOut' = iSemOut
        BY <2>3, <3>3 DEF HandleBlocked
      <4> QED BY <2>i, <3>1, <4>1
    <3> QED BY <3>2, <3>3
  <2>4. ASSUME PriorityIn PROVE PullersAreWoken'
    <3>1. /\ pusher.pc # "idle" /\ pusher'.pc # "idle" /\ pusher'.msg = pusher.msg
          /\ puller' = puller /\ Jiffies' = Jiffies
      BY <2>4, <2>p, SameJiffies DEF PriorityIn, Held
    <3>2. CASE pusher.msg \in ModeKinds
      <4>1. iSemOut' = (iSemOut \/ iGorging)
        BY <2>4, <3>2 DEF PriorityIn, SetGorging
      <4> QED BY <2>i, <3>1, <4>1
    <3>3. CASE pusher.msg \notin ModeKinds
      <4>1. iGorging' = iGorging /\ iSemOut' = iSemOut
        BY <2>4, <3>3 DEF PriorityIn
      <4> QED BY <2>i, <3>1, <4>1
    <3> QED BY <3>2, <3>3
  <2>5. ASSUME Enqueue PROVE PullersAreWoken'
    <3>1. /\ pusher.pc = "enqueue" /\ pusher'.pc = "end" /\ pusher'.msg = pusher.msg
          /\ puller' = puller /\ iSemOut' = iSemOut /\ iGorging' = iGorging
          /\ iQueue' = Append(iQueue, pusher.msg)
      BY <2>5, <2>p DEF Enqueue, gorgeVars
    <3>2. CASE pusher.msg = "Audio"
      BY <2>i, <3>1, <3>2
    <3>3. CASE pusher.msg # "Audio"
      <4>1. pusher.msg \in AllKinds
        BY <2>p, <2>s, <3>1 DEF TypeOK
      <4>2. Held("Audio")' = Held("Audio")
        BY <3>1, <3>3 DEF Held
      <4>3. Jiffies' = Jiffies
        BY <2>s, <3>1, <3>3, <4>1, <4>2, SameJiffiesAppend
      <4> QED BY <2>i, <3>1, <3>3, <4>3
    <3> QED BY <3>2, <3>3
  <2>6. ASSUME EndPush PROVE PullersAreWoken'
    <3>1. Jiffies' = Jiffies /\ puller' = puller /\ pusher'.pc = "idle"
      BY <2>6, SameJiffies DEF EndPush, Held
    <3>2. CASE iGorging /\ Jiffies >= GorgeSize
      BY <2>6, <3>2 DEF EndPush, SetGorging
    <3>3. CASE ~(iGorging /\ Jiffies >= GorgeSize)
      <4>1. ~iGorging \/ Jiffies < GorgeSize
        BY <2>0, <3>3
      <4>2. \/ iGorging' = iGorging /\ iSemOut' = iSemOut
            \/ iSemOut' = (iSemOut \/ iGorging)
        BY <2>6 DEF EndPush, SetGorging
      <4> QED BY <2>i, <3>1, <4>1, <4>2
    <3> QED BY <3>2, <3>3
  <2>7. ASSUME BeginPull PROVE PullersAreWoken'
    <3>1. Jiffies' = Jiffies
      BY <2>7, SameJiffies DEF BeginPull, Held
    <3> QED BY <2>7, <2>p, <3>1 DEF BeginPull
  <2>8. ASSUME PullerStep PROVE PullersAreWoken'
    <3>1. CASE SemOutWait
      BY <2>p, <3>1 DEF SemOutWait
    <3>2. CASE Dequeue
      BY <3>2 DEF Dequeue
    <3>3. CASE MsgOut \/ AudioOut \/ UnblockIfNotFull
      BY <2>p, <3>3 DEF MsgOut, AudioOut, UnblockIfNotFull
    <3>4. CASE EndPull
      BY <3>4 DEF EndPull
    <3> QED BY <2>8, <3>1, <3>2, <3>3, <3>4 DEF PullerStep
  <2>9. ASSUME NotifyStarving PROVE PullersAreWoken'
    <3>1. Jiffies' = Jiffies /\ Jiffies < GorgeSize /\ puller' = puller
      BY <2>9, SameJiffies DEF NotifyStarving, Held
    <3>2. \/ iGorging' = TRUE
          \/ iGorging' = iGorging /\ iSemOut' = iSemOut
      BY <2>9 DEF NotifyStarving, SetGorging
    <3> QED BY <2>i, <3>1, <3>2
  <2>10. ASSUME NEW jiffies \in 1..(MaxJiffies + 1), TryDiscard(jiffies) PROVE PullersAreWoken'
    BY <2>10 DEF TryDiscard
  <2>11. CASE UNCHANGED vars
    <3>1. Jiffies' = Jiffies
      BY <2>11, SameJiffies DEF vars, Held
    <3> QED BY <2>11, <2>i, <3>1 DEF vars, gorgeVars
  <2> QED BY <2>1, <2>2, <2>3, <2>4, <2>5, <2>6, <2>7, <2>8, <2>9, <2>10, <2>11 DEF Next, PusherStep
<1> QED BY <1>1, <1>2, PTL DEF Spec

(* A push that waits for room is always woken, until something is discarded: *)
(* the thread that makes room tells it in the same pull                      *)
(* (AudioReservoir::BlockIfFull, UnblockIfNotFull).  The loop that discards  *)
(* audio makes room without telling.                                         *)
THEOREM PushersWoken == Spec => []PushersAreWoken
<1> DEFINE Undisturbed == discards = 0 => iDiscardJiffies = 0
           Inv == TypeOK /\ Undisturbed /\ PushersAreWoken
<1>1. Init => Inv
  BY InitTypes DEF Init, PushersAreWoken
<1>2. Inv /\ [Next]_vars => Inv'
  <2> SUFFICES ASSUME Inv, [Next]_vars PROVE Undisturbed' /\ PushersAreWoken'
    BY PusherTypes, PullerTypes DEF Next, TypeOK, vars, gorgeVars, discardVars
  <2> DEFINE Blocked == pusher.pc \in {"handle", "wait"} /\ ~iSem
  <2> USE DEF PushersAreWoken
  <2>p. /\ pusher = [pc |-> pusher.pc, msg |-> pusher.msg, old |-> pusher.old]
        /\ puller = [pc |-> puller.pc, msg |-> puller.msg]
        /\ discards = 0 => iDiscardJiffies = 0
        /\ discards \in Nat
    BY DEF TypeOK
  <2>i. discards = 0 /\ Blocked => IsFull \/ puller.pc \in {"out", "unblock"}
    OBVIOUS
  <2> HIDE DEF Inv
  <2>1. ASSUME NEW kind \in Kinds, BeginPush(kind) PROVE Undisturbed' /\ PushersAreWoken'
    BY <2>1, <2>p DEF BeginPush, discardVars
  <2>2. ASSUME CountIn \/ SemWait \/ PriorityIn \/ Enqueue \/ EndPush
        PROVE  Undisturbed' /\ PushersAreWoken'
    <3>1. Undisturbed'
      BY <2>2, <2>p DEF CountIn, SemWait, PriorityIn, Enqueue, EndPush, discardVars
    <3>2. pusher'.pc \notin {"handle", "wait"}
      <4>1. CASE CountIn
        BY <2>p, <4>1 DEF CountIn
      <4>2. CASE SemWait
        BY <2>p, <4>2 DEF SemWait, Admitted
      <4>3. CASE PriorityIn \/ Enqueue
        BY <2>p, <4>3 DEF PriorityIn, Enqueue
      <4>4. CASE EndPush
        BY <4>4 DEF EndPush
      <4> QED BY <2>2, <4>1, <4>2, <4>3, <4>4
    <3> QED BY <3>1, <3>2
  <2>3. ASSUME BlockIfFull PROVE Undisturbed' /\ PushersAreWoken'
    <3>1. CASE IsFull
      <4>1. pusher'.pc = "handle" /\ pusher'.msg = pusher.msg /\ pusher.pc = "block" /\ iQueue' = iQueue
        BY <2>3, <2>p, <3>1 DEF BlockIfFull
      <4>2. \A kind \in AllKinds : Held(kind)' = Held(kind)
        BY <4>1 DEF Held
      <4>3. IsFull'
        BY <3>1, <4>1, <4>2, SameIsFull
      <4> QED BY <2>3, <2>p, <4>3 DEF BlockIfFull, discardVars
    <3>2. CASE ~IsFull
      BY <2>3, <2>p, <3>2 DEF BlockIfFull, Admitted, discardVars
    <3> QED BY <3>1, <3>2
  <2>4. ASSUME HandleBlocked PROVE Undisturbed' /\ PushersAreWoken'
    <3>1. /\ pusher'.pc = "wait" /\ pusher'.msg = pusher.msg /\ pusher.pc = "handle"
          /\ iQueue' = iQueue /\ iSem' = iSem /\ puller' = puller
      BY <2>4, <2>p DEF HandleBlocked
    <3>2. \A kind \in AllKinds : Held(kind)' = Held(kind)
      BY <3>1 DEF Held
    <3>3. IsFull' = IsFull
      BY <3>1, <3>2, SameIsFull
    <3> QED BY <2>4, <2>p, <2>i, <3>1, <3>3 DEF HandleBlocked, discardVars
  <2>5. ASSUME BeginPull \/ SemOutWait \/ EndPull \/ NotifyStarving
        PROVE  Undisturbed' /\ PushersAreWoken'
    <3>1. /\ pusher' = pusher /\ iQueue' = iQueue /\ iSem' = iSem /\ discardVars' = discardVars
          /\ puller.pc \in {"out", "unblock"} => puller'.pc = puller.pc
      BY <2>5, <2>p DEF BeginPull, SemOutWait, EndPull, NotifyStarving, discardVars
    <3>2. IsFull' = IsFull
      BY <3>1, SameIsFull DEF Held
    <3> QED BY <2>p, <2>i, <3>1, <3>2 DEF discardVars
  <2>6. ASSUME Dequeue \/ MsgOut \/ AudioOut PROVE Undisturbed' /\ PushersAreWoken'
    BY <2>6, <2>p DEF Dequeue, MsgOut, AudioOut, discardVars
  <2>7. ASSUME UnblockIfNotFull PROVE Undisturbed' /\ PushersAreWoken'
    <3>1. IsFull' = IsFull
      BY <2>7, SameIsFull DEF UnblockIfNotFull, Held
    <3> QED BY <2>7, <2>p, <3>1 DEF UnblockIfNotFull, discardVars
  <2>8. ASSUME NEW jiffies \in 1..(MaxJiffies + 1), TryDiscard(jiffies)
        PROVE  Undisturbed' /\ PushersAreWoken'
    BY <2>8, <2>p DEF TryDiscard
  <2>9. CASE UNCHANGED vars
    <3>1. IsFull' = IsFull
      BY <2>9, SameIsFull DEF vars, Held
    <3> QED BY <2>9, <2>p, <2>i, <3>1 DEF vars, discardVars
  <2> QED BY <2>1, <2>2, <2>3, <2>4, <2>5, <2>6, <2>7, <2>8, <2>9 DEF Next, PusherStep, PullerStep
<1> QED BY <1>1, <1>2, PTL DEF Spec
--------------------------------------------------------------------------------
(* How many messages of some kinds a queue holds, and what adding one at     *)
(* either end or taking one out does to it.                                  *)
NumberOf(q, kinds) == Cardinality({i \in DOMAIN q : q[i] \in kinds})

LEMMA NumberRange ==
    ASSUME NEW q \in Seq(AllKinds), NEW kinds
    PROVE  /\ IsFiniteSet({i \in DOMAIN q : q[i] \in kinds})
           /\ NumberOf(q, kinds) \in Nat /\ NumberOf(q, kinds) <= Len(q)
<1> DEFINE S == {i \in DOMAIN q : q[i] \in kinds}
<1>1. DOMAIN q = 1..Len(q) /\ Len(q) \in Nat
  OBVIOUS
<1>2. IsFiniteSet(1..Len(q)) /\ Cardinality(1..Len(q)) = Len(q)
  BY <1>1, FS_Interval
<1>3. S \in SUBSET (1..Len(q))
  BY <1>1
<1>4. IsFiniteSet(S) /\ Cardinality(S) <= Len(q)
  BY <1>2, <1>3, FS_Subset
<1>5. Cardinality(S) \in Nat
  BY <1>4, FS_CardinalityType
<1> QED BY <1>4, <1>5 DEF NumberOf

LEMMA NumberOfNone == ASSUME NEW kinds PROVE NumberOf(<<>>, kinds) = 0
<1>1. {i \in DOMAIN <<>> : <<>>[i] \in kinds} = {}
  OBVIOUS
<1> QED BY <1>1, FS_EmptySet DEF NumberOf

LEMMA NumberAppend ==
    ASSUME NEW q \in Seq(AllKinds), NEW kinds, NEW kind \in AllKinds
    PROVE  NumberOf(Append(q, kind), kinds) = NumberOf(q, kinds) + (IF kind \in kinds THEN 1 ELSE 0)
<1> DEFINE r == Append(q, kind)
           n == Len(q) + 1
           Old == {i \in DOMAIN q : q[i] \in kinds}
           New == {i \in DOMAIN r : r[i] \in kinds}
<1>1. /\ DOMAIN q = 1..Len(q) /\ Len(q) \in Nat /\ DOMAIN r = 1..n
      /\ r[n] = kind /\ \A i \in 1..Len(q) : r[i] = q[i]
  OBVIOUS
<1>2. IsFiniteSet(Old) /\ Cardinality(Old) \in Nat
  BY NumberRange DEF NumberOf
<1>3. n \notin Old
  BY <1>1
<1>4. CASE kind \in kinds
  <2>1. New = Old \cup {n}
    BY <1>1, <1>4
  <2> QED BY <1>2, <1>3, <1>4, <2>1, FS_AddElement DEF NumberOf
<1>5. CASE kind \notin kinds
  <2>1. New = Old
    BY <1>1, <1>5
  <2>2. NumberOf(r, kinds) = NumberOf(q, kinds)
    BY <2>1 DEF NumberOf
  <2>3. NumberOf(q, kinds) \in Nat
    BY NumberRange
  <2>4. NumberOf(q, kinds) = NumberOf(q, kinds) + (IF kind \in kinds THEN 1 ELSE 0)
    BY <1>5, <2>3
  <2> QED BY <2>2, <2>4
<1> QED BY <1>4, <1>5

LEMMA NumberTail ==
    ASSUME NEW q \in Seq(AllKinds), q # <<>>, NEW kinds
    PROVE  NumberOf(q, kinds) = NumberOf(Tail(q), kinds) + (IF Head(q) \in kinds THEN 1 ELSE 0)
<1> DEFINE r == Tail(q)
           Old == {i \in DOMAIN q : q[i] \in kinds}
           New == {i \in DOMAIN r : r[i] \in kinds}
           Rest == Old \ {1}
           f == [i \in Rest |-> i - 1]
<1>1. /\ Len(q) \in Nat /\ Len(q) > 0 /\ DOMAIN q = 1..Len(q)
      /\ r \in Seq(AllKinds) /\ DOMAIN r = 1..(Len(q) - 1)
      /\ \A i \in DOMAIN r : r[i] = q[i + 1]
      /\ Head(q) = q[1]
  OBVIOUS
<1>2. IsFiniteSet(Old) /\ IsFiniteSet(New) /\ Cardinality(New) \in Nat
  BY <1>1, NumberRange DEF NumberOf
<1> HIDE DEF r
<1>3. IsFiniteSet(Rest)
  BY <1>2, FS_RemoveElement
<1>4. Rest \subseteq 2..Len(q) /\ \A i \in Rest : i - 1 \in New
  BY <1>1
<1>5. ASSUME NEW j \in New PROVE j + 1 \in Rest
  BY <1>1
<1>6. f \in Bijection(Rest, New)
  <2>1. f \in [Rest -> New]
    BY <1>4
  <2>2. \A a, b \in Rest : f[a] = f[b] => a = b
    BY <1>4
  <2>3. \A j \in New : \E i \in Rest : f[i] = j
    <3> SUFFICES ASSUME NEW j \in New PROVE \E i \in Rest : f[i] = j
      OBVIOUS
    <3>1. j + 1 \in Rest /\ j \in Nat
      BY <1>1, <1>5
    <3>2. f[j + 1] = j
      BY <3>1
    <3> QED BY <3>1, <3>2
  <2> HIDE DEF f, Rest, New
  <2> QED BY <2>1, <2>2, <2>3 DEF Bijection, Injection, Surjection, IsInjective
<1>7. Cardinality(New) = Cardinality(Rest)
  <2>1. ExistsBijection(Rest, New)
    BY <1>6 DEF ExistsBijection
  <2> QED BY <1>3, <2>1, FS_Bijection
<1>8. Cardinality(Rest) = IF 1 \in Old THEN Cardinality(Old) - 1 ELSE Cardinality(Old)
  BY <1>2, FS_RemoveElement
<1>9. 1 \in Old <=> Head(q) \in kinds
  BY <1>1
<1>10. Cardinality(Old) \in Nat
  BY <1>2, FS_CardinalityType
<1> HIDE DEF Old, New, Rest
<1>11. Cardinality(Old) = Cardinality(New) + (IF Head(q) \in kinds THEN 1 ELSE 0)
  BY <1>2, <1>7, <1>8, <1>9, <1>10
<1> QED BY <1>11 DEF NumberOf, Old, New, r

LEMMA NumberPrefix ==
    ASSUME NEW q \in Seq(AllKinds), NEW kinds, NEW kind \in AllKinds
    PROVE  NumberOf(<<kind>> \o q, kinds) = NumberOf(q, kinds) + (IF kind \in kinds THEN 1 ELSE 0)
<1> DEFINE r == <<kind>> \o q
<1>1. r \in Seq(AllKinds) /\ r # <<>> /\ Head(r) = kind
  OBVIOUS
<1>2. Tail(r) = q
  OBVIOUS
<1> HIDE DEF r
<1>3. NumberOf(r, kinds) = NumberOf(q, kinds) + (IF kind \in kinds THEN 1 ELSE 0)
  BY <1>1, <1>2, NumberTail
<1> QED BY <1>3 DEF r

--------------------------------------------------------------------------------
(* A push that was let in, or has been signalled while it waits, finds room  *)
(* when it reaches the queue: nobody else adds to it but a discard, which    *)
(* owes one stream from the call of TryDiscard on.                           *)
Bounded == {"Audio", "Track", "DecodedStream"}
Owed == IF iDiscardJiffies > 0 THEN 1 ELSE 0
Limit(kind) == IF kind = "Audio" THEN MaxJiffies
               ELSE IF kind = "Track" THEN MaxStreams - 1
               ELSE MaxStreams - 1 + discards - Owed
Coming(kind) == /\ pusher.msg = kind
                /\ \/ pusher.pc \in {"prio", "enqueue"}
                   \/ pusher.pc \in {"handle", "wait"} /\ iSem
Fits(kind) == Queued(kind) + (IF Coming(kind) THEN 1 ELSE 0) <= Limit(kind)
RoomInv ==
    /\ \A kind \in Bounded : Fits(kind)
    /\ iDiscardJiffies > 0 => discards > 0

LEMMA QueuedIs == \A kind : Queued(kind) = NumberOf(iQueue, {kind})
<1> SUFFICES ASSUME NEW kind PROVE Queued(kind) = NumberOf(iQueue, {kind})
  OBVIOUS
<1>1. {i \in DOMAIN iQueue : iQueue[i] = kind} = {i \in DOMAIN iQueue : iQueue[i] \in {kind}}
  OBVIOUS
<1> QED BY <1>1 DEF Queued, NumberOf

LEMMA QueuedIsNext == \A kind : Queued(kind)' = NumberOf(iQueue', {kind})
<1> SUFFICES ASSUME NEW kind PROVE Queued(kind)' = NumberOf(iQueue', {kind})
  OBVIOUS
<1>1. {i \in DOMAIN iQueue' : iQueue'[i] = kind} = {i \in DOMAIN iQueue' : iQueue'[i] \in {kind}}
  OBVIOUS
<1> QED BY <1>1 DEF Queued, NumberOf

LEMMA LimitsTyped ==
    ASSUME TypeOK
    PROVE  /\ \A kind : Limit(kind) \in Int
           /\ \A kind : Queued(kind) \in Nat
           /\ Owed \in {0, 1} /\ discards \in Nat
<1>1. Owed \in {0, 1} /\ discards \in Nat
  BY DEF TypeOK, Owed
<1>2. \A kind : Limit(kind) \in Int
  BY <1>1 DEF Limit
<1>3. iQueue \in Seq(AllKinds)
  BY DEF TypeOK
<1>4. \A kind : Queued(kind) \in Nat
  BY <1>3, NumberRange, QueuedIs
<1> QED BY <1>1, <1>2, <1>4

(* Nothing is added and nothing is let in.                                   *)
LEMMA RoomStays ==
    ASSUME TypeOK, RoomInv, UNCHANGED <<iDiscardJiffies, discards>>,
           \A kind \in Bounded : Queued(kind)' \in Nat /\ Queued(kind)' <= Queued(kind),
           \A kind \in Bounded : Coming(kind)' => Coming(kind)
    PROVE  RoomInv'
<1>1. ASSUME NEW kind \in Bounded PROVE Fits(kind)'
  <2>1. Limit(kind)' = Limit(kind) /\ Limit(kind) \in Int /\ Queued(kind) \in Nat
    BY LimitsTyped DEF Limit, Owed
  <2>2. Fits(kind)
    BY <1>1 DEF RoomInv
  <2> QED BY <1>1, <2>1, <2>2 DEF Fits
<1> QED BY <1>1 DEF RoomInv

(* Where IsFull() says no, a message that is counted but not yet queued fits. *)
LEMMA NotFullFits ==
    ASSUME TypeOK, RoomInv, ~IsFull, pusher.pc \in {"block", "handle", "wait"},
           NEW kind \in Bounded, pusher.msg = kind
    PROVE  Queued(kind) + 1 <= Limit(kind)
<1>1. Held(kind) = 1 /\ Queued(kind) \in Nat /\ Owed \in {0, 1} /\ discards \in Nat
  BY LimitsTyped DEF Held
<1>2. Owed <= discards
  BY <1>1 DEF Owed, RoomInv
<1>3. Count(kind) = Queued(kind) + 1
  BY <1>1 DEF Count
<1>4. CASE kind = "Audio"
  <2>1. ~(Queued(kind) + 1 > MaxJiffies)
    BY <1>3, <1>4 DEF IsFull, Jiffies
  <2> QED BY <1>1, <1>4, <2>1 DEF Limit
<1>5. CASE kind \in {"Track", "DecodedStream"}
  <2>1. ~(Queued(kind) + 1 >= MaxStreams)
    BY <1>3, <1>5 DEF IsFull
  <2> QED BY <1>1, <1>2, <1>5, <2>1 DEF Limit
<1> QED BY <1>4, <1>5 DEF Bounded

LEMMA SameQueued == iQueue' = iQueue => \A kind : Queued(kind)' = Queued(kind)
  BY DEF Queued

LEMMA PusherRoom ==
    ASSUME TypeOK, RoomInv, (\E kind \in Kinds : BeginPush(kind)) \/ PusherStep
    PROVE  RoomInv'
<1>p. /\ pusher = [pc |-> pusher.pc, msg |-> pusher.msg, old |-> pusher.old]
      /\ \A kind : Queued(kind) \in Nat /\ Limit(kind) \in Int
  BY LimitsTyped DEF TypeOK
<1>1. CASE \/ \E kind \in Kinds : BeginPush(kind)
           \/ CountIn \/ HandleBlocked \/ SemWait \/ PriorityIn \/ EndPush
  <2>1. iQueue' = iQueue /\ UNCHANGED <<iDiscardJiffies, discards>>
    BY <1>1 DEF BeginPush, CountIn, HandleBlocked, SemWait, PriorityIn, EndPush, discardVars
  <2>2. \A kind \in Bounded : Coming(kind)' => Coming(kind)
    <3>1. CASE \E kind \in Kinds : BeginPush(kind)
      BY <3>1 DEF BeginPush, Coming
    <3>2. CASE CountIn
      BY <1>p, <3>2 DEF CountIn, Coming, Bounded, BlockingKinds
    <3>3. CASE HandleBlocked
      BY <1>p, <3>3 DEF HandleBlocked, Coming
    <3>4. CASE SemWait
      BY <1>p, <3>4 DEF SemWait, Coming
    <3>5. CASE PriorityIn
      BY <1>p, <3>5 DEF PriorityIn, Coming
    <3>6. CASE EndPush
      BY <3>6 DEF EndPush, Coming
    <3> QED BY <1>1, <3>1, <3>2, <3>3, <3>4, <3>5, <3>6
  <2>3. \A kind \in Bounded : Queued(kind)' \in Nat /\ Queued(kind)' <= Queued(kind)
    BY <1>p, <2>1, SameQueued
  <2> QED BY <2>1, <2>2, <2>3, RoomStays
<1>2. CASE BlockIfFull
  <2>1. /\ iQueue' = iQueue /\ UNCHANGED <<iDiscardJiffies, discards>> /\ iSem' = FALSE
        /\ pusher.pc = "block" /\ pusher'.msg = pusher.msg
        /\ pusher'.pc = IF IsFull THEN "handle" ELSE Admitted
    BY <1>2, <1>p DEF BlockIfFull, discardVars
  <2>2. ASSUME NEW kind \in Bounded PROVE Fits(kind)'
    <3>1. Queued(kind)' = Queued(kind) /\ Limit(kind)' = Limit(kind) /\ Fits(kind)
      BY <2>1, <2>2, SameQueued DEF Limit, Owed, RoomInv
    <3>2. CASE Coming(kind)'
      <4>1. ~IsFull /\ pusher.msg = kind
        BY <2>1, <3>2 DEF Coming
      <4>2. Queued(kind) + 1 <= Limit(kind)
        BY <2>1, <2>2, <4>1, NotFullFits
      <4> QED BY <3>1, <3>2, <4>2 DEF Fits
    <3>3. CASE ~Coming(kind)'
      BY <1>p, <3>1, <3>3 DEF Fits
    <3> QED BY <3>2, <3>3
  <2> QED BY <2>1, <2>2 DEF RoomInv
<1>3. CASE Enqueue
  <2>1. /\ pusher.pc = "enqueue" /\ pusher'.pc = "end" /\ iQueue' = Append(iQueue, pusher.msg)
        /\ UNCHANGED <<iDiscardJiffies, discards>>
    BY <1>3, <1>p DEF Enqueue, discardVars
  <2>2. pusher.msg \in AllKinds /\ iQueue \in Seq(AllKinds)
    BY <2>1 DEF TypeOK
  <2>3. ASSUME NEW kind \in Bounded PROVE Fits(kind)'
    <3>1. Queued(kind)' = Queued(kind) + (IF pusher.msg \in {kind} THEN 1 ELSE 0)
      BY <2>1, <2>2, NumberAppend, QueuedIs, QueuedIsNext
    <3>2. ~Coming(kind)' /\ (Coming(kind) <=> pusher.msg = kind)
      BY <2>1 DEF Coming
    <3>3. Limit(kind)' = Limit(kind) /\ Fits(kind)
      BY <2>1, <2>3 DEF Limit, Owed, RoomInv
    <3>4. CASE pusher.msg = kind
      BY <1>p, <3>1, <3>2, <3>3, <3>4 DEF Fits
    <3>5. CASE pusher.msg # kind
      BY <1>p, <3>1, <3>2, <3>3, <3>5 DEF Fits
    <3> QED BY <3>4, <3>5
  <2> QED BY <2>1, <2>3 DEF RoomInv
<1> QED BY <1>1, <1>2, <1>3 DEF PusherStep

LEMMA PullerRoom ==
    ASSUME TypeOK, RoomInv,
           \/ BeginPull \/ PullerStep \/ NotifyStarving \/ UNCHANGED vars
           \/ \E jiffies \in 1..(MaxJiffies + 1) : TryDiscard(jiffies)
    PROVE  RoomInv'
<1>p. /\ \A kind : Queued(kind) \in Nat /\ Limit(kind) \in Int
      /\ iQueue \in Seq(AllKinds) /\ discards \in Nat /\ iDiscardJiffies \in Nat
  BY LimitsTyped DEF TypeOK
<1>1. CASE BeginPull \/ SemOutWait \/ MsgOut \/ EndPull \/ NotifyStarving \/ UNCHANGED vars
  <2>1. iQueue' = iQueue /\ UNCHANGED <<pusher, iSem, iDiscardJiffies, discards>>
    BY <1>1 DEF BeginPull, SemOutWait, MsgOut, EndPull, NotifyStarving, vars, discardVars
  <2> QED BY <1>p, <2>1, SameQueued, RoomStays DEF Coming
<1>2. CASE Dequeue
  <2>1. /\ iQueue # <<>> /\ iQueue' = Tail(iQueue)
        /\ UNCHANGED <<pusher, iSem, iDiscardJiffies, discards>>
    BY <1>2 DEF Dequeue, discardVars
  <2>2. ASSUME NEW kind \in Bounded PROVE Queued(kind)' \in Nat /\ Queued(kind)' <= Queued(kind)
    <3>1. iQueue' \in Seq(AllKinds)
      BY <1>p, <2>1
    <3>2. Queued(kind)' \in Nat
      BY <3>1, NumberRange, QueuedIsNext
    <3>3. Queued(kind) = Queued(kind)' + (IF Head(iQueue) \in {kind} THEN 1 ELSE 0)
      BY <1>p, <2>1, NumberTail, QueuedIs, QueuedIsNext
    <3> QED BY <3>2, <3>3
  <2> QED BY <2>1, <2>2, RoomStays DEF Coming
<1>3. CASE AudioOut
  <2>1. /\ iDiscardJiffies' = IF iDiscardJiffies = 0 THEN 0 ELSE iDiscardJiffies - 1
        /\ iQueue' = IF iDiscardJiffies = 1 THEN <<"DecodedStream">> \o iQueue ELSE iQueue
        /\ UNCHANGED <<pusher, iSem, discards>>
    BY <1>3 DEF AudioOut
  <2>2. \A kind : Coming(kind)' <=> Coming(kind)
    BY <2>1 DEF Coming
  <2>3. CASE iDiscardJiffies = 1
    <3>1. ASSUME NEW kind \in Bounded PROVE Fits(kind)'
      <4>1. "DecodedStream" \in AllKinds
        BY DEF AllKinds, PriorityKinds
      <4>2. Queued(kind)' = Queued(kind) + (IF "DecodedStream" \in {kind} THEN 1 ELSE 0)
        BY <1>p, <2>1, <2>3, <4>1, NumberPrefix, QueuedIs, QueuedIsNext
      <4>3. Owed = 1 /\ Owed' = 0
        BY <2>1, <2>3 DEF Owed
      <4>4. Fits(kind)
        BY <3>1 DEF RoomInv
      <4>5. CASE kind = "DecodedStream"
        <5>1. Limit(kind)' = Limit(kind) + 1
          BY <1>p, <2>1, <4>3, <4>5 DEF Limit
        <5> QED BY <1>p, <2>2, <4>2, <4>4, <4>5, <5>1 DEF Fits
      <4>6. CASE kind # "DecodedStream"
        <5>1. Limit(kind)' = Limit(kind)
          BY <3>1, <4>6 DEF Limit, Bounded
        <5> QED BY <1>p, <2>2, <4>2, <4>4, <4>6, <5>1 DEF Fits
      <4> QED BY <4>5, <4>6
    <3> QED BY <2>1, <2>3, <3>1 DEF RoomInv
  <2>4. CASE iDiscardJiffies # 1
    <3>1. iQueue' = iQueue /\ (iDiscardJiffies' > 0 <=> iDiscardJiffies > 0)
      BY <1>p, <2>1, <2>4
    <3>2. \A kind : Queued(kind)' = Queued(kind) /\ Limit(kind)' = Limit(kind)
      BY <2>1, <3>1, SameQueued DEF Limit, Owed
    <3> QED BY <2>1, <2>2, <3>1, <3>2 DEF RoomInv, Fits
  <2> QED BY <2>3, <2>4
<1>4. CASE UnblockIfNotFull
  <2>1. /\ iQueue' = iQueue /\ iSem' = (iSem \/ ~IsFull)
        /\ UNCHANGED <<pusher, iDiscardJiffies, discards>>
    BY <1>4 DEF UnblockIfNotFull, discardVars
  <2>2. ASSUME NEW kind \in Bounded PROVE Fits(kind)'
    <3>1. Queued(kind)' = Queued(kind) /\ Limit(kind)' = Limit(kind) /\ Fits(kind)
      BY <2>1, <2>2, SameQueued DEF Limit, Owed, RoomInv
    <3>2. CASE Coming(kind)' /\ ~Coming(kind)
      <4>1. ~IsFull /\ pusher.msg = kind /\ pusher.pc \in {"handle", "wait"}
        BY <2>1, <3>2 DEF Coming
      <4>2. Queued(kind) + 1 <= Limit(kind)
        BY <2>2, <4>1, NotFullFits
      <4> QED BY <3>1, <3>2, <4>2 DEF Fits
    <3>3. CASE Coming(kind)' => Coming(kind)
      BY <1>p, <3>1, <3>3 DEF Fits
    <3> QED BY <3>2, <3>3
  <2> QED BY <2>1, <2>2 DEF RoomInv
<1>5. ASSUME NEW jiffies \in 1..(MaxJiffies + 1), TryDiscard(jiffies) PROVE RoomInv'
  <2>1. /\ iQueue' = iQueue /\ UNCHANGED <<pusher, iSem>> /\ iDiscardJiffies = 0
        /\ iDiscardJiffies' = jiffies /\ discards' = discards + 1
    BY <1>p, <1>5 DEF TryDiscard
  <2>2. Owed = 0 /\ Owed' = 1
    BY <2>1 DEF Owed
  <2>3. \A kind : Limit(kind)' = Limit(kind)
    BY <1>p, <2>1, <2>2 DEF Limit
  <2>4. \A kind \in Bounded : Fits(kind)'
    BY <2>1, <2>3, SameQueued DEF RoomInv, Fits, Coming
  <2>5. discards' > 0
    BY <1>p, <2>1
  <2> QED BY <2>4, <2>5 DEF RoomInv
<1> QED BY <1>1, <1>2, <1>3, <1>4, <1>5 DEF PullerStep

LEMMA InitRoom == Init => RoomInv
<1> SUFFICES ASSUME Init PROVE RoomInv
  OBVIOUS
<1>1. \A kind : Queued(kind) = 0
  BY QueuedIs, NumberOfNone DEF Init
<1>2. \A kind : ~Coming(kind)
  BY DEF Init, Coming
<1>3. \A kind : Limit(kind) \in Nat
  BY DEF Init, Limit, Owed
<1> QED BY <1>1, <1>2, <1>3 DEF RoomInv, Fits, Init

LEMMA RoomInvariance == Spec => []RoomInv
<1>1. TypeOK /\ RoomInv /\ [Next]_vars => RoomInv'
  BY PusherRoom, PullerRoom DEF Next
<1> QED BY <1>1, InitRoom, TypeCorrect, PTL DEF Spec

(* The reservoir holds one message of audio more than iMaxJiffies at most,   *)
(* and no more tracks and streams than iMaxStreamCount allows, save one      *)
(* stream for each discard: a push that was told of room still finds it      *)
(* (AudioReservoir::BlockIfFull, UnblockIfNotFull).                          *)
THEOREM StaysWithinLimits == Spec => []OccupancyBounded
<1>1. TypeOK /\ RoomInv => OccupancyBounded
  <2> SUFFICES ASSUME TypeOK, RoomInv PROVE OccupancyBounded
    OBVIOUS
  <2>1. /\ \A kind : Queued(kind) \in Nat /\ Held(kind) \in {0, 1}
        /\ Owed \in {0, 1} /\ discards \in Nat
    BY LimitsTyped DEF Held
  <2>2. \A kind \in Bounded : Queued(kind) <= Limit(kind)
    <3> SUFFICES ASSUME NEW kind \in Bounded PROVE Queued(kind) <= Limit(kind)
      OBVIOUS
    <3>1. Fits(kind) /\ Limit(kind) \in Int /\ Queued(kind) \in Nat
      BY LimitsTyped DEF RoomInv
    <3> QED BY <3>1 DEF Fits
  <2>3. Queued("Audio") <= MaxJiffies
    BY <2>2 DEF Bounded, Limit
  <2>4. Queued("Track") <= MaxStreams - 1
    BY <2>2 DEF Bounded, Limit
  <2>5. Queued("DecodedStream") <= MaxStreams - 1 + discards
    <3>1. Queued("DecodedStream") <= MaxStreams - 1 + discards - Owed
      BY <2>2 DEF Bounded, Limit
    <3> QED BY <2>1, <3>1
  <2>6. /\ Queued("Audio") \in Nat /\ Held("Audio") \in {0, 1}
        /\ Queued("Track") \in Nat /\ Held("Track") \in {0, 1}
        /\ Queued("DecodedStream") \in Nat /\ Held("DecodedStream") \in {0, 1}
    BY <2>1
  <2> QED BY <2>1, <2>3, <2>4, <2>5, <2>6 DEF OccupancyBounded, Jiffies, Count
<1> QED BY <1>1, TypeCorrect, RoomInvariance, PTL

--------------------------------------------------------------------------------
(* The counter of priority messages follows what is between the two ends of  *)
(* the reservoir.  It does not wrap: the messages it counts fit in a queue   *)
(* that is shorter than CounterSize.                                         *)
ComingIn == IF pusher.pc = "enqueue" /\ pusher.msg \in PriorityKinds THEN 1 ELSE 0
GoingOut == IF puller.pc = "out" /\ puller.msg \in PriorityKinds THEN 1 ELSE 0
NotYet == IF pusher.pc \in {"idle", "end"} THEN 0 ELSE 1
Counted == iPriorityMsgCount = NumberOf(iQueue, PriorityKinds) + ComingIn + GoingOut + QuitCounted
CountInv ==
    /\ pusher.pc = "prio" => pusher.msg \in PriorityKinds
    /\ discards = 0 => /\ iDiscardJiffies = 0
                       /\ Len(iQueue) + NotYet <= MaxQueue
                       /\ Counted

LEMMA CountsTyped ==
    ASSUME TypeOK
    PROVE  /\ ComingIn \in {0, 1} /\ GoingOut \in {0, 1} /\ QuitCounted \in {0, 1}
           /\ NotYet \in {0, 1} /\ GoingOut + QuitCounted \in {0, 1}
           /\ iQueue \in Seq(AllKinds) /\ Len(iQueue) \in Nat
           /\ NumberOf(iQueue, PriorityKinds) \in Nat
           /\ NumberOf(iQueue, PriorityKinds) <= Len(iQueue)
           /\ MaxQueue \in Nat /\ CounterSize \in Nat /\ discards \in Nat
<1>1. iQueue \in Seq(AllKinds) /\ Len(iQueue) \in Nat /\ discards \in Nat
  BY DEF TypeOK
<1>2. NumberOf(iQueue, PriorityKinds) \in Nat /\ NumberOf(iQueue, PriorityKinds) <= Len(iQueue)
  BY <1>1, NumberRange
<1>3. puller.pc = "out" => QuitCounted = 0
  BY DEF QuitCounted
<1>4. ComingIn \in {0, 1} /\ GoingOut \in {0, 1} /\ QuitCounted \in {0, 1} /\ NotYet \in {0, 1}
  BY DEF ComingIn, GoingOut, QuitCounted, NotYet
<1>5. GoingOut + QuitCounted \in {0, 1}
  BY <1>3, <1>4 DEF GoingOut
<1> QED BY <1>1, <1>2, <1>4, <1>5

LEMMA CounterSteps ==
    ASSUME NEW n \in Nat
    PROVE  /\ n + 1 < CounterSize => Inc(n) = n + 1
           /\ n > 0 /\ n < CounterSize => Dec(n) = n - 1
<1>1. CounterSize \in Nat \ {0}
  OBVIOUS
<1>2. \A m \in Nat : m < CounterSize => m % CounterSize = m
  BY <1>1
<1>3. n > 0 => n - 1 \in Nat
  OBVIOUS
<1> QED BY <1>1, <1>2, <1>3 DEF Inc, Dec

LEMMA PusherCounts ==
    ASSUME TypeOK, CountInv, (\E kind \in Kinds : BeginPush(kind)) \/ PusherStep
    PROVE  CountInv'
<1>p. pusher = [pc |-> pusher.pc, msg |-> pusher.msg, old |-> pusher.old]
  BY DEF TypeOK
<1>q. UNCHANGED <<puller, iDiscardJiffies, discards>>
  BY DEF BeginPush, PusherStep, CountIn, BlockIfFull, HandleBlocked, SemWait, PriorityIn, Enqueue,
         EndPush, discardVars
<1>r. GoingOut' = GoingOut /\ QuitCounted' = QuitCounted
  BY <1>q DEF GoingOut, QuitCounted
<1>1. CASE \/ \E kind \in Kinds : BeginPush(kind)
           \/ CountIn \/ BlockIfFull \/ HandleBlocked \/ SemWait \/ EndPush
  <2>1. iQueue' = iQueue /\ iPriorityMsgCount' = iPriorityMsgCount
    BY <1>1 DEF BeginPush, CountIn, BlockIfFull, HandleBlocked, SemWait, EndPush, gorgeVars
  <2>2. /\ ComingIn' = 0 /\ ComingIn = 0
        /\ pusher'.pc = "prio" => pusher'.msg \in PriorityKinds
        /\ NotYet' = NotYet \/ (Len(iQueue) < MaxQueue /\ NotYet' = 1) \/ NotYet' = 0
    <3>1. CASE \E kind \in Kinds : BeginPush(kind)
      BY <3>1 DEF BeginPush, ComingIn, NotYet
    <3>2. CASE CountIn
      <4>1. pusher.pc = "count" /\ pusher'.msg = pusher.msg
        BY <1>p, <3>2 DEF CountIn
      <4>2. CASE pusher.msg \in BlockingKinds
        BY <1>p, <3>2, <4>1, <4>2 DEF CountIn, ComingIn, NotYet
      <4>3. CASE pusher.msg \in PriorityKinds \ BlockingKinds
        BY <1>p, <3>2, <4>1, <4>3 DEF CountIn, ComingIn, NotYet
      <4>4. CASE pusher.msg \notin BlockingKinds \cup PriorityKinds
        BY <1>p, <3>2, <4>1, <4>4 DEF CountIn, ComingIn, NotYet
      <4> QED BY <4>2, <4>3, <4>4
    <3>3. CASE BlockIfFull
      BY <1>p, <3>3 DEF BlockIfFull, Admitted, ComingIn, NotYet
    <3>4. CASE HandleBlocked
      BY <1>p, <3>4 DEF HandleBlocked, ComingIn, NotYet
    <3>5. CASE SemWait
      BY <1>p, <3>5 DEF SemWait, Admitted, ComingIn, NotYet
    <3>6. CASE EndPush
      BY <3>6 DEF EndPush, ComingIn, NotYet
    <3> QED BY <1>1, <3>1, <3>2, <3>3, <3>4, <3>5, <3>6
  <2>3. Counted' <=> Counted
    BY <1>r, <2>1, <2>2 DEF Counted
  <2>4. Len(iQueue) + NotYet <= MaxQueue => Len(iQueue) + NotYet' <= MaxQueue
    BY <2>2, CountsTyped
  <2> QED BY <1>q, <2>1, <2>2, <2>3, <2>4 DEF CountInv
<1>2. CASE PriorityIn
  <2>1. /\ pusher.pc = "prio" /\ pusher'.pc = "enqueue" /\ pusher'.msg = pusher.msg
        /\ iQueue' = iQueue /\ iPriorityMsgCount' = Inc(iPriorityMsgCount)
    BY <1>2, <1>p DEF PriorityIn
  <2>2. ComingIn = 0 /\ ComingIn' = 1 /\ NotYet = 1 /\ NotYet' = 1
    BY <2>1 DEF CountInv, ComingIn, NotYet
  <2>3. ASSUME discards = 0 PROVE Counted'
    <3>1. /\ Len(iQueue) + 1 <= MaxQueue
          /\ iPriorityMsgCount = NumberOf(iQueue, PriorityKinds) + GoingOut + QuitCounted
      <4>1. Len(iQueue) + NotYet <= MaxQueue /\ Counted
        BY <2>3 DEF CountInv
      <4> QED BY <2>2, <4>1, CountsTyped DEF Counted
    <3>2. iPriorityMsgCount + 1 < CounterSize /\ iPriorityMsgCount \in Nat
      BY <3>1, CountsTyped, CounterAssumption
    <3>3. iPriorityMsgCount' = iPriorityMsgCount + 1
      BY <2>1, <3>2, CounterSteps
    <3> QED BY <1>r, <2>1, <2>2, <3>1, <3>3, CountsTyped DEF Counted
  <2> QED BY <1>q, <2>1, <2>2, <2>3 DEF CountInv
<1>3. CASE Enqueue
  <2>1. /\ pusher.pc = "enqueue" /\ pusher'.pc = "end"
        /\ iQueue' = Append(iQueue, pusher.msg) /\ iPriorityMsgCount' = iPriorityMsgCount
    BY <1>3, <1>p DEF Enqueue, gorgeVars
  <2>2. pusher.msg \in AllKinds /\ iQueue \in Seq(AllKinds)
    BY <2>1 DEF TypeOK
  <2>3. /\ NumberOf(iQueue', PriorityKinds) = NumberOf(iQueue, PriorityKinds) + ComingIn
        /\ ComingIn' = 0 /\ NotYet = 1 /\ NotYet' = 0
    <3>1. NumberOf(iQueue', PriorityKinds)
          = NumberOf(iQueue, PriorityKinds) + (IF pusher.msg \in PriorityKinds THEN 1 ELSE 0)
      BY <2>1, <2>2, NumberAppend
    <3>2. ComingIn = (IF pusher.msg \in PriorityKinds THEN 1 ELSE 0)
      BY <2>1 DEF ComingIn
    <3> QED BY <2>1, <3>1, <3>2 DEF ComingIn, NotYet
  <2>4. Len(iQueue') = Len(iQueue) + 1
    BY <2>1, <2>2
  <2>5. discards = 0 => Counted' /\ Len(iQueue') + NotYet' <= MaxQueue
    <3>1. discards = 0 => Counted /\ Len(iQueue) + NotYet <= MaxQueue
      BY DEF CountInv
    <3>2. Counted => Counted'
      BY <1>r, <2>1, <2>3, CountsTyped DEF Counted
    <3> QED BY <2>3, <2>4, <3>1, <3>2, CountsTyped
  <2> QED BY <1>q, <2>1, <2>5 DEF CountInv
<1> QED BY <1>1, <1>2, <1>3 DEF PusherStep

LEMMA PullerCounts ==
    ASSUME TypeOK, TypeOK', CountInv,
           \/ BeginPull \/ PullerStep \/ NotifyStarving \/ UNCHANGED vars
           \/ \E jiffies \in 1..(MaxJiffies + 1) : TryDiscard(jiffies)
    PROVE  CountInv'
<1>p. puller = [pc |-> puller.pc, msg |-> puller.msg]
  BY DEF TypeOK
<1>q. pusher' = pusher
  BY DEF BeginPull, PullerStep, SemOutWait, Dequeue, MsgOut, AudioOut, UnblockIfNotFull, EndPull,
         NotifyStarving, TryDiscard, vars
<1>r. ComingIn' = ComingIn /\ NotYet' = NotYet
  BY <1>q DEF ComingIn, NotYet
<1>1. CASE BeginPull \/ SemOutWait \/ UnblockIfNotFull \/ EndPull \/ NotifyStarving \/ UNCHANGED vars
  <2>1. UNCHANGED <<iQueue, iPriorityMsgCount, discards, iDiscardJiffies>>
    BY <1>1 DEF BeginPull, SemOutWait, UnblockIfNotFull, EndPull, NotifyStarving, vars, gorgeVars,
                discardVars
  <2>2. GoingOut' = GoingOut /\ QuitCounted' = QuitCounted
    <3>1. CASE BeginPull
      BY <1>p, <3>1 DEF BeginPull, GoingOut, QuitCounted
    <3>2. CASE SemOutWait
      BY <1>p, <3>2 DEF SemOutWait, GoingOut, QuitCounted
    <3>3. CASE UnblockIfNotFull
      BY <1>p, <3>3 DEF UnblockIfNotFull, GoingOut, QuitCounted
    <3>4. CASE EndPull
      BY <1>p, <3>4 DEF EndPull, GoingOut, QuitCounted, None
    <3>5. CASE NotifyStarving \/ UNCHANGED vars
      BY <3>5 DEF NotifyStarving, vars, GoingOut, QuitCounted
    <3> QED BY <1>1, <3>1, <3>2, <3>3, <3>4, <3>5
  <2> QED BY <1>q, <1>r, <2>1, <2>2 DEF CountInv, Counted
<1>2. CASE Dequeue
  <2>1. /\ puller.pc = "dequeue" /\ iQueue # <<>> /\ iQueue' = Tail(iQueue)
        /\ puller'.pc = "out" /\ puller'.msg = Head(iQueue)
        /\ UNCHANGED <<iPriorityMsgCount, discards, iDiscardJiffies>>
    BY <1>2 DEF Dequeue, gorgeVars, discardVars
  <2>2. GoingOut = 0 /\ QuitCounted = 0 /\ QuitCounted' = 0
    BY <2>1 DEF GoingOut, QuitCounted
  <2>3. NumberOf(iQueue, PriorityKinds) = NumberOf(iQueue', PriorityKinds) + GoingOut'
    <3>1. NumberOf(iQueue, PriorityKinds)
          = NumberOf(iQueue', PriorityKinds) + (IF Head(iQueue) \in PriorityKinds THEN 1 ELSE 0)
      BY <2>1, NumberTail DEF TypeOK
    <3> QED BY <2>1, <3>1 DEF GoingOut
  <2>4. Len(iQueue') <= Len(iQueue) /\ Len(iQueue') \in Nat
    BY <2>1 DEF TypeOK
  <2>5. NumberOf(iQueue', PriorityKinds) \in Nat /\ GoingOut' \in {0, 1}
    <3>1. iQueue' \in Seq(AllKinds)
      BY DEF TypeOK
    <3> QED BY <3>1, NumberRange DEF GoingOut
  <2>6. Counted => Counted'
    BY <1>r, <2>1, <2>2, <2>3, <2>5, CountsTyped DEF Counted
  <2>7. Len(iQueue) + NotYet <= MaxQueue => Len(iQueue') + NotYet' <= MaxQueue
    BY <1>r, <2>4, CountsTyped
  <2> QED BY <1>q, <2>1, <2>6, <2>7 DEF CountInv
<1>3. CASE MsgOut
  <2>1. /\ puller.pc = "out" /\ puller'.pc = "unblock" /\ puller'.msg = puller.msg
        /\ iPriorityMsgCount' = IF puller.msg \in PriorityKinds \ {"Quit"}
                                THEN Dec(iPriorityMsgCount) ELSE iPriorityMsgCount
        /\ UNCHANGED <<iQueue, discards, iDiscardJiffies>>
    BY <1>3, <1>p DEF MsgOut
  <2>2. QuitCounted = 0 /\ GoingOut' = 0
    BY <2>1 DEF QuitCounted, GoingOut
  <2>3. ASSUME discards = 0 PROVE Counted'
    <3>1. Counted /\ Len(iQueue) <= MaxQueue
      BY <2>3, CountsTyped DEF CountInv
    <3>2. CASE puller.msg \in PriorityKinds \ {"Quit"}
      <4>1. GoingOut = 1 /\ QuitCounted' = 0
        BY <2>1, <3>2 DEF GoingOut, QuitCounted
      <4>2. iPriorityMsgCount \in Nat /\ iPriorityMsgCount > 0 /\ iPriorityMsgCount < CounterSize
        BY <3>1, <4>1, CountsTyped DEF Counted, TypeOK
      <4>3. iPriorityMsgCount' = iPriorityMsgCount - 1
        BY <2>1, <3>2, <4>2, CounterSteps
      <4> QED BY <1>r, <2>1, <2>2, <3>1, <4>1, <4>2, <4>3, CountsTyped DEF Counted
    <3>3. CASE puller.msg = "Quit"
      <4>1. GoingOut = 1 /\ QuitCounted' = 1
        BY <2>1, <3>3 DEF GoingOut, QuitCounted, PriorityKinds
      <4> QED BY <1>r, <2>1, <2>2, <3>1, <3>3, <4>1, CountsTyped DEF Counted
    <3>4. CASE puller.msg \notin PriorityKinds
      <4>1. GoingOut = 0 /\ QuitCounted' = 0
        BY <2>1, <3>4 DEF GoingOut, QuitCounted, PriorityKinds
      <4> QED BY <1>r, <2>1, <2>2, <3>1, <3>4, <4>1, CountsTyped DEF Counted
    <3> QED BY <3>2, <3>3, <3>4
  <2> QED BY <1>q, <1>r, <2>1, <2>3 DEF CountInv
<1>4. CASE AudioOut
  <2>1. /\ puller.pc = "out" /\ puller.msg = "Audio" /\ puller'.msg = "Audio"
        /\ puller'.pc \in {"dequeue", "unblock"} /\ discards' = discards
        /\ iPriorityMsgCount' = iPriorityMsgCount
        /\ iDiscardJiffies = 0 => iQueue' = iQueue /\ iDiscardJiffies' = 0
    BY <1>4, <1>p DEF AudioOut, gorgeVars
  <2>2. GoingOut = 0 /\ GoingOut' = 0 /\ QuitCounted = 0 /\ QuitCounted' = 0
    BY <2>1 DEF GoingOut, QuitCounted, PriorityKinds, ModeKinds
  <2> QED BY <1>q, <1>r, <2>1, <2>2 DEF CountInv, Counted
<1>5. ASSUME NEW jiffies \in 1..(MaxJiffies + 1), TryDiscard(jiffies) PROVE CountInv'
  <2>1. discards' # 0
    BY <1>5 DEF TryDiscard, TypeOK
  <2> QED BY <1>q, <2>1 DEF CountInv
<1> QED BY <1>1, <1>2, <1>3, <1>4, <1>5 DEF PullerStep

LEMMA InitCounts == Init => CountInv
<1> SUFFICES ASSUME Init PROVE CountInv
  OBVIOUS
<1>1. NumberOf(iQueue, PriorityKinds) = 0 /\ Len(iQueue) = 0
  BY NumberOfNone DEF Init
<1>2. ComingIn = 0 /\ GoingOut = 0 /\ QuitCounted = 0 /\ NotYet = 0
  BY DEF Init, ComingIn, GoingOut, QuitCounted, NotYet, None
<1> QED BY <1>1, <1>2 DEF Init, CountInv, Counted

LEMMA CountInvariance == Spec => []CountInv
<1>1. TypeOK /\ TypeOK' /\ CountInv /\ [Next]_vars => CountInv'
  BY PusherCounts, PullerCounts DEF Next
<1> QED BY <1>1, InitCounts, TypeCorrect, PTL DEF Spec

(* As long as nothing has been discarded, iPriorityMsgCount is the number of *)
(* priority messages between the two ends, whatever is pushed and pulled at  *)
(* once (ProcessMsgIn, ProcessMsgOut): gorging is never held back by one     *)
(* that has gone, nor begun in front of one that waits.                      *)
THEOREM PriorityCounted == Spec => []PriorityCountFollowsQueue
<1>1. CountInv => PriorityCountFollowsQueue
  BY DEF CountInv, Counted, NumberOf, ComingIn, GoingOut, PriorityCountFollowsQueue, PriorityCountExact
<1> QED BY <1>1, CountInvariance, PTL
=================================================================================
