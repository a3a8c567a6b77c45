------------------------- MODULE ThreadPool_proofs -------------------------
(***************************************************************************)
(* For any number of handles, threads and clients: once Cancel returns the *)
(* handle is neither called nor queued, and no handle is deleted while a   *)
(* thread, a client or the queue still leads to it.                        *)
(***************************************************************************)
EXTENDS ThreadPool, FiniteSetTheorems, TLAPS

HasHandle == {"dequeued", "locked", "callback", "end", "release"}
HasLock == {"locked", "callback", "end"}

(* A thread or client names a handle exactly where it uses one; a client   *)
(* that destroys it, or may still do so, has it to itself.                 *)
ThreadPlace(t) == thread[t].pc \in HasHandle <=> thread[t].h # Nil
ClientPlace(c) ==
  /\ client[c].pc # "idle" <=> client[c].h # Nil
  /\ client[c].pc = "cancel" => client[c].h \notin destroyed
  /\ client[c].pc \in {"destroy", "release"} => client[c].h \in destroyed
PlaceInv ==
  /\ \A t \in Threads : ThreadPlace(t)
  /\ \A c \in Clients : ClientPlace(c)
  /\ \A c, d \in Clients : client[c].h = client[d].h /\ client[c].h # Nil => c = d

(* The lock of a handle is held from its first read to the end of a call. *)
LockInv ==
  /\ \A t \in Threads : thread[t].pc \in HasLock => iLock[thread[t].h] = t
  /\ \A c \in Clients :
       client[c].pc \in {"cancel", "destroy"} => iLock[client[c].h] = c

RunInv == \A t \in Threads :
  thread[t].pc = "callback" => ~iCancelled[thread[t].h]

(* One reference for the owner, until Destroy drops it, and one for each   *)
(* thread that has taken the handle from the queue.                        *)
Holders(h) == {t \in Threads : thread[t].h = h}
Owned(h) == h \notin destroyed \/ \E c \in Clients : client[c].h = h
RefInv == \A h \in Handles :
  iRefCount[h] = Cardinality(Holders(h)) + (IF Owned(h) THEN 1 ELSE 0)

IInv == TypeOK /\ PlaceInv /\ LockInv /\ RunInv /\ RefInv

-----------------------------------------------------------------------------
LEMMA BeforeTyped ==
  ASSUME NEW h PROVE Before(h) \in Handles \cup {Nil}
  BY DEF Before

LEMMA MembersTyped ==
  /\ \A r \in ThreadMembers : r.pc \in PCs /\ r.h \in Handles \cup {Nil}
  /\ \A r \in ClientMembers : r.h \in Handles \cup {Nil}
  /\ \A pc \in PCs, h \in Handles \cup {Nil} : [pc |-> pc, h |-> h] \in ThreadMembers
  /\ \A h \in Handles : \A pc \in {"cancel", "destroy"} : [pc |-> pc, h |-> h] \in ClientMembers
  /\ Idle \in ClientMembers /\ Waiting \in ThreadMembers
  BY DEF ThreadMembers, ClientMembers, Idle, Waiting, PCs

LEMMA GotoEffect ==
  ASSUME TypeOK, NEW t \in Threads, NEW pc \in PCs, Goto(t, pc)
  PROVE  /\ thread' \in [Threads -> ThreadMembers]
         /\ thread'[t].pc = pc /\ thread'[t].h = thread[t].h
         /\ \A u \in Threads : thread'[u].h = thread[u].h
         /\ \A u \in Threads : u # t => thread'[u] = thread[u]
<1>1. thread[t] \in ThreadMembers
  BY DEF TypeOK
<1> DEFINE r == [thread[t] EXCEPT !.pc = pc]
<1>3. r \in ThreadMembers /\ r.pc = pc /\ r.h = thread[t].h
  BY <1>1 DEF ThreadMembers
<1>4. thread' = [thread EXCEPT ![t] = r]
  BY DEF Goto
<1> HIDE DEF r
<1> QED BY <1>3, <1>4 DEF TypeOK

LEMMA InitIInv == Init => IInv
<1> SUFFICES ASSUME Init PROVE IInv
  OBVIOUS
<1>1. TypeOK
  <2>1. /\ iNext \in [Handles -> Handles \cup {Nil}]
        /\ iRefCount \in [Handles -> Int]
        /\ iLock \in [Handles -> Threads \cup Clients \cup {Nil}]
    BY DEF Init
  <2>2. thread \in [Threads -> ThreadMembers] /\ client \in [Clients -> ClientMembers]
    BY MembersTyped DEF Init
  <2> QED BY <2>1, <2>2 DEF Init, TypeOK
<1>2. PlaceInv
  BY DEF Init, PlaceInv, ThreadPlace, ClientPlace, Idle, Waiting, HasHandle
<1>3. LockInv /\ RunInv
  BY DEF Init, LockInv, RunInv, Idle, Waiting, HasLock
<1>4. RefInv
  <2> SUFFICES ASSUME NEW h \in Handles
               PROVE  iRefCount[h] = Cardinality(Holders(h)) + (IF Owned(h) THEN 1 ELSE 0)
    BY DEF RefInv
  <2>1. Holders(h) = {}
    BY ThreadPoolAssumption DEF Init, Holders, Waiting
  <2>2. Cardinality(Holders(h)) = 0
    BY <2>1, FS_EmptySet
  <2>3. Owned(h) /\ iRefCount[h] = 1
    BY DEF Init, Owned
  <2> QED BY <2>2, <2>3
<1> QED BY <1>1, <1>2, <1>3, <1>4 DEF IInv

(* Who holds what is the same, and so are the references. *)
LEMMA SameHolders ==
  ASSUME RefInv, iRefCount' = iRefCount,
         \A t \in Threads : thread'[t].h = thread[t].h,
         \A h \in Handles : Owned(h)' <=> Owned(h)
  PROVE  RefInv'
<1> SUFFICES ASSUME NEW h \in Handles
             PROVE  iRefCount'[h] = Cardinality(Holders(h)') + (IF Owned(h)' THEN 1 ELSE 0)
  BY DEF RefInv
<1>1. Holders(h)' = Holders(h)
  BY DEF Holders
<1> QED BY <1>1 DEF RefInv

(* A step of one thread that leaves handles and clients alone. *)
LEMMA ThreadGoto ==
  ASSUME IInv, TypeOK', NEW t \in Threads, NEW pc \in PCs, Goto(t, pc),
         UNCHANGED <<iCancelled, iRefCount, iLock, client, destroyed>>,
         pc \in HasHandle <=> thread[t].pc \in HasHandle,
         pc \in HasLock => thread[t].pc \in HasLock,
         pc = "callback" => ~iCancelled[thread[t].h]
  PROVE  IInv'
<1>1. /\ thread'[t].pc = pc
      /\ \A u \in Threads : thread'[u].h = thread[u].h
      /\ \A u \in Threads : u # t => thread'[u] = thread[u]
  BY GotoEffect DEF IInv
<1>2. PlaceInv'
  <2>1. \A u \in Threads : ThreadPlace(u)'
    <3> SUFFICES ASSUME NEW u \in Threads PROVE ThreadPlace(u)'
      OBVIOUS
    <3>1. ThreadPlace(u)
      BY DEF IInv, PlaceInv
    <3>2. CASE u = t
      BY <1>1, <3>1, <3>2 DEF ThreadPlace
    <3>3. CASE u # t
      BY <1>1, <3>1, <3>3 DEF ThreadPlace
    <3> QED BY <3>2, <3>3
  <2> QED BY <2>1 DEF IInv, PlaceInv, ClientPlace
<1>3. LockInv'
  BY <1>1 DEF IInv, LockInv
<1>4. RunInv'
  BY <1>1 DEF IInv, RunInv
<1>5. RefInv'
  BY <1>1, SameHolders DEF IInv, Owned
<1> QED BY <1>2, <1>3, <1>4, <1>5 DEF IInv

(* A step that moves neither threads nor clients. *)
LEMMA HandleStep ==
  ASSUME IInv, TypeOK', UNCHANGED <<iRefCount, iLock, thread, client, destroyed>>,
         \A h \in Handles : iCancelled'[h] => iCancelled[h]
  PROVE  IInv'
<1>1. PlaceInv'
  BY DEF IInv, PlaceInv, ThreadPlace, ClientPlace
<1>2. LockInv'
  BY DEF IInv, LockInv
<1>3. RunInv'
  <2> SUFFICES ASSUME NEW t \in Threads, thread[t].pc = "callback"
               PROVE  ~iCancelled'[thread[t].h]
    BY DEF RunInv
  <2>1. thread[t].h # Nil
    BY DEF IInv, PlaceInv, ThreadPlace, HasHandle
  <2>2. thread[t].h \in Handles
    BY <2>1, MembersTyped DEF IInv, TypeOK
  <2>3. ~iCancelled[thread[t].h]
    BY DEF IInv, RunInv
  <2> QED BY <2>2, <2>3
<1>4. RefInv'
  BY SameHolders DEF IInv, Owned
<1> QED BY <1>1, <1>2, <1>3, <1>4 DEF IInv

LEMMA ScheduleStep ==
  ASSUME IInv, NEW h \in Handles, TrySchedule(h) PROVE IInv'
<1>1. TypeOK'
  BY DEF IInv, TypeOK, TrySchedule
<1>2. UNCHANGED <<iRefCount, iLock, thread, client, destroyed>>
  BY DEF TrySchedule
<1>3. \A g \in Handles : iCancelled'[g] => iCancelled[g]
  BY DEF IInv, TypeOK, TrySchedule
<1> QED BY <1>1, <1>2, <1>3, HandleStep

LEMMA KillStep ==
  ASSUME IInv, KillThreads \/ WakeThreads \/ Deleted PROVE IInv'
<1>1. Cardinality(Threads) \in Nat
  BY ThreadPoolAssumption, FS_CardinalityType
<1>2. TypeOK'
  BY <1>1 DEF IInv, TypeOK, KillThreads, WakeThreads, Deleted, vars, queue, handle
<1>3. UNCHANGED <<iCancelled, iRefCount, iLock, thread, client, destroyed>>
  BY DEF KillThreads, WakeThreads, Deleted, vars, queue, handle
<1> QED BY <1>2, <1>3, HandleStep

LEMMA RunStep ==
  ASSUME IInv, NEW t \in Threads,
         Wake(t) \/ DequeueNothing(t) \/ Run(t) \/ EndCallback(t) \/ CheckForKill(t)
  PROVE  IInv'
<1>1. PICK pc \in PCs :
        /\ Goto(t, pc)
        /\ pc \in HasHandle <=> thread[t].pc \in HasHandle
        /\ pc \in HasLock => thread[t].pc \in HasLock
        /\ pc = "callback" => ~iCancelled[thread[t].h]
  <2>1. CASE Wake(t)
    BY <2>1 DEF Wake, At, PCs, HasHandle, HasLock
  <2>2. CASE DequeueNothing(t)
    BY <2>2 DEF DequeueNothing, At, PCs, HasHandle, HasLock
  <2>3. CASE Run(t)
    BY <2>3 DEF Run, At, PCs, HasHandle, HasLock
  <2>4. CASE EndCallback(t)
    BY <2>4 DEF EndCallback, At, PCs, HasHandle, HasLock
  <2>5. CASE CheckForKill(t)
    BY <2>5 DEF CheckForKill, At, PCs, HasHandle, HasLock
  <2> QED BY <2>1, <2>2, <2>3, <2>4, <2>5
<1>2. /\ UNCHANGED <<iHead, iTail, iNext, iPending, iKill>>
      /\ UNCHANGED <<iCancelled, iRefCount, iLock, client, destroyed>>
  BY DEF Wake, DequeueNothing, Run, EndCallback, CheckForKill, queue, handle
<1>a. due' \in BOOLEAN
  BY DEF IInv, TypeOK, Wake, DequeueNothing, Run, EndCallback, CheckForKill
<1>b. iSem' \in Nat
  <2>1. iSem \in Nat
    BY DEF IInv, TypeOK
  <2>2. (iSem > 0 /\ iSem' = iSem - 1) \/ iSem' = iSem
    BY DEF Wake, DequeueNothing, Run, EndCallback, CheckForKill, queue
  <2> QED BY <2>1, <2>2
<1>3. thread' \in [Threads -> ThreadMembers]
  BY <1>1, GotoEffect DEF IInv
<1>4. TypeOK'
  BY <1>2, <1>3, <1>a, <1>b DEF IInv, TypeOK
<1> QED BY <1>1, <1>2, <1>4, ThreadGoto

LEMMA LockStep == ASSUME IInv, NEW t \in Threads, LockHandle(t) PROVE IInv'
<1> DEFINE g == thread[t].h
<1>1. /\ thread[t].pc = "dequeued" /\ Goto(t, "locked") /\ iLock[g] = Nil
      /\ iLock' = [iLock EXCEPT ![g] = t]
      /\ UNCHANGED <<queue, iPending, iCancelled, iRefCount, client, iKill, destroyed, due>>
  BY DEF LockHandle, At, IsFree
<1>2. g # Nil /\ g \in Handles
  <2>1. g # Nil
    BY <1>1 DEF IInv, PlaceInv, ThreadPlace, HasHandle
  <2> QED BY <2>1, MembersTyped DEF IInv, TypeOK
<1>3. /\ thread' \in [Threads -> ThreadMembers]
      /\ thread'[t].pc = "locked" /\ \A u \in Threads : thread'[u].h = thread[u].h
      /\ \A u \in Threads : u # t => thread'[u] = thread[u]
  BY <1>1, GotoEffect DEF IInv, PCs
<1> HIDE DEF g
<1>4. TypeOK'
  BY <1>1, <1>3 DEF IInv, TypeOK, queue
<1>5. PlaceInv'
  <2>1. \A u \in Threads : ThreadPlace(u)'
    <3> SUFFICES ASSUME NEW u \in Threads PROVE ThreadPlace(u)'
      OBVIOUS
    <3>1. ThreadPlace(u)
      BY DEF IInv, PlaceInv
    <3> QED BY <1>1, <1>3, <3>1 DEF ThreadPlace, HasHandle
  <2> QED BY <1>1, <2>1 DEF IInv, PlaceInv, ClientPlace
<1>6. LockInv'
  <2>1. \A h \in Handles : h # g => iLock'[h] = iLock[h]
    BY <1>1 DEF IInv, TypeOK
  <2>2. iLock'[g] = t
    BY <1>1, <1>2 DEF IInv, TypeOK
  <2>3. ASSUME NEW u \in Threads, thread'[u].pc \in HasLock PROVE iLock'[thread'[u].h] = u
    <3>1. CASE u = t
      BY <1>3, <2>2, <3>1 DEF g
    <3>2. CASE u # t
      <4>1. iLock[thread[u].h] = u /\ u # Nil
        BY <1>3, <2>3, <3>2, ThreadPoolAssumption DEF IInv, LockInv
      <4>2. thread[u].h # g
        BY <1>1, <4>1
      <4>3. thread[u].h \in Handles
        <5>1. thread[u].pc \in HasHandle
          BY <1>3, <2>3, <3>2 DEF HasLock, HasHandle
        <5>2. thread[u].h # Nil
          BY <5>1 DEF IInv, PlaceInv, ThreadPlace
        <5> QED BY <5>2, MembersTyped DEF IInv, TypeOK
      <4> QED BY <1>3, <2>1, <3>2, <4>1, <4>2, <4>3
    <3> QED BY <3>1, <3>2
  <2>4. ASSUME NEW c \in Clients, client[c].pc \in {"cancel", "destroy"}
        PROVE  iLock'[client[c].h] = c
    <3>1. iLock[client[c].h] = c /\ c # Nil
      BY <2>4, ThreadPoolAssumption DEF IInv, LockInv
    <3>2. client[c].h # Nil
      BY <2>4 DEF IInv, PlaceInv, ClientPlace
    <3>3. client[c].h \in Handles
      BY <3>2, MembersTyped DEF IInv, TypeOK
    <3> QED BY <1>1, <2>1, <3>1, <3>3
  <2> QED BY <1>1, <2>3, <2>4 DEF LockInv
<1>7. RunInv'
  BY <1>1, <1>3 DEF IInv, RunInv
<1>8. RefInv'
  BY <1>1, <1>3, SameHolders DEF IInv, Owned
<1> QED BY <1>4, <1>5, <1>6, <1>7, <1>8 DEF IInv

LEMMA InHand ==
  ASSUME TypeOK, PlaceInv
  PROVE  /\ \A t \in Threads : thread[t].pc \in HasHandle =>
               thread[t].h # Nil /\ thread[t].h \in Handles
         /\ \A c \in Clients : client[c].pc # "idle" =>
               client[c].h # Nil /\ client[c].h \in Handles
<1>1. ASSUME NEW t \in Threads, thread[t].pc \in HasHandle
      PROVE  thread[t].h # Nil /\ thread[t].h \in Handles
  <2>1. thread[t].h # Nil
    BY <1>1 DEF PlaceInv, ThreadPlace
  <2> QED BY <2>1, MembersTyped DEF TypeOK
<1>2. ASSUME NEW c \in Clients, client[c].pc # "idle"
      PROVE  client[c].h # Nil /\ client[c].h \in Handles
  <2>1. client[c].h # Nil
    BY <1>2 DEF PlaceInv, ClientPlace
  <2> QED BY <2>1, MembersTyped DEF TypeOK
<1> QED BY <1>1, <1>2

LEMMA UnlockStep == ASSUME IInv, NEW t \in Threads, UnlockHandle(t) PROVE IInv'
<1> DEFINE g == thread[t].h
<1>1. /\ thread[t].pc = "end" /\ Goto(t, "release")
      /\ iLock' = [iLock EXCEPT ![g] = Nil]
      /\ UNCHANGED <<queue, iPending, iCancelled, iRefCount, client, iKill, destroyed, due>>
  BY DEF UnlockHandle, At
<1>2. g \in Handles /\ iLock[g] = t
  BY <1>1, InHand DEF IInv, HasHandle, HasLock, LockInv
<1>3. /\ thread' \in [Threads -> ThreadMembers]
      /\ thread'[t].pc = "release" /\ \A u \in Threads : thread'[u].h = thread[u].h
      /\ \A u \in Threads : u # t => thread'[u] = thread[u]
  BY <1>1, GotoEffect DEF IInv, PCs
<1> HIDE DEF g
<1>4. TypeOK'
  BY <1>1, <1>3 DEF IInv, TypeOK, queue
<1>5. PlaceInv'
  <2>1. \A u \in Threads : ThreadPlace(u)'
    <3> SUFFICES ASSUME NEW u \in Threads PROVE ThreadPlace(u)'
      OBVIOUS
    <3>1. ThreadPlace(u)
      BY DEF IInv, PlaceInv
    <3> QED BY <1>1, <1>3, <3>1 DEF ThreadPlace, HasHandle
  <2> QED BY <1>1, <2>1 DEF IInv, PlaceInv, ClientPlace
<1>6. LockInv'
  <2>1. \A h \in Handles : h # g => iLock'[h] = iLock[h]
    BY <1>1 DEF IInv, TypeOK
  <2>2. ASSUME NEW u \in Threads, thread'[u].pc \in HasLock PROVE iLock'[thread'[u].h] = u
    <3>1. u # t /\ thread[u].pc \in HasLock
      BY <1>3, <2>2 DEF HasLock
    <3>2. iLock[thread[u].h] = u /\ thread[u].h \in Handles
      BY <3>1, InHand DEF IInv, LockInv, HasLock, HasHandle
    <3> QED BY <1>2, <1>3, <2>1, <3>1, <3>2
  <2>3. ASSUME NEW c \in Clients, client[c].pc \in {"cancel", "destroy"}
        PROVE  iLock'[client[c].h] = c
    <3>1. iLock[client[c].h] = c /\ client[c].h \in Handles
      BY <2>3, InHand DEF IInv, LockInv
    <3>2. c # t
      BY ThreadPoolAssumption
    <3> QED BY <1>2, <2>1, <3>1, <3>2
  <2> QED BY <1>1, <2>2, <2>3 DEF LockInv
<1>7. RunInv'
  BY <1>1, <1>3 DEF IInv, RunInv
<1>8. RefInv'
  BY <1>1, <1>3, SameHolders DEF IInv, Owned
<1> QED BY <1>4, <1>5, <1>6, <1>7, <1>8 DEF IInv

LEMMA HoldersFinite ==
  ASSUME NEW h PROVE IsFiniteSet(Holders(h)) /\ Cardinality(Holders(h)) \in Nat
<1>1. Holders(h) \subseteq Threads
  BY DEF Holders
<1> QED BY <1>1, ThreadPoolAssumption, FS_Subset, FS_CardinalityType

(* Dequeue takes a reference with the handle, and Run gives it back.       *)
LEMMA DequeueStep == ASSUME IInv, NEW t \in Threads, Dequeue(t) PROVE IInv'
<1> DEFINE r == [pc |-> "dequeued", h |-> iHead]
<1>1. /\ thread[t].pc = "woken" /\ iHead \in Handles /\ iHead # Nil
      /\ thread' = [thread EXCEPT ![t] = r]
      /\ iRefCount' = [iRefCount EXCEPT ![iHead] = @ + 1]
      /\ UNCHANGED <<iSem, iCancelled, iLock, client, iKill, destroyed, due>>
  BY ThreadPoolAssumption DEF Dequeue, At, AddRef, IInv, TypeOK
<1>2. r \in ThreadMembers /\ r.pc = "dequeued" /\ r.h = iHead
  BY <1>1, MembersTyped DEF PCs
<1> HIDE DEF r
<1>3. /\ thread' \in [Threads -> ThreadMembers] /\ thread'[t] = r
      /\ \A u \in Threads : u # t => thread'[u] = thread[u]
  BY <1>1, <1>2 DEF IInv, TypeOK
<1>4. TypeOK'
  <2>1. iRefCount' \in [Handles -> Int]
    BY <1>1 DEF IInv, TypeOK
  <2>2. iHead' \in Handles \cup {Nil} /\ iTail' \in Handles \cup {Nil}
    BY <1>1 DEF Dequeue, IInv, TypeOK
  <2>3. iNext' \in [Handles -> Handles \cup {Nil}] /\ iPending' \in [Handles -> BOOLEAN]
    BY <1>1 DEF Dequeue, IInv, TypeOK
  <2> QED BY <1>1, <1>3, <2>1, <2>2, <2>3 DEF IInv, TypeOK
<1>5. thread[t].h = Nil
  BY <1>1 DEF IInv, PlaceInv, ThreadPlace, HasHandle
<1>6. PlaceInv'
  <2>1. \A u \in Threads : ThreadPlace(u)'
    <3> SUFFICES ASSUME NEW u \in Threads PROVE ThreadPlace(u)'
      OBVIOUS
    <3>1. ThreadPlace(u)
      BY DEF IInv, PlaceInv
    <3> QED BY <1>1, <1>2, <1>3, <3>1 DEF ThreadPlace, HasHandle
  <2> QED BY <1>1, <2>1 DEF IInv, PlaceInv, ClientPlace
<1>7. LockInv'
  BY <1>1, <1>2, <1>3 DEF IInv, LockInv, HasLock
<1>8. RunInv'
  BY <1>1, <1>2, <1>3 DEF IInv, RunInv
<1>9. RefInv'
  <2> SUFFICES ASSUME NEW h \in Handles
               PROVE  iRefCount'[h] = Cardinality(Holders(h)') + (IF Owned(h)' THEN 1 ELSE 0)
    BY DEF RefInv
  <2>1. Owned(h)' <=> Owned(h)
    BY <1>1 DEF Owned
  <2>2. iRefCount[h] = Cardinality(Holders(h)) + (IF Owned(h) THEN 1 ELSE 0)
    BY DEF IInv, RefInv
  <2>3. CASE h # iHead
    <3>1. Holders(h)' = Holders(h)
      BY <1>2, <1>3, <1>5, <2>3, ThreadPoolAssumption DEF Holders
    <3>2. iRefCount'[h] = iRefCount[h]
      BY <1>1, <2>3 DEF IInv, TypeOK
    <3> QED BY <2>1, <2>2, <3>1, <3>2
  <2>4. CASE h = iHead
    <3>1. Holders(h)' = Holders(h) \cup {t} /\ t \notin Holders(h)
      BY <1>1, <1>2, <1>3, <1>5, <2>4 DEF Holders
    <3>2. Cardinality(Holders(h)') = Cardinality(Holders(h)) + 1
      BY <3>1, HoldersFinite, FS_AddElement
    <3>3. iRefCount'[h] = iRefCount[h] + 1
      BY <1>1, <2>4 DEF IInv, TypeOK
    <3> QED BY <2>1, <2>2, <3>2, <3>3, HoldersFinite
  <2> QED BY <2>3, <2>4
<1> QED BY <1>4, <1>6, <1>7, <1>8, <1>9 DEF IInv

LEMMA ReleaseStep == ASSUME IInv, NEW t \in Threads, ReleaseHandle(t) PROVE IInv'
<1> DEFINE g == thread[t].h
           r == [pc |-> "check", h |-> Nil]
<1>1. /\ thread[t].pc = "release" /\ thread' = [thread EXCEPT ![t] = r]
      /\ iRefCount' = [iRefCount EXCEPT ![g] = @ - 1]
      /\ UNCHANGED <<queue, iPending, iCancelled, iLock, client, iKill, destroyed, due>>
  BY DEF ReleaseHandle, At, RemoveRef
<1>2. g \in Handles /\ g # Nil
  BY <1>1, InHand DEF IInv, HasHandle
<1>3. r \in ThreadMembers /\ r.pc = "check" /\ r.h = Nil
  BY MembersTyped DEF PCs
<1>4. thread[t].h = g
  OBVIOUS
<1> HIDE DEF g, r
<1>5. /\ thread' \in [Threads -> ThreadMembers] /\ thread'[t] = r
      /\ \A u \in Threads : u # t => thread'[u] = thread[u]
  BY <1>1, <1>3 DEF IInv, TypeOK
<1>6. TypeOK'
  <2>1. iRefCount' \in [Handles -> Int]
    <3>1. iRefCount \in [Handles -> Int] /\ iRefCount[g] - 1 \in Int
      BY <1>2 DEF IInv, TypeOK
    <3> QED BY <1>1, <3>1
  <2> QED BY <1>1, <1>5, <2>1 DEF IInv, TypeOK, queue
<1>7. PlaceInv'
  <2>1. \A u \in Threads : ThreadPlace(u)'
    <3> SUFFICES ASSUME NEW u \in Threads PROVE ThreadPlace(u)'
      OBVIOUS
    <3>1. ThreadPlace(u)
      BY DEF IInv, PlaceInv
    <3> QED BY <1>3, <1>5, <3>1 DEF ThreadPlace, HasHandle
  <2> QED BY <1>1, <2>1 DEF IInv, PlaceInv, ClientPlace
<1>8. LockInv'
  BY <1>1, <1>3, <1>5 DEF IInv, LockInv, HasLock
<1>9. RunInv'
  BY <1>1, <1>3, <1>5 DEF IInv, RunInv
<1>10. RefInv'
  <2> SUFFICES ASSUME NEW h \in Handles
               PROVE  iRefCount'[h] = Cardinality(Holders(h)') + (IF Owned(h)' THEN 1 ELSE 0)
    BY DEF RefInv
  <2>1. Owned(h)' <=> Owned(h)
    BY <1>1 DEF Owned
  <2>2. iRefCount[h] = Cardinality(Holders(h)) + (IF Owned(h) THEN 1 ELSE 0)
    BY DEF IInv, RefInv
  <2>3. CASE h # g
    <3>1. Holders(h)' = Holders(h)
      BY <1>3, <1>4, <1>5, <2>3, ThreadPoolAssumption DEF Holders
    <3>2. iRefCount'[h] = iRefCount[h]
      BY <1>1, <2>3 DEF IInv, TypeOK
    <3> QED BY <2>1, <2>2, <3>1, <3>2
  <2>4. CASE h = g
    <3>1. Holders(h)' = Holders(h) \ {t} /\ t \in Holders(h)
      BY <1>2, <1>3, <1>4, <1>5, <2>4 DEF Holders
    <3>2. Cardinality(Holders(h)') = Cardinality(Holders(h)) - 1
      BY <3>1, HoldersFinite, FS_RemoveElement
    <3>3. iRefCount'[h] = iRefCount[h] - 1
      BY <1>1, <2>4 DEF IInv, TypeOK
    <3> QED BY <2>1, <2>2, <3>2, <3>3, HoldersFinite
  <2> QED BY <2>3, <2>4
<1> QED BY <1>6, <1>7, <1>8, <1>9, <1>10 DEF IInv

LEMMA CancelStep == ASSUME IInv, NEW c \in Clients, Cancel(c) \/ Destroy(c) PROVE IInv'
<1>1. PICK g \in Handles, pc \in {"cancel", "destroy"} :
        /\ BeginCancel(c, g, pc)
        /\ pc = "cancel" => destroyed' = destroyed
        /\ pc = "destroy" => destroyed' = destroyed \cup {g}
  BY DEF Cancel, Destroy
<1> DEFINE r == [pc |-> pc, h |-> g]
<1>2. /\ client[c] = Idle /\ g \notin destroyed /\ iLock[g] = Nil
      /\ iLock' = [iLock EXCEPT ![g] = c]
      /\ iCancelled' = [iCancelled EXCEPT ![g] = TRUE]
      /\ client' = [client EXCEPT ![c] = r]
      /\ UNCHANGED <<queue, iPending, iRefCount, thread, iKill, due>>
  BY <1>1 DEF BeginCancel, IsFree
<1>3. r \in ClientMembers /\ r.pc = pc /\ r.h = g
  BY MembersTyped
<1> HIDE DEF r
<1>4. /\ client' \in [Clients -> ClientMembers] /\ client'[c] = r
      /\ \A d \in Clients : d # c => client'[d] = client[d]
  BY <1>2, <1>3 DEF IInv, TypeOK
<1>5. client[c].pc = "idle" /\ client[c].h = Nil
  BY <1>2 DEF Idle
<1>6. TypeOK'
  <2>1. /\ iLock' \in [Handles -> Threads \cup Clients \cup {Nil}]
        /\ iCancelled' \in [Handles -> BOOLEAN]
    BY <1>2 DEF IInv, TypeOK
  <2>2. destroyed' \in SUBSET Handles
    BY <1>1 DEF IInv, TypeOK
  <2> QED BY <1>2, <1>4, <2>1, <2>2 DEF IInv, TypeOK, queue
<1>7. \A d \in Clients : client[d].h # g
  <2> SUFFICES ASSUME NEW d \in Clients, client[d].h = g PROVE FALSE
    OBVIOUS
  <2>1. client[d].pc \in {"cancel", "destroy"}
    <3>1. client[d].pc # "idle"
      BY ThreadPoolAssumption DEF IInv, PlaceInv, ClientPlace
    <3>2. client[d].pc # "release"
      BY <1>2 DEF IInv, PlaceInv, ClientPlace
    <3>3. client[d] \in ClientMembers
      BY DEF IInv, TypeOK
    <3> QED BY <3>1, <3>2, <3>3 DEF ClientMembers
  <2>2. iLock[g] = d
    BY <2>1 DEF IInv, LockInv
  <2> QED BY <1>2, <2>2, ThreadPoolAssumption
<1>8. g # Nil
  BY ThreadPoolAssumption
<1>9. PlaceInv'
  <2>1. \A u \in Threads : ThreadPlace(u)'
    BY <1>2 DEF IInv, PlaceInv, ThreadPlace
  <2>2. \A d \in Clients : ClientPlace(d)'
    <3> SUFFICES ASSUME NEW d \in Clients PROVE ClientPlace(d)'
      OBVIOUS
    <3>1. CASE d = c
      BY <1>1, <1>2, <1>3, <1>4, <1>8, <3>1 DEF ClientPlace
    <3>2. CASE d # c
      <4>1. ClientPlace(d) /\ client'[d] = client[d] /\ client[d].h # g
        BY <1>4, <1>7, <3>2 DEF IInv, PlaceInv
      <4>2. client[d].h \in destroyed' <=> client[d].h \in destroyed
        BY <1>1, <4>1
      <4> QED BY <4>1, <4>2 DEF ClientPlace
    <3> QED BY <3>1, <3>2
  <2>3. ASSUME NEW d \in Clients, NEW e \in Clients, client'[d].h = client'[e].h, client'[d].h # Nil
        PROVE  d = e
    BY <1>3, <1>4, <1>7, <2>3 DEF IInv, PlaceInv
  <2> QED BY <2>1, <2>2, <2>3 DEF PlaceInv
<1>10. \A h \in Handles : h # g => iLock'[h] = iLock[h] /\ iCancelled'[h] = iCancelled[h]
  BY <1>2 DEF IInv, TypeOK
<1>11. \A t \in Threads : thread[t].pc \in HasLock => thread[t].h # g /\ thread[t].h \in Handles
  <2> SUFFICES ASSUME NEW t \in Threads, thread[t].pc \in HasLock
               PROVE  thread[t].h # g /\ thread[t].h \in Handles
    OBVIOUS
  <2>1. iLock[thread[t].h] = t /\ t # Nil
    BY ThreadPoolAssumption DEF IInv, LockInv
  <2>2. thread[t].h \in Handles
    BY InHand DEF IInv, HasLock, HasHandle
  <2> QED BY <1>2, <2>1, <2>2
<1>12. LockInv'
  <2>1. ASSUME NEW t \in Threads, thread'[t].pc \in HasLock PROVE iLock'[thread'[t].h] = t
    BY <1>2, <1>10, <1>11, <2>1 DEF IInv, LockInv
  <2>2. ASSUME NEW d \in Clients, client'[d].pc \in {"cancel", "destroy"}
        PROVE  iLock'[client'[d].h] = d
    <3>1. CASE d = c
      BY <1>2, <1>3, <1>4, <3>1 DEF IInv, TypeOK
    <3>2. CASE d # c
      <4>1. client'[d] = client[d] /\ client[d].h \in Handles /\ client[d].h # g
        BY <1>4, <1>7, <2>2, <3>2, InHand DEF IInv
      <4> QED BY <1>10, <2>2, <4>1 DEF IInv, LockInv
    <3> QED BY <3>1, <3>2
  <2> QED BY <2>1, <2>2 DEF LockInv
<1>13. RunInv'
  <2>1. \A t \in Threads : thread[t].pc = "callback" =>
           thread[t].h # g /\ thread[t].h \in Handles /\ ~iCancelled[thread[t].h]
    BY <1>11 DEF IInv, RunInv, HasLock
  <2> QED BY <1>2, <1>10, <2>1 DEF RunInv
<1>14. RefInv'
  <2>1. \A h \in Handles : Owned(h)' <=> Owned(h)
    <3> SUFFICES ASSUME NEW h \in Handles PROVE Owned(h)' <=> Owned(h)
      OBVIOUS
    <3>1. CASE h = g
      BY <1>2, <1>3, <1>4, <3>1 DEF Owned
    <3>2. CASE h # g
      <4>1. h \in destroyed' <=> h \in destroyed
        BY <1>1, <3>2
      <4>2. \A d \in Clients : client'[d].h = h <=> client[d].h = h
        BY <1>3, <1>4, <1>5, <3>2, ThreadPoolAssumption
      <4> QED BY <4>1, <4>2 DEF Owned
    <3> QED BY <3>1, <3>2
  <2>2. iRefCount' = iRefCount /\ thread' = thread
    BY <1>2
  <2> QED BY <2>1, <2>2, SameHolders DEF IInv
<1> QED BY <1>6, <1>9, <1>12, <1>13, <1>14 DEF IInv

(* Cancel leaves the handle's lock, and Destroy has a reference to drop.   *)
LEMMA EndCancelStep == ASSUME IInv, NEW c \in Clients, EndCancel(c) PROVE IInv'
<1> DEFINE g == client[c].h
           r == IF client[c].pc = "destroy" THEN [client[c] EXCEPT !.pc = "release"] ELSE Idle
<1>1. /\ client[c].pc \in {"cancel", "destroy"} /\ Unlink(g)
      /\ iLock' = [iLock EXCEPT ![g] = Nil]
      /\ client' = [client EXCEPT ![c] = r]
      /\ due' = (due /\ g # Watched)
      /\ UNCHANGED <<iSem, iCancelled, iRefCount, thread, iKill, destroyed>>
  BY DEF EndCancel
<1>2. g # Nil /\ g \in Handles /\ iLock[g] = c
  BY <1>1, InHand DEF IInv, LockInv
<1>5. /\ r \in ClientMembers
      /\ \/ r.pc = "release" /\ r.h = g /\ g \in destroyed
         \/ r.pc = "idle" /\ r.h = Nil /\ g \notin destroyed
  <2>1. CASE client[c].pc = "destroy"
    BY <2>1 DEF IInv, TypeOK, ClientMembers, PlaceInv, ClientPlace
  <2>2. CASE client[c].pc = "cancel"
    BY <2>2, MembersTyped DEF IInv, PlaceInv, ClientPlace, Idle
  <2> QED BY <1>1, <2>1, <2>2
<1>6. client[c].h = g
  OBVIOUS
<1> HIDE DEF g, r
<1>7. /\ client' \in [Clients -> ClientMembers] /\ client'[c] = r
      /\ \A d \in Clients : d # c => client'[d] = client[d]
  BY <1>1, <1>5 DEF IInv, TypeOK
<1>8. TypeOK'
  <2>1. /\ iHead' \in Handles \cup {Nil} /\ iTail' \in Handles \cup {Nil}
        /\ iNext' \in [Handles -> Handles \cup {Nil}] /\ iPending' \in [Handles -> BOOLEAN]
    <3>1. /\ iHead \in Handles \cup {Nil} /\ iTail \in Handles \cup {Nil}
          /\ iNext \in [Handles -> Handles \cup {Nil}] /\ iPending \in [Handles -> BOOLEAN]
      BY DEF IInv, TypeOK
    <3>2. CASE g \in Queued
      BY <1>1, <1>2, <3>1, <3>2, BeforeTyped DEF Unlink, TailAfter
    <3>3. CASE g \notin Queued
      BY <1>1, <3>1, <3>3 DEF Unlink
    <3> QED BY <3>2, <3>3
  <2>2. iLock' \in [Handles -> Threads \cup Clients \cup {Nil}] /\ due' \in BOOLEAN
    BY <1>1 DEF IInv, TypeOK
  <2> QED BY <1>1, <1>7, <2>1, <2>2 DEF IInv, TypeOK
<1>9. PlaceInv'
  <2>1. \A u \in Threads : ThreadPlace(u)'
    BY <1>1 DEF IInv, PlaceInv, ThreadPlace
  <2>2. \A d \in Clients : ClientPlace(d)'
    <3> SUFFICES ASSUME NEW d \in Clients PROVE ClientPlace(d)'
      OBVIOUS
    <3>1. ClientPlace(d)
      BY DEF IInv, PlaceInv
    <3> QED BY <1>1, <1>2, <1>5, <1>7, <3>1 DEF ClientPlace
  <2>3. \A d \in Clients : client'[d].h = client[d].h \/ client'[d].h = Nil
    BY <1>5, <1>6, <1>7
  <2>4. ASSUME NEW d \in Clients, NEW e \in Clients, client'[d].h = client'[e].h, client'[d].h # Nil
        PROVE  d = e
    BY <2>3, <2>4 DEF IInv, PlaceInv
  <2> QED BY <2>1, <2>2, <2>4 DEF PlaceInv
<1>10. \A h \in Handles : h # g => iLock'[h] = iLock[h]
  BY <1>1 DEF IInv, TypeOK
<1>11. LockInv'
  <2>1. ASSUME NEW t \in Threads, thread[t].pc \in HasLock PROVE iLock'[thread[t].h] = t
    <3>1. iLock[thread[t].h] = t /\ thread[t].h \in Handles
      BY <2>1, InHand DEF IInv, LockInv, HasLock, HasHandle
    <3>2. t # c
      BY ThreadPoolAssumption
    <3> QED BY <1>2, <1>10, <3>1, <3>2
  <2>2. ASSUME NEW d \in Clients, client'[d].pc \in {"cancel", "destroy"}
        PROVE  iLock'[client'[d].h] = d
    <3>1. d # c
      BY <1>5, <1>7, <2>2
    <3>2. iLock[client[d].h] = d /\ client[d].h \in Handles
      BY <1>7, <2>2, <3>1, InHand DEF IInv, LockInv
    <3> QED BY <1>2, <1>7, <1>10, <3>1, <3>2
  <2> QED BY <1>1, <2>1, <2>2 DEF LockInv
<1>12. RunInv'
  BY <1>1 DEF IInv, RunInv
<1>13. RefInv'
  <2>1. \A h \in Handles : Owned(h)' <=> Owned(h)
    <3> SUFFICES ASSUME NEW h \in Handles PROVE Owned(h)' <=> Owned(h)
      OBVIOUS
    <3>1. CASE h = g
      BY <1>1, <1>5, <1>6, <1>7, <3>1 DEF Owned
    <3>2. CASE h # g
      <4>1. \A d \in Clients : client'[d].h = h <=> client[d].h = h
        BY <1>5, <1>6, <1>7, <3>2, ThreadPoolAssumption
      <4> QED BY <1>1, <4>1 DEF Owned
    <3> QED BY <3>1, <3>2
  <2> QED BY <1>1, <2>1, SameHolders DEF IInv
<1> QED BY <1>8, <1>9, <1>11, <1>12, <1>13 DEF IInv

LEMMA EndDestroyStep == ASSUME IInv, NEW c \in Clients, EndDestroy(c) PROVE IInv'
<1> DEFINE g == client[c].h
<1>1. /\ client[c].pc = "release"
      /\ iRefCount' = [iRefCount EXCEPT ![g] = @ - 1]
      /\ client' = [client EXCEPT ![c] = Idle]
      /\ UNCHANGED <<queue, iPending, iCancelled, iLock, thread, iKill, destroyed, due>>
  BY DEF EndDestroy, RemoveRef
<1>2. g # Nil /\ g \in Handles /\ g \in destroyed
  BY <1>1, InHand DEF IInv, PlaceInv, ClientPlace
<1>3. \A d \in Clients : client[d].h = g => d = c
  BY <1>2 DEF IInv, PlaceInv
<1>4. client[c].h = g
  OBVIOUS
<1> HIDE DEF g
<1>5. /\ client' \in [Clients -> ClientMembers] /\ client'[c] = Idle
      /\ \A d \in Clients : d # c => client'[d] = client[d]
      /\ Idle.h = Nil /\ Idle.pc = "idle"
  BY <1>1, MembersTyped DEF IInv, TypeOK, Idle
<1>6. TypeOK'
  <2>1. iRefCount \in [Handles -> Int] /\ iRefCount[g] - 1 \in Int
    BY <1>2 DEF IInv, TypeOK
  <2>2. iRefCount' \in [Handles -> Int]
    BY <1>1, <2>1
  <2> QED BY <1>1, <1>5, <2>2 DEF IInv, TypeOK, queue
<1>7. PlaceInv'
  <2>1. \A u \in Threads : ThreadPlace(u)'
    BY <1>1 DEF IInv, PlaceInv, ThreadPlace
  <2>2. \A d \in Clients : ClientPlace(d)'
    BY <1>1, <1>5 DEF IInv, PlaceInv, ClientPlace
  <2>3. \A d, e \in Clients : client'[d].h = client'[e].h /\ client'[d].h # Nil => d = e
    BY <1>5 DEF IInv, PlaceInv
  <2> QED BY <2>1, <2>2, <2>3 DEF PlaceInv
<1>8. LockInv'
  BY <1>1, <1>5 DEF IInv, LockInv
<1>9. RunInv'
  BY <1>1 DEF IInv, RunInv
<1>10. RefInv'
  <2> SUFFICES ASSUME NEW h \in Handles
               PROVE  iRefCount'[h] = Cardinality(Holders(h)') + (IF Owned(h)' THEN 1 ELSE 0)
    BY DEF RefInv
  <2>1. Holders(h)' = Holders(h) /\ Cardinality(Holders(h)) \in Nat
    BY <1>1, HoldersFinite DEF Holders
  <2>2. iRefCount[h] = Cardinality(Holders(h)) + (IF Owned(h) THEN 1 ELSE 0)
    BY DEF IInv, RefInv
  <2>3. CASE h # g
    <3>1. Owned(h)' <=> Owned(h)
      BY <1>1, <1>4, <1>5, <2>3, ThreadPoolAssumption DEF Owned
    <3>2. iRefCount'[h] = iRefCount[h]
      BY <1>1, <2>3 DEF IInv, TypeOK
    <3> QED BY <2>1, <2>2, <3>1, <3>2
  <2>4. CASE h = g
    <3>1. Owned(h) /\ ~Owned(h)'
      BY <1>1, <1>2, <1>3, <1>4, <1>5, <2>4 DEF Owned
    <3>2. iRefCount'[h] = iRefCount[h] - 1
      BY <1>1, <2>4 DEF IInv, TypeOK
    <3> QED BY <2>1, <2>2, <3>1, <3>2
  <2> QED BY <2>3, <2>4
<1> QED BY <1>6, <1>7, <1>8, <1>9, <1>10 DEF IInv

LEMMA StutterStep == ASSUME IInv, UNCHANGED vars PROVE IInv'
<1>1. TypeOK'
  BY DEF IInv, TypeOK, vars, queue, handle
<1>2. UNCHANGED <<iCancelled, iRefCount, iLock, thread, client, destroyed>>
  BY DEF vars, queue, handle
<1> QED BY <1>1, <1>2, HandleStep

LEMMA NextIInv == IInv /\ [Next]_vars => IInv'
<1> SUFFICES ASSUME IInv, [Next]_vars PROVE IInv'
  OBVIOUS
<1>1. CASE ClientSchedules
  BY <1>1, ScheduleStep DEF ClientSchedules
<1>2. ASSUME NEW c \in Clients, Cancel(c) \/ Destroy(c) PROVE IInv'
  BY <1>2, CancelStep
<1>3. ASSUME NEW c \in Clients, ClientStep(c) PROVE IInv'
  BY <1>3, EndCancelStep, EndDestroyStep DEF ClientStep
<1>4. CASE KillThreads \/ WakeThreads \/ Deleted
  BY <1>4, KillStep
<1>5. ASSUME NEW t \in Threads, ThreadStep(t) PROVE IInv'
  BY <1>5, RunStep, DequeueStep, LockStep, UnlockStep, ReleaseStep DEF ThreadStep
<1>6. ASSUME NEW t \in Threads, CallbackSchedules(t) PROVE IInv'
  <2>1. thread[t].h \in Handles
    BY <1>6, InHand DEF IInv, CallbackSchedules, At, HasHandle
  <2> QED BY <1>6, <2>1, ScheduleStep DEF CallbackSchedules
<1>7. CASE UNCHANGED vars
  BY <1>7, StutterStep
<1> QED BY <1>1, <1>2, <1>3, <1>4, <1>5, <1>6, <1>7 DEF Next

LEMMA Invariance == Spec => []IInv
  BY InitIInv, NextIInv, PTL DEF Spec

(* Every member of the pool keeps its range, for any pool. *)
THEOREM TypeCorrect == Spec => []TypeOK
<1>1. IInv => TypeOK
  BY DEF IInv
<1> QED BY <1>1, Invariance, PTL

(* A handle that is cancelled is not being called, for any number of       *)
(* handles, threads and clients (ThreadPool.cpp 83-96, 178-179, 223).      *)
THEOREM CancelledNeverRuns == Spec => []NoneRunsCancelled
<1>1. IInv => NoneRunsCancelled
  BY DEF IInv, RunInv, NoneRunsCancelled, Running, At
<1> QED BY <1>1, Invariance, PTL

(* No handle is deleted while a thread or a client holds it: the count is  *)
(* the number of threads that took it, and one until Destroy drops it.     *)
THEOREM HandlesOutliveHolders == Spec => []HoldersKeepHandles
<1>1. IInv => HoldersKeepHandles
  <2> SUFFICES ASSUME IInv, NEW h \in Handles, iRefCount[h] = 0
               PROVE  ~Cancelling(h) /\ \A t \in Threads : thread[t].h # h
    BY DEF HoldersKeepHandles
  <2>1. iRefCount[h] = Cardinality(Holders(h)) + (IF Owned(h) THEN 1 ELSE 0)
    BY DEF IInv, RefInv
  <2>2. ~Owned(h) /\ Cardinality(Holders(h)) = 0
    BY <2>1, HoldersFinite
  <2>3. Holders(h) = {}
    BY <2>2, HoldersFinite, FS_EmptySet
  <2> QED BY <2>2, <2>3 DEF Owned, Cancelling, Holders
<1> QED BY <1>1, Invariance, PTL
-----------------------------------------------------------------------------
(***************************************************************************)
(* What Cancel promises about the queue needs the shape of the queue: what *)
(* is cut out of a list, or comes behind its tail, leaves a list.          *)
(***************************************************************************)
Ends == Handles \cup {Nil}
Links == [Handles -> Ends]

(* A set that holds the head and, with each handle, the one behind it, and *)
(* the least such set: the handles that the head leads to.                 *)
Chain(head, next, S) == head \in S \cup {Nil} /\ \A h \in S : next[h] \in S \cup {Nil}
Reached(head, next) ==
  {h \in Handles : \A S \in SUBSET Handles : Chain(head, next, S) => h \in S}

(* The handles form one list from head to tail: nothing leads to the head, *)
(* no two lead to the same, and only the tail leads nowhere.               *)
IsList(head, tail, next, Q) ==
  /\ tail \in Q \cup {Nil} /\ (head = Nil <=> tail = Nil)
  /\ \A h \in Handles \ Q : next[h] = Nil
  /\ \A h \in Q : next[h] = Nil <=> h = tail
  /\ \A h \in Q : next[h] # head
  /\ \A g, h \in Q : next[g] = next[h] /\ next[g] # Nil => g = h

LEMMA ReachedChain ==
  ASSUME NEW head \in Ends, NEW next \in Links
  PROVE  Reached(head, next) \subseteq Handles /\ Chain(head, next, Reached(head, next))
<1> DEFINE Q == Reached(head, next)
<1>1. head \in Q \cup {Nil}
  BY DEF Reached, Chain, Ends
<1>2. ASSUME NEW h \in Q PROVE next[h] \in Q \cup {Nil}
  <2>1. h \in Handles /\ next[h] \in Ends
    BY DEF Reached, Links
  <2>2. \A S \in SUBSET Handles : Chain(head, next, S) => next[h] \in S \cup {Nil}
    BY DEF Reached, Chain
  <2> QED BY <2>1, <2>2 DEF Reached, Ends
<1>3. Q \subseteq Handles
  BY DEF Reached
<1> QED BY <1>1, <1>2, <1>3 DEF Chain

LEMMA ReachedLeast ==
  ASSUME NEW head, NEW next, NEW S \in SUBSET Handles, Chain(head, next, S)
  PROVE  Reached(head, next) \subseteq S
  BY DEF Reached

(* TrySchedule: the new handle comes behind the tail.                      *)
LEMMA ListAppend ==
  ASSUME NEW head \in Ends, NEW tail \in Ends, NEW next \in Links, NEW h \in Handles,
         IsList(head, tail, next, Reached(head, next)), h \notin Reached(head, next),
         NEW head2 \in Ends, NEW next2 \in Links,
         head = Nil => head2 = h /\ next2 = next,
         head # Nil => head2 = head /\ next2 = [next EXCEPT ![tail] = h]
  PROVE  /\ Reached(head2, next2) = Reached(head, next) \cup {h}
         /\ IsList(head2, h, next2, Reached(head, next) \cup {h})
<1> DEFINE Q == Reached(head, next)
           R == Reached(head2, next2)
<1>1. /\ Q \subseteq Handles /\ head \in Q \cup {Nil} /\ \A g \in Q : next[g] \in Q \cup {Nil}
      /\ R \subseteq Handles /\ head2 \in R \cup {Nil} /\ \A g \in R : next2[g] \in R \cup {Nil}
  BY ReachedChain DEF Chain
<1>2. \A S \in SUBSET Handles : Chain(head, next, S) => Q \subseteq S
  BY ReachedLeast
<1>3. \A S \in SUBSET Handles : Chain(head2, next2, S) => R \subseteq S
  BY ReachedLeast
<1>4. IsList(head, tail, next, Q) /\ h \notin Q /\ h # Nil /\ Nil \notin Q
  BY <1>1, ThreadPoolAssumption
<1> HIDE DEF Q, R
<1>5. CASE head = Nil
  <2>1. Q = {}
    <3>1. Chain(head, next, {})
      BY <1>5 DEF Chain
    <3> QED BY <1>2, <3>1
  <2>2. head2 = h /\ next2 = next /\ next2[h] = Nil
    BY <1>4, <1>5 DEF IsList
  <2>3. R \subseteq {h}
    <3>1. Chain(head2, next2, {h})
      BY <2>2 DEF Chain
    <3> QED BY <1>3, <3>1
  <2>4. R = Q \cup {h}
    BY <1>1, <1>4, <2>1, <2>2, <2>3
  <2>5. IsList(head2, h, next2, Q \cup {h})
    BY <1>4, <2>1, <2>2 DEF IsList
  <2> QED BY <2>4, <2>5 DEF Q, R
<1>6. CASE head # Nil
  <2>1. /\ head2 = head /\ head \in Q /\ tail \in Q /\ next[tail] = Nil /\ next[h] = Nil
    BY <1>1, <1>4, <1>6 DEF IsList
  <2>2. /\ next2[tail] = h
        /\ \A g \in Handles : g # tail => next2[g] = next[g]
    BY <1>1, <1>6, <2>1 DEF Links
  <2>3. tail # h
    BY <1>4, <2>1
  <2>4. R \subseteq Q \cup {h}
    <3>1. Chain(head2, next2, Q \cup {h})
      BY <1>1, <2>1, <2>2, <2>3 DEF Chain
    <3>2. Q \cup {h} \in SUBSET Handles
      BY <1>1
    <3> QED BY <1>3, <3>1, <3>2
  <2>5. Q \subseteq R
    <3>1. head \in Q \cap R
      BY <1>1, <1>4, <2>1
    <3>2. ASSUME NEW g \in Q \cap R PROVE next[g] \in (Q \cap R) \cup {Nil}
      <4>1. CASE g = tail
        BY <2>1, <4>1
      <4>2. CASE g # tail
        BY <1>1, <2>2, <4>2
      <4> QED BY <4>1, <4>2
    <3>3. Chain(head, next, Q \cap R)
      BY <3>1, <3>2 DEF Chain
    <3> QED BY <1>1, <1>2, <3>3
  <2>6. h \in R
    BY <1>1, <1>4, <2>1, <2>2, <2>5
  <2>7. IsList(head2, h, next2, Q \cup {h})
    <3>1. \A g \in Handles \ (Q \cup {h}) : next2[g] = Nil
      BY <1>4, <2>1, <2>2 DEF IsList
    <3>2. \A g \in Q : g # tail => next2[g] = next[g] /\ next2[g] # Nil /\ next2[g] \in Q
      BY <1>1, <1>4, <2>2 DEF IsList
    <3>3. next2[h] = Nil
      BY <2>1, <2>2, <2>3
    <3>4. \A g \in Q \cup {h} : next2[g] = Nil <=> g = h
      BY <1>4, <2>2, <3>2, <3>3
    <3>5. \A g \in Q \cup {h} : next2[g] # head2
      BY <1>4, <2>1, <2>2, <3>2, <3>3 DEF IsList
    <3>6. ASSUME NEW g \in Q \cup {h}, NEW k \in Q \cup {h}, next2[g] = next2[k], next2[g] # Nil
          PROVE  g = k
      <4>1. g \in Q /\ k \in Q
        BY <3>3, <3>6
      <4>2. CASE g # tail /\ k # tail
        <5>1. next[g] = next[k] /\ next[g] # Nil
          BY <3>2, <3>6, <4>1, <4>2
        <5> QED BY <1>4, <4>1, <5>1 DEF IsList
      <4>3. CASE g = tail /\ k # tail
        BY <1>4, <2>2, <3>2, <3>6, <4>1, <4>3
      <4>4. CASE k = tail /\ g # tail
        BY <1>4, <2>2, <3>2, <3>6, <4>1, <4>4
      <4> QED BY <4>2, <4>3, <4>4
    <3> QED BY <1>4, <2>1, <3>1, <3>4, <3>5, <3>6 DEF IsList
  <2> QED BY <2>4, <2>5, <2>6, <2>7 DEF Q, R
<1> QED BY <1>5, <1>6

(* Every handle but the head has another in front of it.                   *)
LEMMA HasBefore ==
  ASSUME NEW head \in Ends, NEW tail \in Ends, NEW next \in Links,
         IsList(head, tail, next, Reached(head, next)), NEW h \in Reached(head, next), h # head
  PROVE  \E p \in Reached(head, next) : next[p] = h
<1> DEFINE Q == Reached(head, next)
           S == {g \in Q : g = head \/ \E p \in Q : next[p] = g}
<1>1. Q \subseteq Handles /\ head \in Q \cup {Nil} /\ \A g \in Q : next[g] \in Q \cup {Nil}
  BY ReachedChain DEF Chain
<1>2. h \in Q
  OBVIOUS
<1>3. Chain(head, next, S)
  <2> HIDE DEF Q
  <2> QED BY <1>1 DEF Chain
<1>4. Q \subseteq S
  <2>1. S \in SUBSET Handles
    BY <1>1
  <2> HIDE DEF S
  <2> QED BY <1>3, <2>1, ReachedLeast DEF Q
<1> HIDE DEF Q
<1>5. \E p \in Q : next[p] = h
  BY <1>2, <1>4
<1> QED BY <1>5 DEF Q

(* ... and not itself.                                                     *)
LEMMA NotItsOwn ==
  ASSUME NEW head \in Ends, NEW tail \in Ends, NEW next \in Links,
         IsList(head, tail, next, Reached(head, next)), NEW h \in Reached(head, next)
  PROVE  next[h] # h
<1> DEFINE Q == Reached(head, next)
<1>1. Q \subseteq Handles /\ head \in Q \cup {Nil} /\ \A g \in Q : next[g] \in Q \cup {Nil}
  BY ReachedChain DEF Chain
<1>2. h \in Q /\ IsList(head, tail, next, Q) /\ h # Nil
  BY <1>1, ThreadPoolAssumption
<1>3. \A S \in SUBSET Handles : Chain(head, next, S) => Q \subseteq S
  BY ReachedLeast
<1> HIDE DEF Q
<1>4. SUFFICES ASSUME next[h] = h PROVE FALSE
  OBVIOUS
<1>5. h # head
  BY <1>2, <1>4 DEF IsList
<1>6. \A g \in Q : next[g] = h => g = h
  BY <1>2, <1>4 DEF IsList
<1>7. Chain(head, next, Q \ {h})
  BY <1>1, <1>5, <1>6 DEF Chain
<1> QED BY <1>1, <1>2, <1>3, <1>7

(* Dequeue and Cancel: the list closes over the handle that is taken out,  *)
(* the one behind p or, where p is Nil, the head.                          *)
Closes(h, p, head, tail, next, head2, tail2, next2) ==
  /\ IF p = Nil THEN h = head ELSE p \in Reached(head, next) /\ next[p] = h
  /\ head2 = IF h = head THEN next[h] ELSE head
  /\ tail2 = IF h = tail THEN p ELSE tail
  /\ \A n \in Handles : next2[n] = IF n = h THEN Nil ELSE IF n = p THEN next[h] ELSE next[n]

LEMMA ListRemove ==
  ASSUME NEW head \in Ends, NEW tail \in Ends, NEW next \in Links,
         IsList(head, tail, next, Reached(head, next)), NEW h \in Reached(head, next),
         NEW p \in Ends, NEW head2 \in Ends, NEW tail2, NEW next2 \in Links,
         Closes(h, p, head, tail, next, head2, tail2, next2)
  PROVE  /\ Reached(head2, next2) = Reached(head, next) \ {h}
         /\ IsList(head2, tail2, next2, Reached(head, next) \ {h})
<1>0. /\ p = Nil => h = head
      /\ p # Nil => p \in Reached(head, next) /\ next[p] = h
      /\ head2 = IF h = head THEN next[h] ELSE head
      /\ tail2 = IF h = tail THEN p ELSE tail
      /\ \A n \in Handles : next2[n] = IF n = h THEN Nil ELSE IF n = p THEN next[h] ELSE next[n]
  BY DEF Closes
<1> DEFINE Q == Reached(head, next)
           R == Reached(head2, next2)
<1>1. /\ Q \subseteq Handles /\ head \in Q \cup {Nil} /\ \A g \in Q : next[g] \in Q \cup {Nil}
      /\ R \subseteq Handles /\ head2 \in R \cup {Nil} /\ \A g \in R : next2[g] \in R \cup {Nil}
  BY ReachedChain DEF Chain
<1>2. \A S \in SUBSET Handles : Chain(head, next, S) => Q \subseteq S
  BY ReachedLeast
<1>3. \A S \in SUBSET Handles : Chain(head2, next2, S) => R \subseteq S
  BY ReachedLeast
<1>4. /\ IsList(head, tail, next, Q) /\ h \in Q /\ h # Nil /\ Nil \notin Q
      /\ (p # Nil => p \in Q /\ next[p] = h)
  BY <1>0, <1>1, ThreadPoolAssumption
<1>5. next[h] # h
  BY NotItsOwn
<1> HIDE DEF Q, R
<1>6. /\ \A g \in Q : next[g] = h => g = p
      /\ h = head <=> p = Nil
      /\ p # h
  BY <1>0, <1>4, <1>5 DEF IsList
<1>7. /\ \A n \in Q : n # h /\ n # p => next2[n] = next[n]
      /\ p # Nil => next2[p] = next[h]
      /\ next2[h] = Nil
  BY <1>0, <1>1, <1>4, <1>6
<1>8. head2 \in (Q \ {h}) \cup {Nil}
  BY <1>0, <1>1, <1>4, <1>5
<1>9. \A g \in Q \ {h} : next2[g] \in (Q \ {h}) \cup {Nil}
  BY <1>1, <1>4, <1>5, <1>6, <1>7
<1>10. R \subseteq Q \ {h}
  <2>1. Chain(head2, next2, Q \ {h}) /\ Q \ {h} \in SUBSET Handles
    BY <1>1, <1>8, <1>9 DEF Chain
  <2> QED BY <1>3, <2>1
<1>11. Q \ {h} \subseteq R
  <2> DEFINE S == {g \in Q : g \in R \/ (g = h /\ (p = Nil \/ p \in R))}
  <2>1. head \in S \cup {Nil}
    BY <1>0, <1>1, <1>6
  <2>2. ASSUME NEW g \in S PROVE next[g] \in S \cup {Nil}
    <3>1. CASE g = h
      <4>1. CASE p = Nil
        <5>1. next[h] = head2 /\ next[h] \in Q \cup {Nil}
          BY <1>0, <1>1, <1>4, <1>6, <4>1
        <5> QED BY <1>1, <3>1, <5>1
      <4>2. CASE p # Nil
        <5>1. next[h] = next2[p] /\ p \in R /\ next[h] \in Q \cup {Nil}
          BY <1>1, <1>4, <1>7, <1>10, <2>2, <3>1, <4>2
        <5> QED BY <1>1, <3>1, <5>1
      <4> QED BY <4>1, <4>2
    <3>2. CASE g # h
      <4>1. g \in R /\ g \in Q /\ next[g] \in Q \cup {Nil}
        BY <1>1, <2>2, <3>2
      <4>2. CASE g = p
        <5>1. next[g] = h
          BY <1>4, <4>1, <4>2
        <5> QED BY <1>4, <4>1, <4>2, <5>1
      <4>3. CASE g # p
        <5>1. next2[g] = next[g]
          BY <1>7, <3>2, <4>1, <4>3
        <5> QED BY <1>1, <4>1, <5>1
      <4> QED BY <4>2, <4>3
    <3> QED BY <3>1, <3>2
  <2>3. Chain(head, next, S) /\ S \in SUBSET Handles
    <3>1. S \in SUBSET Handles
      BY <1>1
    <3> HIDE DEF S
    <3> QED BY <2>1, <2>2, <3>1 DEF Chain
  <2>4. Q \subseteq S
    <3> HIDE DEF S
    <3> QED BY <1>2, <2>3
  <2> QED BY <2>4
<1>12. IsList(head2, tail2, next2, Q \ {h})
  <2>1. tail2 \in (Q \ {h}) \cup {Nil}
    BY <1>0, <1>4, <1>6 DEF IsList
  <2>2. head2 = Nil <=> tail2 = Nil
    <3>1. CASE h = tail
      BY <1>0, <1>4, <1>6, <3>1 DEF IsList
    <3>2. CASE h # tail
      BY <1>0, <1>4, <1>6, <3>2 DEF IsList
    <3> QED BY <3>1, <3>2
  <2>3. \A n \in Handles \ (Q \ {h}) : next2[n] = Nil
    <3>1. ASSUME NEW n \in Handles, n \notin Q PROVE next2[n] = Nil
      <4>1. n # h /\ n # p /\ next[n] = Nil
        BY <1>4, <3>1, ThreadPoolAssumption DEF IsList
      <4> QED BY <1>0, <4>1
    <3> QED BY <1>7, <3>1
  <2>4. ASSUME NEW g \in Q \ {h} PROVE next2[g] = Nil <=> g = tail2
    <3>1. CASE g = p
      <4>1. next2[g] = next[h] /\ (next[g] # Nil)
        BY <1>4, <1>7, <2>4, <3>1
      <4>2. next[h] = Nil <=> h = tail
        BY <1>4 DEF IsList
      <4>3. g # tail
        BY <1>4, <2>4, <4>1 DEF IsList
      <4> QED BY <1>0, <3>1, <4>1, <4>2, <4>3
    <3>2. CASE g # p
      <4>1. next2[g] = next[g] /\ (next[g] = Nil <=> g = tail)
        BY <1>4, <1>7, <2>4, <3>2 DEF IsList
      <4> QED BY <1>0, <2>4, <3>2, <4>1
    <3> QED BY <3>1, <3>2
  <2>5. ASSUME NEW g \in Q \ {h} PROVE next2[g] # head2
    <3>1. CASE g = p
      <4>1. next2[g] = next[h] /\ head2 = head
        BY <1>0, <1>4, <1>6, <1>7, <2>5, <3>1
      <4> QED BY <1>4, <4>1 DEF IsList
    <3>2. CASE g # p
      <4>1. next2[g] = next[g] /\ next[g] # head
        BY <1>4, <1>7, <2>5, <3>2 DEF IsList
      <4>2. CASE h = head
        <5>1. ASSUME next[g] = next[h] PROVE FALSE
          <6>1. next[g] # Nil
            <7>1. next[g] = Nil => g = tail
              BY <1>4, <2>5 DEF IsList
            <7>2. next[h] = Nil => h = tail
              BY <1>4 DEF IsList
            <7> QED BY <2>5, <5>1, <7>1, <7>2
          <6> QED BY <1>4, <2>5, <5>1, <6>1 DEF IsList
        <5> QED BY <1>0, <4>1, <4>2, <5>1
      <4>3. CASE h # head
        BY <1>0, <4>1, <4>3
      <4> QED BY <4>2, <4>3
    <3> QED BY <3>1, <3>2
  <2>6. ASSUME NEW g \in Q \ {h}, NEW k \in Q \ {h}, next2[g] = next2[k], next2[g] # Nil PROVE g = k
    <3>1. /\ \A a, b \in Q : next[a] = next[b] /\ next[a] # Nil => a = b
      BY <1>4 DEF IsList
    <3>2. CASE g = p /\ k # p
      <4>1. next[h] = next[k] /\ next[h] # Nil
        BY <1>4, <1>7, <2>6, <3>2
      <4> QED BY <1>4, <2>6, <3>1, <4>1
    <3>3. CASE k = p /\ g # p
      <4>1. next[h] = next[g] /\ next[h] # Nil
        BY <1>4, <1>7, <2>6, <3>3
      <4> QED BY <1>4, <2>6, <3>1, <4>1
    <3>4. CASE g # p /\ k # p
      <4>1. next[g] = next[k] /\ next[g] # Nil
        BY <1>7, <2>6, <3>4
      <4> QED BY <2>6, <3>1, <4>1
    <3> QED BY <3>2, <3>3, <3>4
  <2> QED BY <2>1, <2>2, <2>3, <2>4, <2>5, <2>6 DEF IsList
<1>13. R = Q \ {h}
  BY <1>10, <1>11
<1> QED BY <1>12, <1>13 DEF Q, R

(* A handle is marked as pending exactly while it is in the list.          *)
ListInv ==
  /\ IsList(iHead, iTail, iNext, Queued)
  /\ \A h \in Handles : iPending[h] <=> h \in Queued

(* What is cancelled is not queued, or is about to be unlinked.            *)
Unlinking(h) == \E c \in Clients : client[c].pc \in {"cancel", "destroy"} /\ client[c].h = h
FinalInv == \A h \in Handles :
  /\ iCancelled[h] => h \notin Queued \/ Unlinking(h)
  /\ h \in destroyed => iCancelled[h]

QueueInv == ListInv /\ FinalInv

LEMMA QueuedIs ==
  Queued = Reached(iHead, iNext) /\ Queued' = Reached(iHead', iNext')
  BY DEF Queued, Reached, Linked, Chain

LEMMA InitQueueInv == Init => QueueInv
<1> SUFFICES ASSUME Init PROVE QueueInv
  OBVIOUS
<1>1. Queued = {}
  <2>1. Linked({})
    BY DEF Init, Linked
  <2> QED BY <2>1 DEF Queued
<1>2. ListInv
  BY <1>1 DEF Init, ListInv, IsList
<1>3. FinalInv
  BY <1>1 DEF Init, FinalInv
<1> QED BY <1>2, <1>3 DEF QueueInv

(* A step that leaves the links alone and does not cancel.                 *)
LEMMA SameQueue ==
  ASSUME QueueInv, UNCHANGED <<iHead, iTail, iNext, iPending, iCancelled, destroyed>>,
         \A h \in Handles : Unlinking(h) => Unlinking(h)'
  PROVE  QueueInv'
<1>1. Queued' = Queued
  BY QueuedIs
<1>2. ListInv'
  BY <1>1 DEF QueueInv, ListInv, IsList
<1>3. FinalInv'
  BY <1>1 DEF QueueInv, FinalInv
<1> QED BY <1>2, <1>3 DEF QueueInv

LEMMA ScheduleQueue ==
  ASSUME IInv, QueueInv, NEW h \in Handles, h \notin destroyed, TrySchedule(h)
  PROVE  QueueInv'
<1>1. /\ iHead \in Ends /\ iTail \in Ends /\ iNext \in Links
      /\ iPending \in [Handles -> BOOLEAN] /\ iCancelled \in [Handles -> BOOLEAN]
  BY DEF IInv, TypeOK, Ends, Links
<1>2. /\ ~iPending[h] /\ iPending' = [iPending EXCEPT ![h] = TRUE]
      /\ iCancelled' = [iCancelled EXCEPT ![h] = FALSE] /\ iTail' = h
      /\ iHead = Nil => iHead' = h /\ iNext' = iNext
      /\ iHead # Nil => iHead' = iHead /\ iNext' = [iNext EXCEPT ![iTail] = h]
      /\ UNCHANGED <<client, destroyed>>
  BY DEF TrySchedule
<1>3. IsList(iHead, iTail, iNext, Reached(iHead, iNext)) /\ h \notin Reached(iHead, iNext)
  BY <1>2, QueuedIs DEF QueueInv, ListInv
<1>4. iHead' \in Ends /\ iNext' \in Links
  BY <1>1, <1>2 DEF Ends, Links
<1>5. Queued' = Queued \cup {h} /\ IsList(iHead', h, iNext', Queued \cup {h})
  <2>1. /\ Reached(iHead', iNext') = Reached(iHead, iNext) \cup {h}
        /\ IsList(iHead', h, iNext', Reached(iHead, iNext) \cup {h})
    BY <1>1, <1>2, <1>3, <1>4, ListAppend
  <2> QED BY <2>1, QueuedIs
<1>6. ListInv'
  BY <1>1, <1>2, <1>5 DEF QueueInv, ListInv
<1>7. FinalInv'
  BY <1>1, <1>2, <1>5 DEF QueueInv, FinalInv, Unlinking
<1> QED BY <1>6, <1>7 DEF QueueInv

LEMMA DequeueQueue ==
  ASSUME IInv, QueueInv, NEW t \in Threads, Dequeue(t) PROVE QueueInv'
<1>1. /\ iHead \in Ends /\ iTail \in Ends /\ iNext \in Links
      /\ iPending \in [Handles -> BOOLEAN] /\ Nil \notin Handles
  BY ThreadPoolAssumption DEF IInv, TypeOK, Ends, Links
<1>2. /\ iHead # Nil /\ iHead' = iNext[iHead]
      /\ iTail' = IF iNext[iHead] = Nil THEN Nil ELSE iTail
      /\ iNext' = [iNext EXCEPT ![iHead] = Nil]
      /\ iPending' = [iPending EXCEPT ![iHead] = FALSE]
      /\ UNCHANGED <<iCancelled, client, destroyed>>
  BY DEF Dequeue
<1>3. IsList(iHead, iTail, iNext, Queued) /\ iHead \in Queued /\ iHead \in Handles
  BY <1>1, <1>2, ReachedChain, QueuedIs DEF QueueInv, ListInv, Chain, Ends
<1>4. iHead' \in Ends /\ iNext' \in Links /\ Nil \in Ends
  BY <1>1, <1>2, <1>3 DEF Ends, Links
<1>5. \A n \in Handles : iNext'[n] = IF n = iHead THEN Nil
                                     ELSE IF n = Nil THEN iNext[iHead] ELSE iNext[n]
  BY <1>1, <1>2 DEF Links
<1>6. iTail' = IF iHead = iTail THEN Nil ELSE iTail
  BY <1>2, <1>3 DEF IsList
<1>7. Queued' = Queued \ {iHead} /\ IsList(iHead', iTail', iNext', Queued \ {iHead})
  <2>1. IsList(iHead, iTail, iNext, Reached(iHead, iNext)) /\ iHead \in Reached(iHead, iNext)
    BY <1>3, QueuedIs
  <2>2. Closes(iHead, Nil, iHead, iTail, iNext, iHead', iTail', iNext')
    BY <1>2, <1>5, <1>6 DEF Closes
  <2>3. /\ Reached(iHead', iNext') = Reached(iHead, iNext) \ {iHead}
        /\ IsList(iHead', iTail', iNext', Reached(iHead, iNext) \ {iHead})
    BY <1>1, <1>4, <2>1, <2>2, ListRemove
  <2> QED BY <1>6, <2>3, QueuedIs
<1>8. ListInv'
  BY <1>1, <1>2, <1>7 DEF QueueInv, ListInv
<1>9. FinalInv'
  BY <1>2, <1>7 DEF QueueInv, FinalInv, Unlinking
<1> QED BY <1>8, <1>9 DEF QueueInv

(* The loop of Cancel finds the handle in front, or none before the head.  *)
LEMMA BeforeIs ==
  ASSUME IInv, QueueInv, NEW h \in Queued
  PROVE  /\ Before(h) = Nil => h = iHead
         /\ Before(h) # Nil => Before(h) \in Queued /\ iNext[Before(h)] = h
<1>1. iHead \in Ends /\ iTail \in Ends /\ iNext \in Links /\ Nil \notin Handles
  BY ThreadPoolAssumption DEF IInv, TypeOK, Ends, Links
<1>2. Queued \subseteq Handles
  BY DEF Queued
<1>3. CASE \E p \in Handles : InFront(p, h)
  <2>1. Before(h) \in Handles /\ InFront(Before(h), h)
    BY <1>3 DEF Before
  <2> QED BY <1>1, <2>1 DEF InFront
<1>4. CASE ~ \E p \in Handles : InFront(p, h)
  <2>1. Before(h) = Nil
    BY <1>4 DEF Before
  <2>2. ~ \E p \in Queued : iNext[p] = h
    BY <1>2, <1>4 DEF InFront
  <2>3. h = iHead
    BY <1>1, <2>2, HasBefore, QueuedIs DEF QueueInv, ListInv
  <2> QED BY <2>1, <2>3
<1> QED BY <1>3, <1>4

LEMMA UnlinkQueue ==
  ASSUME IInv, QueueInv, NEW c \in Clients, EndCancel(c) PROVE QueueInv'
<1> DEFINE h == client[c].h
<1>1. /\ client[c].pc \in {"cancel", "destroy"} /\ Unlink(h)
      /\ UNCHANGED <<iCancelled, destroyed>>
      /\ \A d \in Clients : d # c => client'[d] = client[d]
  BY DEF EndCancel, IInv, TypeOK
<1>2. h \in Handles
  BY <1>1, InHand DEF IInv
<1>3. \A g \in Handles : g # h /\ Unlinking(g) => Unlinking(g)'
  BY <1>1 DEF Unlinking
<1> HIDE DEF h
<1>4. /\ iHead \in Ends /\ iTail \in Ends /\ iNext \in Links
      /\ iPending \in [Handles -> BOOLEAN] /\ Nil \notin Handles
  BY ThreadPoolAssumption DEF IInv, TypeOK, Ends, Links
<1>5. CASE h \in Queued
  <2> DEFINE p == Before(h)
  <2>1. /\ iHead' = IF h = iHead THEN iNext[h] ELSE iHead
        /\ iNext' = [n \in Handles |-> IF n = h THEN Nil ELSE IF n = p THEN iNext[h] ELSE iNext[n]]
        /\ iTail' = IF h = iTail THEN p ELSE iTail
        /\ iPending' = [iPending EXCEPT ![h] = FALSE]
    BY <1>1, <1>5 DEF Unlink, TailAfter
  <2>2. /\ p = Nil => h = iHead
        /\ p # Nil => p \in Queued /\ iNext[p] = h
    BY <1>5, BeforeIs
  <2>3. p \in Ends
    BY BeforeTyped DEF Ends
  <2> HIDE DEF p
  <2>4. iHead' \in Ends /\ iNext' \in Links
    BY <1>2, <1>4, <2>1 DEF Ends, Links
  <2>5. \A n \in Handles : iNext'[n] = IF n = h THEN Nil ELSE IF n = p THEN iNext[h] ELSE iNext[n]
    BY <2>1
  <2>6. Queued' = Queued \ {h} /\ IsList(iHead', iTail', iNext', Queued \ {h})
    <3>1. IsList(iHead, iTail, iNext, Reached(iHead, iNext)) /\ h \in Reached(iHead, iNext)
      BY <1>5, QueuedIs DEF QueueInv, ListInv
    <3>2. Closes(h, p, iHead, iTail, iNext, iHead', iTail', iNext')
      BY <2>1, <2>2, <2>5, QueuedIs DEF Closes
    <3>3. /\ Reached(iHead', iNext') = Reached(iHead, iNext) \ {h}
          /\ IsList(iHead', iTail', iNext', Reached(iHead, iNext) \ {h})
      BY <1>4, <2>3, <2>4, <3>1, <3>2, ListRemove
    <3> QED BY <3>3, QueuedIs
  <2>7. ListInv'
    BY <1>2, <1>4, <2>1, <2>6 DEF QueueInv, ListInv
  <2>8. FinalInv'
    BY <1>1, <1>3, <2>6 DEF QueueInv, FinalInv
  <2> QED BY <2>7, <2>8 DEF QueueInv
<1>6. CASE h \notin Queued
  <2>1. UNCHANGED <<iHead, iTail, iNext, iPending>>
    BY <1>1, <1>6 DEF Unlink
  <2>2. Queued' = Queued
    BY <2>1, QueuedIs
  <2>3. ListInv'
    BY <2>1, <2>2 DEF QueueInv, ListInv, IsList
  <2>4. FinalInv'
    BY <1>1, <1>3, <1>6, <2>2 DEF QueueInv, FinalInv
  <2> QED BY <2>3, <2>4 DEF QueueInv
<1> QED BY <1>5, <1>6

LEMMA CancelQueue ==
  ASSUME IInv, QueueInv, NEW c \in Clients, Cancel(c) \/ Destroy(c) PROVE QueueInv'
<1>1. PICK g \in Handles, pc \in {"cancel", "destroy"} :
        /\ BeginCancel(c, g, pc) /\ destroyed \subseteq destroyed' /\ destroyed' \subseteq destroyed \cup {g}
  BY DEF Cancel, Destroy
<1>2. /\ client[c] = Idle /\ client' = [client EXCEPT ![c] = [pc |-> pc, h |-> g]]
      /\ iCancelled' = [iCancelled EXCEPT ![g] = TRUE]
      /\ UNCHANGED <<iHead, iTail, iNext, iPending>>
  BY <1>1 DEF BeginCancel, queue
<1>3. Queued' = Queued
  BY <1>2, QueuedIs
<1>4. ListInv'
  BY <1>2, <1>3 DEF QueueInv, ListInv, IsList
<1>5. \A d \in Clients : d # c => client'[d] = client[d]
  BY <1>2 DEF IInv, TypeOK
<1>6. client'[c].pc = pc /\ client'[c].h = g /\ client[c].pc = "idle"
  BY <1>2 DEF IInv, TypeOK, Idle
<1>7. Unlinking(g)' /\ \A h \in Handles : Unlinking(h) => Unlinking(h)'
  BY <1>5, <1>6 DEF Unlinking
<1>8. \A h \in Handles : iCancelled'[h] = (iCancelled[h] \/ h = g)
  BY <1>2 DEF IInv, TypeOK
<1>9. FinalInv'
  BY <1>1, <1>3, <1>7, <1>8 DEF QueueInv, FinalInv
<1> QED BY <1>4, <1>9 DEF QueueInv

LEMMA NextQueueInv == IInv /\ QueueInv /\ [Next]_vars => QueueInv'
<1> SUFFICES ASSUME IInv, QueueInv, [Next]_vars PROVE QueueInv'
  OBVIOUS
<1>1. CASE ClientSchedules
  BY <1>1, ScheduleQueue DEF ClientSchedules
<1>2. ASSUME NEW c \in Clients, Cancel(c) \/ Destroy(c) PROVE QueueInv'
  BY <1>2, CancelQueue
<1>3. ASSUME NEW c \in Clients, EndCancel(c) PROVE QueueInv'
  BY <1>3, UnlinkQueue
<1>4. ASSUME NEW c \in Clients, EndDestroy(c) PROVE QueueInv'
  <2>1. UNCHANGED <<iHead, iTail, iNext, iPending, iCancelled, destroyed>>
    BY <1>4 DEF EndDestroy, queue
  <2>2. client[c].pc = "release" /\ \A d \in Clients : d # c => client'[d] = client[d]
    BY <1>4 DEF EndDestroy, IInv, TypeOK
  <2>3. \A h \in Handles : Unlinking(h) => Unlinking(h)'
    BY <2>2 DEF Unlinking
  <2> QED BY <2>1, <2>3, SameQueue
<1>5. CASE KillThreads \/ WakeThreads \/ Deleted \/ UNCHANGED vars
  <2>1. UNCHANGED <<iHead, iTail, iNext, iPending, iCancelled, destroyed, client>>
    BY <1>5 DEF KillThreads, WakeThreads, Deleted, vars, queue, handle
  <2> QED BY <2>1, SameQueue DEF Unlinking
<1>6. ASSUME NEW t \in Threads, ThreadStep(t), ~Dequeue(t) PROVE QueueInv'
  <2>1. UNCHANGED <<iHead, iTail, iNext, iPending, iCancelled, destroyed, client>>
    BY <1>6 DEF ThreadStep, Wake, DequeueNothing, LockHandle, Run, EndCallback, UnlockHandle,
                ReleaseHandle, CheckForKill, queue, handle
  <2> QED BY <2>1, SameQueue DEF Unlinking
<1>7. ASSUME NEW t \in Threads, Dequeue(t) PROVE QueueInv'
  BY <1>7, DequeueQueue
<1>8. ASSUME NEW t \in Threads, CallbackSchedules(t) PROVE QueueInv'
  <2>1. thread[t].pc = "callback" /\ TrySchedule(thread[t].h)
    BY <1>8 DEF CallbackSchedules, At
  <2>2. thread[t].h \in Handles /\ ~iCancelled[thread[t].h]
    BY <2>1, InHand DEF IInv, RunInv, HasHandle
  <2>3. thread[t].h \notin destroyed
    BY <2>2 DEF QueueInv, FinalInv
  <2> QED BY <2>1, <2>2, <2>3, ScheduleQueue
<1> QED BY <1>1, <1>2, <1>3, <1>4, <1>5, <1>6, <1>7, <1>8 DEF Next, ClientStep

LEMMA QueueInvariance == Spec => []QueueInv
  BY InitQueueInv, NextQueueInv, Invariance, PTL DEF Spec

(* Once Cancel or Destroy has returned, and until the handle is scheduled  *)
(* again, the handle is neither called nor queued: the unlinking finds it  *)
(* wherever it is in the list (ThreadPool.cpp 176-203), and what a thread  *)
(* has already taken out sees that it was cancelled.                       *)
THEOREM CancelledIsOver == Spec => []CancelIsFinal
<1>1. IInv /\ QueueInv => CancelIsFinal
  <2> SUFFICES ASSUME IInv, QueueInv PROVE CancelIsFinal
    OBVIOUS
  <2>1. NoneRunsCancelled
    BY DEF IInv, RunInv, NoneRunsCancelled, Running, At
  <2>2. \A h \in Handles : Unlinking(h) => Cancelling(h)
    BY DEF Unlinking, Cancelling
  <2> QED BY <2>1, <2>2 DEF QueueInv, FinalInv, CancelIsFinal
<1> QED BY <1>1, Invariance, QueueInvariance, PTL

(* A handle whose last reference is gone is in nobody's hands and not in   *)
(* the queue: no call is made, nor a link followed, through a handle that  *)
(* was deleted (ThreadPool.cpp 95, 103-108).                               *)
THEOREM HandlesOutliveUsers == Spec => []NoUseAfterFree
<1>1. IInv /\ QueueInv /\ HoldersKeepHandles => NoUseAfterFree
  <2> SUFFICES ASSUME IInv, QueueInv, HoldersKeepHandles, NEW h \in Handles, iRefCount[h] = 0
               PROVE  h \notin Queued
    BY DEF NoUseAfterFree
  <2>1. iRefCount[h] = Cardinality(Holders(h)) + (IF Owned(h) THEN 1 ELSE 0)
    BY DEF IInv, RefInv
  <2>2. ~Owned(h)
    BY <2>1, HoldersFinite
  <2>3. iCancelled[h] /\ ~Unlinking(h)
    BY <2>2 DEF Owned, Unlinking, QueueInv, FinalInv
  <2> QED BY <2>3 DEF QueueInv, FinalInv
<1> QED BY <1>1, Invariance, QueueInvariance, HandlesOutliveHolders, PTL
=============================================================================
