----------------------------- MODULE ThreadPool -----------------------------
(***************************************************************************)
(* One priority queue of ThreadPool (src/OpenHome/ThreadPool.cpp), its     *)
(* handles, its threads and the clients that schedule, cancel and destroy  *)
(* handles.  The three queues of a pool share nothing.                     *)
(*                                                                         *)
(* What runs under the lock of the queue is one step.  The lock of a       *)
(* handle is held while its callback runs, so it is kept as state.         *)
(* A callback may schedule its own handle (TestScheduleFromCallback) but   *)
(* does not cancel it: it would wait for the lock its own thread holds.    *)
(* No client uses a handle once Destroy has been called for it, and the    *)
(* pool goes when every handle has been destroyed.                         *)
(***************************************************************************)
EXTENDS Integers, FiniteSets

CONSTANTS
  Handles,
  Threads,     \* the pool threads of this queue
  Clients,     \* threads that cancel and destroy handles
  Watched,     \* the handle whose calls are followed to their end
  Nil,
  MaxSem       \* bound: nothing is scheduled while iSem stands at MaxSem

ASSUME ThreadPoolAssumption ==
  /\ Nil \notin Handles \cup Threads \cup Clients
  /\ IsFiniteSet(Handles) /\ IsFiniteSet(Threads)
  /\ Watched \in Handles
  /\ Threads \cap Clients = {}
  /\ MaxSem \in Nat \ {0}

VARIABLES
  iHead, iTail,   \* the ends of the queue
  iNext,          \* the handle behind each handle
  iSem,           \* wakes one thread for each call scheduled
  iPending, iCancelled, iRefCount,
  iLock,          \* who holds the lock of each handle
  thread,         \* where each pool thread is, and its handle
  client,         \* where each client is, and its handle
  iKill,          \* the pool is being deleted: "no", "kill", "signalled"
  destroyed,      \* the handles Destroy has been called for
  due             \* ghost: Watched was scheduled since its last call or Cancel

queue == <<iHead, iTail, iNext, iSem>>
handle == <<iPending, iCancelled, iRefCount, iLock>>
vars == <<queue, handle, thread, client, iKill, destroyed, due>>

Idle == [pc |-> "idle", h |-> Nil]
Waiting == [pc |-> "waiting", h |-> Nil]

Init ==
  /\ iHead = Nil /\ iTail = Nil /\ iSem = 0
  /\ iNext = [h \in Handles |-> Nil] /\ iPending = [h \in Handles |-> FALSE]
  /\ iCancelled = [h \in Handles |-> FALSE] /\ iRefCount = [h \in Handles |-> 1]
  /\ iLock = [h \in Handles |-> Nil] /\ thread = [t \in Threads |-> Waiting]
  /\ client = [c \in Clients |-> Idle] /\ iKill = "no" /\ destroyed = {}
  /\ due = FALSE

(* The queue: the handles that iHead leads to, the least set that holds it *)
(* and, with each handle, the one behind it.                               *)
Linked(S) ==
  /\ iHead \in S \cup {Nil}
  /\ \A h \in S : iNext[h] \in S \cup {Nil}
Queued == {h \in Handles : \A S \in SUBSET Handles : Linked(S) => h \in S}

(* PriorityQueue::TrySchedule: an outstanding call is not queued twice. *)
TrySchedule(h) ==
  /\ iSem < MaxSem /\ ~iPending[h] /\ iPending' = [iPending EXCEPT ![h] = TRUE]
  /\ iCancelled' = [iCancelled EXCEPT ![h] = FALSE]
  /\ IF iHead = Nil
     THEN iHead' = h /\ UNCHANGED iNext
     ELSE iNext' = [iNext EXCEPT ![iTail] = h] /\ UNCHANGED iHead
  /\ iTail' = h /\ iSem' = iSem + 1
  /\ due' = (due \/ h = Watched)
  /\ UNCHANGED <<iRefCount, iLock, thread, client, iKill, destroyed>>

(***************************************************************************)
(* Clients: any may schedule a handle at any time, those of Clients also   *)
(* cancel and destroy.                                                     *)
(***************************************************************************)
ClientSchedules == \E h \in Handles \ destroyed : TrySchedule(h)

(* Fault: the lock of the handle excludes nobody. *)
AnyTime(h) == TRUE
IsFree(h) == iLock[h] = Nil

(* Cancel waits for a running callback of the handle to end. *)
BeginCancel(c, h, pc) ==
  /\ client[c] = Idle /\ h \notin destroyed /\ IsFree(h)
  /\ iLock' = [iLock EXCEPT ![h] = c]
  /\ iCancelled' = [iCancelled EXCEPT ![h] = TRUE]
  /\ client' = [client EXCEPT ![c] = [pc |-> pc, h |-> h]]
  /\ UNCHANGED <<queue, iPending, iRefCount, thread, iKill, due>>

Cancel(c) ==
  /\ \E h \in Handles : BeginCancel(c, h, "cancel")
  /\ UNCHANGED destroyed

Destroy(c) == \E h \in Handles :
  /\ BeginCancel(c, h, "destroy") /\ destroyed' = destroyed \cup {h}

(* The loop of PriorityQueue::Cancel: the handle in front of h, or Nil. *)
InFront(p, h) == iNext[p] = h /\ p \in Queued
Before(h) ==
  IF \E p \in Handles : InFront(p, h)
  THEN CHOOSE p \in Handles : InFront(p, h) ELSE Nil

(* Fault: iTail still names a handle cut off the end. *)
TailKept(h, prev) == iTail
TailAfter(h, prev) == IF h = iTail THEN prev ELSE iTail

Unlink(h) ==
  IF h \in Queued
  THEN LET prev == Before(h) IN
       /\ iHead' = IF h = iHead THEN iNext[h] ELSE iHead
       /\ iNext' = [n \in Handles |-> IF n = h THEN Nil
                                     ELSE IF n = prev THEN iNext[h]
                                     ELSE iNext[n]]
       /\ iTail' = TailAfter(h, prev)
       /\ iPending' = [iPending EXCEPT ![h] = FALSE]
  ELSE UNCHANGED <<iHead, iTail, iNext, iPending>>

EndCancel(c) ==
  LET h == client[c].h IN
  /\ client[c].pc \in {"cancel", "destroy"} /\ Unlink(h)
  /\ iLock' = [iLock EXCEPT ![h] = Nil] /\ due' = (due /\ h # Watched)
  /\ client' = [client EXCEPT ![c] =
                  IF @.pc = "destroy" THEN [@ EXCEPT !.pc = "release"] ELSE Idle]
  /\ UNCHANGED <<iSem, iCancelled, iRefCount, thread, iKill, destroyed>>

(* RemoveRef: the handle is deleted with its last reference. *)
RemoveRef(h) == iRefCount' = [iRefCount EXCEPT ![h] = @ - 1]

EndDestroy(c) ==
  /\ client[c].pc = "release" /\ RemoveRef(client[c].h)
  /\ client' = [client EXCEPT ![c] = Idle]
  /\ UNCHANGED <<queue, iPending, iCancelled, iLock, thread, iKill, destroyed, due>>

(* ~PriorityQueue: every thread is marked, then woken. *)
KillThreads ==
  /\ iKill = "no" /\ destroyed = Handles /\ \A c \in Clients : client[c] = Idle
  /\ iKill' = "kill"
  /\ UNCHANGED <<queue, handle, thread, client, destroyed, due>>

WakeThreads ==
  /\ iKill = "kill" /\ iKill' = "signalled" /\ iSem' = iSem + Cardinality(Threads)
  /\ UNCHANGED <<iHead, iTail, iNext, handle, thread, client, destroyed, due>>

(***************************************************************************)
(* Pool threads.                                                           *)
(***************************************************************************)
At(t, pc) == thread[t].pc = pc
Goto(t, pc) == thread' = [thread EXCEPT ![t].pc = pc]

Wake(t) ==
  /\ At(t, "waiting") /\ iSem > 0 /\ iSem' = iSem - 1
  /\ Goto(t, "woken")
  /\ UNCHANGED <<iHead, iTail, iNext, handle, client, iKill, destroyed, due>>

(* Dequeue finds nothing when the call it was woken for was cancelled. *)
DequeueNothing(t) ==
  /\ At(t, "woken") /\ iHead = Nil /\ Goto(t, "check")
  /\ UNCHANGED <<queue, handle, client, iKill, destroyed, due>>

(* Fault: the thread takes no reference of its own. *)
NoRef(h) == iRefCount' = iRefCount
AddRef(h) == iRefCount' = [iRefCount EXCEPT ![h] = @ + 1]

Dequeue(t) ==
  /\ At(t, "woken") /\ iHead # Nil /\ iHead' = iNext[iHead]
  /\ iTail' = IF iNext[iHead] = Nil THEN Nil ELSE iTail
  /\ iNext' = [iNext EXCEPT ![iHead] = Nil]
  /\ iPending' = [iPending EXCEPT ![iHead] = FALSE] /\ AddRef(iHead)
  /\ thread' = [thread EXCEPT ![t] = [pc |-> "dequeued", h |-> iHead]]
  /\ UNCHANGED <<iSem, iCancelled, iLock, client, iKill, destroyed, due>>

LockHandle(t) ==
  /\ At(t, "dequeued") /\ IsFree(thread[t].h)
  /\ iLock' = [iLock EXCEPT ![thread[t].h] = t] /\ Goto(t, "locked")
  /\ UNCHANGED <<queue, iPending, iCancelled, iRefCount, client, iKill, destroyed, due>>

(* Handle::Run: a cancelled call is not made. *)
Run(t) ==
  LET h == thread[t].h IN
  /\ At(t, "locked")
  /\ IF iCancelled[h]
     THEN Goto(t, "end") /\ UNCHANGED due
     ELSE Goto(t, "callback") /\ due' = (due /\ h # Watched)
  /\ UNCHANGED <<queue, handle, client, iKill, destroyed>>

CallbackSchedules(t) ==
  /\ At(t, "callback") /\ TrySchedule(thread[t].h)

EndCallback(t) ==
  /\ At(t, "callback") /\ Goto(t, "end")
  /\ UNCHANGED <<queue, handle, client, iKill, destroyed, due>>

UnlockHandle(t) ==
  /\ At(t, "end") /\ iLock' = [iLock EXCEPT ![thread[t].h] = Nil]
  /\ Goto(t, "release")
  /\ UNCHANGED <<queue, iPending, iCancelled, iRefCount, client, iKill, destroyed, due>>

ReleaseHandle(t) ==
  /\ At(t, "release") /\ RemoveRef(thread[t].h)
  /\ thread' = [thread EXCEPT ![t] = [pc |-> "check", h |-> Nil]]
  /\ UNCHANGED <<queue, iPending, iCancelled, iLock, client, iKill, destroyed, due>>

CheckForKill(t) ==
  /\ At(t, "check")
  /\ Goto(t, IF iKill = "no" THEN "waiting" ELSE "ended")
  /\ UNCHANGED <<queue, handle, client, iKill, destroyed, due>>

(***************************************************************************)
(* The pool may go when every thread has ended: only then may it stop.     *)
(***************************************************************************)
Deleted ==
  /\ iKill = "signalled" /\ \A t \in Threads : At(t, "ended")
  /\ UNCHANGED vars

ClientStep(c) == EndCancel(c) \/ EndDestroy(c)
ThreadStep(t) ==
  \/ Wake(t) \/ DequeueNothing(t) \/ Dequeue(t) \/ LockHandle(t) \/ Run(t)
  \/ EndCallback(t) \/ UnlockHandle(t) \/ ReleaseHandle(t) \/ CheckForKill(t)

Next ==
  \/ ClientSchedules
  \/ \E c \in Clients : Cancel(c) \/ Destroy(c) \/ ClientStep(c)
  \/ KillThreads \/ WakeThreads \/ Deleted
  \/ \E t \in Threads : ThreadStep(t) \/ CallbackSchedules(t)

Spec == Init /\ [][Next]_vars

(* A callback returns, a call of Cancel is completed once it holds the     *)
(* lock, and a thread that waits for the lock of a handle gets it although *)
(* clients keep taking it.                                                 *)
Fairness ==
  /\ \A c \in Clients : WF_vars(ClientStep(c))
  /\ \A t \in Threads : WF_vars(ThreadStep(t)) /\ SF_vars(LockHandle(t))

FairSpec == Spec /\ Fairness

-----------------------------------------------------------------------------
PCs == {"waiting", "woken", "dequeued", "locked", "callback", "end",
        "release", "check", "ended"}
ThreadMembers == [pc : PCs, h : Handles \cup {Nil}]
ClientMembers == [pc : {"idle", "cancel", "destroy", "release"},
                  h : Handles \cup {Nil}]

TypeOK ==
  /\ iHead \in Handles \cup {Nil} /\ iTail \in Handles \cup {Nil}
  /\ iNext \in [Handles -> Handles \cup {Nil}]
  /\ iSem \in Nat
  /\ iPending \in [Handles -> BOOLEAN]
  /\ iCancelled \in [Handles -> BOOLEAN]
  /\ iRefCount \in [Handles -> Int]
  /\ iLock \in [Handles -> Threads \cup Clients \cup {Nil}]
  /\ thread \in [Threads -> ThreadMembers]
  /\ client \in [Clients -> ClientMembers]
  /\ iKill \in {"no", "kill", "signalled"}
  /\ destroyed \in SUBSET Handles
  /\ due \in BOOLEAN

Cancelling(h) == \E c \in Clients : client[c].h = h
Running(h) == \E t \in Threads : At(t, "callback") /\ thread[t].h = h

(* A handle that is cancelled is not being called: Cancel waits for a call *)
(* that has begun, and a thread that has already taken the handle from the *)
(* queue sees that it was cancelled.                                       *)
NoneRunsCancelled == \A h \in Handles : iCancelled[h] => ~Running(h)

(* Once Cancel or Destroy has returned, and until the handle is scheduled  *)
(* again, its callback neither runs nor is queued: whoever cancels may     *)
(* delete what the callback uses.                                          *)
CancelIsFinal ==
  /\ NoneRunsCancelled
  /\ \A h \in Handles : iCancelled[h] /\ ~Cancelling(h) => h \notin Queued

(* A handle is deleted with its last reference: neither a client that      *)
(* cancels nor a thread that still has to unlock it refers to it then...   *)
HoldersKeepHandles == \A h \in Handles : iRefCount[h] = 0 =>
  ~Cancelling(h) /\ \A t \in Threads : thread[t].h # h

(* ... nor does the queue, from which a thread would take it.              *)
NoUseAfterFree ==
  /\ HoldersKeepHandles
  /\ \A h \in Handles : iRefCount[h] = 0 => h \notin Queued

(* A call that TrySchedule accepted is followed by one of the callback,    *)
(* unless it is cancelled: whatever is unlinked around it, and though each *)
(* thread takes only one permit at a time.                                 *)
ScheduledRuns == due ~> ~due
=============================================================================
