---------------------------- MODULE StreamGrants ----------------------------
(***************************************************************************)
(* What IdManager promises, without its ring buffer: the streams announced *)
(* to the pipeline form a queue; the stream that leaves the Stopper is     *)
(* granted only when it is the oldest of the queue; an invalidation removes *)
(* one block of the queue, or a suffix, and never reorders what it keeps.  *)
(***************************************************************************)
EXTENDS Naturals, Sequences

CONSTANTS Tracks,    \* track ids a UriProvider hands out
          Streams,   \* what AddStream announces: [id, streamId, playNow]
          Cleared    \* the value of "playing" when nothing is

VARIABLES pending,  \* announced, not yet granted, oldest first
          playing   \* the stream granted last, or Cleared

grantVars == <<pending, playing>>

Init == pending = <<>> /\ playing = Cleared

Announce(s) == pending' = Append(pending, s) /\ UNCHANGED playing

Grant == /\ pending # <<>>
         /\ playing' = Head(pending)
         /\ pending' = Tail(pending)

(* Positions i .. e-1 hold track t and position e does not. *)
IsBlock(t, i, e) == /\ e \in i .. Len(pending) + 1
                    /\ \A j \in i .. e - 1 : pending[j].id = t
                    /\ e \in DOMAIN pending => pending[e].id # t

Without(i, e) == [k \in 1 .. Len(pending) - (e - i) |->
                    IF k < i THEN pending[k] ELSE pending[k + (e - i)]]

IsFirstOf(t, i) == /\ i \in DOMAIN pending
                   /\ pending[i].id = t
                   /\ \A j \in 1 .. i - 1 : pending[j].id # t

(* The stream being played and the block at the head or, if t is not being *)
(* played, the first block of t.                                           *)
DropTrack(t) ==
    \E i, e \in 1 .. Len(pending) + 1 :
        /\ IsBlock(t, i, e)
        /\ pending' = Without(i, e)
        /\ \/ playing.id = t /\ i = 1 /\ playing' = Cleared
           \/ playing.id # t /\ IsFirstOf(t, i) /\ UNCHANGED playing

(* A suffix of the queue goes; what is playing stays. *)
DropSuffix == /\ \E n \in 0 .. Len(pending) : pending' = SubSeq(pending, 1, n)
              /\ UNCHANGED playing

DropAll == pending' = <<>> /\ playing' = Cleared

Next == \/ \E s \in Streams : Announce(s)
        \/ Grant
        \/ \E t \in Tracks : DropTrack(t)
        \/ DropSuffix
        \/ DropAll

Spec == Init /\ [][Next]_grantVars
=============================================================================
