----------------------------- MODULE LossyFifo -----------------------------
(***************************************************************************)
(* What DeckAudio promises its emulator: frames are heard in the order in  *)
(* which they were given, a full queue loses its oldest frames and counts  *)
(* them, and nothing else is lost while the device works.  Frames are      *)
(* numbered from 1 as they are given.                                      *)
(***************************************************************************)
EXTENDS Naturals, Sequences

CONSTANTS Capacity, MaxFrames

VARIABLES
  given,    \* number of frames given so far
  pending,  \* frames waiting, oldest first
  hand,     \* frames on their way to the device
  dropped   \* number of frames lost to a full queue

vars == <<given, pending, hand, dropped>>

NewFrames(n) == [i \in 1 .. n |-> given + i]

\* The newest n elements of s.
Newest(s, n) == IF Len(s) <= n THEN s ELSE SubSeq(s, Len(s) - n + 1, Len(s))

Init ==
  /\ given = 0 /\ dropped = 0
  /\ pending = <<>> /\ hand = <<>>

Give(n) ==
  /\ pending' = Newest(pending \o NewFrames(n), Capacity)
  /\ given' = given + n
  /\ dropped' = dropped + Len(pending) + n - Len(pending')
  /\ UNCHANGED hand

Take ==
  /\ hand = <<>>
  /\ \E k \in 1 .. Len(pending) :
       /\ hand' = SubSeq(pending, 1, k)
       /\ pending' = SubSeq(pending, k + 1, Len(pending))
  /\ UNCHANGED <<given, dropped>>

Play ==
  /\ \E k \in 1 .. Len(hand) : hand' = SubSeq(hand, k + 1, Len(hand))
  /\ UNCHANGED <<given, pending, dropped>>

\* The device fails: the chunk under way and the queue go silently.
Fail ==
  /\ pending' = <<>> /\ hand' = <<>>
  /\ UNCHANGED <<given, dropped>>

\* The device is closed and opened again.
Restart == Init'

Next == (\E n \in 1 .. MaxFrames : Give(n)) \/ Take \/ Play \/ Fail \/ Restart

Spec == Init /\ [][Next]_vars
=============================================================================
