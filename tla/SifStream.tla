----------------------------- MODULE SifStream -----------------------------
(***************************************************************************)
(* What one direction of the SIF promises: a bounded stream of words that  *)
(* one processor appends to and the other takes from, in order.            *)
(***************************************************************************)
EXTENDS Integers, Sequences

CONSTANTS Words, Capacity

VARIABLE stream

Init == stream = <<>>

\* One processor's words enter, all of them or none.
Send ==
  /\ Len(stream) < Capacity
  /\ Len(stream') \in (Len(stream) + 1)..Capacity
  /\ SubSeq(stream', 1, Len(stream)) = stream
  /\ \A i \in (Len(stream) + 1)..Len(stream') : stream'[i] \in Words

\* The other processor takes what has waited longest.
Receive == \E n \in 1..Len(stream) : stream' = SubSeq(stream, n + 1, Len(stream))

Next == Send \/ Receive

Spec == Init /\ [][Next]_stream
=============================================================================
