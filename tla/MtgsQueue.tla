------------------------------ MODULE MtgsQueue ------------------------------
(***************************************************************************)
(* What the MTGS ring promises: a bounded FIFO queue of GS commands.  The  *)
(* EE appends one, the GS thread removes the oldest, and with output off   *)
(* it removes them all unexecuted.                                         *)
(***************************************************************************)
EXTENDS Integers, Sequences

CONSTANTS Packets,     \* the command tags that may be queued
          Length(_),   \* the qwords a packet takes
          Capacity,    \* the qwords the queue holds
          MayDiscard   \* whether the queue may be dropped

VARIABLES queue,
          room         \* the qwords that are free

vars == <<queue, room>>

TypeOK == queue \in Seq(Packets) /\ room \in 0..Capacity

Init == queue = <<>> /\ room = Capacity

\* The EE queues a packet when there is room for all of it.
Send ==
  \E p \in Packets :
    /\ Length(p) <= room
    /\ queue' = Append(queue, p)
    /\ room' = room - Length(p)

\* The GS thread executes the oldest packet, and its room is free again.
Execute ==
  /\ queue # <<>>
  /\ queue' = Tail(queue)
  /\ room' = room + Length(Head(queue))

\* DisableOutput: nothing that is queued is executed.
Discard ==
  /\ MayDiscard /\ queue # <<>>
  /\ queue' = <<>>
  /\ room' = Capacity

Next == Send \/ Execute \/ Discard

Spec == Init /\ [][Next]_vars
=============================================================================
