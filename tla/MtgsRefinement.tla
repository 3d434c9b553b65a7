--------------------------- MODULE MtgsRefinement ---------------------------
(***************************************************************************)
(* The ring of Mtgs implements the queue of MtgsQueue: the abstract queue  *)
(* is what one reads by hopping from tag to tag, from m_ReadPos to         *)
(* m_WritePos, exactly as the GS thread does.                              *)
(***************************************************************************)
EXTENDS Mtgs, Sequences

\* The packets in the d qwords before m_WritePos; a hop over m_WritePos shows as a
\* packet that is none.
Parse[d \in 0..RingBufferSize] ==
  IF d = 0 THEN <<>>
  ELSE LET cell == ring[Wrap(m_WritePos + RingBufferSize - d)]
       IN  IF PacketLength(cell) > d THEN <<Payload>>
           ELSE <<cell>> \o Parse[d - PacketLength(cell)]

Packets == {Tag(c, n) : c \in DataCommands, n \in 0..(RingBufferSize - 2)}
             \cup {Tag(c, 0) : c \in Commands \ DataCommands}

Queue == INSTANCE MtgsQueue WITH
           queue <- Parse[Used], room <- RingBufferSize - 1 - Used,
           Length <- PacketLength, Capacity <- RingBufferSize - 1,
           MayDiscard <- TRUE \in DisableOutputs

\* Packets reach the GS thread whole, once, in the order they were sent.
QueueRefinement == Queue!Spec
=============================================================================
