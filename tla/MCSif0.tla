------------------------------- MODULE MCSif0 -------------------------------
(* Sif0 with some packets. *)
EXTENDS Sif0Agreed

Packet(words, iopEnd, qwc, eeEnd) ==
  [words |-> words, iopEnd |-> iopEnd, qwc |-> qwc, eeEnd |-> eeEnd]

\* Packets whose two tags agree, with and without the rounding up to a quadword.
MCMatched ==
  {Packet(6, i, 2, e) : i, e \in BOOLEAN} \cup {Packet(0, FALSE, 0, FALSE)}
    \cup {Packet(12, TRUE, 3, TRUE)}

\* Packets of which the EE expects more, or less, than the IOP sends.
MCAny == MCMatched \cup {Packet(4, TRUE, 3, FALSE), Packet(5, FALSE, 1, TRUE)}
=============================================================================
