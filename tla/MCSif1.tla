------------------------------- MODULE MCSif1 -------------------------------
(* Sif1 with some packets. *)
EXTENDS Sif1Agreed

Packet(qwc, eeEnd, words, iopEnd) ==
  [qwc |-> qwc, eeEnd |-> eeEnd, words |-> words, iopEnd |-> iopEnd]

\* Packets of whole quadwords: the IOP tag, and the words it counts.
MCMatched == {Packet(4, FALSE, 12, TRUE), Packet(1, TRUE, 0, FALSE)}

\* A packet of six words: the EE sends two quadwords of data, with the last half empty.
MCUneven == {Packet(3, e, 6, i) : e, i \in BOOLEAN}

\* Packets longer than the FIFO, each of which ends the IOP's chain.
MCLong == {Packet(4, e, 12, TRUE) : e \in BOOLEAN}
=============================================================================
