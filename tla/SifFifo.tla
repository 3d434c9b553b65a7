------------------------------ MODULE SifFifo ------------------------------
(***************************************************************************)
(* struct sifFifo (Sif.h): the ring of words through which the SIF moves   *)
(* data between the two processors of the console, one for each direction. *)
(* Its operations check nothing: it is the callers, Sif0 and Sif1, that    *)
(* must leave it neither over- nor underrun.                               *)
(***************************************************************************)
EXTENDS Integers, Sequences

CONSTANT FifoQuads     \* the quadwords (4 words) of the ring; 32 in the code

ASSUME FifoAssumption == FifoQuads \in Nat \ {0}

FIFO_SIF_W == 4 * FifoQuads

Slots == 0..(FIFO_SIF_W - 1)

\* x & (FIFO_SIF_W - 1), for an x that has gone at most once around
Wrap(x) == IF x >= FIFO_SIF_W THEN x - FIFO_SIF_W ELSE x

Smaller(x, y) == IF x < y THEN x ELSE y

Fifos(Words) == [data : [Slots -> Words], readPos : Slots, writePos : Slots, size : Int]

Free(f) == FIFO_SIF_W - f.size

\* memcpy in two parts: up to the end of the ring, and from its start.
Write(f, words) ==
  LET wP0 == Smaller(FIFO_SIF_W - f.writePos, Len(words))
      wP1 == Len(words) - wP0
  IN [f EXCEPT !.data = [i \in Slots |->
                           IF i < wP1 THEN words[wP0 + i + 1]
                           ELSE IF i \in f.writePos..(f.writePos + wP0 - 1)
                                THEN words[i - f.writePos + 1]
                                ELSE f.data[i]],
               !.writePos = Wrap(@ + Len(words)),
               !.size = @ + Len(words)]

\* The words that read() copies out, again in two parts.
Front(f, n) ==
  LET rP0 == Smaller(FIFO_SIF_W - f.readPos, n)
  IN [i \in 1..n |-> IF i <= rP0 THEN f.data[f.readPos + i - 1] ELSE f.data[i - rP0 - 1]]

\* Bug: the read position starts over at the end of the ring.
DropRestart(f, n) ==
  [f EXCEPT !.readPos = IF @ + n >= FIFO_SIF_W THEN 0 ELSE @ + n, !.size = @ - n]

\* ... and the ring that read() leaves.
Drop(f, n) == [f EXCEPT !.readPos = Wrap(@ + n), !.size = @ - n]

Cleared(word) == [data |-> [i \in Slots |-> word], readPos |-> 0, writePos |-> 0, size |-> 0]

-----------------------------------------------------------------------------
(* What the ring means: the queue of words from readPos on. *)
Contents(f) == [i \in 1..f.size |-> f.data[Wrap(f.readPos + i - 1)]]

\* The bookkeeping agrees and no word that waits has been overwritten.
Sound(f) ==
  /\ f.size \in 0..FIFO_SIF_W
  /\ f.writePos = Wrap(f.readPos + f.size)
=============================================================================
