----------------------------- MODULE Sif0Proofs -----------------------------
(***************************************************************************)
(* SIF0 for a FIFO of any size and any packets, matched or not: the ring   *)
(* is never over- or underrun, and it is the stream it stands for.  What   *)
(* makes a check for one free word enough for the four words of a tag is   *)
(* that everything moves in quadwords.                                     *)
(***************************************************************************)
EXTENDS Sif0Agreed, SifFifoProofs

Quad(n) == \E k \in Nat : n = 4 * k

\* Only whole quadwords wait in the FIFO or on the IOP's side.
QuadInv ==
  /\ Quad(fifo.size)
  /\ Quad(iop.counter)
  /\ iop.counter <= RoundUp(iop.packet.words)

Inv == TypeOK /\ Sound(fifo) /\ QuadInv

-----------------------------------------------------------------------------
(* Arithmetic of quadwords. *)

LEMMA QuadSmaller ==
  ASSUME NEW x \in Nat, NEW y \in Nat, Quad(x), Quad(y)
  PROVE  /\ Smaller(x, y) \in Nat /\ Quad(Smaller(x, y))
         /\ Smaller(x, y) <= x /\ Smaller(x, y) <= y
  BY DEF Smaller

LEMMA QuadSum ==
  ASSUME NEW x \in Nat, NEW y \in Nat, Quad(x), Quad(y)
  PROVE  Quad(x + y) /\ (y <= x => Quad(x - y))
<1>1. PICK j \in Nat : x = 4 * j
  BY DEF Quad
<1>2. PICK k \in Nat : y = 4 * k
  BY DEF Quad
<1>3. x + y = 4 * (j + k) /\ j + k \in Nat
  BY <1>1, <1>2
<1>4. y <= x => x - y = 4 * (j - k) /\ j - k \in Nat
  BY <1>1, <1>2
<1> QED BY <1>3, <1>4 DEF Quad

LEMMA QuadPositive ==
  ASSUME NEW x \in Nat, Quad(x), x > 0
  PROVE  x >= 4
<1>1. PICK k \in Nat : x = 4 * k
  BY DEF Quad
<1> QED BY <1>1

LEMMA QuadConstants == Quad(0) /\ Quad(4) /\ Quad(FIFO_SIF_W) /\ \A k \in Nat : Quad(4 * k)
<1>1. 0 = 4 * 0 /\ 4 = 4 * 1 /\ FIFO_SIF_W = 4 * FifoQuads /\ FifoQuads \in Nat
  BY FifoAssumption DEF FIFO_SIF_W
<1> QED BY <1>1 DEF Quad

LEMMA RoundUpQuad ==
  ASSUME NEW n \in Nat
  PROVE  RoundUp(n) \in Nat /\ Quad(RoundUp(n)) /\ RoundUp(n) >= n
<1>1. (n + 3) \div 4 \in Nat /\ 4 * ((n + 3) \div 4) \in Nat /\ 4 * ((n + 3) \div 4) >= n
  OBVIOUS
<1> QED BY <1>1 DEF RoundUp, Quad

\* The words of a packet, as they go into the FIFO.
LEMMA StretchType ==
  ASSUME NEW p \in Packets, NEW from \in Nat, NEW n \in Nat
  PROVE  Stretch(p, from, n) \in Seq(Words) /\ Len(Stretch(p, from, n)) = n
<1>1. \A i \in 1..n : [packet |-> p, at |-> from + i - 1] \in Words
  BY DEF Words
<1> QED BY <1>1 DEF Stretch

LEMMA PacketFields ==
  ASSUME NEW p \in Packets
  PROVE  p.words \in Nat /\ p.qwc \in Nat /\ p.iopEnd \in BOOLEAN /\ p.eeEnd \in BOOLEAN
  BY PacketAssumption

\* Room for one word is room for a quadword.
LEMMA QuadRoom ==
  ASSUME TypeOK, Sound(fifo), QuadInv
  PROVE  /\ fifo \in Fifos(Words) /\ fifo.size \in Nat
         /\ Free(fifo) \in Nat /\ Quad(Free(fifo)) /\ (Free(fifo) > 0 => Free(fifo) >= 4)
<1>1. fifo \in Fifos(Words) /\ fifo.size \in 0..FIFO_SIF_W /\ Quad(fifo.size)
  BY FreeBound DEF TypeOK, QuadInv
<1>2. fifo.size \in Nat /\ FIFO_SIF_W \in Nat /\ fifo.size <= FIFO_SIF_W
  BY <1>1, WidthType
<1>3. Quad(FIFO_SIF_W - fifo.size) /\ FIFO_SIF_W - fifo.size \in Nat
  <2>1. Quad(FIFO_SIF_W)
    BY QuadConstants
  <2>2. Quad(FIFO_SIF_W - fifo.size)
    BY <1>1, <1>2, <2>1, QuadSum
  <2> QED BY <1>2, <2>2
<1>4. FIFO_SIF_W - fifo.size > 0 => FIFO_SIF_W - fifo.size >= 4
  BY <1>3, QuadPositive
<1> QED BY <1>1, <1>2, <1>3, <1>4 DEF Free

-----------------------------------------------------------------------------
(* The steps. *)

THEOREM InitInv == Init => Inv
<1>1. SUFFICES ASSUME NEW p \in Packets,
                      fifo = Cleared([packet |-> p, at |-> 0]),
                      iop = [busy |-> FALSE, end |-> FALSE, counter |-> 0, chcr |-> FALSE,
                             packet |-> p],
                      ee = [busy |-> FALSE, end |-> FALSE, qwc |-> 0, str |-> FALSE,
                            mod |-> "CHAIN", packet |-> p],
                      pending = {}, pc = "idle", BusyCheck = FALSE
               PROVE  Inv
  BY DEF Init
<1>2. [packet |-> p, at |-> 0] \in Words
  BY DEF Words
<1>3. fifo \in Fifos(Words) /\ Sound(fifo) /\ fifo.size = 0
  BY <1>1, <1>2, ClearedSound
<1>4. iop \in IopType /\ ee \in EeType
  BY <1>1 DEF IopType, EeType
<1>5. TypeOK
  BY <1>1, <1>3, <1>4 DEF TypeOK
<1>6. iop.counter = 0 /\ iop.packet = p /\ Quad(0)
  BY <1>1, QuadConstants
<1>7. 0 <= RoundUp(p.words)
  BY PacketFields, RoundUpQuad
<1> QED BY <1>3, <1>5, <1>6, <1>7 DEF Inv, QuadInv

\* A turn of the IOP only adds words, and only when there is room for them.
LEMMA IopTurnFifo ==
  ASSUME Inv, IopTurn
  PROVE  /\ iop' \in IopType /\ fifo' \in Fifos(Words) /\ Sound(fifo')
         /\ Quad(fifo'.size) /\ Quad(iop'.counter) /\ iop'.counter <= RoundUp(iop'.packet.words)
         /\ pending' \subseteq {"EE", "IOP"}
         /\ \/ fifo' = fifo
            \/ \E w \in Seq(Words) : /\ w # <<>> /\ Len(w) <= Free(fifo)
                                     /\ fifo' = Write(fifo, w)
<1> USE DEF Inv
<1>1. /\ fifo \in Fifos(Words) /\ fifo.size \in Nat /\ Quad(fifo.size)
      /\ Free(fifo) \in Nat /\ Quad(Free(fifo)) /\ (Free(fifo) > 0 => Free(fifo) >= 4)
  BY QuadRoom DEF QuadInv
<1>2. /\ iop \in IopType /\ iop.counter \in Nat /\ iop.packet \in Packets
      /\ iop.end \in BOOLEAN /\ pending \subseteq {"EE", "IOP"}
      /\ Quad(iop.counter) /\ iop.counter <= RoundUp(iop.packet.words)
  BY DEF TypeOK, IopType, QuadInv
<1>3. CASE ~IopMay
  BY <1>1, <1>2, <1>3 DEF IopTurn
<1>4. CASE IopMay /\ iop.counter = 0 /\ iop.end /\ EndIOP
  <2>1. fifo' = fifo /\ pending' \subseteq {"EE", "IOP"}
    BY <1>2, <1>4 DEF EndIOP
  <2>2. /\ iop' \in IopType /\ iop'.counter = iop.counter /\ iop'.packet = iop.packet
    BY <1>2, <1>4 DEF EndIOP, IopType
  <2> QED BY <1>1, <1>2, <2>1, <2>2
<1>5. CASE IopMay /\ iop.counter = 0 /\ ~iop.end /\ ProcessIOPTag
  <2>1. PICK p \in Packets :
          /\ fifo' = Write(fifo, Stretch(p, 0, 4))
          /\ iop' = [iop EXCEPT !.packet = p, !.counter = RoundUp(p.words),
                                !.end = @ \/ p.iopEnd]
          /\ pending' = pending
    BY <1>5 DEF ProcessIOPTag
  <2>2. Free(fifo) >= 4
    BY <1>1, <1>5 DEF IopMay
  <2>3. Stretch(p, 0, 4) \in Seq(Words) /\ Len(Stretch(p, 0, 4)) = 4
    BY StretchType
  <2>4. Stretch(p, 0, 4) # <<>>
    BY <2>3
  <2>5. fifo' \in Fifos(Words) /\ Sound(fifo') /\ fifo'.size = fifo.size + 4
    BY <1>1, <2>1, <2>2, <2>3, WriteSound
  <2>6. Quad(fifo'.size)
    BY <1>1, <2>5, QuadSum, QuadConstants
  <2>7. RoundUp(p.words) \in Nat /\ Quad(RoundUp(p.words)) /\ p.iopEnd \in BOOLEAN
    BY PacketFields, RoundUpQuad
  <2>8. iop' \in IopType
    BY <1>2, <2>1, <2>7 DEF IopType
  <2>9. iop'.counter = RoundUp(p.words) /\ iop'.packet = p
    BY <1>2, <2>1 DEF IopType
  <2>10. \E w \in Seq(Words) : /\ w # <<>> /\ Len(w) <= Free(fifo)
                              /\ fifo' = Write(fifo, w)
    <3> DEFINE v == Stretch(p, 0, 4)
    <3>1. v \in Seq(Words) /\ v # <<>> /\ Len(v) <= Free(fifo) /\ fifo' = Write(fifo, v)
      BY <1>1, <2>1, <2>2, <2>3, <2>4
    <3> HIDE DEF v
    <3> QED BY <3>1
  <2>11. iop'.counter <= RoundUp(iop'.packet.words)
    BY <2>7, <2>9
  <2> QED BY <1>2, <2>1, <2>5, <2>6, <2>7, <2>8, <2>9, <2>10, <2>11
<1>6. CASE IopMay /\ iop.counter > 0 /\ WriteIOPtoFifo
  <2> DEFINE n == Smaller(iop.counter, Free(fifo))
             w == Stretch(iop.packet, 4 + RoundUp(iop.packet.words) - iop.counter, n)
  <2>1. fifo' = Write(fifo, w) /\ iop' = [iop EXCEPT !.counter = @ - n] /\ pending' = pending
    BY <1>6 DEF WriteIOPtoFifo
  <2>2. n \in Nat /\ Quad(n) /\ n <= iop.counter /\ n <= Free(fifo)
    BY <1>1, <1>2, QuadSmaller
  <2>3. n > 0
    BY <1>1, <1>2, <1>6 DEF IopMay, Smaller
  <2>4. 4 + RoundUp(iop.packet.words) - iop.counter \in Nat
    BY <1>2, PacketFields, RoundUpQuad
  <2>5. w \in Seq(Words) /\ Len(w) = n
    BY <1>2, <2>2, <2>4, StretchType
  <2>6. w # <<>>
    BY <2>2, <2>3, <2>5
  <2> HIDE DEF w, n
  <2>7. fifo' \in Fifos(Words) /\ Sound(fifo') /\ fifo'.size = fifo.size + n
    BY <1>1, <2>1, <2>2, <2>5, WriteSound
  <2>8. Quad(fifo'.size)
    BY <1>1, <2>2, <2>7, QuadSum
  <2>9. iop.counter - n \in Nat /\ Quad(iop.counter - n) /\ iop.counter - n <= iop.counter
    BY <1>2, <2>2, QuadSum
  <2>10. /\ iop' \in IopType /\ iop'.counter = iop.counter - n /\ iop'.packet = iop.packet
    BY <1>2, <2>1, <2>9 DEF IopType
  <2>11. iop'.counter <= RoundUp(iop'.packet.words)
    BY <1>2, <2>9, <2>10, PacketFields, RoundUpQuad
  <2> QED BY <1>2, <2>1, <2>2, <2>5, <2>6, <2>7, <2>8, <2>9, <2>10, <2>11
<1> QED BY <1>3, <1>4, <1>5, <1>6 DEF IopTurn, HandleIOPTransfer

\* WriteFifoToEE takes whole quadwords that are there.
LEMMA WriteFifoToEEFifo ==
  ASSUME TypeOK, NEW e \in EeType, NEW f \in Fifos(Words), Sound(f), Quad(f.size),
         WriteFifoToEE(e, f)
  PROVE  /\ ee' \in EeType
         /\ \E n \in 0..f.size : Quad(n) /\ fifo' = Drop(f, n)
<1>1. f.size \in Nat /\ e.qwc \in Nat
  BY FreeBound, WidthType DEF EeType
<1>2. f.size \div 4 \in Nat /\ 4 * (f.size \div 4) <= f.size
  BY <1>1
<1> DEFINE readSize == Smaller(e.qwc, f.size \div 4)
<1>3. readSize \in Nat /\ readSize <= e.qwc /\ readSize <= f.size \div 4
  BY <1>1, <1>2 DEF Smaller
<1>4. \/ fifo' = Drop(f, 4 * readSize) /\ ee' = [e EXCEPT !.qwc = @ - readSize]
      \/ fifo' = f /\ ee' = [e EXCEPT !.str = FALSE]
  BY DEF WriteFifoToEE
<1> HIDE DEF readSize
<1>5. 4 * readSize \in 0..f.size /\ Quad(4 * readSize) /\ e.qwc - readSize \in Nat
  BY <1>1, <1>2, <1>3, QuadConstants
<1>6. CASE fifo' = Drop(f, 4 * readSize) /\ ee' = [e EXCEPT !.qwc = @ - readSize]
  BY <1>5, <1>6 DEF EeType
<1>7. CASE fifo' = f /\ ee' = [e EXCEPT !.str = FALSE]
  <2>1. f = Drop(f, 0)
    <3>1. f = [data |-> f.data, readPos |-> f.readPos, writePos |-> f.writePos,
               size |-> f.size]
      BY FifoFields
    <3>2. f.readPos \in 0..(FIFO_SIF_W - 1) /\ Wrap(f.readPos + 0) = f.readPos
      BY FifoFields, WidthType DEF Wrap, Slots
    <3>3. Drop(f, 0) = [f EXCEPT !.readPos = Wrap(@ + 0), !.size = @ - 0]
      BY DEF Drop
    <3>4. f.size - 0 = f.size
      BY <1>1
    <3> QED BY <3>1, <3>2, <3>3, <3>4
  <2>2. ee' \in EeType
    BY <1>7 DEF EeType
  <2>3. 0 \in 0..f.size /\ Quad(0)
    BY <1>1, QuadConstants
  <2> QED BY <1>7, <2>1, <2>2, <2>3
<1> QED BY <1>4, <1>6, <1>7

\* A turn of the EE only takes words from the head of the queue, in whole quadwords.
LEMMA EeTurnFifo ==
  ASSUME Inv, EeTurn
  PROVE  /\ ee' \in EeType /\ fifo' \in Fifos(Words) /\ Sound(fifo') /\ Quad(fifo'.size)
         /\ pending' \subseteq {"EE", "IOP"}
         /\ \/ fifo' = fifo
            \/ \E n \in 0..fifo.size :
                 Contents(fifo') = SubSeq(Contents(fifo), n + 1, fifo.size)
<1> USE DEF Inv
<1>1. /\ fifo \in Fifos(Words) /\ fifo.size \in Nat /\ Quad(fifo.size) /\ Sound(fifo)
  BY QuadRoom DEF QuadInv
<1>2. /\ ee \in EeType /\ ee.qwc \in Nat /\ pending \subseteq {"EE", "IOP"}
  BY DEF TypeOK, EeType
<1>3. CASE ~EeMay
  BY <1>1, <1>2, <1>3 DEF EeTurn
<1>4. CASE EndEE
  <2>1. fifo' = fifo /\ pending' \subseteq {"EE", "IOP"}
    BY <1>2, <1>4 DEF EndEE
  <2>2. ee' \in EeType
    BY <1>2, <1>4 DEF EndEE, EeType
  <2> QED BY <1>1, <2>1, <2>2
<1>5. CASE ee' = [ee EXCEPT !.end = FALSE, !.busy = FALSE] /\ UNCHANGED <<fifo, pending>>
  <2>1. ee' \in EeType
    BY <1>2, <1>5 DEF EeType
  <2> QED BY <1>1, <1>2, <1>5, <2>1
<1>6. CASE WriteFifoToEE(ee, fifo) /\ pending' = pending
  <2>1. ee' \in EeType
    BY <1>1, <1>2, <1>6, WriteFifoToEEFifo
  <2>2. PICK n \in 0..fifo.size : Quad(n) /\ fifo' = Drop(fifo, n)
    BY <1>1, <1>2, <1>6, WriteFifoToEEFifo
  <2>3. fifo' \in Fifos(Words) /\ Sound(fifo') /\ fifo'.size = fifo.size - n
    BY <1>1, <2>2, DropSound
  <2>4. Contents(fifo') = SubSeq(Contents(fifo), n + 1, fifo.size)
    BY <1>1, <2>2, DropContents
  <2>5. Quad(fifo'.size)
    BY <1>1, <2>2, <2>3, QuadSum
  <2> QED BY <1>2, <1>6, <2>1, <2>3, <2>4, <2>5
<1>7. CASE fifo.size >= 4 /\ ProcessEETag /\ pending' = pending
  <2> DEFINE f == Drop(fifo, 4)
  <2>1. PICK p \in Packets :
          LET e == [ee EXCEPT !.packet = p, !.qwc = p.qwc, !.end = @ \/ p.eeEnd]
          IN IF e.qwc > 0 /\ f.size > 0 THEN WriteFifoToEE(e, f) ELSE ee' = e /\ fifo' = f
    <3>1. HeadTags \subseteq Packets
      <4>1. ASSUME Front(fifo, 1)[1].at = 0 PROVE Front(fifo, 1)[1].packet \in Packets
        <5>1. Front(fifo, 1)[1] = fifo.data[fifo.readPos]
          BY <1>1, FifoFields, WidthType DEF Front, Slots, Smaller
        <5>2. fifo.data[fifo.readPos] \in Words
          BY <1>1, FifoFields
        <5> QED BY <5>1, <5>2 DEF Words
      <4> QED BY <4>1 DEF HeadTags
    <3> QED BY <1>7, <3>1 DEF ProcessEETag
  <2> DEFINE e == [ee EXCEPT !.packet = p, !.qwc = p.qwc, !.end = @ \/ p.eeEnd]
  <2>2. e \in EeType
    BY <1>2, PacketFields DEF EeType
  <2>3. 4 \in 0..fifo.size /\ f \in Fifos(Words) /\ Sound(f) /\ f.size = fifo.size - 4
    BY <1>1, <1>7, DropSound
  <2>4. Quad(f.size)
    BY <1>1, <1>7, <2>3, QuadSum, QuadConstants
  <2>5. Contents(f) = SubSeq(Contents(fifo), 5, fifo.size)
    BY <1>1, <2>3, DropContents
  <2> HIDE DEF e, f
  <2>6. CASE WriteFifoToEE(e, f)
    <3>1. ee' \in EeType
      BY <2>2, <2>3, <2>4, <2>6, WriteFifoToEEFifo
    <3>2. PICK n \in 0..f.size : Quad(n) /\ fifo' = Drop(f, n)
      BY <2>2, <2>3, <2>4, <2>6, WriteFifoToEEFifo
    <3>3. fifo' \in Fifos(Words) /\ Sound(fifo') /\ fifo'.size = f.size - n
      BY <2>3, <3>2, DropSound
    <3>4. Contents(fifo') = SubSeq(Contents(f), n + 1, f.size)
      BY <2>3, <3>2, DropContents
    <3>5. Quad(fifo'.size)
      BY <1>1, <2>3, <2>4, <3>2, <3>3, QuadSum
    <3>6. Contents(fifo) \in Seq(Words) /\ Len(Contents(fifo)) = fifo.size
      BY <1>1, ContentsType
    <3>7. /\ n + 4 \in 0..fifo.size
          /\ SubSeq(SubSeq(Contents(fifo), 5, fifo.size), n + 1, fifo.size - 4)
               = SubSeq(Contents(fifo), (n + 4) + 1, fifo.size)
      BY <1>1, <1>7, <2>3, <3>2, <3>6
    <3> QED BY <1>2, <1>7, <2>3, <2>5, <3>1, <3>3, <3>4, <3>5, <3>7
  <2>7. CASE ee' = e /\ fifo' = f
    BY <1>2, <1>7, <2>2, <2>3, <2>4, <2>5, <2>7
  <2> QED BY <2>1, <2>6, <2>7 DEF e
<1> QED BY <1>3, <1>4, <1>5, <1>6, <1>7 DEF EeTurn, HandleEETransfer

LEMMA TurnInv == Inv /\ Turn => Inv'
<1>1. ASSUME Inv, IopTurn PROVE Inv'
  <2>1. iop' \in IopType /\ fifo' \in Fifos(Words) /\ pending' \subseteq {"EE", "IOP"}
    BY <1>1, IopTurnFifo
  <2>2. ee' \in EeType /\ pc' \in {"idle", "iop", "ee"} /\ BusyCheck' \in BOOLEAN
    BY <1>1 DEF IopTurn, Inv, TypeOK, IopMay
  <2>3. TypeOK'
    BY <2>1, <2>2 DEF TypeOK
  <2> QED BY <1>1, <2>3, IopTurnFifo DEF Inv, QuadInv
<1>2. ASSUME Inv, EeTurn PROVE Inv'
  <2>1. ee' \in EeType /\ fifo' \in Fifos(Words) /\ pending' \subseteq {"EE", "IOP"}
    BY <1>2, EeTurnFifo
  <2>2. iop' = iop /\ pc' \in {"idle", "iop", "ee"} /\ BusyCheck' \in BOOLEAN
    BY <1>2 DEF EeTurn
  <2>3. TypeOK'
    BY <1>2, <2>1, <2>2 DEF TypeOK, Inv
  <2> QED BY <1>2, <2>2, <2>3, EeTurnFifo DEF Inv, QuadInv
<1> QED BY <1>1, <1>2 DEF Turn

\* The programs and the interrupts leave the FIFO and the counter alone.
LEMMA ProgramInv ==
  Inv /\ (psxDma9 \/ dmaSIF0 \/ ForceStop \/ sif0Interrupt \/ EEsif0Interrupt)
    => Inv' /\ fifo' = fifo
<1> SUFFICES ASSUME Inv, psxDma9 \/ dmaSIF0 \/ ForceStop \/ sif0Interrupt \/ EEsif0Interrupt
             PROVE  Inv' /\ fifo' = fifo
  OBVIOUS
<1>1. /\ iop \in IopType /\ ee \in EeType /\ pending \subseteq {"EE", "IOP"}
      /\ pc \in {"idle", "iop", "ee"} /\ BusyCheck \in BOOLEAN /\ fifo \in Fifos(Words)
  BY DEF Inv, TypeOK
<1>2. /\ fifo' = fifo /\ BusyCheck' = BusyCheck
      /\ pc' \in {"idle", "iop", "ee"} /\ pending' \subseteq {"EE", "IOP"}
  BY <1>1 DEF psxDma9, dmaSIF0, ForceStop, sif0Interrupt, EEsif0Interrupt
<1>3. iop' \in IopType /\ iop'.counter = iop.counter /\ iop'.packet = iop.packet
  <2>1. \/ iop' = iop
        \/ iop' = [iop EXCEPT !.chcr = TRUE, !.busy = TRUE]
        \/ iop' = [iop EXCEPT !.chcr = FALSE]
    BY DEF psxDma9, dmaSIF0, ForceStop, sif0Interrupt, EEsif0Interrupt
  <2> QED BY <1>1, <2>1 DEF IopType
<1>4. ee' \in EeType
  <2>1. \/ ee' = ee
        \/ \E m \in Modes : \E q \in NormalQwc \cup {0} :
             ee' = [ee EXCEPT !.str = TRUE, !.mod = m, !.qwc = q, !.busy = TRUE]
        \/ ee' = [ee EXCEPT !.str = FALSE]
    BY DEF psxDma9, dmaSIF0, ForceStop, sif0Interrupt, EEsif0Interrupt
  <2>2. CASE \/ ee' = ee
             \/ ee' = [ee EXCEPT !.str = FALSE]
    BY <1>1, <2>2 DEF EeType
  <2>3. ASSUME NEW m \in Modes, NEW q \in NormalQwc \cup {0},
               ee' = [ee EXCEPT !.str = TRUE, !.mod = m, !.qwc = q, !.busy = TRUE]
        PROVE  ee' \in EeType
    <3>1. m \in {"NORMAL", "CHAIN"} /\ q \in Nat
      BY ProgramAssumption
    <3> QED BY <1>1, <2>3, <3>1 DEF EeType
  <2> QED BY <2>1, <2>2, <2>3
<1>5. TypeOK'
  BY <1>1, <1>2, <1>3, <1>4 DEF TypeOK
<1>6. QuadInv'
  BY <1>2, <1>3 DEF Inv, QuadInv
<1> QED BY <1>2, <1>5, <1>6 DEF Inv

THEOREM InvHolds == Spec => []Inv
<1>1. Inv /\ UNCHANGED vars => Inv'
  BY DEF Inv, TypeOK, QuadInv, vars
<1>2. Inv /\ [Next]_vars => Inv'
  BY <1>1, TurnInv, ProgramInv DEF Next
<1> QED BY InitInv, <1>2, PTL DEF Spec

\* Every variable keeps its type: no count goes negative.
THEOREM TypeCorrect == Spec => []TypeOK
  BY InvHolds, PTL DEF Inv

\* The tag is written when there is room for a word only, and yet the FIFO is never
\* over- or underrun.
THEOREM RoomIsHeld == Spec => []RoomHeld
  BY InvHolds, PTL DEF Inv, RoomHeld

-----------------------------------------------------------------------------
(* The stream. *)

LEMMA InitStream == Init => Stream!Init
<1>1. SUFFICES ASSUME Init PROVE Contents(fifo) = <<>>
  BY DEF Stream!Init
<1>2. PICK p \in Packets : fifo = Cleared([packet |-> p, at |-> 0])
  BY <1>1 DEF Init
<1>3. fifo.size = 0
  BY <1>2 DEF Cleared
<1> QED BY <1>3 DEF Contents

LEMMA SendStep ==
  ASSUME fifo \in Fifos(Words), Sound(fifo),
         NEW w \in Seq(Words), w # <<>>, Len(w) <= Free(fifo), fifo' = Write(fifo, w)
  PROVE  Stream!Send
<1>1. Contents(fifo)' = Contents(Write(fifo, w))
  BY DEF Contents
<1> QED BY <1>1, WriteAppends DEF Stream!Send

LEMMA ReceiveStep ==
  ASSUME fifo \in Fifos(Words), Sound(fifo), NEW n \in 0..fifo.size,
         Contents(fifo') = SubSeq(Contents(fifo), n + 1, fifo.size)
  PROVE  [Stream!Next]_(Contents(fifo))
<1>1. Contents(fifo) \in Seq(Words) /\ Len(Contents(fifo)) = fifo.size /\ fifo.size \in Nat
  BY ContentsType, WidthType
<1>2. Contents(fifo)' = SubSeq(Contents(fifo), n + 1, Len(Contents(fifo)))
  BY <1>1 DEF Contents
<1>3. CASE n = 0
  <2>1. SubSeq(Contents(fifo), 1, Len(Contents(fifo))) = Contents(fifo)
    BY <1>1
  <2> QED BY <1>2, <1>3, <2>1
<1>4. CASE n > 0
  <2>1. n \in 1..Len(Contents(fifo))
    BY <1>1, <1>4
  <2> QED BY <1>2, <2>1 DEF Stream!Receive, Stream!Next
<1> QED BY <1>3, <1>4

\* The FIFO and the code around it are, to the two processors, a bounded stream of
\* words: the detailed specification implements SifStream.
THEOREM ImplementsStream == Spec => StreamRefinement
<1>1. Inv /\ [Next]_vars => [Stream!Next]_(Contents(fifo))
  <2> SUFFICES ASSUME Inv, [Next]_vars PROVE [Stream!Next]_(Contents(fifo))
    OBVIOUS
  <2>1. fifo \in Fifos(Words) /\ Sound(fifo)
    BY DEF Inv, TypeOK
  <2>2. CASE fifo' = fifo
    BY <2>2 DEF Contents
  <2>3. CASE IopTurn
    <3>1. CASE \E w \in Seq(Words) : /\ w # <<>> /\ Len(w) <= Free(fifo)
                                     /\ fifo' = Write(fifo, w)
      BY <2>1, <3>1, SendStep DEF Stream!Next
    <3> QED BY <2>2, <2>3, <3>1, IopTurnFifo
  <2>4. CASE EeTurn
    BY <2>1, <2>2, <2>4, EeTurnFifo, ReceiveStep
  <2>5. CASE psxDma9 \/ dmaSIF0 \/ ForceStop \/ sif0Interrupt \/ EEsif0Interrupt
    BY <2>2, <2>5, ProgramInv
  <2> QED BY <2>2, <2>3, <2>4, <2>5 DEF Next, Turn, vars
<1> QED BY InitStream, InvHolds, <1>1, PTL DEF Spec, StreamRefinement, Stream!Spec

-----------------------------------------------------------------------------
(* The interrupts. *)

\* No channel is forgotten: one whose program waits is at work or its interrupt is on
\* the way, and none is thrown twice.
THEOREM ChannelsAccounted == Spec => []Accounted
<1>1. Init => Accounted
  BY DEF Init, Accounted
<1>2. Inv /\ Accounted /\ [Next]_vars => Accounted'
  <2> SUFFICES ASSUME Inv, Accounted, [Next]_vars PROVE Accounted'
    OBVIOUS
  <2>1. iop \in IopType /\ ee \in EeType /\ pending \subseteq {"EE", "IOP"}
    BY DEF Inv, TypeOK
  <2>2. CASE IopTurn
    <3>1. ee' = ee
      BY <2>2 DEF IopTurn
    <3>2. \/ iop'.chcr = iop.chcr /\ iop'.busy = iop.busy /\ pending' = pending
          \/ /\ iop.busy /\ ~iop'.busy /\ iop'.chcr = iop.chcr
             /\ pending' = pending \cup {"IOP"}
      BY <2>1, <2>2 DEF IopTurn, IopMay, HandleIOPTransfer, EndIOP, ProcessIOPTag,
                        WriteIOPtoFifo, IopType
    <3> QED BY <3>1, <3>2 DEF Accounted
  <2>3. CASE EeTurn
    <3>1. iop' = iop
      BY <2>3 DEF EeTurn
    <3>2. \/ ee'.str = ee.str /\ ee'.busy = ee.busy /\ pending' = pending
          \/ ~ee'.str /\ ee.busy /\ ee'.busy /\ pending' = pending
          \/ ~ee.str /\ ~ee'.str /\ pending' = pending
          \/ /\ ee.str /\ ee'.str /\ ee.busy /\ ~ee'.busy
             /\ pending' = pending \cup {"EE"}
      <4>1. CASE ~EeMay
        BY <2>3, <4>1 DEF EeTurn
      <4>2. CASE EeMay /\ ~ee.str
        BY <2>1, <2>3, <4>2 DEF EeTurn, EeMay, HandleEETransfer, EeType
      <4>3. CASE EeMay /\ ee.str /\ EndEE
        BY <2>1, <4>3 DEF EeMay, EndEE, EeType
      <4>4. CASE EeMay /\ ee.str /\ ProcessEETag /\ pending' = pending
        BY <2>1, <4>4 DEF EeMay, ProcessEETag, WriteFifoToEE, EeType
      <4>5. CASE EeMay /\ ee.str /\ WriteFifoToEE(ee, fifo) /\ pending' = pending
        BY <2>1, <4>5 DEF EeMay, WriteFifoToEE, EeType
      <4> QED BY <2>3, <4>1, <4>2, <4>3, <4>4, <4>5 DEF EeTurn, HandleEETransfer
    <3> QED BY <3>1, <3>2 DEF Accounted
  <2>4. CASE psxDma9
    BY <2>1, <2>4 DEF psxDma9, Accounted, IopType
  <2>5. CASE dmaSIF0
    BY <2>1, <2>5 DEF dmaSIF0, Accounted, EeType
  <2>6. CASE ForceStop
    BY <2>1, <2>6 DEF ForceStop, Accounted, EeType
  <2>7. CASE sif0Interrupt
    BY <2>1, <2>7 DEF sif0Interrupt, Accounted, IopType
  <2>8. CASE EEsif0Interrupt
    BY <2>1, <2>8 DEF EEsif0Interrupt, Accounted, EeType
  <2>9. CASE UNCHANGED vars
    BY <2>9 DEF vars, Accounted
  <2> QED BY <2>2, <2>3, <2>4, <2>5, <2>6, <2>7, <2>8, <2>9 DEF Next, Turn
<1> QED BY <1>1, <1>2, InvHolds, PTL DEF Spec

-----------------------------------------------------------------------------
(* The EE in step with the IOP *)

Sizes == [p \in Packets |-> Size(p)]

\* The word at the head of the line is the next one the EE looks for.
HeadRight(u, e) ==
  IF e.qwc = 0 THEN u.at = 0 ELSE u = [packet |-> e.packet, at |-> Size(e.packet) - 4 * e.qwc]

AgreedInv ==
  agreed =>
    /\ ee.mod = "CHAIN" /\ iop.packet \in Agreeing
    /\ ee.qwc # 0 => ee.packet \in Agreeing /\ ee.qwc <= ee.packet.qwc
    /\ ~ee.str \/ "EE" \in pending => ee.qwc = 0
    /\ InLine(Line, fifo.size + 1, Packets, Sizes)
    /\ \A i \in 1..fifo.size : Line[i].packet \in Agreeing
    /\ HeadRight(Line[1], ee)

LEMMA AgreeingSize ==
  ASSUME NEW p \in Packets
  PROVE  /\ Size(p) \in Nat /\ Sizes \in [Packets -> Nat] /\ Sizes[p] = Size(p)
         /\ p \in Agreeing => Size(p) = 4 + 4 * p.qwc
<1>1. \A q \in Packets : Size(q) \in Nat
  BY PacketFields, RoundUpQuad DEF Size
<1>2. Sizes \in [Packets -> Nat] /\ Sizes[p] = Size(p)
  BY <1>1 DEF Sizes
<1>3. ASSUME p \in Agreeing PROVE RoundUp(p.words) = 4 * p.qwc
  <2>1. p.words \in Nat /\ p.qwc \in Nat /\ 4 * p.qwc - p.words \in 0..3
    BY <1>3, PacketFields DEF Agreeing
  <2>2. \A w, q \in Nat : 4 * q - w \in 0..3 => (w + 3) \div 4 = q
    OBVIOUS
  <2>3. (p.words + 3) \div 4 = p.qwc
    BY <2>1, <2>2
  <2> QED BY <2>3 DEF RoundUp
<1> QED BY <1>1, <1>2, <1>3 DEF Size

LEMMA LineEnds ==
  ASSUME Inv
  PROVE  /\ fifo \in Fifos(Words) /\ Sound(fifo) /\ fifo.size \in Nat
         /\ Line[fifo.size + 1] = NextSent
         /\ \A i \in 1..fifo.size : Line[i] = Contents(fifo)[i]
         /\ fifo.size > 0 => Line[1] = fifo.data[fifo.readPos]
<1>1. fifo \in Fifos(Words) /\ Sound(fifo) /\ fifo.size \in Nat
  BY QuadRoom DEF Inv
<1>2. /\ Line[fifo.size + 1] = NextSent
      /\ \A i \in 1..fifo.size : Line[i] = Contents(fifo)[i]
  <2>1. PICK f, x, L : f = fifo /\ x = NextSent /\ L = Line
    OBVIOUS
  <2>2. L = Append(Contents(f), x)
    BY <2>1 DEF Line
  <2>3. f \in Fifos(Words) /\ Sound(f)
    BY <1>1, <2>1
  <2>4. L[f.size + 1] = x /\ \A i \in 1..f.size : L[i] = Contents(f)[i]
    BY <2>2, <2>3, LineInRing
  <2> QED BY <2>1, <2>4
<1>3. ASSUME fifo.size > 0 PROVE Line[1] = fifo.data[fifo.readPos]
  <2>1. Contents(fifo)[1] = fifo.data[Wrap(fifo.readPos + 1 - 1)]
    BY <1>1, <1>3, ContentsType
  <2>2. Wrap(fifo.readPos + 1 - 1) = fifo.readPos
    BY <1>1, FifoFields, WidthType DEF Wrap, Slots
  <2> QED BY <1>1, <1>2, <1>3, <2>1, <2>2
<1> QED BY <1>1, <1>2, <1>3

LEMMA NextLineEnds ==
  ASSUME fifo' \in Fifos(Words), Sound(fifo')
  PROVE  /\ Line'[fifo'.size + 1] = NextSent'
         /\ \A i \in 1..fifo'.size : Line'[i] = Contents(fifo')[i]
<1>1. PICK f, x, L : f = fifo' /\ x = NextSent' /\ L = Line'
  OBVIOUS
<1>2. L = Append(Contents(f), x)
  BY <1>1 DEF Line, Contents
<1>3. f \in Fifos(Words) /\ Sound(f)
  BY <1>1
<1>4. L[f.size + 1] = x /\ \A i \in 1..f.size : L[i] = Contents(f)[i]
  BY <1>2, <1>3, LineInRing
<1> QED BY <1>1, <1>4

\* The IOP's words make the line longer.
LEMMA SentWords ==
  ASSUME Inv, NEW w \in Seq(Words), Len(w) <= Free(fifo), fifo' = Write(fifo, w)
  PROVE  /\ fifo'.size = fifo.size + Len(w) /\ fifo.size \in Nat
         /\ Line[fifo.size + 1] = NextSent /\ Line'[fifo'.size + 1] = NextSent'
         /\ \A i \in 1..fifo.size : Line'[i] = Line[i]
         /\ \A k \in 1..Len(w) : Line'[fifo.size + k] = w[k]
<1>1. fifo \in Fifos(Words) /\ Sound(fifo) /\ fifo.size \in Nat
  BY LineEnds
<1>2. fifo' \in Fifos(Words) /\ Sound(fifo')
  BY <1>1, WriteSound
<1>3. PICK L, M : L = Line /\ M = Line'
  OBVIOUS
<1>4. L[fifo.size + 1] = NextSent /\ \A i \in 1..fifo.size : L[i] = Contents(fifo)[i]
  BY <1>3, LineEnds
<1>5. M[fifo'.size + 1] = NextSent' /\ \A i \in 1..fifo'.size : M[i] = Contents(fifo')[i]
  BY <1>2, <1>3, NextLineEnds
<1>6. /\ fifo'.size = fifo.size + Len(w)
      /\ \A i \in 1..fifo.size : M[i] = L[i]
      /\ \A k \in 1..Len(w) : M[fifo.size + k] = w[k]
  BY <1>1, <1>4, <1>5, LineWritten
<1> QED BY <1>1, <1>3, <1>4, <1>5, <1>6

LEMMA SentLine ==
  ASSUME InLine(Line, fifo.size + 1, Packets, Sizes), fifo.size \in Nat,
         NEW q \in Packets, NEW a \in Nat, NEW n \in Nat,
         fifo'.size = fifo.size + n,
         \A i \in 1..fifo.size : Line'[i] = Line[i],
         \A k \in 1..n : Line'[fifo.size + k] = [packet |-> q, at |-> a + k - 1],
         a + n <= Size(q),
         \/ Line[fifo.size + 1] = [packet |-> q, at |-> a] /\ a < Size(q)
         \/ Line[fifo.size + 1].at = 0 /\ a = 0,
         Line'[fifo'.size + 1] = [packet |-> q, at |-> IF a + n = Size(q) THEN 0 ELSE a + n]
  PROVE  InLine(Line', fifo'.size + 1, Packets, Sizes)
<1>1. PICK L, M : L = Line /\ M = Line'
  OBVIOUS
<1>2. PICK m \in Nat \ {0} : m = fifo.size + 1
  OBVIOUS
<1>3. InLine(L, m, Packets, Sizes) /\ \A i \in 1..(m - 1) : M[i] = L[i]
  BY <1>1, <1>2
<1>4. \A k \in 0..(n - 1) : M[m + k] = [packet |-> q, at |-> a + k]
  <2> TAKE k \in 0..(n - 1)
  <2>1. PICK j \in 1..n : j = k + 1
    OBVIOUS
  <2>2. m + k = fifo.size + j /\ a + j - 1 = a + k
    BY <1>2, <2>1
  <2> QED BY <1>1, <2>2
<1>5. Sizes \in [Packets -> Nat] /\ Sizes[q] = Size(q) /\ a + n <= Sizes[q]
  BY AgreeingSize
<1>6. m + n = fifo'.size + 1
  BY <1>2
<1>7. M[m + n] = [packet |-> q, at |-> IF a + n = Sizes[q] THEN 0 ELSE a + n]
  BY <1>1, <1>5, <1>6
<1>8. \/ L[m] = [packet |-> q, at |-> a] /\ a < Sizes[q]
      \/ L[m].at = 0 /\ a = 0
  BY <1>1, <1>2, <1>5
<1>9. InLine(M, m + n, Packets, Sizes)
  BY <1>3, <1>4, <1>5, <1>7, <1>8, LineGrows
<1> QED BY <1>1, <1>6, <1>9

\* The words the EE takes leave a line.
LEMMA TakenWords ==
  ASSUME Inv, NEW n \in 0..fifo.size, fifo' = Drop(fifo, n), NextSent' = NextSent
  PROVE  /\ fifo'.size = fifo.size - n /\ fifo.size \in Nat
         /\ \A i \in 1..(fifo'.size + 1) : Line'[i] = Line[i + n]
<1>1. fifo \in Fifos(Words) /\ Sound(fifo) /\ fifo.size \in Nat
  BY LineEnds
<1>2. fifo' \in Fifos(Words) /\ Sound(fifo')
  BY <1>1, DropSound
<1>3. PICK L, M : L = Line /\ M = Line'
  OBVIOUS
<1>4. L[fifo.size + 1] = NextSent /\ \A i \in 1..fifo.size : L[i] = Contents(fifo)[i]
  BY <1>3, LineEnds
<1>5. M[fifo'.size + 1] = NextSent' /\ \A i \in 1..fifo'.size : M[i] = Contents(fifo')[i]
  BY <1>2, <1>3, NextLineEnds
<1>6. fifo'.size = fifo.size - n /\ \A i \in 1..(fifo'.size + 1) : M[i] = L[i + n]
  BY <1>1, <1>4, <1>5, LineDropped
<1> QED BY <1>1, <1>3, <1>6

LEMMA TakenLine ==
  ASSUME InLine(Line, fifo.size + 1, Packets, Sizes), fifo.size \in Nat,
         NEW n \in 0..fifo.size, fifo'.size = fifo.size - n,
         \A i \in 1..(fifo'.size + 1) : Line'[i] = Line[i + n]
  PROVE  InLine(Line', fifo'.size + 1, Packets, Sizes)
<1>1. PICK L, M : L = Line /\ M = Line'
  OBVIOUS
<1>2. PICK m \in Nat : m = fifo.size + 1
  OBVIOUS
<1>3. m - n = fifo'.size + 1 /\ n \in 0..m
  BY <1>2
<1>4. InLine(L, m, Packets, Sizes) /\ \A i \in 1..(m - n) : M[i] = L[i + n]
  BY <1>1, <1>2, <1>3
<1>5. Sizes \in [Packets -> Nat]
  BY ProgramAssumption, AgreeingSize
<1>6. InLine(M, m - n, Packets, Sizes)
  BY <1>3, <1>4, <1>5, LineShrinks
<1> QED BY <1>1, <1>3, <1>6

\* Where r quadwords on from a place c quadwords before the end of its packet lead.
LEMMA HeadMoves ==
  ASSUME Inv, InLine(Line, fifo.size + 1, Packets, Sizes),
         NEW p \in Packets, NEW c \in Nat, c > 0, NEW r \in Nat, r <= c, 4 * r <= fifo.size,
         Line[1] = [packet |-> p, at |-> Size(p) - 4 * c],
         NEW e, e.packet = p, e.qwc = c - r
  PROVE  HeadRight(Line[4 * r + 1], e)
<1> DEFINE n == 4 * r
<1>1. /\ fifo.size \in Nat /\ Size(p) \in Nat /\ Sizes[p] = Size(p)
      /\ Sizes \in [Packets -> Nat]
  BY LineEnds, AgreeingSize
<1> HIDE DEF Line, Sizes
<1>2. CASE r = 0
  <2>1. Line[4 * r + 1] = Line[1] /\ e.qwc = c
    BY <1>2
  <2> QED BY <2>1 DEF HeadRight
<1>3. CASE r > 0
  <2>1. n \in 1..((fifo.size + 1) - 1) /\ n \in Nat
    BY <1>1, <1>3
  <2> HIDE DEF n
  <2>2. /\ Line[1].at + n < Sizes[Line[1].packet]
             => Line[n + 1] = [packet |-> Line[1].packet, at |-> Line[1].at + n]
        /\ Line[1].at + n = Sizes[Line[1].packet] => Line[n + 1].at = 0
    <3>1. fifo.size + 1 \in Nat
      BY <1>1
    <3> QED BY <1>1, <2>1, <3>1, LineAhead
  <2>3. Line[1].at = Size(p) - 4 * c /\ Line[1].packet = p
    OBVIOUS
  <2>4. Line[1].at + n = Size(p) - 4 * (c - r)
    BY <1>1, <2>3 DEF n
  <2>5. CASE r = c
    <3>1. Line[n + 1].at = 0 /\ e.qwc = 0
      BY <1>1, <2>2, <2>3, <2>4, <2>5
    <3> QED BY <3>1 DEF HeadRight, n
  <2>6. CASE r < c
    <3>1. Line[n + 1] = [packet |-> p, at |-> Size(p) - 4 * (c - r)] /\ e.qwc # 0
      BY <1>1, <2>2, <2>3, <2>4, <2>6
    <3> QED BY <3>1 DEF HeadRight, n
  <2> QED BY <2>5, <2>6
<1> QED BY <1>2, <1>3

LEMMA InitAgreed == AgreedInit => AgreedInv
<1> SUFFICES ASSUME AgreedInit, agreed PROVE AgreedInv
  BY DEF AgreedInv
<1>0. Init
  BY DEF AgreedInit
<1>1. Inv /\ fifo.size = 0 /\ iop.counter = 0 /\ ee.qwc = 0 /\ ee.mod = "CHAIN"
  <2>1. fifo.size = 0 /\ iop.counter = 0 /\ ee.qwc = 0 /\ ee.mod = "CHAIN"
    BY <1>0 DEF Init, Cleared
  <2> QED BY <1>0, <2>1, InitInv
<1>2. iop.packet \in Packets /\ iop.packet \in Agreeing
  BY DEF AgreedInit, Agreeing
<1>3. Line[1] = [packet |-> iop.packet, at |-> 0]
  BY <1>1, LineEnds DEF NextSent
<1>4. InLine(Line, fifo.size + 1, Packets, Sizes)
  BY <1>1, <1>2, <1>3 DEF InLine
<1> QED BY <1>1, <1>2, <1>3, <1>4 DEF AgreedInv, HeadRight

\* A turn of the IOP leaves the head of the line, and its end is as it was.
LEMMA IopAgreed ==
  ASSUME Inv, AgreedInv, agreed, IopTurn, iop'.packet \in Agreeing
  PROVE  /\ InLine(Line', fifo'.size + 1, Packets, Sizes)
         /\ \A i \in 1..fifo'.size : Line'[i].packet \in Agreeing
         /\ HeadRight(Line'[1], ee)
<1>1. /\ fifo \in Fifos(Words) /\ fifo.size \in Nat /\ Free(fifo) \in Nat
      /\ (Free(fifo) > 0 => Free(fifo) >= 4)
  BY QuadRoom DEF Inv
<1>2. /\ iop \in IopType /\ iop.counter \in Nat /\ iop.packet \in Packets
      /\ iop.counter <= RoundUp(iop.packet.words) /\ ee.qwc \in Nat /\ ee.packet \in Packets
  BY DEF Inv, TypeOK, IopType, EeType, QuadInv
<1>3. /\ InLine(Line, fifo.size + 1, Packets, Sizes) /\ HeadRight(Line[1], ee)
      /\ \A i \in 1..fifo.size : Line[i].packet \in Agreeing
      /\ ee.qwc # 0 => ee.packet \in Agreeing /\ ee.qwc <= ee.packet.qwc
  BY DEF AgreedInv
<1>4. /\ Line[fifo.size + 1] = NextSent
      /\ NextSent.at = IF iop.counter = 0 THEN 0 ELSE Size(iop.packet) - iop.counter
      /\ NextSent.packet = iop.packet
  BY LineEnds DEF NextSent
\* Words of one packet, from the place of the next word on.
<1>5. ASSUME NEW q \in Agreeing, NEW a \in Nat, NEW n \in Nat, n > 0, n <= Free(fifo),
             fifo' = Write(fifo, Stretch(q, a, n)), a + n <= Size(q),
             \/ NextSent = [packet |-> q, at |-> a] /\ a < Size(q)
             \/ NextSent.at = 0 /\ a = 0,
             NextSent' = [packet |-> q, at |-> IF a + n = Size(q) THEN 0 ELSE a + n]
      PROVE  /\ InLine(Line', fifo'.size + 1, Packets, Sizes)
             /\ \A i \in 1..fifo'.size : Line'[i].packet \in Agreeing
             /\ HeadRight(Line'[1], ee)
  <2>1. PICK w \in Seq(Words) : w = Stretch(q, a, n) /\ Len(w) = n
    BY StretchType DEF Agreeing
  <2>2. \A k \in 1..n : w[k] = [packet |-> q, at |-> a + k - 1]
    BY <2>1 DEF Stretch
  <2>3. /\ fifo'.size = fifo.size + n /\ Line'[fifo'.size + 1] = NextSent'
        /\ \A i \in 1..fifo.size : Line'[i] = Line[i]
        /\ \A k \in 1..n : Line'[fifo.size + k] = [packet |-> q, at |-> a + k - 1]
    BY <1>5, <2>1, <2>2, SentWords
  <2>4. InLine(Line', fifo'.size + 1, Packets, Sizes)
    BY <1>1, <1>3, <1>4, <1>5, <2>3, SentLine DEF Agreeing
  <2>5. \A i \in 1..fifo'.size : Line'[i].packet \in Agreeing
    <3> TAKE i \in 1..fifo'.size
    <3>1. CASE i \in 1..fifo.size
      BY <1>3, <2>3, <3>1
    <3>2. CASE i \notin 1..fifo.size
      <4>1. i - fifo.size \in 1..n /\ i = fifo.size + (i - fifo.size)
        BY <1>1, <2>3, <3>2
      <4>2. PICK k \in 1..n : i = fifo.size + k
        BY <4>1
      <4>3. Line'[fifo.size + k] = [packet |-> q, at |-> a + k - 1]
        BY <2>3
      <4> QED BY <4>2, <4>3
    <3> QED BY <3>1, <3>2
  <2>6. HeadRight(Line'[1], ee)
    <3>1. CASE fifo.size > 0
      BY <1>1, <1>3, <2>3, <3>1
    <3>2. CASE fifo.size = 0
      <4>1. Line'[1] = [packet |-> q, at |-> a] /\ Line[1] = NextSent
        BY <1>4, <1>5, <2>3, <3>2
      <4>2. CASE NextSent = [packet |-> q, at |-> a]
        BY <1>3, <4>1, <4>2
      <4>3. CASE NextSent.at = 0 /\ a = 0
        <5>1. ee.qwc = 0
          BY <1>2, <1>3, <4>1, <4>3, AgreeingSize, PacketFields DEF HeadRight
        <5> QED BY <4>1, <4>3, <5>1 DEF HeadRight
      <4> QED BY <1>5, <4>2, <4>3
    <3> QED BY <1>1, <3>1, <3>2
  <2> QED BY <2>4, <2>5, <2>6
<1>6. CASE fifo' = fifo /\ iop'.counter = iop.counter /\ iop'.packet = iop.packet
  <2>1. Line' = Line
    BY <1>6 DEF Line, Contents, NextSent
  <2> QED BY <1>3, <1>6, <2>1
<1>7. CASE IopMay /\ iop.counter = 0 /\ ~iop.end /\ ProcessIOPTag
  <2>1. PICK p \in Packets :
          /\ fifo' = Write(fifo, Stretch(p, 0, 4))
          /\ iop' = [iop EXCEPT !.packet = p, !.counter = RoundUp(p.words),
                                !.end = @ \/ p.iopEnd]
    BY <1>7 DEF ProcessIOPTag
  <2>2. iop'.packet = p /\ iop'.counter = RoundUp(p.words) /\ p \in Agreeing
    BY <1>2, <2>1 DEF IopType
  <2>3. RoundUp(p.words) \in Nat /\ Size(p) = 4 + RoundUp(p.words)
    BY PacketFields, RoundUpQuad DEF Size
  <2>4. 4 <= Free(fifo) /\ NextSent.at = 0
    BY <1>1, <1>4, <1>7 DEF IopMay
  <2>5. NextSent' = [packet |-> p, at |-> IF 0 + 4 = Size(p) THEN 0 ELSE 0 + 4]
    BY <2>2, <2>3 DEF NextSent
  <2>6. 0 + 4 <= Size(p)
    BY <2>3
  <2> QED BY <1>5, <2>1, <2>2, <2>4, <2>5, <2>6
<1>8. CASE IopMay /\ iop.counter > 0 /\ WriteIOPtoFifo
  <2> DEFINE n == Smaller(iop.counter, Free(fifo))
             a == 4 + RoundUp(iop.packet.words) - iop.counter
  <2>1. fifo' = Write(fifo, Stretch(iop.packet, a, n)) /\ iop' = [iop EXCEPT !.counter = @ - n]
    BY <1>8 DEF WriteIOPtoFifo
  <2>2. iop'.packet = iop.packet /\ iop'.counter = iop.counter - n
    BY <1>2, <2>1 DEF IopType
  <2>3. n \in Nat /\ n > 0 /\ n <= Free(fifo) /\ n <= iop.counter
    BY <1>1, <1>2, <1>8 DEF IopMay, Smaller
  <2>4. /\ a = Size(iop.packet) - iop.counter /\ Size(iop.packet) \in Nat /\ a \in Nat
        /\ iop.packet \in Agreeing
    BY <1>2, <2>2, PacketFields, RoundUpQuad DEF Size
  <2>5. NextSent = [packet |-> iop.packet, at |-> a]
    BY <1>2, <1>8, <2>4 DEF NextSent
  <2> HIDE DEF n, a
  <2>6. a + n <= Size(iop.packet) /\ a < Size(iop.packet)
    BY <1>2, <1>8, <2>3, <2>4
  <2>7. iop'.counter = 0 <=> a + n = Size(iop.packet)
    BY <1>2, <2>2, <2>3, <2>4
  <2>8. Size(iop.packet) - iop'.counter = a + n
    BY <1>2, <2>2, <2>3, <2>4
  <2>9. NextSent' = [packet |-> iop.packet,
                     at |-> IF iop'.counter = 0 THEN 0 ELSE Size(iop.packet) - iop'.counter]
    BY <2>2 DEF NextSent
  <2>10. NextSent' = [packet |-> iop.packet,
                      at |-> IF a + n = Size(iop.packet) THEN 0 ELSE a + n]
    BY <2>7, <2>8, <2>9
  <2> QED BY <1>5, <2>1, <2>3, <2>4, <2>5, <2>6, <2>10
<1>9. CASE EndIOP
  BY <1>2, <1>6, <1>9 DEF EndIOP, IopType
<1> QED BY <1>6, <1>7, <1>8, <1>9 DEF IopTurn, HandleIOPTransfer

\* A turn of the EE that takes n words goes on with the transfer e.
LEMMA EeTakes ==
  ASSUME Inv, AgreedInv, agreed, iop' = iop,
         NEW n \in 0..fifo.size, fifo' = Drop(fifo, n), HeadRight(Line[n + 1], ee')
  PROVE  /\ InLine(Line', fifo'.size + 1, Packets, Sizes)
         /\ \A i \in 1..fifo'.size : Line'[i].packet \in Agreeing
         /\ HeadRight(Line'[1], ee')
<1>1. NextSent' = NextSent
  BY DEF NextSent
<1>2. /\ fifo'.size = fifo.size - n /\ fifo.size \in Nat
      /\ \A i \in 1..(fifo'.size + 1) : Line'[i] = Line[i + n]
  BY <1>1, TakenWords
<1>3. /\ InLine(Line, fifo.size + 1, Packets, Sizes)
      /\ \A i \in 1..fifo.size : Line[i].packet \in Agreeing
  BY DEF AgreedInv
<1>4. InLine(Line', fifo'.size + 1, Packets, Sizes)
  BY <1>2, <1>3, TakenLine
<1>5. ASSUME NEW i \in 1..fifo'.size PROVE Line'[i].packet \in Agreeing
  <2>1. i + n \in 1..fifo.size /\ i \in 1..(fifo'.size + 1)
    BY <1>2
  <2> QED BY <1>2, <1>3, <2>1
<1>6. 1 \in 1..(fifo'.size + 1) /\ 1 + n = n + 1
  BY <1>2
<1>7. Line'[1] = Line[n + 1]
  BY <1>2, <1>6
<1> QED BY <1>4, <1>5, <1>7

LEMMA EeAgreed ==
  ASSUME Inv, Accounted, AgreedInv, agreed, EeTurn, ~CutShort
  PROVE  AgreedInv'
<1>1. /\ fifo \in Fifos(Words) /\ Sound(fifo) /\ fifo.size \in Nat /\ iop' = iop
      /\ Line[1].packet \in Packets
      /\ InLine(Line, fifo.size + 1, Packets, Sizes)
  <2>1. InLine(Line, fifo.size + 1, Packets, Sizes)
    BY DEF AgreedInv
  <2>2. fifo \in Fifos(Words) /\ Sound(fifo) /\ fifo.size \in Nat
    BY LineEnds
  <2>3. Line[1].packet \in Packets
    BY <2>1, <2>2 DEF InLine
  <2> QED BY <2>1, <2>2, <2>3 DEF EeTurn
<1>2. /\ ee \in EeType /\ ee.qwc \in Nat /\ ee.packet \in Packets /\ ee.busy \in BOOLEAN
      /\ ee.str \in BOOLEAN /\ ee.end \in BOOLEAN /\ iop.packet \in Agreeing
  BY DEF Inv, TypeOK, EeType, AgreedInv
<1>3. /\ ee.mod = "CHAIN" /\ HeadRight(Line[1], ee)
      /\ ee.qwc # 0 => ee.packet \in Agreeing /\ ee.qwc <= ee.packet.qwc
      /\ ~ee.str \/ "EE" \in pending => ee.qwc = 0
      /\ \A i \in 1..fifo.size : Line[i].packet \in Agreeing
  BY DEF AgreedInv
\* What is left to show, once the words are taken.
<1>4. ASSUME NEW n \in 0..fifo.size, fifo' = Drop(fifo, n), HeadRight(Line[n + 1], ee'),
             ee'.mod = ee.mod, ee'.qwc # 0 => ee'.packet \in Agreeing /\ ee'.qwc <= ee'.packet.qwc,
             ~ee'.str \/ "EE" \in pending' => ee'.qwc = 0
      PROVE  AgreedInv'
  BY <1>1, <1>2, <1>3, <1>4, EeTakes DEF AgreedInv
<1>5. ASSUME fifo' = fifo, ee'.qwc = ee.qwc, ee'.packet = ee.packet, ee'.mod = ee.mod,
             ~ee'.str \/ "EE" \in pending' => ee'.qwc = 0
      PROVE  AgreedInv'
  <2>1. Line' = Line
    BY <1>1, <1>5 DEF Line, Contents, NextSent
  <2>2. HeadRight(Line[1], ee')
    BY <1>3, <1>5 DEF HeadRight
  <2> QED BY <1>1, <1>2, <1>3, <1>5, <2>1, <2>2 DEF AgreedInv
<1>6. CASE ~EeMay
  BY <1>3, <1>5, <1>6 DEF EeTurn
<1>7. CASE EeMay /\ ~ee.str
  <2>1. ee' = [ee EXCEPT !.end = FALSE, !.busy = FALSE] /\ UNCHANGED <<fifo, pending>>
    BY <1>7 DEF EeTurn, HandleEETransfer
  <2> QED BY <1>2, <1>3, <1>5, <1>7, <2>1 DEF EeType
<1>8. CASE EeMay /\ ee.str /\ ee.qwc = 0 /\ EndEE
  BY <1>2, <1>3, <1>5, <1>8 DEF EndEE, EeType
\* The step from c quadwords before the end of the packet p to c - r before it.
<1>9. ASSUME EeMay, ee.str, pending' = pending,
             NEW p \in Agreeing, NEW c \in Nat, NEW r \in Nat, c > 0, r <= c, 4 * r <= fifo.size,
             c - r <= p.qwc,
             Line[1] = [packet |-> p, at |-> Size(p) - 4 * c],
             fifo' = Drop(fifo, 4 * r), ee'.packet = p, ee'.qwc = c - r,
             ee'.str = ee.str, ee'.mod = ee.mod
      PROVE  AgreedInv'
  <2>1. "EE" \notin pending
    BY <1>9 DEF Accounted, EeMay
  <2>2. HeadRight(Line[4 * r + 1], ee')
    BY <1>1, <1>9, HeadMoves DEF Agreeing
  <2>3. 4 * r \in 0..fifo.size
    BY <1>1, <1>9
  <2> QED BY <1>4, <1>9, <2>1, <2>2, <2>3
<1>10. CASE EeMay /\ ee.str /\ ee.qwc > 0 /\ WriteFifoToEE(ee, fifo) /\ pending' = pending
  <2> DEFINE r == Smaller(ee.qwc, fifo.size \div 4)
  <2>1. \/ fifo' = Drop(fifo, 4 * r) /\ ee' = [ee EXCEPT !.qwc = @ - r]
        \/ fifo' = fifo /\ ee' = [ee EXCEPT !.str = FALSE]
    BY <1>10 DEF WriteFifoToEE
  <2>2. r \in Nat /\ r <= ee.qwc /\ 4 * r <= fifo.size
    BY <1>1, <1>2, WholeQuads
  <2> HIDE DEF r
  <2>3. fifo' = Drop(fifo, 4 * r) /\ ee' = [ee EXCEPT !.qwc = @ - r]
    <3>1. "EE" \notin pending
      BY <1>10 DEF Accounted, EeMay
    <3>2. ee' # [ee EXCEPT !.str = FALSE]
      BY <1>2, <1>10, <3>1 DEF CutShort, EeType
    <3> QED BY <2>1, <3>2
  <2>4. ee'.packet = ee.packet /\ ee'.qwc = ee.qwc - r /\ ee'.str = ee.str /\ ee'.mod = ee.mod
    BY <1>2, <2>3 DEF EeType
  <2>5. Line[1] = [packet |-> ee.packet, at |-> Size(ee.packet) - 4 * ee.qwc]
    BY <1>2, <1>3, <1>10 DEF HeadRight
  <2>6. ee.packet \in Agreeing /\ ee.qwc - r <= ee.packet.qwc
    BY <1>2, <1>3, <1>10, <2>2, PacketFields
  <2> QED BY <1>2, <1>9, <1>10, <2>2, <2>3, <2>4, <2>5, <2>6
<1>11. CASE EeMay /\ ee.str /\ ee.qwc = 0 /\ fifo.size >= 4 /\ ProcessEETag /\ pending' = pending
  <2>1. Line[1].at = 0 /\ Line[1] = Front(fifo, 1)[1] /\ Line[1].packet \in Agreeing
    <3>1. Line[1] = fifo.data[fifo.readPos]
      BY <1>1, <1>11, LineEnds
    <3>2. Front(fifo, 1)[1] = fifo.data[fifo.readPos]
      BY <1>1, FifoFields, WidthType DEF Front, Slots, Smaller
    <3> QED BY <1>1, <1>3, <1>11, <3>1, <3>2 DEF HeadRight
  <2> DEFINE p == Line[1].packet
             e == [ee EXCEPT !.packet = p, !.qwc = p.qwc, !.end = @ \/ p.eeEnd]
             f == Drop(fifo, 4)
             r == Smaller(p.qwc, f.size \div 4)
  <2>2. IF e.qwc > 0 /\ f.size > 0 THEN WriteFifoToEE(e, f) ELSE ee' = e /\ fifo' = f
    <3>1. HeadTags = {p}
      BY <2>1 DEF HeadTags
    <3>2. \E q \in HeadTags :
            LET eq == [ee EXCEPT !.packet = q, !.qwc = q.qwc, !.end = @ \/ q.eeEnd]
            IN IF eq.qwc > 0 /\ f.size > 0 THEN WriteFifoToEE(eq, f) ELSE ee' = eq /\ fifo' = f
      BY <1>11 DEF ProcessEETag
    <3> QED BY <3>1, <3>2
  <2>3. /\ p \in Packets /\ p.qwc \in Nat /\ Size(p) = 4 + 4 * p.qwc
        /\ e \in EeType /\ e.qwc = p.qwc /\ e.packet = p /\ e.str = ee.str /\ e.mod = ee.mod
    BY <1>1, <1>2, <2>1, PacketFields, AgreeingSize DEF EeType
  <2>4. f.size = fifo.size - 4 /\ 4 \in 0..fifo.size
    BY <1>1, <1>11, DropSound
  <2>5. Line[1] = [packet |-> p, at |-> Size(p) - 4 * (p.qwc + 1)]
    <3>1. Line[1] = [packet |-> p, at |-> 0]
      BY <1>1, <2>1, LineType, AgreeingSize
    <3> QED BY <2>3, <3>1
  <2> HIDE DEF p, e, f
  <2>6. r \in Nat /\ r <= p.qwc /\ 4 * r <= f.size
    <3>1. f.size \in Nat
      BY <1>1, <2>4
    <3> QED BY <2>3, <3>1, WholeQuads
  <2>7. CASE ~(e.qwc > 0 /\ f.size > 0)
    <3>1. ee' = e /\ fifo' = Drop(fifo, 4 * 1)
      BY <2>2, <2>7 DEF f
    <3>2. /\ ee'.packet = p /\ ee'.qwc = (p.qwc + 1) - 1
          /\ ee'.str = ee.str /\ ee'.mod = ee.mod
      BY <2>3, <3>1
    <3>3. /\ 1 \in Nat /\ p.qwc + 1 \in Nat /\ p.qwc + 1 > 0 /\ 1 <= p.qwc + 1
          /\ 4 * 1 <= fifo.size /\ (p.qwc + 1) - 1 <= p.qwc
      BY <1>11, <2>3
    <3>4. p \in Agreeing
      BY <2>1 DEF p
    <3> QED BY <1>9, <1>11, <2>5, <3>1, <3>2, <3>3, <3>4
  <2>8. CASE e.qwc > 0 /\ f.size > 0
    <3>1. \/ fifo' = Drop(f, 4 * r) /\ ee' = [e EXCEPT !.qwc = @ - r]
          \/ fifo' = f /\ ee' = [e EXCEPT !.str = FALSE]
      BY <2>2, <2>3, <2>8 DEF WriteFifoToEE
    <3>2. fifo' = Drop(f, 4 * r) /\ ee' = [e EXCEPT !.qwc = @ - r]
      <4>1. "EE" \notin pending
        BY <1>11 DEF Accounted, EeMay
      <4>2. ee' # [e EXCEPT !.str = FALSE]
        BY <1>2, <1>11, <2>3, <4>1 DEF CutShort, EeType
      <4> QED BY <3>1, <4>2
    <3> HIDE DEF r
    <3>3. fifo' = Drop(fifo, 4 * (r + 1))
      <4>1. 4 + 4 * r = 4 * (r + 1) /\ 4 + 4 * r <= fifo.size /\ 4 * r \in Nat
        BY <1>1, <2>4, <2>6
      <4> QED BY <1>1, <3>2, <4>1, DropTwice DEF f
    <3>4. /\ ee'.packet = p /\ ee'.qwc = (p.qwc + 1) - (r + 1)
          /\ ee'.str = ee.str /\ ee'.mod = ee.mod
      BY <2>3, <2>6, <3>2 DEF EeType
    <3>5. /\ r + 1 \in Nat /\ p.qwc + 1 \in Nat /\ p.qwc + 1 > 0 /\ r + 1 <= p.qwc + 1
          /\ 4 * (r + 1) <= fifo.size /\ (p.qwc + 1) - (r + 1) <= p.qwc
      BY <1>1, <2>3, <2>4, <2>6
    <3>6. p \in Agreeing
      BY <2>1 DEF p
    <3> QED BY <1>9, <1>11, <2>5, <3>3, <3>4, <3>5, <3>6
  <2> QED BY <2>7, <2>8
<1> QED BY <1>2, <1>3, <1>6, <1>7, <1>8, <1>10, <1>11 DEF EeTurn, HandleEETransfer

\* The programs leave the line alone, and start and stop only what is at its beginning.
LEMMA ProgramAgreed ==
  ASSUME Inv, Accounted, AgreedInv, agreed, ~CutShort, ee'.mod = "CHAIN",
         psxDma9 \/ dmaSIF0 \/ ForceStop \/ sif0Interrupt \/ EEsif0Interrupt \/ UNCHANGED vars
  PROVE  AgreedInv'
<1>1. /\ ee \in EeType /\ iop \in IopType /\ pending \subseteq {"EE", "IOP"}
  BY DEF Inv, TypeOK
<1>2. /\ ee.mod = "CHAIN" /\ HeadRight(Line[1], ee) /\ iop.packet \in Agreeing
      /\ ee.qwc # 0 => ee.packet \in Agreeing /\ ee.qwc <= ee.packet.qwc
      /\ ~ee.str \/ "EE" \in pending => ee.qwc = 0
      /\ \A i \in 1..fifo.size : Line[i].packet \in Agreeing
      /\ InLine(Line, fifo.size + 1, Packets, Sizes)
  BY DEF AgreedInv
<1>3. ASSUME fifo' = fifo, iop'.packet = iop.packet, iop'.counter = iop.counter,
             ee'.qwc = ee.qwc, ee'.packet = ee.packet,
             ~ee'.str \/ "EE" \in pending' => ee'.qwc = 0
      PROVE  AgreedInv'
  <2>1. Line' = Line
    BY <1>3 DEF Line, Contents, NextSent
  <2>2. HeadRight(Line[1], ee')
    BY <1>2, <1>3 DEF HeadRight
  <2> QED BY <1>2, <1>3, <2>1, <2>2 DEF AgreedInv
<1>4. CASE psxDma9
  BY <1>1, <1>2, <1>3, <1>4 DEF psxDma9, IopType
<1>5. CASE dmaSIF0
  <2>1. PICK m \in Modes : \E q \in IF m = "NORMAL" THEN NormalQwc ELSE {0} :
          ee' = [ee EXCEPT !.str = TRUE, !.mod = m, !.qwc = q, !.busy = TRUE]
    BY <1>5 DEF dmaSIF0
  <2>2. m = "CHAIN"
    BY <1>1, <2>1 DEF EeType
  <2>3. ee' = [ee EXCEPT !.str = TRUE, !.mod = m, !.qwc = 0, !.busy = TRUE]
    BY <2>1, <2>2
  <2>4. ee.qwc = 0 /\ UNCHANGED <<fifo, iop, pending>>
    BY <1>2, <1>5 DEF dmaSIF0
  <2>5. ee'.qwc = 0 /\ ee'.packet = ee.packet
    BY <1>1, <2>3 DEF EeType
  <2> QED BY <1>3, <2>4, <2>5
<1>6. CASE ForceStop
  <2>1. "EE" \in pending
    BY <1>1, <1>6 DEF ForceStop, CutShort, EeType
  <2> QED BY <1>1, <1>2, <1>3, <1>6, <2>1 DEF ForceStop, EeType
<1>7. CASE sif0Interrupt
  BY <1>1, <1>2, <1>3, <1>7 DEF sif0Interrupt, IopType
<1>8. CASE EEsif0Interrupt
  BY <1>1, <1>2, <1>3, <1>8 DEF EEsif0Interrupt, EeType
<1>9. CASE UNCHANGED vars
  BY <1>2, <1>3, <1>9 DEF vars
<1> QED BY <1>4, <1>5, <1>6, <1>7, <1>8, <1>9

\* As long as the two programs agree on every packet and no transfer is cut short, the
\* EE finds each tag where the IOP has put it, and between two tags all the words of
\* the packet in their order: for a FIFO of any size and packets of any length.
THEOREM EeStaysInStep == AgreedSpec => []AgreedInStep
<1>1. AgreedSpec => Spec
  <2>1. AgreedInit => Init
    BY DEF AgreedInit
  <2>2. [AgreedNext]_<<vars, agreed>> => [Next]_vars
    BY DEF AgreedNext, vars
  <2> QED BY <2>1, <2>2, PTL DEF AgreedSpec, Spec
<1>2. Inv /\ Accounted /\ AgreedInv /\ [AgreedNext]_<<vars, agreed>> => AgreedInv'
  <2> SUFFICES ASSUME Inv, Accounted, AgreedInv, [AgreedNext]_<<vars, agreed>>, agreed'
               PROVE  AgreedInv'
    BY DEF AgreedInv
  <2>1. CASE UNCHANGED <<vars, agreed>>
    <3>1. UNCHANGED vars /\ agreed /\ ee' = ee
      BY <2>1 DEF vars
    <3>2. ~CutShort /\ ee'.mod = "CHAIN"
      BY <3>1 DEF CutShort, AgreedInv
    <3> QED BY <3>1, <3>2, ProgramAgreed
  <2>2. CASE AgreedNext
    <3>1. agreed /\ iop'.packet \in Agreeing /\ ee'.mod = "CHAIN" /\ ~CutShort /\ Next
      BY <2>2 DEF AgreedNext
    <3>2. CASE IopTurn
      <4>1. /\ ee' = ee
            /\ pending' = pending \/ pending' = pending \cup {"IOP"}
        BY <3>2 DEF IopTurn, HandleIOPTransfer, EndIOP, ProcessIOPTag, WriteIOPtoFifo
      <4>2. "EE" \in pending' <=> "EE" \in pending
        BY <4>1
      <4>3. /\ InLine(Line', fifo'.size + 1, Packets, Sizes)
            /\ \A i \in 1..fifo'.size : Line'[i].packet \in Agreeing
            /\ HeadRight(Line'[1], ee)
        BY <3>1, <3>2, IopAgreed
      <4> QED BY <3>1, <4>1, <4>2, <4>3 DEF AgreedInv
    <3>3. CASE EeTurn
      BY <3>1, <3>3, EeAgreed
    <3> QED BY <3>1, <3>2, <3>3, ProgramAgreed DEF Next, Turn
  <2> QED BY <2>1, <2>2
<1>3. Inv /\ AgreedInv => AgreedInStep
  <2> SUFFICES ASSUME Inv, AgreedInv, agreed PROVE InStep
    BY DEF AgreedInStep
  <2>1. /\ InLine(Line, fifo.size + 1, Packets, Sizes) /\ HeadRight(Line[1], ee)
        /\ fifo.size \in Nat
    BY LineEnds DEF AgreedInv
  <2>2. ASSUME NEW i \in 1..fifo.size PROVE Follows(Line[i], Line[i + 1])
    <3>1. fifo.size + 1 \in Nat /\ i \in 1..((fifo.size + 1) - 1)
      BY <2>1
    <3>2. IF Line[i].at + 1 < Sizes[Line[i].packet]
            THEN Line[i + 1] = [Line[i] EXCEPT !.at = @ + 1] ELSE Line[i + 1].at = 0
      BY <2>1, <3>1, LineFollows, AgreeingSize, ProgramAssumption
    <3>3. Line[i].packet \in Packets
      BY <2>1, <3>1 DEF InLine
    <3>4. Sizes[Line[i].packet] = Size(Line[i].packet)
      BY <3>3, AgreeingSize
    <3> QED BY <3>2, <3>4 DEF Follows
  <2> QED BY <2>1, <2>2 DEF InStep, HeadRight
<1> QED BY <1>1, <1>2, <1>3, InitAgreed, InvHolds, ChannelsAccounted, PTL DEF AgreedSpec
=============================================================================
