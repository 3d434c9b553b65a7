----------------------------- MODULE Sif1Proofs -----------------------------
(***************************************************************************)
(* SIF1 for a FIFO of any size and any packets, matched or not: the ring   *)
(* is never over- or underrun, and it is the stream it stands for.  With   *)
(* chcr.TTE the two words of an EE tag are written when there is room for  *)
(* one: that is safe while the IOP's counts are even, since then the FIFO  *)
(* holds an even number of words.                                          *)
(***************************************************************************)
EXTENDS Sif1Agreed, SifFifoProofs

Even(n) == \E k \in Nat : n = 2 * k

\* The assumption on the program that uses TTE.
EvenCounts == TRUE \in Ttes => \A p \in Packets : Even(p.words)

EvenInv ==
  /\ ee.tte => TRUE \in Ttes
  /\ TRUE \in Ttes => Even(fifo.size) /\ Even(iop.counter)

Inv == TypeOK /\ Sound(fifo) /\ EvenInv

-----------------------------------------------------------------------------
(* Arithmetic. *)

LEMMA EvenSum ==
  ASSUME NEW x \in Nat, NEW y \in Nat, Even(x), Even(y)
  PROVE  Even(x + y) /\ (y <= x => Even(x - y))
<1>1. PICK j \in Nat : x = 2 * j
  BY DEF Even
<1>2. PICK k \in Nat : y = 2 * k
  BY DEF Even
<1>3. x + y = 2 * (j + k) /\ j + k \in Nat
  BY <1>1, <1>2
<1>4. y <= x => x - y = 2 * (j - k) /\ j - k \in Nat
  BY <1>1, <1>2
<1> QED BY <1>3, <1>4 DEF Even

LEMMA EvenPositive ==
  ASSUME NEW x \in Nat, Even(x), x > 0
  PROVE  x >= 2
<1>1. PICK k \in Nat : x = 2 * k
  BY DEF Even
<1> QED BY <1>1

LEMMA EvenConstants == Even(0) /\ Even(2) /\ Even(4) /\ Even(FIFO_SIF_W)
<1>1. /\ 0 = 2 * 0 /\ 2 = 2 * 1 /\ 4 = 2 * 2 /\ FIFO_SIF_W = 2 * (2 * FifoQuads)
      /\ 2 * FifoQuads \in Nat
  BY FifoAssumption DEF FIFO_SIF_W
<1> QED BY <1>1 DEF Even

LEMMA EvenFour ==
  ASSUME NEW k \in Nat
  PROVE  Even(4 * k)
<1>1. 4 * k = 2 * (2 * k) /\ 2 * k \in Nat
  OBVIOUS
<1> QED BY <1>1 DEF Even

LEMMA StretchType ==
  ASSUME NEW p \in Packets, NEW from \in Int, NEW n \in Nat
  PROVE  Stretch(p, from, n) \in Seq(Words) /\ Len(Stretch(p, from, n)) = n
<1>1. \A i \in 1..n : [packet |-> p, at |-> from + i - 1] \in Words
  BY DEF Words
<1> QED BY <1>1 DEF Stretch

LEMMA PacketFields ==
  ASSUME NEW p \in Packets
  PROVE  p.words \in Nat /\ p.qwc \in Nat /\ p.iopEnd \in BOOLEAN /\ p.eeEnd \in BOOLEAN
  BY PacketAssumption

LEMMA Room ==
  ASSUME Inv
  PROVE  /\ fifo \in Fifos(Words) /\ Sound(fifo) /\ fifo.size \in Nat
         /\ Free(fifo) \in Nat /\ Free(fifo) = FIFO_SIF_W - fifo.size
         /\ (TRUE \in Ttes /\ Free(fifo) > 0 => Free(fifo) >= 2)
<1>1. fifo \in Fifos(Words) /\ Sound(fifo) /\ fifo.size \in 0..FIFO_SIF_W
  BY FreeBound DEF Inv, TypeOK
<1>2. fifo.size \in Nat /\ FIFO_SIF_W \in Nat /\ fifo.size <= FIFO_SIF_W
  BY <1>1, WidthType
<1>3. ASSUME TRUE \in Ttes, FIFO_SIF_W - fifo.size > 0 PROVE FIFO_SIF_W - fifo.size >= 2
  <2>1. Even(FIFO_SIF_W) /\ Even(fifo.size)
    BY <1>3, EvenConstants DEF Inv, EvenInv
  <2>2. Even(FIFO_SIF_W - fifo.size) /\ FIFO_SIF_W - fifo.size \in Nat
    <3>1. FIFO_SIF_W - fifo.size \in Nat
      BY <1>2
    <3> QED BY <1>2, <2>1, <3>1, EvenSum
  <2> QED BY <1>3, <2>2, EvenPositive
<1>4. Free(fifo) = FIFO_SIF_W - fifo.size
  BY DEF Free
<1>5. Free(fifo) \in Nat
  BY <1>2, <1>4
<1> QED BY <1>1, <1>2, <1>3, <1>4, <1>5

-----------------------------------------------------------------------------
(* The steps. *)

THEOREM InitInv == Init => Inv
<1>1. SUFFICES ASSUME NEW p \in Packets,
                      fifo = Cleared([packet |-> p, at |-> 0]),
                      ee = [busy |-> FALSE, end |-> FALSE, qwc |-> 0, str |-> FALSE,
                            mod |-> "CHAIN", tte |-> FALSE, packet |-> p],
                      iop = [busy |-> FALSE, end |-> FALSE, counter |-> 0, chcr |-> FALSE,
                             packet |-> p],
                      pending = {}, pc = "idle", BusyCheck = FALSE
               PROVE  Inv
  BY DEF Init
<1>2. [packet |-> p, at |-> 0] \in Words
  BY DEF Words
<1>3. fifo \in Fifos(Words) /\ Sound(fifo) /\ fifo.size = 0
  BY <1>1, <1>2, ClearedSound
<1>4. iop \in IopType /\ ee \in EeType
  BY <1>1 DEF IopType, EeType
<1>5. TypeOK
  BY <1>1, <1>3, <1>4 DEF TypeOK
<1>6. iop.counter = 0 /\ ~ee.tte
  BY <1>1
<1> QED BY <1>3, <1>5, <1>6, EvenConstants DEF Inv, EvenInv

\* A turn of the EE only adds words, and only when there is room for them.
LEMMA EeTurnFifo ==
  ASSUME Inv, EeTurn
  PROVE  /\ ee' \in EeType /\ fifo' \in Fifos(Words) /\ Sound(fifo')
         /\ ee'.tte = ee.tte /\ (TRUE \in Ttes => Even(fifo'.size))
         /\ pending' \subseteq {"EE", "IOP"}
         /\ \/ fifo' = fifo
            \/ \E w \in Seq(Words) : /\ w # <<>> /\ Len(w) <= Free(fifo)
                                     /\ fifo' = Write(fifo, w)
<1>1. /\ fifo \in Fifos(Words) /\ Sound(fifo) /\ fifo.size \in Nat /\ Free(fifo) \in Nat
      /\ (TRUE \in Ttes /\ Free(fifo) > 0 => Free(fifo) >= 2)
  BY Room
<1>2. /\ ee \in EeType /\ ee.qwc \in Nat /\ ee.packet \in Packets /\ ee.tte \in BOOLEAN
      /\ pending \subseteq {"EE", "IOP"} /\ (ee.tte => TRUE \in Ttes)
      /\ (TRUE \in Ttes => Even(fifo.size))
  BY DEF Inv, EvenInv, TypeOK, EeType
<1>3. CASE ~EeMay
  BY <1>1, <1>2, <1>3 DEF EeTurn
<1>4. CASE /\ pending' \subseteq {"EE", "IOP"} /\ fifo' = fifo
           /\ \/ ee' = [ee EXCEPT !.end = FALSE, !.busy = FALSE]
              \/ ee' = [ee EXCEPT !.str = FALSE]
              \/ ee' = ee
  <2>1. ee' \in EeType /\ ee'.tte = ee.tte
    BY <1>2, <1>4 DEF EeType
  <2> QED BY <1>1, <1>2, <1>4, <2>1
<1>5. CASE Free(fifo) > 0 /\ ProcessEETag /\ pending' = pending
  <2>1. PICK p \in Packets :
          /\ fifo' = IF ee.tte THEN Write(fifo, Stretch(p, TagWord, 2)) ELSE fifo
          /\ ee' = [ee EXCEPT !.packet = p, !.qwc = p.qwc, !.end = @ \/ p.eeEnd]
    BY <1>5 DEF ProcessEETag
  <2>2. ee' \in EeType /\ ee'.tte = ee.tte
    BY <1>2, <2>1, PacketFields DEF EeType
  <2> DEFINE v == Stretch(p, TagWord, 2)
  <2>3. CASE ee.tte
    <3>1. v \in Seq(Words) /\ Len(v) = 2
      <4>1. TagWord \in Int /\ 2 \in Nat
        BY DEF TagWord
      <4> QED BY <4>1, StretchType
    <3>2. v # <<>> /\ Len(v) <= Free(fifo) /\ fifo' = Write(fifo, v)
      <4>1. fifo' = Write(fifo, v)
        BY <2>1, <2>3
      <4>2. Free(fifo) >= 2
        BY <1>1, <1>2, <1>5, <2>3
      <4>3. v # <<>>
        BY <3>1
      <4> HIDE DEF v
      <4>4. PICK m \in Nat : m = Free(fifo)
        BY <1>1
      <4>5. 2 <= m
        BY <4>2, <4>4
      <4>6. Len(v) <= m
        BY <3>1, <4>5
      <4> QED BY <4>1, <4>3, <4>4, <4>6
    <3> HIDE DEF v
    <3>3. fifo' \in Fifos(Words) /\ Sound(fifo') /\ fifo'.size = fifo.size + 2
      BY <1>1, <3>1, <3>2, WriteSound
    <3>4. TRUE \in Ttes => Even(fifo'.size)
      BY <1>1, <1>2, <3>3, EvenSum, EvenConstants
    <3> QED BY <1>2, <1>5, <2>2, <3>1, <3>2, <3>3, <3>4
  <2>4. CASE ~ee.tte
    BY <1>1, <1>2, <1>5, <2>1, <2>2, <2>4
  <2> QED BY <1>2, <2>3, <2>4
<1>6. CASE WriteEEtoFifo /\ pending' = pending
  <2> DEFINE k == Smaller(ee.qwc, Free(fifo) \div 4)
             w == Stretch(ee.packet, 4 * (ee.packet.qwc - ee.qwc), 4 * k)
  <2>1. fifo' = Write(fifo, w) /\ ee' = [ee EXCEPT !.qwc = @ - k]
    BY <1>6 DEF WriteEEtoFifo
  <2>2. k \in Nat /\ k <= ee.qwc /\ 4 * k <= Free(fifo) /\ 4 * k \in Nat
    BY <1>1, <1>2 DEF Smaller
  <2>3. 4 * (ee.packet.qwc - ee.qwc) \in Int
    BY <1>2, PacketFields
  <2>4. w \in Seq(Words) /\ Len(w) = 4 * k
    BY <1>2, <2>2, <2>3, StretchType
  <2> HIDE DEF w, k
  <2>5. fifo' \in Fifos(Words) /\ Sound(fifo') /\ fifo'.size = fifo.size + 4 * k
    BY <1>1, <2>1, <2>2, <2>4, WriteSound
  <2>6. ee.qwc - k \in Nat
    BY <1>2, <2>2
  <2>7. ee' \in EeType /\ ee'.tte = ee.tte
    BY <1>2, <2>1, <2>6 DEF EeType
  <2>8. TRUE \in Ttes => Even(fifo'.size)
    BY <1>1, <1>2, <2>2, <2>5, EvenSum, EvenFour
  <2>9. w = <<>> => fifo' = fifo
    <3>1. ASSUME w = <<>> PROVE fifo' = fifo
      <4>1. Len(w) = 0
        BY <3>1
      <4>2. fifo = [data |-> fifo.data, readPos |-> fifo.readPos,
                    writePos |-> fifo.writePos, size |-> fifo.size]
        BY <1>1, FifoFields
      <4>3. fifo.writePos \in 0..(FIFO_SIF_W - 1) /\ fifo.data \in [Slots -> Words]
        BY <1>1, FifoFields DEF Slots
      <4> DEFINE d == [i \in Slots |->
                         IF i < Len(w) - Smaller(FIFO_SIF_W - fifo.writePos, Len(w))
                         THEN w[Smaller(FIFO_SIF_W - fifo.writePos, Len(w)) + i + 1]
                         ELSE IF i \in fifo.writePos..
                                   (fifo.writePos + Smaller(FIFO_SIF_W - fifo.writePos, Len(w)) - 1)
                              THEN w[i - fifo.writePos + 1]
                              ELSE fifo.data[i]]
      <4>4. Smaller(FIFO_SIF_W - fifo.writePos, Len(w)) = 0
        BY <4>1, <4>3, WidthType DEF Smaller
      <4>5. d = [i \in Slots |-> fifo.data[i]]
        BY <4>1, <4>3, <4>4, WidthType DEF Slots
      <4>6. d = fifo.data
        BY <4>3, <4>5
      <4>7. Write(fifo, w) = [fifo EXCEPT !.data = d, !.writePos = Wrap(@ + Len(w)),
                                          !.size = @ + Len(w)]
        BY DEF Write
      <4>8. Wrap(fifo.writePos + Len(w)) = fifo.writePos /\ fifo.size + Len(w) = fifo.size
        BY <1>1, <4>1, <4>3, WidthType DEF Wrap
      <4> HIDE DEF d
      <4> QED BY <2>1, <4>2, <4>6, <4>7, <4>8
    <3> QED BY <3>1
  <2> QED BY <1>2, <1>6, <2>1, <2>2, <2>4, <2>5, <2>7, <2>8, <2>9
<1>7. EeMay /\ HandleEETransfer =>
        \/ /\ pending' \subseteq {"EE", "IOP"} /\ fifo' = fifo
           /\ \/ ee' = [ee EXCEPT !.end = FALSE, !.busy = FALSE]
              \/ ee' = [ee EXCEPT !.str = FALSE]
              \/ ee' = ee
        \/ Free(fifo) > 0 /\ ProcessEETag /\ pending' = pending
        \/ WriteEEtoFifo /\ pending' = pending
  BY <1>2 DEF HandleEETransfer, EeMay, EndEE, BadAddress
<1> QED BY <1>3, <1>4, <1>5, <1>6, <1>7 DEF EeTurn

\* A turn of the IOP only takes words from the head of the queue.
LEMMA IopTurnFifo ==
  ASSUME Inv, EvenCounts, IopTurn
  PROVE  /\ iop' \in IopType /\ fifo' \in Fifos(Words) /\ Sound(fifo')
         /\ (TRUE \in Ttes => Even(fifo'.size) /\ Even(iop'.counter))
         /\ pending' \subseteq {"EE", "IOP"}
         /\ \/ fifo' = fifo
            \/ \E n \in 0..fifo.size :
                 Contents(fifo') = SubSeq(Contents(fifo), n + 1, fifo.size)
<1>1. /\ fifo \in Fifos(Words) /\ Sound(fifo) /\ fifo.size \in Nat
  BY Room
<1>2. /\ iop \in IopType /\ iop.counter \in Nat /\ iop.packet \in Packets
      /\ iop.end \in BOOLEAN /\ pending \subseteq {"EE", "IOP"}
      /\ (TRUE \in Ttes => Even(fifo.size) /\ Even(iop.counter))
  BY DEF Inv, EvenInv, TypeOK, IopType
<1>3. CASE ~IopMay
  BY <1>1, <1>2, <1>3 DEF IopTurn
<1>4. CASE IopMay /\ HandleIOPTransfer
  <2> DEFINE n == Smaller(iop.counter, fifo.size)
             f == Drop(fifo, n)
             counter == iop.counter - n
  <2>1. /\ n \in 0..fifo.size /\ n <= iop.counter /\ n \in Nat /\ counter \in Nat
        /\ (TRUE \in Ttes => Even(n))
    <3>1. \/ n = iop.counter /\ iop.counter <= fifo.size
          \/ n = fifo.size /\ fifo.size <= iop.counter
      <4>1. n = IF iop.counter < fifo.size THEN iop.counter ELSE fifo.size
        BY DEF Smaller
      <4> HIDE DEF n
      <4>2. PICK x \in Nat, y \in Nat : x = iop.counter /\ y = fifo.size
        BY <1>1, <1>2
      <4>3. n = IF x < y THEN x ELSE y
        BY <4>1, <4>2
      <4>4. (n = x /\ x <= y) \/ (n = y /\ y <= x)
        BY <4>3
      <4> QED BY <4>2, <4>4
    <3>2. n \in Nat /\ n <= iop.counter /\ n <= fifo.size
      BY <1>1, <1>2, <3>1
    <3>3. TRUE \in Ttes => Even(n)
      BY <1>2, <3>1
    <3>4. iop.counter - n \in Nat
      <4> HIDE DEF n
      <4> QED BY <1>2, <3>2
    <3>5. n \in 0..fifo.size
      <4> HIDE DEF n
      <4> QED BY <1>1, <3>2
    <3> QED BY <3>2, <3>3, <3>4, <3>5
  <2>2. \/ counter = 0 /\ iop.end /\ EndIOP(f)
        \/ counter = 0 /\ ~iop.end /\ f.size >= 4 /\ SIFIOPReadTag(f)
        \/ iop' = [iop EXCEPT !.counter = counter] /\ fifo' = f /\ pending' = pending
    BY <1>4 DEF HandleIOPTransfer, AfterWrite
  <2> HIDE DEF n
  <2>3. f \in Fifos(Words) /\ Sound(f) /\ f.size = fifo.size - n
    BY <1>1, <2>1, DropSound
  <2>4. Contents(f) = SubSeq(Contents(fifo), n + 1, fifo.size)
    BY <1>1, <2>1, DropContents
  <2>5. TRUE \in Ttes => Even(f.size) /\ Even(counter)
    <3>1. ASSUME TRUE \in Ttes PROVE Even(fifo.size - n) /\ Even(iop.counter - n)
      <4>1. Even(n) /\ Even(fifo.size) /\ Even(iop.counter) /\ n <= fifo.size
        BY <1>1, <1>2, <2>1, <3>1
      <4> QED BY <1>1, <1>2, <2>1, <4>1, EvenSum
    <3> QED BY <2>3, <3>1
  <2> HIDE DEF f, counter
  <2>6. CASE EndIOP(f)
    <3>1. /\ iop' \in IopType /\ iop'.counter = 0 /\ fifo' = f
          /\ pending' \subseteq {"EE", "IOP"}
      BY <1>2, <2>6 DEF EndIOP, IopType
    <3> QED BY <2>1, <2>3, <2>4, <2>5, <3>1, EvenConstants
  <2>7. CASE f.size >= 4 /\ SIFIOPReadTag(f)
    <3>1. HeadTags(f) \subseteq Packets
      <4>1. ASSUME Front(f, 1)[1].at = 0 PROVE Front(f, 1)[1].packet \in Packets
        <5>1. Front(f, 1)[1] = f.data[f.readPos]
          BY <2>3, FifoFields, WidthType DEF Front, Slots, Smaller
        <5>2. f.data[f.readPos] \in Words
          BY <2>3, FifoFields
        <5> QED BY <5>1, <5>2 DEF Words
      <4> QED BY <4>1 DEF HeadTags
    <3>2. PICK p \in Packets :
            /\ iop' = [iop EXCEPT !.packet = p, !.counter = p.words, !.end = @ \/ p.iopEnd]
            /\ fifo' = Drop(f, 4) /\ pending' = pending
      BY <2>7, <3>1 DEF SIFIOPReadTag
    <3>3. iop' \in IopType /\ iop'.counter = p.words
      BY <1>2, <3>2, PacketFields DEF IopType
    <3>4. f.size \in Nat /\ 4 \in 0..f.size
      BY <1>1, <2>1, <2>3, <2>7
    <3>5. fifo' \in Fifos(Words) /\ Sound(fifo') /\ fifo'.size = f.size - 4
      BY <2>3, <3>2, <3>4, DropSound
    <3>6. Contents(fifo') = SubSeq(Contents(f), 5, f.size)
      <4>1. Contents(Drop(f, 4)) = SubSeq(Contents(f), 4 + 1, f.size)
        BY <2>3, <3>4, DropContents
      <4> QED BY <3>2, <4>1
    <3>7. TRUE \in Ttes => Even(fifo'.size) /\ Even(iop'.counter)
      BY <2>5, <3>3, <3>4, <3>5, EvenSum, EvenConstants DEF EvenCounts
    <3>8. Contents(fifo) \in Seq(Words) /\ Len(Contents(fifo)) = fifo.size
      BY <1>1, ContentsType
    <3>9. /\ n + 4 \in 0..fifo.size
          /\ SubSeq(SubSeq(Contents(fifo), n + 1, fifo.size), 5, fifo.size - n)
               = SubSeq(Contents(fifo), (n + 4) + 1, fifo.size)
      BY <1>1, <2>1, <2>3, <3>4, <3>8
    <3> QED BY <1>2, <2>3, <2>4, <3>2, <3>3, <3>5, <3>6, <3>7, <3>9
  <2>8. CASE iop' = [iop EXCEPT !.counter = counter] /\ fifo' = f /\ pending' = pending
    <3>1. iop' \in IopType /\ iop'.counter = counter
      BY <1>2, <2>1, <2>8 DEF IopType, counter
    <3> QED BY <1>2, <2>1, <2>3, <2>4, <2>5, <2>8, <3>1
  <2> QED BY <2>2, <2>6, <2>7, <2>8
<1> QED BY <1>3, <1>4 DEF IopTurn

LEMMA TurnInv ==
  ASSUME Inv, EvenCounts, Turn
  PROVE  Inv'
<1>1. ASSUME EeTurn PROVE Inv'
  <2>1. /\ ee' \in EeType /\ fifo' \in Fifos(Words) /\ pending' \subseteq {"EE", "IOP"}
        /\ Sound(fifo') /\ ee'.tte = ee.tte /\ (TRUE \in Ttes => Even(fifo'.size))
    BY <1>1, EeTurnFifo
  <2>2. iop' = iop /\ pc' \in {"idle", "iop", "ee"} /\ BusyCheck' \in BOOLEAN
    BY <1>1 DEF EeTurn, EeMay, Inv, TypeOK, EeType
  <2>3. TypeOK'
    BY <2>1, <2>2 DEF TypeOK, Inv
  <2> QED BY <2>1, <2>2, <2>3 DEF Inv, EvenInv
<1>2. ASSUME IopTurn PROVE Inv'
  <2>1. /\ iop' \in IopType /\ fifo' \in Fifos(Words) /\ pending' \subseteq {"EE", "IOP"}
        /\ Sound(fifo') /\ (TRUE \in Ttes => Even(fifo'.size) /\ Even(iop'.counter))
    BY <1>2, IopTurnFifo
  <2>2. ee' = ee /\ pc' \in {"idle", "iop", "ee"} /\ BusyCheck' \in BOOLEAN
    BY <1>2 DEF IopTurn
  <2>3. TypeOK'
    BY <2>1, <2>2 DEF TypeOK, Inv
  <2> QED BY <2>1, <2>2, <2>3 DEF Inv, EvenInv
<1> QED BY <1>1, <1>2 DEF Turn

\* The programs and the interrupts leave the FIFO and the counter alone; a program
\* chooses TTE only as Ttes allows.
LEMMA ProgramInv ==
  Inv /\ (psxDma10 \/ dmaSIF1 \/ ForceStop \/ sif1Interrupt \/ EEsif1Interrupt)
    => Inv' /\ fifo' = fifo
<1> SUFFICES ASSUME Inv, psxDma10 \/ dmaSIF1 \/ ForceStop \/ sif1Interrupt \/ EEsif1Interrupt
             PROVE  Inv' /\ fifo' = fifo
  OBVIOUS
<1>1. /\ iop \in IopType /\ ee \in EeType /\ pending \subseteq {"EE", "IOP"}
      /\ pc \in {"idle", "iop", "ee"} /\ BusyCheck \in BOOLEAN /\ fifo \in Fifos(Words)
  BY DEF Inv, TypeOK
<1>2. /\ fifo' = fifo /\ BusyCheck' = BusyCheck
      /\ pc' \in {"idle", "iop", "ee"} /\ pending' \subseteq {"EE", "IOP"}
  BY <1>1 DEF psxDma10, dmaSIF1, ForceStop, sif1Interrupt, EEsif1Interrupt
<1>3. iop' \in IopType /\ iop'.counter = iop.counter
  <2>1. \/ iop' = iop
        \/ iop' = [iop EXCEPT !.chcr = TRUE, !.busy = TRUE]
        \/ iop' = [iop EXCEPT !.chcr = FALSE]
    BY DEF psxDma10, dmaSIF1, ForceStop, sif1Interrupt, EEsif1Interrupt
  <2> QED BY <1>1, <2>1 DEF IopType
<1>4. ee' \in EeType /\ (ee'.tte => ee.tte \/ TRUE \in Ttes)
  <2>1. CASE ee' = ee \/ ee' = [ee EXCEPT !.str = FALSE]
    BY <1>1, <2>1 DEF EeType
  <2>2. CASE dmaSIF1
    <3>1. PICK m \in Modes, t \in Ttes, p \in Packets :
            ee' = [ee EXCEPT !.str = TRUE, !.mod = m, !.tte = t, !.busy = TRUE,
                             !.qwc = IF m = "NORMAL" THEN p.qwc ELSE 0,
                             !.packet = IF m = "NORMAL" THEN p ELSE @]
      BY <2>2 DEF dmaSIF1
    <3>2. /\ m \in {"NORMAL", "CHAIN"} /\ t \in BOOLEAN /\ p.qwc \in Nat
          /\ (t => TRUE \in Ttes)
      BY ProgramAssumption, PacketFields
    <3> DEFINE q == IF m = "NORMAL" THEN p.qwc ELSE 0
               r == IF m = "NORMAL" THEN p ELSE ee.packet
    <3>3. q \in Nat /\ r \in Packets
      BY <1>1, <3>2 DEF EeType
    <3>4. ee' = [ee EXCEPT !.str = TRUE, !.mod = m, !.tte = t, !.busy = TRUE,
                           !.qwc = q, !.packet = r]
      BY <3>1
    <3> HIDE DEF q, r
    <3> QED BY <1>1, <3>2, <3>3, <3>4 DEF EeType
  <2> QED BY <2>1, <2>2 DEF psxDma10, ForceStop, sif1Interrupt, EEsif1Interrupt
<1>5. TypeOK'
  BY <1>1, <1>2, <1>3, <1>4 DEF TypeOK
<1>6. EvenInv'
  BY <1>2, <1>3, <1>4 DEF Inv, EvenInv
<1> QED BY <1>2, <1>5, <1>6 DEF Inv

THEOREM InvHolds ==
  ASSUME EvenCounts
  PROVE  Spec => []Inv
<1>1. Inv /\ UNCHANGED vars => Inv'
  BY DEF Inv, TypeOK, EvenInv, vars
<1>2. Inv /\ [Next]_vars => Inv'
  BY <1>1, TurnInv, ProgramInv DEF Next
<1> QED BY InitInv, <1>2, PTL DEF Spec

\* Every variable keeps its type: no count goes negative.
THEOREM TypeCorrect ==
  ASSUME EvenCounts
  PROVE  Spec => []TypeOK
<1>1. Inv => TypeOK
  BY DEF Inv
<1> QED BY InvHolds, <1>1, PTL

\* One word of room is checked for where two or four are moved, and yet the FIFO is
\* never over- or underrun.
THEOREM RoomIsHeld ==
  ASSUME EvenCounts
  PROVE  Spec => []RoomHeld
<1>1. Inv => RoomHeld
  BY DEF Inv, RoomHeld
<1> QED BY InvHolds, <1>1, PTL

-----------------------------------------------------------------------------
(* The stream. *)

LEMMA InitStream == Init => Stream!Init
<1>1. SUFFICES ASSUME Init PROVE Contents(fifo) = <<>>
  BY DEF Stream!Init
<1>2. PICK p \in Packets : fifo = Cleared([packet |-> p, at |-> 0])
  BY <1>1 DEF Init
<1>3. fifo.size = 0
  BY <1>2 DEF Cleared
<1> QED BY <1>3 DEF Contents

LEMMA SendStep ==
  ASSUME fifo \in Fifos(Words), Sound(fifo),
         NEW w \in Seq(Words), w # <<>>, Len(w) <= Free(fifo), fifo' = Write(fifo, w)
  PROVE  Stream!Send
<1>1. Contents(fifo)' = Contents(Write(fifo, w))
  BY DEF Contents
<1> QED BY <1>1, WriteAppends DEF Stream!Send

LEMMA ReceiveStep ==
  ASSUME fifo \in Fifos(Words), Sound(fifo), NEW n \in 0..fifo.size,
         Contents(fifo') = SubSeq(Contents(fifo), n + 1, fifo.size)
  PROVE  [Stream!Next]_(Contents(fifo))
<1>1. Contents(fifo) \in Seq(Words) /\ Len(Contents(fifo)) = fifo.size /\ fifo.size \in Nat
  BY ContentsType, WidthType
<1>2. Contents(fifo)' = SubSeq(Contents(fifo), n + 1, Len(Contents(fifo)))
  BY <1>1 DEF Contents
<1>3. CASE n = 0
  <2>1. SubSeq(Contents(fifo), 1, Len(Contents(fifo))) = Contents(fifo)
    BY <1>1
  <2> QED BY <1>2, <1>3, <2>1
<1>4. CASE n > 0
  <2>1. n \in 1..Len(Contents(fifo))
    BY <1>1, <1>4
  <2> QED BY <1>2, <2>1 DEF Stream!Receive, Stream!Next
<1> QED BY <1>3, <1>4

\* The FIFO and the code around it are, to the two processors, a bounded stream of
\* words: the detailed specification implements SifStream.
THEOREM ImplementsStream ==
  ASSUME EvenCounts
  PROVE  Spec => StreamRefinement
<1>1. Inv /\ [Next]_vars => [Stream!Next]_(Contents(fifo))
  <2> SUFFICES ASSUME Inv, [Next]_vars PROVE [Stream!Next]_(Contents(fifo))
    OBVIOUS
  <2>1. fifo \in Fifos(Words) /\ Sound(fifo)
    BY DEF Inv, TypeOK
  <2>2. CASE fifo' = fifo
    BY <2>2 DEF Contents
  <2>3. CASE EeTurn
    <3>1. CASE \E w \in Seq(Words) : /\ w # <<>> /\ Len(w) <= Free(fifo)
                                     /\ fifo' = Write(fifo, w)
      BY <2>1, <3>1, SendStep DEF Stream!Next
    <3> QED BY <2>2, <2>3, <3>1, EeTurnFifo
  <2>4. CASE IopTurn
    BY <2>1, <2>2, <2>4, IopTurnFifo, ReceiveStep
  <2>5. CASE psxDma10 \/ dmaSIF1 \/ ForceStop \/ sif1Interrupt \/ EEsif1Interrupt
    BY <2>2, <2>5, ProgramInv
  <2> QED BY <2>2, <2>3, <2>4, <2>5 DEF Next, Turn, vars
<1> QED BY InitStream, InvHolds, <1>1, PTL DEF Spec, StreamRefinement, Stream!Spec

-----------------------------------------------------------------------------
(* The interrupts. *)

\* No channel is forgotten: one whose program waits is at work or its interrupt is on
\* the way, and none is thrown twice.
THEOREM ChannelsAccounted ==
  ASSUME EvenCounts
  PROVE  Spec => []Accounted
<1>1. Init => Accounted
  BY DEF Init, Accounted
<1>2. Inv /\ Accounted /\ [Next]_vars => Accounted'
  <2> SUFFICES ASSUME Inv, Accounted, [Next]_vars PROVE Accounted'
    OBVIOUS
  <2>1. iop \in IopType /\ ee \in EeType /\ pending \subseteq {"EE", "IOP"}
    BY DEF Inv, TypeOK
  <2>2. CASE IopTurn
    <3>1. ee' = ee
      BY <2>2 DEF IopTurn
    <3>2. \/ iop'.chcr = iop.chcr /\ iop'.busy = iop.busy /\ pending' = pending
          \/ /\ iop.busy /\ ~iop'.busy /\ iop'.chcr = iop.chcr
             /\ pending' = pending \cup {"IOP"}
      BY <2>1, <2>2 DEF IopTurn, IopMay, HandleIOPTransfer, EndIOP, SIFIOPReadTag, IopType
    <3> QED BY <3>1, <3>2 DEF Accounted
  <2>3. CASE EeTurn
    <3>1. iop' = iop
      BY <2>3 DEF EeTurn
    <3>2. \/ ee'.str = ee.str /\ ee'.busy = ee.busy /\ pending' = pending
          \/ ~ee'.str /\ ee.busy /\ ee'.busy /\ pending' = pending
          \/ ~ee.str /\ ~ee'.str /\ pending' = pending
          \/ /\ ee.str /\ ee'.str /\ ee.busy /\ ~ee'.busy
             /\ pending' = pending \cup {"EE"}
      <4>1. CASE ~EeMay
        BY <2>3, <4>1 DEF EeTurn
      <4>2. CASE EeMay /\ ~ee.str
        BY <2>1, <2>3, <4>2 DEF EeTurn, EeMay, HandleEETransfer, EeType
      <4>3. CASE EeMay /\ ee.str /\ EndEE
        BY <2>1, <4>3 DEF EeMay, EndEE, EeType
      <4>4. CASE EeMay /\ ee.str /\ (ProcessEETag \/ WriteEEtoFifo \/ BadAddress)
                   /\ pending' = pending
        BY <2>1, <4>4 DEF EeMay, ProcessEETag, WriteEEtoFifo, BadAddress, EeType
      <4>5. CASE ee' = ee /\ pending' = pending
        BY <4>5
      <4> QED BY <2>3, <4>1, <4>2, <4>3, <4>4, <4>5 DEF EeTurn, HandleEETransfer
    <3> QED BY <3>1, <3>2 DEF Accounted
  <2>4. CASE psxDma10
    BY <2>1, <2>4 DEF psxDma10, Accounted, IopType
  <2>5. CASE dmaSIF1
    BY <2>1, <2>5 DEF dmaSIF1, Accounted, EeType
  <2>6. CASE ForceStop
    BY <2>1, <2>6 DEF ForceStop, Accounted, EeType
  <2>7. CASE sif1Interrupt
    BY <2>1, <2>7 DEF sif1Interrupt, Accounted, IopType
  <2>8. CASE EEsif1Interrupt
    BY <2>1, <2>8 DEF EEsif1Interrupt, Accounted, EeType
  <2>9. CASE UNCHANGED vars
    BY <2>9 DEF vars, Accounted
  <2> QED BY <2>2, <2>3, <2>4, <2>5, <2>6, <2>7, <2>8, <2>9 DEF Next, Turn
<1> QED BY <1>1, <1>2, InvHolds, PTL DEF Spec

-----------------------------------------------------------------------------
(* What the loop leaves behind. *)

\* A round in which the EE has not moved finds it finished, or the FIFO full.
ServedInv ==
  /\ pc = "iop" /\ ~BusyCheck => ~ee.busy \/ Free(fifo) = 0
  /\ IopServed

\* The loop of SIF1Dma does not leave an IOP side that waits with a quadword to read
\* or with an EE side that has more, whichever program starts first and however the
\* chain is stopped and started again.
THEOREM IopIsServed ==
  ASSUME EvenCounts
  PROVE  Spec => []IopServed
<1>1. Init => ServedInv
  BY DEF Init, ServedInv, IopServed
<1>2. Inv /\ ServedInv /\ [Next]_vars => ServedInv'
  <2> SUFFICES ASSUME Inv, ServedInv, [Next]_vars PROVE ServedInv'
    OBVIOUS
  <2>1. /\ iop \in IopType /\ ee \in EeType /\ fifo.size \in Nat
        /\ Free(fifo) = FIFO_SIF_W - fifo.size /\ FIFO_SIF_W \in Nat /\ FIFO_SIF_W >= 4
    BY Room, WidthType, FifoAssumption DEF Inv, TypeOK, FIFO_SIF_W
  <2>2. CASE EeTurn
    <3>1. pc' = "iop" /\ (BusyCheck' <=> EeMay)
      BY <2>2, Zenon DEF EeTurn
    <3>2. ~EeMay => ee' = ee /\ fifo' = fifo
      BY <2>2 DEF EeTurn
    <3>3. ~EeMay => ~ee.busy \/ Free(fifo) = 0
      BY <2>1, Room DEF EeMay
    <3> QED BY <3>1, <3>2, <3>3 DEF ServedInv, IopServed
  <2>3. CASE IopTurn
    <3>1. /\ ee' = ee /\ ~BusyCheck'
          /\ pc' = "idle" => ~BusyCheck /\ ~IopMay /\ pc = "iop"
      BY <2>3 DEF IopTurn
    <3>2. ~IopMay => iop' = iop /\ fifo' = fifo
      BY <2>3 DEF IopTurn
    <3>3. ~IopMay /\ iop.busy => fifo.size < 4 /\ Free(fifo) > 0
      BY <2>1 DEF IopMay
    <3>4. pc' # "iop"
      BY <2>3 DEF IopTurn
    <3>5. pc' = "idle" /\ iop'.busy => fifo'.size < 4 /\ ~ee'.busy
      BY <3>1, <3>2, <3>3 DEF ServedInv
    <3> QED BY <3>4, <3>5 DEF ServedInv, IopServed
  <2>4. CASE psxDma10
    BY <2>4 DEF psxDma10, ServedInv, IopServed
  <2>5. CASE dmaSIF1
    BY <2>5 DEF dmaSIF1, ServedInv, IopServed
  <2>6. CASE ForceStop \/ EEsif1Interrupt
    <3>1. /\ ee' = [ee EXCEPT !.str = FALSE] /\ pc = "idle"
          /\ UNCHANGED <<fifo, iop, pc>>
      BY <2>6 DEF ForceStop, EEsif1Interrupt
    <3>2. ee'.busy = ee.busy
      BY <2>1, <3>1 DEF EeType
    <3> QED BY <3>1, <3>2 DEF ServedInv, IopServed
  <2>7. CASE sif1Interrupt
    <3>1. iop'.busy = iop.busy
      BY <2>1, <2>7 DEF sif1Interrupt, IopType
    <3> QED BY <2>7, <3>1 DEF sif1Interrupt, ServedInv, IopServed
  <2>8. CASE UNCHANGED vars
    BY <2>8 DEF vars, ServedInv, IopServed, Free
  <2> QED BY <2>2, <2>3, <2>4, <2>5, <2>6, <2>7, <2>8 DEF Next, Turn
<1>3. ServedInv => IopServed
  BY DEF ServedInv
<1> QED BY <1>1, <1>2, <1>3, InvHolds, PTL DEF Spec

-----------------------------------------------------------------------------
(* The IOP in step with the EE *)

Sizes == [p \in Packets |-> 4 * p.qwc]

\* The word at the head of the line is the next one the IOP looks for.
HeadRight(u, counter, p) ==
  IF counter = 0 THEN u.at = 0 ELSE u = [packet |-> p, at |-> 4 + p.words - counter]

AgreedInv ==
  agreed =>
    /\ ee.mod = "CHAIN" /\ ~ee.tte
    /\ ee.packet \in Agreeing /\ ee.qwc <= ee.packet.qwc
    /\ ~ee.str \/ "EE" \in pending => ee.qwc = 0
    /\ iop.counter # 0 => iop.packet \in Agreeing /\ iop.counter <= iop.packet.words
    /\ InLine(Line, fifo.size + 1, Packets, Sizes)
    /\ \A i \in 1..fifo.size : Line[i].packet \in Agreeing
    /\ HeadRight(Line[1], iop.counter, iop.packet)

LEMMA AgreeingSize ==
  ASSUME NEW p \in Packets
  PROVE  /\ Sizes \in [Packets -> Nat] /\ Sizes[p] = 4 * p.qwc /\ p.words \in Nat
         /\ p \in Agreeing => Sizes[p] = 4 + p.words
<1>1. \A q \in Packets : 4 * q.qwc \in Nat
  BY PacketFields
<1>2. Sizes \in [Packets -> Nat] /\ Sizes[p] = 4 * p.qwc
  BY <1>1 DEF Sizes
<1> QED BY <1>2, PacketFields DEF Agreeing

LEMMA LineEnds ==
  ASSUME Inv
  PROVE  /\ fifo \in Fifos(Words) /\ Sound(fifo) /\ fifo.size \in Nat
         /\ Line[fifo.size + 1] = NextSent
         /\ \A i \in 1..fifo.size : Line[i] = Contents(fifo)[i]
         /\ fifo.size > 0 => Line[1] = fifo.data[fifo.readPos]
<1>1. fifo \in Fifos(Words) /\ Sound(fifo) /\ fifo.size \in Nat
  BY Room
<1>2. /\ Line[fifo.size + 1] = NextSent
      /\ \A i \in 1..fifo.size : Line[i] = Contents(fifo)[i]
  <2>1. PICK f, x, L : f = fifo /\ x = NextSent /\ L = Line
    OBVIOUS
  <2>2. L = Append(Contents(f), x)
    BY <2>1 DEF Line
  <2>3. f \in Fifos(Words) /\ Sound(f)
    BY <1>1, <2>1
  <2>4. L[f.size + 1] = x /\ \A i \in 1..f.size : L[i] = Contents(f)[i]
    BY <2>2, <2>3, LineInRing
  <2> QED BY <2>1, <2>4
<1>3. ASSUME fifo.size > 0 PROVE Line[1] = fifo.data[fifo.readPos]
  <2>1. Contents(fifo)[1] = fifo.data[Wrap(fifo.readPos + 1 - 1)]
    BY <1>1, <1>3, ContentsType
  <2>2. Wrap(fifo.readPos + 1 - 1) = fifo.readPos
    BY <1>1, FifoFields, WidthType DEF Wrap, Slots
  <2> QED BY <1>1, <1>2, <1>3, <2>1, <2>2
<1> QED BY <1>1, <1>2, <1>3

LEMMA NextLineEnds ==
  ASSUME fifo' \in Fifos(Words), Sound(fifo')
  PROVE  /\ Line'[fifo'.size + 1] = NextSent'
         /\ \A i \in 1..fifo'.size : Line'[i] = Contents(fifo')[i]
<1>1. PICK f, x, L : f = fifo' /\ x = NextSent' /\ L = Line'
  OBVIOUS
<1>2. L = Append(Contents(f), x)
  BY <1>1 DEF Line, Contents
<1>3. f \in Fifos(Words) /\ Sound(f)
  BY <1>1
<1>4. L[f.size + 1] = x /\ \A i \in 1..f.size : L[i] = Contents(f)[i]
  BY <1>2, <1>3, LineInRing
<1> QED BY <1>1, <1>4

\* The EE's words make the line longer.
LEMMA SentWords ==
  ASSUME Inv, NEW w \in Seq(Words), Len(w) <= Free(fifo), fifo' = Write(fifo, w)
  PROVE  /\ fifo'.size = fifo.size + Len(w) /\ fifo.size \in Nat
         /\ Line[fifo.size + 1] = NextSent /\ Line'[fifo'.size + 1] = NextSent'
         /\ \A i \in 1..fifo.size : Line'[i] = Line[i]
         /\ \A k \in 1..Len(w) : Line'[fifo.size + k] = w[k]
<1>1. fifo \in Fifos(Words) /\ Sound(fifo) /\ fifo.size \in Nat
  BY LineEnds
<1>2. fifo' \in Fifos(Words) /\ Sound(fifo')
  BY <1>1, WriteSound
<1>3. PICK L, M : L = Line /\ M = Line'
  OBVIOUS
<1>4. L[fifo.size + 1] = NextSent /\ \A i \in 1..fifo.size : L[i] = Contents(fifo)[i]
  BY <1>3, LineEnds
<1>5. M[fifo'.size + 1] = NextSent' /\ \A i \in 1..fifo'.size : M[i] = Contents(fifo')[i]
  BY <1>2, <1>3, NextLineEnds
<1>6. /\ fifo'.size = fifo.size + Len(w)
      /\ \A i \in 1..fifo.size : M[i] = L[i]
      /\ \A k \in 1..Len(w) : M[fifo.size + k] = w[k]
  BY <1>1, <1>4, <1>5, LineWritten
<1> QED BY <1>1, <1>3, <1>4, <1>5, <1>6

LEMMA SentLine ==
  ASSUME InLine(Line, fifo.size + 1, Packets, Sizes), fifo.size \in Nat,
         NEW q \in Packets, NEW a \in Nat, NEW n \in Nat,
         fifo'.size = fifo.size + n,
         \A i \in 1..fifo.size : Line'[i] = Line[i],
         \A k \in 1..n : Line'[fifo.size + k] = [packet |-> q, at |-> a + k - 1],
         a + n <= Sizes[q],
         \/ Line[fifo.size + 1] = [packet |-> q, at |-> a] /\ a < Sizes[q]
         \/ Line[fifo.size + 1].at = 0 /\ a = 0,
         Line'[fifo'.size + 1] = [packet |-> q, at |-> IF a + n = Sizes[q] THEN 0 ELSE a + n]
  PROVE  InLine(Line', fifo'.size + 1, Packets, Sizes)
<1>1. PICK L, M : L = Line /\ M = Line'
  OBVIOUS
<1>2. PICK m \in Nat \ {0} : m = fifo.size + 1
  OBVIOUS
<1>3. InLine(L, m, Packets, Sizes) /\ \A i \in 1..(m - 1) : M[i] = L[i]
  BY <1>1, <1>2
<1>4. \A k \in 0..(n - 1) : M[m + k] = [packet |-> q, at |-> a + k]
  <2> TAKE k \in 0..(n - 1)
  <2>1. PICK j \in 1..n : j = k + 1
    OBVIOUS
  <2>2. m + k = fifo.size + j /\ a + j - 1 = a + k
    BY <1>2, <2>1
  <2> QED BY <1>1, <2>2
<1>5. Sizes \in [Packets -> Nat]
  BY AgreeingSize
<1>6. m + n = fifo'.size + 1
  BY <1>2
<1>7. M[m + n] = [packet |-> q, at |-> IF a + n = Sizes[q] THEN 0 ELSE a + n]
  BY <1>1, <1>6
<1>8. \/ L[m] = [packet |-> q, at |-> a] /\ a < Sizes[q]
      \/ L[m].at = 0 /\ a = 0
  BY <1>1, <1>2
<1>9. InLine(M, m + n, Packets, Sizes)
  BY <1>3, <1>4, <1>5, <1>7, <1>8, LineGrows
<1> QED BY <1>1, <1>6, <1>9

\* The words the IOP takes leave a line.
LEMMA TakenWords ==
  ASSUME Inv, NEW n \in 0..fifo.size, fifo' = Drop(fifo, n), NextSent' = NextSent
  PROVE  /\ fifo'.size = fifo.size - n /\ fifo.size \in Nat
         /\ \A i \in 1..(fifo'.size + 1) : Line'[i] = Line[i + n]
<1>1. fifo \in Fifos(Words) /\ Sound(fifo) /\ fifo.size \in Nat
  BY LineEnds
<1>2. fifo' \in Fifos(Words) /\ Sound(fifo')
  BY <1>1, DropSound
<1>3. PICK L, M : L = Line /\ M = Line'
  OBVIOUS
<1>4. L[fifo.size + 1] = NextSent /\ \A i \in 1..fifo.size : L[i] = Contents(fifo)[i]
  BY <1>3, LineEnds
<1>5. M[fifo'.size + 1] = NextSent' /\ \A i \in 1..fifo'.size : M[i] = Contents(fifo')[i]
  BY <1>2, <1>3, NextLineEnds
<1>6. fifo'.size = fifo.size - n /\ \A i \in 1..(fifo'.size + 1) : M[i] = L[i + n]
  BY <1>1, <1>4, <1>5, LineDropped
<1> QED BY <1>1, <1>3, <1>6

LEMMA TakenLine ==
  ASSUME InLine(Line, fifo.size + 1, Packets, Sizes), fifo.size \in Nat,
         NEW n \in 0..fifo.size, fifo'.size = fifo.size - n,
         \A i \in 1..(fifo'.size + 1) : Line'[i] = Line[i + n]
  PROVE  InLine(Line', fifo'.size + 1, Packets, Sizes)
<1>1. PICK L, M : L = Line /\ M = Line'
  OBVIOUS
<1>2. PICK m \in Nat : m = fifo.size + 1
  OBVIOUS
<1>3. m - n = fifo'.size + 1 /\ n \in 0..m
  BY <1>2
<1>4. InLine(L, m, Packets, Sizes) /\ \A i \in 1..(m - n) : M[i] = L[i + n]
  BY <1>1, <1>2, <1>3
<1>5. Sizes \in [Packets -> Nat]
  BY ProgramAssumption, AgreeingSize
<1>6. InLine(M, m - n, Packets, Sizes)
  BY <1>3, <1>4, <1>5, LineShrinks
<1> QED BY <1>1, <1>3, <1>6

\* A turn of the IOP that takes n words.
LEMMA IopTakes ==
  ASSUME Inv, AgreedInv, agreed, ee' = ee,
         NEW n \in 0..fifo.size, fifo' = Drop(fifo, n),
         HeadRight(Line[n + 1], iop'.counter, iop'.packet)
  PROVE  /\ InLine(Line', fifo'.size + 1, Packets, Sizes)
         /\ \A i \in 1..fifo'.size : Line'[i].packet \in Agreeing
         /\ HeadRight(Line'[1], iop'.counter, iop'.packet)
<1>1. NextSent' = NextSent
  BY DEF NextSent
<1>2. /\ fifo'.size = fifo.size - n /\ fifo.size \in Nat
      /\ \A i \in 1..(fifo'.size + 1) : Line'[i] = Line[i + n]
  BY <1>1, TakenWords
<1>3. /\ InLine(Line, fifo.size + 1, Packets, Sizes)
      /\ \A i \in 1..fifo.size : Line[i].packet \in Agreeing
  BY DEF AgreedInv
<1>4. InLine(Line', fifo'.size + 1, Packets, Sizes)
  BY <1>2, <1>3, TakenLine
<1>5. ASSUME NEW i \in 1..fifo'.size PROVE Line'[i].packet \in Agreeing
  <2>1. i + n \in 1..fifo.size /\ i \in 1..(fifo'.size + 1)
    BY <1>2
  <2> QED BY <1>2, <1>3, <2>1
<1>6. 1 \in 1..(fifo'.size + 1) /\ 1 + n = n + 1
  BY <1>2
<1>7. Line'[1] = Line[n + 1]
  BY <1>2, <1>6
<1> QED BY <1>4, <1>5, <1>7

\* Where r words on from a place c words before the end of its packet lead.
LEMMA HeadMoves ==
  ASSUME Inv, InLine(Line, fifo.size + 1, Packets, Sizes),
         NEW p \in Packets, p \in Agreeing, NEW c \in Nat, c > 0, NEW r \in Nat, r <= c,
         NEW i \in 1..(fifo.size + 1), i + r <= fifo.size + 1,
         Line[i] = [packet |-> p, at |-> 4 + p.words - c]
  PROVE  HeadRight(Line[i + r], c - r, p)
<1>1. fifo.size \in Nat /\ Sizes[p] = 4 + p.words /\ p.words \in Nat
  BY Room, AgreeingSize
<1> HIDE DEF Line, Sizes
<1>2. CASE r = 0
  <2>1. i + r = i /\ c - r = c
    BY <1>2
  <2> QED BY <2>1 DEF HeadRight
<1>3. CASE r > 0
  <2>1. PICK j, m : j = i + r /\ m = fifo.size + 1
    OBVIOUS
  <2>2. i \in 1..(m - 1) /\ j \in 1..m /\ i < j /\ j - i = r
    BY <1>1, <1>3, <2>1
  <2>3. /\ Line[i].at + (j - i) < Sizes[Line[i].packet]
             => Line[j] = [packet |-> Line[i].packet, at |-> Line[i].at + (j - i)]
        /\ Line[i].at + (j - i) = Sizes[Line[i].packet] => Line[j].at = 0
    BY <2>1, <2>2 DEF InLine
  <2>4. Line[i].packet = p /\ Line[i].at + (j - i) = 4 + p.words - (c - r)
    BY <1>1, <2>2
  <2>5. CASE r = c
    <3>1. Line[j].at = 0 /\ c - r = 0
      BY <1>1, <2>3, <2>4, <2>5
    <3> QED BY <2>1, <3>1 DEF HeadRight
  <2>6. CASE r < c
    <3>1. Line[j] = [packet |-> p, at |-> 4 + p.words - (c - r)] /\ c - r # 0
      BY <1>1, <2>3, <2>4, <2>6
    <3> QED BY <2>1, <3>1 DEF HeadRight
  <2> QED BY <2>5, <2>6
<1> QED BY <1>2, <1>3

LEMMA InitAgreed == AgreedInit => AgreedInv
<1> SUFFICES ASSUME AgreedInit, agreed PROVE AgreedInv
  BY DEF AgreedInv
<1>0. Init
  BY DEF AgreedInit
<1>1. /\ Inv /\ fifo.size = 0 /\ iop.counter = 0 /\ ee.qwc = 0 /\ ee.mod = "CHAIN"
      /\ ~ee.tte /\ ee.packet.qwc \in Nat
  <2>1. /\ fifo.size = 0 /\ iop.counter = 0 /\ ee.qwc = 0 /\ ee.mod = "CHAIN"
        /\ ~ee.tte /\ ee.packet \in Packets
    BY <1>0 DEF Init, Cleared
  <2> QED BY <1>0, <2>1, InitInv, PacketFields
<1>2. ee.packet \in Packets /\ ee.packet \in Agreeing
  BY DEF AgreedInit, Agreeing
<1>3. Line[1] = [packet |-> ee.packet, at |-> 0]
  BY <1>1, LineEnds DEF NextSent
<1>4. InLine(Line, fifo.size + 1, Packets, Sizes)
  BY <1>1, <1>2, <1>3 DEF InLine
<1> QED BY <1>1, <1>2, <1>3, <1>4 DEF AgreedInv, HeadRight
\* A turn of the EE leaves the head of the line, and goes on from its end.
LEMMA EeAgreed ==
  ASSUME Inv, Accounted, AgreedInv, agreed, EeTurn, ~CutShort, ee'.packet \in Agreeing
  PROVE  AgreedInv'
<1>1. /\ fifo \in Fifos(Words) /\ Sound(fifo) /\ fifo.size \in Nat /\ Free(fifo) \in Nat
      /\ iop' = iop
  BY Room DEF EeTurn
<1>2. /\ ee \in EeType /\ ee.qwc \in Nat /\ ee.packet \in Packets /\ ee.packet.qwc \in Nat
      /\ iop.counter \in Nat /\ iop.packet \in Packets
  BY PacketFields DEF Inv, TypeOK, EeType, IopType
<1>3. /\ ee.mod = "CHAIN" /\ ~ee.tte /\ ee.packet \in Agreeing /\ ee.qwc <= ee.packet.qwc
      /\ ~ee.str \/ "EE" \in pending => ee.qwc = 0
      /\ iop.counter # 0 => iop.packet \in Agreeing /\ iop.counter <= iop.packet.words
      /\ InLine(Line, fifo.size + 1, Packets, Sizes)
      /\ \A i \in 1..fifo.size : Line[i].packet \in Agreeing
      /\ HeadRight(Line[1], iop.counter, iop.packet)
  BY DEF AgreedInv
<1>4. /\ Line[fifo.size + 1] = NextSent /\ NextSent.packet = ee.packet
      /\ NextSent.at = IF ee.qwc = 0 THEN 0 ELSE 4 * (ee.packet.qwc - ee.qwc)
  BY LineEnds DEF NextSent
\* An IOP that waits for the first word of a packet waits for a tag.
<1>5. NextSent.at = 0 /\ fifo.size = 0 => iop.counter = 0
  <2> SUFFICES ASSUME NextSent.at = 0, fifo.size = 0, iop.counter # 0 PROVE FALSE
    OBVIOUS
  <2>1. Line[1].at = 0
    BY <1>4
  <2>2. Line[1].at = 4 + iop.packet.words - iop.counter
    BY <1>3 DEF HeadRight
  <2> QED BY <1>2, <1>3, <2>1, <2>2, PacketFields
<1>6. ASSUME fifo' = fifo, ee'.qwc = ee.qwc, ee'.packet = ee.packet, ee'.mod = ee.mod,
             ee'.tte = ee.tte, ~ee'.str \/ "EE" \in pending' => ee'.qwc = 0
      PROVE  AgreedInv'
  <2>1. Line' = Line
    BY <1>6 DEF Line, Contents, NextSent
  <2> QED BY <1>1, <1>3, <1>6, <2>1 DEF AgreedInv
\* The line as it goes on with n words of the packet q, from the place a on.
<1>7. ASSUME EeMay, ee.str, pending' = pending, ee'.str, ee'.mod = ee.mod, ee'.tte = ee.tte,
             NEW q \in Agreeing, ee'.packet = q, ee'.qwc <= q.qwc,
             NEW a \in Nat, NEW n \in Nat, fifo'.size = fifo.size + n,
             \A i \in 1..fifo.size : Line'[i] = Line[i],
             \A k \in 1..n : Line'[fifo.size + k] = [packet |-> q, at |-> a + k - 1],
             Line'[fifo'.size + 1] = NextSent', a + n <= Sizes[q],
             \/ NextSent = [packet |-> q, at |-> a] /\ a < Sizes[q]
             \/ NextSent.at = 0 /\ a = 0,
             NextSent' = [packet |-> q, at |-> IF a + n = Sizes[q] THEN 0 ELSE a + n]
      PROVE  AgreedInv'
  <2>1. "EE" \notin pending
    BY <1>7 DEF Accounted, EeMay
  <2>2. InLine(Line', fifo'.size + 1, Packets, Sizes)
    BY <1>1, <1>3, <1>4, <1>7, SentLine DEF Agreeing
  <2>3. \A i \in 1..fifo'.size : Line'[i].packet \in Agreeing
    <3> TAKE i \in 1..fifo'.size
    <3>1. CASE i \in 1..fifo.size
      BY <1>3, <1>7, <3>1
    <3>2. CASE i \notin 1..fifo.size
      <4>1. i - fifo.size \in 1..n /\ i = fifo.size + (i - fifo.size)
        BY <1>1, <1>7, <3>2
      <4>2. PICK k \in 1..n : i = fifo.size + k
        BY <4>1
      <4>3. Line'[fifo.size + k] = [packet |-> q, at |-> a + k - 1]
        BY <1>7
      <4> QED BY <4>2, <4>3
    <3> QED BY <3>1, <3>2
  <2>4. HeadRight(Line'[1], iop.counter, iop.packet)
    <3>1. CASE fifo.size > 0
      BY <1>1, <1>3, <1>7, <3>1
    <3>2. CASE fifo.size = 0
      <4>1. Line'[1] = [packet |-> q, at |-> IF n = 0 /\ a = Sizes[q] THEN 0 ELSE a]
            /\ Line[1] = NextSent
        <5>1. CASE n = 0
          BY <1>4, <1>7, <3>2, <5>1
        <5>2. CASE n > 0
          <6>1. Line'[fifo.size + 1] = [packet |-> q, at |-> a + 1 - 1]
            BY <1>7, <5>2
          <6> QED BY <1>4, <1>7, <3>2, <5>2, <6>1
        <5> QED BY <5>1, <5>2
      <4>2. CASE NextSent = [packet |-> q, at |-> a] /\ a < Sizes[q]
        <5>1. ~(n = 0 /\ a = Sizes[q])
          <6>1. PICK s : s = Sizes[q] /\ a < s
            BY <4>2
          <6>2. s \in Nat
            BY <1>7, <6>1, AgreeingSize DEF Agreeing
          <6> QED BY <6>1, <6>2
        <5> QED BY <1>3, <4>1, <4>2, <5>1
      <4>3. CASE NextSent.at = 0 /\ a = 0
        BY <1>5, <3>2, <4>1, <4>3 DEF HeadRight
      <4> QED BY <1>7, <4>2, <4>3
    <3> QED BY <1>1, <3>1, <3>2
  <2> QED BY <1>1, <1>3, <1>7, <2>1, <2>2, <2>3, <2>4 DEF AgreedInv
<1>8. CASE ~EeMay
  BY <1>3, <1>6, <1>8 DEF EeTurn
<1>9. CASE EeMay /\ ~ee.str
  <2>1. ee' = [ee EXCEPT !.end = FALSE, !.busy = FALSE] /\ UNCHANGED <<fifo, pending>>
    BY <1>9 DEF EeTurn, HandleEETransfer
  <2> QED BY <1>2, <1>3, <1>6, <1>9, <2>1 DEF EeType
<1>10. CASE EeMay /\ ee.str /\ ee.qwc = 0 /\ EndEE
  BY <1>2, <1>3, <1>6, <1>10 DEF EndEE, EeType
<1>11. CASE EeMay /\ ee.str /\ ee.qwc = 0 /\ ProcessEETag /\ pending' = pending
  <2>1. PICK p \in Packets : /\ fifo' = fifo
                             /\ ee' = [ee EXCEPT !.packet = p, !.qwc = p.qwc, !.end = @ \/ p.eeEnd]
    BY <1>3, <1>11 DEF ProcessEETag
  <2>2. /\ ee'.packet = p /\ ee'.qwc = p.qwc /\ ee'.str = ee.str /\ ee'.mod = ee.mod
        /\ ee'.tte = ee.tte /\ p \in Agreeing /\ p.qwc \in Nat /\ Sizes[p] = 4 * p.qwc
    BY <1>2, <2>1, PacketFields, AgreeingSize DEF EeType
  <2>3. NextSent' = [packet |-> p, at |-> 0] /\ NextSent.at = 0
    BY <1>4, <1>11, <2>2 DEF NextSent
  <2>4. fifo'.size = fifo.size + 0 /\ Line'[fifo'.size + 1] = NextSent'
    BY <1>1, <2>1, NextLineEnds
  <2>5. \A i \in 1..fifo.size : Line'[i] = Line[i]
    <3>1. Contents(fifo') = Contents(fifo)
      BY <2>1
    <3> QED BY <1>1, <2>1, <3>1, LineEnds, NextLineEnds
  <2>6. p.qwc <= p.qwc /\ 0 + 0 <= Sizes[p] /\ 0 \in Nat
        /\ (IF 0 + 0 = Sizes[p] THEN 0 ELSE 0 + 0) = 0
    BY <2>2
  <2>7. \A k \in 1..0 : Line'[fifo.size + k] = [packet |-> p, at |-> 0 + k - 1]
    OBVIOUS
  <2> QED BY <1>7, <1>11, <2>2, <2>3, <2>4, <2>5, <2>6, <2>7
<1>12. CASE EeMay /\ ee.str /\ ee.qwc > 0 /\ WriteEEtoFifo /\ pending' = pending
  <2> DEFINE k == Smaller(ee.qwc, Free(fifo) \div 4)
             q == ee.packet
             a == 4 * (q.qwc - ee.qwc)
             n == 4 * k
             w == Stretch(q, a, n)
  <2>1. fifo' = Write(fifo, w) /\ ee' = [ee EXCEPT !.qwc = @ - k]
    BY <1>12 DEF WriteEEtoFifo
  <2>2. k \in Nat /\ k <= ee.qwc /\ n <= Free(fifo) /\ n \in Nat
    <3>1. k \in Nat /\ k <= ee.qwc /\ 4 * k <= Free(fifo)
      BY <1>1, <1>2, WholeQuads
    <3> HIDE DEF k
    <3> QED BY <3>1
  <2> HIDE DEF k
  <2>3. a \in Nat /\ a \in Int /\ a < 4 * q.qwc /\ a + n <= 4 * q.qwc /\ Sizes[q] = 4 * q.qwc
    BY <1>2, <1>3, <1>12, <2>2, AgreeingSize
  <2>4. w \in Seq(Words) /\ Len(w) = n
    BY <1>2, <2>2, <2>3, StretchType
  <2>5. \A i \in 1..n : w[i] = [packet |-> q, at |-> a + i - 1]
    BY DEF Stretch
  <2>6. /\ ee'.packet = q /\ ee'.qwc = ee.qwc - k /\ ee'.str = ee.str /\ ee'.mod = ee.mod
        /\ ee'.tte = ee.tte
    BY <1>2, <2>1 DEF EeType
  <2>7. NextSent = [packet |-> q, at |-> a]
    BY <1>12 DEF NextSent
  <2>8. NextSent' = [packet |-> q, at |-> IF a + n = Sizes[q] THEN 0 ELSE a + n]
    <3>1. NextSent' = [packet |-> q, at |-> IF ee'.qwc = 0 THEN 0 ELSE 4 * (q.qwc - ee'.qwc)]
      BY <2>6 DEF NextSent
    <3>2. ee'.qwc = 0 <=> a + n = Sizes[q]
      BY <1>2, <2>2, <2>3, <2>6
    <3>3. 4 * (q.qwc - ee'.qwc) = a + n
      BY <1>2, <2>2, <2>6
    <3> QED BY <3>1, <3>2, <3>3
  <2> HIDE DEF w, a, n
  <2>9. /\ fifo'.size = fifo.size + n /\ Line'[fifo'.size + 1] = NextSent'
        /\ \A i \in 1..fifo.size : Line'[i] = Line[i]
        /\ \A i \in 1..n : Line'[fifo.size + i] = [packet |-> q, at |-> a + i - 1]
    <3>1. Len(w) <= Free(fifo)
      BY <2>2, <2>4
    <3> QED BY <2>1, <2>4, <2>5, <3>1, SentWords
  <2>10. ee'.qwc <= q.qwc
    BY <1>2, <1>3, <2>2, <2>6
  <2> QED BY <1>3, <1>7, <1>12, <2>2, <2>3, <2>6, <2>7, <2>8, <2>9, <2>10
<1>13. CASE EeMay /\ ee.str /\ UNCHANGED <<fifo, ee, pending>>
  BY <1>3, <1>6, <1>13
<1>14. ~(EeMay /\ ee.str /\ BadAddress)
  BY <1>2 DEF BadAddress, CutShort, Accounted, EeMay, EeType
<1>15. EeMay /\ HandleEETransfer =>
         \/ ~ee.str
         \/ ee.str /\ ee.qwc = 0 /\ EndEE
         \/ ee.str /\ ee.qwc = 0 /\ ProcessEETag /\ pending' = pending
         \/ ee.str /\ ee.qwc > 0 /\ WriteEEtoFifo /\ pending' = pending
         \/ ee.str /\ BadAddress
         \/ ee.str /\ UNCHANGED <<fifo, ee, pending>>
  BY DEF HandleEETransfer
<1> QED BY <1>8, <1>9, <1>10, <1>11, <1>12, <1>13, <1>14, <1>15 DEF EeTurn

\* A turn of the IOP goes along the line: through the words it counts, then to a tag.
LEMMA IopAgreed ==
  ASSUME Inv, AgreedInv, agreed, IopTurn
  PROVE  AgreedInv'
<1>1. /\ fifo \in Fifos(Words) /\ Sound(fifo) /\ fifo.size \in Nat /\ ee' = ee
  BY Room DEF IopTurn
<1>2. /\ iop \in IopType /\ iop.counter \in Nat /\ iop.packet \in Packets
  BY DEF Inv, TypeOK, IopType
<1>3. /\ ee.mod = "CHAIN" /\ ~ee.tte /\ ee.packet \in Agreeing /\ ee.qwc <= ee.packet.qwc
      /\ ~ee.str \/ "EE" \in pending => ee.qwc = 0
      /\ iop.counter # 0 => iop.packet \in Agreeing /\ iop.counter <= iop.packet.words
      /\ InLine(Line, fifo.size + 1, Packets, Sizes)
      /\ \A i \in 1..fifo.size : Line[i].packet \in Agreeing
      /\ HeadRight(Line[1], iop.counter, iop.packet)
  BY DEF AgreedInv
<1>4. "EE" \in pending' <=> "EE" \in pending
  <2>1. pending' = pending \/ pending' = pending \cup {"IOP"}
    BY DEF IopTurn, HandleIOPTransfer, EndIOP, SIFIOPReadTag
  <2> QED BY <2>1
<1>5. ASSUME NEW n \in 0..fifo.size, fifo' = Drop(fifo, n),
             HeadRight(Line[n + 1], iop'.counter, iop'.packet),
             iop'.counter # 0 => iop'.packet \in Agreeing /\ iop'.counter <= iop'.packet.words
      PROVE  AgreedInv'
  <2>1. /\ InLine(Line', fifo'.size + 1, Packets, Sizes)
        /\ \A i \in 1..fifo'.size : Line'[i].packet \in Agreeing
        /\ HeadRight(Line'[1], iop'.counter, iop'.packet)
    BY <1>1, <1>5, IopTakes
  <2> QED BY <1>1, <1>3, <1>4, <1>5, <2>1 DEF AgreedInv
<1>6. CASE ~IopMay
  <2>1. UNCHANGED <<fifo, iop, ee, pending>>
    BY <1>6 DEF IopTurn
  <2>2. Line' = Line
    BY <2>1 DEF Line, Contents, NextSent
  <2> QED BY <1>3, <2>1, <2>2 DEF AgreedInv
<1>7. CASE IopMay /\ HandleIOPTransfer
  <2> DEFINE n == Smaller(iop.counter, fifo.size)
             f == Drop(fifo, n)
             counter == iop.counter - n
  <2>1. n \in 0..fifo.size /\ n <= iop.counter /\ n \in Nat /\ counter \in Nat
    <3>1. PICK x \in Nat, y \in Nat : x = iop.counter /\ y = fifo.size
      BY <1>1, <1>2
    <3>2. Smaller(x, y) \in 0..y /\ Smaller(x, y) <= x /\ x - Smaller(x, y) \in Nat
      BY DEF Smaller
    <3> QED BY <3>1, <3>2
  <2>2. \/ counter = 0 /\ iop.end /\ EndIOP(f)
        \/ counter = 0 /\ ~iop.end /\ f.size >= 4 /\ SIFIOPReadTag(f)
        \/ iop' = [iop EXCEPT !.counter = counter] /\ fifo' = f /\ pending' = pending
    BY <1>7 DEF HandleIOPTransfer, AfterWrite
  <2> HIDE DEF n
  <2>3. f \in Fifos(Words) /\ Sound(f) /\ f.size = fifo.size - n
    BY <1>1, <2>1, DropSound
  <2>4. HeadRight(Line[n + 1], counter, iop.packet)
    <3>1. CASE iop.counter = 0
      <4>1. n = 0 /\ counter = 0
        BY <2>1, <3>1
      <4> QED BY <1>3, <3>1, <4>1 DEF HeadRight
    <3>2. CASE iop.counter > 0
      <4>1. Line[1] = [packet |-> iop.packet, at |-> 4 + iop.packet.words - iop.counter]
        BY <1>3, <3>2 DEF HeadRight
      <4>2. 1 \in 1..(fifo.size + 1) /\ 1 + n <= fifo.size + 1 /\ 1 + n = n + 1
        BY <1>1, <2>1
      <4>3. iop.packet \in Agreeing
        BY <1>3, <3>2
      <4>4. HeadRight(Line[1 + n], iop.counter - n, iop.packet)
        BY <1>2, <1>3, <2>1, <3>2, <4>1, <4>2, <4>3, HeadMoves
      <4> QED BY <4>2, <4>4
    <3> QED BY <1>2, <3>1, <3>2
  <2> HIDE DEF f, counter
  <2>5. CASE counter = 0 /\ EndIOP(f)
    <3>1. iop'.counter = 0 /\ iop'.packet = iop.packet /\ fifo' = f
      BY <1>2, <2>5 DEF EndIOP, IopType
    <3> QED BY <1>5, <2>1, <2>4, <2>5, <3>1 DEF f
  <2>6. CASE iop' = [iop EXCEPT !.counter = counter] /\ fifo' = f
    <3>1. iop'.counter = counter /\ iop'.packet = iop.packet
      BY <1>2, <2>6 DEF IopType
    <3>2. counter # 0 => iop.packet \in Agreeing /\ counter <= iop.packet.words
      <4>1. counter <= iop.counter
        BY <1>2, <2>1 DEF counter
      <4> QED BY <1>2, <1>3, <2>1, <4>1, PacketFields
    <3> QED BY <1>5, <2>1, <2>4, <2>6, <3>1, <3>2 DEF f
  <2>7. CASE counter = 0 /\ f.size >= 4 /\ SIFIOPReadTag(f)
    <3>1. /\ n + 1 \in 1..fifo.size /\ n + 1 \in 1..(fifo.size + 1)
          /\ n + 1 + 4 = n + 4 + 1 /\ n + 4 + 1 <= fifo.size + 1 /\ n + 4 \in 0..fifo.size
      BY <1>1, <2>1, <2>3, <2>7
    <3>2. Line[n + 1].at = 0
      BY <2>4, <2>7 DEF HeadRight
    <3>3. Front(f, 1)[1] = Line[n + 1]
      <4>1. Front(f, 1)[1] = f.data[f.readPos]
        BY <2>3, FifoFields, WidthType DEF Front, Slots, Smaller
      <4>2. f.data[f.readPos] = fifo.data[Wrap(fifo.readPos + n)]
        BY <1>1, FifoFields DEF f, Drop
      <4>3. Line[n + 1] = Contents(fifo)[n + 1]
        BY <3>1, LineEnds
      <4>4. Contents(fifo)[n + 1] = fifo.data[Wrap(fifo.readPos + (n + 1) - 1)]
        BY <1>1, <3>1, ContentsType
      <4>5. fifo.readPos + (n + 1) - 1 = fifo.readPos + n
        BY <1>1, <2>1, FifoFields, WidthType DEF Slots
      <4> QED BY <4>1, <4>2, <4>3, <4>4, <4>5
    <3>4. PICK p : p = Line[n + 1].packet
      OBVIOUS
    <3>5. HeadTags(f) = {p}
      BY <3>2, <3>3, <3>4 DEF HeadTags
    <3>6. /\ iop' = [iop EXCEPT !.packet = p, !.counter = p.words, !.end = @ \/ p.iopEnd]
          /\ fifo' = Drop(f, 4)
      BY <2>7, <3>5 DEF SIFIOPReadTag
    <3>7. p \in Agreeing /\ p \in Packets /\ p.words \in Nat
      BY <1>3, <3>1, <3>4, PacketFields DEF Agreeing
    <3>8. Line[n + 1] = [packet |-> p, at |-> 4 + p.words - (p.words + 4)]
      <4>1. Line[n + 1] \in [packet : Packets, at : Nat]
        BY <1>1, <1>3, <3>1 DEF InLine
      <4>2. 4 + p.words - (p.words + 4) = 0
        BY <3>7
      <4> QED BY <3>2, <3>4, <4>1, <4>2
    <3>9. HeadRight(Line[n + 1 + 4], (p.words + 4) - 4, p)
      <4>1. /\ p.words + 4 \in Nat /\ p.words + 4 > 0 /\ 4 \in Nat /\ 4 <= p.words + 4
            /\ n + 1 + 4 <= fifo.size + 1
        BY <3>1, <3>7
      <4> QED BY <1>3, <3>1, <3>7, <3>8, <4>1, HeadMoves
    <3>10. HeadRight(Line[n + 4 + 1], p.words, p)
      <4>1. (p.words + 4) - 4 = p.words
        BY <3>7
      <4> QED BY <3>1, <3>9, <4>1
    <3>11. fifo' = Drop(fifo, n + 4)
      <4>1. n + 4 <= fifo.size /\ 4 \in Nat
        BY <3>1
      <4> QED BY <1>1, <2>1, <3>6, <4>1, DropTwice DEF f
    <3>12. iop'.packet = p /\ iop'.counter = p.words
      BY <1>2, <3>6 DEF IopType
    <3>13. p.words <= p.words
      BY <3>7
    <3> QED BY <1>5, <3>1, <3>7, <3>10, <3>11, <3>12, <3>13
  <2> QED BY <2>2, <2>5, <2>6, <2>7
<1> QED BY <1>6, <1>7 DEF IopTurn

\* The programs leave the line alone, and start and stop only what is at its end.
LEMMA ProgramAgreed ==
  ASSUME Inv, Accounted, AgreedInv, agreed, ~CutShort, ee'.mod = "CHAIN", ~ee'.tte,
         psxDma10 \/ dmaSIF1 \/ ForceStop \/ sif1Interrupt \/ EEsif1Interrupt \/ UNCHANGED vars
  PROVE  AgreedInv'
<1>1. /\ ee \in EeType /\ iop \in IopType /\ pending \subseteq {"EE", "IOP"}
  BY DEF Inv, TypeOK
<1>2. /\ ee.mod = "CHAIN" /\ ~ee.tte /\ ee.packet \in Agreeing /\ ee.qwc <= ee.packet.qwc
      /\ ~ee.str \/ "EE" \in pending => ee.qwc = 0
      /\ iop.counter # 0 => iop.packet \in Agreeing /\ iop.counter <= iop.packet.words
      /\ InLine(Line, fifo.size + 1, Packets, Sizes)
      /\ \A i \in 1..fifo.size : Line[i].packet \in Agreeing
      /\ HeadRight(Line[1], iop.counter, iop.packet)
  BY DEF AgreedInv
<1>3. ASSUME fifo' = fifo, iop'.packet = iop.packet, iop'.counter = iop.counter,
             ee'.qwc = ee.qwc, ee'.packet = ee.packet,
             ~ee'.str \/ "EE" \in pending' => ee'.qwc = 0
      PROVE  AgreedInv'
  <2>1. Line' = Line
    BY <1>3 DEF Line, Contents, NextSent
  <2> QED BY <1>2, <1>3, <2>1 DEF AgreedInv
<1>4. CASE psxDma10
  BY <1>1, <1>2, <1>3, <1>4 DEF psxDma10, IopType
<1>5. CASE dmaSIF1
  <2>1. PICK m \in Modes, t \in Ttes, p \in Packets :
          ee' = [ee EXCEPT !.str = TRUE, !.mod = m, !.tte = t, !.busy = TRUE,
                           !.qwc = IF m = "NORMAL" THEN p.qwc ELSE 0,
                           !.packet = IF m = "NORMAL" THEN p ELSE @]
    BY <1>5 DEF dmaSIF1
  <2>2. m = "CHAIN"
    BY <1>1, <2>1 DEF EeType
  <2>3. ee'.qwc = 0 /\ ee'.packet = ee.packet
    BY <1>1, <2>1, <2>2 DEF EeType
  <2>4. ee.qwc = 0 /\ UNCHANGED <<fifo, iop, pending>>
    BY <1>2, <1>5 DEF dmaSIF1
  <2> QED BY <1>3, <2>3, <2>4
<1>6. CASE ForceStop
  <2>1. "EE" \in pending
    BY <1>1, <1>6 DEF ForceStop, CutShort, EeType
  <2> QED BY <1>1, <1>2, <1>3, <1>6, <2>1 DEF ForceStop, EeType
<1>7. CASE sif1Interrupt
  BY <1>1, <1>2, <1>3, <1>7 DEF sif1Interrupt, IopType
<1>8. CASE EEsif1Interrupt
  BY <1>1, <1>2, <1>3, <1>8 DEF EEsif1Interrupt, EeType
<1>9. CASE UNCHANGED vars
  BY <1>2, <1>3, <1>9 DEF vars
<1> QED BY <1>4, <1>5, <1>6, <1>7, <1>8, <1>9

\* As long as the two programs agree on every packet, no tag of the EE is sent and no
\* transfer is cut short, the IOP finds each tag where the EE program has put it, and
\* between two tags all the words of the packet in their order.
THEOREM IopStaysInStep ==
  ASSUME EvenCounts
  PROVE  AgreedSpec => []AgreedInStep
<1>1. AgreedSpec => Spec
  <2>1. AgreedInit => Init
    BY DEF AgreedInit
  <2>2. [AgreedNext]_<<vars, agreed>> => [Next]_vars
    BY DEF AgreedNext, vars
  <2> QED BY <2>1, <2>2, PTL DEF AgreedSpec, Spec
<1>2. Inv /\ Accounted /\ AgreedInv /\ [AgreedNext]_<<vars, agreed>> => AgreedInv'
  <2> SUFFICES ASSUME Inv, Accounted, AgreedInv, [AgreedNext]_<<vars, agreed>>, agreed'
               PROVE  AgreedInv'
    BY DEF AgreedInv
  <2>1. CASE UNCHANGED <<vars, agreed>>
    <3>1. UNCHANGED vars /\ agreed /\ ee' = ee
      BY <2>1 DEF vars
    <3>2. ~CutShort /\ ee'.mod = "CHAIN" /\ ~ee'.tte
      BY <3>1 DEF CutShort, AgreedInv
    <3> QED BY <3>1, <3>2, ProgramAgreed
  <2>2. CASE AgreedNext
    <3>1. /\ agreed /\ ee'.packet \in Agreeing /\ ee'.mod = "CHAIN" /\ ~ee'.tte
          /\ ~CutShort /\ Next
      BY <2>2 DEF AgreedNext
    <3>2. CASE EeTurn
      BY <3>1, <3>2, EeAgreed
    <3>3. CASE IopTurn
      BY <3>1, <3>3, IopAgreed
    <3> QED BY <3>1, <3>2, <3>3, ProgramAgreed DEF Next, Turn
  <2> QED BY <2>1, <2>2
<1>3. Inv /\ AgreedInv => AgreedInStep
  <2> SUFFICES ASSUME Inv, AgreedInv, agreed PROVE InStep
    BY DEF AgreedInStep
  <2>1. /\ InLine(Line, fifo.size + 1, Packets, Sizes) /\ fifo.size \in Nat
        /\ HeadRight(Line[1], iop.counter, iop.packet)
    BY LineEnds DEF AgreedInv
  <2>2. ASSUME NEW i \in 1..fifo.size PROVE Follows(Line[i], Line[i + 1])
    <3>1. fifo.size + 1 \in Nat /\ i \in 1..((fifo.size + 1) - 1)
      BY <2>1
    <3>2. IF Line[i].at + 1 < Sizes[Line[i].packet]
            THEN Line[i + 1] = [Line[i] EXCEPT !.at = @ + 1] ELSE Line[i + 1].at = 0
      BY <2>1, <3>1, LineFollows, AgreeingSize, ProgramAssumption
    <3>3. Line[i].packet \in Packets
      BY <2>1, <3>1 DEF InLine
    <3>4. Sizes[Line[i].packet] = 4 * Line[i].packet.qwc
      BY <3>3, AgreeingSize
    <3> QED BY <3>2, <3>4 DEF Follows
  <2> QED BY <2>1, <2>2 DEF InStep, HeadRight
<1> QED BY <1>1, <1>2, <1>3, InitAgreed, InvHolds, ChannelsAccounted, PTL DEF AgreedSpec
=============================================================================
