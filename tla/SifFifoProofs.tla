--------------------------- MODULE SifFifoProofs ---------------------------
(***************************************************************************)
(* What the operations of the SIF's FIFO do to the queue it stands for,    *)
(* for a ring of any size: used by Sif0Proofs and Sif1Proofs.              *)
(***************************************************************************)
EXTENDS SifFifo, SequenceTheorems, TLAPS

LEMMA WidthType == FIFO_SIF_W \in Nat /\ FIFO_SIF_W >= 4 /\ FIFO_SIF_W = 4 * FifoQuads
  BY FifoAssumption DEF FIFO_SIF_W

LEMMA WrapType ==
  ASSUME NEW x \in 0..(2 * FIFO_SIF_W - 1)
  PROVE  Wrap(x) \in Slots
  BY WidthType DEF Wrap, Slots

LEMMA FifoFields ==
  ASSUME NEW S, NEW f \in Fifos(S)
  PROVE  /\ f.data \in [Slots -> S] /\ f.readPos \in Slots /\ f.writePos \in Slots
         /\ f.size \in Int
         /\ f = [data |-> f.data, readPos |-> f.readPos, writePos |-> f.writePos,
                 size |-> f.size]
  BY DEF Fifos

LEMMA FreeBound ==
  ASSUME NEW S, NEW f \in Fifos(S), Sound(f)
  PROVE  Free(f) \in 0..FIFO_SIF_W /\ f.size \in 0..FIFO_SIF_W
  BY WidthType, FifoFields DEF Free, Sound

\* memzero leaves a FIFO that holds nothing.
LEMMA ClearedSound ==
  ASSUME NEW S, NEW w \in S
  PROVE  Cleared(w) \in Fifos(S) /\ Sound(Cleared(w)) /\ Cleared(w).size = 0
  BY WidthType DEF Cleared, Fifos, Sound, Wrap, Slots

\* write() keeps the ring sound when there is room for all the words.
LEMMA WriteSound ==
  ASSUME NEW S, NEW f \in Fifos(S), Sound(f), NEW w \in Seq(S), Len(w) <= Free(f)
  PROVE  /\ Write(f, w) \in Fifos(S)
         /\ Sound(Write(f, w))
         /\ Write(f, w).size = f.size + Len(w)
<1> DEFINE wP0 == Smaller(FIFO_SIF_W - f.writePos, Len(w))
           wP1 == Len(w) - wP0
           d == [i \in Slots |->
                   IF i < wP1 THEN w[wP0 + i + 1]
                   ELSE IF i \in f.writePos..(f.writePos + wP0 - 1)
                        THEN w[i - f.writePos + 1]
                        ELSE f.data[i]]
<1>1. Len(w) \in Nat /\ \A i \in 1..Len(w) : w[i] \in S
  OBVIOUS
<1>2. f.writePos \in 0..(FIFO_SIF_W - 1) /\ f.data \in [Slots -> S]
  BY FifoFields DEF Slots
<1>3. wP0 \in 0..Len(w) /\ wP1 \in 0..Len(w) /\ wP0 + wP1 = Len(w)
  BY <1>1, <1>2, WidthType DEF Smaller
<1>4. d \in [Slots -> S]
  <2>1. SUFFICES ASSUME NEW i \in Slots PROVE d[i] \in S
    OBVIOUS
  <2>2. i \in Nat
    BY WidthType DEF Slots
  <2>3. CASE i < wP1
    <3>1. wP0 + i + 1 \in 1..Len(w)
      BY <1>1, <1>3, <2>2, <2>3
    <3> HIDE DEF wP0, wP1
    <3> QED BY <1>1, <2>3, <3>1
  <2>4. CASE ~(i < wP1) /\ i \in f.writePos..(f.writePos + wP0 - 1)
    <3>1. i - f.writePos + 1 \in 1..Len(w)
      BY <1>1, <1>2, <1>3, <2>2, <2>4
    <3> HIDE DEF wP0, wP1
    <3> QED BY <1>1, <2>4, <3>1
  <2>5. CASE ~(i < wP1) /\ i \notin f.writePos..(f.writePos + wP0 - 1)
    <3> HIDE DEF wP0, wP1
    <3> QED BY <1>2, <2>5
  <2> QED BY <2>3, <2>4, <2>5
<1>5. /\ Write(f, w).data = d /\ Write(f, w).readPos = f.readPos
      /\ Write(f, w).writePos = Wrap(f.writePos + Len(w))
      /\ Write(f, w).size = f.size + Len(w)
      /\ Write(f, w) = [data |-> d, readPos |-> f.readPos,
                        writePos |-> Wrap(f.writePos + Len(w)), size |-> f.size + Len(w)]
  <2>1. f = [data |-> f.data, readPos |-> f.readPos, writePos |-> f.writePos,
             size |-> f.size]
    BY FifoFields
  <2>2. Write(f, w) = [f EXCEPT !.data = d, !.writePos = Wrap(@ + Len(w)),
                                !.size = @ + Len(w)]
    BY DEF Write
  <2> HIDE DEF d, wP0, wP1
  <2> QED BY <2>1, <2>2
<1>6. f.size \in 0..FIFO_SIF_W /\ Len(w) + f.size <= FIFO_SIF_W /\ f.readPos \in Slots
  <2>1. f.size \in 0..FIFO_SIF_W /\ f.readPos \in Slots
    BY FifoFields, FreeBound
  <2>2. Len(w) <= FIFO_SIF_W - f.size
    BY DEF Free
  <2> QED BY <1>1, <2>1, <2>2, WidthType
<1>7. Wrap(f.writePos + Len(w)) \in Slots
  BY <1>1, <1>2, <1>6, WrapType, WidthType
<1>8. Wrap(f.writePos + Len(w)) = Wrap(f.readPos + f.size + Len(w))
  BY <1>1, <1>2, <1>6, WidthType DEF Sound, Wrap, Slots
<1> HIDE DEF d, wP0, wP1
<1>9. Write(f, w) \in Fifos(S)
  BY <1>1, <1>4, <1>5, <1>6, <1>7 DEF Fifos
<1>10. Sound(Write(f, w))
  <2>1. f.size + Len(w) \in 0..FIFO_SIF_W
    BY <1>1, <1>6, WidthType
  <2>2. f.readPos + f.size + Len(w) = f.readPos + (f.size + Len(w))
    BY <1>1, <1>6, WidthType DEF Slots
  <2> QED BY <1>5, <1>8, <2>1, <2>2 DEF Sound
<1> QED BY <1>5, <1>9, <1>10

\* read() keeps it sound when there are as many words.
LEMMA DropSound ==
  ASSUME NEW S, NEW f \in Fifos(S), Sound(f), NEW n \in 0..f.size
  PROVE  /\ Drop(f, n) \in Fifos(S)
         /\ Sound(Drop(f, n))
         /\ Drop(f, n).size = f.size - n
<1>1. /\ Drop(f, n) = [data |-> f.data, readPos |-> Wrap(f.readPos + n),
                       writePos |-> f.writePos, size |-> f.size - n]
  <2>1. f = [data |-> f.data, readPos |-> f.readPos, writePos |-> f.writePos,
             size |-> f.size]
    BY FifoFields
  <2>2. Drop(f, n) = [f EXCEPT !.readPos = Wrap(@ + n), !.size = @ - n]
    BY DEF Drop
  <2> QED BY <2>1, <2>2
<1>2. f.readPos \in 0..(FIFO_SIF_W - 1) /\ f.size \in 0..FIFO_SIF_W /\ n \in 0..FIFO_SIF_W
  <2>1. f.size \in 0..FIFO_SIF_W
    BY FreeBound
  <2>2. f.readPos \in Slots
    BY FifoFields
  <2> QED BY <2>1, <2>2, WidthType DEF Slots
<1>3. Wrap(f.readPos + n) \in Slots
  BY <1>2, WrapType, WidthType
<1>4. f.writePos = Wrap(Wrap(f.readPos + n) + (f.size - n))
  BY <1>2, WidthType DEF Sound, Wrap
<1>5. f.data \in [Slots -> S] /\ f.writePos \in Slots
  BY FifoFields
<1>6. f.size - n \in 0..FIFO_SIF_W
  BY <1>2, WidthType
<1> DEFINE g == Drop(f, n)
<1>7. g \in Fifos(S)
  BY <1>1, <1>3, <1>5, <1>6 DEF Fifos
<1>8. Sound(g)
  BY <1>1, <1>4, <1>6 DEF Sound
<1> QED BY <1>1, <1>7, <1>8

-----------------------------------------------------------------------------
(* ... and to the words that wait in it. *)

LEMMA ContentsType ==
  ASSUME NEW S, NEW f \in Fifos(S), Sound(f)
  PROVE  /\ Contents(f) \in Seq(S) /\ Len(Contents(f)) = f.size
         /\ f.size \in 0..FIFO_SIF_W /\ DOMAIN Contents(f) = 1..f.size
         /\ \A i \in 1..f.size : Contents(f)[i] = f.data[Wrap(f.readPos + i - 1)]
<1>1. f.size \in 0..FIFO_SIF_W /\ f.readPos \in 0..(FIFO_SIF_W - 1) /\ f.data \in [Slots -> S]
  <2>1. f.size \in 0..FIFO_SIF_W
    BY FreeBound
  <2>2. f.readPos \in Slots /\ f.data \in [Slots -> S]
    BY FifoFields
  <2> QED BY <2>1, <2>2 DEF Slots
<1>2. \A i \in 1..f.size : Wrap(f.readPos + i - 1) \in Slots
  BY <1>1, WidthType DEF Wrap, Slots
<1>3. \A i \in 1..f.size : f.data[Wrap(f.readPos + i - 1)] \in S
  BY <1>1, <1>2
<1>4. f.size \in Nat
  BY <1>1, WidthType
<1>5. /\ Contents(f) = [i \in 1..f.size |-> f.data[Wrap(f.readPos + i - 1)]]
      /\ DOMAIN Contents(f) = 1..f.size
      /\ \A i \in 1..f.size : Contents(f)[i] = f.data[Wrap(f.readPos + i - 1)]
  BY DEF Contents
<1>6. Contents(f) \in Seq(S)
  <2>1. Contents(f) \in [1..f.size -> S]
    BY <1>3, <1>5
  <2> QED BY <2>1, <1>4
<1>7. Len(Contents(f)) = f.size
  BY <1>4, <1>5, <1>6
<1> QED BY <1>1, <1>5, <1>6, <1>7

\* read() takes the oldest words off the queue.
LEMMA DropContents ==
  ASSUME NEW S, NEW f \in Fifos(S), Sound(f), NEW n \in 0..f.size
  PROVE  Contents(Drop(f, n)) = SubSeq(Contents(f), n + 1, f.size)
<1> DEFINE g == Drop(f, n)
<1>1. g \in Fifos(S) /\ Sound(g) /\ g.size = f.size - n
  BY DropSound
<1>2. f.size \in 0..FIFO_SIF_W /\ n \in 0..FIFO_SIF_W /\ f.readPos \in 0..(FIFO_SIF_W - 1)
  <2>1. f.size \in 0..FIFO_SIF_W
    BY FreeBound
  <2>2. f.readPos \in Slots
    BY FifoFields
  <2> QED BY <2>1, <2>2, WidthType DEF Slots
<1>3. g.data = f.data /\ g.readPos = Wrap(f.readPos + n)
  <2>1. f = [data |-> f.data, readPos |-> f.readPos, writePos |-> f.writePos,
             size |-> f.size]
    BY FifoFields
  <2>2. g = [f EXCEPT !.readPos = Wrap(@ + n), !.size = @ - n]
    BY DEF Drop
  <2> HIDE DEF g
  <2> QED BY <2>1, <2>2
<1> HIDE DEF g
<1>4. \A i \in 1..(f.size - n) : Wrap(g.readPos + i - 1) = Wrap(f.readPos + (i + n) - 1)
  BY <1>2, <1>3, WidthType DEF Wrap
<1>5. Contents(g) = [i \in 1..(f.size - n) |-> f.data[Wrap(f.readPos + (i + n) - 1)]]
  BY <1>1, <1>3, <1>4 DEF Contents
<1>6. SubSeq(Contents(f), n + 1, f.size)
        = [i \in 1..(f.size - n) |-> Contents(f)[i + n]]
  BY <1>2, ContentsType, WidthType
<1>7. \A i \in 1..(f.size - n) : Contents(f)[i + n] = f.data[Wrap(f.readPos + (i + n) - 1)]
  BY <1>2, ContentsType, WidthType
<1>8. Contents(g) = SubSeq(Contents(f), n + 1, f.size)
  BY <1>5, <1>6, <1>7
<1> QED BY <1>8 DEF g

\* write() appends the words to the queue and changes none that wait.
LEMMA WriteContents ==
  ASSUME NEW S, NEW f \in Fifos(S), Sound(f), NEW w \in Seq(S), Len(w) <= Free(f)
  PROVE  Contents(Write(f, w)) = Contents(f) \o w
<1> DEFINE g == Write(f, w)
           wP0 == Smaller(FIFO_SIF_W - f.writePos, Len(w))
           wP1 == Len(w) - wP0
           d == [i \in Slots |->
                   IF i < wP1 THEN w[wP0 + i + 1]
                   ELSE IF i \in f.writePos..(f.writePos + wP0 - 1)
                        THEN w[i - f.writePos + 1]
                        ELSE f.data[i]]
<1>1. g \in Fifos(S) /\ Sound(g) /\ g.size = f.size + Len(w)
  BY WriteSound
<1>2. /\ Len(w) \in Nat /\ f.size \in 0..FIFO_SIF_W /\ f.size + Len(w) <= FIFO_SIF_W
      /\ f.readPos \in 0..(FIFO_SIF_W - 1) /\ f.writePos \in 0..(FIFO_SIF_W - 1)
      /\ f.writePos = Wrap(f.readPos + f.size)
  <2>1. f.size \in 0..FIFO_SIF_W
    BY FreeBound
  <2>2. f.readPos \in Slots /\ f.writePos \in Slots
    BY FifoFields
  <2>3. Len(w) \in Nat /\ Len(w) <= FIFO_SIF_W - f.size
    BY DEF Free
  <2>4. f.writePos = Wrap(f.readPos + f.size)
    BY DEF Sound
  <2> QED BY <2>1, <2>2, <2>3, <2>4, WidthType DEF Slots
<1>3. g.data = d /\ g.readPos = f.readPos
  <2>1. f = [data |-> f.data, readPos |-> f.readPos, writePos |-> f.writePos,
             size |-> f.size]
    BY FifoFields
  <2>2. g = [f EXCEPT !.data = d, !.writePos = Wrap(@ + Len(w)), !.size = @ + Len(w)]
    BY DEF Write
  <2> HIDE DEF d, wP0, wP1, g
  <2> QED BY <2>1, <2>2
<1>4. /\ wP0 = IF FIFO_SIF_W - f.writePos < Len(w) THEN FIFO_SIF_W - f.writePos ELSE Len(w)
      /\ wP1 = Len(w) - wP0
  BY DEF Smaller
<1>w. FIFO_SIF_W \in Nat
  BY WidthType
<1>a. \/ wP0 = Len(w) /\ wP1 = 0 /\ f.writePos + Len(w) <= FIFO_SIF_W
      \/ /\ wP0 = FIFO_SIF_W - f.writePos /\ wP1 = Len(w) - wP0
         /\ f.writePos + Len(w) > FIFO_SIF_W
  BY <1>2, <1>4, <1>w
<1>b. \/ f.readPos + f.size < FIFO_SIF_W /\ f.writePos = f.readPos + f.size
      \/ f.readPos + f.size >= FIFO_SIF_W /\ f.writePos = f.readPos + f.size - FIFO_SIF_W
  BY <1>2, <1>w DEF Wrap
<1>5. \A i \in Slots : d[i] = IF i < wP1 THEN w[wP0 + i + 1]
                              ELSE IF i \in f.writePos..(f.writePos + wP0 - 1)
                                   THEN w[i - f.writePos + 1]
                                   ELSE f.data[i]
  OBVIOUS
<1> HIDE DEF d, wP0, wP1, g
<1>c. ASSUME NEW i \in 1..(f.size + Len(w)), NEW s, s = Wrap(f.readPos + i - 1)
      PROVE  /\ s \in Slots
             /\ i <= f.size => ~(s < wP1) /\ s \notin f.writePos..(f.writePos + wP0 - 1)
             /\ i > f.size /\ i - f.size <= wP0 =>
                  /\ ~(s < wP1) /\ s \in f.writePos..(f.writePos + wP0 - 1)
                  /\ s - f.writePos + 1 = i - f.size
             /\ i > f.size /\ ~(i - f.size <= wP0) => s < wP1 /\ wP0 + s + 1 = i - f.size
  <2>1. /\ f.readPos \in Nat /\ f.size \in Nat /\ Len(w) \in Nat /\ f.writePos \in Nat
        /\ i \in Nat /\ i >= 1 /\ i <= f.size + Len(w)
        /\ f.readPos < FIFO_SIF_W /\ f.writePos < FIFO_SIF_W
    BY <1>2, <1>w
  <2>2. wP0 \in Nat /\ wP1 \in Nat
    BY <1>a, <1>2, <1>w
  <2>3. \/ s = f.readPos + i - 1 /\ f.readPos + i - 1 < FIFO_SIF_W
        \/ s = f.readPos + i - 1 - FIFO_SIF_W /\ f.readPos + i - 1 >= FIFO_SIF_W
    BY <2>1, <1>w, <1>c DEF Wrap
  <2>4. s \in Nat /\ s \in Slots
    BY <2>1, <2>3, <1>2, <1>w DEF Slots
  <2>5. PICK m \in Nat, r \in Nat, z \in Nat, n \in Nat, q \in Nat, a \in Nat, b \in Nat,
             j \in Nat, t \in Nat :
               /\ m = FIFO_SIF_W /\ r = f.readPos /\ z = f.size /\ n = Len(w)
               /\ q = f.writePos /\ a = wP0 /\ b = wP1 /\ j = i /\ t = s
    BY <2>1, <2>2, <2>4, <1>w
  <2>6. r < m /\ q < m /\ j >= 1 /\ j <= z + n
    BY <2>1, <2>5
  <2>7. z + n <= m
    BY <1>2, <2>5
  <2>8. \/ a = n /\ b = 0 /\ q + n <= m
        \/ a = m - q /\ b = n - a /\ q + n > m
    BY <1>a, <2>5
  <2>9. \/ r + z < m /\ q = r + z
        \/ r + z >= m /\ q = r + z - m
    BY <1>b, <2>5
  <2>10. \/ t = r + j - 1 /\ r + j - 1 < m
         \/ t = r + j - 1 - m /\ r + j - 1 >= m
    BY <2>3, <2>5
  <2>11. /\ j <= z => ~(t < b) /\ t \notin q..(q + a - 1)
         /\ j > z /\ j - z <= a =>
              ~(t < b) /\ t \in q..(q + a - 1) /\ t - q + 1 = j - z
         /\ j > z /\ ~(j - z <= a) => t < b /\ a + t + 1 = j - z
    BY <2>6, <2>7, <2>8, <2>9, <2>10
  <2> QED BY <2>4, <2>5, <2>11
<1>6. ASSUME NEW i \in 1..f.size
      PROVE  d[Wrap(f.readPos + i - 1)] = f.data[Wrap(f.readPos + i - 1)]
  <2>1. i \in 1..(f.size + Len(w)) /\ i <= f.size
    BY <1>2, <1>w
  <2> QED BY <1>5, <1>c, <2>1
<1>7. ASSUME NEW i \in (f.size + 1)..(f.size + Len(w))
      PROVE  d[Wrap(f.readPos + i - 1)] = w[i - f.size]
  <2>1. i \in 1..(f.size + Len(w)) /\ i > f.size
    BY <1>2, <1>w
  <2>2. CASE i - f.size <= wP0
    BY <1>5, <1>c, <2>1, <2>2
  <2>3. CASE ~(i - f.size <= wP0)
    BY <1>5, <1>c, <2>1, <2>3
  <2> QED BY <2>2, <2>3
<1>8. /\ Contents(g) \in Seq(S) /\ Len(Contents(g)) = f.size + Len(w)
      /\ \A i \in 1..(f.size + Len(w)) : Contents(g)[i] = d[Wrap(f.readPos + i - 1)]
  BY <1>1, <1>3, ContentsType
<1>9. /\ Contents(f) \in Seq(S) /\ Len(Contents(f)) = f.size
      /\ \A i \in 1..f.size : Contents(f)[i] = f.data[Wrap(f.readPos + i - 1)]
  BY ContentsType
<1>10. \A i \in 1..f.size : Contents(g)[i] = Contents(f)[i]
  BY <1>2, <1>6, <1>8, <1>9
<1>11. \A i \in (f.size + 1)..(f.size + Len(w)) : Contents(g)[i] = w[i - f.size]
  BY <1>2, <1>7, <1>8
<1>12. Contents(g) = Contents(f) \o w
  <2>1. /\ Contents(f) \o w \in Seq(S) /\ Len(Contents(f) \o w) = f.size + Len(w)
        /\ \A i \in 1..(f.size + Len(w)) : (Contents(f) \o w)[i]
               = IF i <= f.size THEN Contents(f)[i] ELSE w[i - f.size]
    <3> DEFINE c == Contents(f)
    <3>1. c \in Seq(S) /\ Len(c) = f.size
      BY <1>9
    <3> HIDE DEF c
    <3>2. /\ c \o w \in Seq(S) /\ Len(c \o w) = Len(c) + Len(w)
          /\ \A i \in 1..(Len(c) + Len(w)) :
               (c \o w)[i] = IF i <= Len(c) THEN c[i] ELSE w[i - Len(c)]
      BY <3>1, ConcatProperties
    <3>3. /\ c \o w \in Seq(S) /\ Len(c \o w) = f.size + Len(w)
          /\ \A i \in 1..(f.size + Len(w)) :
               (c \o w)[i] = IF i <= f.size THEN c[i] ELSE w[i - f.size]
      BY <3>1, <3>2
    <3> QED BY <3>3 DEF c
  <2>2. \A i \in 1..(f.size + Len(w)) : Contents(g)[i] = (Contents(f) \o w)[i]
    BY <1>2, <1>10, <1>11, <1>w, <2>1
  <2> HIDE DEF g
  <2> QED BY <1>8, <2>1, <2>2, SeqEqual
<1> QED BY <1>12 DEF g

\* The same, as the step of a bounded stream: what waited is still there, and some words
\* of S have come behind it.
LEMMA WriteAppends ==
  ASSUME NEW S, NEW f \in Fifos(S), Sound(f), NEW w \in Seq(S), w # <<>>, Len(w) <= Free(f)
  PROVE  /\ Len(Contents(f)) < FIFO_SIF_W
         /\ Len(Contents(Write(f, w))) \in (Len(Contents(f)) + 1)..FIFO_SIF_W
         /\ SubSeq(Contents(Write(f, w)), 1, Len(Contents(f))) = Contents(f)
         /\ \A i \in (Len(Contents(f)) + 1)..Len(Contents(Write(f, w))) :
              Contents(Write(f, w))[i] \in S
<1> DEFINE c == Contents(f)
           d == Contents(Write(f, w))
<1>1. c \in Seq(S) /\ Len(c) = f.size /\ f.size \in 0..FIFO_SIF_W
  BY ContentsType
<1>2. d = c \o w
  BY WriteContents
<1>3. Len(w) \in Nat /\ Len(w) > 0 /\ f.size + Len(w) <= FIFO_SIF_W
  <2>1. Len(w) \in Nat /\ Len(w) > 0
    OBVIOUS
  <2> QED BY <1>1, <2>1, WidthType DEF Free
<1> HIDE DEF c, d
<1>4. d \in Seq(S) /\ Len(d) = Len(c) + Len(w)
  BY <1>1, <1>2, ConcatProperties
<1>5. /\ Len(c) < FIFO_SIF_W
      /\ Len(d) \in (Len(c) + 1)..FIFO_SIF_W
  BY <1>1, <1>3, <1>4, WidthType
<1>6. SubSeq(d, 1, Len(c)) = c
  <2>1. \A i \in 1..Len(c) : d[i] = c[i]
    BY <1>1, <1>2, <1>3, ConcatProperties
  <2>2. /\ SubSeq(d, 1, Len(c)) \in Seq(S) /\ Len(SubSeq(d, 1, Len(c))) = Len(c)
        /\ \A i \in 1..Len(c) : SubSeq(d, 1, Len(c))[i] = d[i]
    BY <1>1, <1>4, <1>3
  <2> QED BY <1>1, <2>1, <2>2, SeqEqual
<1>7. \A i \in (Len(c) + 1)..Len(d) : d[i] \in S
  BY <1>1, <1>4
<1> QED BY <1>5, <1>6, <1>7 DEF c, d

-----------------------------------------------------------------------------
(* A line of words that packets are made of *)

\* In the line L of m words, word by word: the packets follow one another whole, each
\* of as many words as size says.  (The last word of the line may be any.)
InLine(L, m, P, size) ==
  /\ \A i \in 1..m : L[i] \in [packet : P, at : Nat]
  /\ \A i \in 1..(m - 1) : L[i].at < size[L[i].packet]
  /\ \A i \in 1..(m - 1), j \in 1..m : i < j =>
       /\ L[i].at + (j - i) < size[L[i].packet]
            => L[j] = [packet |-> L[i].packet, at |-> L[i].at + (j - i)]
       /\ L[i].at + (j - i) = size[L[i].packet] => L[j].at = 0

LEMMA LineType ==
  ASSUME NEW P, NEW size \in [P -> Nat], NEW L, NEW m \in Nat, InLine(L, m, P, size),
         NEW i \in 1..m
  PROVE  /\ L[i].packet \in P /\ L[i].at \in Nat /\ size[L[i].packet] \in Nat
         /\ L[i] = [packet |-> L[i].packet, at |-> L[i].at]
  BY DEF InLine

\* Words of one packet that follow the line make it longer.
LEMMA LineGrows ==
  ASSUME NEW P, NEW size \in [P -> Nat], NEW L, NEW M, NEW m \in Nat \ {0}, NEW n \in Nat,
         NEW q \in P, NEW a \in Nat,
         InLine(L, m, P, size),
         a + n <= size[q],
         \/ L[m] = [packet |-> q, at |-> a] /\ a < size[q]
         \/ L[m].at = 0 /\ a = 0,
         \A i \in 1..(m - 1) : M[i] = L[i],
         \A k \in 0..(n - 1) : M[m + k] = [packet |-> q, at |-> a + k],
         M[m + n] = [packet |-> q, at |-> IF a + n = size[q] THEN 0 ELSE a + n]
  PROVE  InLine(M, m + n, P, size)
<1>1. \A j \in m..(m + n) :
        /\ M[j] \in [packet : P, at : Nat] /\ M[j].packet = q
        /\ a + (j - m) < size[q] => M[j] = [packet |-> q, at |-> a + (j - m)]
        /\ a + (j - m) = size[q] => M[j].at = 0
        /\ j < m + n => M[j].at = a + (j - m) /\ M[j].at < size[q]
  <2> SUFFICES ASSUME NEW j \in m..(m + n)
               PROVE  /\ M[j] \in [packet : P, at : Nat] /\ M[j].packet = q
                      /\ a + (j - m) < size[q] => M[j] = [packet |-> q, at |-> a + (j - m)]
                      /\ a + (j - m) = size[q] => M[j].at = 0
                      /\ j < m + n => M[j].at = a + (j - m) /\ M[j].at < size[q]
    OBVIOUS
  <2>1. CASE j = m + n
    BY <2>1
  <2>2. CASE j # m + n
    <3>1. j - m \in 0..(n - 1) /\ m + (j - m) = j
      BY <2>2
    <3>2. M[j] = [packet |-> q, at |-> a + (j - m)]
      BY <3>1
    <3>3. size[q] \in Nat
      OBVIOUS
    <3> QED BY <3>1, <3>2, <3>3
  <2> QED BY <2>1, <2>2
<1>2. \A i \in 1..(m - 1) : M[i] = L[i] /\ L[i] \in [packet : P, at : Nat]
                            /\ L[i].at < size[L[i].packet] /\ size[L[i].packet] \in Nat
  BY DEF InLine
<1>3. \A i \in 1..(m + n) : M[i] \in [packet : P, at : Nat]
  <2> TAKE i \in 1..(m + n)
  <2>1. i \in 1..(m - 1) \/ i \in m..(m + n)
    OBVIOUS
  <2>2. i \in 1..(m - 1) => M[i] \in [packet : P, at : Nat]
    BY <1>2
  <2>3. i \in m..(m + n) => M[i] \in [packet : P, at : Nat]
    BY <1>1
  <2> QED BY <2>1, <2>2, <2>3
<1>4. \A i \in 1..(m + n - 1) : M[i].at < size[M[i].packet]
  <2> TAKE i \in 1..(m + n - 1)
  <2>1. i \in 1..(m - 1) \/ (i \in m..(m + n) /\ i < m + n)
    OBVIOUS
  <2>2. i \in 1..(m - 1) => M[i].at < size[M[i].packet]
    BY <1>2
  <2>3. i \in m..(m + n) /\ i < m + n => M[i].at < size[M[i].packet]
    BY <1>1
  <2> QED BY <2>1, <2>2, <2>3
<1>5. ASSUME NEW i \in 1..(m + n - 1), NEW j \in 1..(m + n), i < j
      PROVE  /\ M[i].at + (j - i) < size[M[i].packet]
                  => M[j] = [packet |-> M[i].packet, at |-> M[i].at + (j - i)]
             /\ M[i].at + (j - i) = size[M[i].packet] => M[j].at = 0
  <2>1. CASE i >= m
    <3>0. i \in m..(m + n) /\ i < m + n /\ j \in m..(m + n)
      BY <1>5, <2>1
    <3>1. M[i].at = a + (i - m) /\ M[i].packet = q
      BY <1>1, <3>0
    <3>2. M[i].at + (j - i) = a + (j - m)
      BY <3>1
    <3> QED BY <1>1, <3>0, <3>1, <3>2
  <2>2. CASE j < m
    BY <1>2, <1>5, <2>2 DEF InLine
  <2>3. CASE i < m /\ j >= m
    <3>1. /\ M[i] = L[i] /\ M[i].at \in Nat /\ size[M[i].packet] \in Nat
          /\ M[i].packet \in P
      BY <1>2, <2>3
    <3>2. /\ L[i].at + (m - i) < size[L[i].packet]
               => L[m] = [packet |-> L[i].packet, at |-> L[i].at + (m - i)]
          /\ L[i].at + (m - i) = size[L[i].packet] => L[m].at = 0
      BY <2>3 DEF InLine
    <3>3. CASE M[i].at + (m - i) < size[M[i].packet]
      <4>1. q = M[i].packet /\ a = M[i].at + (m - i)
        BY <2>3, <3>1, <3>2, <3>3
      <4>2. M[i].at + (j - i) = a + (j - m)
        BY <3>1, <4>1
      <4> QED BY <1>1, <2>3, <4>1, <4>2
    <3>4. CASE M[i].at + (m - i) >= size[M[i].packet] /\ j > m
      BY <2>3, <3>1, <3>4
    <3>5. CASE M[i].at + (m - i) >= size[M[i].packet] /\ j = m
      <4>1. CASE L[m].at = 0 /\ a = 0
        <5>1. M[m].at = 0
          <6>1. m \in m..(m + n) /\ m - m = 0 /\ a + (m - m) = 0
            BY <4>1
          <6>2. M[m].at = 0 \/ ~(m < m + n)
            BY <1>1, <6>1
          <6>3. n = 0 => M[m].at = 0
            BY <4>1
          <6> QED BY <6>2, <6>3
        <5> QED BY <3>1, <3>5, <5>1
      <4>2. CASE L[m] = [packet |-> q, at |-> a] /\ a < size[q]
        <5>1. a - 0 < size[q] => M[m].at = a
          BY <1>1
        <5> QED BY <1>1, <3>1, <3>2, <3>5, <4>2, <5>1
      <4> QED BY <4>1, <4>2
    <3> QED BY <2>3, <3>1, <3>3, <3>4, <3>5
  <2> QED BY <1>5, <2>1, <2>2, <2>3
<1> QED BY <1>3, <1>4, <1>5 DEF InLine

\* What is left when the first words are taken is a line.
LEMMA LineShrinks ==
  ASSUME NEW P, NEW size \in [P -> Nat], NEW L, NEW M, NEW m \in Nat, NEW n \in 0..m,
         InLine(L, m, P, size), \A i \in 1..(m - n) : M[i] = L[i + n]
  PROVE  InLine(M, m - n, P, size)
<1>1. \A i \in 1..(m - n) : M[i] = L[i + n] /\ i + n \in 1..m
  OBVIOUS
<1>2. \A i \in 1..(m - n - 1) : i + n \in 1..(m - 1)
  OBVIOUS
<1>3. ASSUME NEW i \in 1..(m - n - 1), NEW j \in 1..(m - n), i < j
      PROVE  /\ M[i].at + (j - i) < size[M[i].packet]
                  => M[j] = [packet |-> M[i].packet, at |-> M[i].at + (j - i)]
             /\ M[i].at + (j - i) = size[M[i].packet] => M[j].at = 0
  <2>1. (j + n) - (i + n) = j - i /\ i + n < j + n
    BY <1>3
  <2>2. M[i] = L[i + n] /\ M[j] = L[j + n] /\ i + n \in 1..(m - 1) /\ j + n \in 1..m
    BY <1>1, <1>2, <1>3
  <2> HIDE <1>1
  <2> QED BY <2>1, <2>2 DEF InLine
<1> QED BY <1>1, <1>2, <1>3 DEF InLine

\* Every word of the line comes right after the one before it.
LEMMA LineFollows ==
  ASSUME NEW P, NEW size \in [P -> Nat], NEW L, NEW m \in Nat, InLine(L, m, P, size),
         NEW i \in 1..(m - 1)
  PROVE  IF L[i].at + 1 < size[L[i].packet] THEN L[i + 1] = [L[i] EXCEPT !.at = @ + 1]
                                            ELSE L[i + 1].at = 0
<1>1. i + 1 \in 1..m /\ i < i + 1 /\ (i + 1) - i = 1
  OBVIOUS
<1>2. L[i] \in [packet : P, at : Nat] /\ L[i].at < size[L[i].packet]
      /\ size[L[i].packet] \in Nat
  BY DEF InLine
<1>3. /\ L[i].at + 1 < size[L[i].packet]
           => L[i + 1] = [packet |-> L[i].packet, at |-> L[i].at + 1]
      /\ L[i].at + 1 = size[L[i].packet] => L[i + 1].at = 0
  BY <1>1 DEF InLine
<1> QED BY <1>2, <1>3

\* How the line goes on behind a word at its head.
LEMMA LineAhead ==
  ASSUME NEW P, NEW size \in [P -> Nat], NEW L, NEW m \in Nat, InLine(L, m, P, size),
         NEW n \in 1..(m - 1)
  PROVE  /\ L[1].at + n < size[L[1].packet]
              => L[n + 1] = [packet |-> L[1].packet, at |-> L[1].at + n]
         /\ L[1].at + n = size[L[1].packet] => L[n + 1].at = 0
<1>1. 1 \in 1..(m - 1) /\ n + 1 \in 1..m /\ 1 < n + 1 /\ (n + 1) - 1 = n
  OBVIOUS
<1> QED BY <1>1 DEF InLine

\* The line that waits in a ring, with the word that will be sent next.
LEMMA LineInRing ==
  ASSUME NEW S, NEW f \in Fifos(S), Sound(f), NEW x
  PROVE  /\ Append(Contents(f), x)[f.size + 1] = x
         /\ \A i \in 1..f.size : Append(Contents(f), x)[i] = Contents(f)[i]
<1>1. Contents(f) \in Seq(S) /\ Len(Contents(f)) = f.size /\ f.size \in Nat
  BY ContentsType, WidthType
<1> HIDE DEF Contents
<1> QED BY <1>1

LEMMA ContentsDropped ==
  ASSUME NEW S, NEW f \in Fifos(S), Sound(f), NEW n \in 0..f.size
  PROVE  \A i \in 1..(f.size - n) : Contents(Drop(f, n))[i] = Contents(f)[i + n]
<1>1. /\ Contents(f) \in Seq(S) /\ Len(Contents(f)) = f.size /\ f.size \in Nat
      /\ Contents(Drop(f, n)) = SubSeq(Contents(f), n + 1, f.size)
  BY ContentsType, WidthType, DropContents
<1>2. PICK c : c = Contents(f)
  OBVIOUS
<1>3. \A i \in 1..(f.size - n) : SubSeq(c, n + 1, f.size)[i] = c[i + n]
  BY <1>1, <1>2
<1> QED BY <1>1, <1>2, <1>3

LEMMA ContentsWritten ==
  ASSUME NEW S, NEW f \in Fifos(S), Sound(f), NEW w \in Seq(S), Len(w) <= Free(f)
  PROVE  /\ \A i \in 1..f.size : Contents(Write(f, w))[i] = Contents(f)[i]
         /\ \A k \in 1..Len(w) : Contents(Write(f, w))[f.size + k] = w[k]
<1>1. /\ Contents(f) \in Seq(S) /\ Len(Contents(f)) = f.size /\ f.size \in Nat
      /\ Contents(Write(f, w)) = Contents(f) \o w
  BY ContentsType, WidthType, WriteContents
<1>2. PICK c : c = Contents(f)
  OBVIOUS
<1>3. /\ c \in Seq(S) /\ Len(c) = f.size /\ Len(w) \in Nat
      /\ \A i \in 1..(Len(c) + Len(w)) :
            (c \o w)[i] = IF i <= Len(c) THEN c[i] ELSE w[i - Len(c)]
  BY <1>1, <1>2
<1>4. \A i \in 1..f.size : (c \o w)[i] = c[i]
  BY <1>1, <1>3
<1>5. ASSUME NEW k \in 1..Len(w) PROVE (c \o w)[f.size + k] = w[k]
  <2>1. PICK i \in 1..(Len(c) + Len(w)) : i = f.size + k
    BY <1>1, <1>3
  <2>2. ~(i <= Len(c)) /\ i - Len(c) = k
    BY <1>1, <1>3, <2>1
  <2>3. (c \o w)[i] = w[k]
    BY <1>3, <2>2
  <2> QED BY <2>1, <2>3
<1> QED BY <1>1, <1>2, <1>4, <1>5

\* Words taken in two reads are words taken in one.
LEMMA DropTwice ==
  ASSUME NEW S, NEW f \in Fifos(S), Sound(f), NEW m \in Nat, NEW n \in Nat, m + n <= f.size
  PROVE  Drop(Drop(f, m), n) = Drop(f, m + n)
<1>1. /\ f = [data |-> f.data, readPos |-> f.readPos, writePos |-> f.writePos, size |-> f.size]
      /\ f.readPos \in 0..(FIFO_SIF_W - 1) /\ f.size \in 0..FIFO_SIF_W
  BY FifoFields, FreeBound DEF Slots
<1>2. Wrap(Wrap(f.readPos + m) + n) = Wrap(f.readPos + (m + n))
  BY <1>1, WidthType DEF Wrap
<1>3. (f.size - m) - n = f.size - (m + n)
  BY <1>1, WidthType
<1> QED BY <1>1, <1>2, <1>3 DEF Drop

\* What a write and a read do to the line that waits in the ring, up to the word that
\* will be sent next.
LEMMA LineWritten ==
  ASSUME NEW S, NEW f \in Fifos(S), Sound(f), NEW w \in Seq(S), Len(w) <= Free(f),
         NEW g, g = Write(f, w), NEW L, NEW M,
         \A i \in 1..f.size : L[i] = Contents(f)[i],
         \A i \in 1..g.size : M[i] = Contents(g)[i]
  PROVE  /\ g.size = f.size + Len(w)
         /\ \A i \in 1..f.size : M[i] = L[i]
         /\ \A k \in 1..Len(w) : M[f.size + k] = w[k]
<1>1. f.size \in Nat /\ Len(w) \in Nat
  BY ContentsType, WidthType
<1>2. g \in Fifos(S) /\ Sound(g) /\ g.size = f.size + Len(w)
  BY WriteSound
<1>5. /\ \A i \in 1..f.size : Contents(g)[i] = Contents(f)[i]
      /\ \A k \in 1..Len(w) : Contents(g)[f.size + k] = w[k]
  BY ContentsWritten
<1>6. \A i \in 1..f.size : M[i] = L[i]
  BY <1>1, <1>2, <1>5
<1>7. \A k \in 1..Len(w) : M[f.size + k] = w[k]
  <2> TAKE k \in 1..Len(w)
  <2>1. f.size + k \in 1..g.size
    BY <1>1, <1>2
  <2> QED BY <1>5, <2>1
<1> QED BY <1>2, <1>6, <1>7

LEMMA LineDropped ==
  ASSUME NEW S, NEW f \in Fifos(S), Sound(f), NEW n \in 0..f.size,
         NEW g, g = Drop(f, n), NEW L, NEW M, L[f.size + 1] = M[g.size + 1],
         \A i \in 1..f.size : L[i] = Contents(f)[i],
         \A i \in 1..g.size : M[i] = Contents(g)[i]
  PROVE  /\ g.size = f.size - n
         /\ \A i \in 1..(g.size + 1) : M[i] = L[i + n]
<1>1. f.size \in Nat /\ n \in Nat
  BY ContentsType, WidthType
<1>2. g \in Fifos(S) /\ Sound(g) /\ g.size = f.size - n
  BY DropSound
<1>5. \A i \in 1..(f.size - n) : Contents(g)[i] = Contents(f)[i + n]
  BY ContentsDropped
<1>6. \A i \in 1..(g.size + 1) : M[i] = L[i + n]
  <2> TAKE i \in 1..(g.size + 1)
  <2>1. CASE i = g.size + 1
    <3>1. i + n = f.size + 1
      BY <1>1, <1>2, <2>1
    <3> QED BY <2>1, <3>1
  <2>2. CASE i # g.size + 1
    <3>1. i \in 1..(f.size - n) /\ i \in 1..g.size /\ i + n \in 1..f.size
      BY <1>1, <1>2, <2>2
    <3> QED BY <1>5, <3>1
  <2> QED BY <2>1, <2>2
<1> QED BY <1>2, <1>6

\* What may be moved of x quadwords where s words are there, or there is room for s.
LEMMA WholeQuads ==
  ASSUME NEW x \in Nat, NEW s \in Nat
  PROVE  /\ Smaller(x, s \div 4) \in Nat /\ Smaller(x, s \div 4) <= x
         /\ 4 * Smaller(x, s \div 4) <= s
<1>1. PICK d \in Nat : d = s \div 4 /\ 4 * d <= s
  <2>1. s \div 4 \in Nat /\ 4 * (s \div 4) <= s
    OBVIOUS
  <2> QED BY <2>1
<1>2. /\ Smaller(x, d) \in Nat /\ Smaller(x, d) <= x
      /\ 4 * Smaller(x, d) <= s
  BY <1>1 DEF Smaller
<1> QED BY <1>1, <1>2
=============================================================================
