----------------------------- MODULE MtgsProofs -----------------------------
(***************************************************************************)
(* The safety of the MTGS ring, and that it implements a queue of packets, *)
(* for every ring size and every packet size.                              *)
(***************************************************************************)
EXTENDS MtgsRefinement, FiniteSetTheorems, WellFoundedInduction, TLAPS

-----------------------------------------------------------------------------
(* Positions of the ring *)

\* A distance lies inside the ring, and it is zero only between equal positions.
LEMMA DistanceType ==
  ASSUME NEW r \in Slots, NEW s \in Slots
  PROVE  /\ Distance(r, s) \in Slots
         /\ Distance(r, s) = 0 <=> r = s
BY MtgsAssumption DEF Distance, Slots

\* Going k slots ahead of r gives the slot at distance k.
LEMMA WrapDistance ==
  ASSUME NEW r \in Slots, NEW k \in Slots
  PROVE  /\ Wrap(r + k) \in Slots
         /\ Distance(r, Wrap(r + k)) = k
BY MtgsAssumption DEF Distance, Slots, Wrap

\* Moving the reference k slots ahead brings the slots beyond it k nearer, and
\* takes the k slots before it to the far end.
LEMMA DistanceShift ==
  ASSUME NEW r \in Slots, NEW s \in Slots, NEW k \in Slots
  PROVE  Distance(Wrap(r + k), s) =
           IF Distance(r, s) >= k THEN Distance(r, s) - k
                                  ELSE Distance(r, s) - k + RingBufferSize
BY MtgsAssumption DEF Distance, Slots, Wrap

\* The distances along r, s, t add up, unless they go round the ring.
LEMMA DistanceAdd ==
  ASSUME NEW r \in Slots, NEW s \in Slots, NEW t \in Slots,
         Distance(r, s) + Distance(s, t) < RingBufferSize
  PROVE  Distance(r, t) = Distance(r, s) + Distance(s, t)
BY MtgsAssumption DEF Distance, Slots

\* The free room of GenericStall is what is not used.
LEMMA FreeRoomUsed ==
  ASSUME NEW r \in Slots, NEW w \in Slots
  PROVE  FreeRoom(r, w) = RingBufferSize - Distance(r, w)
BY MtgsAssumption DEF Distance, Slots, FreeRoom

\* A position at a distance is the wrapped sum.
LEMMA SlotAtDistance ==
  ASSUME NEW r \in Slots, NEW s \in Slots
  PROVE  Wrap(r + Distance(r, s)) = s
BY MtgsAssumption DEF Distance, Slots, Wrap

\* Hopping k slots ahead of s adds k to its distance.
LEMMA HopDistance ==
  ASSUME NEW r \in Slots, NEW s \in Slots, NEW k \in Slots,
         Distance(r, s) + k < RingBufferSize
  PROVE  /\ Wrap(s + k) \in Slots
         /\ Distance(r, Wrap(s + k)) = Distance(r, s) + k
BY MtgsAssumption DEF Distance, Slots, Wrap

\* A packet takes at least its tag and never the whole ring.
LEMMA PacketLengthType ==
  ASSUME NEW c \in Cells
  PROVE  PacketLength(c) \in 1..(RingBufferSize - 1)
BY MtgsAssumption DEF Cells, PacketLength, Commands, DataCommands

-----------------------------------------------------------------------------
(* The inductive invariant *)

\* The packet the EE is filling starts at m_WritePos, with the payload behind it.
FillInv ==
  /\ eePc \in {"fill", "seal"} => call \in DataCalls
  /\ eePc \in {"fill", "seal", "publish"} /\ call \in DataCalls =>
       /\ m_packet_startpos = m_WritePos
       /\ Distance(m_WritePos, m_packet_writepos) \in 1..(m_packet_size + 1)
       /\ \A s \in Slots :
            Distance(m_WritePos, s) \in 1..(Distance(m_WritePos, m_packet_writepos) - 1)
              => ring[s] = Payload

\* The packet about to be published has the right tag.
SealInv ==
  eePc = "publish" =>
    ring[m_WritePos] = Tag(CommandOf(call), IF call \in DataCalls THEN ActualSize ELSE 0)

\* The GS thread is in a packet only when there is one, and ringposinc is its length.
GsInv ==
  /\ gsPc = "packet" => Used > 0
  /\ gsPc \in GsInPacket \ {"packet"} => inc = PacketLength(ring[m_ReadPos]) /\ inc <= Used

\* The published part of the ring is a chain of packets from m_ReadPos to m_WritePos:
\* it starts with a tag, and each packet ends at m_WritePos or at the next tag.
Chained(s) ==
  /\ Distance(m_ReadPos, s) + PacketLength(ring[s]) <= Used
  /\ \/ Distance(m_ReadPos, s) + PacketLength(ring[s]) = Used
     \/ ring[Wrap(s + PacketLength(ring[s]))].command \in Commands
ChainInv ==
  /\ Used > 0 => ring[m_ReadPos].command \in Commands
  /\ \A s \in Unread : ring[s].command \in Commands => Chained(s)

\* ResetGS runs on the empty ring that WaitGS left.
ResetInv == eePc = "reset" => m_ReadPos = m_WritePos

RingInv == TypeOK /\ RoomHeld /\ FillInv /\ SealInv /\ GsInv /\ ChainInv /\ ResetInv

-----------------------------------------------------------------------------
(* Init and each kind of step *)

LEMMA InitRingInv == Init => RingInv
<1>. SUFFICES ASSUME Init PROVE RingInv
  OBVIOUS
<1>. USE MtgsAssumption
<1>1. TypeOK
  <2>1. 0 \in Slots /\ Payload \in Cells
    BY DEF Slots, Cells, Payload
  <2>2. ring \in [Slots -> Cells]
    BY <2>1 DEF Init
  <2>3. 0 \in 0..MaxEvents /\ 0 \in 0..(TallyLimit + 1) /\ 0 \in 0..(RingBufferSize - 2)
        /\ 1 \in 1..(RingBufferSize - 1)
    OBVIOUS
  <2>4. eePc \in EEStates /\ call \in CallStates /\ gsPc \in GSStates
    BY DEF Init, EEStates, GSStates, CallStates
  <2>5. m_RingBufferIsBusy \in BOOLEAN /\ m_VsyncSignalListener \in BOOLEAN
    BY Zenon DEF Init
  <2>. QED BY <2>1, <2>2, <2>3, <2>4, <2>5 DEF Init, TypeOK
<1>2. Used = 0 /\ Unread = {}
  BY DEF Init, Used, Unread, Distance, Slots
<1>3. RoomHeld /\ FillInv /\ SealInv /\ GsInv /\ ResetInv
  BY DEF Init, RoomHeld, FillInv, SealInv, GsInv, ResetInv, Building, GsInPacket
<1>4. ChainInv
  BY <1>2 DEF ChainInv
<1>. QED  BY <1>1, <1>3, <1>4 DEF RingInv

\* Every step keeps the variables in their ranges.
LEMMA TypePreserved ==
  ASSUME TypeOK, FillInv, Next  PROVE  TypeOK'
<1>. USE MtgsAssumption
<1>. USE DEF TypeOK, posVars, busyVars, signalVars, vsyncVars, eventVars, packetVars, eeVars, gsVars
<1>1. ASSUME EECall PROVE TypeOK'
  <2>1. CASE BeginData
    <3>1. \A n \in PacketSizes \cup {VsyncQwc} : n \in 0..(RingBufferSize - 2)
      OBVIOUS
    <3>. QED BY <2>1, <3>1 DEF BeginData, EE, EEStates, CallStates
  <2>2. CASE BeginSimple
    BY <2>2 DEF BeginSimple, EE, EEStates, CallStates
  <2>3. CASE BeginWait
    BY <2>3 DEF BeginWait, EE, EEStates, CallStates
  <2>. QED BY <1>1, <2>1, <2>2, <2>3 DEF EECall
<1>2. ASSUME EEStep PROVE TypeOK'
  <2>1. CASE StallTest
    <3>1. SomeDone(FreeRoom(m_ReadPos, m_WritePos), StallSize) \in Int
      BY DEF SomeDone, FreeRoom, StallSize, Slots
    <3>. QED BY <2>1, <3>1 DEF StallTest, EE, EEStates
  <2>2. CASE StallArm
    BY <2>2 DEF StallArm, EE, EEStates
  <2>3. CASE StallKick \/ SpinKick \/ TallyKick \/ VsyncKick \/ WaitKick \/ ResetKick
    BY <2>3 DEF StallKick, SpinKick, TallyKick, VsyncKick, WaitKick, ResetKick,
                SetEvent, EE, EEStates
  <2>4. CASE StallSleep
    BY <2>4 DEF StallSleep, EE, EEStates
  <2>5. CASE StallWake \/ Spin
    BY <2>5 DEF StallWake, Spin, EE, EEStates
  <2>6. CASE WriteTag
    <3>1. Wrap(m_WritePos + 1) \in Slots
      BY DEF Slots, Wrap
    <3>2. \A n \in 0..(RingBufferSize - 2) : Tag(CommandOf(call), n) \in Cells
      BY DEF Tag, CommandOf, Cells, Commands
    <3>. QED BY <2>6, <3>1, <3>2 DEF WriteTag, EE, EEStates
  <2>7. CASE FillQword
    <3>1. Wrap(m_packet_writepos + 1) \in Slots
      BY DEF Slots, Wrap
    <3>2. Payload \in Cells
      BY DEF Payload, Cells
    <3>. QED BY <2>7, <3>1, <3>2 DEF FillQword, EE, EEStates
  <2>8. CASE FillAbandon
    <3>1. Wrap(m_packet_startpos + 1) \in Slots
      BY DEF Slots, Wrap
    <3>. QED BY <2>8, <3>1 DEF FillAbandon, EE, EEStates
  <2>9. CASE FillDone
    BY <2>9 DEF FillDone, EE, EEStates
  <2>10. CASE SealTag
    <3>1. ActualSize \in 0..(RingBufferSize - 2)
      BY <2>10 DEF SealTag, EE, FillInv, ActualSize
    <3>2. Tag(CommandOf(call), ActualSize) \in Cells
      BY <3>1 DEF Tag, CommandOf, Cells, Commands
    <3>. QED BY <2>10, <3>2 DEF SealTag, EE, EEStates
  <2>11. CASE Publish
    <3>1. Wrap(m_WritePos + 1) \in Slots
      BY DEF Slots, Wrap
    <3>. QED BY <2>11, <3>1 DEF Publish, EE, EEStates
  <2>12. CASE TallyPacket
    <3>1. \A n \in Nat : Saturated(n) \in 0..(TallyLimit + 1)
      BY DEF Saturated
    <3>2. m_CopyDataTally + 1 \in Nat /\ m_CopyDataTally + m_packet_size \in Nat
      OBVIOUS
    <3>. QED BY <2>12, <3>1, <3>2 DEF TallyPacket, EE, EEStates
  <2>13. CASE Sent
    BY <2>13 DEF Sent, EE, EEStates, CallStates
  <2>14. CASE VsyncCount \/ VsyncListen \/ VsyncSleep
    <3>1. CASE VsyncCount
      BY <3>1 DEF VsyncCount, EE, EEStates
    <3>2. CASE VsyncListen
      BY <3>2 DEF VsyncListen, EE, EEStates
    <3>3. CASE VsyncSleep
      BY <3>3 DEF VsyncSleep, EE, EEStates
    <3>. QED BY <2>14, <3>1, <3>2, <3>3
  <2>15. CASE WaitTest \/ WaitMutex \/ WaitAgain
    BY <2>15 DEF WaitTest, WaitMutex, WaitAgain, WaitReturn, EE, EEStates
  <2>16. CASE ResetGS
    <3>1. m_VsyncSignalListener' \in BOOLEAN
      BY <2>16, Zenon DEF ResetGS
    <3>2. m_QueuedFrameCount' \in Int /\ m_ReadPos' \in Slots
      BY <2>16 DEF ResetGS
    <3>. QED BY <2>16, <3>1, <3>2 DEF ResetGS, EE, EEStates, CallStates
  <2>. QED BY <1>2, <2>1, <2>2, <2>3, <2>4, <2>5, <2>6, <2>7, <2>8, <2>9, <2>10, <2>11,
              <2>12, <2>13, <2>14, <2>15, <2>16 DEF EEStep
<1>3. ASSUME GSStep PROVE TypeOK'
  <2>1. CASE GsSleep \/ GsLock \/ GsBusy \/ GsUnbusy \/ GsUnlock
    <3>1. CASE GsSleep \/ GsLock \/ GsUnlock
      BY <3>1 DEF GsSleep, GsLock, GsUnlock, GS, GSStates
    <3>2. CASE GsBusy
      BY <3>2 DEF GsBusy, GS, GSStates
    <3>3. CASE GsUnbusy
      BY <3>3 DEF GsUnbusy, GS, GSStates
    <3>. QED BY <2>1, <3>1, <3>2, <3>3
  <2>2. CASE GsLoop \/ GsDrop
    BY <2>2 DEF GsLoop, GsDrop, GS, GSStates
  <2>3. CASE GsPacket
    <3>1. PacketLength(ring[m_ReadPos]) \in 1..(RingBufferSize - 1)
      BY PacketLengthType
    <3>. QED BY <2>3, <3>1 DEF GsPacket, GS, GSStates
  <2>4. CASE GsVsyncCount \/ GsVsyncListener \/ GsVsyncPost
    <3>1. CASE GsVsyncCount
      BY <3>1 DEF GsVsyncCount, GS, GSStates
    <3>2. CASE GsVsyncListener
      BY <3>2 DEF GsVsyncListener, GS, GSStates
    <3>3. CASE GsVsyncPost
      BY <3>3 DEF GsVsyncPost, GS, GSStates
    <3>. QED BY <2>4, <3>1, <3>2, <3>3
  <2>5. CASE GsAdvance
    <3>1. Wrap(m_ReadPos + inc) \in Slots
      BY DEF Slots, Wrap
    <3>. QED BY <2>5, <3>1 DEF GsAdvance, GS, GSStates
  <2>6. CASE GsSignalTest \/ GsSignalSub \/ GsSignalClear \/ GsSignalPost
    BY <2>6 DEF GsSignalTest, GsSignalSub, GsSignalClear, GsSignalPost, GS, GSStates
  <2>7. CASE GsValve \/ GsValvePosition
    BY <2>7 DEF GsValve, GsValvePosition, GS, GSStates
  <2>. QED BY <1>3, <2>1, <2>2, <2>3, <2>4, <2>5, <2>6, <2>7 DEF GSStep
<1>. QED BY <1>1, <1>2, <1>3 DEF Next

\* What the invariant says of the published part does not depend on the other slots.
LEMMA OutsideWrite ==
  ASSUME RingInv, TypeOK', UNCHANGED <<m_ReadPos, m_WritePos, gsPc, inc>>,
         \A s \in Unread : ring'[s] = ring[s]
  PROVE  GsInv' /\ ChainInv'
<1>. USE MtgsAssumption DEF RingInv
<1>0. /\ m_ReadPos \in Slots /\ m_WritePos \in Slots
      /\ \A s \in Slots : ring[s] \in Cells
  BY DEF TypeOK
<1>1. Used \in Slots /\ Used' = Used /\ Unread' = Unread
  BY <1>0, DistanceType DEF Used, Unread
<1>2. Used > 0 => m_ReadPos \in Unread
  BY <1>0, <1>1, DistanceType DEF Unread, Slots
<1>3. GsInv'
  <2>1. gsPc \in GsInPacket \ {"packet"} => Used > 0
    BY <1>0, <1>1, PacketLengthType DEF GsInv, Slots
  <2>. QED BY <1>1, <1>2, <2>1 DEF GsInv, PacketLength
<1>4. ASSUME NEW s \in Unread, ring[s].command \in Commands  PROVE Chained(s)'
  <2>1. s \in Slots /\ Chained(s) /\ ring'[s] = ring[s]
    BY <1>4 DEF ChainInv, Unread
  <2>2. PacketLength(ring[s]) \in Slots
    BY <1>0, <2>1, PacketLengthType DEF Slots
  <2>3. CASE Distance(m_ReadPos, s) + PacketLength(ring[s]) = Used
    BY <1>1, <2>1, <2>3 DEF Chained, PacketLength
  <2>4. CASE Distance(m_ReadPos, s) + PacketLength(ring[s]) < Used
    <3>1. Distance(m_ReadPos, s) + PacketLength(ring[s]) < RingBufferSize
      BY <1>1, <2>2, <2>4, <2>1, <1>0, DistanceType DEF Slots
    <3>2. Wrap(s + PacketLength(ring[s])) \in Unread
      BY <1>0, <2>1, <2>2, <2>4, <3>1, HopDistance DEF Unread
    <3>. QED BY <1>1, <2>1, <2>4, <3>2 DEF Chained, PacketLength
  <2>5. Distance(m_ReadPos, s) \in Int /\ PacketLength(ring[s]) \in Int /\ Used \in Int
    BY <1>0, <1>1, <2>1, <2>2, DistanceType DEF Slots
  <2>. QED BY <2>1, <2>3, <2>4, <2>5 DEF Chained
<1>5. ChainInv'
  BY <1>1, <1>2, <1>4 DEF ChainInv
<1>. QED BY <1>3, <1>5

\* A step that moves neither position and builds nothing.
LEMMA QuietPreserved ==
  ASSUME RingInv, TypeOK', UNCHANGED posVars,
         \/ UNCHANGED <<packetVars, eePc, call>>
         \/ eePc' \notin Building \cup {"reset"},
         \/ UNCHANGED <<gsPc, inc>>
         \/ gsPc' \notin GsInPacket
         \/ gsPc \in GsInPacket \ {"packet"} /\ gsPc' # "packet" /\ inc' = inc
  PROVE  RingInv'
<1>. USE DEF RingInv, posVars, packetVars
<1>1. Used' = Used /\ Unread' = Unread
  BY DEF Used, Unread
<1>2. RoomHeld' /\ ResetInv'
  BY <1>1 DEF RoomHeld, ResetInv, Building
<1>3. FillInv'
  BY DEF FillInv, Building
<1>4. SealInv'
  BY DEF SealInv, Building, ActualSize
<1>5. GsInv'
  BY <1>1 DEF GsInv, GsInPacket
<1>6. ChainInv'
  BY <1>1 DEF ChainInv, Chained
<1>. QED BY <1>2, <1>3, <1>4, <1>5, <1>6

\* The stall ends with the room it promises.
LEMMA StallRoom ==
  ASSUME RingInv, TypeOK', StallTest \/ StallWake \/ Spin
  PROVE  RingInv'
<1>. USE MtgsAssumption DEF RingInv
<1>1. UNCHANGED <<posVars, packetVars, call, gsPc, inc>> /\ eePc' \notin Building \ {"tag"}
      /\ eePc' # "reset"
  BY DEF StallTest, StallWake, Spin, EE, gsVars, packetVars, posVars, Building
<1>2. CASE eePc' # "tag"
  BY <1>1, <1>2, QuietPreserved DEF Building
<1>3. CASE eePc' = "tag"
  <2>1. FreeRoom(m_ReadPos, m_WritePos) > StallSize
    BY <1>3 DEF StallTest, StallWake, Spin, EE
  <2>2. m_ReadPos \in Slots /\ m_WritePos \in Slots /\ m_packet_size \in Int
    BY DEF TypeOK
  <2>3. StallSize \in Int /\ Distance(m_ReadPos, m_WritePos) \in Int
    BY <2>2, DistanceType DEF StallSize, Slots
  <2>4. Used + StallSize < RingBufferSize
    BY <2>1, <2>2, <2>3, FreeRoomUsed DEF Used
  <2>5. RoomHeld'
    BY <1>1, <2>4 DEF RoomHeld, Used, StallSize, posVars, packetVars
  <2>6. FillInv' /\ SealInv' /\ ResetInv'
    BY <1>3 DEF FillInv, SealInv, ResetInv
  <2>7. GsInv' /\ ChainInv'
    BY <1>1, OutsideWrite DEF posVars
  <2>. QED BY <2>5, <2>6, <2>7
<1>. QED BY <1>2, <1>3

\* While the EE builds a packet, the slots it may write are not unread.
LEMMA PendingFree ==
  ASSUME RingInv, eePc \in Building, NEW s \in Slots,
         Distance(m_WritePos, s) < (IF call \in DataCalls THEN m_packet_size + 1 ELSE 1)
  PROVE  s \notin Unread
<1>. USE MtgsAssumption DEF RingInv
<1>1. m_ReadPos \in Slots /\ m_WritePos \in Slots /\ m_packet_size \in 0..(RingBufferSize - 2)
  BY DEF TypeOK
<1>2. Used \in Slots /\ Distance(m_WritePos, s) \in Slots
  BY <1>1, DistanceType DEF Used
<1>3. Used + Distance(m_WritePos, s) < RingBufferSize
  BY <1>1, <1>2 DEF RoomHeld, Slots
<1>4. Distance(m_ReadPos, s) = Used + Distance(m_WritePos, s)
  BY <1>1, <1>3, DistanceAdd DEF Used
<1>. QED BY <1>2, <1>4 DEF Unread, Slots

\* The tag goes to a free slot.
LEMMA TagPreserved ==
  ASSUME RingInv, TypeOK', WriteTag
  PROVE  RingInv' /\ \A s \in Unread : ring'[s] = ring[s]
<1>. USE MtgsAssumption DEF RingInv
<1>1. /\ eePc = "tag" /\ UNCHANGED <<m_ReadPos, m_WritePos, m_packet_size, call, gsPc, inc>>
      /\ m_WritePos \in Slots /\ ring \in [Slots -> Cells] /\ m_packet_size \in Nat
  BY DEF WriteTag, EE, TypeOK, gsVars, packetVars
<1>2. Distance(m_WritePos, m_WritePos) = 0
  BY <1>1, DistanceType
<1>3. m_WritePos \notin Unread
  BY <1>1, <1>2, PendingFree DEF Building
<1>4. \A s \in Slots : s # m_WritePos => ring'[s] = ring[s]
  BY <1>1 DEF WriteTag
<1>5. \A s \in Unread : ring'[s] = ring[s]
  BY <1>3, <1>4 DEF Unread
<1>6. GsInv' /\ ChainInv'
  BY <1>1, <1>5, OutsideWrite
<1>7. eePc' \in {"fill", "publish"} /\ (eePc' = "fill" <=> call \in DataCalls)
  BY DEF WriteTag, EE
<1>8. RoomHeld' /\ ResetInv'
  BY <1>1, <1>7 DEF RoomHeld, ResetInv, Building, Used
<1>9. FillInv'
  <2>1. CASE call \in DataCalls
    <3>1. 1 \in Slots
      BY DEF Slots
    <3>2. m_packet_startpos' = m_WritePos' /\ Distance(m_WritePos', m_packet_writepos') = 1
      BY <1>1, <2>1, <3>1, WrapDistance DEF WriteTag
    <3>. QED BY <1>1, <1>7, <2>1, <3>2 DEF FillInv
  <2>2. CASE call \notin DataCalls
    BY <1>1, <1>7, <2>2 DEF FillInv
  <2>. QED BY <2>1, <2>2
<1>10. SealInv'
  BY <1>1, <1>7 DEF SealInv, WriteTag
<1>. QED BY <1>5, <1>6, <1>8, <1>9, <1>10

\* Each qword of payload goes to a free slot, right behind the last.
LEMMA FillPreserved ==
  ASSUME RingInv, TypeOK', FillQword
  PROVE  RingInv' /\ \A s \in Unread : ring'[s] = ring[s]
<1>. USE MtgsAssumption DEF RingInv
<1>. DEFINE k == Distance(m_WritePos, m_packet_writepos)
<1>1. /\ eePc = "fill" /\ eePc' = "fill" /\ call \in DataCalls
      /\ UNCHANGED <<m_ReadPos, m_WritePos, m_packet_startpos, m_packet_size, call, gsPc, inc>>
      /\ m_WritePos \in Slots /\ m_packet_writepos \in Slots
      /\ ring \in [Slots -> Cells] /\ m_packet_size \in 0..(RingBufferSize - 2)
  BY DEF FillQword, EE, TypeOK, gsVars, FillInv
<1>2. m_packet_startpos = m_WritePos /\ k \in 1..m_packet_size
  BY <1>1 DEF FillInv, FillQword, ActualSize
<1>3. m_packet_writepos \notin Unread
  BY <1>1, <1>2, PendingFree DEF Building
<1>4. ring' = [ring EXCEPT ![m_packet_writepos] = Payload]
  BY DEF FillQword
<1>5. \A s \in Unread : ring'[s] = ring[s]
  BY <1>1, <1>3, <1>4 DEF Unread
<1>6. GsInv' /\ ChainInv'
  BY <1>1, <1>5, OutsideWrite
<1>7. RoomHeld' /\ ResetInv' /\ SealInv'
  BY <1>1 DEF RoomHeld, ResetInv, SealInv, Used
<1>8. Distance(m_WritePos, m_packet_writepos') = k + 1
  <2>1. m_packet_writepos' = Wrap(m_packet_writepos + 1)
    BY DEF FillQword
  <2>2. 1 \in Slots /\ k + 1 < RingBufferSize
    BY <1>1, <1>2 DEF Slots
  <2>. QED BY <1>1, <2>1, <2>2, HopDistance
<1>9. ASSUME NEW s \in Slots, Distance(m_WritePos, s) \in 1..k  PROVE ring'[s] = Payload
  <2>1. CASE s = m_packet_writepos
    BY <1>1, <1>4, <2>1
  <2>2. CASE s # m_packet_writepos
    <3>1. Distance(m_WritePos, s) # k
      BY <1>1, <2>2, SlotAtDistance
    <3>2. Distance(m_WritePos, s) \in 1..(k - 1)
      BY <1>2, <1>9, <3>1
    <3>. QED BY <1>1, <1>4, <2>2, <3>2 DEF FillInv
  <2>. QED BY <2>1, <2>2
<1>10. FillInv'
  BY <1>1, <1>2, <1>8, <1>9 DEF FillInv
<1>. QED BY <1>5, <1>6, <1>7, <1>10

\* The caller stops, with or without the payload it wrote.
LEMMA FillEndPreserved ==
  ASSUME RingInv, TypeOK', FillAbandon \/ FillDone
  PROVE  RingInv'
<1>. USE MtgsAssumption DEF RingInv
<1>1. /\ eePc = "fill" /\ eePc' = "seal" /\ call \in DataCalls
      /\ UNCHANGED <<posVars, m_packet_startpos, m_packet_size, call, gsPc, inc>>
      /\ m_WritePos \in Slots /\ m_packet_size \in Nat
  BY DEF FillAbandon, FillDone, EE, TypeOK, gsVars, packetVars, FillInv
<1>2. GsInv' /\ ChainInv'
  BY <1>1, OutsideWrite DEF posVars
<1>3. RoomHeld' /\ ResetInv' /\ SealInv'
  BY <1>1 DEF RoomHeld, ResetInv, SealInv, Used, Building, posVars
<1>4. FillInv'
  <2>1. CASE FillDone
    BY <1>1, <2>1 DEF FillDone, FillInv, packetVars, posVars
  <2>2. CASE FillAbandon
    <3>1. 1 \in Slots
      BY DEF Slots
    <3>2. m_packet_startpos = m_WritePos
      BY <1>1 DEF FillInv
    <3>3. Distance(m_WritePos', m_packet_writepos') = 1
      BY <1>1, <2>2, <3>1, <3>2, WrapDistance DEF FillAbandon, posVars
    <3>. QED BY <1>1, <3>2, <3>3 DEF FillInv, posVars
  <2>. QED BY <2>1, <2>2
<1>. QED BY <1>2, <1>3, <1>4

\* The actual size is written over the tag, before anyone may read it.
LEMMA SealPreserved ==
  ASSUME RingInv, TypeOK', SealTag
  PROVE  RingInv' /\ \A s \in Unread : ring'[s] = ring[s]
<1>. USE MtgsAssumption DEF RingInv
<1>1. /\ eePc = "seal" /\ eePc' = "publish" /\ call \in DataCalls
      /\ UNCHANGED <<m_ReadPos, m_WritePos, packetVars, call, gsPc, inc>>
      /\ m_WritePos \in Slots /\ ring \in [Slots -> Cells]
      /\ m_packet_size \in 0..(RingBufferSize - 2)
  BY DEF SealTag, EE, TypeOK, gsVars, FillInv
<1>2. m_packet_startpos = m_WritePos
  BY <1>1 DEF FillInv
<1>3. ring' = [ring EXCEPT ![m_WritePos] = Tag(CommandOf(call), ActualSize)]
  BY <1>2 DEF SealTag
<1>4. Distance(m_WritePos, m_WritePos) = 0
  BY <1>1, DistanceType
<1>5. m_WritePos \notin Unread
  BY <1>1, <1>4, PendingFree DEF Building
<1>6. \A s \in Unread : ring'[s] = ring[s]
  BY <1>1, <1>3, <1>5 DEF Unread
<1>7. GsInv' /\ ChainInv'
  BY <1>1, <1>6, OutsideWrite
<1>8. RoomHeld' /\ ResetInv'
  BY <1>1 DEF RoomHeld, ResetInv, Used, Building, packetVars
<1>9. FillInv'
  BY <1>1, <1>3, <1>4 DEF FillInv, packetVars
<1>10. SealInv'
  BY <1>1, <1>3 DEF SealInv, ActualSize, packetVars
<1>. QED BY <1>6, <1>7, <1>8, <1>9, <1>10

\* Publishing moves m_WritePos by the length of one packet, a tag and its payload.
LEMMA PublishHop ==
  ASSUME RingInv, Publish
  PROVE  LET L == PacketLength(ring[m_WritePos])
         IN  /\ ring[m_WritePos].command \in Commands
             /\ L \in Slots /\ Distance(m_WritePos, m_WritePos') = L /\ m_WritePos' \in Slots
             /\ L > 0 /\ Used + L < RingBufferSize
             /\ \A s \in Slots : Distance(m_WritePos, s) \in 1..(L - 1) => ring[s] = Payload
             /\ Used \in Slots /\ Used' = Used + L
<1>. USE MtgsAssumption DEF RingInv
<1>. DEFINE L == PacketLength(ring[m_WritePos])
<1>1. /\ eePc = "publish" /\ eePc' \in {"wgTest", "tally"}
      /\ UNCHANGED <<m_ReadPos, ring, packetVars, call, gsPc, inc>>
      /\ m_ReadPos \in Slots /\ m_WritePos \in Slots /\ ring \in [Slots -> Cells]
      /\ m_packet_writepos \in Slots /\ m_packet_size \in 0..(RingBufferSize - 2)
  BY DEF Publish, EE, TypeOK, gsVars
<1>2. /\ ring[m_WritePos].command \in Commands
      /\ L \in Slots /\ Distance(m_WritePos, m_WritePos') = L /\ m_WritePos' \in Slots
      /\ L > 0 /\ Used + L < RingBufferSize
      /\ \A s \in Slots : Distance(m_WritePos, s) \in 1..(L - 1) => ring[s] = Payload
  <2>1. CASE call \in DataCalls
    <3>1. m_packet_startpos = m_WritePos /\ m_WritePos' = m_packet_writepos
      BY <1>1, <2>1 DEF FillInv, Publish
    <3>2. ring[m_WritePos] = Tag(CommandOf(call), ActualSize) /\ CommandOf(call) \in DataCommands
      BY <1>1, <2>1 DEF SealInv, CommandOf, DataCalls, DataCommands
    <3>3. L = Distance(m_WritePos, m_packet_writepos)
      <4>1. Distance(m_WritePos, m_packet_writepos) \in Int
        BY <1>1, DistanceType DEF Slots
      <4>. QED BY <3>1, <3>2, <4>1 DEF PacketLength, Tag, ActualSize
    <3>4. L \in 1..(m_packet_size + 1)
      BY <1>1, <2>1, <3>3 DEF FillInv
    <3>5. Used \in Nat /\ Used + m_packet_size + 1 < RingBufferSize
      <4>1. Used \in Nat
        BY <1>1, DistanceType DEF Used, Slots
      <4>. QED BY <1>1, <2>1, <4>1 DEF RoomHeld, Building
    <3>6. ring[m_WritePos].command \in Commands
      BY <3>2 DEF Tag, Commands, DataCommands
    <3>. QED BY <1>1, <2>1, <3>1, <3>3, <3>4, <3>5, <3>6 DEF FillInv, Slots
  <2>2. CASE call \notin DataCalls
    <3>1. ring[m_WritePos] = Tag(CommandOf(call), 0) /\ CommandOf(call) \in Commands \ DataCommands
      BY <1>1, <2>2 DEF SealInv, CommandOf, DataCalls, DataCommands, Commands
    <3>2. L = 1 /\ ring[m_WritePos].command \in Commands
      BY <3>1 DEF PacketLength, Tag
    <3>3. m_WritePos' = Wrap(m_WritePos + 1) /\ 1 \in Slots
      BY <2>2 DEF Publish, Slots
    <3>4. Used \in Nat /\ Used + 1 < RingBufferSize
      <4>1. Used \in Nat
        BY <1>1, DistanceType DEF Used, Slots
      <4>. QED BY <1>1, <2>2, <4>1 DEF RoomHeld, Building
    <3>. QED BY <1>1, <3>2, <3>3, <3>4, WrapDistance
  <2>. QED BY <2>1, <2>2
<1>3. Used \in Slots /\ Used' = Used + L
  BY <1>1, <1>2, DistanceType, DistanceAdd DEF Used
<1>. QED BY <1>2, <1>3

\* Publishing hangs one packet on the end of the chain.
LEMMA PublishPreserved ==
  ASSUME RingInv, TypeOK', Publish
  PROVE  RingInv'
<1>. USE MtgsAssumption DEF RingInv
<1>. DEFINE L == PacketLength(ring[m_WritePos])
<1>1. /\ eePc = "publish" /\ eePc' \in {"wgTest", "tally"}
      /\ UNCHANGED <<m_ReadPos, ring, packetVars, call, gsPc, inc>>
      /\ m_ReadPos \in Slots /\ m_WritePos \in Slots /\ ring \in [Slots -> Cells]
      /\ m_packet_writepos \in Slots /\ m_packet_size \in 0..(RingBufferSize - 2)
  BY DEF Publish, EE, TypeOK, gsVars
<1>2. /\ ring[m_WritePos].command \in Commands
      /\ L \in Slots /\ Distance(m_WritePos, m_WritePos') = L /\ m_WritePos' \in Slots
      /\ L > 0 /\ Used + L < RingBufferSize
      /\ \A s \in Slots : Distance(m_WritePos, s) \in 1..(L - 1) => ring[s] = Payload
  BY PublishHop
<1>3. Used \in Slots /\ Used' = Used + L
  BY PublishHop
<1>4. FillInv' /\ SealInv' /\ RoomHeld' /\ ResetInv'
  BY <1>1 DEF FillInv, SealInv, RoomHeld, ResetInv, Building
<1>5. GsInv'
  <2>1. gsPc \in GsInPacket \ {"packet"} => inc \in Int
    BY DEF TypeOK
  <2>. QED BY <1>1, <1>2, <1>3, <2>1 DEF GsInv, Slots
<1>6. Used > 0 => m_ReadPos \in Unread
  BY <1>1, DistanceType DEF Unread, Slots
<1>7. Used' > 0 => ring'[m_ReadPos'].command \in Commands
  <2>1. CASE Used > 0
    BY <1>1, <2>1 DEF ChainInv
  <2>2. CASE Used = 0
    BY <1>1, <1>2, <2>2, DistanceType DEF Used
  <2>. QED BY <1>3, <2>1, <2>2 DEF Slots
<1>8. ASSUME NEW s \in Unread', ring'[s].command \in Commands  PROVE Chained(s)'
  <2>1. s \in Slots /\ Distance(m_ReadPos, s) < Used + L /\ ring[s].command \in Commands
    BY <1>1, <1>3, <1>8 DEF Unread
  <2>2. Distance(m_ReadPos, s) \in Slots /\ PacketLength(ring[s]) \in Slots
    <3>1. PacketLength(ring[s]) \in 1..(RingBufferSize - 1)
      BY <1>1, <2>1, PacketLengthType
    <3>. QED BY <1>1, <2>1, <3>1, DistanceType DEF Slots
  <2>3. CASE Distance(m_ReadPos, s) < Used
    <3>1. s \in Unread
      BY <2>1, <2>3 DEF Unread
    <3>2. Chained(s)
      BY <2>1, <3>1 DEF ChainInv
    <3>3. CASE Distance(m_ReadPos, s) + PacketLength(ring[s]) = Used
      <4>1. Wrap(s + PacketLength(ring[s])) = m_WritePos
        <5>1. Used < RingBufferSize
          BY <1>3 DEF Slots
        <5>2. /\ Wrap(s + PacketLength(ring[s])) \in Slots
              /\ Distance(m_ReadPos, Wrap(s + PacketLength(ring[s]))) = Used
          BY <1>1, <2>1, <2>2, <3>3, <5>1, HopDistance
        <5>. QED BY <1>1, <5>2, SlotAtDistance DEF Used
      <4>. QED BY <1>1, <1>2, <1>3, <3>3, <4>1 DEF Chained, Slots
    <3>4. CASE Distance(m_ReadPos, s) + PacketLength(ring[s]) # Used
      BY <1>1, <1>2, <1>3, <2>2, <3>2, <3>4 DEF Chained, Slots
    <3>. QED BY <3>3, <3>4
  <2>4. CASE Distance(m_ReadPos, s) >= Used
    <3>1. Distance(m_WritePos, s) = Distance(m_ReadPos, s) - Used
      <4>1. m_WritePos = Wrap(m_ReadPos + Used)
        BY <1>1, SlotAtDistance DEF Used
      <4>. QED BY <1>1, <1>3, <2>1, <2>4, <4>1, DistanceShift
    <3>2. Distance(m_WritePos, s) = 0
      <4>1. Distance(m_WritePos, s) \in 0..(L - 1)
        BY <1>2, <1>3, <2>1, <2>2, <2>4, <3>1 DEF Slots
      <4>2. ring[s] # Payload
        BY <2>1 DEF Payload, Commands
      <4>. QED BY <1>2, <2>1, <4>1, <4>2 DEF Slots
    <3>3. s = m_WritePos
      BY <1>1, <2>1, <3>2, DistanceType
    <3>4. Distance(m_ReadPos', s) + PacketLength(ring'[s]) = Used'
      BY <1>1, <1>3, <3>3 DEF Used
    <3>5. PacketLength(ring[s])' = PacketLength(ring'[s]) /\ Used' \in Int
      BY <1>1, <1>2, <1>3 DEF PacketLength, Slots
    <3>. QED BY <3>4, <3>5 DEF Chained
  <2>. QED BY <1>3, <2>2, <2>3, <2>4 DEF Slots
<1>9. ChainInv'
  BY <1>7, <1>8 DEF ChainInv
<1>. QED BY <1>4, <1>5, <1>9

\* The GS thread drops n qwords at the head, where a packet ends.
LEMMA HeadPreserved ==
  ASSUME RingInv, TypeOK', NEW n \in Slots, n <= Used, n > 0,
         m_ReadPos' = Wrap(m_ReadPos + n),
         n = Used \/ ring[Wrap(m_ReadPos + n)].command \in Commands,
         UNCHANGED <<m_WritePos, ring, packetVars, eePc, call>>,
         gsPc' \notin GsInPacket
  PROVE  RingInv'
<1>. USE MtgsAssumption DEF RingInv, packetVars
<1>1. m_ReadPos \in Slots /\ m_WritePos \in Slots /\ Used \in Slots /\ ring \in [Slots -> Cells]
      /\ m_packet_size \in Nat
  BY DistanceType DEF TypeOK, Used
<1>2. \A s \in Slots : Distance(m_ReadPos', s) =
        IF Distance(m_ReadPos, s) >= n THEN Distance(m_ReadPos, s) - n
                                       ELSE Distance(m_ReadPos, s) - n + RingBufferSize
  BY <1>1, DistanceShift
<1>3. Used' = Used - n
  BY <1>1, <1>2 DEF Used
<1>4. RoomHeld'
  BY <1>1, <1>3 DEF RoomHeld, Slots
<1>5. ResetInv'
  <2>1. Used # 0
    BY <1>1 DEF Slots
  <2>2. m_ReadPos # m_WritePos
    BY <1>1, <2>1, DistanceType DEF Used
  <2>. QED BY <2>2 DEF ResetInv
<1>6. FillInv' /\ SealInv' /\ GsInv'
  BY DEF FillInv, SealInv, GsInv, GsInPacket, ActualSize
<1>7. ASSUME NEW s \in Unread'
      PROVE  s \in Unread /\ Distance(m_ReadPos', s) = Distance(m_ReadPos, s) - n
  <2>1. s \in Slots /\ Distance(m_ReadPos', s) < Used - n /\ Distance(m_ReadPos, s) \in Slots
    BY <1>1, <1>3, <1>7, DistanceType DEF Unread
  <2>2. Distance(m_ReadPos', s) =
          IF Distance(m_ReadPos, s) >= n THEN Distance(m_ReadPos, s) - n
                                         ELSE Distance(m_ReadPos, s) - n + RingBufferSize
    BY <1>2, <2>1
  <2>3. Distance(m_ReadPos, s) >= n
    BY <1>1, <2>1, <2>2 DEF Slots
  <2>. QED BY <1>1, <2>1, <2>2, <2>3 DEF Unread, Slots
<1>8. ASSUME NEW s \in Unread', ring'[s].command \in Commands  PROVE Chained(s)'
  <2>1. Chained(s) /\ s \in Slots
    BY <1>7, <1>8 DEF ChainInv, Unread
  <2>2. PacketLength(ring[s]) \in 1..(RingBufferSize - 1)
    BY <1>1, <2>1, PacketLengthType
  <2>3. Distance(m_ReadPos, s) \in Slots
    BY <1>1, <2>1, DistanceType
  <2>4. Distance(m_ReadPos', s) = Distance(m_ReadPos, s) - n
    BY <1>7, <1>8
  <2>5. PacketLength(ring[s])' = PacketLength(ring[s])
    BY DEF PacketLength
  <2>6. Distance(m_ReadPos', s) + PacketLength(ring[s]) <= Used'
    BY <1>1, <1>3, <2>1, <2>2, <2>3, <2>4 DEF Chained, Slots
  <2>7. \/ Distance(m_ReadPos', s) + PacketLength(ring[s]) = Used'
        \/ ring[Wrap(s + PacketLength(ring[s]))].command \in Commands
    BY <1>1, <1>3, <2>1, <2>2, <2>3, <2>4 DEF Chained, Slots
  <2>. QED BY <2>5, <2>6, <2>7 DEF Chained, Wrap
<1>9. ChainInv'
  <2>1. Used' > 0 => ring'[m_ReadPos'].command \in Commands
    BY <1>1, <1>3 DEF Slots
  <2>. QED BY <1>8, <2>1 DEF ChainInv
<1>. QED BY <1>4, <1>5, <1>6, <1>9

LEMMA AdvancePreserved ==
  ASSUME RingInv, TypeOK', GsAdvance
  PROVE  RingInv'
<1>. USE MtgsAssumption DEF RingInv
<1>1. /\ m_ReadPos \in Slots /\ m_WritePos \in Slots /\ Used \in Slots
      /\ inc \in 1..(RingBufferSize - 1)
  BY DistanceType DEF TypeOK, Used
<1>2. inc = PacketLength(ring[m_ReadPos]) /\ inc <= Used
  BY DEF GsInv, GsInPacket, GsAdvance, GS
<1>3. Distance(m_ReadPos, m_ReadPos) = 0 /\ m_ReadPos \in Unread
  BY <1>1, <1>2, DistanceType DEF Unread, Slots
<1>4. Chained(m_ReadPos)
  BY <1>1, <1>2, <1>3 DEF ChainInv, Slots
<1>5. inc = Used \/ ring[Wrap(m_ReadPos + inc)].command \in Commands
  BY <1>1, <1>2, <1>3, <1>4 DEF Chained
<1>6. /\ m_ReadPos' = Wrap(m_ReadPos + inc) /\ gsPc' = "sigTest"
      /\ UNCHANGED <<m_WritePos, ring, packetVars, eePc, call>>
  BY DEF GsAdvance, GS, eeVars
<1>. QED BY <1>1, <1>2, <1>5, <1>6, HeadPreserved DEF Slots, GsInPacket

LEMMA DropPreserved ==
  ASSUME RingInv, TypeOK', GsDrop
  PROVE  RingInv'
<1>. USE MtgsAssumption DEF RingInv
<1>1. m_ReadPos \in Slots /\ m_WritePos \in Slots /\ Used \in Slots
  BY DistanceType DEF TypeOK, Used
<1>2. /\ m_ReadPos' = m_WritePos /\ gsPc' = "loop"
      /\ UNCHANGED <<m_WritePos, ring, packetVars, eePc, call, inc>>
  BY DEF GsDrop, GS, eeVars
<1>3. CASE Used = 0
  <2>1. m_ReadPos' = m_ReadPos
    BY <1>1, <1>2, <1>3, DistanceType DEF Used
  <2>. QED BY <1>2, <2>1, QuietPreserved DEF posVars, GsInPacket
<1>4. CASE Used > 0
  <2>1. m_ReadPos' = Wrap(m_ReadPos + Used)
    BY <1>1, <1>2, SlotAtDistance DEF Used
  <2>. QED BY <1>1, <1>2, <1>4, <2>1, HeadPreserved DEF Slots, GsInPacket
<1>. QED BY <1>1, <1>3, <1>4 DEF Slots

\* The GS thread enters a packet: there is one, and the chain bounds its length.
LEMMA EnterPreserved ==
  ASSUME RingInv, TypeOK', GsLoop \/ GsPacket
  PROVE  RingInv'
<1>. USE MtgsAssumption DEF RingInv
<1>1. UNCHANGED <<posVars, packetVars, eePc, call>>
      /\ m_ReadPos \in Slots /\ m_WritePos \in Slots /\ Used \in Slots
  BY DistanceType DEF GsLoop, GsPacket, eeVars, TypeOK, Used
<1>2. Used' = Used /\ Unread' = Unread
  BY <1>1 DEF Used, Unread, posVars
<1>3. RoomHeld' /\ ResetInv' /\ FillInv' /\ SealInv' /\ ChainInv'
  BY <1>1, <1>2 DEF RoomHeld, ResetInv, FillInv, SealInv, ChainInv, Chained, posVars, packetVars,
                    ActualSize
<1>4. GsInv'
  <2>1. CASE GsLoop
    <3>1. m_ReadPos # m_WritePos => Used > 0
      BY <1>1, DistanceType DEF Used, Slots
    <3>. QED BY <1>2, <2>1, <3>1 DEF GsLoop, GS, GsInv, GsInPacket
  <2>2. CASE GsPacket
    <3>1. Used > 0 /\ gsPc' # "packet" /\ inc' = PacketLength(ring[m_ReadPos])
      BY <2>2 DEF GsPacket, GS, GsInv
    <3>2. Distance(m_ReadPos, m_ReadPos) = 0 /\ m_ReadPos \in Unread
      BY <1>1, <3>1, DistanceType DEF Unread
    <3>3. PacketLength(ring[m_ReadPos]) \in 1..(RingBufferSize - 1)
      BY <1>1, PacketLengthType DEF TypeOK
    <3>4. PacketLength(ring[m_ReadPos]) <= Used
      BY <3>1, <3>2, <3>3 DEF ChainInv, Chained
    <3>. QED BY <1>1, <1>2, <3>1, <3>4 DEF GsInv, posVars, PacketLength
  <2>. QED BY <2>1, <2>2
<1>. QED BY <1>3, <1>4

\* WaitGS leaves an empty ring, so that ResetGS moves no position.
LEMMA ResetPreserved ==
  ASSUME RingInv, TypeOK', WaitTest \/ WaitAgain \/ ResetGS
  PROVE  RingInv'
<1>. USE DEF RingInv
<1>1. CASE ResetGS
  <2>1. m_ReadPos' = m_ReadPos
    BY <1>1 DEF ResetGS, EE, ResetInv
  <2>. QED BY <1>1, <2>1, QuietPreserved DEF ResetGS, EE, posVars, gsVars, packetVars, Building
<1>2. CASE (WaitTest \/ WaitAgain) /\ eePc' # "reset"
  <2>1. UNCHANGED <<posVars, gsPc, inc>> /\ eePc' \notin Building \cup {"reset"}
    BY <1>2 DEF WaitTest, WaitAgain, WaitReturn, EE, gsVars, Building
  <2>. QED BY <2>1, QuietPreserved
<1>3. CASE (WaitTest \/ WaitAgain) /\ eePc' = "reset"
  <2>1. UNCHANGED <<posVars, packetVars, call, gsPc, inc>> /\ m_ReadPos = m_WritePos
    BY <1>3 DEF WaitTest, WaitAgain, EE, gsVars
  <2>2. GsInv' /\ ChainInv'
    BY <2>1, OutsideWrite DEF posVars
  <2>. QED BY <1>3, <2>1, <2>2 DEF RoomHeld, ResetInv, FillInv, SealInv, Building, posVars
<1>. QED BY <1>1, <1>2, <1>3

LEMMA StepRingInv == RingInv /\ [Next]_vars => RingInv'
<1>. SUFFICES ASSUME RingInv, [Next]_vars PROVE RingInv'
  OBVIOUS
<1>. USE DEF gsVars, eeVars, packetVars, Building
<1>1. CASE UNCHANGED vars
  <2>. UNCHANGED <<posVars, packetVars, eePc, call, gsPc, inc>> /\ TypeOK'
    BY <1>1 DEF vars, posVars, busyVars, signalVars, vsyncVars, eventVars, RingInv, TypeOK
  <2>. QED BY QuietPreserved
<1>2. ASSUME Next PROVE TypeOK'
  BY <1>2, TypePreserved DEF RingInv
<1>3. ASSUME EECall PROVE RingInv'
  BY <1>2, <1>3, QuietPreserved DEF Next, EECall, BeginData, BeginSimple, BeginWait, EE
<1>4. ASSUME EEStep PROVE RingInv'
  <2>. TypeOK'
    BY <1>2, <1>4 DEF Next
  <2>1. CASE StallTest \/ StallWake \/ Spin
    BY <2>1, StallRoom
  <2>2. CASE StallArm \/ StallSleep \/ TallyPacket \/ Sent
    BY <2>2, QuietPreserved DEF StallArm, StallSleep, TallyPacket, Sent, EE
  <2>3. CASE StallKick \/ SpinKick \/ TallyKick \/ VsyncKick \/ WaitKick \/ ResetKick
    BY <2>3, QuietPreserved DEF StallKick, SpinKick, TallyKick, VsyncKick, WaitKick, ResetKick,
                                SetEvent, EE
  <2>4. CASE VsyncCount \/ VsyncListen \/ VsyncSleep \/ WaitMutex
    BY <2>4, QuietPreserved DEF VsyncCount, VsyncListen, VsyncSleep, WaitMutex, EE
  <2>5. CASE WriteTag
    BY <2>5, TagPreserved
  <2>6. CASE FillQword
    BY <2>6, FillPreserved
  <2>7. CASE FillAbandon \/ FillDone
    BY <2>7, FillEndPreserved
  <2>8. CASE SealTag
    BY <2>8, SealPreserved
  <2>9. CASE Publish
    BY <2>9, PublishPreserved
  <2>10. CASE WaitTest \/ WaitAgain \/ ResetGS
    BY <2>10, ResetPreserved
  <2>. QED BY <1>4, <2>1, <2>2, <2>3, <2>4, <2>5, <2>6, <2>7, <2>8, <2>9, <2>10 DEF EEStep
<1>5. ASSUME GSStep PROVE RingInv'
  <2>. TypeOK'
    BY <1>2, <1>5 DEF Next
  <2>1. CASE GsSleep \/ GsLock \/ GsBusy \/ GsUnbusy \/ GsUnlock
    BY <2>1, QuietPreserved DEF GsSleep, GsLock, GsBusy, GsUnbusy, GsUnlock, GS, GsInPacket
  <2>2. CASE GsVsyncCount \/ GsVsyncListener \/ GsVsyncPost
    BY <2>2, QuietPreserved DEF GsVsyncCount, GsVsyncListener, GsVsyncPost, GS, GsInPacket
  <2>3. CASE GsSignalTest \/ GsSignalSub \/ GsSignalClear \/ GsSignalPost
             \/ GsValve \/ GsValvePosition
    BY <2>3, QuietPreserved DEF GsSignalTest, GsSignalSub, GsSignalClear, GsSignalPost,
                                GsValve, GsValvePosition, GS, GsInPacket
  <2>4. CASE GsLoop \/ GsPacket
    BY <2>4, EnterPreserved
  <2>5. CASE GsDrop
    BY <2>5, DropPreserved
  <2>6. CASE GsAdvance
    BY <2>6, AdvancePreserved
  <2>. QED BY <1>5, <2>1, <2>2, <2>3, <2>4, <2>5, <2>6 DEF GSStep
<1>. QED BY <1>1, <1>3, <1>4, <1>5 DEF Next

-----------------------------------------------------------------------------
(* Theorems about the ring *)

THEOREM RingInvariant == Spec => []RingInv
<1>1. Init => RingInv
  BY InitRingInv
<1>2. RingInv /\ [Next]_vars => RingInv'
  BY StepRingInv
<1>. QED BY <1>1, <1>2, PTL DEF Spec

\* Every variable stays in its range, whatever the two threads do.
THEOREM TypeCorrect == Spec => []TypeOK
BY RingInvariant, PTL DEF RingInv

\* GenericStall: the packet under construction has its slots and one to spare.
THEOREM RoomIsHeld == Spec => []RoomHeld
BY RingInvariant, PTL DEF RingInv

\* ExecuteTaskInThread always switches on a tag whose whole packet is published.
THEOREM GsReadsPackets == Spec => []GsOnTag
<1>1. RingInv => GsOnTag
  <2>. SUFFICES ASSUME RingInv, gsPc \in GsInPacket
                PROVE  /\ ring[m_ReadPos].command \in Commands
                       /\ PacketLength(ring[m_ReadPos]) <= Used
    BY DEF GsOnTag
  <2>. USE MtgsAssumption DEF RingInv
  <2>1. m_ReadPos \in Slots /\ m_WritePos \in Slots /\ Used \in Slots
        /\ ring \in [Slots -> Cells] /\ inc \in 1..(RingBufferSize - 1)
    BY DistanceType DEF TypeOK, Used
  <2>2. PacketLength(ring[m_ReadPos]) \in 1..(RingBufferSize - 1)
    BY <2>1, PacketLengthType
  <2>3. Used > 0
    BY <2>1, <2>2 DEF GsInv, Slots
  <2>4. Distance(m_ReadPos, m_ReadPos) = 0 /\ m_ReadPos \in Unread
    BY <2>1, <2>3, DistanceType DEF Unread
  <2>5. Chained(m_ReadPos)
    BY <2>3, <2>4 DEF ChainInv
  <2>. QED BY <2>1, <2>2, <2>3, <2>4, <2>5 DEF Chained, ChainInv
<1>. QED BY <1>1, RingInvariant, PTL

\* No write of the EE ever lands on a qword the GS thread has yet to release.
THEOREM PublishedIsStable == Spec => PublishedStable
<1>1. RingInv /\ [Next]_vars => [\A s \in Unread \cap Unread' : ring'[s] = ring[s]]_vars
  <2>. SUFFICES ASSUME RingInv, Next  PROVE \A s \in Unread : ring'[s] = ring[s]
    OBVIOUS
  <2>. TypeOK'
    BY TypePreserved DEF RingInv
  <2>1. CASE WriteTag
    BY <2>1, TagPreserved
  <2>2. CASE FillQword
    BY <2>2, FillPreserved
  <2>3. CASE SealTag
    BY <2>3, SealPreserved
  <2>4. CASE EECall
    BY <2>4 DEF EECall, BeginData, BeginSimple, BeginWait, posVars
  <2>5. CASE GSStep
    BY <2>5 DEF GSStep, GsSleep, GsLock, GsBusy, GsUnbusy, GsUnlock, GsLoop, GsDrop, GsPacket,
                GsVsyncCount, GsVsyncListener, GsVsyncPost, GsAdvance, GsSignalTest, GsSignalSub,
                GsSignalClear, GsSignalPost, GsValve, GsValvePosition, posVars
  <2>6. CASE EEStep /\ ~WriteTag /\ ~FillQword /\ ~SealTag
    BY <2>6 DEF EEStep, StallTest, StallArm, StallKick, StallSleep, StallWake, SpinKick, Spin,
                FillAbandon, FillDone, Publish, TallyPacket, TallyKick, Sent, VsyncKick,
                VsyncCount, VsyncListen, VsyncSleep, WaitTest, WaitKick, WaitMutex, WaitAgain,
                ResetGS, ResetKick, SetEvent, posVars
  <2>. QED BY <2>1, <2>2, <2>3, <2>4, <2>5, <2>6 DEF Next
<1>. QED BY <1>1, RingInvariant, PTL DEF Spec, PublishedStable

-----------------------------------------------------------------------------
(* The two handshakes *)

\* The GS thread takes the flag down only after it has seen it up, and whoever holds
\* the wake-up of the EE finds the countdown used up.
SignalInv ==
  /\ SignalHandshake
  /\ gsPc \in {"sigSub", "sigClear"} => m_SignalRingEnable = 1
  /\ gsPc \in {"sigClear", "sigPost", "valvePost"} \/ m_sem_OnRingReset > 0
     \/ eePc = "stallWake" => m_SignalRingPosition <= 0

LEMMA StepSignalInv == TypeOK /\ SignalInv /\ [Next]_vars => SignalInv'
<1>. SUFFICES ASSUME TypeOK, SignalInv, [Next]_vars PROVE SignalInv'
  OBVIOUS
<1>. USE DEF SignalInv, SignalHandshake, SignalTokens, One
<1>0. /\ m_SignalRingEnable \in {0, 1} /\ m_sem_OnRingReset \in Nat
      /\ m_SignalRingPosition \in Int /\ inc \in Nat
  BY MtgsAssumption DEF TypeOK
<1>1. CASE UNCHANGED vars
  BY <1>0, <1>1 DEF vars, signalVars, eeVars, gsVars
<1>2. CASE UNCHANGED <<signalVars, gsVars>>
           /\ {eePc, eePc'} \cap {"stallKick", "stallSleep", "stallWake"} = {}
  BY <1>0, <1>2 DEF signalVars, gsVars
<1>3. CASE UNCHANGED <<signalVars, eeVars>>
           /\ {gsPc, gsPc'} \cap {"sigSub", "sigClear", "sigPost", "valvePos", "valvePost"} = {}
  BY <1>0, <1>3 DEF signalVars, eeVars
<1>4. ASSUME EECall PROVE SignalInv'
  BY <1>2, <1>4 DEF EECall, BeginData, BeginSimple, BeginWait, EE
<1>5. ASSUME EEStep PROVE SignalInv'
  <2>1. CASE StallTest
    BY <1>0, <2>1 DEF StallTest, EE, gsVars
  <2>2. CASE StallArm
    BY <1>0, <2>2 DEF StallArm, EE, gsVars
  <2>3. CASE StallKick
    BY <1>0, <2>3 DEF StallKick, SetEvent, EE, gsVars, signalVars
  <2>4. CASE StallSleep
    BY <1>0, <2>4 DEF StallSleep, EE, gsVars
  <2>5. CASE StallWake
    BY <1>0, <2>5 DEF StallWake, EE, gsVars, signalVars
  <2>6. CASE SpinKick \/ Spin \/ WriteTag \/ FillQword \/ FillAbandon \/ FillDone \/ SealTag
             \/ Publish \/ TallyPacket \/ TallyKick \/ Sent
    BY <1>2, <2>6 DEF SpinKick, Spin, WriteTag, FillQword, FillAbandon, FillDone, SealTag,
                      Publish, TallyPacket, TallyKick, Sent, SetEvent, EE
  <2>7. CASE VsyncKick \/ VsyncCount \/ VsyncListen \/ VsyncSleep \/ WaitTest \/ WaitKick
             \/ WaitMutex \/ WaitAgain \/ ResetGS \/ ResetKick
    BY <1>2, <2>7 DEF VsyncKick, VsyncCount, VsyncListen, VsyncSleep, WaitTest, WaitKick,
                      WaitMutex, WaitAgain, WaitReturn, ResetGS, ResetKick, SetEvent, EE
  <2>. QED BY <1>5, <2>1, <2>2, <2>3, <2>4, <2>5, <2>6, <2>7 DEF EEStep
<1>6. ASSUME GSStep PROVE SignalInv'
  <2>1. CASE GsSleep \/ GsLock \/ GsBusy \/ GsUnbusy \/ GsUnlock \/ GsLoop \/ GsDrop \/ GsPacket
    BY <1>3, <2>1 DEF GsSleep, GsLock, GsBusy, GsUnbusy, GsUnlock, GsLoop, GsDrop, GsPacket, GS
  <2>2. CASE GsVsyncCount \/ GsVsyncListener \/ GsVsyncPost \/ GsAdvance
    BY <1>3, <2>2 DEF GsVsyncCount, GsVsyncListener, GsVsyncPost, GsAdvance, GS
  <2>3. CASE GsSignalTest
    BY <1>0, <2>3 DEF GsSignalTest, GS, signalVars, eeVars
  <2>4. CASE GsSignalSub
    BY <1>0, <2>4 DEF GsSignalSub, GS, eeVars
  <2>5. CASE GsSignalClear
    BY <1>0, <2>5 DEF GsSignalClear, GS, eeVars
  <2>6. CASE GsSignalPost
    BY <1>0, <2>6 DEF GsSignalPost, GS, eeVars
  <2>7. CASE GsValve
    BY <1>0, <2>7 DEF GsValve, GS, eeVars
  <2>8. CASE GsValvePosition
    BY <1>0, <2>8 DEF GsValvePosition, GS, eeVars
  <2>. QED BY <1>6, <2>1, <2>2, <2>3, <2>4, <2>5, <2>6, <2>7, <2>8 DEF GSStep
<1>. QED BY <1>1, <1>4, <1>5, <1>6 DEF Next

THEOREM SignalInvariant == Spec => []SignalInv
<1>1. Init => SignalInv
  BY DEF Init, SignalInv, SignalHandshake, SignalTokens, One
<1>2. TypeOK /\ SignalInv /\ [Next]_vars => SignalInv'
  BY StepSignalInv
<1>. QED BY <1>1, <1>2, TypeCorrect, PTL DEF Spec

\* The wake-up of a stalled EE is never lost, doubled or left over.
THEOREM SignalIsHandshake == Spec => []SignalHandshake
BY SignalInvariant, PTL DEF SignalInv

\* The two development assertions of GenericStall hold.
THEOREM StallAssertsHold == Spec => []StallAsserts
<1>1. TypeOK /\ SignalInv => StallAsserts
  BY DEF TypeOK, SignalInv, SignalHandshake, SignalTokens, One, StallAsserts
<1>. QED BY <1>1, SignalInvariant, TypeCorrect, PTL

LEMMA StepVsync == TypeOK /\ VsyncHandshake /\ [Next]_vars => VsyncHandshake'
<1>. SUFFICES ASSUME TypeOK, VsyncHandshake, [Next]_vars PROVE VsyncHandshake'
  OBVIOUS
<1>. USE DEF VsyncHandshake, One
<1>0. m_VsyncSignalListener \in BOOLEAN /\ m_sem_Vsync \in Nat
  BY DEF TypeOK
<1>1. CASE UNCHANGED vars
  BY <1>0, <1>1 DEF vars, vsyncVars, eeVars, gsVars
<1>2. CASE UNCHANGED <<m_VsyncSignalListener, m_sem_Vsync, gsVars>>
           /\ {eePc, eePc'} \cap {"vsyncSleep"} = {}
  BY <1>0, <1>2 DEF gsVars
<1>3. CASE UNCHANGED <<m_VsyncSignalListener, m_sem_Vsync, eeVars>>
           /\ {gsPc, gsPc'} \cap {"vPost", "valveVsyncPost"} = {}
  BY <1>0, <1>3 DEF eeVars
<1>4. ASSUME EECall PROVE VsyncHandshake'
  BY <1>2, <1>4 DEF EECall, BeginData, BeginSimple, BeginWait, EE, vsyncVars
<1>5. ASSUME EEStep PROVE VsyncHandshake'
  <2>1. CASE VsyncListen
    BY <1>0, <2>1 DEF VsyncListen, EE, gsVars
  <2>2. CASE VsyncSleep
    BY <1>0, <2>2 DEF VsyncSleep, EE, gsVars
  <2>3. CASE ResetGS
    BY <1>0, <2>3 DEF ResetGS, EE, gsVars
  <2>4. CASE StallTest \/ StallArm \/ StallKick \/ StallSleep \/ StallWake \/ SpinKick \/ Spin
             \/ WriteTag \/ FillQword \/ FillAbandon \/ FillDone \/ SealTag \/ Publish
    BY <1>2, <2>4 DEF StallTest, StallArm, StallKick, StallSleep, StallWake, SpinKick, Spin,
                      WriteTag, FillQword, FillAbandon, FillDone, SealTag, Publish, SetEvent, EE,
                      vsyncVars
  <2>5. CASE TallyPacket \/ TallyKick \/ Sent \/ VsyncKick \/ VsyncCount \/ WaitTest \/ WaitKick
             \/ WaitMutex \/ WaitAgain \/ ResetKick
    BY <1>2, <2>5 DEF TallyPacket, TallyKick, Sent, VsyncKick, VsyncCount, WaitTest, WaitKick,
                      WaitMutex, WaitAgain, WaitReturn, ResetKick, SetEvent, EE, vsyncVars
  <2>. QED BY <1>5, <2>1, <2>2, <2>3, <2>4, <2>5 DEF EEStep
<1>6. ASSUME GSStep PROVE VsyncHandshake'
  <2>1. CASE GsVsyncListener
    BY <1>0, <2>1 DEF GsVsyncListener, GS, eeVars
  <2>2. CASE GsVsyncPost
    BY <1>0, <2>2 DEF GsVsyncPost, GS, eeVars
  <2>3. CASE GsSleep \/ GsLock \/ GsBusy \/ GsUnbusy \/ GsUnlock \/ GsLoop \/ GsDrop \/ GsPacket
             \/ GsVsyncCount \/ GsAdvance
    <3>1. CASE GsUnbusy
      BY <1>0, <3>1 DEF GsUnbusy, GS, eeVars, vsyncVars
    <3>2. CASE ~GsUnbusy
      BY <1>3, <2>3, <3>2 DEF GsSleep, GsLock, GsBusy, GsUnlock, GsLoop, GsDrop, GsPacket,
                              GsVsyncCount, GsAdvance, GS, vsyncVars
    <3>. QED BY <3>1, <3>2
  <2>4. CASE GsSignalTest \/ GsSignalSub \/ GsSignalClear \/ GsSignalPost \/ GsValve
             \/ GsValvePosition
    BY <1>3, <2>4 DEF GsSignalTest, GsSignalSub, GsSignalClear, GsSignalPost, GsValve,
                      GsValvePosition, GS, vsyncVars
  <2>. QED BY <1>6, <2>1, <2>2, <2>3, <2>4 DEF GSStep
<1>. QED BY <1>1, <1>4, <1>5, <1>6 DEF Next

\* Nor is the wake-up of an EE that waits for a queued frame.
THEOREM VsyncIsHandshake == Spec => []VsyncHandshake
<1>1. Init => VsyncHandshake
  BY DEF Init, VsyncHandshake, One
<1>2. TypeOK /\ VsyncHandshake /\ [Next]_vars => VsyncHandshake'
  BY StepVsync
<1>. QED BY <1>1, <1>2, TypeCorrect, PTL DEF Spec

-----------------------------------------------------------------------------
(* The spinning stall *)

\* With a ring of more than 5 * SpinLimit + 2 qwords (the code has 524288, and a
\* SpinLimit of 128) GenericStall never spins: a wait that short needs a ring that is
\* nearly full and nearly empty at once.
THEOREM SpinIsDead ==
  ASSUME RingBufferSize > 5 * SpinLimit + 2
  PROVE  Spec => []NeverSpins
<1>. USE MtgsAssumption
<1>1. Init => NeverSpins
  BY DEF Init, NeverSpins
<1>2. ASSUME TypeOK, NeverSpins, [Next]_vars  PROVE NeverSpins'
  <2>1. CASE StallTest
    <3>1. m_packet_size \in Nat /\ StallSize \in Nat
      BY <1>2 DEF TypeOK, StallSize
    <3>2. FreeRoom(m_ReadPos, m_WritePos) \in 0..RingBufferSize
      BY <1>2 DEF TypeOK, FreeRoom, Slots
    <3>3. \A f, n \in Nat : f <= n /\ f <= RingBufferSize => SomeDone(f, n) > SpinLimit
      BY DEF SomeDone
    <3>. QED BY <2>1, <3>1, <3>2, <3>3 DEF StallTest, EE, NeverSpins
  <2>2. CASE GSStep \/ UNCHANGED vars
    BY <1>2, <2>2 DEF NeverSpins, vars, eeVars, GSStep, GsSleep, GsLock, GsBusy, GsUnbusy, GsUnlock,
        GsLoop, GsDrop, GsPacket, GsVsyncCount, GsVsyncListener, GsVsyncPost, GsAdvance,
        GsSignalTest, GsSignalSub, GsSignalClear, GsSignalPost, GsValve, GsValvePosition
  <2>3. CASE EECall \/ (EEStep /\ ~StallTest)
    BY <1>2, <2>3 DEF NeverSpins, EECall, BeginData, BeginSimple, BeginWait, EEStep, StallArm,
        StallKick, StallSleep, StallWake, SpinKick, Spin, WriteTag, FillQword, FillAbandon,
        FillDone, SealTag, Publish, TallyPacket, TallyKick, Sent, VsyncKick, VsyncCount,
        VsyncListen, VsyncSleep, WaitTest, WaitKick, WaitMutex, WaitAgain, WaitReturn, ResetGS,
        ResetKick, SetEvent, EE
  <2>. QED BY <1>2, <2>1, <2>2, <2>3 DEF Next
<1>. QED BY <1>1, <1>2, TypeCorrect, PTL DEF Spec

-----------------------------------------------------------------------------
(* Synchronous mode *)

\* The GS thread in a packet knows its length, and that it is published.
LEMMA InPacket ==
  ASSUME RingInv, gsPc \in GsInPacket \ {"packet"}
  PROVE  /\ inc = PacketLength(ring[m_ReadPos]) /\ inc \in Slots /\ inc > 0
         /\ inc <= Used /\ Used \in Slots /\ m_ReadPos \in Slots /\ m_WritePos \in Slots
<1>. USE MtgsAssumption
<1>1. /\ inc \in 1..(RingBufferSize - 1) /\ Used \in Slots
      /\ m_ReadPos \in Slots /\ m_WritePos \in Slots
  BY DistanceType DEF RingInv, TypeOK, Used
<1>. QED BY <1>1 DEF RingInv, GsInv, Slots

\* Where the EE waits for the GS thread to empty the ring.
Waiting == {"wgTest", "wgKick", "wgMutex", "wgAgain"}

\* Synchronous mode: the ring is empty unless the EE waits, and then it holds the
\* one packet that was sent.
SyncInv ==
  SynchronousMTGS =>
    /\ Used > 0 => PacketLength(ring[m_ReadPos]) = Used
    /\ eePc \notin Waiting => m_ReadPos = m_WritePos

LEMMA StepSyncInv == RingInv /\ SyncInv /\ [Next]_vars => SyncInv'
<1>. SUFFICES ASSUME RingInv, SyncInv, [Next]_vars, SynchronousMTGS PROVE SyncInv'
  BY DEF SyncInv
<1>. USE MtgsAssumption
<1>0. /\ m_ReadPos \in Slots /\ m_WritePos \in Slots /\ Used \in Slots
      /\ Used = 0 <=> m_ReadPos = m_WritePos
  BY DistanceType DEF RingInv, TypeOK, Used
<1>1. m_WritePos' \in Slots
  BY <1>0, TypePreserved DEF RingInv, TypeOK, vars, posVars
<1>2. ASSUME UNCHANGED posVars, eePc' = eePc \/ eePc' \in Waiting \/ m_ReadPos = m_WritePos
      PROVE  SyncInv'
  BY <1>2 DEF SyncInv, Used, posVars, PacketLength
<1>3. ASSUME m_ReadPos' = m_WritePos'  PROVE SyncInv'
  <2>1. Used' = 0
    BY <1>3, <1>1, DistanceType DEF Used
  <2>. QED BY <1>3, <2>1 DEF SyncInv
<1>4. CASE UNCHANGED vars
  BY <1>2, <1>4 DEF vars, eeVars
<1>5. CASE EECall
  BY <1>2, <1>5 DEF EECall, BeginData, BeginSimple, BeginWait, EE, SyncInv, Waiting
<1>6. CASE EEStep
  <2>1. CASE StallTest \/ StallArm \/ StallKick \/ StallSleep \/ StallWake \/ SpinKick \/ Spin
             \/ FillAbandon \/ FillDone \/ TallyPacket \/ TallyKick \/ Sent
    BY <1>2, <2>1 DEF StallTest, StallArm, StallKick, StallSleep, StallWake, SpinKick, Spin,
         FillAbandon, FillDone, TallyPacket, TallyKick, Sent, SetEvent, EE, SyncInv, Waiting
  <2>2. CASE VsyncKick \/ VsyncCount \/ VsyncListen \/ VsyncSleep \/ WaitTest \/ WaitKick
             \/ WaitMutex \/ WaitAgain \/ ResetKick
    BY <1>2, <2>2 DEF VsyncKick, VsyncCount, VsyncListen, VsyncSleep, WaitTest, WaitKick,
         WaitMutex, WaitAgain, ResetKick, SetEvent, EE, SyncInv, Waiting
  <2>3. CASE WriteTag \/ FillQword \/ SealTag \/ ResetGS
    BY <1>3, <2>3 DEF WriteTag, FillQword, SealTag, ResetGS, EE, SyncInv, Waiting
  <2>4. CASE Publish
    <3>1. m_ReadPos = m_WritePos /\ m_ReadPos' = m_ReadPos /\ ring' = ring /\ eePc' = "wgTest"
      BY <2>4 DEF Publish, EE, SyncInv, Waiting
    <3>2. Used' = PacketLength(ring[m_WritePos])
      BY <1>0, <2>4, <3>1, PublishHop DEF Slots
    <3>. QED BY <3>1, <3>2 DEF SyncInv, Waiting, PacketLength
  <2>. QED BY <1>6, <2>1, <2>2, <2>3, <2>4 DEF EEStep
<1>7. CASE GSStep
  <2>1. CASE GsSleep \/ GsLock \/ GsBusy \/ GsUnbusy \/ GsUnlock \/ GsLoop \/ GsPacket
             \/ GsVsyncCount \/ GsVsyncListener \/ GsVsyncPost
    BY <1>2, <2>1 DEF GsSleep, GsLock, GsBusy, GsUnbusy, GsUnlock, GsLoop, GsPacket,
         GsVsyncCount, GsVsyncListener, GsVsyncPost, eeVars
  <2>2. CASE GsSignalTest \/ GsSignalSub \/ GsSignalClear \/ GsSignalPost \/ GsValve
             \/ GsValvePosition
    BY <1>2, <2>2 DEF GsSignalTest, GsSignalSub, GsSignalClear, GsSignalPost, GsValve,
         GsValvePosition, eeVars
  <2>3. CASE GsDrop
    BY <1>3, <2>3 DEF GsDrop
  <2>4. CASE GsAdvance
    <3>1. inc = Used
      BY <2>4, InPacket DEF GsAdvance, GS, GsInPacket, SyncInv, Slots
    <3>2. m_ReadPos' = m_WritePos'
      BY <1>0, <2>4, <3>1, SlotAtDistance DEF GsAdvance, Used
    <3>. QED BY <1>3, <3>2
  <2>. QED BY <1>7, <2>1, <2>2, <2>3, <2>4 DEF GSStep
<1>. QED BY <1>4, <1>5, <1>6, <1>7 DEF Next

\* The assertion of ExecuteTaskInThread holds: in synchronous mode the GS thread is at
\* the end of the ring when it has executed a packet, whichever call sent it.
THEOREM SyncIsLockstep == Spec => []SyncLockstep
<1>1. Init => SyncInv
  BY MtgsAssumption DEF Init, SyncInv, Used, Distance
<1>2. RingInv /\ SyncInv => SyncLockstep
  <2>. SUFFICES ASSUME RingInv, SyncInv, SynchronousMTGS, gsPc = "advance"
                PROVE  m_WritePos = Wrap(m_ReadPos + inc)
    BY DEF SyncLockstep
  <2>1. inc = Used
    BY InPacket DEF GsInPacket, SyncInv, Slots
  <2>. QED BY <2>1, InPacket, SlotAtDistance DEF GsInPacket, Used
<1>. QED BY <1>1, <1>2, StepSyncInv, RingInvariant, PTL DEF Spec

-----------------------------------------------------------------------------
(* What is in the packets, and the count of the queued frames *)

\* What lies behind the tag of a published packet is payload.
BodyInv ==
  \A s \in Unread : ring[s].command \in Commands =>
    \A t \in Slots : Distance(s, t) \in 1..(PacketLength(ring[s]) - 1) => ring[t] = Payload

\* The slots of a published packet are published.
LEMMA BodyUnread ==
  ASSUME RingInv, NEW s \in Unread, ring[s].command \in Commands,
         NEW t \in Slots, Distance(s, t) < PacketLength(ring[s])
  PROVE  t \in Unread
<1>. USE MtgsAssumption
<1>1. /\ m_ReadPos \in Slots /\ Used \in Slots /\ s \in Slots /\ ring[s] \in Cells
      /\ Distance(s, t) \in Slots /\ Distance(m_ReadPos, s) \in Slots
  BY DistanceType DEF RingInv, TypeOK, Unread, Used
<1>2. PacketLength(ring[s]) \in Slots
  BY <1>1, PacketLengthType DEF Slots
<1>3. Distance(m_ReadPos, s) + PacketLength(ring[s]) <= Used
  BY DEF RingInv, ChainInv, Chained
<1>4. Distance(m_ReadPos, s) + Distance(s, t) < Used
  BY <1>1, <1>2, <1>3 DEF Slots
<1>5. Distance(m_ReadPos, t) = Distance(m_ReadPos, s) + Distance(s, t)
  BY <1>1, <1>4, DistanceAdd DEF Slots
<1>. QED BY <1>4, <1>5 DEF Unread

\* No step but these changes what is published.
LEMMA RingSteps ==
  ASSUME RingInv, [Next]_vars
  PROVE  \/ UNCHANGED <<m_ReadPos, m_WritePos>> /\ \A s \in Unread : ring'[s] = ring[s]
         \/ Publish \/ GsAdvance \/ GsDrop
<1>. TypeOK'
  BY TypePreserved DEF RingInv, TypeOK, vars, posVars, busyVars, signalVars, vsyncVars,
       eventVars, packetVars, eeVars, gsVars
<1>1. CASE UNCHANGED vars \/ EECall
  BY <1>1 DEF vars, EECall, BeginData, BeginSimple, BeginWait, posVars
<1>2. CASE WriteTag \/ FillQword \/ SealTag
  BY <1>2, TagPreserved, FillPreserved, SealPreserved DEF WriteTag, FillQword, SealTag
<1>3. CASE ResetGS
  BY <1>3 DEF ResetGS, EE, RingInv, ResetInv
<1>4. CASE EEStep /\ ~WriteTag /\ ~FillQword /\ ~SealTag /\ ~ResetGS /\ ~Publish
  BY <1>4 DEF EEStep, StallTest, StallArm, StallKick, StallSleep, StallWake, SpinKick, Spin,
              FillAbandon, FillDone, TallyPacket, TallyKick, Sent, VsyncKick,
              VsyncCount, VsyncListen, VsyncSleep, WaitTest, WaitKick, WaitMutex, WaitAgain,
              ResetKick, SetEvent, posVars
<1>5. CASE GSStep /\ ~GsAdvance /\ ~GsDrop
  BY <1>5 DEF GSStep, GsSleep, GsLock, GsBusy, GsUnbusy, GsUnlock, GsLoop, GsPacket,
              GsVsyncCount, GsVsyncListener, GsVsyncPost, GsSignalTest, GsSignalSub,
              GsSignalClear, GsSignalPost, GsValve, GsValvePosition, posVars
<1>. QED BY <1>1, <1>2, <1>3, <1>4, <1>5 DEF Next

\* The end of the queue after a packet is published: the slots that are new.
LEMMA PublishUnread ==
  ASSUME RingInv, Publish
  PROVE  /\ Unread \subseteq Unread' /\ m_WritePos \in Unread' /\ m_WritePos \notin Unread
         /\ \A s \in Unread' \ Unread :
              s = m_WritePos \/ ring[s] = Payload
<1>. USE MtgsAssumption
<1>. DEFINE L == PacketLength(ring[m_WritePos])
<1>1. /\ m_ReadPos \in Slots /\ m_WritePos \in Slots /\ L \in Slots /\ L > 0
      /\ Used \in Slots /\ Used' = Used + L /\ m_ReadPos' = m_ReadPos
      /\ \A s \in Slots : Distance(m_WritePos, s) \in 1..(L - 1) => ring[s] = Payload
  BY PublishHop DEF RingInv, TypeOK, Publish
<1>. HIDE DEF L
<1>2. \A s \in Slots : Distance(m_ReadPos, s) \in Slots /\ Distance(m_WritePos, s) \in Slots
  BY <1>1, DistanceType
<1>3. Unread \subseteq Unread'
  BY <1>1, <1>2 DEF Unread, Slots
<1>4. m_WritePos \in Unread' /\ m_WritePos \notin Unread
  BY <1>1 DEF Unread, Used, Slots
<1>5. ASSUME NEW s \in Unread' \ Unread, s # m_WritePos  PROVE ring[s] = Payload
  <2>1. s \in Slots /\ Distance(m_ReadPos, s) >= Used /\ Distance(m_ReadPos, s) < Used + L
    BY <1>1, <1>2, <1>5 DEF Unread, Slots
  <2>2. m_WritePos = Wrap(m_ReadPos + Used)
    BY <1>1, SlotAtDistance DEF Used
  <2>3. Distance(m_WritePos, s) = Distance(m_ReadPos, s) - Used
    BY <1>1, <2>1, <2>2, DistanceShift
  <2>4. Distance(m_WritePos, s) # 0
    BY <1>1, <1>5, <2>1, DistanceType
  <2>5. Distance(m_WritePos, s) \in 1..(L - 1)
    BY <1>1, <1>2, <2>1, <2>3, <2>4 DEF Slots
  <2>. QED BY <1>1, <2>1, <2>5
<1>. QED BY <1>3, <1>4, <1>5

\* The head of the queue after the GS thread has moved on: the slots it has left.
LEMMA AdvanceUnread ==
  ASSUME RingInv, GsAdvance
  PROVE  /\ Unread' \subseteq Unread /\ m_ReadPos \in Unread /\ m_ReadPos \notin Unread'
         /\ \A s \in Unread \ Unread' : Distance(m_ReadPos, s) < inc
<1>. USE MtgsAssumption
<1>1. /\ inc \in Slots /\ inc > 0 /\ inc <= Used /\ Used \in Slots
      /\ m_ReadPos \in Slots /\ m_WritePos \in Slots
      /\ m_ReadPos' = Wrap(m_ReadPos + inc) /\ m_WritePos' = m_WritePos
  BY InPacket DEF GsAdvance, GS, GsInPacket
<1>2. \A s \in Slots :
        /\ Distance(m_ReadPos, s) \in Slots
        /\ Distance(m_ReadPos', s) =
             IF Distance(m_ReadPos, s) >= inc THEN Distance(m_ReadPos, s) - inc
                                              ELSE Distance(m_ReadPos, s) - inc + RingBufferSize
  BY <1>1, DistanceShift, DistanceType
<1>3. Used' = Used - inc
  BY <1>1, <1>2 DEF Used
<1>4. Distance(m_ReadPos, m_ReadPos) = 0
  BY <1>1, DistanceType
<1>. QED BY <1>1, <1>2, <1>3, <1>4 DEF Unread, Slots

LEMMA StepBody == RingInv /\ BodyInv /\ [Next]_vars => BodyInv'
<1>. SUFFICES ASSUME RingInv, BodyInv, [Next]_vars,
                     NEW s \in Unread', ring'[s].command \in Commands,
                     NEW t \in Slots, Distance(s, t) \in 1..(PacketLength(ring'[s]) - 1)
              PROVE  ring'[t] = Payload
  BY DEF BodyInv, PacketLength
<1>. USE MtgsAssumption
<1>0. s \in Slots
  BY DEF Unread
<1>1. ASSUME s \in Unread, ring'[s] = ring[s]
      PROVE  ring[t] = Payload /\ t \in Unread
  <2>1. PacketLength(ring[s]) \in Int /\ Distance(s, t) \in Int
    BY <1>0, PacketLengthType, DistanceType DEF RingInv, TypeOK, Slots
  <2>2. PacketLength(ring'[s]) = PacketLength(ring[s])
    BY <1>1
  <2>3. Distance(s, t) < PacketLength(ring[s])
    BY <2>1, <2>2
  <2>. QED BY <1>1, <2>2, <2>3, BodyUnread DEF BodyInv
<1>2. CASE UNCHANGED <<m_ReadPos, m_WritePos>> /\ \A u \in Unread : ring'[u] = ring[u]
  <2>1. Unread' = Unread
    BY <1>2 DEF Unread, Used
  <2>. QED BY <1>1, <1>2, <2>1
<1>3. CASE GsAdvance
  <2>1. ring' = ring /\ Unread' \subseteq Unread
    BY <1>3, AdvanceUnread DEF GsAdvance
  <2>. QED BY <1>1, <2>1
<1>4. CASE GsDrop
  <2>1. m_WritePos' = m_WritePos /\ m_ReadPos' = m_WritePos /\ m_WritePos \in Slots
    BY <1>4 DEF GsDrop, RingInv, TypeOK
  <2>2. Unread' = {}
    BY <2>1, DistanceType DEF Unread, Used, Slots
  <2>. QED BY <2>2
<1>5. CASE Publish
  <2>1. ring' = ring
    BY <1>5 DEF Publish
  <2>2. CASE s \in Unread
    BY <1>1, <2>1, <2>2
  <2>3. CASE s \notin Unread
    <3>1. s = m_WritePos
      BY <1>5, <2>1, <2>3, PublishUnread DEF Payload, Commands
    <3>. QED BY <1>5, <2>1, <3>1, PublishHop
  <2>. QED BY <2>2, <2>3
<1>. QED BY <1>2, <1>3, <1>4, <1>5, RingSteps

\* A published packet is one tag and payload: no command that the EE has not finished
\* is left behind it, for the GS thread to come upon.
THEOREM PacketsAreWhole == Spec => []BodyInv
<1>1. Init => BodyInv
  BY DEF Init, BodyInv, Unread, Payload, Commands
<1>. QED BY <1>1, StepBody, RingInvariant, PTL DEF Spec

\* The vsync packets in the ring.
Vsyncs == {s \in Unread : ring[s].command = "VSYNC"}

\* The GS thread drops nothing, and is in the case of a vsync with a vsync; the EE
\* counts a frame only for a vsync.
FrameInv ==
  /\ eePc \in {"vsyncKick", "vsyncCount"} => call = "vsync"
  /\ gsPc # "drop"
  /\ gsPc \in GsInPacket \ {"packet", "advance"} => ring[m_ReadPos].command = "VSYNC"
  /\ FrameCount

\* The EE has published a vsync and not yet counted it; the GS thread has counted
\* one off and not yet released it.
Uncounted == call = "vsync" /\ eePc \in {"tally", "tallyKick", "sent", "vsyncKick",
                                         "vsyncCount"} \cup Waiting
Unreleased == gsPc \in GsInPacket \ {"packet", "vCount"} /\ ring[m_ReadPos].command = "VSYNC"

LEMMA FrameParts ==
  FrameCount <=> m_QueuedFrameCount = Cardinality(Vsyncs) - One(Uncounted) - One(Unreleased)
BY DEF FrameCount, QueuedVsyncs, Vsyncs, Uncounted, Unreleased, Waiting

LEMMA VsyncsFinite ==
  /\ IsFiniteSet(Vsyncs) /\ Cardinality(Vsyncs) \in Nat
<1>1. IsFiniteSet(Slots)
  BY MtgsAssumption, FS_Interval DEF Slots
<1>2. Vsyncs \in SUBSET Slots
  BY DEF Vsyncs, Unread
<1>3. IsFiniteSet(Vsyncs)
  BY <1>1, <1>2, FS_Subset
<1>. QED BY <1>3, FS_CardinalityType

\* What is published stays the same, and so do the frames in it.
LEMMA SameVsyncs ==
  ASSUME UNCHANGED <<m_ReadPos, m_WritePos>>, \A s \in Unread : ring'[s] = ring[s]
  PROVE  Vsyncs' = Vsyncs
<1>1. Unread' = Unread
  BY DEF Unread, Used
<1>. QED BY <1>1 DEF Vsyncs

\* Publish adds the packet to the frames if it is one.
LEMMA PublishVsyncs ==
  ASSUME RingInv, Publish
  PROVE  IF call = "vsync" THEN Vsyncs' = Vsyncs \cup {m_WritePos} /\ m_WritePos \notin Vsyncs
                           ELSE Vsyncs' = Vsyncs
<1>1. /\ Unread \subseteq Unread' /\ m_WritePos \in Unread' /\ m_WritePos \notin Unread
      /\ \A s \in Unread' \ Unread : s = m_WritePos \/ ring[s] = Payload
  BY PublishUnread
<1>2. ring' = ring
  BY DEF Publish
<1>3. ring[m_WritePos].command = CommandOf(call)
  BY DEF Publish, EE, RingInv, SealInv, Tag
<1>4. CommandOf(call) = "VSYNC" <=> call = "vsync"
  BY DEF CommandOf
<1>. QED BY <1>1, <1>2, <1>3, <1>4 DEF Vsyncs, Payload

\* The GS thread takes the packet it has executed off the frames, and no other.
LEMMA AdvanceVsyncs ==
  ASSUME RingInv, BodyInv, GsAdvance
  PROVE  IF ring[m_ReadPos].command = "VSYNC"
           THEN Vsyncs' = Vsyncs \ {m_ReadPos} /\ m_ReadPos \in Vsyncs
           ELSE Vsyncs' = Vsyncs
<1>. USE MtgsAssumption
<1>1. /\ Unread' \subseteq Unread /\ m_ReadPos \in Unread /\ m_ReadPos \notin Unread'
      /\ \A s \in Unread \ Unread' : Distance(m_ReadPos, s) < inc
  BY AdvanceUnread
<1>2. ring' = ring
  BY DEF GsAdvance
<1>3. /\ inc = PacketLength(ring[m_ReadPos]) /\ inc \in Slots /\ m_ReadPos \in Slots /\ Used > 0
  BY InPacket DEF GsAdvance, GS, GsInPacket, Slots
<1>4. ASSUME NEW s \in Unread \ Unread', s # m_ReadPos  PROVE ring[s] = Payload
  <2>1. s \in Slots /\ Distance(m_ReadPos, s) \in Slots /\ Distance(m_ReadPos, s) # 0
        /\ Distance(m_ReadPos, s) < inc
    BY <1>1, <1>3, <1>4, DistanceType DEF Unread
  <2>2. Distance(m_ReadPos, s) \in 1..(inc - 1)
    BY <1>3, <2>1 DEF Slots
  <2>3. ring[m_ReadPos].command \in Commands
    BY <1>3 DEF RingInv, ChainInv
  <2>. QED BY <1>1, <1>3, <2>1, <2>2, <2>3 DEF BodyInv
<1>. QED BY <1>1, <1>2, <1>4 DEF Vsyncs, Payload

LEMMA StepFrameInv ==
  ASSUME TRUE \notin DisableOutputs, RingInv, BodyInv, FrameInv, [Next]_vars
  PROVE  FrameInv'
<1>. USE MtgsAssumption DEF FrameInv
<1>. DEFINE Parts == m_QueuedFrameCount
                       = Cardinality(Vsyncs) - One(Uncounted) - One(Unreleased)
<1>0. /\ m_QueuedFrameCount \in Int /\ Cardinality(Vsyncs) \in Nat /\ IsFiniteSet(Vsyncs)
      /\ m_QueuedFrameCount = Cardinality(Vsyncs) - One(Uncounted) - One(Unreleased)
  BY VsyncsFinite, FrameParts DEF RingInv, TypeOK
<1>1. (m_QueuedFrameCount' = Cardinality(Vsyncs') - One(Uncounted') - One(Unreleased'))
        => FrameCount'
  BY DEF FrameCount, QueuedVsyncs, Vsyncs, Uncounted, Unreleased, Waiting
<1>2. gsPc \in GsInPacket \ {"packet"} => m_ReadPos \in Unread
  BY InPacket, DistanceType DEF Unread, Slots
\* A step of the EE that sends and counts nothing.
<1>3. ASSUME UNCHANGED <<m_ReadPos, m_WritePos, m_QueuedFrameCount, gsVars>>,
             \A s \in Unread : ring'[s] = ring[s], Uncounted' <=> Uncounted,
             eePc' \in {"vsyncKick", "vsyncCount"} => call' = "vsync"
      PROVE  FrameInv'
  <2>1. Vsyncs' = Vsyncs
    BY <1>3, SameVsyncs
  <2>2. Unreleased' <=> Unreleased
    BY <1>2, <1>3 DEF Unreleased, gsVars
  <2>3. FrameCount'
    BY <1>0, <1>1, <1>3, <2>1, <2>2 DEF One
  <2>. QED BY <1>2, <1>3, <2>3 DEF gsVars
\* A step of the GS thread that neither counts nor releases.
<1>4. ASSUME UNCHANGED <<posVars, m_QueuedFrameCount, eeVars>>, gsPc' # "drop",
             gsPc' \in GsInPacket \ {"packet", "vCount"}
               <=> gsPc \in GsInPacket \ {"packet", "vCount"},
             gsPc' \in GsInPacket \ {"packet", "advance"}
               => gsPc \in GsInPacket \ {"packet", "advance"}
      PROVE  FrameInv'
  <2>1. Vsyncs' = Vsyncs
    BY <1>4, SameVsyncs DEF posVars
  <2>2. (Unreleased' <=> Unreleased) /\ (Uncounted' <=> Uncounted)
    BY <1>4 DEF Unreleased, Uncounted, posVars, eeVars
  <2>3. FrameCount'
    BY <1>0, <1>1, <1>4, <2>1, <2>2 DEF One
  <2>. QED BY <1>4, <2>3 DEF posVars, eeVars
<1>5. CASE UNCHANGED vars
  BY <1>3, <1>5 DEF vars, posVars, vsyncVars, eeVars, Uncounted
<1>6. CASE EECall
  BY <1>3, <1>6 DEF EECall, BeginData, BeginSimple, BeginWait, EE, posVars, vsyncVars,
       Uncounted, Waiting
<1>7. CASE EEStep
  <2>1. CASE StallTest \/ StallArm \/ StallKick \/ StallSleep \/ StallWake \/ SpinKick \/ Spin
             \/ FillAbandon \/ FillDone
    BY <1>3, <2>1 DEF StallTest, StallArm, StallKick, StallSleep, StallWake, SpinKick, Spin,
         FillAbandon, FillDone, SetEvent, EE, posVars, vsyncVars, Uncounted, Waiting
  <2>2. CASE TallyPacket \/ TallyKick \/ Sent \/ VsyncKick \/ VsyncListen \/ VsyncSleep
    BY <1>3, <2>2 DEF TallyPacket, TallyKick, Sent, VsyncKick, VsyncListen, VsyncSleep,
         SetEvent, EE, posVars, vsyncVars, Uncounted, Waiting
  <2>3. CASE WaitTest \/ WaitKick \/ WaitMutex \/ WaitAgain \/ ResetKick
    BY <1>3, <2>3 DEF WaitTest, WaitKick, WaitMutex, WaitAgain, WaitReturn, ResetKick,
         SetEvent, EE, posVars, vsyncVars, Uncounted, Waiting
  <2>4. CASE WriteTag \/ FillQword \/ SealTag
    <3>. TypeOK'
      BY <1>7, TypePreserved DEF Next, RingInv
    <3>1. \A s \in Unread : ring'[s] = ring[s]
      BY <2>4, TagPreserved, FillPreserved, SealPreserved
    <3>. QED BY <1>3, <2>4, <3>1 DEF WriteTag, FillQword, SealTag, EE, vsyncVars, Uncounted,
               Waiting
  <2>5. CASE Publish
    <3>1. /\ eePc = "publish" /\ eePc' \in {"wgTest", "tally"} /\ call' = call /\ ring' = ring
          /\ UNCHANGED <<m_ReadPos, m_QueuedFrameCount, gsVars>>
      BY <2>5 DEF Publish, EE, vsyncVars
    <3>2. ~Uncounted /\ (Uncounted' <=> call = "vsync") /\ (Unreleased' <=> Unreleased)
      BY <3>1 DEF Uncounted, Unreleased, Waiting, gsVars
    <3>3. Cardinality(Vsyncs') = Cardinality(Vsyncs) + One(call = "vsync")
      BY <1>0, <2>5, PublishVsyncs, FS_AddElement DEF One
    <3>4. FrameCount'
      BY <1>0, <1>1, <3>1, <3>2, <3>3 DEF One
    <3>. QED BY <3>1, <3>4 DEF gsVars
  <2>6. CASE VsyncCount
    <3>1. /\ m_QueuedFrameCount' = m_QueuedFrameCount + 1 /\ UNCHANGED <<posVars, gsVars>>
          /\ eePc = "vsyncCount" /\ eePc' \in {"idle", "vsyncListen"}
      BY <2>6 DEF VsyncCount, EE
    <3>2. Uncounted /\ ~Uncounted' /\ (Unreleased' <=> Unreleased)
      BY <3>1 DEF Uncounted, Unreleased, Waiting, gsVars, posVars
    <3>3. Vsyncs' = Vsyncs
      BY <3>1, SameVsyncs DEF posVars
    <3>4. FrameCount'
      BY <1>0, <1>1, <3>1, <3>2, <3>3 DEF One
    <3>. QED BY <3>1, <3>4 DEF gsVars, posVars
  <2>7. CASE ResetGS
    <3>1. /\ m_ReadPos = m_WritePos /\ UNCHANGED <<posVars, gsVars>> /\ m_QueuedFrameCount' = 0
          /\ eePc' = "stall"
      BY <2>7 DEF ResetGS, EE, RingInv, ResetInv, posVars
    <3>2. Used = 0 /\ gsPc \notin GsInPacket \ {"packet"}
      BY <3>1, InPacket, DistanceType DEF Used, RingInv, TypeOK, Slots
    <3>3. Vsyncs' = {}
      BY <3>1, <3>2, DistanceType DEF Vsyncs, Unread, Used, RingInv, TypeOK, Slots, posVars
    <3>4. Cardinality(Vsyncs') = 0 /\ ~Uncounted' /\ ~Unreleased'
      BY <3>1, <3>2, <3>3, FS_EmptySet DEF Uncounted, Unreleased, Waiting, gsVars
    <3>5. One(Uncounted') = 0 /\ One(Unreleased') = 0
      BY <3>4 DEF One
    <3>6. m_QueuedFrameCount' = Cardinality(Vsyncs') - One(Uncounted') - One(Unreleased')
      BY <3>1, <3>4, <3>5
    <3>. QED BY <1>1, <3>1, <3>2, <3>6 DEF gsVars
  <2>. QED BY <1>7, <2>1, <2>2, <2>3, <2>4, <2>5, <2>6, <2>7 DEF EEStep
<1>8. CASE GSStep
  <2>1. CASE GsSleep \/ GsLock \/ GsBusy \/ GsUnbusy \/ GsUnlock
    BY <1>4, <2>1 DEF GsSleep, GsLock, GsBusy, GsUnbusy, GsUnlock, GS, GsInPacket, vsyncVars
  <2>2. CASE GsLoop
    BY <1>4, <2>2 DEF GsLoop, GS, GsInPacket, vsyncVars
  <2>3. CASE GsVsyncListener \/ GsVsyncPost
    BY <1>4, <2>3 DEF GsVsyncListener, GsVsyncPost, GS, GsInPacket
  <2>4. CASE GsSignalTest \/ GsSignalSub \/ GsSignalClear \/ GsSignalPost \/ GsValve
             \/ GsValvePosition
    BY <1>4, <2>4 DEF GsSignalTest, GsSignalSub, GsSignalClear, GsSignalPost, GsValve,
         GsValvePosition, GS, GsInPacket, vsyncVars
  <2>5. CASE GsPacket
    <3>1. /\ gsPc = "packet" /\ UNCHANGED <<posVars, m_QueuedFrameCount, eeVars>>
          /\ gsPc' = IF ring[m_ReadPos].command = "VSYNC" THEN "vCount" ELSE "advance"
      BY <2>5 DEF GsPacket, GS, vsyncVars
    <3>2. ~Unreleased /\ ~Unreleased' /\ (Uncounted' <=> Uncounted) /\ Vsyncs' = Vsyncs
      BY <3>1, SameVsyncs DEF Unreleased, Uncounted, posVars, eeVars
    <3>3. FrameCount'
      BY <1>0, <1>1, <3>1, <3>2 DEF One
    <3>. QED BY <3>1, <3>3 DEF posVars, eeVars
  <2>6. CASE GsVsyncCount
    <3>1. /\ gsPc = "vCount" /\ gsPc' = "vListener" /\ UNCHANGED <<posVars, eeVars>>
          /\ m_QueuedFrameCount' = m_QueuedFrameCount - 1
      BY <2>6 DEF GsVsyncCount, GS
    <3>2. ~Unreleased /\ Unreleased' /\ (Uncounted' <=> Uncounted) /\ Vsyncs' = Vsyncs
      BY <3>1, SameVsyncs DEF Unreleased, Uncounted, GsInPacket, posVars, eeVars
    <3>3. FrameCount'
      BY <1>0, <1>1, <3>1, <3>2 DEF One
    <3>. QED BY <3>1, <3>3 DEF GsInPacket, posVars, eeVars
  <2>7. CASE GsAdvance
    <3>1. /\ gsPc = "advance" /\ gsPc' = "sigTest" /\ UNCHANGED <<m_QueuedFrameCount, eeVars>>
      BY <2>7 DEF GsAdvance, GS, vsyncVars
    <3>2. /\ (Unreleased <=> ring[m_ReadPos].command = "VSYNC") /\ ~Unreleased'
          /\ (Uncounted' <=> Uncounted)
      BY <3>1 DEF Unreleased, Uncounted, GsInPacket, eeVars
    <3>3. Cardinality(Vsyncs') = Cardinality(Vsyncs) - One(ring[m_ReadPos].command = "VSYNC")
      BY <1>0, <2>7, AdvanceVsyncs, FS_RemoveElement DEF One
    <3>4. FrameCount'
      BY <1>0, <1>1, <3>1, <3>2, <3>3 DEF One
    <3>. QED BY <3>1, <3>4 DEF GsInPacket, eeVars
  <2>8. CASE GsDrop
    BY <2>8 DEF GsDrop, GS
  <2>. QED BY <1>8, <2>1, <2>2, <2>3, <2>4, <2>5, <2>6, <2>7, <2>8 DEF GSStep
<1>. QED BY <1>5, <1>6, <1>7, <1>8 DEF Next

\* While the output is not switched off, m_QueuedFrameCount is the number of vsync
\* packets in the ring, up to the one each thread is in the middle of: the count the
\* EE's wait for a frame relies on is neither lost nor left over, whatever the ring
\* and the packets, and across ResetGS.
THEOREM FramesAreCounted ==
  ASSUME TRUE \notin DisableOutputs
  PROVE  Spec => []FrameCount
<1>1. Init => FrameInv
  <2>. SUFFICES ASSUME Init PROVE FrameInv
    OBVIOUS
  <2>1. Vsyncs = {}
    BY DEF Init, Vsyncs, Unread, Payload
  <2>2. Cardinality(Vsyncs) = 0 /\ One(Uncounted) = 0 /\ One(Unreleased) = 0
    BY <2>1, FS_EmptySet DEF Init, Uncounted, Unreleased, One, GsInPacket
  <2>3. FrameCount
    BY <2>2, FrameParts DEF Init
  <2>. QED BY <2>3 DEF Init, FrameInv, GsInPacket
<1>2. RingInv /\ BodyInv /\ FrameInv /\ [Next]_vars => FrameInv'
  BY StepFrameInv
<1>3. FrameInv => FrameCount
  BY DEF FrameInv
<1>. QED BY <1>1, <1>2, <1>3, RingInvariant, PacketsAreWhole, PTL DEF Spec

-----------------------------------------------------------------------------
(* The ring implements the queue *)

\* A set of natural numbers has a least element.
LEMMA Least ==
  ASSUME NEW S, S \subseteq Nat, S # {}
  PROVE  \E n \in S : \A m \in S : n <= m
<1>1. PICK R : R = OpToRel(<, Nat)
  OBVIOUS
<1>2. IsWellFoundedOn(R, Nat)
  BY <1>1, NatLessThanWellFounded
<1>3. PICK n \in S : \A m \in S : ~(<<m, n>> \in R)
  BY <1>2, WFMin
<1>4. ASSUME NEW m \in S, m < n  PROVE <<m, n>> \in R
  BY <1>1, <1>4 DEF OpToRel
<1>5. \A m \in S : m \in Nat /\ ~(m < n)
  BY <1>3, <1>4
<1>. QED BY <1>5

\* What Parse computes of its values at smaller distances.
Parsed(f, d) ==
  IF d = 0 THEN <<>>
  ELSE LET cell == ring[Wrap(m_WritePos + RingBufferSize - d)]
       IN  IF PacketLength(cell) > d THEN <<Payload>>
           ELSE <<cell>> \o f[d - PacketLength(cell)]

\* There is a function that satisfies the equation of Parse: a largest part of the ring
\* over which there is one can be extended, as a packet is never empty.
LEMMA ParseExists ==
  ASSUME TypeOK
  PROVE  \E f : f = [d \in 0..RingBufferSize |-> Parsed(f, d)]
<1>. USE MtgsAssumption
<1>. DEFINE Solved(n) == \E f : f = [d \in 0..n |-> Parsed(f, d)]
            S == {n \in 0..RingBufferSize : ~Solved(n)}
<1>1. S = {}
  <2>. SUFFICES ASSUME S # {} PROVE FALSE
    OBVIOUS
  <2>1. PICK n \in S : \A m \in S : n <= m
    <3>1. S \subseteq Nat
      OBVIOUS
    <3>. HIDE DEF S
    <3>. QED BY <3>1, Least
  <2>2. n # 0
    <3>1. [d \in 0..0 |-> <<>>] = [d \in 0..0 |-> Parsed([e \in 0..0 |-> <<>>], d)]
      BY DEF Parsed
    <3>2. Solved(0)
      BY <3>1
    <3>. QED BY <2>1, <3>2
  <2>3. n - 1 \in 0..RingBufferSize /\ n \in 1..RingBufferSize /\ ~(n <= n - 1)
    BY <2>1, <2>2
  <2>4. Solved(n - 1)
    <3>. HIDE DEF Solved
    <3>. QED BY <2>1, <2>3
  <2>5. PICK f : f = [d \in 0..(n - 1) |-> Parsed(f, d)]
    BY <2>4
  <2>. DEFINE g == [d \in 0..n |-> Parsed(f, d)]
  <2>6. ASSUME NEW d \in 0..n  PROVE Parsed(g, d) = Parsed(f, d)
    <3>1. CASE d = 0
      BY <3>1 DEF Parsed
    <3>2. CASE d # 0
      <4>. DEFINE cell == ring[Wrap(m_WritePos + RingBufferSize - d)]
      <4>1. d \in 1..RingBufferSize
        BY <2>3, <3>2
      <4>2. Wrap(m_WritePos + RingBufferSize - d) \in Slots
        BY <4>1 DEF TypeOK, Wrap, Slots
      <4>3. PacketLength(cell) \in 1..(RingBufferSize - 1)
        BY <4>2, PacketLengthType DEF TypeOK
      <4>. HIDE DEF cell
      <4>4. ASSUME ~(PacketLength(cell) > d)
            PROVE  g[d - PacketLength(cell)] = f[d - PacketLength(cell)]
        <5>. DEFINE e == d - PacketLength(cell)
        <5>1. e \in 0..(n - 1) /\ e \in 0..n
          BY <2>3, <4>1, <4>3, <4>4
        <5>. HIDE DEF e
        <5>2. g[e] = Parsed(f, e)
          BY <5>1
        <5>3. f[e] = Parsed(f, e)
          <6>. HIDE DEF Parsed
          <6>. QED BY <2>5, <5>1
        <5>. QED BY <5>2, <5>3 DEF e
      <4>. HIDE DEF g
      <4>5. PICK x : x = g[d - PacketLength(cell)]
        OBVIOUS
      <4>. QED BY <3>2, <4>4 DEF Parsed, cell
    <3>. QED BY <3>1, <3>2
  <2>7. g = [d \in 0..n |-> Parsed(g, d)]
    BY <2>6
  <2>8. Solved(n)
    BY <2>7
  <2>. QED BY <2>1, <2>8
<1>2. RingBufferSize \notin S /\ RingBufferSize \in 0..RingBufferSize
  BY <1>1
<1>. QED BY <1>2

\* Parse satisfies its equation.
LEMMA ParseUnfolds ==
  ASSUME TypeOK
  PROVE  \A d \in 0..RingBufferSize : Parse[d] = Parsed(Parse, d)
<1>1. Parse = CHOOSE f : f = [d \in 0..RingBufferSize |-> Parsed(f, d)]
  BY DEF Parse, Parsed
<1>2. Parse = [d \in 0..RingBufferSize |-> Parsed(Parse, d)]
  <2>. HIDE DEF Parsed
  <2>. QED BY <1>1, ParseExists
<1>. HIDE DEF Parsed
<1>. QED BY <1>2

\* q is what lies in the u qwords of R from r on, packet by packet; p are the places
\* where they start, counted from r, and where the last one ends.
Holds(q, p, R, r, u) ==
  /\ q \in Seq(Packets)
  /\ p \in [1..(Len(q) + 1) -> 0..u]
  /\ p[1] = 0 /\ p[Len(q) + 1] = u
  /\ \A i \in 1..Len(q) : /\ q[i] = R[Wrap(r + p[i])]
                          /\ p[i + 1] = p[i] + PacketLength(q[i])
  /\ \A i, j \in 1..(Len(q) + 1) : i < j => p[i] < p[j]

\* Reading the ring backwards, from its end to a packet, gives the packets from there on.
LEMMA ParseReads ==
  ASSUME TypeOK, NEW q, NEW p, Holds(q, p, ring, m_ReadPos, Used)
  PROVE  Parse[Used] = q
<1>. USE MtgsAssumption
<1>. DEFINE n == Len(q)
            Rest(k) == SubSeq(q, n + 1 - k, n)
            S == {k \in 0..n : Parse[Used - p[n + 1 - k]] # Rest(k)}
<1>1. /\ q \in Seq(Packets) /\ n \in Nat /\ q \in [1..n -> Packets]
      /\ \A i \in 1..(n + 1) : p[i] \in 0..Used
      /\ p[1] = 0 /\ p[n + 1] = Used
      /\ \A i \in 1..n : q[i] = ring[Wrap(m_ReadPos + p[i])]
                         /\ p[i + 1] = p[i] + PacketLength(q[i])
                         /\ p[i] < p[i + 1]
  BY DEF Holds
<1>2. m_ReadPos \in Slots /\ m_WritePos \in Slots /\ Used \in Slots
      /\ m_WritePos = Wrap(m_ReadPos + Used)
  BY DistanceType, SlotAtDistance DEF TypeOK, Used
<1>3. ASSUME NEW k \in 1..n, Parse[Used - p[n + 1 - (k - 1)]] = Rest(k - 1)
      PROVE  Parse[Used - p[n + 1 - k]] = Rest(k)
  <2>. DEFINE i == n + 1 - k
              d == Used - p[i]
  <2>1. i \in 1..n /\ n + 1 - (k - 1) = i + 1
    BY <1>1
  <2>. HIDE DEF i
  <2>2. /\ p[i] \in 0..Used /\ p[i + 1] \in 0..Used /\ q[i] = ring[Wrap(m_ReadPos + p[i])]
        /\ p[i + 1] = p[i] + PacketLength(q[i]) /\ p[i] < p[i + 1]
    BY <1>1, <2>1
  <2>3. Used \in 0..(RingBufferSize - 1) /\ PacketLength(q[i]) \in Int
    <3>1. Wrap(m_ReadPos + p[i]) \in Slots
      <4>1. p[i] \in Slots
        BY <1>2, <2>2 DEF Slots
      <4>. QED BY <1>2, <4>1, WrapDistance
    <3>. QED BY <1>2, <2>2, <3>1, PacketLengthType DEF TypeOK, Slots
  <2>4. d \in 1..RingBufferSize /\ d - PacketLength(q[i]) = Used - p[i + 1]
        /\ ~(PacketLength(q[i]) > d)
    BY <2>2, <2>3
  <2>5. Wrap(m_WritePos + RingBufferSize - d) = Wrap(m_ReadPos + p[i])
    BY <1>2, <2>2 DEF Wrap, Slots
  <2>6. Parse[d] = Parsed(Parse, d)
    BY <2>4, ParseUnfolds
  <2>7. Parse[d] = <<q[i]>> \o Parse[Used - p[i + 1]]
    <3>. HIDE DEF d
    <3>1. d # 0 /\ q[i] = ring[Wrap(m_WritePos + RingBufferSize - d)]
      BY <2>2, <2>4, <2>5
    <3>2. Parsed(Parse, d) = <<q[i]>> \o Parse[d - PacketLength(q[i])]
      BY <2>4, <3>1, Zenon DEF Parsed
    <3>. QED BY <2>4, <2>6, <3>2
  <2>8. <<q[i]>> \o SubSeq(q, i + 1, n) = SubSeq(q, i, n)
    BY <1>1, <2>1
  <2>. QED BY <1>3, <2>1, <2>7, <2>8 DEF i
<1>4. Parse[Used - p[n + 1 - 0]] = Rest(0)
  <2>1. Parse[0] = <<>>
    <3>1. 0 \in 0..RingBufferSize
      OBVIOUS
    <3>2. Parse[0] = Parsed(Parse, 0)
      BY <3>1, ParseUnfolds
    <3>. QED BY <3>2 DEF Parsed
  <2>2. Rest(0) = <<>>
    BY <1>1
  <2>3. n + 1 - 0 = n + 1 /\ Used - p[n + 1] = 0
    BY <1>1, <1>2 DEF Slots
  <2>. HIDE DEF n, Rest
  <2>. QED BY <2>1, <2>2, <2>3
<1>5. S = {}
  <2>. SUFFICES ASSUME S # {} PROVE FALSE
    OBVIOUS
  <2>1. S \subseteq Nat
    BY <1>1
  <2>2. PICK k \in S : \A m \in S : k <= m
    <3>. HIDE DEF S
    <3>. QED BY <2>1, Least
  <2>3. k \in 0..n /\ k # 0
    <3>. HIDE DEF Rest
    <3>. QED BY <1>4, <2>2
  <2>4. k \in 1..n /\ k - 1 \in 0..n /\ ~(k <= k - 1)
    BY <1>1, <2>3
  <2>5. k - 1 \notin S
    <3>. HIDE DEF S
    <3>. QED BY <2>2, <2>4
  <2>6. Parse[Used - p[n + 1 - (k - 1)]] = Rest(k - 1)
    <3>. HIDE DEF Rest
    <3>. QED BY <2>4, <2>5
  <2>. QED
    <3>1. Parse[Used - p[n + 1 - k]] # Rest(k)
      <4>. HIDE DEF Rest
      <4>. QED BY <2>2
    <3>. HIDE DEF Rest
    <3>. QED BY <1>3, <2>4, <2>6, <3>1
<1>6. n \in 0..n /\ n \notin S
  <2>1. n \in 0..n
    BY <1>1
  <2>. HIDE DEF S
  <2>. QED BY <1>5, <2>1
<1>7. Parse[Used - p[n + 1 - n]] = Rest(n)
  <2>. HIDE DEF Rest
  <2>. QED BY <1>6
<1>8. n + 1 - n = 1 /\ Rest(n) = q
  BY <1>1
<1>. QED BY <1>1, <1>2, <1>7, <1>8 DEF Slots

\* The steps of the queue, in terms of the qwords that are used.
QueueStep(q, q2, u, u2) ==
  \/ q2 = q /\ u2 = u
  \/ \E c \in Packets : /\ PacketLength(c) <= RingBufferSize - 1 - u
                        /\ q2 = Append(q, c) /\ u2 = u + PacketLength(c)
  \/ /\ q # <<>> /\ q2 = Tail(q)
     /\ PacketLength(Head(q)) \in Nat /\ u2 = u - PacketLength(Head(q))
  \/ TRUE \in DisableOutputs /\ q # <<>> /\ q2 = <<>> /\ u2 = 0

\* Each packet that the queue holds starts in an unread slot.
LEMMA HeldUnread ==
  ASSUME TypeOK, NEW q, NEW p, Holds(q, p, ring, m_ReadPos, Used), NEW i \in 1..Len(q)
  PROVE  /\ Wrap(m_ReadPos + p[i]) \in Unread
         /\ p[i] \in Slots /\ p[i + 1] \in Slots /\ p[i + 1] = p[i] + PacketLength(q[i])
<1>. USE MtgsAssumption
<1>1. Len(q) \in Nat /\ i + 1 \in 1..(Len(q) + 1) /\ i \in 1..(Len(q) + 1) /\ i < i + 1
  BY DEF Holds
<1>2. m_ReadPos \in Slots /\ Used \in Slots
  BY DistanceType DEF TypeOK, Used
<1>3. p[i] \in 0..Used /\ p[i + 1] \in 0..Used /\ p[i] < p[i + 1]
      /\ p[i + 1] = p[i] + PacketLength(q[i])
  BY <1>1 DEF Holds
<1>4. p[i] \in Slots /\ p[i + 1] \in Slots /\ p[i] < Used
  BY <1>2, <1>3 DEF Slots
<1>. QED BY <1>2, <1>3, <1>4, WrapDistance DEF Unread

\* A step that leaves the unread slots as they are.
LEMMA QuietQueue ==
  ASSUME TypeOK, UNCHANGED <<m_ReadPos, m_WritePos>>, \A s \in Unread : ring'[s] = ring[s],
         NEW q, NEW p, Holds(q, p, ring, m_ReadPos, Used)
  PROVE  Holds(q, p, ring', m_ReadPos', Used') /\ QueueStep(q, q, Used, Used')
<1>1. m_ReadPos' = m_ReadPos /\ Used' = Used
  BY DEF Used
<1>2. \A i \in 1..Len(q) : ring'[Wrap(m_ReadPos + p[i])] = ring[Wrap(m_ReadPos + p[i])]
  BY HeldUnread
<1>. QED BY <1>1, <1>2 DEF Holds, QueueStep

\* The EE has hung a packet on the end.
LEMMA PublishQueue ==
  ASSUME RingInv, Publish, NEW q, NEW p, Holds(q, p, ring, m_ReadPos, Used)
  PROVE  \E q2, p2 : Holds(q2, p2, ring', m_ReadPos', Used') /\ QueueStep(q, q2, Used, Used')
<1>. USE MtgsAssumption
<1>. DEFINE c == ring[m_WritePos]
            n == Len(q)
            q2 == Append(q, c)
            p2 == [i \in 1..(n + 2) |-> IF i = n + 2 THEN Used' ELSE p[i]]
<1>1. /\ PacketLength(c) \in Slots /\ PacketLength(c) > 0 /\ Used + PacketLength(c) < RingBufferSize
      /\ Used \in Slots /\ Used' = Used + PacketLength(c)
      /\ UNCHANGED <<m_ReadPos, ring>>
  BY PublishHop DEF Publish
<1>2. c \in Packets
  <2>1. c = Tag(CommandOf(call), IF call \in DataCalls THEN ActualSize ELSE 0)
    BY DEF RingInv, SealInv, Publish, EE
  <2>2. c \in Cells
    BY DEF RingInv, TypeOK
  <2>3. CASE call \in DataCalls
    <3>1. CommandOf(call) \in DataCommands
      BY <2>3 DEF CommandOf, DataCalls, DataCommands
    <3>2. ActualSize \in 0..(RingBufferSize - 2)
      BY <2>1, <2>2, <2>3 DEF Tag, Cells
    <3>. QED BY <2>1, <2>3, <3>1, <3>2 DEF Packets
  <2>4. CASE call \notin DataCalls
    <3>1. CommandOf(call) \in Commands \ DataCommands
      BY <2>4 DEF CommandOf, DataCalls, DataCommands, Commands
    <3>. QED BY <2>1, <2>4, <3>1 DEF Packets
  <2>. QED BY <2>3, <2>4
<1>3. m_WritePos = Wrap(m_ReadPos + Used)
  BY SlotAtDistance DEF RingInv, TypeOK, Used
<1>. HIDE DEF c
<1>4. /\ q \in Seq(Packets) /\ n \in Nat /\ q \in [1..n -> Packets]
      /\ p \in [1..(n + 1) -> 0..Used] /\ p[1] = 0 /\ p[n + 1] = Used
      /\ \A i \in 1..n : q[i] = ring[Wrap(m_ReadPos + p[i])]
                         /\ p[i + 1] = p[i] + PacketLength(q[i])
      /\ \A i, j \in 1..(n + 1) : i < j => p[i] < p[j]
  BY DEF Holds
<1>5. q2 \in Seq(Packets) /\ Len(q2) = n + 1 /\ q2[n + 1] = c /\ \A i \in 1..n : q2[i] = q[i]
  BY <1>2, <1>4
<1>. PICK u : u = Used'
  OBVIOUS
<1>6. u \in Nat /\ Used < u /\ Used \in Nat /\ u = Used + PacketLength(c)
  BY <1>1 DEF Slots
<1>7. p2 \in [1..(n + 2) -> 0..u] /\ p2[1] = 0 /\ p2[n + 2] = u
      /\ \A i \in 1..(n + 1) : p2[i] = p[i]
  <2>1. \A i \in 1..(n + 2) : i # n + 2 => i \in 1..(n + 1)
    BY <1>4
  <2>2. \A i \in 1..(n + 1) : p[i] \in 0..u /\ i \in 1..(n + 2) /\ i # n + 2
    BY <1>4, <1>6
  <2>3. n + 2 \in 1..(n + 2) /\ u \in 0..u /\ 1 \in 1..(n + 1)
    BY <1>4, <1>6
  <2>. QED BY <1>4, <2>1, <2>2, <2>3
<1>. HIDE DEF p2, q2
<1>8. \A i \in 1..(n + 1) : q2[i] = ring[Wrap(m_ReadPos + p2[i])]
                            /\ p2[i + 1] = p2[i] + PacketLength(q2[i])
  <2>. TAKE i \in 1..(n + 1)
  <2>1. CASE i = n + 1
    BY <1>3, <1>4, <1>5, <1>6, <1>7, <2>1 DEF c
  <2>2. CASE i # n + 1
    <3>1. i \in 1..n /\ i + 1 \in 1..(n + 1)
      BY <1>4, <2>2
    <3>. QED BY <1>4, <1>5, <1>7, <3>1
  <2>. QED BY <2>1, <2>2
<1>9. \A i, j \in 1..(n + 2) : i < j => p2[i] < p2[j]
  <2>. TAKE i, j \in 1..(n + 2)
  <2>. HAVE i < j
  <2>1. i \in 1..(n + 1) /\ p2[i] = p[i] /\ p[i] \in 0..Used
    BY <1>4, <1>7
  <2>2. CASE j = n + 2
    BY <1>6, <1>7, <2>1, <2>2
  <2>3. CASE j # n + 2
    <3>1. j \in 1..(n + 1)
      BY <1>4, <2>3
    <3>. QED BY <1>4, <1>7, <2>1, <3>1
  <2>. QED BY <2>2, <2>3
<1>10. Len(q2) + 1 = n + 2
  BY <1>4, <1>5
<1>11. Holds(q2, p2, ring', m_ReadPos', u)
  BY <1>1, <1>5, <1>7, <1>8, <1>9, <1>10 DEF Holds
<1>12. QueueStep(q, q2, Used, u)
  <2>1. PacketLength(c) <= RingBufferSize - 1 - Used
    BY <1>1 DEF Slots
  <2>. QED BY <1>2, <1>6, <2>1 DEF QueueStep, q2
<1>. QED BY <1>11, <1>12

\* The GS thread has gone on to the next packet.
LEMMA AdvanceQueue ==
  ASSUME RingInv, GsAdvance, NEW q, NEW p, Holds(q, p, ring, m_ReadPos, Used)
  PROVE  \E q2, p2 : Holds(q2, p2, ring', m_ReadPos', Used') /\ QueueStep(q, q2, Used, Used')
<1>. USE MtgsAssumption
<1>. DEFINE n == Len(q)
            q2 == Tail(q)
            p2 == [i \in 1..n |-> p[i + 1] - inc]
<1>1. /\ inc \in Slots /\ inc > 0 /\ inc <= Used /\ Used \in Slots /\ m_ReadPos \in Slots
      /\ m_WritePos \in Slots /\ inc = PacketLength(ring[m_ReadPos])
      /\ m_ReadPos' = Wrap(m_ReadPos + inc) /\ UNCHANGED <<m_WritePos, ring>>
  BY InPacket DEF GsAdvance, GS, GsInPacket
<1>2. Used' = Used - inc
  BY <1>1, DistanceShift DEF Used
<1>3. /\ q \in Seq(Packets) /\ n \in Nat
      /\ p \in [1..(n + 1) -> 0..Used] /\ p[1] = 0 /\ p[n + 1] = Used
      /\ \A i \in 1..n : q[i] = ring[Wrap(m_ReadPos + p[i])]
                         /\ p[i + 1] = p[i] + PacketLength(q[i])
      /\ \A i, j \in 1..(n + 1) : i < j => p[i] < p[j]
  BY DEF Holds
<1>4. n > 0
  BY <1>1, <1>3 DEF Slots
<1>5. q # <<>> /\ Head(q) = q[1] /\ Len(q2) = n - 1 /\ q2 \in Seq(Packets)
      /\ \A i \in 1..(n - 1) : q2[i] = q[i + 1]
  BY <1>3, <1>4
<1>. HIDE DEF q2
<1>6. PacketLength(q[1]) = inc /\ p[2] = inc
  <2>1. Wrap(m_ReadPos + 0) = m_ReadPos /\ 1 \in 1..n /\ 1 + 1 = 2
    BY <1>1, <1>3, <1>4 DEF Wrap, Slots
  <2>2. q[1] = ring[m_ReadPos]
    BY <1>3, <2>1
  <2>3. PacketLength(q[1]) = inc
    BY <1>1, <2>2
  <2>. QED BY <1>1, <1>3, <2>1, <2>3 DEF Slots
<1>. PICK u : u = Used'
  OBVIOUS
<1>7. u = Used - inc /\ u \in Nat /\ Used \in Nat /\ inc \in Nat
  BY <1>1, <1>2 DEF Slots
<1>8. \A i \in 1..n : /\ p[i + 1] \in 0..Used /\ p[i + 1] >= inc /\ i + 1 \in 1..(n + 1)
                      /\ p2[i] = p[i + 1] - inc /\ p2[i] \in 0..u
  <2>. TAKE i \in 1..n
  <2>1. i + 1 \in 1..(n + 1) /\ 2 \in 1..(n + 1) /\ (i = 1 \/ 2 < i + 1)
    BY <1>3, <1>4
  <2>2. p[i + 1] \in 0..Used /\ (i + 1 = 2 \/ p[2] < p[i + 1])
    BY <1>3, <2>1
  <2>3. p[i + 1] >= inc
    BY <1>6, <1>7, <2>2
  <2>. QED BY <1>7, <2>1, <2>2, <2>3
<1>9. p2 \in [1..n -> 0..u] /\ p2[1] = 0 /\ p2[n] = u
  <2>1. 1 \in 1..n /\ n \in 1..n /\ 1 + 1 = 2
    BY <1>3, <1>4
  <2>2. p2 \in [1..n -> 0..u]
    BY <1>8
  <2>3. p2[1] = p[2] - inc /\ p2[n] = p[n + 1] - inc
    BY <2>1
  <2>. QED BY <1>3, <1>6, <1>7, <2>2, <2>3
<1>. HIDE DEF p2
<1>10. \A i \in 1..(n - 1) : q2[i] = ring[Wrap(m_ReadPos' + p2[i])]
                             /\ p2[i + 1] = p2[i] + PacketLength(q2[i])
  <2>. TAKE i \in 1..(n - 1)
  <2>1. i \in 1..n /\ i + 1 \in 1..n /\ q2[i] = q[i + 1]
    BY <1>3, <1>5
  <2>2. /\ q[i + 1] = ring[Wrap(m_ReadPos + p[i + 1])]
        /\ p[(i + 1) + 1] = p[i + 1] + PacketLength(q[i + 1])
    BY <1>3, <2>1
  <2>3. /\ p2[i] = p[i + 1] - inc /\ p[i + 1] \in 0..Used /\ p[i + 1] >= inc
        /\ p2[i + 1] = p[(i + 1) + 1] - inc /\ p[(i + 1) + 1] \in 0..Used
    BY <1>8, <2>1
  <2>4. Wrap(Wrap(m_ReadPos + inc) + p2[i]) = Wrap(m_ReadPos + p[i + 1])
    <3>1. p[i + 1] \in Slots
      BY <1>1, <2>3 DEF Slots
    <3>2. \A r, a, y \in Slots : y >= a => Wrap(Wrap(r + a) + (y - a)) = Wrap(r + y)
      BY DEF Wrap, Slots
    <3>. QED BY <1>1, <2>3, <3>1, <3>2
  <2>5. p[i + 1] \in Int /\ p[(i + 1) + 1] \in Int /\ inc \in Int
        /\ PacketLength(q[i + 1]) = p[(i + 1) + 1] - p[i + 1]
    <3>1. Wrap(m_ReadPos + p[i + 1]) \in Slots
      <4>1. p[i + 1] \in Slots
        BY <1>1, <2>3 DEF Slots
      <4>. QED BY <1>1, <4>1, WrapDistance
    <3>2. PacketLength(q[i + 1]) \in 1..(RingBufferSize - 1)
      BY <2>2, <3>1, PacketLengthType DEF RingInv, TypeOK
    <3>. QED BY <1>7, <2>2, <2>3, <3>2
  <2>6. p2[i + 1] = p2[i] + PacketLength(q[i + 1])
    BY <2>3, <2>5
  <2>. QED BY <1>1, <2>1, <2>2, <2>4, <2>6
<1>11. \A i, j \in 1..n : i < j => p2[i] < p2[j]
  <2>. TAKE i, j \in 1..n
  <2>. HAVE i < j
  <2>1. i + 1 < j + 1
    BY <1>3
  <2>2. p[i + 1] < p[j + 1]
    BY <1>3, <1>8, <2>1
  <2>. QED BY <1>7, <1>8, <2>2
<1>12. Len(q2) + 1 = n
  BY <1>3, <1>5
<1>13. Holds(q2, p2, ring', m_ReadPos', u)
  <2>1. ring' = ring
    BY <1>1
  <2>. QED BY <1>5, <1>9, <1>10, <1>11, <1>12, <2>1 DEF Holds
<1>14. QueueStep(q, q2, Used, u)
  BY <1>5, <1>6, <1>7 DEF QueueStep, q2
<1>. QED BY <1>13, <1>14

\* With output off the GS thread has left everything behind.
LEMMA DropQueue ==
  ASSUME RingInv, GsDrop, TRUE \in DisableOutputs,
         NEW q, NEW p, Holds(q, p, ring, m_ReadPos, Used)
  PROVE  \E q2, p2 : Holds(q2, p2, ring', m_ReadPos', Used') /\ QueueStep(q, q2, Used, Used')
<1>1. m_ReadPos' = m_WritePos /\ m_WritePos' = m_WritePos /\ m_WritePos \in Slots
      /\ m_ReadPos \in Slots
  BY DEF GsDrop, RingInv, TypeOK
<1>2. Used' = 0 /\ Used \in Nat
  BY <1>1, DistanceType DEF Used, Slots
<1>3. Holds(<<>>, [i \in 1..1 |-> 0], ring', m_ReadPos', 0)
  BY DEF Holds
<1>4. QueueStep(q, <<>>, Used, 0)
  <2>1. CASE q = <<>>
    <3>1. Used = 0
      BY <2>1 DEF Holds
    <3>. QED BY <2>1, <3>1 DEF QueueStep
  <2>2. CASE q # <<>>
    BY <2>2 DEF QueueStep
  <2>. QED BY <2>1, <2>2
<1>. QED BY <1>2, <1>3, <1>4

\* The ring holds a queue of packets; and the GS thread drops it only with output off.
QueueInv ==
  /\ \E q, p : Holds(q, p, ring, m_ReadPos, Used)
  /\ gsPc = "drop" => TRUE \in DisableOutputs

LEMMA StepDrop ==
  ASSUME [Next]_vars, gsPc = "drop" => TRUE \in DisableOutputs
  PROVE  (gsPc = "drop" => TRUE \in DisableOutputs)'
<1>1. CASE UNCHANGED gsVars
  BY <1>1 DEF gsVars
<1>2. CASE EECall \/ EEStep \/ UNCHANGED vars
  <2>. UNCHANGED gsVars
    BY <1>2 DEF EECall, BeginData, BeginSimple, BeginWait, EEStep, StallTest, StallArm, StallKick,
         StallSleep, StallWake, SpinKick, Spin, WriteTag, FillQword, FillAbandon, FillDone, SealTag,
         Publish, TallyPacket, TallyKick, Sent, VsyncKick, VsyncCount, VsyncListen, VsyncSleep,
         WaitTest, WaitKick, WaitMutex, WaitAgain, ResetGS, ResetKick, SetEvent, vars
  <2>. QED BY <1>1
<1>3. CASE GsLoop
  <2>1. gsPc' = "drop" => TRUE \in DisableOutputs
    BY <1>3 DEF GsLoop, GS
  <2>. QED BY <2>1
<1>4. CASE GSStep /\ ~GsLoop
  BY <1>4 DEF GSStep, GsSleep, GsLock, GsBusy, GsUnbusy, GsUnlock, GsDrop, GsPacket,
       GsVsyncCount, GsVsyncListener, GsVsyncPost, GsAdvance, GsSignalTest, GsSignalSub,
       GsSignalClear, GsSignalPost, GsValve, GsValvePosition, GS
<1>. QED BY <1>2, <1>3, <1>4 DEF Next

\* Parse reads what the ring holds.
ParseRight == \A q, p : Holds(q, p, ring, m_ReadPos, Used) => Parse[Used] = q

\* Every step of the ring is a step of the queue, or none.
LEMMA StepQueue ==
  ASSUME RingInv, QueueInv, ParseRight, ParseRight', [Next]_vars
  PROVE  QueueInv' /\ QueueStep(Parse[Used], Parse'[Used'], Used, Used')
<1>1. PICK q, p : Holds(q, p, ring, m_ReadPos, Used)
  BY DEF QueueInv
<1>2. (gsPc = "drop" => TRUE \in DisableOutputs)'
  BY StepDrop DEF QueueInv
<1>3. \E q2, p2 : Holds(q2, p2, ring', m_ReadPos', Used') /\ QueueStep(q, q2, Used, Used')
  <2>1. CASE GsDrop
    BY <1>1, <2>1, DropQueue DEF GsDrop, GS, QueueInv
  <2>2. CASE UNCHANGED <<m_ReadPos, m_WritePos>> /\ \A s \in Unread : ring'[s] = ring[s]
    BY <1>1, <2>2, QuietQueue DEF RingInv
  <2>. QED BY <1>1, <2>1, <2>2, RingSteps, PublishQueue, AdvanceQueue
<1>4. PICK q2, p2 : Holds(q2, p2, ring', m_ReadPos', Used') /\ QueueStep(q, q2, Used, Used')
  BY <1>3
<1>5. Parse[Used] = q
  BY <1>1 DEF ParseRight
<1>6. Parse'[Used'] = q2
  BY <1>4 DEF ParseRight
<1>. QED BY <1>2, <1>4, <1>5, <1>6 DEF QueueInv

\* Packets reach the GS thread whole, once, and in the order they were sent, whatever
\* the sizes of the ring and of the packets and wherever the ring wraps: the two threads
\* implement a bounded FIFO queue.
THEOREM ImplementsQueue == Spec => QueueRefinement
<1>1. Init => QueueInv /\ Queue!Init
  <2>. SUFFICES ASSUME Init PROVE QueueInv /\ Queue!Init
    OBVIOUS
  <2>1. Used = 0
    BY MtgsAssumption DEF Init, Used, Distance
  <2>2. Holds(<<>>, [i \in 1..1 |-> 0], ring, m_ReadPos, Used)
    BY <2>1 DEF Holds
  <2>3. TypeOK
    BY InitRingInv DEF RingInv
  <2>4. Parse[Used] = <<>>
    BY <2>2, <2>3, ParseReads
  <2>. QED BY <2>1, <2>2, <2>4, MtgsAssumption DEF Init, QueueInv, Queue!Init
<1>2. TypeOK => ParseRight
  BY ParseReads DEF ParseRight
<1>3. RingInv /\ QueueInv /\ ParseRight /\ ParseRight' /\ [Next]_vars
        => QueueInv' /\ [Queue!Next]_(Queue!vars)
  <2>. SUFFICES ASSUME RingInv, QueueInv, ParseRight, ParseRight', [Next]_vars
                PROVE  QueueInv' /\ [Queue!Next]_(Queue!vars)
    OBVIOUS
  <2>1. QueueInv' /\ QueueStep(Parse[Used], Parse'[Used'], Used, Used')
    BY StepQueue
  <2>2. RingBufferSize \in Int /\ Used \in Int
    BY MtgsAssumption, DistanceType DEF RingInv, TypeOK, Used, Slots
  <2>3. ASSUME Parse'[Used'] = Parse[Used], Used' = Used  PROVE UNCHANGED Queue!vars
    BY <2>3 DEF Queue!vars
  <2>4. ASSUME NEW c \in Packets, PacketLength(c) <= RingBufferSize - 1 - Used,
               Parse'[Used'] = Append(Parse[Used], c), Used' = Used + PacketLength(c)
        PROVE  Queue!Send
    <3>1. PacketLength(c) \in Int
      BY <2>2 DEF PacketLength, Packets, Tag, DataCommands
    <3>2. RingBufferSize - 1 - Used' = (RingBufferSize - 1 - Used) - PacketLength(c)
      BY <2>2, <2>4, <3>1
    <3>. QED BY <2>4, <3>2 DEF Queue!Send
  <2>5. ASSUME Parse[Used] # <<>>, Parse'[Used'] = Tail(Parse[Used]),
               PacketLength(Head(Parse[Used])) \in Nat,
               Used' = Used - PacketLength(Head(Parse[Used]))
        PROVE  Queue!Execute
    <3>1. RingBufferSize - 1 - Used'
            = (RingBufferSize - 1 - Used) + PacketLength(Head(Parse[Used]))
      BY <2>2, <2>5
    <3>. QED BY <2>5, <3>1 DEF Queue!Execute
  <2>6. ASSUME TRUE \in DisableOutputs, Parse[Used] # <<>>, Parse'[Used'] = <<>>, Used' = 0
        PROVE  Queue!Discard
    <3>1. RingBufferSize - 1 - Used' = RingBufferSize - 1
      BY <2>2, <2>6
    <3>. QED BY <2>6, <3>1 DEF Queue!Discard
  <2>7. QueueStep(Parse[Used], Parse'[Used'], Used, Used') => [Queue!Next]_(Queue!vars)
    BY <2>3, <2>4, <2>5, <2>6, Zenon DEF QueueStep, Queue!Next
  <2>. QED BY <2>1, <2>7
<1>. QED BY <1>1, <1>2, <1>3, RingInvariant, TypeCorrect, PTL
         DEF Spec, QueueRefinement, Queue!Spec
=============================================================================
