-------------------------------- MODULE Mtgs --------------------------------
(***************************************************************************)
(* The MTGS ring buffer (pcsx2/MTGS.cpp): the EE core thread queues GS     *)
(* commands in a ring of qwords and the GS thread executes them.           *)
(*                                                                         *)
(* One step is one access to a shared field, one semaphore or mutex call,  *)
(* or one write to the ring, so that every interleaving of the two threads *)
(* at that grain is a behaviour.  eePc and gsPc are the program counters.  *)
(* Only one thread at a time is the producer (the core thread, or the      *)
(* thread that froze it), and it is called EE here.                        *)
(***************************************************************************)
EXTENDS Integers, FiniteSets

CONSTANTS
  RingBufferSize,   \* GS.h: 1 << 19 qwords
  SpinLimit,        \* GenericStall: a wait for at most 0x80 qwords spins
  TallyLimit,       \* SendDataPacket: more than 0x2000 qwords kick the GS thread
  VsyncQueueSize,   \* EmuConfig.GS.VsyncQueueSize
  FrameLimited,     \* EmuConfig.GS: VsyncEnable || FrameLimitEnable
  DisableOutputs,   \* the values of EmuConfig.GS.DisableOutput, which the user may switch
  SynchronousMTGS,  \* EmuConfig.GS.SynchronousMTGS
  PacketSizes,      \* the qword counts given to PrepDataPacket
  VsyncQwc,         \* qwords of a RingCmdPacket_Vsync
  Calls,            \* the calls of the producer that the environment makes
  MaxEvents         \* bound: posts outstanding on m_sem_event

AllCalls == {"data", "simple", "vsync", "reset", "freeze", "wait"}

ASSUME MtgsAssumption ==
  /\ RingBufferSize \in Nat /\ RingBufferSize > 2
  /\ SpinLimit \in Nat /\ TallyLimit \in Nat
  /\ VsyncQueueSize \in Nat
  /\ FrameLimited \in BOOLEAN
  /\ DisableOutputs \subseteq BOOLEAN /\ DisableOutputs # {}
  /\ SynchronousMTGS \in BOOLEAN
  /\ PacketSizes \subseteq 1..(RingBufferSize - 2)
  /\ VsyncQwc \in 1..(RingBufferSize - 2)
  /\ Calls \subseteq AllCalls
  /\ MaxEvents \in Nat \ {0}

VARIABLES
  m_ReadPos, m_WritePos, ring,
  m_RingBufferIsBusy, m_mtx_RingBufferBusy,
  m_SignalRingEnable, m_SignalRingPosition, m_sem_OnRingReset,
  m_QueuedFrameCount, m_VsyncSignalListener, m_sem_Vsync,
  m_sem_event, m_CopyDataTally,
  m_packet_startpos, m_packet_size, m_packet_writepos,
  eePc,     \* where the producer is
  call,     \* the public method the producer is in
  gsPc,     \* where the GS thread is in ExecuteTaskInThread
  inc       \* ringposinc, the length of the packet being executed

posVars    == <<m_ReadPos, m_WritePos, ring>>
busyVars   == <<m_RingBufferIsBusy, m_mtx_RingBufferBusy>>
signalVars == <<m_SignalRingEnable, m_SignalRingPosition, m_sem_OnRingReset>>
vsyncVars  == <<m_QueuedFrameCount, m_VsyncSignalListener, m_sem_Vsync>>
eventVars  == <<m_sem_event, m_CopyDataTally>>
packetVars == <<m_packet_startpos, m_packet_size, m_packet_writepos>>
eeVars     == <<eePc, call>>
gsVars     == <<gsPc, inc>>
vars == <<posVars, busyVars, signalVars, vsyncVars, eventVars, packetVars,
          eeVars, gsVars>>

-----------------------------------------------------------------------------
(* The ring *)

Slots == 0..(RingBufferSize - 1)

\* x & RingBufferMask, for the sums of two positions the code forms.
Wrap(x) == IF x >= RingBufferSize THEN x - RingBufferSize ELSE x

\* How far slot s lies ahead of slot r.
Distance(r, s) == IF s >= r THEN s - r ELSE RingBufferSize - (r - s)

Commands == {"PATH", "VSYNC", "RESET", "FRAMESKIP", "FREEZE", "CRC"}
DataCommands == {"PATH", "VSYNC"}

\* A qword of the ring is a command tag or payload; of a payload nothing is
\* told apart but that it is not a tag.
Payload == [command |-> "payload", qwc |-> 0]
Tag(c, n) == [command |-> c, qwc |-> n]
Cells == [command : Commands \cup {"payload"}, qwc : 0..(RingBufferSize - 2)]

\* The slots a packet with this tag takes: simple packets take the tag only.
PacketLength(cell) ==
  IF cell.command \in DataCommands THEN cell.qwc + 1 ELSE 1

Used == Distance(m_ReadPos, m_WritePos)

\* The slots the EE has published and the GS thread has not released.
Unread == {s \in Slots : Distance(m_ReadPos, s) < Used}

\* freeroom in GenericStall.
FreeRoom(readpos, writepos) ==
  IF writepos < readpos THEN readpos - writepos
                        ELSE RingBufferSize - (writepos - readpos)

\* somedone in GenericStall: how much must be read before the EE is woken.
SomeDone(freeroom, size) ==
  LET quarter == (RingBufferSize - freeroom) \div 4
  IN  IF quarter < size + 1 THEN size + 1 ELSE quarter

-----------------------------------------------------------------------------
(* The EE side *)

EE(from, to) == eePc = from /\ eePc' = to

\* The command of the packet the current call is sending.
CommandOf(c) ==
  CASE c = "data"   -> "PATH"
    [] c = "vsync"  -> "VSYNC"
    [] c = "reset"  -> "RESET"
    [] c = "reset2" -> "FRAMESKIP"
    [] c = "freeze" -> "FREEZE"
    [] OTHER        -> "CRC"

DataCalls == {"data", "vsync"}

\* Bug: PrepDataPacket forgets the qword of the tag.
StallSizeNoTag == IF call \in DataCalls THEN m_packet_size ELSE 1

\* The argument of GenericStall: payload and tag, or the one qword.
StallSize == IF call \in DataCalls THEN m_packet_size + 1 ELSE 1

\* SetEvent tests the busy flag and posts only when the GS thread is idle.
SetEvent(from, to) ==
  /\ EE(from, to)
  /\ IF m_RingBufferIsBusy THEN UNCHANGED m_sem_event
     ELSE /\ m_sem_event < MaxEvents
          /\ m_sem_event' = m_sem_event + 1
  /\ m_CopyDataTally' = 0
  /\ UNCHANGED <<posVars, busyVars, signalVars, vsyncVars, packetVars, call, gsVars>>

\* PrepDataPacket and PostVsyncEnd, up to the stall.
BeginData ==
  \/ /\ "data" \in Calls
     /\ EE("idle", "stall") /\ call' = "data"
     /\ m_packet_size' \in PacketSizes
     /\ UNCHANGED <<posVars, busyVars, signalVars, vsyncVars, eventVars,
                    m_packet_startpos, m_packet_writepos, gsVars>>
  \/ /\ "vsync" \in Calls
     /\ EE("idle", "stall") /\ call' = "vsync"
     /\ m_packet_size' = VsyncQwc
     /\ UNCHANGED <<posVars, busyVars, signalVars, vsyncVars, eventVars,
                    m_packet_startpos, m_packet_writepos, gsVars>>

\* SendSimplePacket, SendGameCRC, and the pointer packet of Freeze.
BeginSimple ==
  /\ \E c \in Calls \cap {"simple", "freeze"} : call' = c
  /\ EE("idle", "stall")
  /\ UNCHANGED <<posVars, busyVars, signalVars, vsyncVars, eventVars, packetVars, gsVars>>

\* WaitGS, on its own or as cpuReset calls it before hwReset calls ResetGS.
BeginWait ==
  /\ \/ "wait" \in Calls /\ call' = "wait"
     \/ "reset" \in Calls /\ call' = "cpuReset"
  /\ EE("idle", "wgTest")
  /\ UNCHANGED <<posVars, busyVars, signalVars, vsyncVars, eventVars, packetVars, gsVars>>

\* GenericStall: the first look at the read position.
StallTest ==
  LET freeroom == FreeRoom(m_ReadPos, m_WritePos)
      next == IF freeroom > StallSize THEN "tag"
              ELSE IF SomeDone(freeroom, StallSize) > SpinLimit THEN "arm"
              ELSE "spinKick"
  IN  /\ EE("stall", next)
      /\ IF next = "arm"
           THEN m_SignalRingPosition' = SomeDone(freeroom, StallSize)
           ELSE UNCHANGED m_SignalRingPosition
      /\ UNCHANGED <<posVars, busyVars, m_SignalRingEnable, m_sem_OnRingReset, vsyncVars,
                     eventVars, packetVars, call, gsVars>>

\* AtomicExchange( m_SignalRingEnable, 1 )
StallArm ==
  /\ EE("arm", "stallKick")
  /\ m_SignalRingEnable' = 1
  /\ UNCHANGED <<posVars, busyVars, m_SignalRingPosition, m_sem_OnRingReset, vsyncVars,
                 eventVars, packetVars, call, gsVars>>

\* Bug: the EE goes to sleep without kicking the GS thread.
StallKickForgotten ==
  /\ EE("stallKick", "stallSleep")
  /\ UNCHANGED <<posVars, busyVars, signalVars, vsyncVars, eventVars, packetVars, call, gsVars>>

StallKick == SetEvent("stallKick", "stallSleep")

\* m_sem_OnRingReset.WaitWithoutYield()
StallSleep ==
  /\ EE("stallSleep", "stallWake")
  /\ m_sem_OnRingReset > 0
  /\ m_sem_OnRingReset' = m_sem_OnRingReset - 1
  /\ UNCHANGED <<posVars, busyVars, m_SignalRingEnable, m_SignalRingPosition, vsyncVars,
                 eventVars, packetVars, call, gsVars>>

\* Bug: one wait instead of the loop.
StallWakeOnce ==
  /\ EE("stallWake", "tag")
  /\ UNCHANGED <<posVars, busyVars, signalVars, vsyncVars, eventVars, packetVars, call, gsVars>>

\* The loop of the sleeping stall looks at the read position again.
StallWake ==
  /\ EE("stallWake",
        IF FreeRoom(m_ReadPos, m_WritePos) > StallSize THEN "tag" ELSE "arm")
  /\ UNCHANGED <<posVars, busyVars, signalVars, vsyncVars, eventVars, packetVars, call, gsVars>>

SpinKick == SetEvent("spinKick", "spin")

\* One round of SpinWait that finds room.
Spin ==
  /\ EE("spin", "tag")
  /\ FreeRoom(m_ReadPos, m_WritePos) > StallSize
  /\ UNCHANGED <<posVars, busyVars, signalVars, vsyncVars, eventVars, packetVars, call, gsVars>>

\* PrepDataPacket and SendSimplePacket write the tag qword at m_WritePos.
WriteTag ==
  /\ IF call \in DataCalls
       THEN /\ EE("tag", "fill")
            /\ ring' = [ring EXCEPT ![m_WritePos] = Tag(CommandOf(call), m_packet_size)]
            /\ m_packet_startpos' = m_WritePos
            /\ m_packet_writepos' = Wrap(m_WritePos + 1)
            /\ UNCHANGED m_packet_size
       ELSE /\ EE("tag", "publish")
            /\ ring' = [ring EXCEPT ![m_WritePos] = Tag(CommandOf(call), 0)]
            /\ UNCHANGED packetVars
  /\ UNCHANGED <<m_ReadPos, m_WritePos, busyVars, signalVars, vsyncVars, eventVars, call, gsVars>>

\* The payload written so far: actualSize in SendDataPacket.
ActualSize == Distance(m_packet_startpos, m_packet_writepos) - 1

\* The caller copies one qword of payload through m_packet_writepos.
FillQword ==
  /\ EE("fill", "fill")
  /\ ActualSize < m_packet_size
  /\ ring' = [ring EXCEPT ![m_packet_writepos] = Payload]
  /\ m_packet_writepos' = Wrap(m_packet_writepos + 1)
  /\ UNCHANGED <<m_ReadPos, m_WritePos, busyVars, signalVars, vsyncVars, eventVars,
                 m_packet_startpos, m_packet_size, call, gsVars>>

\* GIFPath::CopyTag gives an endless PATH1 packet up: ringpos = original_ringpos.
FillAbandon ==
  /\ EE("fill", "seal") /\ call = "data"
  /\ m_packet_writepos' = Wrap(m_packet_startpos + 1)
  /\ UNCHANGED <<posVars, busyVars, signalVars, vsyncVars, eventVars,
                 m_packet_startpos, m_packet_size, call, gsVars>>

\* The caller is done: a GIF path may stop short of the size it asked for, the
\* vsync packet is always full.
FillDone ==
  /\ EE("fill", "seal")
  /\ call = "vsync" => ActualSize = m_packet_size
  /\ UNCHANGED <<posVars, busyVars, signalVars, vsyncVars, eventVars, packetVars, call, gsVars>>

\* SendDataPacket puts the actual size in the tag, before it publishes.
SealTag ==
  /\ EE("seal", "publish")
  /\ ring' = [ring EXCEPT ![m_packet_startpos] = Tag(CommandOf(call), ActualSize)]
  /\ UNCHANGED <<m_ReadPos, m_WritePos, busyVars, signalVars, vsyncVars, eventVars,
                 packetVars, call, gsVars>>

\* Bug: a synchronous send does not wait.
PublishNoWait ==
  /\ EE("publish", "tally")
  /\ m_WritePos' = IF call \in DataCalls THEN m_packet_writepos ELSE Wrap(m_WritePos + 1)
  /\ UNCHANGED <<m_ReadPos, ring, busyVars, signalVars, vsyncVars, eventVars, packetVars,
                 call, gsVars>>

\* m_WritePos moves: the packet is the GS thread's.
Publish ==
  /\ EE("publish", IF SynchronousMTGS THEN "wgTest" ELSE "tally")
  /\ m_WritePos' = IF call \in DataCalls THEN m_packet_writepos ELSE Wrap(m_WritePos + 1)
  /\ UNCHANGED <<m_ReadPos, ring, busyVars, signalVars, vsyncVars, eventVars, packetVars,
                 call, gsVars>>

\* The tally only matters up to TallyLimit + 1, where the model stops counting.
Saturated(n) == IF n > TallyLimit THEN TallyLimit + 1 ELSE n

\* The tally: a data packet counts only while the GS thread is idle.
TallyPacket ==
  /\ IF call \notin DataCalls
       THEN EE("tally", "sent") /\ m_CopyDataTally' = Saturated(m_CopyDataTally + 1)
     ELSE IF m_RingBufferIsBusy
       THEN EE("tally", "sent") /\ UNCHANGED m_CopyDataTally
     ELSE /\ m_CopyDataTally' = Saturated(m_CopyDataTally + m_packet_size)
          /\ EE("tally", IF m_CopyDataTally' > TallyLimit THEN "tallyKick" ELSE "sent")
  /\ UNCHANGED <<posVars, busyVars, signalVars, vsyncVars, m_sem_event, packetVars,
                 call, gsVars>>

TallyKick == SetEvent("tallyKick", "sent")

\* What follows the packet: m_packet_size = 0, and the rest of the call.
Sent ==
  /\ EE("sent", CASE call = "vsync"  -> IF m_CopyDataTally # 0 THEN "vsyncKick"
                                                               ELSE "vsyncCount"
                  [] call = "reset"  -> "stall"
                  [] call = "reset2" -> "resetKick"
                  [] call = "freeze" -> "wgTest"
                  [] OTHER           -> "idle")
  /\ call' = CASE call = "reset"  -> "reset2"
               [] call = "freeze" -> "wait"
               [] OTHER           -> call
  /\ m_packet_size' = IF call \in DataCalls THEN 0 ELSE m_packet_size
  /\ UNCHANGED <<posVars, busyVars, signalVars, vsyncVars, eventVars,
                 m_packet_startpos, m_packet_writepos, gsVars>>

\* PostVsyncEnd: the kick, the count, and the wait for a slot in the queue.
VsyncKick == SetEvent("vsyncKick", "vsyncCount")

VsyncCount ==
  /\ EE("vsyncCount", IF m_QueuedFrameCount < VsyncQueueSize \/ ~FrameLimited
                        THEN "idle" ELSE "vsyncListen")
  /\ m_QueuedFrameCount' = m_QueuedFrameCount + 1
  /\ UNCHANGED <<posVars, busyVars, signalVars, m_VsyncSignalListener, m_sem_Vsync,
                 eventVars, packetVars, call, gsVars>>

VsyncListen ==
  /\ EE("vsyncListen", "vsyncSleep")
  /\ m_VsyncSignalListener' = TRUE
  /\ UNCHANGED <<posVars, busyVars, signalVars, m_QueuedFrameCount, m_sem_Vsync,
                 eventVars, packetVars, call, gsVars>>

VsyncSleep ==
  /\ EE("vsyncSleep", "idle")
  /\ m_sem_Vsync > 0
  /\ m_sem_Vsync' = m_sem_Vsync - 1
  /\ UNCHANGED <<posVars, busyVars, signalVars, m_QueuedFrameCount, m_VsyncSignalListener,
                 eventVars, packetVars, call, gsVars>>

\* WaitGS: the ring is empty, or the GS thread is kicked.  Then it goes back to
\* the caller: ResetGS, the rest of a synchronous send, or outside.
WaitReturn == CASE call = "wait"     -> "idle"
                [] call = "cpuReset" -> "reset"
                [] OTHER             -> "sent"

WaitTest ==
  /\ EE("wgTest", IF m_ReadPos # m_WritePos THEN "wgKick" ELSE WaitReturn)
  /\ UNCHANGED <<posVars, busyVars, signalVars, vsyncVars, eventVars, packetVars, call, gsVars>>

WaitKick == SetEvent("wgKick", "wgMutex")

\* m_mtx_RingBufferBusy.Wait(): acquired and released at once.
WaitMutex ==
  /\ EE("wgMutex", "wgAgain")
  /\ m_mtx_RingBufferBusy = "free"
  /\ UNCHANGED <<posVars, busyVars, signalVars, vsyncVars, eventVars, packetVars, call, gsVars>>

WaitAgain ==
  /\ EE("wgAgain", IF m_ReadPos # m_WritePos THEN "wgMutex" ELSE WaitReturn)
  /\ UNCHANGED <<posVars, busyVars, signalVars, vsyncVars, eventVars, packetVars, call, gsVars>>

\* ResetGS empties the ring and the vsync queue, then sends two packets.
ResetGS ==
  /\ EE("reset", "stall")
  /\ m_ReadPos' = m_WritePos
  /\ m_QueuedFrameCount' = 0
  /\ m_VsyncSignalListener' = FALSE
  /\ call' = "reset"
  /\ UNCHANGED <<m_WritePos, ring, busyVars, signalVars, m_sem_Vsync, eventVars,
                 packetVars, gsVars>>

ResetKick == SetEvent("resetKick", "idle")

EEStep ==
  \/ StallTest \/ StallArm \/ StallKick \/ StallSleep \/ StallWake \/ SpinKick \/ Spin
  \/ WriteTag \/ FillQword \/ FillAbandon \/ FillDone \/ SealTag \/ Publish
  \/ TallyPacket \/ TallyKick \/ Sent
  \/ VsyncKick \/ VsyncCount \/ VsyncListen \/ VsyncSleep
  \/ WaitTest \/ WaitKick \/ WaitMutex \/ WaitAgain \/ ResetGS \/ ResetKick

EECall == BeginData \/ BeginSimple \/ BeginWait

-----------------------------------------------------------------------------
(* The GS thread: ExecuteTaskInThread *)

GS(from, to) == gsPc = from /\ gsPc' = to

\* m_sem_event.WaitWithoutYield(), then StateCheckInThread.
GsSleep ==
  /\ GS("sleep", "lock")
  /\ m_sem_event > 0
  /\ m_sem_event' = m_sem_event - 1
  /\ UNCHANGED <<posVars, busyVars, signalVars, vsyncVars, m_CopyDataTally, packetVars, eeVars, inc>>

\* RingBufferLock::Acquire, outside and inside a vsync packet.
GsLock ==
  /\ GS("lock", "busy") \/ GS("vLock", "vBusy")
  /\ m_mtx_RingBufferBusy = "free"
  /\ m_mtx_RingBufferBusy' = "GS"
  /\ UNCHANGED <<posVars, m_RingBufferIsBusy, signalVars, vsyncVars, eventVars, packetVars, eeVars, inc>>

GsBusy ==
  /\ GS("busy", "loop") \/ GS("vBusy", "advance")
  /\ m_RingBufferIsBusy' = TRUE
  /\ UNCHANGED <<posVars, m_mtx_RingBufferBusy, signalVars, vsyncVars, eventVars, packetVars, eeVars, inc>>

\* RingBufferLock::Release, which clears the flag before it unlocks.
GsUnbusy ==
  /\ GS("unbusy", "unlock") \/ GS("vUnbusy", "vUnlock")
  /\ m_RingBufferIsBusy' = FALSE
  /\ UNCHANGED <<posVars, m_mtx_RingBufferBusy, signalVars, vsyncVars, eventVars, packetVars, eeVars, inc>>

GsUnlock ==
  /\ GS("unlock", "valve") \/ GS("vUnlock", "vLock")
  /\ m_mtx_RingBufferBusy' = "free"
  /\ UNCHANGED <<posVars, m_RingBufferIsBusy, signalVars, vsyncVars, eventVars, packetVars, eeVars, inc>>

\* The loop test, which reads m_WritePos; DisableOutput drops what is queued.
GsLoop ==
  /\ \E off \in DisableOutputs :
       GS("loop", IF m_ReadPos = m_WritePos THEN "unbusy"
                  ELSE IF off THEN "drop" ELSE "packet")
  /\ UNCHANGED <<posVars, busyVars, signalVars, vsyncVars, eventVars, packetVars, eeVars, inc>>

GsDrop ==
  /\ GS("drop", "loop")
  /\ m_ReadPos' = m_WritePos
  /\ UNCHANGED <<m_WritePos, ring, busyVars, signalVars, vsyncVars, eventVars, packetVars, eeVars, inc>>

\* The switch on the tag; the plugin reads the payload here.
GsPacket ==
  /\ GS("packet", IF ring[m_ReadPos].command = "VSYNC" THEN "vCount" ELSE "advance")
  /\ inc' = PacketLength(ring[m_ReadPos])
  /\ UNCHANGED <<posVars, busyVars, signalVars, vsyncVars, eventVars, packetVars, eeVars>>

\* Bug: the frame is not taken off the queue.
GsVsyncCountForgotten ==
  /\ GS("vCount", "vListener")
  /\ UNCHANGED <<posVars, busyVars, signalVars, vsyncVars, eventVars, packetVars, eeVars, inc>>

GsVsyncCount ==
  /\ GS("vCount", "vListener")
  /\ m_QueuedFrameCount' = m_QueuedFrameCount - 1
  /\ UNCHANGED <<posVars, busyVars, signalVars, m_VsyncSignalListener, m_sem_Vsync, eventVars,
                 packetVars, eeVars, inc>>

\* Bug: a test where the code exchanges.
GsVsyncListenerTest ==
  /\ \/ GS("vListener", IF m_VsyncSignalListener THEN "vPost" ELSE "vUnbusy")
     \/ GS("valveVsync", IF m_VsyncSignalListener THEN "valveVsyncPost" ELSE "sleep")
  /\ UNCHANGED <<posVars, busyVars, signalVars, vsyncVars, eventVars, packetVars, eeVars, inc>>

\* AtomicExchange(m_VsyncSignalListener, false), in the packet and in the valve.
GsVsyncListener ==
  /\ \/ GS("vListener", IF m_VsyncSignalListener THEN "vPost" ELSE "vUnbusy")
     \/ GS("valveVsync", IF m_VsyncSignalListener THEN "valveVsyncPost" ELSE "sleep")
  /\ m_VsyncSignalListener' = FALSE
  /\ UNCHANGED <<posVars, busyVars, signalVars, m_QueuedFrameCount, m_sem_Vsync, eventVars,
                 packetVars, eeVars, inc>>

GsVsyncPost ==
  /\ GS("vPost", "vUnbusy") \/ GS("valveVsyncPost", "sleep")
  /\ m_sem_Vsync' = m_sem_Vsync + 1
  /\ UNCHANGED <<posVars, busyVars, signalVars, m_QueuedFrameCount, m_VsyncSignalListener,
                 eventVars, packetVars, eeVars, inc>>

\* Bug: the read position jumps to the end of the queue.
GsAdvanceToEnd ==
  /\ GS("advance", "sigTest")
  /\ m_ReadPos' = m_WritePos
  /\ UNCHANGED <<m_WritePos, ring, busyVars, signalVars, vsyncVars, eventVars, packetVars, eeVars, inc>>

GsAdvance ==
  /\ GS("advance", "sigTest")
  /\ m_ReadPos' = Wrap(m_ReadPos + inc)
  /\ UNCHANGED <<m_WritePos, ring, busyVars, signalVars, vsyncVars, eventVars, packetVars, eeVars, inc>>

GsSignalTest ==
  /\ GS("sigTest", IF m_SignalRingEnable # 0 THEN "sigSub" ELSE "loop")
  /\ UNCHANGED <<posVars, busyVars, signalVars, vsyncVars, eventVars, packetVars, eeVars, inc>>

\* AtomicExchangeSub returns the value from before the subtraction.
GsSignalSub ==
  /\ GS("sigSub", IF m_SignalRingPosition <= 0 THEN "sigClear" ELSE "loop")
  /\ m_SignalRingPosition' = m_SignalRingPosition - inc
  /\ UNCHANGED <<posVars, busyVars, m_SignalRingEnable, m_sem_OnRingReset, vsyncVars,
                 eventVars, packetVars, eeVars, inc>>

\* Bug: the signal is posted with the flag still up.
GsSignalClearForgotten ==
  /\ GS("sigClear", "sigPost")
  /\ UNCHANGED <<posVars, busyVars, signalVars, vsyncVars, eventVars, packetVars, eeVars, inc>>

GsSignalClear ==
  /\ GS("sigClear", "sigPost")
  /\ m_SignalRingEnable' = 0
  /\ UNCHANGED <<posVars, busyVars, m_SignalRingPosition, m_sem_OnRingReset, vsyncVars,
                 eventVars, packetVars, eeVars, inc>>

GsSignalPost ==
  /\ GS("sigPost", "loop") \/ GS("valvePost", "valveVsync")
  /\ m_sem_OnRingReset' = m_sem_OnRingReset + 1
  /\ UNCHANGED <<posVars, busyVars, m_SignalRingEnable, m_SignalRingPosition, vsyncVars,
                 eventVars, packetVars, eeVars, inc>>

\* The safety valve of an emptied ring: AtomicExchange( m_SignalRingEnable, 0 ).
GsValve ==
  /\ GS("valve", IF m_SignalRingEnable # 0 THEN "valvePos" ELSE "valveVsync")
  /\ m_SignalRingEnable' = 0
  /\ UNCHANGED <<posVars, busyVars, m_SignalRingPosition, m_sem_OnRingReset, vsyncVars,
                 eventVars, packetVars, eeVars, inc>>

GsValvePosition ==
  /\ GS("valvePos", "valvePost")
  /\ m_SignalRingPosition' = 0
  /\ UNCHANGED <<posVars, busyVars, m_SignalRingEnable, m_sem_OnRingReset, vsyncVars,
                 eventVars, packetVars, eeVars, inc>>

GSStep ==
  \/ GsSleep \/ GsLock \/ GsBusy \/ GsUnbusy \/ GsUnlock \/ GsLoop \/ GsDrop \/ GsPacket
  \/ GsVsyncCount \/ GsVsyncListener \/ GsVsyncPost \/ GsAdvance
  \/ GsSignalTest \/ GsSignalSub \/ GsSignalClear \/ GsSignalPost
  \/ GsValve \/ GsValvePosition

-----------------------------------------------------------------------------
(* OnStart, and the first trip of the GS thread to its semaphore. *)

Init ==
  /\ m_ReadPos = 0 /\ m_WritePos = 0
  /\ ring = [s \in Slots |-> Payload]
  /\ m_RingBufferIsBusy = FALSE /\ m_mtx_RingBufferBusy = "free"
  /\ m_SignalRingEnable = 0 /\ m_SignalRingPosition = 0 /\ m_sem_OnRingReset = 0
  /\ m_QueuedFrameCount = 0 /\ m_VsyncSignalListener = FALSE /\ m_sem_Vsync = 0
  /\ m_sem_event = 0 /\ m_CopyDataTally = 0
  /\ m_packet_startpos = 0 /\ m_packet_size = 0 /\ m_packet_writepos = 0
  /\ eePc = "idle" /\ call = "none"
  /\ gsPc = "sleep" /\ inc = 1

Next == EEStep \/ EECall \/ GSStep

Spec == Init /\ [][Next]_vars

\* The operating system runs both threads; the EE need not start another call.
FairSpec == Spec /\ WF_vars(EEStep) /\ WF_vars(GSStep)

-----------------------------------------------------------------------------
(* Properties *)

EEStates == {"idle", "stall", "arm", "stallKick", "stallSleep", "stallWake", "spinKick",
             "spin", "tag", "fill", "seal", "publish", "tally", "tallyKick", "sent",
             "vsyncKick", "vsyncCount", "vsyncListen", "vsyncSleep",
             "wgTest", "wgKick", "wgMutex", "wgAgain", "reset", "resetKick"}
GSStates == {"sleep", "lock", "busy", "loop", "drop", "packet", "vCount", "vListener",
             "vPost", "vUnbusy", "vUnlock", "vLock", "vBusy", "advance", "sigTest",
             "sigSub", "sigClear", "sigPost", "unbusy", "unlock", "valve", "valvePos",
             "valvePost", "valveVsync", "valveVsyncPost"}
CallStates == {"none", "data", "simple", "vsync", "freeze", "wait", "cpuReset",
               "reset", "reset2"}

\* Every variable stays in its range: positions inside the ring, counts natural.
TypeOK ==
  /\ m_ReadPos \in Slots /\ m_WritePos \in Slots
  /\ ring \in [Slots -> Cells]
  /\ m_RingBufferIsBusy \in BOOLEAN /\ m_mtx_RingBufferBusy \in {"free", "GS"}
  /\ m_SignalRingEnable \in {0, 1} /\ m_SignalRingPosition \in Int
  /\ m_sem_OnRingReset \in Nat
  /\ m_QueuedFrameCount \in Int /\ m_VsyncSignalListener \in BOOLEAN /\ m_sem_Vsync \in Nat
  /\ m_sem_event \in 0..MaxEvents /\ m_CopyDataTally \in 0..(TallyLimit + 1)
  /\ m_packet_startpos \in Slots /\ m_packet_writepos \in Slots
  /\ m_packet_size \in 0..(RingBufferSize - 2)
  /\ eePc \in EEStates /\ call \in CallStates
  /\ gsPc \in GSStates /\ inc \in 1..(RingBufferSize - 1)

Building == {"tag", "fill", "seal", "publish"}

\* GenericStall keeps its promise until the packet is published: the slots of the
\* whole packet are free, and one more, so that a full ring never looks empty
\* (pxAssert( future_writepos != m_ReadPos ) in _FinishSimplePacket).
RoomHeld ==
  eePc \in Building =>
    Used + (IF call \in DataCalls THEN m_packet_size + 1 ELSE 1) < RingBufferSize

\* No step changes a qword that is published and not yet released by the GS thread.
PublishedStable == [][\A s \in Unread \cap Unread' : ring'[s] = ring[s]]_vars

\* Wherever the GS thread switches on a tag or sits in a packet, the slot holds a
\* tag and the whole packet is published: no "Bad packet encountered", no read past
\* m_WritePos.
GsInPacket == {"packet", "vCount", "vListener", "vPost", "vUnbusy", "vUnlock",
               "vLock", "vBusy", "advance"}
GsOnTag ==
  gsPc \in GsInPacket =>
    /\ ring[m_ReadPos].command \in Commands
    /\ PacketLength(ring[m_ReadPos]) <= Used

\* The wake-up of a stalled EE is in exactly one place, from the moment it asks for
\* it to the moment it has it: the enable flag, the GS thread between clearing the
\* flag and posting, or the semaphore.  Otherwise there is none.
One(b) == IF b THEN 1 ELSE 0
SignalTokens == One(m_SignalRingEnable = 1 /\ gsPc # "sigClear") + m_sem_OnRingReset
                + One(gsPc \in {"sigClear", "sigPost", "valvePos", "valvePost"})
SignalHandshake ==
  SignalTokens = One(eePc \in {"stallKick", "stallSleep"})

\* The two pxAssertDev of GenericStall: the flag is down when a stall begins, and the
\* countdown is used up when the EE is woken.
StallAsserts ==
  /\ eePc = "stall" => m_SignalRingEnable = 0
  /\ eePc = "stallWake" => m_SignalRingPosition <= 0

\* GenericStall spins instead of sleeping only when at most SpinLimit qwords are waited
\* for.
NeverSpins == eePc \notin {"spinKick", "spin"}

\* The same for the vsync wait: a listener is never posted twice, and no post is left
\* over to end a later wait early.
VsyncHandshake ==
  One(m_VsyncSignalListener) + One(gsPc \in {"vPost", "valveVsyncPost"}) + m_sem_Vsync
    = One(eePc = "vsyncSleep")

\* m_QueuedFrameCount is the number of vsync packets in the ring, up to the one each
\* thread is in the middle of.
QueuedVsyncs == Cardinality({s \in Unread : ring[s].command = "VSYNC"})
FrameCount ==
  m_QueuedFrameCount
    = QueuedVsyncs
      - One(call = "vsync" /\ eePc \in {"tally", "tallyKick", "sent", "vsyncKick", "vsyncCount",
                                        "wgTest", "wgKick", "wgMutex", "wgAgain"})
      - One(gsPc \in GsInPacket \ {"packet", "vCount"}
            /\ ring[m_ReadPos].command = "VSYNC")

\* Synchronous mode runs one packet at a time: the GS thread never advances past one
\* and finds another (pxAssert( m_WritePos == newringpos ) in ExecuteTaskInThread).
SyncLockstep ==
  SynchronousMTGS /\ gsPc = "advance" => m_WritePos = Wrap(m_ReadPos + inc)

\* A stalled producer gets its room: neither the GS thread asleep on a ring it has
\* not emptied nor a signal position it never reaches can hold the EE forever.
StallEnds == (eePc \in {"stall", "arm", "stallKick", "stallSleep", "stallWake"})
               ~> (eePc = "tag")

\* A producer inside WaitGS gets out of it.
WaitReturns == (eePc \in {"wgMutex", "wgAgain"}) ~> (eePc \notin {"wgMutex", "wgAgain"})

\* An EE that sleeps until a queued frame is done is woken.
VsyncWakes == (eePc = "vsyncSleep") ~> (eePc # "vsyncSleep")

\* A queued vsync always starts the GS thread: it never sleeps for good on one.
VsyncStartsGS ==
  []<>~(gsPc = "sleep" /\ m_sem_event = 0 /\ QueuedVsyncs > 0)
=============================================================================
