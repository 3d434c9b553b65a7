-------------------------------- MODULE Dmac --------------------------------
(***************************************************************************)
(* The EE's DMA controller as its programs see it (ps2/LegacyDmac.cpp)     *)
(* with the two scratchpad channels on it (SPR.cpp) and the events that    *)
(* drive them (R5900.cpp): a program starts, stops and changes channels by *)
(* writing their CHCR, disables the DMAC or suspends it; a channel that is *)
(* started meanwhile is queued.  A running channel does one piece of work  *)
(* per event and schedules the next.                                       *)
(*                                                                         *)
(* The quadwords and their addresses are left out: a channel's QWC is only *)
(* zero or not, and a chain is the sequence of the tags in memory that it  *)
(* has still to read.  An event may happen any time after it is scheduled  *)
(* (eCycle is left open).  INTERLEAVE mode goes as NORMAL does; addresses  *)
(* are good, and neither the MFIFO nor stall control is in use.            *)
(***************************************************************************)
EXTENDS Naturals, Sequences

CONSTANTS
  Channels,     \* the scratchpad channels, SPR0 and SPR1
  Chains,       \* the chains a program leaves in memory
  Saves,        \* the savestates there are to load
  MaxRestarts   \* bound: how often the machine is reset or loads a state

\* A tag in memory: the transfer goes on after it, or ends by its ID ("end"), or by
\* its IRQ bit with CHCR.TIE set ("irq").  "past" is what lies behind a chain.
MemoryTags == {"cnt", "irq", "end"}
Tags == MemoryTags \cup {"past"}

\* D8_CHCR or D9_CHCR (str, mode, tag), its QWC, the chain behind its SADR or
\* TADR, and spr0finished or spr1finished.
ChannelType ==
  [str : BOOLEAN, mode : {"NORMAL", "CHAIN"}, tag : Tags, qwc : BOOLEAN,
   chain : Seq(MemoryTags), finished : BOOLEAN]

SaveType ==
  [DMAE : BOOLEAN, suspended : BOOLEAN, interrupt : SUBSET Channels,
   STAT : SUBSET Channels, chan : [Channels -> ChannelType]]

ASSUME ChainAssumption ==
  /\ Chains # {} /\ Chains \subseteq Seq(MemoryTags)
  /\ \A c \in Chains : Len(c) > 0 /\ c[Len(c)] = "end"
\* A chain that has been read to its end was read up to a tag that ends it.
EndRead(ch) == (ch.mode = "CHAIN" /\ ch.finished) => ch.tag \in {"irq", "end"}

\* A state was saved by this same machine: see StoppedIsSilent and EndsComplete.
ASSUME SaveAssumption ==
  /\ Saves \subseteq SaveType
  /\ \A s \in Saves : \A c \in s.interrupt : s.chan[c].str /\ EndRead(s.chan[c])
ASSUME BoundAssumption == MaxRestarts \in Nat

VARIABLES
  DMAE,        \* dmacRegs.ctrl.DMAE
  suspended,   \* byte 2 of DMAC_ENABLER
  QueuedDMA,   \* the channels to start when the DMAC runs
  interrupt,   \* cpuRegs.interrupt: the channels with an event scheduled
  STAT,        \* DMAC_STAT: the channels that have announced their end
  chan,        \* the channels
  resets,      \* how often the machine was reset
  loads        \* how often it loaded a state

vars == <<DMAE, suspended, QueuedDMA, interrupt, STAT, chan, resets, loads>>

TypeOK ==
  /\ DMAE \in BOOLEAN /\ suspended \in BOOLEAN
  /\ QueuedDMA \subseteq Channels
  /\ interrupt \subseteq Channels
  /\ STAT \subseteq Channels
  /\ chan \in [Channels -> ChannelType]
  /\ resets \in 0..MaxRestarts /\ loads \in 0..MaxRestarts

Cleared(finished) ==
  [str |-> FALSE, mode |-> "NORMAL", tag |-> "cnt", qwc |-> FALSE, chain |-> <<>>,
   finished |-> finished]

Init ==
  /\ DMAE = FALSE /\ suspended = FALSE
  /\ QueuedDMA = {} /\ interrupt = {} /\ STAT = {}
  /\ chan = [c \in Channels |-> Cleared(FALSE)]
  /\ resets = 0 /\ loads = 0

Runs == DMAE /\ ~suspended

-----------------------------------------------------------------------------
(* The work of a channel.  Every piece ends in CPU_INT.                    *)

\* The tag that is read next.
NextTag(ch) == IF ch.chain = <<>> THEN "past" ELSE Head(ch.chain)
Rest(ch) == IF ch.chain = <<>> THEN <<>> ELSE Tail(ch.chain)

\* Read the next tag and transfer what it says.
ReadTag(ch) ==
  [ch EXCEPT !.tag = NextTag(ch), !.chain = Rest(ch),
             !.finished = NextTag(ch) \in {"irq", "end"}]

\* _dmaSPR0, _dmaSPR1: transfer QWC quadwords; in a chain, when none are left, go on
\* to the next tag.
Work(ch) ==
  CASE ch.mode = "NORMAL" -> [ch EXCEPT !.qwc = FALSE, !.finished = TRUE]
    [] ch.mode = "CHAIN" /\ ch.qwc -> [ch EXCEPT !.qwc = FALSE]
    [] OTHER -> ReadTag(ch)

\* Bugs: the flag is left as the last transfer had it; or the END tag is not seen.
StartAsLeft(ch) == Work(ch)
StartChain(ch) == Work([ch EXCEPT !.finished = FALSE])

\* dmaSPR0, dmaSPR1: a chain that starts with a QWC of its own under an END tag
\* has no tag to read.
Start(ch) ==
  Work([ch EXCEPT !.finished = ch.mode = "CHAIN" /\ ch.qwc /\ ch.tag = "end"])

\* TESTINT with SPRFROMinterrupt or SPRTOinterrupt: more work, or the end.
Interrupt(c) ==
  /\ Runs
  /\ c \in interrupt
  /\ IF ~chan[c].finished \/ chan[c].qwc
     THEN /\ chan' = [chan EXCEPT ![c] = Work(@)]
          /\ UNCHANGED <<interrupt, STAT>>
     ELSE /\ chan' = [chan EXCEPT ![c].str = FALSE]
          /\ interrupt' = interrupt \ {c}
          /\ STAT' = STAT \cup {c}
  /\ UNCHANGED <<DMAE, suspended, QueuedDMA, resets, loads>>

-----------------------------------------------------------------------------
(* The registers.                                                          *)

\* QuickDmaExec, with the enable bits as the write leaves them.
Startable(c, e, s) == chan[c].str /\ e /\ ~s

\* StartQueuedDMA
StartQueuedDMA(e, s) ==
  LET now == {c \in QueuedDMA : Startable(c, e, s)}
  IN  /\ QueuedDMA' = QueuedDMA \ now
      /\ interrupt' = interrupt \cup now
      /\ chan' = [c \in Channels |-> IF c \in now THEN Start(chan[c]) ELSE chan[c]]

\* DMAC_CTRL
WriteCtrl(e) ==
  /\ e # DMAE
  /\ DMAE' = e
  /\ IF e THEN StartQueuedDMA(e, suspended)
          ELSE UNCHANGED <<QueuedDMA, interrupt, chan>>
  /\ UNCHANGED <<suspended, STAT, resets, loads>>

\* Bug: lifting the suspension starts nothing.
WriteEnableOnly(s) ==
  /\ s # suspended
  /\ suspended' = s
  /\ UNCHANGED <<DMAE, STAT, resets, loads, QueuedDMA, interrupt, chan>>

\* DMAC_ENABLEW
WriteEnable(s) ==
  /\ s # suspended
  /\ suspended' = s
  /\ IF s THEN UNCHANGED <<QueuedDMA, interrupt, chan>>
          ELSE StartQueuedDMA(DMAE, s)
  /\ UNCHANGED <<DMAE, STAT, resets, loads>>

\* DMAC_STAT
WriteStat(c) ==
  /\ c \in STAT
  /\ STAT' = STAT \ {c}
  /\ UNCHANGED <<DMAE, suspended, QueuedDMA, interrupt, chan, resets, loads>>

\* What a program writes to start a channel: QWC quadwords; a chain, alone or after
\* QWC quadwords; or QWC quadwords under a tag that ends the chain there.
Request(mode, tag, qwc, chain, finished) ==
  [str |-> TRUE, mode |-> mode, tag |-> tag, qwc |-> qwc, chain |-> chain,
   finished |-> finished]
Requests(finished) ==
  {Request("NORMAL", "cnt", TRUE, <<>>, finished), Request("CHAIN", "end", TRUE, <<>>, finished)}
    \cup {Request("CHAIN", "cnt", qwc, chain, finished) : qwc \in BOOLEAN, chain \in Chains}

\* Bug: only a disabled DMAC is queued for, not one that is suspended.
DmaExecDisabled(c, new) ==
  /\ ~chan[c].str
  /\ chan' = [chan EXCEPT ![c] = IF Runs THEN Start(new) ELSE new]
  /\ interrupt' = IF Runs THEN interrupt \cup {c} ELSE interrupt
  /\ QueuedDMA' = IF DMAE THEN QueuedDMA ELSE QueuedDMA \cup {c}
  /\ UNCHANGED <<DMAE, suspended, STAT, resets, loads>>

\* DmaExec with STR = 1 on a channel that is stopped.
DmaExec(c, new) ==
  /\ ~chan[c].str
  /\ IF Runs
     THEN /\ chan' = [chan EXCEPT ![c] = Start(new)]
          /\ interrupt' = interrupt \cup {c}
          /\ UNCHANGED QueuedDMA
     ELSE /\ chan' = [chan EXCEPT ![c] = new]
          /\ QueuedDMA' = QueuedDMA \cup {c}
          /\ UNCHANGED interrupt
  /\ UNCHANGED <<DMAE, suspended, STAT, resets, loads>>

\* Bug: the request stays in the queue.
ForceStopQueued(c) ==
  /\ chan[c].str
  /\ chan' = [chan EXCEPT ![c].str = FALSE]
  /\ interrupt' = interrupt \ {c}
  /\ UNCHANGED <<DMAE, suspended, STAT, resets, loads, QueuedDMA>>
\* Bug: the event goes on.
ForceStopOnly(c) ==
  /\ chan[c].str
  /\ chan' = [chan EXCEPT ![c].str = FALSE]
  /\ QueuedDMA' = QueuedDMA \ {c}
  /\ UNCHANGED <<DMAE, suspended, STAT, resets, loads, interrupt>>

\* DmaExec with STR = 0 on a running channel, while the DMAC is suspended or not
\* (what else it writes is written again before the next start).
ForceStop(c) ==
  /\ chan[c].str
  /\ chan' = [chan EXCEPT ![c].str = FALSE]
  /\ interrupt' = interrupt \ {c}
  /\ QueuedDMA' = QueuedDMA \ {c}
  /\ UNCHANGED <<DMAE, suspended, STAT, resets, loads>>

\* DmaExec with STR = 1 on a running channel while the DMAC is suspended: the
\* program changes a chain that is half way through to another mode.  The tag
\* stays, and it may give the channel a QWC.
ChangeMode(c, q) ==
  /\ suspended
  /\ chan[c].str /\ chan[c].mode = "CHAIN"
  /\ chan' = [chan EXCEPT ![c].mode = "NORMAL", ![c].qwc = @ \/ q]
  /\ UNCHANGED <<DMAE, suspended, QueuedDMA, interrupt, STAT, resets, loads>>

-----------------------------------------------------------------------------
(* The machine.                                                            *)

\* cpuReset clears cpuRegs and, by hwReset and memReset, the registers and the
\* memory; neither QueuedDMA nor the finished flags.
Reset ==
  /\ resets + loads < MaxRestarts
  /\ resets' = resets + 1
  /\ DMAE' = FALSE /\ suspended' = FALSE
  /\ interrupt' = {} /\ STAT' = {}
  /\ chan' = [c \in Channels |-> Cleared(chan[c].finished)]
  /\ UNCHANGED <<QueuedDMA, loads>>

\* FreezeMainMemory, FreezeRegisters and sprFreeze of a state that is loaded:
\* everything but QueuedDMA.
Load(s) ==
  /\ resets + loads < MaxRestarts
  /\ loads' = loads + 1
  /\ DMAE' = s.DMAE /\ suspended' = s.suspended
  /\ interrupt' = s.interrupt /\ STAT' = s.STAT
  /\ chan' = s.chan
  /\ UNCHANGED <<QueuedDMA, resets>>

Next ==
  \/ \E c \in Channels :
       \/ Interrupt(c)
       \/ WriteStat(c)
       \/ \E new \in Requests(chan[c].finished) : DmaExec(c, new)
       \/ ForceStop(c)
       \/ \E q \in BOOLEAN : ChangeMode(c, q)
  \/ \E e \in BOOLEAN : WriteCtrl(e) \/ WriteEnable(e)
  \/ Reset
  \/ \E s \in Saves : Load(s)

Spec == Init /\ [][Next]_vars
\* The EE tests for events again and again; every one that is scheduled comes
\* due, and while the DMAC runs TESTINT gets to each.
FairSpec == Spec /\ \A c \in Channels : WF_vars(Interrupt(c))

-----------------------------------------------------------------------------
\* Until a state is loaded, a channel that is started is on its way: it has an
\* event, or it is in the queue (stops, suspensions and enables in any order lose
\* none).
NothingLost ==
  loads = 0 => \A c \in Channels : chan[c].str => c \in interrupt \cup QueuedDMA

\* A channel that is stopped has no event that would go on with it, or would end
\* the next transfer before its time.
StoppedIsSilent == \A c \in interrupt : chan[c].str

\* Until a restart, a channel in the queue was started while the DMAC did not run
\* and has not begun: no event, and StartQueuedDMA starts it once.
QueuedNotBegun ==
  resets + loads = 0 => \A c \in QueuedDMA : chan[c].str /\ c \notin interrupt

\* Until a restart, a channel reads no memory behind its chain as a tag.
TagsOfChain == resets + loads = 0 => \A c \in Channels : chan[c].tag # "past"

\* A transfer is announced as ended only when nothing is left of it: a chain,
\* when a tag said so.
EndsComplete ==
  [][\A c \in Channels :
       (c \in STAT' \ STAT /\ loads' = loads) =>
          /\ ~chan'[c].str /\ ~chan[c].qwc
          /\ chan[c].mode = "CHAIN" => chan[c].tag \in {"irq", "end"}]_vars

\* While the DMAC is disabled or suspended no started channel goes on: no tag is
\* read and no transfer ends.
Still ==
  (~Runs' /\ resets' = resets /\ loads' = loads) =>
    \A c \in Channels : chan[c].str =>
      /\ chan'[c].chain = chan[c].chain /\ chan'[c].finished = chan[c].finished
      /\ c \notin STAT' \ STAT
HaltedIsStill == [][Still]_vars

\* In a session without restarts, once the DMAC stays enabled and is not suspended
\* any more, no transfer lasts for ever.
TransfersEnd ==
  (<>[]Runs /\ [](resets + loads = 0)) => \A c \in Channels : []<>~chan[c].str
=============================================================================
