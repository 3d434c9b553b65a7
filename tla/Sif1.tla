-------------------------------- MODULE Sif1 --------------------------------
(***************************************************************************)
(* SIF1: the DMA channel from the EE to the IOP (Sif1.cpp, psxDma10 of     *)
(* IopDma.cpp).  The EE side walks a chain of its own tags and puts the    *)
(* quadwords they name into the FIFO; each starts with a quadword that is  *)
(* the tag for the IOP side, which reads the tag and then the words.       *)
(*                                                                         *)
(* SIF1Dma is the loop of SIF0Dma with the sides in the other order; see   *)
(* Sif0 for what a step is and for the delay of the interrupts.            *)
(***************************************************************************)
EXTENDS SifFifo

CONSTANTS
  Packets,     \* what the EE program sends: [qwc, eeEnd, words, iopEnd]; the
               \* quadwords up to the next IOP tag, as one EE tag
  Modes,       \* the chcr.MOD the EE program uses: "NORMAL", "CHAIN"
  Ttes,        \* the values of chcr.TTE it uses: whether the tag is sent, too
  MayStop,     \* whether it may stop the running channel
  Mapped       \* the answers of getAddr: {TRUE} when every address is good

ASSUME PacketAssumption ==
  Packets \subseteq [qwc : Nat, eeEnd : BOOLEAN, words : Nat, iopEnd : BOOLEAN]
ASSUME ProgramAssumption ==
  /\ Packets # {} /\ Modes \subseteq {"NORMAL", "CHAIN"} /\ Ttes \subseteq BOOLEAN
  /\ MayStop \in BOOLEAN /\ Mapped \subseteq BOOLEAN

VARIABLES
  fifo,     \* sif1.fifo
  ee,       \* sif1.ee and sif1dma: busy, end, qwc, str, mod, tte, packet (madr)
  iop,      \* sif1.iop and HW_DMA10: busy, end, counter, chcr (bit 24), packet (data, madr)
  pending,  \* the interrupts that are scheduled, of {"EE", "IOP"}
  pc,       \* the loop of SIF1Dma: whose turn it is, or "idle"
  BusyCheck \* whether a side has moved in this round of the loop

vars == <<fifo, ee, iop, pending, pc, BusyCheck>>

\* The words an EE tag names: at 0..3 the tag for the IOP, then the data.  The two
\* words that TTE sends of the EE tag itself are at TagWord and after it.
Words == [packet : Packets, at : Int]
TagWord == -2
Stretch(p, from, n) == [i \in 1..n |-> [packet |-> p, at |-> from + i - 1]]

EeType == [busy : BOOLEAN, end : BOOLEAN, qwc : Nat, str : BOOLEAN,
           mod : {"NORMAL", "CHAIN"}, tte : BOOLEAN, packet : Packets]
IopType == [busy : BOOLEAN, end : BOOLEAN, counter : Nat, chcr : BOOLEAN, packet : Packets]

TypeOK ==
  /\ fifo \in Fifos(Words)
  /\ ee \in EeType
  /\ iop \in IopType
  /\ pending \subseteq {"EE", "IOP"}
  /\ pc \in {"idle", "ee", "iop"}
  /\ BusyCheck \in BOOLEAN

\* sifInit
Init ==
  \E p \in Packets :
    /\ fifo = Cleared([packet |-> p, at |-> 0])
    /\ ee = [busy |-> FALSE, end |-> FALSE, qwc |-> 0, str |-> FALSE, mod |-> "CHAIN",
             tte |-> FALSE, packet |-> p]
    /\ iop = [busy |-> FALSE, end |-> FALSE, counter |-> 0, chcr |-> FALSE, packet |-> p]
    /\ pending = {}
    /\ pc = "idle"
    /\ BusyCheck = FALSE

-----------------------------------------------------------------------------
(* The EE's turn. *)

\* getAddr of an address that is none stops the channel.
BadAddress ==
  /\ FALSE \in Mapped
  /\ ee' = [ee EXCEPT !.str = FALSE]
  /\ UNCHANGED fifo

\* As many whole quadwords as there is room for.
WriteEEtoFifo ==
  LET writeSize == Smaller(ee.qwc, Free(fifo) \div 4)
      sent == 4 * (ee.packet.qwc - ee.qwc)
  IN /\ TRUE \in Mapped
     /\ fifo' = Write(fifo, Stretch(ee.packet, sent, 4 * writeSize))
     /\ ee' = [ee EXCEPT !.qwc = @ - writeSize]

ProcessEETag ==
  /\ TRUE \in Mapped
  /\ \E p \in Packets :
       /\ fifo' = IF ee.tte THEN Write(fifo, Stretch(p, TagWord, 2)) ELSE fifo
       /\ ee' = [ee EXCEPT !.packet = p, !.qwc = p.qwc, !.end = @ \/ p.eeEnd]

EndEE ==
  /\ ee' = [ee EXCEPT !.end = FALSE, !.busy = FALSE]
  /\ pending' = pending \cup {"EE"}
  /\ UNCHANGED fifo

HandleEETransfer ==
  \/ /\ ~ee.str
     /\ ee' = [ee EXCEPT !.end = FALSE, !.busy = FALSE]
     /\ UNCHANGED <<fifo, pending>>
  \/ ee.str /\ ee.qwc = 0 /\ (ee.mod = "NORMAL" \/ ee.end) /\ EndEE
  \/ /\ ee.str /\ ee.qwc = 0 /\ ~(ee.mod = "NORMAL" \/ ee.end)
     /\ ProcessEETag \/ BadAddress
     /\ UNCHANGED pending
  \/ /\ ee.str /\ ee.qwc > 0
     /\ IF Free(fifo) > 0 THEN WriteEEtoFifo \/ BadAddress ELSE UNCHANGED <<fifo, ee>>
     /\ UNCHANGED pending

\* Bug: with a full FIFO, too.
EeMayFull == ee.busy

EeMay == ee.busy /\ (Free(fifo) > 0 \/ (ee.end /\ ee.qwc = 0))

EeTurn ==
  /\ pc = "ee"
  /\ \/ EeMay /\ HandleEETransfer
     \/ ~EeMay /\ UNCHANGED <<fifo, ee, pending>>
  /\ BusyCheck' = EeMay
  /\ pc' = "iop"
  /\ UNCHANGED iop

-----------------------------------------------------------------------------
(* The IOP's turn: it reads, and when it has all it goes on to the end or to the *)
(* next tag at once.                                                             *)

\* The quadword at the head of f as a tag; a word that is none may look like any.
HeadTags(f) == IF Front(f, 1)[1].at = 0 THEN {Front(f, 1)[1].packet} ELSE Packets

AfterWrite ==
  LET readSize == Smaller(iop.counter, fifo.size)
  IN [fifo |-> Drop(fifo, readSize), counter |-> iop.counter - readSize]

EndIOP(f) ==
  /\ iop' = [iop EXCEPT !.counter = 0, !.end = FALSE, !.busy = FALSE]
  /\ pending' = pending \cup {"IOP"}
  /\ fifo' = f

\* The count is taken as it is, not rounded up to quadwords.
SIFIOPReadTag(f) ==
  \E p \in HeadTags(f) :
    /\ iop' = [iop EXCEPT !.packet = p, !.counter = p.words, !.end = @ \/ p.iopEnd]
    /\ fifo' = Drop(f, 4)
    /\ UNCHANGED pending

\* Bug: the end is not kept back until the words have come.
HandleIOPTransferHasty ==
  LET f == AfterWrite.fifo
      counter == AfterWrite.counter
  IN \/ iop.end /\ EndIOP(f)
     \/ counter = 0 /\ ~iop.end /\ f.size >= 4 /\ SIFIOPReadTag(f)
     \/ /\ ~iop.end /\ (counter > 0 \/ f.size < 4)
        /\ iop' = [iop EXCEPT !.counter = counter]
        /\ fifo' = f
        /\ UNCHANGED pending

HandleIOPTransfer ==
  LET f == AfterWrite.fifo
      counter == AfterWrite.counter
  IN \/ counter = 0 /\ iop.end /\ EndIOP(f)
     \/ counter = 0 /\ ~iop.end /\ f.size >= 4 /\ SIFIOPReadTag(f)
     \/ /\ counter > 0 \/ (~iop.end /\ f.size < 4)
        /\ iop' = [iop EXCEPT !.counter = counter]
        /\ fifo' = f
        /\ UNCHANGED pending

IopMay == iop.busy /\ (fifo.size >= 4 \/ (iop.end /\ iop.counter = 0))

\* Another round of the loop, if either side has moved in this one.
IopTurn ==
  /\ pc = "iop"
  /\ \/ IopMay /\ HandleIOPTransfer
     \/ ~IopMay /\ UNCHANGED <<fifo, iop, pending>>
  /\ pc' = IF BusyCheck \/ IopMay THEN "ee" ELSE "idle"
  /\ BusyCheck' = FALSE
  /\ UNCHANGED ee

-----------------------------------------------------------------------------
(* The programs, and the interrupts that tell them of the end. *)

\* Bug: runs the loop only when the EE side is at work, as the source has it
\* commented out.
psxDma10Checked ==
  /\ pc = "idle" /\ ~iop.chcr
  /\ iop' = [iop EXCEPT !.chcr = TRUE, !.busy = TRUE]
  /\ pc' = IF ee.busy THEN "ee" ELSE "idle"
  /\ UNCHANGED <<fifo, ee, pending, BusyCheck>>

\* The IOP program starts the channel when its last transfer is over.
psxDma10 ==
  /\ pc = "idle" /\ ~iop.chcr
  /\ iop' = [iop EXCEPT !.chcr = TRUE, !.busy = TRUE]
  /\ pc' = "ee"
  /\ UNCHANGED <<fifo, ee, pending, BusyCheck>>

\* DmaExec ignores the start of a channel that runs.  A chain starts with no quadword,
\* a NORMAL transfer with the address and the count of a packet.
dmaSIF1 ==
  /\ pc = "idle" /\ ~ee.str
  /\ \E m \in Modes, t \in Ttes, p \in Packets :
       ee' = [ee EXCEPT !.str = TRUE, !.mod = m, !.tte = t, !.busy = TRUE,
                        !.qwc = IF m = "NORMAL" THEN p.qwc ELSE 0,
                        !.packet = IF m = "NORMAL" THEN p ELSE @]
  /\ pc' = IF iop.busy THEN "ee" ELSE "idle"
  /\ UNCHANGED <<fifo, iop, pending, BusyCheck>>

\* Bug: without cpuClearInt.
ForceStopOnly ==
  /\ MayStop /\ pc = "idle" /\ ee.str
  /\ ee' = [ee EXCEPT !.str = FALSE]
  /\ UNCHANGED <<fifo, iop, pending, pc, BusyCheck>>

\* DmaExec, a write of CHCR with STR = 0 while the channel runs.
ForceStop ==
  /\ MayStop /\ pc = "idle" /\ ee.str
  /\ ee' = [ee EXCEPT !.str = FALSE]
  /\ pending' = pending \ {"EE"}
  /\ UNCHANGED <<fifo, iop, pc, BusyCheck>>

sif1Interrupt ==
  /\ pc = "idle" /\ "IOP" \in pending
  /\ iop' = [iop EXCEPT !.chcr = FALSE]
  /\ pending' = pending \ {"IOP"}
  /\ UNCHANGED <<fifo, ee, pc, BusyCheck>>

EEsif1Interrupt ==
  /\ pc = "idle" /\ "EE" \in pending
  /\ ee' = [ee EXCEPT !.str = FALSE]
  /\ pending' = pending \ {"EE"}
  /\ UNCHANGED <<fifo, iop, pc, BusyCheck>>

Turn == EeTurn \/ IopTurn

Next == Turn \/ psxDma10 \/ dmaSIF1 \/ ForceStop \/ sif1Interrupt \/ EEsif1Interrupt

Spec == Init /\ [][Next]_vars

\* The EE's chain comes to its end, or the IOP's does.
LastTag == (EeTurn /\ ee'.end /\ ~ee.end) \/ (IopTurn /\ iop'.end /\ ~iop.end)

\* The emulator's thread runs on, and a chain of tags has an end.
FairSpec == Spec /\ WF_vars(Turn) /\ SF_vars(LastTag)

-----------------------------------------------------------------------------
(* Properties. *)

\* Each side checks for one word of room, or for a quadword to read, and then moves up
\* to four: still the ring never overflows and never gives out more than it has.
RoomHeld == Sound(fifo)

Stream == INSTANCE SifStream WITH
            stream <- Contents(fifo), Words <- Words, Capacity <- FIFO_SIF_W

\* The FIFO is the bounded stream of words it stands for: none is lost, repeated,
\* overtaken or overwritten.
StreamRefinement == Stream!Spec

\* A word's place in the packets that are sent: v comes right after u.
Follows(u, v) ==
  IF u.at + 1 < 4 * u.packet.qwc THEN v = [u EXCEPT !.at = @ + 1] ELSE v.at = 0

\* The word the EE will send next, the last of the line that the IOP will get.
NextSent == [packet |-> ee.packet,
             at |-> IF ee.qwc = 0 THEN 0 ELSE 4 * (ee.packet.qwc - ee.qwc)]
Line == Append(Contents(fifo), NextSent)

\* The IOP finds its tags where the EE program has put them, and between two tags all
\* the words of the packet, in order: so where packets agree on their length.
InStep ==
  /\ IF iop.counter = 0
     THEN Line[1].at = 0
     ELSE Line[1] = [packet |-> iop.packet, at |-> 4 + iop.packet.words - iop.counter]
  /\ \A i \in 1..fifo.size : Follows(Line[i], Line[i + 1])

\* A channel whose program waits for it (STR, bit 24 of CHCR) is at work or its
\* interrupt is on the way, and no interrupt is thrown twice ("Twice-thrown int").
Accounted ==
  /\ "EE" \in pending => ee.str /\ ~ee.busy
  /\ ee.str => ee.busy \/ "EE" \in pending
  /\ "IOP" \in pending => iop.chcr /\ ~iop.busy
  /\ iop.chcr <=> iop.busy \/ "IOP" \in pending

\* An IOP side that waits has been given all there was: no quadword is left in the
\* FIFO, and the EE side has come to its end.
IopServed == pc = "idle" /\ iop.busy => fifo.size < 4 /\ ~ee.busy

\* The loop of SIF1Dma, which holds up the whole machine, comes to its end.
LoopEnds == pc # "idle" ~> pc = "idle"

\* It does so while whole quadwords are in the FIFO, whatever their number and the
\* packets they belong to.
WholeLoopEnds == pc # "idle" ~> (pc = "idle" \/ fifo.size % 4 # 0)

\* A chain that the EE program starts afresh does not end before its first tag.
FreshStart == [][dmaSIF1 => ~ee.end]_vars
=============================================================================
