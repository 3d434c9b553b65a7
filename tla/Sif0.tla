-------------------------------- MODULE Sif0 --------------------------------
(***************************************************************************)
(* SIF0: the DMA channel from the IOP to the EE (Sif0.cpp, psxDma9 of      *)
(* IopDma.cpp).  The IOP side walks a chain of packets, each a tag for the *)
(* IOP, a tag for the EE and some words; the EE tag and the words go into  *)
(* the FIFO, and the EE side takes them out again.                         *)
(*                                                                         *)
(* Both processors are interpreted by one thread.  SIF0Dma is a loop that  *)
(* gives each side a turn until neither moves; a turn is a step here (pc   *)
(* names the side whose turn it is), and the programs and the interrupts   *)
(* come only between two runs of the loop.  How long an interrupt is       *)
(* delayed (cycles * BIAS) is left open.                                   *)
(***************************************************************************)
EXTENDS SifFifo

CONSTANTS
  Packets,     \* what the IOP program sends: [words, iopEnd, qwc, eeEnd]
  Modes,       \* the chcr.MOD the EE program uses: "NORMAL", "CHAIN"
  NormalQwc,   \* the D5_QWC it sets for NORMAL mode
  MayStop,     \* whether it may stop the running channel
  Mapped       \* the answers of getAddr: {TRUE} when every address is good

ASSUME PacketAssumption ==
  Packets \subseteq [words : Nat, iopEnd : BOOLEAN, qwc : Nat, eeEnd : BOOLEAN]
ASSUME ProgramAssumption ==
  /\ Packets # {} /\ Modes \subseteq {"NORMAL", "CHAIN"} /\ NormalQwc \subseteq Nat
  /\ MayStop \in BOOLEAN /\ Mapped \subseteq BOOLEAN

VARIABLES
  fifo,     \* sif0.fifo
  iop,      \* sif0.iop and HW_DMA9: busy, end, counter, chcr (bit 24), packet (data, madr)
  ee,       \* sif0.ee and sif0dma: busy, end, qwc, str, mod, packet (madr)
  pending,  \* the interrupts that are scheduled, of {"EE", "IOP"}
  pc,       \* the loop of SIF0Dma: whose turn it is, or "idle"
  BusyCheck \* whether a side has moved in this round of the loop

vars == <<fifo, iop, ee, pending, pc, BusyCheck>>

\* A packet as the IOP sends it: at 0..3 its EE tag, then its words; rounded up
\* to whole quadwords.
Words == [packet : Packets, at : Nat]
\* Bug: not rounded up.
RoundUpNone(words) == words
RoundUp(words) == 4 * ((words + 3) \div 4)
Stretch(p, from, n) == [i \in 1..n |-> [packet |-> p, at |-> from + i - 1]]

IopType == [busy : BOOLEAN, end : BOOLEAN, counter : Nat, chcr : BOOLEAN, packet : Packets]
EeType == [busy : BOOLEAN, end : BOOLEAN, qwc : Nat, str : BOOLEAN,
           mod : {"NORMAL", "CHAIN"}, packet : Packets]

TypeOK ==
  /\ fifo \in Fifos(Words)
  /\ iop \in IopType
  /\ ee \in EeType
  /\ pending \subseteq {"EE", "IOP"}
  /\ pc \in {"idle", "iop", "ee"}
  /\ BusyCheck \in BOOLEAN

\* sifInit
Init ==
  \E p \in Packets :
    /\ fifo = Cleared([packet |-> p, at |-> 0])
    /\ iop = [busy |-> FALSE, end |-> FALSE, counter |-> 0, chcr |-> FALSE, packet |-> p]
    /\ ee = [busy |-> FALSE, end |-> FALSE, qwc |-> 0, str |-> FALSE, mod |-> "CHAIN",
             packet |-> p]
    /\ pending = {}
    /\ pc = "idle"
    /\ BusyCheck = FALSE

-----------------------------------------------------------------------------
(* The IOP's turn. *)

WriteIOPtoFifo ==
  LET writeSize == Smaller(iop.counter, Free(fifo))
      sent == 4 + RoundUp(iop.packet.words) - iop.counter
  IN /\ fifo' = Write(fifo, Stretch(iop.packet, sent, writeSize))
     /\ iop' = [iop EXCEPT !.counter = @ - writeSize]
     /\ UNCHANGED pending

ProcessIOPTag ==
  \E p \in Packets :
    /\ fifo' = Write(fifo, Stretch(p, 0, 4))
    /\ iop' = [iop EXCEPT !.packet = p, !.counter = RoundUp(p.words), !.end = @ \/ p.iopEnd]
    /\ UNCHANGED pending

EndIOP ==
  /\ iop' = [iop EXCEPT !.end = FALSE, !.busy = FALSE]
  /\ pending' = pending \cup {"IOP"}
  /\ UNCHANGED fifo

HandleIOPTransfer ==
  \/ iop.counter = 0 /\ iop.end /\ EndIOP
  \/ iop.counter = 0 /\ ~iop.end /\ ProcessIOPTag
  \/ iop.counter > 0 /\ WriteIOPtoFifo

\* Bug: with a full FIFO, too.
IopMayFull == iop.busy

IopMay == iop.busy /\ (Free(fifo) > 0 \/ (iop.end /\ iop.counter = 0))

IopTurn ==
  /\ pc = "iop"
  /\ \/ IopMay /\ HandleIOPTransfer
     \/ ~IopMay /\ UNCHANGED <<fifo, iop, pending>>
  /\ BusyCheck' = IopMay
  /\ pc' = "ee"
  /\ UNCHANGED ee

-----------------------------------------------------------------------------
(* The EE's turn. *)

\* The quadword at the head as a tag; a word that is none may look like any.
HeadTags == IF Front(fifo, 1)[1].at = 0 THEN {Front(fifo, 1)[1].packet} ELSE Packets

EndEE ==
  /\ ee' = [ee EXCEPT !.end = FALSE, !.busy = FALSE]
  /\ pending' = pending \cup {"EE"}
  /\ UNCHANGED fifo

\* From the FIFO f to the address in e; getAddr stops the channel at a bad address.
WriteFifoToEE(e, f) ==
  \E mapped \in Mapped :
    LET readSize == Smaller(e.qwc, f.size \div 4)
    IN IF mapped
       THEN fifo' = Drop(f, 4 * readSize) /\ ee' = [e EXCEPT !.qwc = @ - readSize]
       ELSE fifo' = f /\ ee' = [e EXCEPT !.str = FALSE]

\* Whatever the tag asks for is read at once, if there is any.
ProcessEETag ==
  \E p \in HeadTags :
    LET e == [ee EXCEPT !.packet = p, !.qwc = p.qwc, !.end = @ \/ p.eeEnd]
        f == Drop(fifo, 4)
    IN IF e.qwc > 0 /\ f.size > 0 THEN WriteFifoToEE(e, f) ELSE ee' = e /\ fifo' = f

HandleEETransfer ==
  \/ /\ ~ee.str
     /\ ee' = [ee EXCEPT !.end = FALSE, !.busy = FALSE]
     /\ UNCHANGED <<fifo, pending>>
  \/ ee.str /\ ee.qwc = 0 /\ (ee.mod = "NORMAL" \/ ee.end) /\ EndEE
  \/ /\ ee.str /\ ee.qwc = 0 /\ ~(ee.mod = "NORMAL" \/ ee.end) /\ fifo.size >= 4
     /\ ProcessEETag
     /\ UNCHANGED pending
  \/ /\ ee.str /\ ee.qwc > 0 /\ fifo.size > 0
     /\ WriteFifoToEE(ee, fifo)
     /\ UNCHANGED pending

EeMay == ee.busy /\ (fifo.size >= 4 \/ (ee.end /\ ee.qwc = 0))

\* Another round of the loop, if either side has moved in this one.
EeTurn ==
  /\ pc = "ee"
  /\ \/ EeMay /\ HandleEETransfer
     \/ ~EeMay /\ UNCHANGED <<fifo, ee, pending>>
  /\ pc' = IF BusyCheck \/ EeMay THEN "iop" ELSE "idle"
  /\ BusyCheck' = FALSE
  /\ UNCHANGED iop

-----------------------------------------------------------------------------
(* The programs, and the interrupts that tell them of the end. *)

\* The IOP program starts the channel when its last transfer is over.
psxDma9 ==
  /\ pc = "idle" /\ ~iop.chcr
  /\ iop' = [iop EXCEPT !.chcr = TRUE, !.busy = TRUE]
  /\ pc' = "iop"
  /\ UNCHANGED <<fifo, ee, pending, BusyCheck>>

\* DmaExec ignores the start of a channel that runs; a chain starts with no quadword.
dmaSIF0 ==
  /\ pc = "idle" /\ ~ee.str
  /\ \E m \in Modes :
       \E q \in IF m = "NORMAL" THEN NormalQwc ELSE {0} :
         ee' = [ee EXCEPT !.str = TRUE, !.mod = m, !.qwc = q, !.busy = TRUE]
  /\ pc' = IF iop.busy THEN "iop" ELSE "idle"
  /\ UNCHANGED <<fifo, iop, pending, BusyCheck>>

\* Bug: without cpuClearInt.
ForceStopOnly ==
  /\ MayStop /\ pc = "idle" /\ ee.str
  /\ ee' = [ee EXCEPT !.str = FALSE]
  /\ UNCHANGED <<fifo, iop, pending, pc, BusyCheck>>

\* DmaExec, a write of CHCR with STR = 0 while the channel runs.
ForceStop ==
  /\ MayStop /\ pc = "idle" /\ ee.str
  /\ ee' = [ee EXCEPT !.str = FALSE]
  /\ pending' = pending \ {"EE"}
  /\ UNCHANGED <<fifo, iop, pc, BusyCheck>>

sif0Interrupt ==
  /\ pc = "idle" /\ "IOP" \in pending
  /\ iop' = [iop EXCEPT !.chcr = FALSE]
  /\ pending' = pending \ {"IOP"}
  /\ UNCHANGED <<fifo, ee, pc, BusyCheck>>

EEsif0Interrupt ==
  /\ pc = "idle" /\ "EE" \in pending
  /\ ee' = [ee EXCEPT !.str = FALSE]
  /\ pending' = pending \ {"EE"}
  /\ UNCHANGED <<fifo, iop, pc, BusyCheck>>

Turn == IopTurn \/ EeTurn

Next == Turn \/ psxDma9 \/ dmaSIF0 \/ ForceStop \/ sif0Interrupt \/ EEsif0Interrupt

Spec == Init /\ [][Next]_vars

\* The tag that ends the IOP's chain comes up.
LastTag == IopTurn /\ iop'.end /\ ~iop.end

\* The emulator's thread runs on, and a chain of tags has an end.
FairSpec == Spec /\ WF_vars(Turn) /\ SF_vars(LastTag)

-----------------------------------------------------------------------------
(* Properties. *)

\* The tag is written when there is room for a word, and yet the ring of four-word
\* quadwords never overflows; nor is more read than was written.
RoomHeld == Sound(fifo)

Stream == INSTANCE SifStream WITH
            stream <- Contents(fifo), Words <- Words, Capacity <- FIFO_SIF_W

\* The FIFO is the bounded stream of words it stands for: none is lost, repeated,
\* overtaken or overwritten.
StreamRefinement == Stream!Spec

\* A word's place in the packets that are sent: v comes right after u.
Size(p) == 4 + RoundUp(p.words)
Follows(u, v) ==
  IF u.at + 1 < Size(u.packet) THEN v = [u EXCEPT !.at = @ + 1] ELSE v.at = 0

\* The word the IOP will send next, the last of the line that the EE will get.
NextSent == [packet |-> iop.packet,
             at |-> IF iop.counter = 0 THEN 0 ELSE Size(iop.packet) - iop.counter]
Line == Append(Contents(fifo), NextSent)

\* The EE finds its tags where the IOP has put them, and between two tags all the words
\* of the packet, in order: so where packets agree on their length (qwc and words).
InStep ==
  /\ IF ee.qwc = 0
     THEN Line[1].at = 0
     ELSE Line[1] = [packet |-> ee.packet, at |-> Size(ee.packet) - 4 * ee.qwc]
  /\ \A i \in 1..fifo.size : Follows(Line[i], Line[i + 1])

\* A channel whose program waits for it (STR, bit 24 of CHCR) is at work or its
\* interrupt is on the way, and no interrupt is thrown twice ("Twice-thrown int").
Accounted ==
  /\ "EE" \in pending => ee.str /\ ~ee.busy
  /\ ee.str => ee.busy \/ "EE" \in pending
  /\ "IOP" \in pending => iop.chcr /\ ~iop.busy
  /\ iop.chcr <=> iop.busy \/ "IOP" \in pending

\* The loop of SIF0Dma, which holds up the whole machine, comes to its end.
LoopEnds == pc # "idle" ~> pc = "idle"

\* What the IOP has put into the FIFO gets to an EE side that waits for it.
EeServed == pc = "idle" /\ ee.busy /\ ee.str => fifo.size < 4

\* A NORMAL transfer is over when its quadwords have been written.
NormalEnds == pc = "idle" /\ ee.busy /\ ee.str /\ ee.mod = "NORMAL" => ee.qwc > 0
=============================================================================
