------------------------------- MODULE MCDmac -------------------------------
(* Dmac with short chains and two savestates. *)
EXTENDS Dmac

MCChains == {<<"end">>, <<"cnt", "end">>, <<"irq", "end">>}

\* The state of one channel in a chain, with one tag to read.
InChain == [str |-> TRUE, mode |-> "CHAIN", tag |-> "cnt", qwc |-> FALSE,
            chain |-> <<"end">>, finished |-> FALSE]

\* One was saved with every channel queued, one with every channel running.
MCSaves ==
  {[DMAE |-> FALSE, suspended |-> FALSE, interrupt |-> {}, STAT |-> {},
    chan |-> [c \in Channels |-> InChain]],
   [DMAE |-> TRUE, suspended |-> FALSE, interrupt |-> Channels, STAT |-> {},
    chan |-> [c \in Channels |-> InChain]]}

\* LegacyDmac.cpp:375, "DMAS that were started while the DMAC was disabled": the
\* queue holds no others, after a reset either.
QueueIsOfStarts == \A c \in QueuedDMA : chan[c].str /\ c \notin interrupt

\* LegacyDmac.cpp:270, "Queue the DMA up to be started": a channel that was queued
\* when the state was saved is started when the state is loaded and the DMAC runs.
QueuedStarts ==
  Runs => \A c \in Channels : chan[c].str => c \in interrupt
=============================================================================
