# TLA+ verification of the PCSX2 core

PCSX2 emulates a PlayStation 2. This directory holds TLA+ models of the parts of
its core whose correctness depends on the order of steps, the TLC configurations
that check them on small instances, and proofs, checked by TLAPS, for every
instance. Paths below are relative to `src/pcsx2-rr/`; `PROJECT.json` maps every
definition to the lines it stands for.

1. [The system](#the-system)
2. [The models](#the-models): MTGS, suspendable threads, executor, SIF, DMA controller, timers
3. [The runs](#the-runs)
4. [The proofs](#the-proofs)
5. [What the models leave out](#what-the-models-leave-out)
6. [Disagreements with the code](#disagreements-with-the-code)
7. [Not modelled](#not-modelled)

## The system

A *core thread* interprets the emulated machine: the main processor (EE), the I/O
processor (IOP), the vector units and the DMA channels between them all take turns
on it, by the cycle counters of an event scheduler. The graphics plugin runs on a
second thread, the *MTGS thread*, fed through a ring buffer. The GUI and its
*executor thread* start, pause, reset and stop both. Threads, mutexes and
semaphores come from `common/src/Utilities`, on top of pthreads.

| Component | Source | State | Operations | What is hard, and what makes it correct |
|---|---|---|---|---|
| MTGS ring | `pcsx2/MTGS.cpp`, `GS.h` | ring of qwords, read and write positions, busy flag and mutex, signal flag and countdown, frame count and listener, three semaphores | PrepDataPacket, SendDataPacket, SendSimplePacket, PostVsyncEnd, WaitGS, ResetGS, Freeze; ExecuteTaskInThread | lock-free positions, three hand-made sleep/wake protocols. No overrun, packets whole and in order, no wake-up lost or doubled |
| Suspendable threads | `pcsx2/System/*`, `ThreadTools.cpp` | m_ExecMode, m_running, three mutexes, three semaphores, reset flags | Suspend, Pause, Resume, Reset, UploadStateCopy, Cancel; StateCheckInThread, cleanup | the mode is written by both sides without a common lock; cancellation and failure anywhere. A stopped thread is stopped, calls return |
| SIF0, SIF1 | `Sif0.cpp`, `Sif1.cpp`, `Sif.h`, `IopDma.cpp` | a FIFO of words and the state of a DMA channel on each side | start on either side, tags, transfer, end, interrupt, stop | two chains of tags that must agree; the loop gives turns by "is there work". No over- or underrun, the stream is kept, ends come once |
| EE DMA controller, scratchpad channels | `ps2/LegacyDmac.cpp`, `SPR.cpp` | CHCR of ten channels, enable and suspend bits, queued starts; spr0finished, spr1finished | register writes; a piece of work per event | a start while disabled is queued; a stop must also drop what is pending. No start is lost or made twice, no end comes early |
| Event scheduler | `R5900.cpp`, `R3000A.cpp` | pending bits, start and delay of each event, next event | CPU_INT, TESTINT, cpuSetNextEvent | wrapping cycle counts, events overwritten or frozen. What is due is tested in time |
| EE timers and vsync | `Counters.cpp` | count, mode, target and start cycle of four timers, the gates, the two blank timers, next update | writes of mode, count, target; update, gates, target, overflow | counts are computed, not stepped; a target already past, parts of a count, late updates. A timer shows what a stepped one would, and no update comes late |
| GIF paths | `Gif.cpp`, `ps2/GIFpath.cpp`, `FiFo.cpp` | path states, masks, queue | arbitration, MFIFO | three writers of one stream |
| VIF, IPU | `Vif*.cpp`, `IPU/*` | FIFOs, channel states, stalls | DMA handlers, interrupts | stalls and retries by sentinel values |
| SIO, CDVD | `Sio.cpp`, `CDVD/*` | protocol states | byte by byte commands, seeks | long protocols with delays |
| Executor, GUI | `gui/ExecutorThread.cpp`, `gui/AppCoreThread.cpp` | two event lists, a wake-up semaphore, m_Quitting; the sync objects of each scope | PostEvent, PostIdleEvent, Rpc_TryInvoke, ScopedCoreThreadClose and Pause, ShutdownQueue | a wake-up only for the first event; objects on the stack of another thread. No event is lost, an answer is true, a held scope holds |
| Memory, savestates, plugins, recompilers, interpreters | `vtlb.cpp`, `SaveState.cpp`, `PluginManager.cpp`, `x86/*`, ... | | | data and generated code rather than control |

They meet in few places. The core thread is the producer of the MTGS ring
(`GetMTGS().PrepDataPacket` from the GIF paths, `PostVsyncEnd` from the vsync). The
MTGS thread is itself a suspendable thread, and so is the core thread
(`HasPendingStateChangeRequest` looks at the MTGS for an exception). SIF0 and SIF1
are channels of the EE's and the IOP's DMA controllers, and end by events of both
schedulers, as the scratchpad channels do by events of the EE's.

`PROJECT.json` lists the hazards these parts are exposed to, each at its line with
the properties that look for it. The properties were written from that list.

## The models

### The MTGS ring: `Mtgs`, `MtgsQueue`, `MtgsRefinement`

`Mtgs` has two processes. The producer ("EE": whichever thread has the core, there
is never more than one) makes any sequence of the calls in `Calls`; the GS thread
runs `ExecuteTaskInThread`. A step is one access to a shared field, one call of a
semaphore or a mutex, or one write to the ring; `eePc` and `gsPc` say where each
thread is. So the model has every interleaving that the code has at that grain, and
none in which, say, the test of `m_RingBufferIsBusy` and the post behind it are one
step.

| Code | Model |
|---|---|
| `PrepDataPacket` | `BeginData`, the stall, `WriteTag` |
| the caller copying payload | `FillQword`, `FillDone`; `FillAbandon` where `GIFPath::CopyTag` gives up an endless packet |
| `SendDataPacket` | `SealTag`, `Publish`, `TallyPacket`, `TallyKick`, `Sent` |
| `SendSimplePacket` and its variants | `BeginSimple`, the stall, `WriteTag`, `Publish`, ... |
| `GenericStall` | `StallTest`; `StallArm` ... `StallWake` (sleeping); `SpinKick`, `Spin` |
| `PostVsyncEnd` | `BeginData` with `VsyncQwc`, ..., `VsyncKick` ... `VsyncSleep` |
| `SetEvent`, `WaitGS`, `ResetGS` | `SetEvent`; `WaitTest` ... `WaitAgain`; `ResetGS`, `ResetKick` |
| `ExecuteTaskInThread` | `GsSleep` ... `GsValvePosition`; the vsync packet releases and retakes the lock in the middle |

A qword of the ring is a tag (command and size) or payload; payload has no content.
`MtgsQueue` is the promise, a bounded FIFO of packets and the room that is left in it.
`MtgsRefinement` maps the ring to it by hopping from tag to tag from `m_ReadPos`, as the GS
thread does.

Fairness (`FairSpec`): the operating system runs both threads. The producer need not
make another call.

### Suspendable threads: `SysThread`

Any number of `Callers` control one worker, the core thread. `m_ExecMode` is read and
written by both sides, and only the callers hold `m_ExecModeMutex`, so every read and
every write of it is a step of its own. `wpc` is where the worker is: the switch of
`StateCheckInThread`, its two holding patterns, the emulation, or its cleanup.

| Code | Model |
|---|---|
| `SysThreadBase::Suspend`, `SysCoreThread::Reset` | `SuspendCheck` ... `SuspendRun`, `ResetFlags` |
| `Pause` | `PauseCheck` ... `PauseRun` |
| `Resume`, `SysThreadBase::Start`, `pxThread::Start` | `ResumeCheck` ... `ResumePost` |
| `UploadStateCopy`, `pxThread::Cancel` | `UploadCheck`, `UploadCopy`; `CancelLock`, `CancelWait` |
| `StateCheckInThread` | `StateCheck`, `SetPaused` ... `LockClosed`, `OnSuspendInThread`, `OnResumeInThread` |
| `ExecuteTaskInThread`, `_reset_stuff_as_needed` | `WorkerEvent`, `ResetAsNeeded`, `DoCpuExecute`, `ExitCpuExecute` |
| an exception, `pthread_cancel` | `TaskEnds`, `CleanupCore` ... `ThreadEnds` |

`promise` is a history variable: what the last call to return has told its caller,
as long as no other call may set the worker in motion. `Patient` says that the
callers wait for a Resume to take effect before their next call; without it a Pause
can overtake a Resume (see the disagreements).

Fairness: a thread that can run does, and a cancelled worker reaches a cancellation
point. A CPU that executes reaches a vsync, where `CheckExecutionState` is. No caller
has to begin a call and no worker has to fail.

### The executor: `Executor`, `TaskQueue`, `ExecutorRefinement`

The calls of `SysThread` are not made by the threads that want them. They post an
*event* to the executor, one thread that runs what is posted one after the other:
`Posters` are the threads that post, each any of its `Kinds`. An "async" event nobody
waits for; a "task" must not be skipped at the shutdown; an "idle" event goes to a list
of its own, for when the executor has nothing else to do; an "rpc" is waited for and
must not be skipped; and a "scope" is `ScopedCoreThreadClose` or `ScopedCoreThreadPause`:
the executor stops the core, tells the thread that posted it, and waits until that thread
leaves its scope. The scope's three objects (`m_sync`, `m_sync_resume`, `m_mtx_resume`)
lie on the stack of the thread that waits, and the executor uses them by address.

| Code | Model |
|---|---|
| `pxEvtHandler::PostEvent`, `PostIdleEvent` | `TestQuitting` (without the lock), `Push` |
| `Rpc_TryInvoke`, `PostToSysExec` | `Begin`, ..., `Returned` |
| `DoResume` of the thread that owns the scope | `LeaveScope`, `ScopeLeft` |
| `ShutdownQueue` of `ExecutorThread` and of `pxEvtHandler` | `ShutdownQueue`, `ShutdownTest`, `ShutdownSet`, `ShutdownWake`, `ShutdownJoin` |
| `ExecuteTaskInThread`, `Idle`, `ProcessEvents` | `Take`, `Drained`, `Wake`, `TestShutdown` |
| `_DoInvokeEvent`, an event that throws | `Invoke`, `CleanupEvent` |
| `_post_and_wait`, and the scope object on the executor's own stack | `EnterScope`, `LockResume`, `ScopeThrows`, `PostScope`, `HoldEnds`, `UnlockResume`, `DoResume` |

A critical section of `m_mtx_pending` is one step, as nothing else looks into the lists;
`m_Quitting` is outside it, as in the code, so that an event may still be pushed after the
shutdown. Of the core thread only `running` is left; an event may change it as its kind
allows, or throw at any point. `TaskQueue` is the promise, a queue with lazy tasks that may
be closed; `ExecutorRefinement` maps an idle event to a lazy task on whichever list it
waits, since `PostIdleEvent` uses the ordinary list while that is empty.

Fairness: the executor is scheduled, a thread in the middle of a call goes on, and a
thread leaves its scope in the end. No thread has to post anything or to quit.

### SIF: `SifFifo`, `SifStream`, `Sif0`, `Sif1`

`SifFifo` is `struct sifFifo` as a record with operators: `Write`, `Front`, `Drop`
with the two copies at the end of the ring. It checks nothing, as the code. `SifStream`
is the promise, a bounded stream of words. `Sif0` and `Sif1` model the two channels.
A word is what it means: which packet of the sender it belongs to and where in it
(`at`; 0 to 3 is the tag), so that a word of data taken for a tag is visible.

One thread runs both processors, and `SIF0Dma` / `SIF1Dma` are loops that give each
side a turn until neither moves. A turn is a step (`IopTurn`, `EeTurn`, with `pc` and
`BusyCheck` for the loop); the programs (`psxDma9`, `dmaSIF0`, `psxDma10`, `dmaSIF1`,
`ForceStop`) and the interrupts come only between two runs of the loop, in any order
and after any delay. What the programs send is `Packets`; a word that is not a tag but
is read as one may look like any.

Assumptions on the programs: the IOP starts a channel only when its last transfer is
over (bit 24 of CHCR), and a chain is started with QWC = 0. The DMAC is enabled.

Fairness: the loop goes on (`WF_vars(Turn)`), and a program's chain of tags has an end
(`SF_vars(LastTag)`): without it an endless chain keeps the loop busy for ever.

`Sif0Agreed` and `Sif1Agreed` add the history variable `agreed`: so far the two sides agreed
on every packet's length, and no transfer was stopped or hit a bad address. The tags
can be expected in their places (`InStep`) only then; all other properties are checked
without it.

### The EE DMA controller: `Dmac`

A program starts a channel by writing its CHCR; `DmaExec` begins the transfer or, while
the DMAC is disabled or suspended, puts the channel into `QueuedDMA`, and the writes
that enable the DMAC or lift the suspension start what is queued. A channel that runs
does one piece of work per event and schedules the next with `CPU_INT`. `Dmac` has the
registers, the queue, `cpuRegs.interrupt` and, for each of `Channels`, one of the two
scratchpad channels of `SPR.cpp`, which differ only in where their tags lie.

| Code | Model |
|---|---|
| `DmaExec` | `DmaExec` (a stopped channel is started), `ForceStop` (STR = 0 on a running one), `ChangeMode` (another mode, while suspended) |
| `QuickDmaExec`, `StartQueuedDMA` | `Startable`, `StartQueuedDMA` |
| `dmacWrite32`: DMAC_CTRL, DMAC_ENABLEW, DMAC_STAT | `WriteCtrl`, `WriteEnable`, `WriteStat` |
| `dmaSPR0`, `dmaSPR1`; `_dmaSPR0`, `_dmaSPR1` | `Start`; `Work`, `ReadTag` |
| `_cpuTestInterrupts`, `TESTINT`, `SPRFROMinterrupt`, `SPRTOinterrupt` | `Runs`, `Interrupt` |
| `cpuReset`; `SaveState.cpp`, `sprFreeze` | `Reset`, `Load` |

One thread does all of it, so every action is a whole handler. A transfer's QWC is zero
or not, and a chain is the sequence of tags that it has still to read: "cnt" goes on,
"irq" and "end" end it, and "past" is whatever lies behind the chain, which the channel
would take for a tag. `Requests` is what programs write: a NORMAL transfer, a chain,
a chain with a QWC of its own in front, or such a QWC under an END tag. An event may
happen at any time after it is scheduled.

Assumptions: addresses are good, neither the MFIFO nor stall control is in use, and the
suspension byte is 0 or 1. INTERLEAVE goes as NORMAL. Under suspension a program
changes the mode of a chain only, to NORMAL; the other direction would end with the
chain unread, since `spr0finished` is set already. `Saves` are states that this same
machine could have saved (`SaveAssumption`).

Fairness: the EE tests for events again and again, and `TESTINT` gets to each channel
while the DMAC runs: `WF_vars(Interrupt(c))`. No program has to write anything.

### The EE timers: `Counters`

The emulator does not step a timer. It keeps the count as of a cycle (`count`, `sCycleT`)
and computes the rest when somebody looks; `rcntUpdate` is scheduled for the first cycle
at which a timer may reach its target or overflow or the frame passes into its other part,
and the recompiled program runs, a block at a time, until the event test that is due
(`iBranchTest`). `Counters` has one timer with the two blank timers, the vertical of the
frame and the horizontal of the scanline, and both schedules (`nextCounter`,
`g_nextEventCycle`) over a counter of cycles that wraps at `CycleCount`.

The other three timers do the same work and share the schedule: one that is past its own
target writes 4 over `nextCounter` (`Counters.cpp:82`), which may bring an update forward
or put off one that was asked for, and each may then ask for an earlier one. `Others` is
what they may do (`past`, and the cycle `due` they ask for), at an update before and after
this timer in the order of `cpuRcntSet`, and at any time when the program writes one of
their registers. Other devices (the IOP, the DMAC, an interrupt) only ask for an event
test, `Delays` cycles from now.

| Code | Model |
|---|---|
| a block of the program and its `iBranchTest` | `Run` |
| `DispatcherEvent`: after an event test the next block runs without another | `tested`, `Running` |
| `cpuSetNextEventDelta` of another device | `OtherEvent` |
| `_rcntSet` of the other timers, in `cpuRcntSet` or at a write of one | `RcntSetOthers`; `OtherSet` |
| `rcntWmode`, `rcntWcount`, `rcntWtarget`; `rcntRcount` | `Wmode`, `Wcount`, `Wtarget`; `Rcount` |
| `_rcntSet`, `cpuRcntSet`, `cpuSetNextEvent` | `RcntSet`, `RcntSetAll`, `SetNextEvent` |
| `_cpuEventTest_Shared` with `rcntUpdate`, `rcntUpdate_vSync`, `rcntUpdate_hScanline` | `EventTest` with `AfterVEdge`, `Shifted`, `Updated`, `AfterHEdge` |
| `_cpuTestTarget`, `_cpuTestOverflow`, `rcntStartGate`, `rcntEndGate`, `_rcntSetGate` | `TestTarget`, `TestOverflow`, `StartGate`, `EndGate`, `SetGate` |

`ideal` is a reference: a timer that is stepped at every cycle, with the target and the
overflow tested at every count. It is started over from the timer whenever a gate or the
program puts the timer into a state that a stepped one cannot be in (stopped, already past
its target, or passing over it); from then on the two must agree whenever nothing is still
to be tested. `CountersAssumption` says what the code's numbers satisfy by far: an update
that is late, by up to the four cycles of `_rcntSet` and a block, is not late by a whole
part of a frame; an event test that is a block late is not late by a part of a scanline,
also when the rounding error has moved it; and what is scheduled (a timer that counts to
the top, a part of a frame, a scanline) is less than half of all cycles away.

A frame is not a whole number of scanlines: `vSyncInfoCalc` computes the difference
(`HSyncError`), and `rcntUpdate_vSync` moves the scanline by it once in each frame
(`Shifted`), before `rcntUpdate_hScanline` looks at the scanline. `PeriodsKept` counts the
frames and says that this is all the scanlines ever move.

One thread does all of it. There is no liveness to state: time passes when the program runs.

## The runs

Passing runs. Every property is shown to be able to fail by a mutant in
`PROJECT.json`: an operator beside the one it replaces, with a `Bug:` comment, that
changes the code the way a plausible mistake would.

| Run | Instance | What it shows |
|---|---|---|
| `mtgs_ring` | 5 qwords, packets of up to 2 qwords of payload | `RoomHeld`: the packet being built and one slot more are free. `PublishedStable`: nothing published is overwritten before it is released.  `QueueRefinement`: packets arrive whole, once, in order. `SignalHandshake`: the wake-up of a stalled producer is in exactly one place. `StallEnds`: the producer is always woken |
| `mtgs_vsync` | 5 qwords, spinning for simple packets, a queue of one frame; vsyncs, simple packets, resets | `VsyncHandshake`: at most one wake-up per wait, none left over after a reset. `FrameCount`: the count is the number of vsyncs in the ring |
| `mtgs_sync` | 4 qwords, synchronous mode, output switched on and off, Freeze and WaitGS | `SyncLockstep`: never a second packet behind the one executed |
| `sys_control` | one patient caller, all calls, a worker that may fail | `ReturnMeansSuspended`, `ResetBeforeRun`, `UploadExclusive`: what the calls promise. `CallsReturn`: while the worker lives, each returns |
| `sys_contend` | two callers at once, all calls, failure and cancellation | `SafelyPaused`: Closed and Paused are never a lie. `RunsOpen`: plugins are open and m_RunningLock is taken while the machine runs. `ResumeRuns`: a resumed thread runs |
| `sif0_channel` | FIFO of 2 quadwords, packets of 0 to 3 quadwords, both modes, stops, bad addresses | `StreamRefinement`: the FIFO is the stream. `AgreedInStep`: the EE finds its tags. `Accounted`: no end is lost or doubled. `LoopEnds` |
| `sif1_channel` | the same, with TTE | besides, `IopServed`: an IOP side that waits was given all there was. `WholeLoopEnds`: the loop ends while whole quadwords are in the FIFO |
| `dmac_channels` | two channels, chains of one or two tags, one reset or one of two savestates | `NothingLost`: a started channel has an event or is queued. `StoppedIsSilent`: a stopped one has no event. `QueuedNotBegun`: a queued one has not begun. `TagsOfChain`: no chain is read past its end. `EndsComplete`: an end is announced once all is transferred. `TransfersEnd`: every transfer ends once the DMAC runs |
| `exec_events` | two threads that post two events each, one of every kind, the other async and rpc; one may shut the executor down | `WokenForWork`: no executor sleeps over queued events. `AnswerMeansDone`: who is told of success has had the event executed, or holds the executor, or was refused at the shutdown. `ScopesHold`: no core runs behind the back of a thread in its scope, and no object of a scope that has ended is used. `TaskRefinement`: events run once, one at a time, in order. `CallsReturn`, `EventsRun`: until the shutdown every caller is answered and every event runs; the shutdown ends |
| `counters_timers` | 78 cycles that wrap, a timer that counts to 3; four modes (either clock, the ways of treating the target, a level gate of either blank), written at any time; a rounding error of one cycle in each frame; other timers and devices at any time | `NextEventInTime`: no update is scheduled after the timer's target, its overflow or an edge. `CountsAsStepped`: the timer counts and interrupts as the stepped one. `PeriodsKept`: late updates do not shift the blanks, and the rounding error shifts the scanline once in each frame. `GateFollowsBlank`: a timer gated by level counts only where its gate is open |

Runs that end in a violation are in [Disagreements with the code](#disagreements-with-the-code).

**Bounds, and why they are enough.** The rings wrap at every position with 4 or 5
slots: a packet may end at the last slot, start there, or lie across it, and full,
empty and one-below-full all occur. Two packets of vsyncs need 5. `SpinLimit` and
`TallyLimit` are set just above and below the sizes that occur, so that both branches
are taken; the code's own values are dealt with by the theorem `SpinIsDead`.
`MaxEvents` bounds the posts outstanding on `m_sem_event`, and a caller waits there
until the GS thread has taken one; the GS thread looks at the whole ring after each, so
more posts are more empty trips. `MaxTokens` bounds the posts outstanding on the two
semaphores of a worker when a call begins; stale posts accumulate in the code, and
each acts like the first. Two callers are as many as a mutex tells apart, and the
proofs are for any number. In the SIF a FIFO of 2 quadwords is shorter than a packet,
so every packet is cut and every side waits for the other; a chain may be as long as
it likes. In `Dmac` two tags are enough for a chain to be stopped, suspended, changed or
saved half way, and to end before its last tag; one restart after any history is what the
properties about restarts speak of, and two channels share the queue. In `exec_events` two
events of each of two threads are enough for both lists to be filled while an event runs,
for a scope with others queued behind it, and for a shutdown at any point of it;
`MaxEvents` bounds them. In `counters_timers` the counter of cycles wraps every
six frames; the frame (13 cycles) and the scanline (6) divide the 78 cycles, so that
`PeriodsKept` can be said with a remainder. The two scanlines of a frame are one cycle shorter
than it, and the error, put right, keeps them where they are in the frame. The same
instance with an error of -1 (108 cycles, frames of 6 and 6, scanlines of 6 and 3, three half
ones in each) has been run by hand up to 1.5 million states, not to the end, without a violation.
`Others` is either nothing before the vertical blank, or a timer that is past its target with
one that wants an update a cycle before the four that leaves, and `Delays` asks for an event
test in the middle of a scanline; the theorems are for any, and for the gates by edge too. `MaxBlock` is how late an update may come; `MaxCount` ends a behaviour in which the timer is never tested any more (a gate that
stops it before every update, or a program that writes its mode at every block).
The run has a `VIEW`, `Relative`: two states that differ only by when they happen, or by
the parity of interrupts that both timers have raised, are one; so are two in which a
timer that is stopped has another `sCycleT`, which is written before it counts again, or in
which the event test that is due has been due for longer. Every action and every
invariant is a function of differences of cycles and of the place in the frame and the
scanline, so no state is missed.

What is proved of every instance is not run again: the type invariants, `RoomHeld` of the
SIF, `GsOnTag`, `StallAsserts`, `StartAsserts` and `HaltedIsStill`.

**Deadlock** is checked in `mtgs_ring`, `mtgs_sync`, both SIF runs, `dmac_channels` and
`counters_timers`.
It is not checked in `mtgs_vsync`, where the vsync hang below and a spin that kicks
once are real stops, nor in the `SysThread` runs, where the hangs below, `MaxTokens`
and callers that never call again stop the system, nor in `exec_events`, which comes to
rest when all events are posted.

## The proofs

| Module | Theorems | Argument |
|---|---|---|
| `MtgsProofs` | `TypeCorrect`, `RoomIsHeld`, `GsReadsPackets`, `PublishedIsStable` | `RingInv`, below |
| | `SignalIsHandshake`, `StallAssertsHold` | `SignalInv`: the token count and the values of the flag and countdown at each place |
| | `VsyncIsHandshake` | inductive with `TypeOK` |
| | `SyncIsLockstep` | `SyncInv`: in synchronous mode the ring holds at most the one packet whose sender waits for it |
| | `PacketsAreWhole`, `FramesAreCounted` | `BodyInv` and `FrameInv`, below |
| | `ImplementsQueue` | `QueueInv` and `ParseRight`, below |
| | `SpinIsDead` | arithmetic of `SomeDone`: with a ring of more than 5 * SpinLimit + 2 qwords, as in the code (2^19 against 0x80), a stall never spins |
| `SysThreadProofs` | `SysTypeCorrect`, `CallersExclude`, `ModeIsSafe`, `RunsOnlyOpen`, `StartAssertsHold` | `SysInv`, below |
| | `ReturnedMeansSuspended`, `ResetFirst`, `UploadsExclusive` | `SoleInv`, below, of a patient only caller |
| `SifFifoProofs` | lemmas: what `Write` and `Drop` do to soundness, to `Contents` and to words that lie in line | the two copies, slot by slot |
| `Sif0Proofs`, `Sif1Proofs` | `TypeCorrect`, `RoomIsHeld`, `ImplementsStream`, `ChannelsAccounted` | parity of the words in the FIFO, below |
| `Sif0Proofs` | `EeStaysInStep` | `AgreedInv`, below |
| `Sif1Proofs` | `IopStaysInStep`, `IopIsServed` | `AgreedInv` and `ServedInv`, below |
| `DmacProofs` | `TypeCorrect`, `NoStartLost`, `StopClearsEvent`, `QueueFresh`, `ChainBounded`, `EndsAreComplete`, `HaltHolds` | `Inv`, below |
| `ExecutorProofs` | `ExecutorTypeCorrect`, `NoEventOverlooked`, `AnswersAreTrue`, `ScopesAreSafe` | `IInv`, below |
| | `ImplementsTaskQueue` | `IInv` and `IdlePlaced`: each step is one of the queue's or none, below |
| `CountersProofs` | `GatedTimersFollow` | `GateInv`: the property itself is inductive, once the record of the timer has its fields |
| | `EventsInTime`, `CountersTypeCorrect` | `TimeInv`, below |

**RingInv** is needed because `GsOnTag` alone is not inductive: that the *next* packet
is whole follows only from the whole chain of packets. `ChainInv` says so without
recursion: every published slot that holds a tag is followed, one `PacketLength`
further, by another tag or by `m_WritePos`, and the slot at `m_ReadPos` holds a tag
unless the ring is empty. `FillInv` and `SealInv` describe the packet under construction
behind `m_WritePos`, `GsInv` ties `inc` to the packet being executed. The position
arithmetic is in the first eight lemmas.

**BodyInv** says what lies behind the tags: in every published packet the qwords after
the first are payload. With it a vsync packet comes and goes as exactly one slot of
`Unread`, so that `FrameInv` can count `Vsyncs` by their cardinality through `Publish`
and `GsAdvance`. `FramesAreCounted` assumes that output is never disabled; with
`DisableOutput` it is false (`MCMtgs_count_off`).

`ImplementsQueue` keeps recursion out of the steps. `Holds(q, p, ...)` says that the unread
slots hold the packets `q`, the i-th one at the place `p[i]`; that there are such `q` and
`p` is inductive (`QueueInv`), and a `Publish` appends to `q`, a `GsAdvance` takes its head,
a `GsDrop` empties it, and any other step leaves it. Only `ParseRight`, that the recursive
`Parse` of the mapping reads `q`, is about recursion, and of any one state. That a function
as `Parse` exists, and what it reads, follows from `Least`: a set of naturals that is not
empty has a least element (`WFMin` and `NatLessThanWellFounded` of the library), here the
first distance from which the equation of `Parse` has no solution, or reads wrong.

**SysInv** is mutual exclusion on `m_ExecModeMutex` (`MutexInv`), and for each place of
the worker what it knows: whether it has `m_RunningLock`, whether its plugins are open,
and which modes it can find. `FirstInv` is the heart: until its first close a new
worker's mode is Closing because the caller that started it still holds the mutex. It
holds for any set of callers.

**SoleInv** is what the caller knows of the worker, which only a caller that is alone and
patient can know: from where a call finds the machine stopped to the next Resume the
worker is in a holding pattern or cleaned up (`Stopped`), whatever else fails. `CallInv`
says so at each place of a call, `AnswerInv` that a post of `m_sem_ChangingExecMode` is
for the Suspend that waits, `PromiseInv` and `ResetInv` between calls. With two callers,
or with an impatient one, all three promises are false (`MCSysThread_early`).

**SIF.** A side may write four words when it has seen room for one. It is safe because
what is in the FIFO is a multiple: of four words in SIF0, whose packets are rounded up
(`QuadInv`), and of two in SIF1 with TTE, which adds half a quadword per tag (`EvenInv`);
the latter needs the assumption `EvenCounts`, that a program that uses TTE counts even
numbers of words, and without it the FIFO can be overrun. `ImplementsStream` maps each
step to a `Send`, a `Receive` or a stutter.

**AgreedInv** is for the two sides of SIF what `ChainInv` is for the ring. `Line` is what
is in the FIFO and, after it, the word the sender writes next; `InLine` says of it,
without recursion, that packets follow one another whole: a word that is not the last of
its packet is followed by the next, and the last one by a tag. `AgreedInv` adds that the
word at the head is the one the receiver is after. The lemmas on `InLine` are in
`SifFifoProofs`, once for both directions. **ServedInv** ties the loop to `IopServed`: an
EE side that has not moved in a round is over, or finds the FIFO full.

**Dmac.** No property of a channel is inductive alone, since the next event acts on the
chain, the tag and the finished flag together. `Inv` adds to the properties what a channel
knows while it has an event: it is started (or stopping would leave the event), a finished
chain was read up to a tag that ends it (`EndRead`), and an unfinished one still has its
last tag (`Going`; `Asked` while it is queued), so that the next piece of work reads no
tag from behind the chain.
`WorkLemma` and its companion for `Start` say what a piece of work does to these; each
action is then a lemma. Nothing is assumed of the length or the number of chains. After a
restart the queue may be stale, so `QueueFresh` and `ChainBounded` speak of the time before
one and `NoStartLost` of the time before a state is loaded; `StopClearsEvent`,
`EndsAreComplete` and `HaltHolds` hold in every session.

**Executor.** That an answer is true needs that nobody else's event is answered in its
place: `IInv` says that the events that are still to be executed, wherever they are, have
different ids (`LiveApart`) and that nothing has become of them yet (`LiveUntold`); that
whoever posted one that is to be answered is waiting for exactly it (`OwnersWait`); and
for a scope that was granted, that its owner is inside it, or leaving it, until
`m_mtx_resume` is free (`Granted`). `ToBeSeen` is what makes one post of `m_wakeup`
enough: while events are queued, the executor is on its way to the list they are in, or
has a post still to take. It holds for any number of threads, of which each may post any
kind, and any may quit.

`ImplementsTaskQueue` maps a `Push` to `Accept`, a test that finds the executor quitting to
`Refuse`, a `Take` to `Start` or `Skip`, the end of an event to `Finish`, `ShutdownSet` to
`Close` and the rest to a stutter. An event on neither list is not yet `Known` because its
id is its own (`LiveApart`) and nothing has become of it (`LiveUntold`); that an idle event
never holds up an ordinary one needs `IdlePlaced`: among the pending ones it is the first.

**Counters.** `NextEventInTime` compares variables that wrap, and no order of them is
inductive. `TimeInv` says that there are integers that do not wrap (the current cycle, the
last update, the next event test, the start of the part of the frame and of the scanline) of
which the variables are the remainders (`Cycles`), in the order the schedule means
(`Scheduled`); and that the timer has been counting since a cycle not long before the last
update, and reaches what is to be tested no earlier than the next one (`TimerInTime`). The
lemmas `Distance`, `Signed` and `Elapsed` then turn every signed or unsigned difference of
the code into the one of the integers, because both are less than half of all cycles apart
(`Near`): that is what `CountersAssumption` is for, and where the code depends on it.
`SetTime` does this for the three writes, `OtherSetTime` and `OtherEventTime` for what other
timers and devices ask, `HandledTime` for an update, `EventTestTime` for the whole event
test; `VerticalTime` and `HorizontalTime` say that no part of a frame or of a scanline is ever
skipped, the second also when the rounding error moves the scanline, which may then start a
little after the current cycle (`Started`). Of the other timers only `RcntSetOthersIs` is
used: after them `nextCounter` is 4 or less, or no more than it was.
That the stepped timer keeps its types, which `CountersTypeCorrect` needs, is said of the
recursive function of `IdealAfter` as for `Parse` above (`SteppedExists`).

Assumptions are the ones named in the modules (`MtgsAssumption`, `SysThreadAssumption`,
`FifoAssumption`, `PacketAssumption`, `ProgramAssumption`, `ChainAssumption`,
`SaveAssumption`, `BoundAssumption`, `ExecutorAssumption`, `CountersAssumption`,
`ModesAssumption`), and TLC evaluates each. Some theorems assume more, in their own
statement: `SpinIsDead` the size of the ring, `FramesAreCounted` that output is never
disabled, the three promises of calls one patient caller, those of `Sif1Proofs` the
`EvenCounts` above. Each of these is what a configuration that is
checked, or the code's own constants, satisfies.

Only model-checked: the liveness properties (`StallEnds`, `CallsReturn` of both
`SysThread` and `Executor`, `ResumeRuns`, `LoopEnds`, `WholeLoopEnds`, `TransfersEnd`,
`EventsRun`), which are beyond TLAPS; `CountsAsStepped`, which is true only where a timer
reaches its target once before the next event test (one test catches up with one hit, so a
block of the program longer than that makes it false), and speaks of a recursion over
cycles; `PeriodsKept`, which counts frames by the cycle number and so is true only of periods that
divide `CycleCount`, as those of the run do and the code's do not: beyond the first 2^32
cycles it would have to be said of sums instead of cycle numbers.

## What the models leave out

- `Mtgs`: the plugin, the payload, MTGS start-up and shutdown, the exception that
  `WaitGS` rethrows, `SendPointerPacket` of other commands than Freeze (the same code).
  Shared fields are sequentially consistent, as on x86 with the code's volatile and
  interlocked accesses.
- `SysThread`: Pause's two reads of `m_ExecMode` (`SysThreadBase.cpp:132`, 138) are one step:
  together they find what one of them alone would, unless a Suspend turns Paused into Closed
  between them, and then Pause looks again under the mutex. A second caller that resumes
  between the test and the load of `UploadStateCopy`.
  The 3 s limit of `pxThread::Start`; `AreLoaded() == false`; settings;
  deadlock detection and event-processing waits of the GUI build of `Mutex` and
  `Semaphore`. `OnStartInThread` is one step, as no caller looks in between.
- SIF: SIF2, the SBUS_F240 bits, `sifFreeze`, reset in the middle of a transfer, start
  while the DMAC is disabled.
- `Dmac`: the eight other channels, which go through the same queue; the masks of
  DMAC_STAT and the exception it raises; due times.
- `Executor`: a wait of the GUI thread lets messages through (`Semaphore.cpp:82-103`), so
  that the GUI could post again from inside a wait; a second scope inside the first, which
  the code lets do nothing, and a Close inside a Pause; the cancellation of the executor.
  An event pushed between the last look into the lists (`ExecutorThread.cpp:545`) and the
  test of `m_Quitting` (546) stays there for ever, although 164-169 say that critical
  events are still processed; idle events are left at the shutdown too. `CallsReturn` says "or
  m_Quitting" for that reason. A refused scope looks to its owner like one that was granted
  (`PostEvent` posts an empty result): `CoreHeld` excepts it.
  In the run the thread that may quit is the one that opens scopes, so that no shutdown comes
  while a scope is held; the theorems have any number of quitters.
- `Counters`: the hold registers, video modes (a change of them also changes the error),
  `rcntFreeze`, performance counters, and the clocks other than the ones in `Rates`. Four oddities of the code are in the
  model and no property is about them: a timer switched from hblank to the bus clock keeps the
  `sCycleT` of its last update; a write that leaves a timer past its target postpones the next
  update to four cycles after the last one, even when the vertical blank is due before, and sets
  no event (`Counters.cpp:80-84`; `Soon` in `NextEventInTime`); a gate that closes (`rcntEndGate`,
  mode 0) tests neither target nor overflow; and `_rcntSetGate` resets the count but leaves the bit
  that says the target is to be passed over. `GateFollowsBlank` takes the part in which a
  level gate is open from the code, the vertical blank but the part of a scanline outside its
  blank; it does not confirm `Counters.h:34`, which has one rule for both.
- Every other component is listed with its reason in `PROJECT.json`.

## Disagreements with the code

Each is stated as a property, from what a comment or an assertion says, and TLC finds
a behaviour of the model that violates it.

| Run | Property | What happens |
|---|---|---|
| `mtgs_wait_hangs` | `WaitReturns` | `WaitGS` sees the busy flag of a GS thread that has found the ring empty but not yet released its lock; `SetEvent` posts nothing, and the packet just sent is waited for, for ever |
| `counters_edge` | `CountsFromEdge` | a timer that a gate starts is "reset and start counting at the signal's edge" (`Counters.h:35-37`), but the gates are given the cycle at which the part of the frame that *ends* at the edge began, so the timer is that much ahead |

Further ones have a configuration to be run by hand, `tlc -config X.cfg M`:

| Configuration | Property | What happens |
|---|---|---|
| `MCMtgs_vsync_hangs` | `VsyncWakes` | between the frame count and the listener flag in `PostVsyncEnd` the GS thread empties the ring and sleeps; nobody posts `m_sem_Vsync` |
| `MCMtgs_vsync_stranded` | `VsyncStartsGS` | "Vsyncs should always start the GS thread", but the tally is 0 while the busy flag is up |
| `MCMtgs_count_off` | `FrameCount` | with DisableOutput the vsyncs leave the ring but not the count |
| `MCSysThread_early` | `ReturnMeansSuspended` | a Pause directly after a Resume finds `m_RunningLock` still free, returns, and the machine then runs |
| `MCSysThread_change` | `ChangeAnswered` | a Suspend that meets another caller's Pausing waits for an answer that is given only to Paused, with the mutex held |
| `MCSysThread_assume` | `SuspendAssumes` | the worker closes before Suspend's `pxAssumeDev( m_ExecMode == ExecMode_Closing )` |
| `MCSysThread_dead` | `NoThreadMode` | Pause overwrites the mode of a worker that has just failed; no Resume starts it again |
| `MCSif0_asleep` | `EeServed` | an EE transfer started after the IOP's has ended is not given what is in the FIFO |
| `MCSif0_normal` | `NormalEnds` | a NORMAL transfer whose last quadword empties the FIFO never ends |
| `MCSif1_uneven` | `LoopEnds` | one to three words of room count as work for an EE side that moves whole quadwords: `SIF1Dma` spins for ever |
| `MCSif1_rounding` | `InStep` | after a count that is no multiple of four the filler is taken for a tag |
| `MCSif1_stop` | `FreshStart` | a stopped chain leaves `ee.end`, and the next chain ends before its first tag |
| `MCDmac_reset` | `QueueIsOfStarts` | "DMAS that were started while the DMAC was disabled": a reset leaves the queue, and the next transfer of the channel is begun a second time |
| `MCDmac_load` | `QueuedStarts` | "Queue the DMA up to be started": the queue is in no savestate, and a channel that was queued when it was saved is never started |
| `MCExecutor_resume` | `ResumeOnlyIfAllowed` | the destructor of a scope "does *not* unroll the suspend operation" (`AppCoreThread.h:201-208`), but the executor's own scope object allows the resume whatever the owner answered (`AppCoreThread.cpp:501`, 526) and `DoResume` does not look at it (575) |
| `MCCounters_schedule` | `SetAfterGate` | "They'll get set when control returns to rcntUpdate" (`Counters.cpp:645`), but the hblank gates are opened from `_cpuEventTest_Shared` (`R5900.cpp:371`), after rcntUpdate; the timer's target can pass unnoticed until some other update |

## Not modelled

The order of the work was the order of what threads and processors can do to each other:
the ring, the suspendable threads, SIF, the DMA controller, the executor, the timers.
What is left has its reason here, and in `PROJECT.json` with its files.

- **GIF paths, VIF, IPU and the MFIFO.** Their control depends on their data: how many
  quadwords a packet has left, how much the decoder takes. A faithful model carries the
  decoding along, and a model without it is free to do what the code never does.
- **SIO, memory cards, CDVD.** One thread, one command after another, and a reference that
  is the console itself. Nothing in the sources says what would be right.
- **IOP.** Its counters are built as the EE's, its DMA as SIF's; the BIOS calls are data.
- **Threading primitives.** Mutexes and semaphores are those of pthreads. `BaseTaskThread`
  and the reader-writer lock have subtle protocols, but no code uses them.
- **Savestates, plugin management, user interface, patches, ELF loader, debugger.** Layout,
  loading, parsing, input and output.
- **Recompilers, interpreters, the plugins themselves.** Generated code, the semantics of
  instructions, and programs of their own behind a C interface.

What could be added to the models there are: `Sif0` and `Sif1` on top of `Dmac`, so that
"the DMAC is enabled" is no longer assumed; the calls of `SysThread` as the bodies of
`Executor`'s events; and of the timers, all four at once.
