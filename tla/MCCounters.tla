----------------------------- MODULE MCCounters -----------------------------
(* The modes the program may write, for the runs of TLC. *)
EXTENDS Counters

Free(rate, zero, target) ==
  [StoppedMode EXCEPT !.rate = rate, !.IsCounting = TRUE, !.ZeroReturn = zero,
                      !.TargetInterrupt = target, !.OverflowInterrupt = TRUE]

Gated(vblank, mode, target) ==
  [Free(2, TRUE, target) EXCEPT !.EnableGate = TRUE, !.vblankGate = vblank,
                                 !.GateMode = mode]

\* Either clock, every way to treat the target, and the gates by level.
MCTimers == {Free(0, TRUE, TRUE), Free(2, FALSE, TRUE), Gated(FALSE, 0, TRUE),
             Gated(TRUE, 0, FALSE)}

\* Other timers that want nothing before the vertical blank, and one that is
\* past its target and wants the next update sooner than that leaves it.
MCOthers == {[due |-> 20, past |-> FALSE], [due |-> 3, past |-> TRUE]}

\* What a state is apart from the time it is reached at: cycles matter by their
\* distance from the current one, and the blanks by their place in a period;
\* the interrupts of the timer by their difference from those of the ideal.  A
\* timer that is stopped gets a new sCycleT before it counts, and an event test
\* that is due is no more so if it has been for long.
Relative ==
  <<U32(cycle - nextsCounter), nextCounter, Max2(UntilEvent, 0),
    [counter EXCEPT !.sCycleT = IF counter.mode.IsCounting THEN Age(counter) ELSE 0,
                    !.out.irq = ideal.follows /\ @ # ideal.out.irq],
    gates, [ideal EXCEPT !.out.irq = FALSE],
    vsync.blank, U32(cycle - vsync.sCycle), vsync.sCycle % (VRender + VBlank),
    hsync.blank, U32(cycle - hsync.sCycle),
    (hsync.sCycle - Frames * HSyncError) % (HRender + HBlank), tested>>
=============================================================================
