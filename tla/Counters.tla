------------------------------ MODULE Counters ------------------------------
(***************************************************************************)
(* One of the four EE timers (pcsx2/Counters.cpp) with the two blank       *)
(* timers, and the part of the event test that runs them (R5900.cpp).  The *)
(* other timers share the schedule with it, and so do other devices.       *)
(*                                                                         *)
(* A timer is not stepped: count is as of cycle sCycleT, and rcntUpdate is *)
(* scheduled for the first cycle at which anything may happen.  The        *)
(* program runs in blocks of cycles, at the end of which an event test is  *)
(* run if one is due; it writes the timer's registers between two blocks.  *)
(*                                                                         *)
(* Beside the timer runs ideal, a timer that is stepped at every cycle.    *)
(***************************************************************************)
EXTENDS Integers, FiniteSetsExt

CONSTANTS
  CycleCount,       \* cycles are counted modulo this (2^32)
  Top,              \* the timer counts from 0 to Top - 1 (16#10000)
  Rates,            \* cycles for each count of the bus clocks (2, 32, 512)
  VRender, VBlank,  \* the two parts of a frame, in cycles
  HRender, HBlank,  \* and of a scanline
  HScanlines,       \* hScanlinesPerFrame, of which a frame here has half
  WaitCycles,       \* eeWaitCycles
  MaxBlock,         \* bound: cycles of a block of the program
  MaxCount,         \* bound: no time passes once the timer shows more
  Others,           \* what other timers may ask of the next update
  Delays,           \* how soon other devices may want an event test
  Modes,            \* the modes the program writes
  Targets, Counts   \* and its targets and counts

\* vSyncInfoCalc: the cycles by which a frame is longer than its scanlines.
HSyncError == (VRender + VBlank) - ((HRender + HBlank) * HScanlines) \div 2

ASSUME CountersAssumption ==
  /\ CycleCount \in Nat \ {0} /\ CycleCount % 2 = 0
  /\ Top \in Nat \ {0}
  /\ Rates \subseteq Nat \ {0} /\ Rates # {}
  /\ {VRender, VBlank, HRender, HBlank, WaitCycles, MaxBlock} \subseteq Nat \ {0}
  /\ {MaxCount, HScanlines} \subseteq Nat
  \* An update four cycles late is not a whole part of a frame late, nor is the
  \* scanline that the rounding error has put off; an event test that is a block
  \* late is not a part of a scanline late; and what is scheduled is less than
  \* half of all cycles away.
  /\ \A v \in {VRender, VBlank} : 4 + MaxBlock <= v
  /\ 4 + MaxBlock + HSyncError <= VBlank
  /\ \A h \in {HRender, HBlank} :
       /\ -HSyncError <= h - MaxBlock /\ MaxBlock <= h
       /\ WaitCycles + h + MaxBlock < CycleCount \div 2
       /\ \A v \in {VRender, VBlank}, r \in Rates, e \in {0, -HSyncError} :
            Top * r + v + h + e + 2 * MaxBlock < CycleCount \div 2
  \* Another timer is late by less than a count of its own.
  /\ Others \subseteq [due : Int, past : BOOLEAN]
  /\ \A o \in Others : \E r \in Rates : -o.due < r
  /\ Delays \subseteq Nat
  /\ Targets \subseteq 1..Top - 1 /\ Counts \subseteq 0..Top - 1

VARIABLES
  cycle,            \* cpuRegs.cycle
  g_nextEventCycle, nextsCounter, nextCounter,
  counter,          \* counters[i]; the future bit of its target apart
  gates,            \* the bit of this timer in gates
  hsync, vsync,     \* hsyncCounter, vsyncCounter
  tested,           \* the event test has just run, and a block will follow
  ideal             \* the stepped timer

vars == <<cycle, g_nextEventCycle, nextsCounter, nextCounter, counter, gates,
          hsync, vsync, tested, ideal>>

U32(x) == x % CycleCount
S32(x) == IF U32(x) < CycleCount \div 2 THEN U32(x) ELSE U32(x) - CycleCount
Min2(a, b) == IF a < b THEN a ELSE b
Max2(a, b) == IF a < b THEN b ELSE a

\* rate 0 stands for the hblank clock.
Mode == [rate : Rates \cup {0}, IsCounting : BOOLEAN,
         EnableGate : BOOLEAN, vblankGate : BOOLEAN, GateMode : 0..3,
         ZeroReturn : BOOLEAN, TargetInterrupt : BOOLEAN,
         OverflowInterrupt : BOOLEAN]

ASSUME ModesAssumption == Modes \subseteq Mode

\* Reached flags, and the parity of the interrupts raised.
Outcome == [TargetReached : BOOLEAN, OverflowReached : BOOLEAN,
            irq : BOOLEAN]

TypeOK ==
  /\ cycle \in 0..CycleCount - 1
  /\ g_nextEventCycle \in 0..CycleCount - 1
  /\ nextsCounter \in 0..CycleCount - 1 /\ nextCounter \in Int
  /\ counter.count \in Nat /\ counter.target \in 0..Top - 1
  /\ counter.future \in BOOLEAN /\ counter.sCycleT \in 0..CycleCount - 1
  /\ counter.mode \in Mode /\ counter.out \in Outcome
  /\ gates \in BOOLEAN
  /\ hsync.blank \in BOOLEAN /\ hsync.sCycle \in 0..CycleCount - 1
  /\ vsync.blank \in BOOLEAN /\ vsync.sCycle \in 0..CycleCount - 1
  /\ tested \in BOOLEAN
  /\ ideal.follows \in BOOLEAN /\ ideal.count \in Nat /\ ideal.phase \in Nat
  /\ ideal.out \in Outcome

StoppedMode ==
  [rate |-> Min(Rates), IsCounting |-> FALSE, EnableGate |-> FALSE,
   vblankGate |-> FALSE, GateMode |-> 0, ZeroReturn |-> FALSE,
   TargetInterrupt |-> FALSE, OverflowInterrupt |-> FALSE]
NoOutcome == [TargetReached |-> FALSE, OverflowReached |-> FALSE, irq |-> FALSE]

\* The stepped timer while it does not follow.
Stopped == [follows |-> FALSE, count |-> 0, phase |-> 0, out |-> NoOutcome]

\* CycleT of a blank timer: it has the length of the part it is in.
VCycleT(v) == IF v.blank THEN VBlank ELSE VRender
HCycleT(h) == IF h.blank THEN HBlank ELSE HRender

\* rcntInit
Init ==
  /\ cycle = 0
  /\ counter = [count |-> 0, target |-> Top - 1, future |-> FALSE,
                sCycleT |-> 0, mode |-> StoppedMode, out |-> NoOutcome]
  /\ gates = FALSE
  /\ hsync = [blank |-> FALSE, sCycle |-> 0]
  /\ vsync = [blank |-> FALSE, sCycle |-> 0]
  /\ nextsCounter = 0 /\ nextCounter = VRender
  /\ g_nextEventCycle = Min2(HRender, VRender)
  /\ tested = FALSE
  /\ ideal = Stopped

-----------------------------------------------------------------------------
(* The timer, evaluated at the current cycle *)

Bus(k) == k.mode.IsCounting /\ k.mode.rate # 0
Age(k) == U32(cycle - k.sCycleT)

\* rcntRcount
Rcount(k) == IF Bus(k) THEN k.count + Age(k) \div k.mode.rate ELSE k.count

\* Bug: sCycleT moves to the current cycle, and the part of a count is lost.
FoldedWhole(k) ==
  IF Bus(k) THEN [k EXCEPT !.count = Rcount(k), !.sCycleT = cycle] ELSE k

\* The counts since sCycleT are put into count, and sCycleT moves by them.
Folded(k) ==
  IF Bus(k) THEN [k EXCEPT !.count = Rcount(k),
                           !.sCycleT = U32(cycle - (Age(k) % k.mode.rate))]
            ELSE k

Irq(out) == [out EXCEPT !.irq = ~@]

\* Bug: the target also resets the timer when its interrupt is disabled.
TestTargetAlwaysResets(k) ==
  IF k.future \/ k.count < k.target THEN k
  ELSE IF k.mode.ZeroReturn THEN [k EXCEPT !.count = @ - k.target]
  ELSE [k EXCEPT !.future = TRUE]

\* _cpuTestTarget
TestTarget(k) ==
  IF k.future \/ k.count < k.target THEN k
  ELSE IF ~k.mode.TargetInterrupt THEN [k EXCEPT !.future = TRUE]
  ELSE LET hit == [k EXCEPT !.out = [Irq(@) EXCEPT !.TargetReached = TRUE]]
       IN  IF k.mode.ZeroReturn THEN [hit EXCEPT !.count = @ - k.target]
                                ELSE [hit EXCEPT !.future = TRUE]

\* Bug: an overflow does not enable the target again.
TestOverflowKeepsFuture(k) ==
  IF k.count < Top THEN k
  ELSE [k EXCEPT !.count = @ - Top]

\* _cpuTestOverflow
TestOverflow(k) ==
  IF k.count < Top THEN k
  ELSE [k EXCEPT !.count = @ - Top, !.future = FALSE,
                 !.out = IF k.mode.OverflowInterrupt
                         THEN [Irq(@) EXCEPT !.OverflowReached = TRUE] ELSE @]

\* cpuSetNextEvent
SetNextEvent(event, start, delta) ==
  IF S32(event - start) > delta THEN U32(start + delta) ELSE event

\* Bug: count is taken to be of the current cycle, though it is older.
UntilCountFromNow(k, limit, nexts) ==
  S32((limit - k.count) * k.mode.rate + U32(cycle - nexts))

\* The cycles from nexts until the timer counts to limit.
UntilCount(k, limit, nexts) ==
  S32((limit - k.count) * k.mode.rate - Age(k) + U32(cycle - nexts))

\* _rcntSet: when the next update and the next event test are to be.
RcntSet(k, nexts, next, event) ==
  IF ~Bus(k) THEN [next |-> next, event |-> event]
  ELSE IF k.count > Top \/ (~k.future /\ k.count > k.target)
       THEN [next |-> 4, event |-> event]
  ELSE LET due == Min({UntilCount(k, Top, nexts)} \cup
                      IF k.future THEN {} ELSE {UntilCount(k, k.target, nexts)})
       IN  IF due < next
           THEN [next |-> due, event |-> SetNextEvent(event, nexts, due)]
           ELSE [next |-> next, event |-> event]

\* _rcntSet of some of the other timers: the last of them that is past its own
\* target puts the next update off, or forward, to four cycles after the last,
\* and those after it may want it sooner.
RcntSetOthers(o, nexts, r) ==
  LET next == IF o.past THEN 4 ELSE r.next
  IN  IF o.due < next
      THEN [next |-> o.due, event |-> SetNextEvent(r.event, nexts, o.due)]
      ELSE [next |-> next, event |-> r.event]

-----------------------------------------------------------------------------
(* The gates: the timer starts or stops at the edge of a blank *)

Restarted(k, start) ==
  [k EXCEPT !.mode.IsCounting = TRUE, !.count = 0, !.future = FALSE,
            !.sCycleT = start]

AtGate(k, vblank) == gates /\ k.mode.vblankGate = vblank

\* rcntStartGate; the hblank clock ticks here.
StartGate(k, vblank, start) ==
  LET n == IF ~vblank /\ k.mode.IsCounting /\ k.mode.rate = 0
           THEN TestOverflow(TestTarget([k EXCEPT !.count = @ + 1])) ELSE k
  IN  IF ~AtGate(k, vblank) THEN n
      ELSE CASE k.mode.GateMode = 0 ->
                  [n EXCEPT !.mode.IsCounting = TRUE, !.sCycleT = start]
             [] k.mode.GateMode = 2 -> n
             [] OTHER -> Restarted(n, start)

\* rcntEndGate
EndGate(k, vblank, start) ==
  IF ~AtGate(k, vblank) THEN k
  ELSE CASE k.mode.GateMode = 0 ->
              [k EXCEPT !.count = Rcount(k), !.mode.IsCounting = FALSE,
                        !.sCycleT = start]
         [] k.mode.GateMode = 1 -> k
         [] OTHER -> Restarted(k, start)

\* _rcntSetGate, of the mode just written.
GateEnabled(k) == k.mode.EnableGate /\ (k.mode.vblankGate \/ k.mode.rate # 0)

\* Bug: the timer goes on counting until the edge.
SetGateKeepsCounting(k) ==
  IF GateEnabled(k) THEN [k EXCEPT !.count = 0, !.sCycleT = cycle] ELSE k

SetGate(k) ==
  IF GateEnabled(k)
  THEN [k EXCEPT !.mode.IsCounting = FALSE, !.count = 0, !.sCycleT = cycle]
  ELSE k

-----------------------------------------------------------------------------
(* The stepped timer *)

\* It reaches the target, or the top.
IdealHit(d) ==
  IF d.count = counter.target /\ counter.mode.TargetInterrupt
    THEN [d EXCEPT !.out = [Irq(@) EXCEPT !.TargetReached = TRUE],
                   !.count = IF counter.mode.ZeroReturn THEN 0 ELSE @]
  ELSE IF d.count = Top
    THEN [d EXCEPT !.count = 0,
                   !.out = IF counter.mode.OverflowInterrupt
                           THEN [Irq(@) EXCEPT !.OverflowReached = TRUE] ELSE @]
  ELSE d

IdealStep(d) ==
  IF ~d.follows THEN d
  ELSE IF d.phase + 1 < counter.mode.rate THEN [d EXCEPT !.phase = @ + 1]
  ELSE IdealHit([d EXCEPT !.phase = 0, !.count = @ + 1])

IdealAfter(b) ==
  LET d[i \in 0..b] == IF i = 0 THEN ideal ELSE IdealStep(d[i - 1]) IN d[b]

\* The timer has reached the target or the top, and it has not been tested.
Outstanding(k) == Bus(k) /\ (Rcount(k) >= Top \/ (~k.future /\ Rcount(k) >= k.target))

\* A gate has set the count back, and the target is still to be passed over
\* until the timer overflows: _rcntSetGate and a gate that counts leave the bit.
PassesOver(k) == k.future /\ Rcount(k) < k.target

\* The stepped timer is started over from the timer, as soon as it counts the
\* bus clock, nothing is outstanding and the target is not passed over.
IdealOf(k) ==
  IF ~Bus(k) \/ Outstanding(k) \/ PassesOver(k) THEN Stopped
  ELSE [follows |-> TRUE, count |-> Rcount(k), out |-> k.out,
        phase |-> Age(k) % k.mode.rate]

-----------------------------------------------------------------------------
(* The program *)

Due == S32(cycle - g_nextEventCycle) >= 0

\* The block that follows an event test is run without another test.
Running == ~Due \/ tested

\* A block of the program takes b cycles.  A timer that is stopped by its gate
\* whenever an update comes is never tested, and counts on for ever; so does
\* one whose clock the program keeps changing.
Run(b) ==
  /\ Running /\ Rcount(counter) <= MaxCount
  /\ cycle' = U32(cycle + b) /\ tested' = FALSE
  /\ ideal' = IdealAfter(b)
  /\ UNCHANGED <<g_nextEventCycle, nextsCounter, nextCounter, counter, gates,
                 hsync, vsync>>

\* A device wants an event test after d cycles (cpuSetNextEventDelta): the IOP,
\* the DMAC, or an interrupt.
OtherEvent(d) ==
  /\ g_nextEventCycle' = SetNextEvent(g_nextEventCycle, cycle, d)
  /\ UNCHANGED <<cycle, nextsCounter, nextCounter, counter, gates, hsync, vsync,
                 tested, ideal>>

\* A write to another timer's registers.
OtherSet(o) ==
  LET r == RcntSetOthers(o, nextsCounter,
                         [next |-> nextCounter, event |-> g_nextEventCycle]) IN
  /\ Running
  /\ nextCounter' = r.next /\ g_nextEventCycle' = r.event
  /\ UNCHANGED <<cycle, nextsCounter, counter, gates, hsync, vsync, tested, ideal>>

\* A write makes the timer k, and the next update and event are set for it.
Set(k) ==
  LET r == RcntSet(k, nextsCounter, nextCounter, g_nextEventCycle) IN
  /\ Running
  /\ counter' = k
  /\ nextCounter' = r.next /\ g_nextEventCycle' = r.event
  /\ UNCHANGED <<cycle, nextsCounter, hsync, vsync, tested>>

\* rcntWmode; clear says whether the bits of the Reached flags are written.
Wmode(m, clear) ==
  LET was == IF counter.mode.IsCounting THEN Folded(counter)
             ELSE [counter EXCEPT !.sCycleT = cycle]
      out == [counter.out EXCEPT !.TargetReached = @ /\ ~clear,
                                 !.OverflowReached = @ /\ ~clear]
      k   == SetGate([was EXCEPT !.mode = m, !.out = out])
  IN  /\ Set(k)
      /\ gates' = GateEnabled(k)
      /\ ideal' = IF ideal.follows /\ Bus(k) /\ ~Outstanding(counter)
                       /\ m.rate = counter.mode.rate
                  THEN [ideal EXCEPT !.out = out] ELSE IdealOf(k)

\* rcntWcount
Wcount(v) ==
  LET since == IF Bus(counter) THEN U32(cycle - (Age(counter) % counter.mode.rate))
               ELSE IF counter.mode.IsCounting THEN counter.sCycleT ELSE cycle
      k == [counter EXCEPT !.count = v, !.future = v > counter.target,
                           !.sCycleT = since]
  IN  /\ Set(k)
      /\ ideal' = IF ideal.follows /\ ~Outstanding(counter)
                  THEN IdealHit([ideal EXCEPT !.count = v]) ELSE IdealOf(k)
      /\ UNCHANGED gates

\* Bug: a target equal to the count is not guarded against.
TargetBehindStrict(k, v) == v < Rcount(k)

\* The target is behind the count: the timer must overflow first.
TargetBehind(k, v) == v <= Rcount(k)

\* rcntWtarget
Wtarget(v) ==
  LET k == [Folded(counter) EXCEPT !.target = v,
                                   !.future = TargetBehind(Folded(counter), v)]
  IN  /\ Set(k)
      /\ ideal' = IF Outstanding(counter) THEN IdealOf(k) ELSE ideal
      /\ UNCHANGED gates

-----------------------------------------------------------------------------
(* The event test *)

VEdge == S32(cycle - vsync.sCycle) >= VCycleT(vsync)
HEdge(h) == S32(cycle - h.sCycle) >= HCycleT(h)

\* Bug: the next part of the frame starts when it is noticed.
NextPartLate(s, length) == [blank |-> ~s.blank, sCycle |-> cycle]

\* The blank timer s passes into its next part.
NextPart(s, length) == [blank |-> ~s.blank, sCycle |-> U32(s.sCycle + length)]

\* rcntUpdate_vSync: the timer at the edge of a vertical blank.
AfterVEdge(k) ==
  IF ~VEdge THEN k
  ELSE IF vsync.blank THEN EndGate(k, TRUE, vsync.sCycle)
                      ELSE StartGate(k, TRUE, vsync.sCycle)

\* The scanline h with the rounding error of the scanlines put right.
Corrected(h) == [blank |-> h.blank, sCycle |-> U32(h.sCycle + HSyncError)]

\* Bug: it is put right at both edges of the vertical blank.
ShiftedTwice(h) == IF VEdge THEN Corrected(h) ELSE h

\* The same, of the scanline: the vertical blank starts.
Shifted(h) == IF VEdge /\ ~vsync.blank THEN Corrected(h) ELSE h

\* The rest of rcntUpdate.
Updated(k) ==
  IF ~k.mode.IsCounting THEN k
  ELSE IF k.mode.rate # 0 THEN TestOverflow(TestTarget(Folded(k)))
  ELSE [k EXCEPT !.sCycleT = cycle]

\* rcntUpdate_hScanline, of the scanline h.
AfterHEdge(k, h) ==
  IF ~HEdge(h) THEN k
  ELSE IF h.blank THEN StartGate(k, FALSE, h.sCycle)
                  ELSE EndGate(k, FALSE, h.sCycle)

\* cpuRcntSet with the vertical blank at v, and other timers o before and p
\* after this one.
RcntSetAll(k, v, o, p, event) ==
  LET blank == [next |-> S32(VCycleT(v) - (cycle - v.sCycle)), event |-> event]
      r == RcntSetOthers(o, cycle, blank)
  IN  [RcntSetOthers(p, cycle, RcntSet(k, cycle, r.next, r.event))
        EXCEPT !.next = Max2(@, 0)]

\* _cpuEventTest_Shared, with the timers' part of it.
EventTest(o, p) ==
  LET updates == S32(cycle - nextsCounter) >= nextCounter
      v == IF updates /\ VEdge THEN NextPart(vsync, VCycleT(vsync)) ELSE vsync
      s == IF updates THEN Shifted(hsync) ELSE hsync
      h == IF HEdge(s) THEN NextPart(s, HCycleT(s)) ELSE s
      k1 == IF updates THEN AfterVEdge(counter) ELSE counter
      k2 == IF updates THEN Updated(k1) ELSE k1
      k3 == AfterHEdge(k2, s)
      first == U32(cycle + WaitCycles)
      r == IF updates THEN RcntSetAll(k2, v, o, p, first)
                      ELSE [next |-> nextCounter, event |-> first]
      nexts == IF updates THEN cycle ELSE nextsCounter
      gated == \/ updates /\ VEdge /\ AtGate(counter, TRUE)
               \/ HEdge(s) /\ (AtGate(counter, FALSE) \/ ~Bus(counter))
  IN  /\ Due /\ ~tested
      /\ vsync' = v /\ hsync' = h
      /\ counter' = k3
      /\ nextsCounter' = nexts /\ nextCounter' = r.next
      /\ g_nextEventCycle' =
           SetNextEvent(SetNextEvent(r.event, h.sCycle, HCycleT(h)), nexts, r.next)
      /\ tested' = TRUE
      /\ ideal' = IF gated \/ ~ideal.follows THEN IdealOf(k3) ELSE ideal
      /\ UNCHANGED <<cycle, gates>>

-----------------------------------------------------------------------------
Next ==
  \/ \E b \in 1..MaxBlock : Run(b)
  \/ \E m \in Modes, clear \in BOOLEAN : Wmode(m, clear)
  \/ \E v \in Counts : Wcount(v)
  \/ \E v \in Targets : Wtarget(v)
  \/ \E d \in Delays : OtherEvent(d)
  \/ \E o \in Others : OtherSet(o)
  \/ \E o, p \in Others : EventTest(o, p)

Spec == Init /\ [][Next]_vars

-----------------------------------------------------------------------------
(* What the timers promise *)

\* The cycles until cycle t.
Until(t) == S32(t - cycle)
UntilUpdate == Until(nextsCounter + nextCounter)
UntilEvent == Until(g_nextEventCycle)

\* The cycles until the timer reaches what is to be tested next.
UntilTested ==
  LET limit == IF counter.future THEN Top ELSE counter.target
  IN  (limit - counter.count) * counter.mode.rate - Age(counter)

\* An hblank gate starts the timer outside rcntUpdate, and no event is set.
ByHblank == gates /\ ~counter.mode.vblankGate

\* When a timer, this one or another, is past its target, _rcntSet puts the next
\* update four cycles after the last, even if more is due before, and sets no
\* event (Counters.cpp:82).
Soon == nextCounter <= 4

\* Between event tests, the next update is due before the timer reaches its
\* target or overflows, and before the vertical blank ends or starts, or else
\* within four cycles of the last one; and an event test is due before the next
\* horizontal blank and before the update, whatever the other timers and the
\* devices ask for (_rcntSet, cpuRcntSet, cpuSetNextEvent).  What is already
\* overdue is caught up at once, or within four cycles in the case above.
NextEventInTime ==
  ~Due =>
    /\ UntilUpdate <= Max2(Until(vsync.sCycle + VCycleT(vsync)),
                           Max2(Until(nextsCounter + 4), 0))
    /\ Bus(counter) /\ ~ByHblank /\ ~Soon => UntilUpdate <= Max2(UntilTested, 0)
    /\ nextCounter # 4 => UntilEvent <= Max2(UntilUpdate, 0)
    /\ UntilEvent <= Until(hsync.sCycle + HCycleT(hsync))

\* A timer that is read shows what a timer that is stepped at every cycle
\* shows, and it has raised the same interrupts, unless it has reached its
\* target or the top and an event test is still to come.
CountsAsStepped ==
  ideal.follows /\ ~Outstanding(counter) =>
    /\ Rcount(counter) = ideal.count
    /\ counter.out = ideal.out

\* How often the vertical blank has started.
Frames == vsync.sCycle \div (VRender + VBlank) + (IF vsync.blank THEN 1 ELSE 0)

\* The blanks keep their time, however late they are noticed: every part of a
\* frame starts a whole number of periods after the first, and so does every
\* part of a scanline, but for the rounding error, which has been put right
\* once for each vertical blank that has started (rcntUpdate_vSync,
\* rcntUpdate_hScanline).
PeriodsKept ==
  /\ vsync.sCycle % (VRender + VBlank) = (IF vsync.blank THEN VRender ELSE 0)
  /\ (hsync.sCycle - Frames * HSyncError) % (HRender + HBlank)
       = (IF hsync.blank THEN HRender ELSE 0)

\* A timer gated by level counts only in the part of the frame, or of the
\* scanline, that the last edge handled has started: whenever its mode is
\* written and however late the edge is noticed (rcntStartGate, rcntEndGate).
\* Which part that is differs between the two blanks in the code, where
\* Counters.h:34 has one rule for both: it is the vertical blank, but the part
\* of a scanline outside its blank.
GateFollowsBlank ==
  gates /\ counter.mode.GateMode = 0 /\ counter.mode.IsCounting =>
    IF counter.mode.vblankGate THEN vsync.blank ELSE ~hsync.blank

\* Counters.h:35-37 says of the gates that the timer resets and starts counting
\* at the edge of the signal: it then counts from the time of that edge.
CountsFromEdge ==
  [][ ~counter.mode.IsCounting /\ counter'.mode.IsCounting /\ gates' =>
        counter'.sCycleT = (IF counter.mode.vblankGate THEN vsync'.sCycle
                                                       ELSE hsync'.sCycle) ]_vars

\* Counters.cpp:646 says that the timers get set after a gate because
\* rcntUpdate calls it.
SetAfterGate ==
  ~Due /\ Bus(counter) /\ ~Soon => UntilUpdate <= Max2(UntilTested, 0)

=============================================================================
