--------------------------- MODULE CountersProofs ---------------------------
(***************************************************************************)
(* Proofs about Counters.                                                  *)
(*                                                                         *)
(* A gated timer counts on its side of the edge only (GatedTimersFollow).  *)
(* The next update and the next event test are set in time (EventsInTime): *)
(* the variables hold cycles modulo CycleCount, and TimeInv says that      *)
(* there are integers, of which they are the remainders, that are in the   *)
(* order the schedule means and less than half of all cycles apart.        *)
(* With it, every variable has its type (CountersTypeCorrect).             *)
(***************************************************************************)
EXTENDS Counters, WellFoundedInduction, TLAPS

\* A timer, whatever its numbers are.
ModeIn(S) == [rate : S, IsCounting : BOOLEAN, EnableGate : BOOLEAN,
              vblankGate : BOOLEAN, GateMode : 0..3, ZeroReturn : BOOLEAN,
              TargetInterrupt : BOOLEAN, OverflowInterrupt : BOOLEAN]
TimerIn(S) == [count : S, target : S, future : S, sCycleT : S,
               mode : ModeIn(S), out : S]
Timer(k) == \E S : k \in TimerIn(S)

\* Two modes that differ in nothing but whether the timer counts.
SameGate(m, n) ==
  n.vblankGate = m.vblankGate /\ n.GateMode = m.GateMode

Blanks == vsync.blank \in BOOLEAN /\ hsync.blank \in BOOLEAN

GateInv == Timer(counter) /\ Blanks /\ GateFollowsBlank

-----------------------------------------------------------------------------
(* What becomes of the mode *)

LEMMA ModeCounts ==
  ASSUME NEW S, NEW m \in ModeIn(S), NEW b \in BOOLEAN
  PROVE  /\ [m EXCEPT !.IsCounting = b] \in ModeIn(S)
         /\ [m EXCEPT !.IsCounting = b].IsCounting = b
         /\ SameGate(m, [m EXCEPT !.IsCounting = b])
BY DEF ModeIn, SameGate

\* Fields are set.
LEMMA SetFields ==
  ASSUME NEW k, Timer(k), NEW x
  PROVE  /\ Timer([k EXCEPT !.count = x]) /\ [k EXCEPT !.count = x].mode = k.mode
         /\ Timer([k EXCEPT !.future = x]) /\ [k EXCEPT !.future = x].mode = k.mode
         /\ Timer([k EXCEPT !.out = x]) /\ [k EXCEPT !.out = x].mode = k.mode
         /\ Timer([k EXCEPT !.sCycleT = x]) /\ [k EXCEPT !.sCycleT = x].mode = k.mode
         /\ Timer([k EXCEPT !.target = x]) /\ [k EXCEPT !.target = x].mode = k.mode
<1>1. PICK S : k \in TimerIn(S)
  BY DEF Timer
<1>2. PICK T : T = S \cup {x}
  OBVIOUS
<1>3. k \in TimerIn(T) /\ x \in T
  BY <1>1, <1>2 DEF TimerIn, ModeIn
<1>4. /\ [k EXCEPT !.count = x] \in TimerIn(T) /\ [k EXCEPT !.future = x] \in TimerIn(T)
      /\ [k EXCEPT !.out = x] \in TimerIn(T) /\ [k EXCEPT !.sCycleT = x] \in TimerIn(T)
      /\ [k EXCEPT !.target = x] \in TimerIn(T)
  BY <1>3 DEF TimerIn
<1>5. /\ [k EXCEPT !.count = x].mode = k.mode /\ [k EXCEPT !.future = x].mode = k.mode
      /\ [k EXCEPT !.out = x].mode = k.mode /\ [k EXCEPT !.sCycleT = x].mode = k.mode
      /\ [k EXCEPT !.target = x].mode = k.mode
  BY <1>3 DEF TimerIn
<1>6. QED
  BY <1>4, <1>5 DEF Timer

LEMMA SetCount ==
  ASSUME NEW k, Timer(k), NEW x, NEW y
  PROVE  /\ Timer([k EXCEPT !.count = x, !.sCycleT = y])
         /\ [k EXCEPT !.count = x, !.sCycleT = y].mode = k.mode
<1>1. PICK S : k \in TimerIn(S)
  BY DEF Timer
<1>2. PICK T : T = S \cup {x, y}
  OBVIOUS
<1>3. k \in TimerIn(T) /\ x \in T /\ y \in T
  BY <1>1, <1>2 DEF TimerIn, ModeIn
<1>4. [k EXCEPT !.count = x, !.sCycleT = y] \in TimerIn(T)
  BY <1>3 DEF TimerIn
<1>5. [k EXCEPT !.count = x, !.sCycleT = y].mode = k.mode
  BY <1>3 DEF TimerIn
<1>6. QED
  BY <1>4, <1>5 DEF Timer

\* The tests and the folding of cycles leave it alone.
LEMMA UpdateKeepsMode ==
  ASSUME NEW k, Timer(k)
  PROVE  /\ Timer(Folded(k)) /\ Folded(k).mode = k.mode
         /\ Timer(TestTarget(k)) /\ TestTarget(k).mode = k.mode
         /\ Timer(TestOverflow(k)) /\ TestOverflow(k).mode = k.mode
<1>3. Timer(Folded(k)) /\ Folded(k).mode = k.mode
  <2>1. PICK x, y : x = Rcount(k) /\ y = U32(cycle - (Age(k) % k.mode.rate))
    OBVIOUS
  <2>2. Folded(k) = k \/ Folded(k) = [k EXCEPT !.count = x, !.sCycleT = y]
    BY <2>1, Zenon DEF Folded
  <2>3. /\ Timer([k EXCEPT !.count = x, !.sCycleT = y])
        /\ [k EXCEPT !.count = x, !.sCycleT = y].mode = k.mode
    BY SetCount, Zenon
  <2>4. QED
    BY <2>2, <2>3
<1>4. Timer(TestTarget(k)) /\ TestTarget(k).mode = k.mode
  <2> DEFINE hit == [k EXCEPT !.out = [Irq(@) EXCEPT !.TargetReached = TRUE]]
  <2>1. Timer(hit) /\ hit.mode = k.mode
    BY SetFields
  <2>2. /\ Timer([hit EXCEPT !.count = @ - k.target])
        /\ [hit EXCEPT !.count = @ - k.target].mode = k.mode
        /\ Timer([hit EXCEPT !.future = TRUE])
        /\ [hit EXCEPT !.future = TRUE].mode = k.mode
    <3> HIDE DEF hit
    <3>1. QED
      BY <2>1, SetFields
  <2>3. /\ Timer([k EXCEPT !.future = TRUE])
        /\ [k EXCEPT !.future = TRUE].mode = k.mode
    BY SetFields
  <2>4. TestTarget(k) \in {k, [hit EXCEPT !.count = @ - k.target],
                           [hit EXCEPT !.future = TRUE],
                           [k EXCEPT !.future = TRUE]}
    BY Zenon DEF TestTarget
  <2>5. QED
    BY <2>2, <2>3, <2>4
<1>5. Timer(TestOverflow(k)) /\ TestOverflow(k).mode = k.mode
  <2>1. PICK x, y, z : /\ x = k.count - Top /\ y = FALSE
                       /\ z = IF k.mode.OverflowInterrupt
                              THEN [Irq(k.out) EXCEPT !.OverflowReached = TRUE]
                              ELSE k.out
    BY Zenon
  <2>2. PICK n : n = [k EXCEPT !.count = x, !.future = y, !.out = z]
    OBVIOUS
  <2>3. TestOverflow(k) = k \/ TestOverflow(k) = n
    BY <2>1, <2>2, Zenon DEF TestOverflow
  <2>4. Timer(n) /\ n.mode = k.mode
    <3>1. PICK S : k \in TimerIn(S)
      BY DEF Timer
    <3>2. PICK T : T = S \cup {x, y, z}
      OBVIOUS
    <3>3. k \in TimerIn(T) /\ x \in T /\ y \in T /\ z \in T
      BY <3>1, <3>2 DEF TimerIn, ModeIn
    <3>4. n \in TimerIn(T) /\ n.mode = k.mode
      BY <2>2, <3>3 DEF TimerIn
    <3>5. QED
      BY <3>4 DEF Timer
  <2>5. QED
    BY <2>3, <2>4
<1>6. QED
  BY <1>3, <1>4, <1>5

\* A gate starts and stops the timer, and changes nothing else of its mode.
Gated(k, n) == Timer(n) /\ SameGate(k.mode, n.mode)

LEMMA ModeOf ==
  ASSUME NEW k, Timer(k)
  PROVE  \E S : k.mode \in ModeIn(S)
BY DEF Timer, TimerIn

LEMMA RestartedFacts ==
  ASSUME NEW k, Timer(k), NEW start
  PROVE  Gated(k, Restarted(k, start))
<1>1. PICK S : k \in TimerIn(S)
  BY DEF Timer
<1>2. PICK T : T = S \cup {0, FALSE, start}
  OBVIOUS
<1>3. PICK m : m = [k.mode EXCEPT !.IsCounting = TRUE]
  OBVIOUS
<1>4. k \in TimerIn(T) /\ 0 \in T /\ FALSE \in T /\ start \in T
  BY <1>1, <1>2 DEF TimerIn, ModeIn
<1>5. m \in ModeIn(T) /\ SameGate(k.mode, m)
  <2>1. k.mode \in ModeIn(T)
    BY <1>4 DEF TimerIn
  <2>2. QED
    BY <1>3, <2>1, ModeCounts
<1>6. Restarted(k, start) =
        [k EXCEPT !.mode = m, !.count = 0, !.future = FALSE, !.sCycleT = start]
  BY <1>3, <1>4 DEF Restarted, TimerIn
<1>7. Restarted(k, start) \in TimerIn(T) /\ Restarted(k, start).mode = m
  BY <1>4, <1>5, <1>6 DEF TimerIn
<1>8. QED
  BY <1>5, <1>7 DEF Gated, Timer

LEMMA StartedFacts ==
  ASSUME NEW k, Timer(k), NEW start, NEW n,
         n = [k EXCEPT !.mode.IsCounting = TRUE, !.sCycleT = start]
  PROVE  Gated(k, n)
<1>1. PICK S : k \in TimerIn(S)
  BY DEF Timer
<1>2. PICK T : T = S \cup {start}
  OBVIOUS
<1>3. PICK m : m = [k.mode EXCEPT !.IsCounting = TRUE]
  OBVIOUS
<1>4. k \in TimerIn(T) /\ start \in T
  BY <1>1, <1>2 DEF TimerIn, ModeIn
<1>5. m \in ModeIn(T) /\ SameGate(k.mode, m)
  <2>1. k.mode \in ModeIn(T)
    BY <1>4 DEF TimerIn
  <2>2. QED
    BY <1>3, <2>1, ModeCounts
<1>6. n = [k EXCEPT !.mode = m, !.sCycleT = start]
  BY <1>3, <1>4 DEF TimerIn
<1>7. n \in TimerIn(T) /\ n.mode = m
  BY <1>4, <1>5, <1>6 DEF TimerIn
<1>8. QED
  BY <1>5, <1>7 DEF Gated, Timer

\* The timer is stopped, with a count and a start of its own.
LEMMA StoppedFacts ==
  ASSUME NEW k, Timer(k), NEW c, NEW start, NEW n,
         n = [k EXCEPT !.count = c, !.mode.IsCounting = FALSE, !.sCycleT = start]
  PROVE  Gated(k, n) /\ ~n.mode.IsCounting
<1>1. PICK S : k \in TimerIn(S)
  BY DEF Timer
<1>2. PICK T : T = S \cup {c, start}
  OBVIOUS
<1>3. PICK m : m = [k.mode EXCEPT !.IsCounting = FALSE]
  OBVIOUS
<1>4. k \in TimerIn(T) /\ c \in T /\ start \in T
  BY <1>1, <1>2 DEF TimerIn, ModeIn
<1>5. m \in ModeIn(T) /\ SameGate(k.mode, m) /\ m.IsCounting = FALSE
  <2>1. k.mode \in ModeIn(T)
    BY <1>4 DEF TimerIn
  <2>2. QED
    BY <1>3, <2>1, ModeCounts
<1>6. n = [k EXCEPT !.count = c, !.mode = m, !.sCycleT = start]
  BY <1>3, <1>4 DEF TimerIn
<1>7. n \in TimerIn(T) /\ n.mode = m
  BY <1>4, <1>5, <1>6 DEF TimerIn
<1>8. QED
  BY <1>5, <1>7 DEF Gated, Timer

\* What the edge of a blank does to the timer.
LEMMA StartGateFacts ==
  ASSUME NEW k, Timer(k), NEW vblank \in BOOLEAN, NEW start
  PROVE  /\ Gated(k, StartGate(k, vblank, start))
         /\ ~AtGate(k, vblank) => StartGate(k, vblank, start).mode = k.mode
<1>1. PICK ticked : ticked = [k EXCEPT !.count = @ + 1]
  OBVIOUS
<1>2. Timer(ticked) /\ ticked.mode = k.mode
  BY <1>1, SetFields
<1>3. PICK n : n = IF ~vblank /\ k.mode.IsCounting /\ k.mode.rate = 0
                   THEN TestOverflow(TestTarget(ticked)) ELSE k
  OBVIOUS
<1>4. Timer(n) /\ n.mode = k.mode
  BY <1>2, <1>3, UpdateKeepsMode
<1>5. PICK started : started = [n EXCEPT !.mode.IsCounting = TRUE, !.sCycleT = start]
  OBVIOUS
<1>6. StartGate(k, vblank, start) =
        IF ~AtGate(k, vblank) THEN n
        ELSE CASE k.mode.GateMode = 0 -> started
               [] k.mode.GateMode = 2 -> n
               [] OTHER -> Restarted(n, start)
  BY <1>1, <1>3, <1>5 DEF StartGate
<1>7. Gated(k, n)
  BY <1>4 DEF Gated, SameGate
<1>8. Gated(k, started)
  BY <1>4, <1>5, StartedFacts DEF Gated
<1>9. Gated(k, Restarted(n, start))
  BY <1>4, RestartedFacts DEF Gated
<1>10. QED
  BY <1>4, <1>6, <1>7, <1>8, <1>9

LEMMA EndGateFacts ==
  ASSUME NEW k, Timer(k), NEW vblank \in BOOLEAN, NEW start
  PROVE  /\ Gated(k, EndGate(k, vblank, start))
         /\ ~AtGate(k, vblank) => EndGate(k, vblank, start).mode = k.mode
         /\ AtGate(k, vblank) /\ k.mode.GateMode = 0 =>
              ~EndGate(k, vblank, start).mode.IsCounting
<1>1. PICK n : n = [k EXCEPT !.count = Rcount(k), !.mode.IsCounting = FALSE,
                             !.sCycleT = start]
  OBVIOUS
<1>2. Gated(k, n) /\ ~n.mode.IsCounting
  BY <1>1, StoppedFacts
<1>3. EndGate(k, vblank, start) =
        IF ~AtGate(k, vblank) THEN k
        ELSE CASE k.mode.GateMode = 0 -> n
               [] k.mode.GateMode = 1 -> k
               [] OTHER -> Restarted(k, start)
  BY <1>1 DEF EndGate
<1>4. Gated(k, k) /\ Gated(k, Restarted(k, start))
  BY RestartedFacts DEF Gated, SameGate
<1>5. QED
  BY <1>2, <1>3, <1>4

\* A mode written with a gate stops the timer.
LEMMA SetGateFacts ==
  ASSUME NEW k, Timer(k)
  PROVE  /\ Timer(SetGate(k))
         /\ GateEnabled(SetGate(k)) => ~SetGate(k).mode.IsCounting
<1>1. PICK n : n = [k EXCEPT !.mode.IsCounting = FALSE, !.count = 0, !.sCycleT = cycle]
  OBVIOUS
<1>2. n = [k EXCEPT !.count = 0, !.mode.IsCounting = FALSE, !.sCycleT = cycle]
  BY <1>1 DEF Timer, TimerIn
<1>3. Gated(k, n) /\ ~n.mode.IsCounting
  BY <1>2, StoppedFacts
<1>4. SetGate(k) = IF GateEnabled(k) THEN n ELSE k
  BY <1>1, Zenon DEF SetGate
<1>5. QED
  BY <1>3, <1>4 DEF Gated

-----------------------------------------------------------------------------
(* Every step keeps it *)

LEMMA InitGate == Init => GateInv
<1> SUFFICES ASSUME Init PROVE GateInv
  OBVIOUS
<1>1. PICK S : S = {0, Top - 1, FALSE, NoOutcome, Min(Rates)}
  OBVIOUS
<1>2. StoppedMode \in ModeIn(S)
  BY <1>1 DEF StoppedMode, ModeIn
<1>3. counter \in TimerIn(S)
  BY <1>1, <1>2 DEF Init, TimerIn
<1>4. QED
  BY <1>3 DEF Init, GateInv, Timer, Blanks, GateFollowsBlank

LEMMA WriteKeeps ==
  ASSUME GateInv, UNCHANGED <<gates, hsync, vsync>>, Timer(counter'),
         counter'.mode = counter.mode
  PROVE  GateInv'
BY DEF GateInv, Blanks, GateFollowsBlank, Timer

LEMMA WmodeStep ==
  ASSUME GateInv, NEW m \in Modes, NEW clear \in BOOLEAN, Wmode(m, clear)
  PROVE  GateInv'
<1>1. PICK k : Timer(k) /\ counter' = SetGate(k) /\ gates' = GateEnabled(SetGate(k))
  <2>1. PICK was : was = IF counter.mode.IsCounting THEN Folded(counter)
                         ELSE [counter EXCEPT !.sCycleT = cycle]
    OBVIOUS
  <2>2. PICK out : out = [counter.out EXCEPT !.TargetReached = @ /\ ~clear,
                                             !.OverflowReached = @ /\ ~clear]
    OBVIOUS
  <2>3. Timer(was)
    BY <2>1, UpdateKeepsMode, SetFields DEF GateInv
  <2>4. PICK k : k = [was EXCEPT !.mode = m, !.out = out]
    OBVIOUS
  <2>5. Timer(k)
    <3>1. PICK S : was \in TimerIn(S)
      BY <2>3 DEF Timer
    <3>2. PICK T : T = S \cup {out} \cup Rates \cup {0}
      OBVIOUS
    <3>3. was \in TimerIn(T) /\ out \in T /\ m \in ModeIn(T)
      BY <3>1, <3>2, ModesAssumption DEF TimerIn, Mode, ModeIn
    <3>4. k \in TimerIn(T)
      BY <2>4, <3>3 DEF TimerIn
    <3>5. QED
      BY <3>4 DEF Timer
  <2>6. counter' = SetGate(k) /\ gates' = GateEnabled(SetGate(k))
    BY <2>1, <2>2, <2>4, Zenon DEF Wmode, Set
  <2>7. QED
    BY <2>5, <2>6
<1>2. Timer(counter') /\ (gates' => ~counter'.mode.IsCounting)
  BY <1>1, SetGateFacts
<1>3. UNCHANGED <<hsync, vsync>>
  BY DEF Wmode, Set
<1>4. QED
  BY <1>2, <1>3 DEF GateInv, Blanks, GateFollowsBlank, Timer

LEMMA WcountStep ==
  ASSUME GateInv, NEW v, Wcount(v)
  PROVE  GateInv'
<1>1. PICK since :
        since = IF Bus(counter)
                THEN U32(cycle - (Age(counter) % counter.mode.rate))
                ELSE IF counter.mode.IsCounting THEN counter.sCycleT ELSE cycle
  OBVIOUS
<1>2. PICK f : f = (v > counter.target)
  OBVIOUS
<1>3. PICK k : k = [counter EXCEPT !.count = v, !.future = f, !.sCycleT = since]
  OBVIOUS
<1>4. Timer(k) /\ k.mode = counter.mode
  <2>1. PICK S : counter \in TimerIn(S)
    BY DEF Timer, GateInv
  <2>2. PICK T : T = S \cup {v, f, since}
    OBVIOUS
  <2>3. counter \in TimerIn(T) /\ v \in T /\ f \in T /\ since \in T
    BY <2>1, <2>2 DEF TimerIn, ModeIn
  <2>4. k \in TimerIn(T) /\ k.mode = counter.mode
    BY <1>3, <2>3 DEF TimerIn
  <2>5. QED
    BY <2>4 DEF Timer
<1>5. counter' = k /\ UNCHANGED <<gates, hsync, vsync>>
  BY <1>1, <1>2, <1>3, Zenon DEF Wcount, Set
<1>6. QED
  BY <1>4, <1>5, WriteKeeps

LEMMA WtargetStep ==
  ASSUME GateInv, NEW v, Wtarget(v)
  PROVE  GateInv'
<1>1. PICK g, f : g = Folded(counter) /\ f = TargetBehind(g, v)
  OBVIOUS
<1>2. PICK k : k = [g EXCEPT !.target = v, !.future = f]
  OBVIOUS
<1>3. Timer(k) /\ k.mode = counter.mode
  <2>1. Timer(g) /\ g.mode = counter.mode
    BY <1>1, UpdateKeepsMode DEF GateInv
  <2>2. PICK S : g \in TimerIn(S)
    BY <2>1 DEF Timer
  <2>3. PICK T : T = S \cup {v, f}
    OBVIOUS
  <2>4. g \in TimerIn(T) /\ v \in T /\ f \in T
    BY <2>2, <2>3 DEF TimerIn, ModeIn
  <2>5. k \in TimerIn(T) /\ k.mode = g.mode
    BY <1>2, <2>4 DEF TimerIn
  <2>6. QED
    BY <2>1, <2>5 DEF Timer
<1>4. counter' = k /\ UNCHANGED <<gates, hsync, vsync>>
  BY <1>1, <1>2, Zenon DEF Wtarget, Set
<1>5. QED
  BY <1>3, <1>4, WriteKeeps

LEMMA EventTestStep ==
  ASSUME GateInv, NEW o, NEW p, EventTest(o, p)
  PROVE  GateInv'
<1>1. PICK updates : updates = (S32(cycle - nextsCounter) >= nextCounter)
  OBVIOUS
<1>2. PICK k1 : k1 = IF updates THEN AfterVEdge(counter) ELSE counter
  OBVIOUS
<1>3. PICK k2 : k2 = IF updates THEN Updated(k1) ELSE k1
  OBVIOUS
<1>4. PICK line : line = IF updates THEN Shifted(hsync) ELSE hsync
  OBVIOUS
<1>5. /\ counter' = AfterHEdge(k2, line) /\ UNCHANGED gates
      /\ vsync' = IF updates /\ VEdge THEN NextPart(vsync, VCycleT(vsync)) ELSE vsync
      /\ hsync' = IF HEdge(line) THEN NextPart(line, HCycleT(line)) ELSE line
  BY <1>4, <1>1, <1>2, <1>3, Zenon DEF EventTest
<1>6. /\ Gated(counter, k1)
      /\ ~(updates /\ VEdge /\ AtGate(counter, TRUE)) => k1.mode = counter.mode
      /\ updates /\ VEdge /\ AtGate(counter, TRUE) /\ counter.mode.GateMode = 0
           /\ vsync.blank => ~k1.mode.IsCounting
  <2>1. Timer(counter) /\ Gated(counter, counter)
    BY DEF GateInv, Gated, SameGate
  <2>2. CASE updates /\ VEdge /\ vsync.blank
    <3>1. k1 = EndGate(counter, TRUE, vsync.sCycle)
      BY <1>2, <2>2 DEF AfterVEdge
    <3>2. QED
      BY <2>1, <2>2, <3>1, EndGateFacts
  <2>3. CASE updates /\ VEdge /\ ~vsync.blank
    <3>1. k1 = StartGate(counter, TRUE, vsync.sCycle)
      BY <1>2, <2>3 DEF AfterVEdge
    <3>2. QED
      BY <2>1, <2>3, <3>1, StartGateFacts
  <2>4. CASE ~(updates /\ VEdge)
    BY <1>2, <2>1, <2>4 DEF AfterVEdge
  <2>5. QED
    BY <2>2, <2>3, <2>4
<1>7. Timer(k2) /\ k2.mode = k1.mode
  <2>1. Timer(k1)
    BY <1>6 DEF Gated
  <2>2. CASE ~updates \/ ~k1.mode.IsCounting
    BY <1>3, <2>1, <2>2 DEF Updated
  <2>3. CASE updates /\ k1.mode.IsCounting /\ k1.mode.rate # 0
    <3>1. k2 = TestOverflow(TestTarget(Folded(k1)))
      BY <1>3, <2>3 DEF Updated
    <3>2. QED
      BY <2>1, <3>1, UpdateKeepsMode
  <2>4. CASE updates /\ k1.mode.IsCounting /\ k1.mode.rate = 0
    <3>1. k2 = [k1 EXCEPT !.sCycleT = cycle]
      BY <1>3, <2>4, Zenon DEF Updated
    <3>2. QED
      BY <2>1, <3>1, SetFields
  <2>5. QED
    BY <2>2, <2>3, <2>4
<1>8. line.blank = hsync.blank
  BY <1>4 DEF Shifted, Corrected
<1>9. /\ Gated(k2, counter')
      /\ ~(HEdge(line) /\ AtGate(k2, FALSE)) => counter'.mode = k2.mode
      /\ HEdge(line) /\ AtGate(k2, FALSE) /\ k2.mode.GateMode = 0 /\ ~hsync.blank =>
           ~counter'.mode.IsCounting
  <2>1. Gated(k2, k2)
    BY <1>7 DEF Gated, SameGate
  <2>2. CASE HEdge(line) /\ hsync.blank
    <3>1. counter' = StartGate(k2, FALSE, line.sCycle)
      BY <1>5, <1>8, <2>2 DEF AfterHEdge
    <3>2. QED
      BY <1>7, <2>2, <3>1, StartGateFacts
  <2>3. CASE HEdge(line) /\ ~hsync.blank
    <3>1. counter' = EndGate(k2, FALSE, line.sCycle)
      BY <1>5, <1>8, <2>3 DEF AfterHEdge
    <3>2. QED
      BY <1>7, <2>3, <3>1, EndGateFacts
  <2>4. CASE ~HEdge(line)
    BY <1>5, <2>1, <2>4 DEF AfterHEdge
  <2>5. QED
    BY <2>2, <2>3, <2>4
<1>10. /\ vsync'.blank = IF updates /\ VEdge THEN ~vsync.blank ELSE vsync.blank
       /\ hsync'.blank = IF HEdge(line) THEN ~hsync.blank ELSE hsync.blank
       /\ Blanks /\ Blanks'
  BY <1>5, <1>8 DEF NextPart, GateInv, Blanks
<1>11. /\ SameGate(counter.mode, k2.mode) /\ SameGate(counter.mode, counter'.mode)
  BY <1>6, <1>7, <1>9 DEF Gated, SameGate
<1>12. ASSUME gates, counter'.mode.GateMode = 0, counter'.mode.IsCounting
       PROVE  IF counter'.mode.vblankGate THEN vsync'.blank ELSE ~hsync'.blank
  <2>1. CASE counter.mode.vblankGate = TRUE
    <3>1. /\ ~AtGate(k2, FALSE) /\ AtGate(counter, TRUE)
          /\ counter.mode.GateMode = 0 /\ counter'.mode.vblankGate
      BY <1>11, <1>12, <2>1 DEF AtGate, SameGate
    <3>2. k1.mode.IsCounting
      BY <1>7, <1>9, <1>12, <3>1
    <3>3. CASE updates /\ VEdge
      BY <1>6, <1>10, <3>1, <3>2, <3>3 DEF Blanks
    <3>4. CASE ~(updates /\ VEdge)
      BY <1>6, <1>10, <1>12, <2>1, <3>1, <3>2, <3>4 DEF GateInv, GateFollowsBlank
    <3>5. QED
      BY <3>3, <3>4
  <2>2. CASE counter.mode.vblankGate = FALSE
    <3>1. /\ AtGate(k2, FALSE) /\ ~AtGate(counter, TRUE) /\ k1.mode = counter.mode
          /\ k2.mode.GateMode = 0 /\ ~counter'.mode.vblankGate
      BY <1>6, <1>11, <1>12, <2>2 DEF AtGate, SameGate
    <3>2. CASE HEdge(line)
      BY <1>9, <1>10, <1>12, <3>1, <3>2 DEF Blanks
    <3>3. CASE ~HEdge(line)
      <4>1. counter.mode.IsCounting /\ counter.mode.GateMode = 0
        BY <1>7, <1>9, <1>12, <3>1, <3>3
      <4>2. QED
        BY <1>10, <1>12, <2>2, <3>1, <3>3, <4>1 DEF GateInv, GateFollowsBlank
    <3>4. QED
      BY <3>2, <3>3
  <2>3. counter.mode.vblankGate \in BOOLEAN
    BY ModeOf DEF GateInv, ModeIn
  <2>4. QED
    BY <2>1, <2>2, <2>3
<1>13. Timer(counter)' /\ Blanks' /\ gates' = gates
  <2>1. Timer(counter')
    BY <1>9 DEF Gated
  <2>2. Timer(counter)'
    BY <2>1 DEF Timer
  <2>3. Blanks'
    BY <1>10
  <2>4. gates' = gates
    BY <1>5
  <2>5. QED
    BY <2>2, <2>3, <2>4
<1>14. GateFollowsBlank'
  BY <1>12, <1>13 DEF GateFollowsBlank
<1>15. QED
  BY <1>13, <1>14 DEF GateInv

\* A timer gated by level never counts in the wrong part of a frame or of a
\* scanline, for any rates, lengths, modes and lateness of the event tests.
THEOREM GatedTimersFollow == Spec => []GateFollowsBlank
<1>1. GateInv /\ [Next]_vars => GateInv'
  <2> SUFFICES ASSUME GateInv, [Next]_vars PROVE GateInv'
    OBVIOUS
  <2>1. ASSUME NEW b \in 1..MaxBlock, Run(b) PROVE GateInv'
    BY <2>1, WriteKeeps DEF Run, GateInv
  <2>2. ASSUME NEW d, OtherEvent(d) PROVE GateInv'
    BY <2>2, WriteKeeps DEF OtherEvent, GateInv
  <2>3. ASSUME NEW o, OtherSet(o) PROVE GateInv'
    BY <2>3, WriteKeeps DEF OtherSet, GateInv
  <2>4. ASSUME UNCHANGED vars PROVE GateInv'
    BY <2>4, WriteKeeps DEF vars, GateInv
  <2>5. QED
    BY <2>1, <2>2, <2>3, <2>4, WmodeStep, WcountStep, WtargetStep, EventTestStep DEF Next
<1>2. GateInv => GateFollowsBlank
  BY DEF GateInv
<1>3. QED
  BY <1>1, <1>2, InitGate, PTL DEF Spec

-----------------------------------------------------------------------------
(* Cycles that do not wrap *)

Half == CycleCount \div 2

\* Half of all cycles is a whole number of them.
LEMMA HalfOf == Half \in Nat /\ CycleCount = 2 * Half /\ Half > 0
BY CountersAssumption DEF Half

\* Two integers are the same cycle.
Same(x, y) == \E q \in Int : x = y + q * CycleCount

\* U32 reduces a cycle to the one that the code's variable holds.
LEMMA U32Same ==
  ASSUME NEW x \in Int
  PROVE  U32(x) \in 0..CycleCount - 1 /\ Same(U32(x), x)
<1>1. CycleCount \in Nat /\ CycleCount > 0
  BY CountersAssumption
<1>2. PICK q \in Int : q = -(x \div CycleCount)
  BY <1>1
<1>3. /\ x % CycleCount \in 0..CycleCount - 1
      /\ (x % CycleCount) + CycleCount * (x \div CycleCount) = x
      /\ x \div CycleCount \in Int
  BY <1>1
<1>4. x % CycleCount = x + q * CycleCount
  BY <1>1, <1>2, <1>3
<1>5. QED
  BY <1>3, <1>4 DEF U32, Same

\* Cycles that are the same stay so under sums and differences.
LEMMA SameSum ==
  ASSUME NEW x \in Int, NEW y \in Int, NEW u \in Int, NEW v \in Int,
         Same(x, y), Same(u, v)
  PROVE  /\ Same(y, x) /\ Same(x + u, y + v) /\ Same(x - u, y - v)
         /\ \A d \in Int : Same(x + d, y + d)
<1>1. CycleCount \in Int
  BY CountersAssumption
<1>2. PICK p \in Int : x = y + p * CycleCount
  BY DEF Same
<1>3. PICK q \in Int : u = v + q * CycleCount
  BY DEF Same
<1>4. /\ -p \in Int /\ y = x + (-p) * CycleCount
      /\ p + q \in Int /\ x + u = (y + v) + (p + q) * CycleCount
      /\ p - q \in Int /\ x - u = (y - v) + (p - q) * CycleCount
  BY <1>1, <1>2, <1>3
<1>5. \A d \in Int : x + d = (y + d) + p * CycleCount
  BY <1>1, <1>2
<1>6. QED
  BY <1>4, <1>5 DEF Same

\* The same cycle, less than all cycles apart, is the same integer.
LEMMA SameIsEqual ==
  ASSUME NEW x \in Int, NEW y \in Int, Same(x, y),
         x - y < CycleCount, y - x < CycleCount
  PROVE  x = y
<1>1. CycleCount \in Nat /\ CycleCount > 0
  BY CountersAssumption
<1>2. PICK q \in Int : x = y + q * CycleCount
  BY DEF Same
<1>3. CASE q >= 1
  <2>1. q * CycleCount >= CycleCount
    BY <1>1, <1>3
  <2>2. QED
    BY <1>1, <1>2, <2>1
<1>4. CASE q <= -1
  <2>1. (-q) * CycleCount >= CycleCount
    BY <1>1, <1>4
  <2>3. q * CycleCount = -((-q) * CycleCount)
    BY <1>1
  <2>4. q * CycleCount \in Int
    BY <1>1
  <2>2. QED
    BY <1>1, <1>2, <2>1, <2>3, <2>4
<1>5. CASE q = 0
  BY <1>1, <1>2, <1>5
<1>6. QED
  BY <1>3, <1>4, <1>5

\* If x is the same cycle as y, and y as z, then x is as z.
LEMMA SameTrans ==
  ASSUME NEW x \in Int, NEW y \in Int, NEW z \in Int, Same(x, y), Same(y, z)
  PROVE  Same(x, z)
<1>1. CycleCount \in Int
  BY CountersAssumption
<1>2. PICK p \in Int : x = y + p * CycleCount
  BY DEF Same
<1>3. PICK q \in Int : y = z + q * CycleCount
  BY DEF Same
<1>4. p + q \in Int /\ x = z + (p + q) * CycleCount
  BY <1>1, <1>2, <1>3
<1>5. QED
  BY <1>4 DEF Same

\* The distance of two cycles that are less than half of all cycles apart.
LEMMA S32Near ==
  ASSUME NEW x \in Int, NEW y \in Int, Same(x, y), -Half <= y, y < Half
  PROVE  S32(x) = y
<1>1. U32(x) \in 0..CycleCount - 1 /\ Same(U32(x), y)
  BY U32Same, SameTrans
<1>2. CASE y >= 0
  <2>1. U32(x) = y
    BY <1>1, <1>2, HalfOf, SameIsEqual
  <2>2. QED
    BY <2>1, <1>2, HalfOf DEF S32, Half
<1>3. CASE y < 0
  <2>1. Same(y, y + CycleCount)
    <3>1. y = (y + CycleCount) + (-1) * CycleCount
      BY HalfOf
    <3>2. QED
      BY <3>1 DEF Same
  <2>2. Same(U32(x), y + CycleCount)
    BY <1>1, <2>1, SameTrans, HalfOf
  <2>3. U32(x) = y + CycleCount
    BY <1>1, <1>3, <2>2, HalfOf, SameIsEqual
  <2>4. QED
    BY <2>3, <1>3, HalfOf DEF S32, Half
<1>4. QED
  BY <1>2, <1>3

\* The same cycle is held by the same value.
LEMMA U32Equal ==
  ASSUME NEW x \in Int, NEW y \in Int, Same(x, y)
  PROVE  U32(x) = U32(y)
<1>1. /\ U32(x) \in 0..CycleCount - 1 /\ Same(U32(x), x)
      /\ U32(y) \in 0..CycleCount - 1 /\ Same(U32(y), y)
  BY U32Same
<1>2. Same(U32(x), U32(y))
  BY <1>1, SameTrans, SameSum
<1>3. QED
  BY <1>1, <1>2, SameIsEqual, CountersAssumption

\* A value that the variable can hold is held as it is.
LEMMA U32Is ==
  ASSUME NEW x \in 0..CycleCount - 1
  PROVE  U32(x) = x
<1>1. U32(x) \in 0..CycleCount - 1 /\ Same(U32(x), x)
  BY U32Same
<1>2. QED
  BY <1>1, SameIsEqual, CountersAssumption

\* The signed difference of two variables, one of them moved by d.
LEMMA Signed ==
  ASSUME NEW a \in Int, NEW b \in Int, NEW d \in Int, -Half <= a + d - b, a + d - b < Half
  PROVE  S32(U32(a) + d - U32(b)) = a + d - b
<1>1. /\ U32(a) \in Int /\ Same(U32(a), a) /\ U32(b) \in Int /\ Same(U32(b), b)
  BY U32Same
<1>2. Same(U32(a) + d, a + d)
  BY <1>1, SameSum
<1>3. Same((U32(a) + d) - U32(b), (a + d) - b)
  BY <1>1, <1>2, SameSum
<1>4. QED
  BY <1>1, <1>3, S32Near

\* The signed difference of two variables is that of their cycles.
LEMMA Distance ==
  ASSUME NEW a \in Int, NEW b \in Int, -Half <= a - b, a - b < Half
  PROVE  S32(U32(a) - U32(b)) = a - b
<1>1. U32(a) \in Int /\ U32(b) \in Int
  BY U32Same
<1>2. S32(U32(a) + 0 - U32(b)) = a + 0 - b
  BY Signed
<1>3. QED
  BY <1>1, <1>2

\* The unsigned difference of two variables is the time that has passed.
LEMMA Elapsed ==
  ASSUME NEW a \in Int, NEW b \in Int, 0 <= a - b, a - b < CycleCount
  PROVE  U32(U32(a) - U32(b)) = a - b
<1>1. /\ U32(a) \in Int /\ Same(U32(a), a) /\ U32(b) \in Int /\ Same(U32(b), b)
  BY U32Same
<1>2. Same(U32(a) - U32(b), a - b)
  BY <1>1, SameSum
<1>3. U32(U32(a) - U32(b)) = U32(a - b)
  BY <1>1, <1>2, U32Equal
<1>4. QED
  BY <1>3, U32Is, CountersAssumption

\* A variable that is moved holds the cycle that is moved.
LEMMA Later ==
  ASSUME NEW a \in Int, NEW d \in Int
  PROVE  U32(U32(a) + d) = U32(a + d) /\ U32(U32(a) - d) = U32(a - d)
<1>1. /\ U32(a) \in Int /\ Same(U32(a), a)
  BY U32Same
<1>2. Same(d, d)
  <2>1. d = d + 0 * CycleCount
    BY CountersAssumption
  <2>2. QED
    BY <2>1 DEF Same
<1>3. Same(U32(a) + d, a + d) /\ Same(U32(a) - d, a - d)
  BY <1>1, <1>2, SameSum
<1>4. QED
  BY <1>1, <1>3, U32Equal

-----------------------------------------------------------------------------
(* The constants and the timer *)

\* A set of naturals that is not empty has a least element.
LEMMA Least ==
  ASSUME NEW S, S \subseteq Nat, S # {}
  PROVE  \E n \in S : \A m \in S : n <= m
<1>1. PICK R : R = OpToRel(<, Nat)
  OBVIOUS
<1>2. IsWellFoundedOn(R, Nat)
  BY <1>1, NatLessThanWellFounded
<1>3. PICK n \in S : \A m \in S : ~(<<m, n>> \in R)
  BY <1>2, WFMin
<1>4. ASSUME NEW m \in S, m < n  PROVE <<m, n>> \in R
  BY <1>1, <1>4 DEF OpToRel
<1>5. \A m \in S : m \in Nat /\ ~(m < n)
  BY <1>3, <1>4
<1>6. QED
  BY <1>5

\* The minimum of a set of naturals is one of them.
LEMMA MinIn ==
  ASSUME NEW S, S \subseteq Nat, S # {}
  PROVE  Min(S) \in S
BY Least DEF Min

Vs == {VRender, VBlank}
Hs == {HRender, HBlank}

\* How long before the last update a timer may have been started.
Lag == Half - Max2(VRender, VBlank) - MaxBlock - 1

\* What the assumption on the constants says of Lag and Half.
LEMMA Lengths ==
  /\ Vs \subseteq Nat /\ Hs \subseteq Nat \ {0} /\ MaxBlock \in Nat \ {0}
  /\ WaitCycles \in Nat \ {0} /\ Top \in Nat \ {0} /\ Lag \in Int
  /\ \A v \in Vs : 4 + MaxBlock <= v /\ v + MaxBlock + Lag < Half
  /\ \A h \in Hs : WaitCycles + h + MaxBlock < Half
  /\ \A h \in Hs, v \in Vs : h + MaxBlock < Lag /\ v + h + 2 * MaxBlock < Half
  /\ \A r \in Rates : /\ r \in Nat \ {0} /\ r < Lag
                      /\ \A v \in Vs : Top * r + v + MaxBlock < Half
<1>1. /\ Vs \subseteq Nat \ {0} /\ Hs \subseteq Nat \ {0} /\ MaxBlock \in Nat \ {0}
      /\ WaitCycles \in Nat \ {0} /\ Top \in Nat \ {0}
      /\ Rates \subseteq Nat \ {0} /\ Rates # {}
  BY CountersAssumption DEF Vs, Hs
<1>2. PICK v \in Vs : v = Max2(VRender, VBlank) /\ \A w \in Vs : w <= v
  <2>1. VRender \in Nat /\ VBlank \in Nat
    BY <1>1 DEF Vs
  <2>2. QED
    BY <2>1 DEF Max2, Vs
<1>3. \A r \in Rates : Top * r \in Nat /\ r <= Top * r
  <2>1. ASSUME NEW r \in Rates PROVE Top * r \in Nat /\ r <= Top * r
    <3>1. r \in Nat /\ Top - 1 \in Nat
      BY <1>1
    <3>2. (Top - 1) * r \in Nat /\ Top * r = (Top - 1) * r + r
      BY <1>1, <3>1
    <3>3. QED
      BY <3>1, <3>2
  <2>2. QED
    BY <2>1
<1>4. Lag = Half - v - MaxBlock - 1 /\ Half \in Nat
  BY <1>2, HalfOf DEF Lag
<1>5. \A h \in Hs : /\ WaitCycles + h + MaxBlock < Half
                    /\ \A w \in Vs, r \in Rates : Top * r + w + h + 2 * MaxBlock < Half
  <2>1. \A h \in Hs : WaitCycles + h + MaxBlock < Half
    BY CountersAssumption DEF Hs, Half
  <2>2. ASSUME NEW h \in Hs, NEW w \in Vs, NEW r \in Rates
        PROVE  Top * r + w + h + 2 * MaxBlock < Half
    <3>1. Top * r + w + h + 0 + 2 * MaxBlock < Half
      BY CountersAssumption DEF Hs, Vs, Half
    <3>2. Top * r \in Int /\ w \in Int /\ h \in Int /\ MaxBlock \in Int
      BY <1>1, <1>3
    <3>3. QED
      BY <3>1, <3>2
  <2>3. QED
    BY <2>1, <2>2
<1>6. \A w \in Vs : 4 + MaxBlock <= w /\ w + MaxBlock + Lag < Half
  <2>1. \A w \in Vs : 4 + MaxBlock <= w
    BY CountersAssumption DEF Vs
  <2>2. QED
    BY <2>1, <1>1, <1>2, <1>4
<1>7. ASSUME NEW h \in Hs, NEW w \in Vs, NEW r \in Rates
      PROVE  /\ h + MaxBlock < Lag /\ w + h + 2 * MaxBlock < Half
             /\ r < Lag /\ Top * r + w + MaxBlock < Half
  <2>1. /\ Top * r + v + h + 2 * MaxBlock < Half
        /\ Top * r + w + h + 2 * MaxBlock < Half
    BY <1>5
  <2>2. /\ h \in Nat /\ h > 0 /\ w \in Nat /\ v \in Nat /\ r \in Nat /\ r > 0
        /\ MaxBlock \in Nat /\ MaxBlock > 0 /\ Top * r \in Nat /\ r <= Top * r
    BY <1>1, <1>3
  <2>3. QED
    BY <1>4, <2>1, <2>2
<1>8. \A h \in Hs, w \in Vs : h + MaxBlock < Lag /\ w + h + 2 * MaxBlock < Half
  BY <1>1, <1>7
<1>9. \A r \in Rates : r < Lag /\ \A w \in Vs : Top * r + w + MaxBlock < Half
  <2>1. HRender \in Hs /\ VRender \in Vs
    BY DEF Hs, Vs
  <2>2. QED
    BY <2>1, <1>7
<1>10. Lag \in Int /\ Vs \subseteq Nat /\ \A r \in Rates : r \in Nat \ {0}
  BY <1>1, <1>4
<1>11. \A h \in Hs : WaitCycles + h + MaxBlock < Half
  BY <1>5
<1>12. QED
  BY <1>1, <1>6, <1>8, <1>9, <1>10, <1>11

\* And of the rounding error of the scanlines.
LEMMA ErrorIs ==
  /\ HSyncError \in Int /\ VBlank \in Vs /\ 4 + MaxBlock + HSyncError <= VBlank
  /\ \A h \in Hs : /\ MaxBlock <= h /\ MaxBlock - HSyncError <= h
                   /\ h + MaxBlock - HSyncError < Lag
                   /\ \A v \in Vs : v + h - HSyncError + 2 * MaxBlock < Half
<1>1. /\ VRender \in Nat /\ VBlank \in Nat /\ HRender \in Nat /\ HBlank \in Nat
      /\ HScanlines \in Nat /\ MaxBlock \in Nat
  BY CountersAssumption
<1>2. PICK d : d = ((HRender + HBlank) * HScanlines) \div 2
  OBVIOUS
<1>3. d \in Int /\ HSyncError = VRender + VBlank - d
  <2>1. \A x, y \in Nat : (x * y) \div 2 \in Int
    OBVIOUS
  <2>2. HRender + HBlank \in Nat
    BY <1>1
  <2>3. QED
    BY <1>1, <1>2, <2>1, <2>2 DEF HSyncError
<1>4. PICK e \in Int : e = HSyncError
  BY <1>1, <1>3
<1>5. VBlank \in Vs /\ 4 + MaxBlock + e <= VBlank
  BY <1>4, CountersAssumption DEF Vs
<1>6. ASSUME NEW h \in Hs
      PROVE  MaxBlock <= h /\ MaxBlock - e <= h
  <2>1. -e <= h - MaxBlock /\ MaxBlock <= h /\ h \in Nat
    BY <1>1, <1>4, CountersAssumption DEF Hs
  <2>2. QED
    BY <1>1, <2>1
<1>7. ASSUME NEW h \in Hs, NEW v \in Vs
      PROVE  v + h - e + 2 * MaxBlock < Half /\ h + MaxBlock - e < Half - v - MaxBlock - 1
  <2>1. PICK r \in Rates : TRUE
    BY CountersAssumption
  <2>2. Top * r + v + h + (-e) + 2 * MaxBlock < Half
    BY <1>4, CountersAssumption DEF Hs, Vs, Half
  <2>3. Top * r \in Nat /\ Top * r >= 1
    <3>1. Top \in Nat /\ Top - 1 \in Nat /\ r \in Nat /\ r >= 1
      BY CountersAssumption
    <3>2. (Top - 1) * r \in Nat /\ Top * r = (Top - 1) * r + r
      BY <3>1
    <3>3. QED
      BY <3>1, <3>2
  <2>4. h \in Nat /\ v \in Nat /\ Half \in Nat
    BY Lengths, HalfOf
  <2>5. QED
    BY <1>1, <1>4, <2>2, <2>3, <2>4
<1>8. ASSUME NEW h \in Hs PROVE h + MaxBlock - e < Lag
  <2>1. PICK v \in Vs : v = Max2(VRender, VBlank)
    BY DEF Max2, Vs
  <2>2. h + MaxBlock - e < Half - v - MaxBlock - 1
    BY <1>7
  <2>3. QED
    BY <2>1, <2>2 DEF Lag
<1>9. QED
  BY <1>4, <1>5, <1>6, <1>7, <1>8

\* Lag is a number of cycles.
LEMMA LagIs == Lag \in Nat
<1>1. PICK r \in Rates : TRUE
  BY CountersAssumption
<1>2. r \in Nat /\ r < Lag /\ Lag \in Int
  BY Lengths
<1>3. QED
  BY <1>2

\* What the other timers may ask for.
LEMMA OthersAre ==
  ASSUME NEW o \in Others
  PROVE  o.due \in Int /\ o.past \in BOOLEAN /\ -Lag <= o.due
<1>1. o.due \in Int /\ o.past \in BOOLEAN
  BY CountersAssumption
<1>2. PICK r \in Rates : -o.due < r
  BY CountersAssumption
<1>3. r \in Nat /\ r < Lag /\ Lag \in Int
  BY Lengths
<1>4. QED
  BY <1>1, <1>2, <1>3

\* A timer with the types of its fields.
Typed == [count : Nat, target : 0..Top - 1, future : BOOLEAN,
          sCycleT : 0..CycleCount - 1, mode : Mode, out : Outcome]

\* Folding keeps the record, and moves sCycleT back by less than a count.
LEMMA FoldedTyped ==
  ASSUME NEW t \in Int, cycle = U32(t), NEW k \in Typed
  PROVE  /\ Age(k) \in Nat /\ Rcount(k) \in Nat
         /\ Folded(k) \in Typed /\ Folded(k).mode = k.mode
         /\ ~Bus(k) => Folded(k) = k
         /\ Bus(k) => \E s \in Int : /\ Folded(k).sCycleT = U32(s)
                                     /\ t - Lag <= s /\ s <= t
<1>1. Age(k) \in Nat
  <2>1. cycle - k.sCycleT \in Int
    BY U32Same, CountersAssumption DEF Typed
  <2>2. QED
    BY <2>1, U32Same DEF Age
<1>2. ASSUME Bus(k) PROVE k.mode.rate \in Rates /\ k.mode.rate \in Nat \ {0}
  BY <1>2, CountersAssumption DEF Bus, Typed, Mode
<1>3. Rcount(k) \in Nat
  <2>1. CASE Bus(k)
    <3>1. \A a, r \in Nat : r # 0 => a \div r \in Nat
      OBVIOUS
    <3>2. Age(k) \div k.mode.rate \in Nat /\ k.count \in Nat
      BY <1>1, <1>2, <2>1, <3>1 DEF Typed
    <3>3. QED
      BY <2>1, <3>2 DEF Rcount
  <2>2. CASE ~Bus(k)
    BY <2>2 DEF Rcount, Typed
  <2>3. QED
    BY <2>1, <2>2
<1>4. CASE Bus(k)
  <2>1. PICK rem \in Nat : rem = Age(k) % k.mode.rate /\ rem < k.mode.rate
    <3>1. \A a, r \in Nat : r # 0 => a % r \in 0..r - 1
      OBVIOUS
    <3>2. Age(k) % k.mode.rate \in 0..k.mode.rate - 1
      BY <1>1, <1>2, <1>4, <3>1
    <3>3. QED
      BY <1>2, <1>4, <3>2
  <2>2. PICK c, s : c = Rcount(k) /\ s = U32(cycle - rem)
    OBVIOUS
  <2>3. s = U32(t - rem) /\ s \in 0..CycleCount - 1
    BY <2>2, Later, U32Same
  <2>4. Folded(k) = [k EXCEPT !.count = c, !.sCycleT = s]
    BY <1>4, <2>1, <2>2, Zenon DEF Folded
  <2>5. Folded(k) \in Typed /\ Folded(k).mode = k.mode /\ Folded(k).sCycleT = s
    BY <1>3, <2>2, <2>3, <2>4 DEF Typed
  <2>6. t - rem \in Int /\ t - Lag <= t - rem /\ t - rem <= t
    <3>1. k.mode.rate < Lag /\ k.mode.rate \in Nat /\ Lag \in Int
      BY <1>2, <1>4, Lengths
    <3>2. QED
      BY <2>1, <3>1
  <2>7. QED
    BY <1>1, <1>3, <1>4, <2>3, <2>5, <2>6
<1>5. CASE ~Bus(k)
  BY <1>1, <1>3, <1>5 DEF Folded
<1>6. QED
  BY <1>4, <1>5

\* An interrupt leaves an outcome.
LEMMA IrqTyped ==
  ASSUME NEW out \in Outcome
  PROVE  /\ [Irq(out) EXCEPT !.TargetReached = TRUE] \in Outcome
         /\ [Irq(out) EXCEPT !.OverflowReached = TRUE] \in Outcome
BY DEF Irq, Outcome

\* The tests of the target and of the overflow leave when the timer counts from.
LEMMA TestsTyped ==
  ASSUME NEW k \in Typed
  PROVE  /\ TestTarget(k) \in Typed /\ TestTarget(k).mode = k.mode
         /\ TestTarget(k).sCycleT = k.sCycleT
         /\ TestOverflow(k) \in Typed /\ TestOverflow(k).mode = k.mode
         /\ TestOverflow(k).sCycleT = k.sCycleT
<1>1. /\ k.count \in Nat /\ k.target \in Nat /\ k.future \in BOOLEAN /\ k.out \in Outcome
      /\ Top \in Nat
  BY Lengths DEF Typed
<1>2. PICK out : out = [Irq(k.out) EXCEPT !.TargetReached = TRUE]
  OBVIOUS
<1>3. PICK over : over = IF k.mode.OverflowInterrupt
                         THEN [Irq(k.out) EXCEPT !.OverflowReached = TRUE] ELSE k.out
  OBVIOUS
<1>4. out \in Outcome /\ over \in Outcome
  BY <1>1, <1>2, <1>3, IrqTyped
<1>5. TestTarget(k) \in {k} \cup (IF k.count < k.target THEN {} ELSE
         {[k EXCEPT !.future = TRUE], [k EXCEPT !.out = out, !.future = TRUE],
          [k EXCEPT !.out = out, !.count = @ - k.target]})
  <2>1. DOMAIN k = {"count", "target", "future", "sCycleT", "mode", "out"}
    BY DEF Typed
  <2>2. PICK hit : hit = [k EXCEPT !.out = [Irq(@) EXCEPT !.TargetReached = TRUE]]
    OBVIOUS
  <2>3. hit = [k EXCEPT !.out = out]
    BY <1>2, <2>2, Zenon
  <2>4. TestTarget(k) =
          IF k.future \/ k.count < k.target THEN k
          ELSE IF ~k.mode.TargetInterrupt THEN [k EXCEPT !.future = TRUE]
          ELSE IF k.mode.ZeroReturn THEN [hit EXCEPT !.count = @ - k.target]
                                    ELSE [hit EXCEPT !.future = TRUE]
    BY <2>2, Zenon DEF TestTarget
  <2>5. /\ [hit EXCEPT !.count = @ - k.target]
             = [k EXCEPT !.out = out, !.count = @ - k.target]
        /\ [hit EXCEPT !.future = TRUE] = [k EXCEPT !.out = out, !.future = TRUE]
    BY <2>3 DEF Typed
  <2>6. QED
    BY <2>4, <2>5
<1>6. \A n \in {[k EXCEPT !.future = TRUE], [k EXCEPT !.out = out, !.future = TRUE]} :
        n \in Typed /\ n.mode = k.mode /\ n.sCycleT = k.sCycleT
  BY <1>1, <1>4 DEF Typed
<1>7. ASSUME ~(k.count < k.target),
             NEW n, n = [k EXCEPT !.out = out, !.count = @ - k.target]
      PROVE  n \in Typed /\ n.mode = k.mode /\ n.sCycleT = k.sCycleT
  <2>1. k.count - k.target \in Nat
    BY <1>1, <1>7
  <2>2. QED
    BY <1>1, <1>4, <1>7, <2>1 DEF Typed
<1>8. TestTarget(k) \in Typed /\ TestTarget(k).mode = k.mode
      /\ TestTarget(k).sCycleT = k.sCycleT
  BY <1>5, <1>6, <1>7
<1>9. TestOverflow(k) \in Typed /\ TestOverflow(k).mode = k.mode
      /\ TestOverflow(k).sCycleT = k.sCycleT
  <2>1. CASE k.count < Top
    BY <2>1 DEF TestOverflow
  <2>2. CASE ~(k.count < Top)
    <3>1. k.count - Top \in Nat
      BY <1>1, <2>2
    <3>2. TestOverflow(k) = [k EXCEPT !.count = k.count - Top, !.future = FALSE,
                                      !.out = over]
      BY <1>3, <2>2, Zenon DEF TestOverflow
    <3>3. QED
      BY <1>1, <1>4, <3>1, <3>2 DEF Typed
  <2>3. QED
    BY <2>1, <2>2
<1>10. QED
  BY <1>8, <1>9

\* If the timer counts, it counts from a cycle between lo and hi.
Since(k, lo, hi) ==
  k.mode.IsCounting => \E s \in Int : k.sCycleT = U32(s) /\ lo <= s /\ s <= hi

\* A timer that is restarted has its types, and counts from start.
LEMMA RestartedTyped ==
  ASSUME NEW k \in Typed, NEW start \in 0..CycleCount - 1
  PROVE  Restarted(k, start) \in Typed /\ Restarted(k, start).sCycleT = start
<1>1. PICK m : m = [k.mode EXCEPT !.IsCounting = TRUE]
  OBVIOUS
<1>2. m \in Mode
  BY <1>1 DEF Typed, Mode
<1>3. PICK n : n = [k EXCEPT !.mode = m, !.count = 0, !.future = FALSE, !.sCycleT = start]
  OBVIOUS
<1>4. n \in Typed /\ n.sCycleT = start
  BY <1>2, <1>3 DEF Typed
<1>5. Restarted(k, start) = n
  BY <1>1, <1>3 DEF Restarted, Typed
<1>6. QED
  BY <1>4, <1>5

\* The timer started or stopped with a count.
Put(k, c, b, start) ==
  [k EXCEPT !.count = c, !.mode.IsCounting = b, !.sCycleT = start]

\* So has a timer that is started or stopped.
LEMMA PutTyped ==
  ASSUME NEW k \in Typed, NEW c \in Nat, NEW b \in BOOLEAN,
         NEW start \in 0..CycleCount - 1
  PROVE  /\ Put(k, c, b, start) \in Typed /\ Put(k, c, b, start).sCycleT = start
         /\ Put(k, c, b, start).mode.IsCounting = b
<1>1. PICK m : m = [k.mode EXCEPT !.IsCounting = b]
  OBVIOUS
<1>2. m \in Mode /\ m.IsCounting = b
  BY <1>1 DEF Typed, Mode
<1>3. PICK n : n = [k EXCEPT !.count = c, !.mode = m, !.sCycleT = start]
  OBVIOUS
<1>4. n \in Typed /\ n.sCycleT = start /\ n.mode.IsCounting = b
  BY <1>2, <1>3 DEF Typed
<1>5. Put(k, c, b, start) = n
  BY <1>1, <1>3 DEF Put, Typed
<1>6. QED
  BY <1>4, <1>5

\* rcntStartGate: the timer counts from start, or from where it did; without
\* a gate only the hblank clock can have changed it.
LEMMA StartGateTyped ==
  ASSUME NEW k \in Typed, NEW vblank \in BOOLEAN, NEW start \in 0..CycleCount - 1,
         NEW n, n = StartGate(k, vblank, start)
  PROVE  /\ n \in Typed
         /\ n.sCycleT = start \/ (n.sCycleT = k.sCycleT /\ n.mode = k.mode)
         /\ ~AtGate(k, vblank) => n = k \/ (n.mode = k.mode /\ k.mode.rate = 0)
<1>1. PICK ticked : ticked = [k EXCEPT !.count = @ + 1]
  OBVIOUS
<1>2. ticked \in Typed /\ ticked.mode = k.mode /\ ticked.sCycleT = k.sCycleT
  BY <1>1 DEF Typed
<1>3. PICK i : i = IF ~vblank /\ k.mode.IsCounting /\ k.mode.rate = 0
                   THEN TestOverflow(TestTarget(ticked)) ELSE k
  OBVIOUS
<1>4. /\ i \in Typed /\ i.mode = k.mode /\ i.sCycleT = k.sCycleT
      /\ i = k \/ k.mode.rate = 0
  BY <1>2, <1>3, TestsTyped
<1>5. PICK started : started = [i EXCEPT !.mode.IsCounting = TRUE, !.sCycleT = start]
  OBVIOUS
<1>6. n = IF ~AtGate(k, vblank) THEN i
          ELSE CASE k.mode.GateMode = 0 -> started
                 [] k.mode.GateMode = 2 -> i
                 [] OTHER -> Restarted(i, start)
  BY <1>1, <1>3, <1>5 DEF StartGate
<1>7. started \in Typed /\ started.sCycleT = start
  <2>1. started = Put(i, i.count, TRUE, start)
    BY <1>4, <1>5 DEF Typed, Put
  <2>2. i.count \in Nat
    BY <1>4 DEF Typed
  <2>3. \A b \in BOOLEAN : /\ Put(i, i.count, b, start) \in Typed
                            /\ Put(i, i.count, b, start).sCycleT = start
    BY <1>4, <2>2, PutTyped
  <2>4. /\ Put(i, i.count, TRUE, start) \in Typed
        /\ Put(i, i.count, TRUE, start).sCycleT = start
    BY <2>3, Zenon
  <2>5. QED
    BY <2>1, <2>4
<1>8. Restarted(i, start) \in Typed /\ Restarted(i, start).sCycleT = start
  BY <1>4, RestartedTyped
<1>9. QED
  BY <1>4, <1>6, <1>7, <1>8

\* rcntEndGate: the same, and without a gate it does nothing.
LEMMA EndGateTyped ==
  ASSUME NEW t \in Int, cycle = U32(t),
         NEW k \in Typed, NEW vblank \in BOOLEAN, NEW start \in 0..CycleCount - 1,
         NEW n, n = EndGate(k, vblank, start)
  PROVE  /\ n \in Typed
         /\ n.sCycleT = start \/ n = k
         /\ ~AtGate(k, vblank) => n = k
<1>1. PICK i : i = [k EXCEPT !.count = Rcount(k), !.mode.IsCounting = FALSE,
                             !.sCycleT = start]
  OBVIOUS
<1>2. i \in Typed /\ i.sCycleT = start
  <2>1. i = Put(k, Rcount(k), FALSE, start)
    BY <1>1 DEF Put
  <2>2. Rcount(k) \in Nat
    BY FoldedTyped
  <2>3. QED
    BY <2>1, <2>2, PutTyped
<1>3. n = IF ~AtGate(k, vblank) THEN k
          ELSE CASE k.mode.GateMode = 0 -> i
                 [] k.mode.GateMode = 1 -> k
                 [] OTHER -> Restarted(k, start)
  BY <1>1 DEF EndGate
<1>4. Restarted(k, start) \in Typed /\ Restarted(k, start).sCycleT = start
  BY RestartedTyped
<1>5. QED
  BY <1>2, <1>3, <1>4

\* _rcntSetGate leaves the timer, or stops it.
LEMMA SetGateTyped ==
  ASSUME NEW k \in Typed, cycle \in 0..CycleCount - 1
  PROVE  SetGate(k) \in Typed /\ (SetGate(k) = k \/ ~SetGate(k).mode.IsCounting)
<1>1. PICK n : n = [k EXCEPT !.mode.IsCounting = FALSE, !.count = 0, !.sCycleT = cycle]
  OBVIOUS
<1>2. n = Put(k, 0, FALSE, cycle)
  BY <1>1 DEF Typed, Put
<1>3. n \in Typed /\ ~n.mode.IsCounting
  BY <1>2, PutTyped
<1>4. SetGate(k) = IF GateEnabled(k) THEN n ELSE k
  BY <1>1, Zenon DEF SetGate
<1>5. QED
  BY <1>3, <1>4

-----------------------------------------------------------------------------
(* The schedule *)

\* cpuSetNextEvent takes the earlier of two cycles that are near.
LEMMA SetNextEventIs ==
  ASSUME NEW e \in Int, NEW s \in Int, NEW d \in Int, -Half <= e - s, e - s < Half
  PROVE  SetNextEvent(U32(e), U32(s), d) = U32(Min2(e, s + d))
<1>1. S32(U32(e) - U32(s)) = e - s
  BY Distance
<1>2. U32(U32(s) + d) = U32(s + d)
  BY Later
<1>3. SetNextEvent(U32(e), U32(s), d) = IF e - s > d THEN U32(s + d) ELSE U32(e)
  BY <1>1, <1>2 DEF SetNextEvent
<1>4. Min2(e, s + d) = IF e - s > d THEN s + d ELSE e
  <2>1. Min2(e, s + d) = IF e < s + d THEN e ELSE s + d
    BY DEF Min2
  <2>2. QED
    BY <2>1
<1>5. QED
  BY <1>3, <1>4

\* The count that is tested next, the cycles that are left to it.
Limit(k) == IF k.future THEN Top ELSE k.target
Left(k) == (Limit(k) - k.count) * k.mode.rate - Age(k)

\* A count that is passed, at which _rcntSet asks for another update soon.
Passed(k) == k.count > Top \/ (~k.future /\ k.count > k.target)

\* The cycles of the counts up to a limit are at most those up to the top.
LEMMA Products ==
  ASSUME NEW c \in Nat, NEW l \in Nat, NEW r \in Nat, l <= Top, c <= l
  PROVE  (l - c) * r \in Nat /\ (l - c) * r <= Top * r
<1>1. Top \in Nat /\ l - c \in Nat /\ Top - (l - c) \in Nat
  BY Lengths
<1>2. \A a, b \in Nat : a * b \in Nat
  OBVIOUS
<1>3. (l - c) * r \in Nat /\ (Top - (l - c)) * r \in Nat /\ Top * r \in Nat
  BY <1>1, <1>2
<1>4. \A a, b \in Int : (a - b) * r = a * r - b * r
  OBVIOUS
<1>5. (Top - (l - c)) * r = Top * r - (l - c) * r
  BY <1>1, <1>4
<1>6. QED
  BY <1>3, <1>5

\* What _rcntSet computes, in 32 bits, is the distance it means.
LEMMA UntilCountIs ==
  ASSUME NEW t \in Int, cycle = U32(t), NEW n \in Int, n <= t,
         NEW v \in Vs, t - n < v + MaxBlock,
         NEW k \in Typed, Bus(k), Since(k, n - Lag, t),
         NEW l \in Nat, l <= Top, k.count <= l
  PROVE  /\ UntilCount(k, l, U32(n)) = (l - k.count) * k.mode.rate - Age(k) + (t - n)
         /\ UntilCount(k, l, U32(n)) \in Int /\ UntilCount(k, l, U32(n)) >= -Lag
<1>1. PICK s \in Int : k.sCycleT = U32(s) /\ n - Lag <= s /\ s <= t
  BY DEF Since, Bus
<1>2. /\ k.mode.rate \in Rates /\ k.mode.rate \in Nat /\ k.count \in Nat
  BY Lengths DEF Bus, Typed, Mode
<1>3. PICK D \in Nat : D = (l - k.count) * k.mode.rate /\ D + v + MaxBlock < Half
  <2>1. /\ (l - k.count) * k.mode.rate \in Nat
        /\ (l - k.count) * k.mode.rate <= Top * k.mode.rate
    BY <1>2, Products
  <2>2. Top * k.mode.rate + v + MaxBlock < Half /\ Top * k.mode.rate \in Int
    BY <1>2, Lengths
  <2>3. (l - k.count) * k.mode.rate + v + MaxBlock < Half
    BY <2>1, <2>2, Lengths, HalfOf
  <2>4. QED
    BY <2>1, <2>3
<1>4. /\ v \in Nat /\ MaxBlock \in Nat /\ Lag \in Nat /\ v + MaxBlock + Lag < Half
      /\ Half \in Nat /\ CycleCount = 2 * Half
  <2>1. \E r \in Rates : TRUE
    BY <1>2
  <2>2. QED
    BY <1>2, <2>1, Lengths, HalfOf
<1>5. Age(k) = t - s /\ U32(cycle - U32(n)) = t - n
  <2>1. 0 <= t - s /\ t - s < CycleCount /\ 0 <= t - n /\ t - n < CycleCount
    BY <1>1, <1>4
  <2>2. QED
    BY <1>1, <2>1, Elapsed DEF Age
<1>6. S32(D - (t - s) + (t - n)) = D - (t - s) + (t - n)
  <2>1. PICK y \in Int : y = D - (t - s) + (t - n)
    OBVIOUS
  <2>2. -Half <= y /\ y < Half
    BY <1>1, <1>3, <1>4, <2>1
  <2>3. y = y + 0 * CycleCount
    BY <1>4
  <2>4. QED
    BY <2>1, <2>2, <2>3, S32Near DEF Same
<1>7. UntilCount(k, l, U32(n)) = D - (t - s) + (t - n)
  BY <1>3, <1>5, <1>6 DEF UntilCount
<1>8. QED
  BY <1>1, <1>3, <1>4, <1>5, <1>7

\* The minimum of one value and of two.
LEMMA MinOfTwo ==
  ASSUME NEW a \in Int, NEW b \in Int
  PROVE  Min({a}) = a /\ Min({a, b}) \in {a, b} /\ Min({a, b}) <= a /\ Min({a, b}) <= b
<1>1. \E x \in {a} : \A y \in {a} : x <= y
  OBVIOUS
<1>2. \E x \in {a, b} : \A y \in {a, b} : x <= y
  <2>1. CASE a <= b
    BY <2>1
  <2>2. CASE b <= a
    BY <2>2
  <2>3. QED
    BY <2>1, <2>2
<1>3. Min({a}) \in {a} /\ \A y \in {a} : Min({a}) <= y
  BY <1>1 DEF Min
<1>4. Min({a, b}) \in {a, b} /\ \A y \in {a, b} : Min({a, b}) <= y
  BY <1>2 DEF Min
<1>5. QED
  BY <1>3, <1>4

\* _rcntSet only makes the next update and the next event test earlier, but for
\* the four cycles; an update that is not four cycles after the last is in time.
LEMMA RcntSetIs ==
  ASSUME NEW t \in Int, cycle = U32(t), NEW n \in Int, n <= t,
         NEW v \in Vs, t - n < v + MaxBlock,
         NEW e \in Int, -Half <= e - n, e - n < Half, NEW next \in Int,
         NEW k \in Typed, Since(k, n - Lag, t),
         NEW r, r = RcntSet(k, U32(n), next, U32(e))
  PROVE  /\ r.next \in Int /\ r = [next |-> r.next, event |-> r.event]
         /\ \E f \in Int :
              /\ r.event = U32(f)
              /\ \/ r.next \in {next, 4} /\ f = e
                 \/ r.next < next /\ r.next >= -Lag /\ f = Min2(e, n + r.next)
         /\ Bus(k) => r.next = 4 \/ n + r.next <= t + Left(k)
<1>1. CASE ~Bus(k)
  <2>1. r = [next |-> next, event |-> U32(e)]
    BY <1>1 DEF RcntSet
  <2>2. QED
    BY <1>1, <2>1
<1>2. CASE Bus(k) /\ Passed(k)
  <2>1. r = [next |-> 4, event |-> U32(e)]
    BY <1>2 DEF RcntSet, Passed
  <2>2. QED
    BY <1>2, <2>1
<1>3. CASE Bus(k) /\ ~Passed(k)
  <2>1. /\ k.count \in Nat /\ k.count <= Top /\ Top \in Nat
        /\ k.target \in Nat /\ k.target <= Top /\ k.future \in BOOLEAN
        /\ ~k.future => k.count <= k.target
    <3>1. k.count \in Nat /\ k.target \in 0..Top - 1 /\ k.future \in BOOLEAN
          /\ Top \in Nat
      BY Lengths DEF Typed
    <3>2. QED
      BY <1>3, <3>1 DEF Passed
  <2>2. PICK top : top = UntilCount(k, Top, U32(n))
    OBVIOUS
  <2>3. PICK tar : tar = UntilCount(k, k.target, U32(n))
    OBVIOUS
  <2>4. /\ top \in Int /\ top >= -Lag
        /\ top = (Top - k.count) * k.mode.rate - Age(k) + (t - n)
    BY <1>3, <2>1, <2>2, UntilCountIs
  <2>5. ~k.future => /\ tar \in Int /\ tar >= -Lag
                     /\ tar = (k.target - k.count) * k.mode.rate - Age(k) + (t - n)
    BY <1>3, <2>1, <2>3, UntilCountIs
  <2>6. PICK due \in Int : /\ due = Min({top} \cup IF k.future THEN {} ELSE {tar})
                           /\ due >= -Lag /\ n + due <= t + Left(k)
    <3>1. CASE k.future
      <4>1. Min({top} \cup IF k.future THEN {} ELSE {tar}) = top
        <5>1. {top} \cup (IF k.future THEN {} ELSE {tar}) = {top}
          BY <3>1
        <5>2. Min({top}) = top
          BY <2>4, MinOfTwo
        <5>3. QED
          BY <5>1, <5>2
      <4>2. Left(k) = (Top - k.count) * k.mode.rate - Age(k)
        BY <3>1 DEF Left, Limit
      <4>3. (Top - k.count) * k.mode.rate \in Int /\ Age(k) \in Int
        <5>1. k.mode.rate \in Int
          BY <1>3, Lengths DEF Bus, Typed, Mode
        <5>2. Top - k.count \in Int
          BY <2>1
        <5>3. QED
          BY <5>1, <5>2, FoldedTyped
      <4>4. n + top <= t + Left(k)
        BY <2>4, <4>2, <4>3
      <4>5. QED
        BY <2>4, <4>1, <4>4
    <3>2. CASE ~k.future
      <4>1. PICK due : due = Min({top, tar})
        OBVIOUS
      <4>2. due \in {top, tar} /\ due <= tar
        BY <2>4, <2>5, <3>2, <4>1, MinOfTwo
      <4>3. {top} \cup (IF k.future THEN {} ELSE {tar}) = {top, tar}
        BY <3>2
      <4>4. Left(k) = (k.target - k.count) * k.mode.rate - Age(k)
        BY <3>2 DEF Left, Limit
      <4>5. (k.target - k.count) * k.mode.rate \in Int /\ Age(k) \in Int
        <5>1. k.mode.rate \in Int
          BY <1>3, Lengths DEF Bus, Typed, Mode
        <5>2. k.target - k.count \in Int
          BY <2>1
        <5>3. QED
          BY <5>1, <5>2, FoldedTyped
      <4>6. n + tar <= t + Left(k)
        BY <2>5, <3>2, <4>4, <4>5
      <4>7. due \in Int /\ due >= -Lag
        BY <2>4, <2>5, <3>2, <4>2
      <4>8. t + Left(k) \in Int
        BY <4>4, <4>5
      <4>9. n + due <= t + Left(k)
        BY <2>5, <3>2, <4>2, <4>6, <4>7, <4>8
      <4>10. QED
        BY <4>1, <4>3, <4>7, <4>9
    <3>3. QED
      BY <2>1, <3>1, <3>2
  <2>7. r = IF due < next
            THEN [next |-> due, event |-> SetNextEvent(U32(e), U32(n), due)]
            ELSE [next |-> next, event |-> U32(e)]
    BY <1>3, <2>2, <2>3, <2>6 DEF RcntSet, Passed
  <2>8. CASE due < next
    <3>1. SetNextEvent(U32(e), U32(n), due) = U32(Min2(e, n + due))
      BY SetNextEventIs
    <3>2. /\ r.next = due /\ r.event = U32(Min2(e, n + due))
          /\ r = [next |-> r.next, event |-> r.event]
      BY <2>7, <2>8, <3>1
    <3>3. Min2(e, n + due) \in Int
      BY DEF Min2
    <3>4. QED
      BY <2>6, <2>8, <3>2, <3>3
  <2>9. CASE ~(due < next)
    <3>1. /\ r.next = next /\ r.event = U32(e)
          /\ r = [next |-> r.next, event |-> r.event]
      BY <2>7, <2>9
    <3>2. n + next <= t + Left(k)
      <4>1. Left(k) \in Int
        <5>1. k.mode.rate \in Int /\ Age(k) \in Int
          BY <1>3, Lengths, FoldedTyped DEF Bus, Typed, Mode
        <5>2. Limit(k) - k.count \in Int
          BY <2>1 DEF Limit
        <5>3. (Limit(k) - k.count) * k.mode.rate \in Int
          BY <5>1, <5>2
        <5>4. QED
          BY <5>1, <5>3 DEF Left
      <4>2. QED
        BY <2>6, <2>9, <4>1
    <3>3. QED
      BY <3>1, <3>2
  <2>10. QED
    BY <2>8, <2>9
<1>4. QED
  BY <1>1, <1>2, <1>3

\* The other timers make the next update earlier, or put it off to four cycles
\* after the last; the event test only becomes earlier.
LEMMA RcntSetOthersIs ==
  ASSUME NEW n \in Int, NEW o \in Others,
         NEW e \in Int, -Half <= e - n, e - n < Half, NEW next \in Int,
         NEW r, r.next = next, r.event = U32(e),
         NEW q, q = RcntSetOthers(o, U32(n), r)
  PROVE  /\ q.next \in Int /\ q = [next |-> q.next, event |-> q.event]
         /\ \E f \in Int :
              /\ q.event = U32(f)
              /\ \/ q.next \in {next, 4} /\ f = e
                 \/ /\ q.next < next \/ q.next < 4
                    /\ q.next >= -Lag /\ f = Min2(e, n + q.next)
<1>1. PICK m \in Int : m = IF o.past THEN 4 ELSE next
  BY OthersAre
<1>2. PICK due \in Int : due = o.due /\ -Lag <= due
  BY OthersAre
<1>3. q = IF due < m THEN [next |-> due, event |-> SetNextEvent(U32(e), U32(n), due)]
                     ELSE [next |-> m, event |-> U32(e)]
  BY <1>1, <1>2 DEF RcntSetOthers
<1>4. SetNextEvent(U32(e), U32(n), due) = U32(Min2(e, n + due))
  BY SetNextEventIs
<1>5. Min2(e, n + due) \in Int /\ m \in {next, 4}
  BY <1>1 DEF Min2
<1>6. CASE due < m
  <2>1. /\ q.next = due /\ q.event = U32(Min2(e, n + due))
        /\ q = [next |-> q.next, event |-> q.event]
    BY <1>3, <1>4, <1>6
  <2>2. due < next \/ due < 4
    BY <1>5, <1>6
  <2>3. QED
    BY <1>2, <1>5, <2>1, <2>2
<1>7. CASE ~(due < m)
  <2>1. q.next = m /\ q.event = U32(e) /\ q = [next |-> q.next, event |-> q.event]
    BY <1>3, <1>7
  <2>2. QED
    BY <1>5, <2>1
<1>8. QED
  BY <1>6, <1>7

-----------------------------------------------------------------------------
(* The inductive invariant *)

\* The cycles as they would be if they did not wrap: the current one, the last
\* update, the next event test, the start of the part of the frame, and of the
\* scanline.
Cycles(t, tn, te, tv, th) ==
  /\ cycle = U32(t) /\ nextsCounter = U32(tn) /\ g_nextEventCycle = U32(te)
  /\ vsync.sCycle = U32(tv) /\ hsync.sCycle = U32(th)

\* The ends of these parts, and the latest cycle for the next update.
VEnd(tv) == tv + VCycleT(vsync)
HEnd(th) == th + HCycleT(hsync)
Latest(tn, tv) == Max2(VEnd(tv), tn + 4)

\* The part of a scanline has started, unless the rounding error has put it off
\* at the vertical blank, which is not over when it starts.
Started(t, tv, th) ==
  th <= t \/ (vsync.blank /\ th < tv + 4 + MaxBlock + HSyncError)

Scheduled(t, tn, te, tv, th) ==
  /\ tn <= t /\ t < Latest(tn, tv) + MaxBlock
  /\ tv <= tn /\ tn < VEnd(tv)
  /\ Started(t, tv, th) /\ t < HEnd(th) + MaxBlock
  /\ tested => t < Latest(tn, tv) /\ t < HEnd(th)
  /\ tn - Lag <= te /\ te <= HEnd(th) /\ te <= Latest(tn, tv)
  /\ nextCounter # 4 => te <= tn + nextCounter
  /\ -Lag <= nextCounter /\ tn + nextCounter <= Latest(tn, tv)

TimerInTime(t, tn) ==
  /\ Since(counter, tn - Lag, t)
  /\ Bus(counter) /\ ~ByHblank =>
       \/ Soon \/ tn + nextCounter <= t + Left(counter) \/ tn + nextCounter <= t

Part == [blank : BOOLEAN, sCycle : 0..CycleCount - 1]

TimeTypes ==
  /\ counter \in Typed /\ nextCounter \in Int
  /\ vsync \in Part /\ hsync \in Part /\ gates \in BOOLEAN /\ tested \in BOOLEAN

TimeInv ==
  /\ TimeTypes
  /\ \E t, tn, te, tv, th \in Int :
       /\ Cycles(t, tn, te, tv, th)
       /\ Scheduled(t, tn, te, tv, th)
       /\ TimerInTime(t, tn)

\* Both parts of a frame and of a scanline have their lengths.
LEMMA PartLengths ==
  ASSUME NEW s \in Part
  PROVE  /\ VCycleT(s) \in Vs /\ VCycleT(s) \in Int
         /\ HCycleT(s) \in Hs /\ HCycleT(s) \in Int
<1>1. VRender \in Int /\ VBlank \in Int /\ HRender \in Int /\ HBlank \in Int
  BY CountersAssumption
<1>2. QED
  BY <1>1 DEF Part, VCycleT, HCycleT, Vs, Hs

\* Everything is near: less than half of all cycles away.
LEMMA Near ==
  ASSUME TimeTypes, NEW t \in Int, NEW tn \in Int, NEW te \in Int, NEW tv \in Int,
         NEW th \in Int, Scheduled(t, tn, te, tv, th)
  PROVE  /\ VCycleT(vsync) \in Vs /\ HCycleT(hsync) \in Hs
         /\ t - tn < VCycleT(vsync) + MaxBlock
         /\ t - te < Half /\ te - t < Half /\ -Half <= te - tn /\ te - tn < Half
         /\ t - tv < Half /\ t - th < Half /\ th - t < VBlank /\ -Half <= t - th
         /\ VEnd(tv) - t < Half /\ -Half <= VEnd(tv) - t
         /\ HEnd(th) - t < Half /\ -Half <= HEnd(th) - t
         /\ tn + nextCounter - t < Half /\ -Half <= tn + nextCounter - t
         /\ tn + 4 - t < Half /\ -Half <= tn + 4 - t
<1>1. PICK v \in Vs : v = VCycleT(vsync)
  BY PartLengths DEF TimeTypes
<1>2. PICK h \in Hs : h = HCycleT(hsync)
  BY PartLengths DEF TimeTypes
<1>3. /\ v \in Nat /\ h \in Nat /\ h > 0 /\ MaxBlock \in Nat /\ MaxBlock > 0
      /\ Lag \in Int /\ Half \in Nat
      /\ 4 + MaxBlock <= v /\ v + MaxBlock + Lag < Half
      /\ h + MaxBlock < Lag /\ v + h + 2 * MaxBlock < Half
  BY Lengths, HalfOf
<1>4. /\ VEnd(tv) = tv + v /\ HEnd(th) = th + h
      /\ Latest(tn, tv) = IF tv + v < tn + 4 THEN tn + 4 ELSE tv + v
      /\ nextCounter \in Int
  BY <1>1, <1>2 DEF VEnd, HEnd, Latest, Max2, TimeTypes
<1>5. /\ tn <= t /\ t < Latest(tn, tv) + MaxBlock
      /\ tv <= tn /\ tn < tv + v /\ Started(t, tv, th) /\ t < th + h + MaxBlock
      /\ tn - Lag <= te /\ te <= th + h /\ te <= Latest(tn, tv)
      /\ -Lag <= nextCounter /\ tn + nextCounter <= Latest(tn, tv)
  BY <1>4 DEF Scheduled
<1>6. Latest(tn, tv) \in Int /\ Latest(tn, tv) <= tn + v
  BY <1>3, <1>4, <1>5
<1>7. t - tn < v + MaxBlock /\ v + MaxBlock < Half
  BY <1>3, <1>5, <1>6
<1>8. t - te < Half /\ te - t < Half /\ -Half <= te - tn /\ te - tn < Half
  BY <1>3, <1>5, <1>6, <1>7
<1>9. t - tv < Half /\ t - th < Half /\ th - t < VBlank /\ VBlank + h < Half
      /\ VBlank \in Nat /\ -Half <= t - th
  <2>1. t < tv + v + 3 + MaxBlock \/ t < tv + v + MaxBlock
    BY <1>3, <1>4, <1>5
  <2>2. 3 + v + MaxBlock < Half
    BY <1>3
  <2>3. t - tv < Half /\ t - th < Half
    BY <1>3, <1>5, <2>1, <2>2
  <2>4. /\ VBlank \in Nat /\ VBlank > 0 /\ VBlank + h + 2 * MaxBlock < Half
        /\ HSyncError \in Int /\ 4 + MaxBlock + HSyncError <= VBlank
    BY <1>3, ErrorIs, Lengths
  <2>5. th - t < VBlank
    BY <1>3, <1>5, <2>4 DEF Started
  <2>6. QED
    BY <1>3, <2>3, <2>4, <2>5
<1>10. /\ tv + v - t < Half /\ -Half <= tv + v - t
       /\ th + h - t < Half /\ -Half <= th + h - t
       /\ tn + nextCounter - t < Half /\ -Half <= tn + nextCounter - t
       /\ tn + 4 - t < Half /\ -Half <= tn + 4 - t
  BY <1>3, <1>4, <1>5, <1>6, <1>7, <1>9
<1>11. /\ VEnd(tv) - t < Half /\ -Half <= VEnd(tv) - t
       /\ HEnd(th) - t < Half /\ -Half <= HEnd(th) - t
  BY <1>3, <1>4, <1>10
<1>12. t - tn < VCycleT(vsync) + MaxBlock
  BY <1>1, <1>7
<1>13. VCycleT(vsync) \in Vs /\ HCycleT(hsync) \in Hs
  BY <1>1, <1>2
<1>14. QED
  BY <1>8, <1>9, <1>10, <1>11, <1>12, <1>13

\* The age of the timer is the time since it counts.
LEMMA AgeIs ==
  ASSUME TimeTypes, NEW t \in Int, NEW tn \in Int, NEW te \in Int, NEW tv \in Int,
         NEW th \in Int, Scheduled(t, tn, te, tv, th), cycle = U32(t),
         NEW s \in Int, counter.sCycleT = U32(s), tn - Lag <= s, s <= t
  PROVE  Age(counter) = t - s
<1>1. t - tn < VCycleT(vsync) + MaxBlock /\ VCycleT(vsync) \in Vs
  BY Near
<1>2. t - s < Half
  <2>1. VCycleT(vsync) + MaxBlock + Lag < Half /\ VCycleT(vsync) \in Nat
    BY <1>1, Lengths
  <2>2. QED
    BY <1>1, <2>1, Lengths, HalfOf
<1>3. QED
  BY <1>2, Elapsed, HalfOf DEF Age

\* What the invariant says is what the schedule promises.
LEMMA TimeImplies == TimeInv => NextEventInTime
<1> SUFFICES ASSUME TimeInv, ~Due PROVE NextEventInTime
  BY DEF NextEventInTime
<1>1. PICK t, tn, te, tv, th \in Int :
        Cycles(t, tn, te, tv, th) /\ Scheduled(t, tn, te, tv, th) /\ TimerInTime(t, tn)
  BY DEF TimeInv
<1>2. /\ UntilUpdate = tn + nextCounter - t
      /\ UntilEvent = te - t
      /\ Until(vsync.sCycle + VCycleT(vsync)) = VEnd(tv) - t
      /\ Until(hsync.sCycle + HCycleT(hsync)) = HEnd(th) - t
      /\ Until(nextsCounter + 4) = tn + 4 - t
      /\ nextCounter \in Int /\ VEnd(tv) \in Int /\ HEnd(th) \in Int
  <2>1. PICK v \in Int, h \in Int : v = VCycleT(vsync) /\ h = HCycleT(hsync)
    BY PartLengths DEF TimeInv, TimeTypes
  <2>2. nextCounter \in Int /\ VEnd(tv) = tv + v /\ HEnd(th) = th + h
    BY <2>1 DEF TimeInv, TimeTypes, VEnd, HEnd
  <2>3. /\ -Half <= tn + nextCounter - t /\ tn + nextCounter - t < Half
        /\ -Half <= tn + 4 - t /\ tn + 4 - t < Half
        /\ -Half <= te - t /\ te - t < Half
        /\ -Half <= tv + v - t /\ tv + v - t < Half
        /\ -Half <= th + h - t /\ th + h - t < Half
    <3>1. TimeTypes
      BY DEF TimeInv
    <3>2. /\ -Half <= tn + nextCounter - t /\ tn + nextCounter - t < Half
          /\ -Half <= tn + 4 - t /\ tn + 4 - t < Half
          /\ te - t < Half /\ t - te < Half
          /\ -Half <= VEnd(tv) - t /\ VEnd(tv) - t < Half
          /\ -Half <= HEnd(th) - t /\ HEnd(th) - t < Half
      BY <1>1, <3>1, Near
    <3>3. -Half <= te - t
      BY <3>2, HalfOf
    <3>4. QED
      BY <2>2, <3>2, <3>3
  <2>4. /\ S32(U32(tn) + nextCounter - U32(t)) = tn + nextCounter - t
        /\ S32(U32(tn) + 4 - U32(t)) = tn + 4 - t
        /\ S32(U32(te) - U32(t)) = te - t
        /\ S32(U32(tv) + v - U32(t)) = tv + v - t
        /\ S32(U32(th) + h - U32(t)) = th + h - t
    BY <2>2, <2>3, Signed, Distance
  <2>5. /\ cycle = U32(t) /\ nextsCounter = U32(tn) /\ g_nextEventCycle = U32(te)
        /\ vsync.sCycle = U32(tv) /\ hsync.sCycle = U32(th)
    BY <1>1 DEF Cycles
  <2>6. /\ UntilUpdate = S32((nextsCounter + nextCounter) - cycle)
        /\ UntilEvent = S32(g_nextEventCycle - cycle)
        /\ Until(nextsCounter + 4) = S32((nextsCounter + 4) - cycle)
        /\ Until(vsync.sCycle + VCycleT(vsync))
             = S32((vsync.sCycle + VCycleT(vsync)) - cycle)
        /\ Until(hsync.sCycle + HCycleT(hsync))
             = S32((hsync.sCycle + HCycleT(hsync)) - cycle)
    BY Zenon DEF UntilUpdate, UntilEvent, Until
  <2>7. /\ S32((nextsCounter + nextCounter) - cycle) = S32(U32(tn) + nextCounter - U32(t))
        /\ S32(g_nextEventCycle - cycle) = S32(U32(te) - U32(t))
        /\ S32((nextsCounter + 4) - cycle) = S32(U32(tn) + 4 - U32(t))
        /\ S32((vsync.sCycle + VCycleT(vsync)) - cycle) = S32(U32(tv) + v - U32(t))
        /\ S32((hsync.sCycle + HCycleT(hsync)) - cycle) = S32(U32(th) + h - U32(t))
    <3>1. U32(t) \in Int /\ U32(tn) \in Int /\ U32(tv) \in Int /\ U32(th) \in Int
      BY U32Same
    <3>2. QED
      BY <2>1, <2>2, <2>5, <3>1
  <2>8. QED
    BY <2>2, <2>4, <2>6, <2>7
<1>3. UntilUpdate <= Max2(Until(vsync.sCycle + VCycleT(vsync)),
                          Max2(Until(nextsCounter + 4), 0))
  BY <1>1, <1>2 DEF Scheduled, Latest, Max2
<1>4. ASSUME Bus(counter), ~ByHblank, ~Soon PROVE UntilUpdate <= Max2(UntilTested, 0)
  <2>1. UntilTested = Left(counter) /\ Left(counter) \in Int
    <3>1. /\ counter.mode.rate \in Int /\ Age(counter) \in Int
      BY <1>1, <1>4, Lengths, FoldedTyped DEF Bus, Typed, Mode, TimeInv, TimeTypes, Cycles
    <3>2. Limit(counter) - counter.count \in Int
      BY Lengths DEF Limit, TimeInv, TimeTypes, Typed
    <3>3. (Limit(counter) - counter.count) * counter.mode.rate \in Int
      BY <3>1, <3>2
    <3>4. QED
      BY <3>1, <3>3 DEF Left, UntilTested, Limit
  <2>2. tn + nextCounter <= t + Left(counter) \/ tn + nextCounter <= t
    BY <1>1, <1>4 DEF TimerInTime
  <2>3. QED
    BY <1>2, <2>1, <2>2 DEF Max2
<1>5. ASSUME nextCounter # 4 PROVE UntilEvent <= Max2(UntilUpdate, 0)
  BY <1>1, <1>2, <1>5 DEF Scheduled, Max2
<1>6. UntilEvent <= Until(hsync.sCycle + HCycleT(hsync))
  BY <1>1, <1>2 DEF Scheduled
<1>7. QED
  BY <1>3, <1>4, <1>5, <1>6 DEF NextEventInTime

-----------------------------------------------------------------------------
(* Every step keeps the schedule *)

\* rcntInit schedules the first update and the first event test.
LEMMA InitTime == Init => TimeInv
<1> SUFFICES ASSUME Init PROVE TimeInv
  OBVIOUS
<1>1. /\ VRender \in Nat /\ HRender \in Nat /\ HRender > 0 /\ MaxBlock \in Nat
      /\ MaxBlock > 0
      /\ 4 + MaxBlock <= VRender /\ Lag \in Int /\ Lag > 0 /\ HRender < Half
  <2>1. VRender \in Vs /\ HRender \in Hs
    BY DEF Vs, Hs
  <2>2. PICK v \in Vs, h \in Hs : v = VRender /\ h = HRender
    BY <2>1
  <2>3. /\ v \in Nat /\ h \in Nat \ {0} /\ MaxBlock \in Nat \ {0} /\ Lag \in Int
        /\ h + MaxBlock < Lag /\ 4 + MaxBlock <= v /\ v + h + 2 * MaxBlock < Half
    BY Lengths
  <2>4. QED
    BY <2>2, <2>3, HalfOf
<1>2. StoppedMode \in Mode
  <2>1. Min(Rates) \in Rates
    BY MinIn, CountersAssumption
  <2>2. QED
    BY <2>1 DEF StoppedMode, Mode
<1>3. NoOutcome \in Outcome
  BY DEF NoOutcome, Outcome
<1>4. CycleCount \in Nat /\ CycleCount > 0 /\ Top \in Nat /\ Top > 0
  BY CountersAssumption
<1>5. TimeTypes
  <2>1. counter \in Typed
    <3>1. Top - 1 \in 0..Top - 1 /\ 0 \in 0..CycleCount - 1
      BY <1>4
    <3>2. counter = [count |-> 0, target |-> Top - 1, future |-> FALSE,
                     sCycleT |-> 0, mode |-> StoppedMode, out |-> NoOutcome]
      BY DEF Init
    <3>3. QED
      BY <1>2, <1>3, <3>1, <3>2 DEF Typed
  <2>2. vsync \in Part /\ hsync \in Part
    BY <1>4 DEF Init, Part
  <2>3. nextCounter \in Int
    BY <1>1 DEF Init
  <2>4. gates \in BOOLEAN
    BY Zenon DEF Init
  <2>5. QED
    BY <2>1, <2>2, <2>3, <2>4 DEF TimeTypes, Init
<1>6. PICK te \in Int : te = g_nextEventCycle /\ te > 0 /\ te <= HRender /\ te <= VRender
  BY <1>1 DEF Init, Min2
<1>7. U32(0) = 0 /\ U32(te) = te
  BY <1>1, <1>4, <1>6, U32Is, HalfOf
<1>8. Cycles(0, 0, te, 0, 0)
  BY <1>6, <1>7 DEF Cycles, Init
<1>9. VCycleT(vsync) = VRender /\ HCycleT(hsync) = HRender /\ nextCounter = VRender
  BY DEF Init, VCycleT, HCycleT
<1>10. Scheduled(0, 0, te, 0, 0)
  <2>1. VEnd(0) = VRender /\ HEnd(0) = HRender /\ Latest(0, 0) = VRender
    BY <1>1, <1>9 DEF VEnd, HEnd, Latest, Max2
  <2>2. QED
    BY <1>1, <1>6, <1>9, <2>1 DEF Scheduled, Started, Init
<1>11. TimerInTime(0, 0)
  BY DEF Init, StoppedMode, TimerInTime, Since, Bus
<1>12. 0 \in Int
  OBVIOUS
<1>13. QED
  BY <1>5, <1>6, <1>8, <1>10, <1>11, <1>12 DEF TimeInv

\* The test for an event looks at the cycle of the next one.
LEMMA DueIs ==
  ASSUME TimeTypes, NEW t \in Int, NEW tn \in Int, NEW te \in Int, NEW tv \in Int,
         NEW th \in Int, Cycles(t, tn, te, tv, th), Scheduled(t, tn, te, tv, th)
  PROVE  Due <=> t >= te
<1>1. -Half <= t - te /\ t - te < Half
  <2>1. te - t < Half /\ t - te < Half
    BY Near
  <2>2. QED
    BY <2>1, HalfOf
<1>2. S32(cycle - g_nextEventCycle) = t - te
  BY <1>1, Distance DEF Cycles
<1>3. QED
  BY <1>2 DEF Due

\* A block of the program makes an update late by less than a block.
LEMMA RunTime ==
  ASSUME TimeInv, NEW b \in 1..MaxBlock, Run(b)
  PROVE  TimeInv'
<1>1. PICK t, tn, te, tv, th \in Int :
        Cycles(t, tn, te, tv, th) /\ Scheduled(t, tn, te, tv, th) /\ TimerInTime(t, tn)
  BY DEF TimeInv
<1>2. /\ TimeTypes /\ TimeTypes'
      /\ UNCHANGED <<g_nextEventCycle, nextsCounter, nextCounter, counter, gates,
                     hsync, vsync>>
      /\ Running /\ tested' = FALSE /\ cycle' = U32(cycle + b)
      /\ b \in Int /\ b >= 1 /\ b <= MaxBlock
      /\ MaxBlock \in Int
  <2>1. /\ TimeTypes /\ Running /\ tested' = FALSE /\ cycle' = U32(cycle + b)
        /\ UNCHANGED <<g_nextEventCycle, nextsCounter, nextCounter, counter, gates,
                       hsync, vsync>>
    BY Zenon DEF TimeInv, Run
  <2>2. tested' \in BOOLEAN
    BY <2>1, Zenon
  <2>3. TimeTypes'
    BY <2>1, <2>2 DEF TimeTypes
  <2>4. QED
    BY <2>1, <2>3, Lengths
<1>3. t < te \/ (t < Latest(tn, tv) /\ t < HEnd(th))
  BY <1>1, <1>2, DueIs DEF Running, Scheduled
<1>4. Cycles(t + b, tn, te, tv, th)'
  <2>1. cycle' = U32(t + b)
    BY <1>1, <1>2, Later DEF Cycles
  <2>2. QED
    BY <1>1, <1>2, <2>1 DEF Cycles
<1>5. Scheduled(t + b, tn, te, tv, th)'
  <2>1. PICK late, vend, hend \in Int :
          late = Latest(tn, tv) /\ vend = VEnd(tv) /\ hend = HEnd(th)
    BY <1>2, PartLengths DEF TimeTypes, Latest, VEnd, HEnd, Max2
  <2>2. Latest(tn, tv)' = late /\ VEnd(tv)' = vend /\ HEnd(th)' = hend
    BY <1>2, <2>1 DEF Latest, VEnd, HEnd, VCycleT, HCycleT
  <2>3. /\ tn <= t /\ Started(t, tv, th) /\ te <= hend /\ te <= late
        /\ tv <= tn /\ tn < vend /\ tn - Lag <= te
        /\ nextCounter # 4 => te <= tn + nextCounter
        /\ -Lag <= nextCounter /\ tn + nextCounter <= late
    BY <1>1, <2>1 DEF Scheduled
  <2>4. tn <= t + b /\ t + b < late + MaxBlock /\ t + b < hend + MaxBlock
    BY <1>2, <1>3, <2>1, <2>3
  <2>5. Started(t + b, tv, th)'
    BY <1>2, <2>3 DEF Started
  <2>6. QED
    BY <1>2, <2>2, <2>3, <2>4, <2>5 DEF Scheduled
<1>6. TimerInTime(t + b, tn)'
  <2>1. Since(counter, tn - Lag, t + b)'
    <3>1. Since(counter, tn - Lag, t)
      BY <1>1 DEF TimerInTime
    <3>2. ASSUME NEW s \in Int, s <= t PROVE s <= t + b
      BY <1>2, <3>2
    <3>3. QED
      BY <1>2, <3>1, <3>2 DEF Since
  <2>2. ASSUME (Bus(counter) /\ ~ByHblank)'
        PROVE  (\/ Soon
                \/ tn + nextCounter <= t + b + Left(counter)
                \/ tn + nextCounter <= t + b)'
    <3>1. Bus(counter) /\ ~ByHblank /\ (Soon' <=> Soon) /\ nextCounter \in Int
      BY <1>2, <2>2 DEF Bus, ByHblank, Soon, TimeTypes
    <3>2. PICK s \in Int : counter.sCycleT = U32(s) /\ tn - Lag <= s /\ s <= t
      BY <1>1, <3>1 DEF TimerInTime, Since, Bus
    <3>3. Age(counter) = t - s
      BY <1>1, <1>2, <3>2, AgeIs DEF Cycles
    <3>4. Age(counter)' = t + b - s
      <4>1. cycle' = U32(t + b)
        BY <1>4 DEF Cycles
      <4>2. t + b - s < CycleCount
        <5>1. PICK v \in Vs : v = VCycleT(vsync)
          BY <1>2, PartLengths DEF TimeTypes
        <5>2. t - tn < v + MaxBlock
          BY <1>1, <1>2, <5>1, Near
        <5>3. /\ v \in Nat /\ v + MaxBlock + Lag < Half /\ Lag \in Int /\ MaxBlock < Half
              /\ CycleCount = 2 * Half /\ Half \in Nat
          <6>1. /\ v \in Nat /\ v + MaxBlock + Lag < Half /\ Lag \in Int
            BY Lengths
          <6>2. Lag > 0
            <7>1. counter.mode.rate \in Rates
              BY <1>2, <3>1 DEF TimeTypes, Typed, Mode, Bus
            <7>2. QED
              BY <7>1, Lengths
          <6>3. QED
            BY <1>2, <6>1, <6>2, HalfOf
        <5>4. QED
          BY <1>2, <3>2, <5>2, <5>3
      <4>3. 0 <= t + b - s
        BY <1>2, <3>2
      <4>4. U32(U32(t + b) - U32(s)) = t + b - s
        BY <1>2, <4>2, <4>3, Elapsed
      <4>5. QED
        BY <1>2, <3>2, <4>1, <4>4 DEF Age
    <3>5. PICK D \in Int : D = (Limit(counter) - counter.count) * counter.mode.rate
      <4>1. counter.mode.rate \in Int /\ Limit(counter) - counter.count \in Int
        BY <1>2, <3>1, Lengths DEF TimeTypes, Typed, Mode, Bus, Limit
      <4>2. QED
        BY <4>1
    <3>6. Left(counter) = D - (t - s) /\ Left(counter)' = D - (t + b - s)
      BY <1>2, <3>3, <3>4, <3>5 DEF Left, Limit
    <3>7. Soon \/ tn + nextCounter <= t + Left(counter) \/ tn + nextCounter <= t
      BY <1>1, <3>1 DEF TimerInTime
    <3>8. QED
      BY <1>2, <3>1, <3>6, <3>7
  <2>3. QED
    BY <2>1, <2>2 DEF TimerInTime
<1>7. t + b \in Int
  BY <1>2
<1>8. QED
  BY <1>2, <1>4, <1>5, <1>6, <1>7 DEF TimeInv

\* A timer that a write leaves as k is scheduled.
LEMMA SetTime ==
  ASSUME TimeTypes, NEW t \in Int, NEW tn \in Int, NEW te \in Int, NEW tv \in Int,
         NEW th \in Int, Cycles(t, tn, te, tv, th), Scheduled(t, tn, te, tv, th),
         NEW k \in Typed, Since(k, tn - Lag, t), Set(k), gates' \in BOOLEAN
  PROVE  TimeInv'
<1>1. PICK r : r = RcntSet(k, nextsCounter, nextCounter, g_nextEventCycle)
  OBVIOUS
<1>2. /\ counter' = k /\ nextCounter' = r.next /\ g_nextEventCycle' = r.event
      /\ UNCHANGED <<cycle, nextsCounter, hsync, vsync, tested>>
  BY <1>1, Zenon DEF Set
<1>3. PICK late, vend, hend \in Int :
        late = Latest(tn, tv) /\ vend = VEnd(tv) /\ hend = HEnd(th)
  BY PartLengths DEF TimeTypes, Latest, VEnd, HEnd, Max2
<1>4. /\ nextCounter \in Int /\ Lag \in Int
      /\ tn <= t /\ t < late + MaxBlock /\ tv <= tn /\ tn < vend
      /\ Started(t, tv, th) /\ t < hend + MaxBlock
      /\ tested => t < late /\ t < hend
      /\ tn - Lag <= te /\ te <= hend /\ te <= late
      /\ nextCounter # 4 => te <= tn + nextCounter
      /\ -Lag <= nextCounter /\ tn + nextCounter <= late
      /\ tn + 4 <= late
  BY <1>3, Lengths DEF Scheduled, TimeTypes, Latest, Max2
<1>5. PICK v \in Vs : v = VCycleT(vsync)
  BY PartLengths DEF TimeTypes
<1>6. t - tn < v + MaxBlock /\ -Half <= te - tn /\ te - tn < Half
  BY <1>5, Near
<1>7. r = RcntSet(k, U32(tn), nextCounter, U32(te)) /\ cycle = U32(t)
  BY <1>1, Zenon DEF Cycles
<1>8. /\ r.next \in Int
      /\ \E f \in Int :
              /\ r.event = U32(f)
              /\ \/ r.next \in {nextCounter, 4} /\ f = te
                 \/ r.next < nextCounter /\ r.next >= -Lag /\ f = Min2(te, tn + r.next)
      /\ Bus(k) => r.next = 4 \/ tn + r.next <= t + Left(k)
  BY <1>4, <1>6, <1>7, RcntSetIs
<1>9. PICK f \in Int :
        /\ r.event = U32(f)
        /\ \/ r.next \in {nextCounter, 4} /\ f = te
           \/ r.next < nextCounter /\ r.next >= -Lag /\ f = Min2(te, tn + r.next)
  BY <1>8
<1>10. PICK next \in Int : next = r.next
  BY <1>8
<1>11. TimeTypes'
  BY <1>2, <1>8 DEF TimeTypes
<1>12. Cycles(t, tn, f, tv, th)'
  BY <1>2, <1>9 DEF Cycles
<1>13. Scheduled(t, tn, f, tv, th)'
  <2>1. Latest(tn, tv)' = late /\ VEnd(tv)' = vend /\ HEnd(th)' = hend
        /\ nextCounter' = next /\ Started(t, tv, th)' = Started(t, tv, th)
    BY <1>2, <1>3, <1>10 DEF Latest, VEnd, HEnd, VCycleT, HCycleT, Started
  <2>2. /\ tn - Lag <= f /\ f <= te
        /\ next # 4 => f <= tn + next
        /\ -Lag <= next /\ tn + next <= late
    <3>1. CASE next = nextCounter /\ f = te
      BY <1>4, <3>1
    <3>2. CASE next = 4 /\ f = te
      <4>1. Lag >= -4
        <5>1. Lag >= 0
          <6>1. PICK h \in Hs : h = HCycleT(hsync)
            BY PartLengths DEF TimeTypes
          <6>2. h \in Nat /\ MaxBlock \in Nat /\ h + MaxBlock < Lag
            BY <1>5, <6>1, Lengths
          <6>3. QED
            BY <1>4, <6>2
        <5>2. QED
          BY <1>4, <5>1
      <4>2. QED
        BY <1>4, <3>2, <4>1
    <3>3. CASE next < nextCounter /\ next >= -Lag /\ f = Min2(te, tn + next)
      <4>1. f <= te /\ f <= tn + next /\ (f = te \/ f = tn + next)
        BY <3>3 DEF Min2
      <4>2. QED
        BY <1>4, <3>3, <4>1
    <3>4. QED
      BY <1>9, <1>10, <3>1, <3>2, <3>3
  <2>3. f <= hend /\ f <= late
    BY <1>4, <2>2
  <2>4. QED
    BY <1>2, <1>4, <2>1, <2>2, <2>3 DEF Scheduled
<1>14. TimerInTime(t, tn)'
  <2>1. Since(counter, tn - Lag, t)'
    BY <1>2 DEF Since
  <2>2. ASSUME Bus(counter)'
        PROVE  (\/ Soon \/ tn + nextCounter <= t + Left(counter)
                \/ tn + nextCounter <= t)'
    <3>1. Bus(k)
      BY <1>2, <2>2 DEF Bus
    <3>2. Left(counter)' = Left(k)
      BY <1>2 DEF Left, Limit, Age
    <3>3. CASE next = 4
      BY <1>2, <1>10, <3>3 DEF Soon
    <3>4. CASE tn + next <= t + Left(k)
      BY <1>2, <1>10, <3>2, <3>4
    <3>5. QED
      BY <1>8, <1>10, <3>1, <3>3, <3>4
  <2>3. QED
    BY <2>1, <2>2 DEF TimerInTime
<1>15. QED
  BY <1>11, <1>12, <1>13, <1>14 DEF TimeInv

\* A write to another timer's registers.
LEMMA OtherSetTime ==
  ASSUME TimeInv, NEW o \in Others, OtherSet(o)
  PROVE  TimeInv'
<1>1. PICK t, tn, te, tv, th \in Int :
        Cycles(t, tn, te, tv, th) /\ Scheduled(t, tn, te, tv, th) /\ TimerInTime(t, tn)
  BY DEF TimeInv
<1>2. PICK r : r = RcntSetOthers(o, nextsCounter,
                                 [next |-> nextCounter, event |-> g_nextEventCycle])
  OBVIOUS
<1>3. /\ nextCounter' = r.next /\ g_nextEventCycle' = r.event
      /\ UNCHANGED <<cycle, nextsCounter, counter, gates, hsync, vsync, tested>>
      /\ TimeTypes /\ nextCounter \in Int
  BY <1>2, Zenon DEF OtherSet, TimeInv, TimeTypes
<1>4. -Half <= te - tn /\ te - tn < Half
  BY <1>1, <1>3, Near
<1>5. /\ r.next \in Int
      /\ \E f \in Int :
              /\ r.event = U32(f)
              /\ \/ r.next \in {nextCounter, 4} /\ f = te
                 \/ /\ r.next < nextCounter \/ r.next < 4
                    /\ r.next >= -Lag /\ f = Min2(te, tn + r.next)
  <2>1. PICK q : q = [next |-> nextCounter, event |-> g_nextEventCycle]
    OBVIOUS
  <2>2. q.next = nextCounter /\ q.event = U32(te) /\ nextsCounter = U32(tn)
    BY <1>1, <2>1 DEF Cycles
  <2>3. r = RcntSetOthers(o, U32(tn), q)
    BY <1>2, <2>1, <2>2
  <2>4. QED
    BY <1>3, <1>4, <2>2, <2>3, RcntSetOthersIs
<1>6. PICK m \in Int, f \in Int :
        /\ m = r.next /\ r.event = U32(f)
        /\ \/ m \in {nextCounter, 4} /\ f = te
           \/ (m < nextCounter \/ m < 4) /\ m >= -Lag /\ f = Min2(te, tn + m)
  BY <1>5
<1>7. Min2(te, tn + m) <= te /\ Min2(te, tn + m) <= tn + m
      /\ Min2(te, tn + m) \in {te, tn + m}
  BY DEF Min2
<1>8. PICK late, vend, hend \in Int :
        late = Latest(tn, tv) /\ vend = VEnd(tv) /\ hend = HEnd(th)
  BY <1>3, PartLengths DEF TimeTypes, Latest, VEnd, HEnd, Max2
<1>9. /\ tn <= t /\ t < late + MaxBlock /\ tv <= tn /\ tn < vend
      /\ Started(t, tv, th) /\ t < hend + MaxBlock
      /\ tested => t < late /\ t < hend
      /\ tn - Lag <= te /\ te <= hend /\ te <= late
      /\ nextCounter # 4 => te <= tn + nextCounter
      /\ -Lag <= nextCounter /\ tn + nextCounter <= late
      /\ tn + 4 <= late /\ Lag \in Nat
  BY <1>1, <1>3, <1>8, LagIs DEF Scheduled, TimeTypes, Latest, Max2
<1>10. /\ tn - Lag <= f /\ f <= te /\ (m # 4 => f <= tn + m)
       /\ -Lag <= m /\ tn + m <= late
  BY <1>3, <1>6, <1>7, <1>9
<1>11. TimeTypes'
  BY <1>3, <1>5 DEF TimeTypes
<1>12. Cycles(t, tn, f, tv, th)'
  BY <1>1, <1>3, <1>6 DEF Cycles
<1>13. Scheduled(t, tn, f, tv, th)'
  <2>1. Latest(tn, tv)' = late /\ VEnd(tv)' = vend /\ HEnd(th)' = hend
        /\ nextCounter' = m /\ Started(t, tv, th)' = Started(t, tv, th)
    BY <1>3, <1>6, <1>8 DEF Latest, VEnd, HEnd, VCycleT, HCycleT, Started
  <2>2. f <= hend /\ f <= late
    BY <1>9, <1>10
  <2>3. QED
    BY <1>3, <1>9, <1>10, <2>1, <2>2 DEF Scheduled
<1>14. TimerInTime(t, tn)'
  <2>1. Since(counter, tn - Lag, t)'
    BY <1>1, <1>3 DEF TimerInTime, Since
  <2>2. ASSUME (Bus(counter) /\ ~ByHblank)'
        PROVE  (\/ Soon \/ tn + nextCounter <= t + Left(counter)
                \/ tn + nextCounter <= t)'
    <3>1. Bus(counter) /\ ~ByHblank /\ Left(counter)' = Left(counter)
      BY <1>3, <2>2 DEF Bus, ByHblank, Left, Limit, Age
    <3>2. Soon \/ tn + nextCounter <= t + Left(counter) \/ tn + nextCounter <= t
      BY <1>1, <3>1 DEF TimerInTime
    <3>3. Left(counter) \in Int
      <4>1. counter.mode.rate \in Int /\ Age(counter) \in Int
        BY <1>1, <1>3, <3>1, Lengths, FoldedTyped DEF Bus, Typed, Mode, TimeTypes, Cycles
      <4>2. Limit(counter) - counter.count \in Int
        BY <1>3, Lengths DEF Limit, TimeTypes, Typed
      <4>3. (Limit(counter) - counter.count) * counter.mode.rate \in Int
        BY <4>1, <4>2
      <4>4. QED
        BY <4>1, <4>3 DEF Left
    <3>4. CASE m <= 4
      BY <1>3, <1>6, <3>4 DEF Soon
    <3>5. CASE m > 4
      <4>1. m <= nextCounter
        BY <1>3, <1>6, <3>5
      <4>2. ~Soon
        BY <1>3, <3>5, <4>1 DEF Soon
      <4>3. tn + m <= t + Left(counter) \/ tn + m <= t
        BY <1>3, <3>2, <3>3, <4>1, <4>2
      <4>4. QED
        BY <1>3, <1>6, <3>1, <4>3
    <3>6. QED
      BY <3>4, <3>5
  <2>3. QED
    BY <2>1, <2>2 DEF TimerInTime
<1>15. QED
  BY <1>11, <1>12, <1>13, <1>14 DEF TimeInv

\* A device that wants an event test makes the next one earlier, not later.
LEMMA OtherEventTime ==
  ASSUME TimeInv, NEW d \in Delays, OtherEvent(d)
  PROVE  TimeInv'
<1>1. PICK t, tn, te, tv, th \in Int :
        Cycles(t, tn, te, tv, th) /\ Scheduled(t, tn, te, tv, th) /\ TimerInTime(t, tn)
  BY DEF TimeInv
<1>2. /\ g_nextEventCycle' = SetNextEvent(g_nextEventCycle, cycle, d)
      /\ UNCHANGED <<cycle, nextsCounter, nextCounter, counter, gates, hsync, vsync,
                     tested>>
      /\ TimeTypes /\ d \in Nat
  BY CountersAssumption, Zenon DEF OtherEvent, TimeInv
<1>3. -Half <= te - t /\ te - t < Half
  <2>1. te - t < Half /\ t - te < Half
    BY <1>1, <1>2, Near
  <2>2. QED
    BY <2>1, HalfOf
<1>4. PICK f \in Int : f = Min2(te, t + d) /\ f <= te /\ f \in {te, t + d}
  BY <1>2 DEF Min2
<1>5. g_nextEventCycle' = U32(f)
  <2>1. cycle = U32(t) /\ g_nextEventCycle = U32(te)
    BY <1>1 DEF Cycles
  <2>2. SetNextEvent(U32(te), U32(t), d) = U32(Min2(te, t + d))
    BY <1>2, <1>3, SetNextEventIs
  <2>3. QED
    BY <1>2, <1>4, <2>1, <2>2
<1>6. Cycles(t, tn, f, tv, th)'
  BY <1>1, <1>2, <1>5 DEF Cycles
<1>7. Scheduled(t, tn, f, tv, th)'
  <2>1. PICK late, vend, hend \in Int :
          late = Latest(tn, tv) /\ vend = VEnd(tv) /\ hend = HEnd(th)
    BY <1>2, PartLengths DEF TimeTypes, Latest, VEnd, HEnd, Max2
  <2>2. Latest(tn, tv)' = late /\ VEnd(tv)' = vend /\ HEnd(th)' = hend
        /\ Started(t, tv, th)' = Started(t, tv, th)
    BY <1>2, <2>1 DEF Latest, VEnd, HEnd, VCycleT, HCycleT, Started
  <2>3. /\ tn <= t /\ t < late + MaxBlock /\ tv <= tn /\ tn < vend
        /\ Started(t, tv, th) /\ t < hend + MaxBlock
        /\ tested => t < late /\ t < hend
        /\ tn - Lag <= te /\ te <= hend /\ te <= late
        /\ nextCounter # 4 => te <= tn + nextCounter
        /\ -Lag <= nextCounter /\ tn + nextCounter <= late
    BY <1>1, <2>1 DEF Scheduled
  <2>4. /\ tn - Lag <= f /\ f <= hend /\ f <= late
        /\ nextCounter # 4 => f <= tn + nextCounter
    BY <1>2, <1>4, <2>3, LagIs DEF TimeTypes
  <2>5. QED
    BY <1>2, <2>2, <2>3, <2>4 DEF Scheduled
<1>8. TimerInTime(t, tn)'
  BY <1>1, <1>2 DEF TimerInTime, Since, Bus, ByHblank, Soon, Left, Limit, Age
<1>9. TimeTypes'
  BY <1>2 DEF TimeTypes
<1>10. QED
  BY <1>6, <1>7, <1>8, <1>9 DEF TimeInv

\* A timer that is not folded counts from where it did.
LEMMA FoldedSince ==
  ASSUME NEW t \in Int, cycle = U32(t), NEW tn \in Int, tn <= t,
         NEW k \in Typed, Since(k, tn - Lag, t)
  PROVE  Since(Folded(k), tn - Lag, t)
<1>1. CASE Bus(k)
  <2>1. PICK s \in Int : Folded(k).sCycleT = U32(s) /\ t - Lag <= s /\ s <= t
    BY <1>1, FoldedTyped
  <2>2. tn - Lag <= s
    BY <2>1, Lengths
  <2>3. QED
    BY <2>1, <2>2 DEF Since
<1>2. CASE ~Bus(k)
  BY <1>2, FoldedTyped
<1>3. QED
  BY <1>1, <1>2

\* Now is a cycle to count from.
LEMMA NowSince ==
  ASSUME NEW t \in Int, cycle = U32(t), NEW tn \in Int, tn <= t,
         NEW k, k.sCycleT = cycle
  PROVE  Since(k, tn - Lag, t)
<1>1. Lag \in Int /\ Lag >= 0
  <2>1. PICK r \in Rates : TRUE
    BY CountersAssumption
  <2>2. r \in Nat /\ r < Lag /\ Lag \in Int
    BY Lengths
  <2>3. QED
    BY <2>2
<1>2. tn - Lag <= t
  BY <1>1
<1>3. QED
  BY <1>2 DEF Since

\* A write of the target leaves the timer counting from where it did.
LEMMA WtargetTime ==
  ASSUME TimeInv, NEW x \in Targets, Wtarget(x)
  PROVE  TimeInv'
<1>1. PICK t, tn, te, tv, th \in Int :
        Cycles(t, tn, te, tv, th) /\ Scheduled(t, tn, te, tv, th) /\ TimerInTime(t, tn)
  BY DEF TimeInv
<1>2. TimeTypes /\ cycle = U32(t) /\ tn <= t /\ Since(counter, tn - Lag, t)
      /\ counter \in Typed
  BY <1>1 DEF TimeInv, TimeTypes, Cycles, Scheduled, TimerInTime
<1>3. PICK g, f : g = Folded(counter) /\ f = TargetBehind(g, x)
  OBVIOUS
<1>4. g \in Typed /\ Since(g, tn - Lag, t)
  BY <1>2, <1>3, FoldedTyped, FoldedSince
<1>5. PICK k : k = [g EXCEPT !.target = x, !.future = f]
  OBVIOUS
<1>6. Set(k) /\ UNCHANGED gates
  BY <1>3, <1>5, Zenon DEF Wtarget
<1>7. f \in BOOLEAN
  BY <1>2, <1>3, <1>4, FoldedTyped, CountersAssumption DEF TargetBehind
<1>8. k \in Typed /\ k.sCycleT = g.sCycleT /\ k.mode = g.mode
  <2>1. x \in 0..Top - 1
    BY CountersAssumption
  <2>2. QED
    BY <1>4, <1>5, <1>7, <2>1 DEF Typed
<1>9. Since(k, tn - Lag, t)
  BY <1>4, <1>8 DEF Since
<1>10. gates' \in BOOLEAN
  BY <1>2, <1>6 DEF TimeTypes
<1>11. QED
  BY <1>1, <1>2, <1>6, <1>8, <1>9, <1>10, SetTime

\* A write of the count does, or the timer counts from now.
LEMMA WcountTime ==
  ASSUME TimeInv, NEW x \in Counts, Wcount(x)
  PROVE  TimeInv'
<1>1. PICK t, tn, te, tv, th \in Int :
        Cycles(t, tn, te, tv, th) /\ Scheduled(t, tn, te, tv, th) /\ TimerInTime(t, tn)
  BY DEF TimeInv
<1>2. TimeTypes /\ cycle = U32(t) /\ tn <= t /\ Since(counter, tn - Lag, t)
      /\ counter \in Typed
  BY <1>1 DEF TimeInv, TimeTypes, Cycles, Scheduled, TimerInTime
<1>3. PICK since :
        since = IF Bus(counter)
                THEN U32(cycle - (Age(counter) % counter.mode.rate))
                ELSE IF counter.mode.IsCounting THEN counter.sCycleT ELSE cycle
  OBVIOUS
<1>4. PICK f : f = (x > counter.target)
  OBVIOUS
<1>5. PICK k : k = [counter EXCEPT !.count = x, !.future = f, !.sCycleT = since]
  OBVIOUS
<1>6. Set(k) /\ UNCHANGED gates
  BY <1>3, <1>4, <1>5, Zenon DEF Wcount
<1>7. f \in BOOLEAN
  BY <1>2, <1>4, CountersAssumption DEF Typed
<1>8. /\ since \in 0..CycleCount - 1
      /\ Bus(counter) => since = Folded(counter).sCycleT
      /\ ~Bus(counter) => since = counter.sCycleT \/ since = cycle
  <2>1. Folded(counter) \in Typed
    BY <1>2, FoldedTyped
  <2>2. Bus(counter) => since = Folded(counter).sCycleT
    <3>1. ASSUME Bus(counter) PROVE since = Folded(counter).sCycleT
      <4>1. PICK c, s : /\ c = Rcount(counter)
                        /\ s = U32(cycle - (Age(counter) % counter.mode.rate))
        OBVIOUS
      <4>2. Folded(counter) = [counter EXCEPT !.count = c, !.sCycleT = s]
        BY <3>1, <4>1, Zenon DEF Folded
      <4>3. Folded(counter).sCycleT = s
        BY <1>2, <4>2 DEF Typed
      <4>4. since = s
        BY <1>3, <3>1, <4>1
      <4>5. QED
        BY <4>3, <4>4
    <3>2. QED
      BY <3>1
  <2>3. ~Bus(counter) => since = counter.sCycleT \/ since = cycle
    BY <1>3
  <2>4. cycle \in 0..CycleCount - 1 /\ counter.sCycleT \in 0..CycleCount - 1
        /\ Folded(counter).sCycleT \in 0..CycleCount - 1
    BY <1>2, <2>1, U32Same DEF Typed
  <2>5. QED
    BY <2>2, <2>3, <2>4
<1>9. k \in Typed /\ k.sCycleT = since /\ k.mode = counter.mode
  <2>1. x \in Nat
    BY CountersAssumption
  <2>2. QED
    BY <1>2, <1>5, <1>7, <1>8, <2>1 DEF Typed
<1>10. Since(k, tn - Lag, t)
  <2>1. CASE Bus(counter)
    <3>1. Since(Folded(counter), tn - Lag, t) /\ Folded(counter).mode = counter.mode
      BY <1>2, FoldedSince, FoldedTyped
    <3>2. QED
      BY <1>8, <1>9, <2>1, <3>1 DEF Since
  <2>2. CASE ~Bus(counter) /\ since = counter.sCycleT
    BY <1>2, <1>9, <2>2 DEF Since
  <2>3. CASE since = cycle
    BY <1>2, <1>9, <2>3, NowSince
  <2>4. QED
    BY <1>8, <2>1, <2>2, <2>3
<1>11. gates' \in BOOLEAN
  BY <1>2, <1>6 DEF TimeTypes
<1>12. QED
  BY <1>1, <1>2, <1>6, <1>9, <1>10, <1>11, SetTime

\* A write of the mode does, or it stops the timer for its gate.
LEMMA WmodeTime ==
  ASSUME TimeInv, NEW m \in Modes, NEW clear \in BOOLEAN, Wmode(m, clear)
  PROVE  TimeInv'
<1>1. PICK t, tn, te, tv, th \in Int :
        Cycles(t, tn, te, tv, th) /\ Scheduled(t, tn, te, tv, th) /\ TimerInTime(t, tn)
  BY DEF TimeInv
<1>2. TimeTypes /\ cycle = U32(t) /\ tn <= t /\ Since(counter, tn - Lag, t)
      /\ counter \in Typed
      /\ cycle \in 0..CycleCount - 1
  BY <1>1, U32Same DEF TimeInv, TimeTypes, Cycles, Scheduled, TimerInTime
<1>3. PICK was : was = IF counter.mode.IsCounting THEN Folded(counter)
                       ELSE [counter EXCEPT !.sCycleT = cycle]
  OBVIOUS
<1>4. PICK out : out = [counter.out EXCEPT !.TargetReached = @ /\ ~clear,
                                           !.OverflowReached = @ /\ ~clear]
  OBVIOUS
<1>5. PICK w : w = [was EXCEPT !.mode = m, !.out = out]
  OBVIOUS
<1>6. Set(SetGate(w)) /\ gates' = GateEnabled(SetGate(w))
  BY <1>3, <1>4, <1>5, Zenon DEF Wmode
<1>7. was \in Typed /\ \E s \in Int : was.sCycleT = U32(s) /\ tn - Lag <= s /\ s <= t
  <2>1. CASE counter.mode.IsCounting
    <3>1. was \in Typed /\ Since(was, tn - Lag, t) /\ was.mode = counter.mode
      BY <1>2, <1>3, <2>1, FoldedTyped, FoldedSince
    <3>2. QED
      BY <2>1, <3>1 DEF Since
  <2>2. CASE ~counter.mode.IsCounting
    <3>1. was \in Typed /\ was.sCycleT = U32(t)
      BY <1>2, <1>3, <2>2 DEF Typed
    <3>2. tn - Lag <= t
      <4>1. PICK r \in Rates : TRUE
        BY CountersAssumption
      <4>2. r \in Nat /\ r < Lag /\ Lag \in Int
        BY Lengths
      <4>3. QED
        BY <1>2, <4>2
    <3>3. QED
      BY <3>1, <3>2
  <2>3. QED
    BY <2>1, <2>2
<1>8. w \in Typed /\ w.sCycleT = was.sCycleT
  <2>1. counter.out \in Outcome
    BY <1>2 DEF Typed
  <2>2. out \in Outcome
    BY <1>4, <2>1 DEF Outcome
  <2>3. m \in Mode
    BY ModesAssumption
  <2>4. QED
    BY <1>5, <1>7, <2>2, <2>3 DEF Typed
<1>9. SetGate(w) \in Typed /\ Since(SetGate(w), tn - Lag, t)
  <2>1. SetGate(w) \in Typed /\ (SetGate(w) = w \/ ~SetGate(w).mode.IsCounting)
    BY <1>2, <1>8, SetGateTyped
  <2>2. Since(w, tn - Lag, t)
    BY <1>7, <1>8 DEF Since
  <2>3. QED
    BY <2>1, <2>2 DEF Since
<1>10. gates' \in BOOLEAN
  <2>1. SetGate(w).mode \in Mode
    BY <1>9 DEF Typed
  <2>2. GateEnabled(SetGate(w)) \in BOOLEAN
    BY <2>1 DEF GateEnabled, Mode
  <2>3. QED
    BY <1>6, <2>2
<1>11. QED
  BY <1>1, <1>2, <1>6, <1>9, <1>10, SetTime

\* A timer with its types has its fields.
LEMMA TypedTimer ==
  ASSUME NEW k \in Typed
  PROVE  Timer(k)
<1>1. PICK S : S = Nat \cup BOOLEAN \cup Outcome \cup Rates \cup {0}
                   \cup 0..Top - 1 \cup 0..CycleCount - 1
  OBVIOUS
<1>2. k.mode \in ModeIn(S)
  BY <1>1 DEF Typed, Mode, ModeIn
<1>3. k \in TimerIn(S)
  BY <1>1, <1>2 DEF Typed, TimerIn
<1>4. QED
  BY <1>3 DEF Timer

\* rcntUpdate leaves a timer that counts from a cycle shortly before.
LEMMA UpdatedTime ==
  ASSUME NEW t \in Int, cycle = U32(t), NEW k \in Typed
  PROVE  Updated(k) \in Typed /\ Since(Updated(k), t - Lag, t)
<1>1. CASE ~k.mode.IsCounting
  BY <1>1 DEF Updated, Since
<1>2. CASE k.mode.IsCounting /\ k.mode.rate # 0
  <2>1. Updated(k) = TestOverflow(TestTarget(Folded(k)))
    BY <1>2 DEF Updated
  <2>2. /\ Folded(k) \in Typed
        /\ \E s \in Int : Folded(k).sCycleT = U32(s) /\ t - Lag <= s /\ s <= t
    BY <1>2, FoldedTyped DEF Bus
  <2>3. Updated(k) \in Typed /\ Updated(k).sCycleT = Folded(k).sCycleT
    BY <2>1, <2>2, TestsTyped
  <2>4. QED
    BY <2>2, <2>3 DEF Since
<1>3. CASE k.mode.IsCounting /\ k.mode.rate = 0
  <2>1. Updated(k) = [k EXCEPT !.sCycleT = cycle]
    BY <1>3, Zenon DEF Updated
  <2>2. cycle \in 0..CycleCount - 1
    BY U32Same
  <2>3. Updated(k) \in Typed /\ Updated(k).sCycleT = cycle
    BY <2>1, <2>2 DEF Typed
  <2>4. QED
    BY <2>3, NowSince
<1>4. QED
  BY <1>1, <1>2, <1>3

\* The vertical gate leaves a timer with its types.
LEMMA AfterVEdgeTime ==
  ASSUME TimeTypes, NEW t \in Int, cycle = U32(t)
  PROVE  AfterVEdge(counter) \in Typed
<1>1. counter \in Typed /\ vsync.sCycle \in 0..CycleCount - 1
  BY DEF TimeTypes, Part
<1>2. /\ StartGate(counter, TRUE, vsync.sCycle) \in Typed
      /\ EndGate(counter, TRUE, vsync.sCycle) \in Typed
  <2>1. TRUE \in BOOLEAN
    OBVIOUS
  <2>2. QED
    BY <1>1, <2>1, StartGateTyped, EndGateTyped, Zenon
<1>3. QED
  BY <1>1, <1>2 DEF AfterVEdge

\* The hblank gate starts the timer from the start of the part of the scanline;
\* without one, nothing happens to a timer on the bus clock.
LEMMA AfterHEdgeTime ==
  ASSUME TimeTypes, NEW t \in Int, cycle = U32(t), NEW n \in Int,
         NEW line \in Part, NEW th \in Int, line.sCycle = U32(th),
         HEdge(line) => n - Lag <= th /\ th <= t,
         NEW k \in Typed, Since(k, n - Lag, t), NEW k3, k3 = AfterHEdge(k, line)
  PROVE  /\ k3 \in Typed /\ Since(k3, n - Lag, t)
         /\ ~(gates /\ ~k3.mode.vblankGate) =>
              k3 = k \/ (k3.mode = k.mode /\ k.mode.rate = 0)
<1>1. line.sCycle \in 0..CycleCount - 1
  BY DEF Part
<1>2. PICK s : s = StartGate(k, FALSE, line.sCycle)
  OBVIOUS
<1>3. PICK e : e = EndGate(k, FALSE, line.sCycle)
  OBVIOUS
<1>4. FALSE \in BOOLEAN
  OBVIOUS
<1>5. /\ s \in Typed
      /\ s.sCycleT = line.sCycle \/ (s.sCycleT = k.sCycleT /\ s.mode = k.mode)
      /\ ~AtGate(k, FALSE) => s = k \/ (s.mode = k.mode /\ k.mode.rate = 0)
  BY <1>1, <1>2, <1>4, StartGateTyped, Zenon
<1>6. /\ e \in Typed
      /\ e.sCycleT = line.sCycle \/ e = k
      /\ ~AtGate(k, FALSE) => e = k
  <2>1. \A b \in BOOLEAN :
          /\ EndGate(k, b, line.sCycle) \in Typed
          /\ EndGate(k, b, line.sCycle).sCycleT = line.sCycle
               \/ EndGate(k, b, line.sCycle) = k
          /\ ~AtGate(k, b) => EndGate(k, b, line.sCycle) = k
    BY <1>1, EndGateTyped
  <2>2. QED
    BY <1>3, <1>4, <2>1, Zenon
<1>7. SameGate(k.mode, s.mode) /\ SameGate(k.mode, e.mode)
  <2>1. Timer(k)
    BY TypedTimer
  <2>2. Gated(k, s) /\ Gated(k, e)
    BY <1>2, <1>3, <1>4, <2>1, StartGateFacts, EndGateFacts, Zenon
  <2>3. QED
    BY <2>2 DEF Gated
<1>8. ASSUME HEdge(line), NEW i \in {s, e} PROVE Since(i, n - Lag, t)
  <2>1. CASE i.sCycleT = line.sCycle
    BY <1>8, <2>1 DEF Since
  <2>2. CASE i.sCycleT = k.sCycleT /\ i.mode = k.mode
    BY <2>2 DEF Since
  <2>3. QED
    BY <1>5, <1>6, <1>8, <2>1, <2>2
<1>9. ASSUME NEW i \in {s, e}, ~(gates /\ ~i.mode.vblankGate)
      PROVE  i = k \/ (i.mode = k.mode /\ k.mode.rate = 0)
  <2>1. i.mode.vblankGate = k.mode.vblankGate
    BY <1>7, <1>9 DEF SameGate
  <2>2. k.mode.vblankGate \in BOOLEAN
    BY DEF Typed, Mode
  <2>3. ~AtGate(k, FALSE)
    BY <1>9, <2>1, <2>2 DEF AtGate
  <2>4. QED
    BY <1>5, <1>6, <1>9, <2>3
<1>10. k3 = k \/ (HEdge(line) /\ k3 \in {s, e})
  BY <1>2, <1>3 DEF AfterHEdge
<1>11. CASE k3 = k
  BY <1>11
<1>12. CASE HEdge(line) /\ k3 \in {s, e}
  BY <1>5, <1>6, <1>8, <1>9, <1>12
<1>13. QED
  BY <1>10, <1>11, <1>12

\* An update is never so late that it misses a whole part of a frame.
LEMMA VerticalTime ==
  ASSUME TimeTypes, NEW t \in Int, NEW tn \in Int, NEW te \in Int, NEW tv \in Int,
         NEW th \in Int, Cycles(t, tn, te, tv, th), Scheduled(t, tn, te, tv, th),
         NEW v, v = IF VEdge THEN NextPart(vsync, VCycleT(vsync)) ELSE vsync,
         NEW tw, tw = IF VEdge THEN VEnd(tv) ELSE tv
  PROVE  /\ v \in Part /\ tw \in Int
         /\ v.sCycle = U32(tw) /\ tw <= t /\ t < tw + VCycleT(v)
         /\ VEdge => /\ t < tw + 4 + MaxBlock /\ tw = tv + VCycleT(vsync)
                     /\ v.blank = ~vsync.blank
<1>1. PICK a \in Vs : a = VCycleT(vsync) /\ a \in Int
  BY PartLengths DEF TimeTypes
<1>2. VEdge <=> t - tv >= a
  <2>1. t - tv < Half /\ tv <= t
    BY Near DEF Scheduled
  <2>2. -Half <= t - tv
    BY <2>1, HalfOf
  <2>3. S32(U32(t) - U32(tv)) = t - tv
    BY <2>1, <2>2, Distance
  <2>4. S32(cycle - vsync.sCycle) = t - tv
    BY <2>3 DEF Cycles
  <2>5. QED
    BY <1>1, <2>4 DEF VEdge
<1>3. /\ tv <= tn /\ tn <= t /\ tn < tv + a
      /\ t < tv + a + MaxBlock \/ t < tn + 4 + MaxBlock
      /\ MaxBlock \in Int
  BY <1>1, Lengths DEF Scheduled, Latest, VEnd, Max2
<1>4. CASE VEdge
  <2>1. v = [blank |-> ~vsync.blank, sCycle |-> U32(vsync.sCycle + a)]
    BY <1>1, <1>4 DEF NextPart
  <2>2. U32(vsync.sCycle + a) = U32(tv + a)
    BY <1>1, Later DEF Cycles
  <2>3. v \in Part /\ v.sCycle = U32(tv + a)
    <3>1. PICK b \in BOOLEAN : b = ~vsync.blank
      BY DEF TimeTypes, Part
    <3>2. PICK c \in 0..CycleCount - 1 : c = U32(tv + a)
      BY <1>1, U32Same
    <3>3. v = [blank |-> b, sCycle |-> c]
      BY <2>1, <2>2, <3>1, <3>2
    <3>4. QED
      BY <3>2, <3>3 DEF Part
  <2>4. PICK b \in Vs : b = VCycleT(v) /\ b \in Int
    BY <2>3, PartLengths
  <2>5. 4 + MaxBlock <= b
    BY <2>4, Lengths
  <2>6. tv + a <= t /\ t < tv + a + b
    BY <1>1, <1>2, <1>3, <1>4, <2>4, <2>5
  <2>7. tw = tv + a /\ tw \in Int /\ t < tv + a + VCycleT(v)
    BY <1>1, <1>4, <2>4, <2>6 DEF VEnd
  <2>8. t < tv + a + 4 + MaxBlock /\ v.blank = ~vsync.blank
    BY <1>1, <1>3, <2>1
  <2>9. QED
    BY <1>1, <2>3, <2>6, <2>7, <2>8
<1>5. CASE ~VEdge
  <2>1. v = vsync /\ v \in Part /\ v.sCycle = U32(tv) /\ tw = tv
    BY <1>5 DEF TimeTypes, Cycles
  <2>2. tv <= t /\ t < tv + VCycleT(v)
    BY <1>1, <1>2, <1>3, <1>5, <2>1
  <2>3. QED
    BY <1>5, <2>1, <2>2
<1>6. QED
  BY <1>4, <1>5

\* The condition at which the event test runs rcntUpdate, and when it finds the
\* vertical blank at its start.
Updates == S32(cycle - nextsCounter) >= nextCounter
BlankStarts == Updates /\ VEdge /\ ~vsync.blank

\* The vertical blank that the event test leaves starts at this time, and the
\* scanline that it tests started at that one.
VStart(tv) == IF Updates /\ VEdge THEN VEnd(tv) ELSE tv
HStart(th) == IF BlankStarts THEN th + HSyncError ELSE th

\* The scanline that the event test tests has started when it ends a part of
\* it, and is not a part and the correction late.
LEMMA LineTime ==
  ASSUME TimeTypes, NEW t \in Int, NEW tn \in Int, NEW te \in Int, NEW tv \in Int,
         NEW th \in Int, Cycles(t, tn, te, tv, th), Scheduled(t, tn, te, tv, th),
         NEW line, line = IF Updates THEN Shifted(hsync) ELSE hsync,
         NEW ths, ths = HStart(th)
  PROVE  /\ line \in Part /\ ths \in Int /\ line.sCycle = U32(ths)
         /\ line.blank = hsync.blank /\ HCycleT(line) = HCycleT(hsync)
         /\ HEdge(line) <=> t - ths >= HCycleT(line)
         /\ t < ths + HCycleT(line) + Lag
         /\ \A b \in Hs : t < ths + HCycleT(line) + b
<1>1. PICK a \in Hs : a = HCycleT(hsync) /\ a \in Int
  BY PartLengths DEF TimeTypes
<1>2. /\ HSyncError \in Int /\ Lag \in Nat /\ Half \in Nat /\ MaxBlock \in Nat
      /\ a \in Nat /\ a + MaxBlock < Lag /\ a + MaxBlock - HSyncError < Lag
      /\ VBlank \in Nat /\ VBlank < Half /\ HSyncError <= VBlank /\ Lag < Half
  <2>1. /\ VBlank \in Vs /\ 4 + MaxBlock + HSyncError <= VBlank /\ HSyncError \in Int
        /\ a + MaxBlock - HSyncError < Lag
    BY ErrorIs
  <2>2. /\ VBlank \in Nat /\ VBlank + MaxBlock + Lag < Half /\ a \in Nat
        /\ a + MaxBlock < Lag /\ MaxBlock \in Nat
    BY <2>1, Lengths
  <2>3. QED
    BY <2>1, <2>2, LagIs, HalfOf
<1>3. PICK b \in BOOLEAN : b = hsync.blank
  BY DEF TimeTypes, Part
<1>4. ths \in Int /\ (ths = th \/ (BlankStarts /\ ths = th + HSyncError))
  BY <1>2 DEF HStart
<1>5. line.blank = b /\ line.sCycle = U32(ths) /\ line \in Part
  <2>1. CASE BlankStarts
    <3>1. line = [blank |-> b, sCycle |-> U32(hsync.sCycle + HSyncError)]
      BY <1>3, <2>1 DEF BlankStarts, Shifted, Corrected
    <3>2. U32(hsync.sCycle + HSyncError) = U32(ths)
      BY <1>2, <2>1, Later DEF Cycles, HStart
    <3>3. PICK c \in 0..CycleCount - 1 : c = U32(ths)
      BY <1>4, U32Same
    <3>4. line = [blank |-> b, sCycle |-> c]
      BY <3>1, <3>2, <3>3
    <3>5. QED
      BY <3>3, <3>4 DEF Part
  <2>2. CASE ~BlankStarts
    <3>1. line = hsync /\ ths = th
      BY <2>2 DEF BlankStarts, Shifted, HStart
    <3>2. QED
      BY <1>3, <3>1 DEF Cycles, TimeTypes
  <2>3. QED
    BY <2>1, <2>2
<1>6. HCycleT(line) = a
  BY <1>1, <1>3, <1>5 DEF HCycleT
<1>7. t < th + a + MaxBlock
  BY <1>1 DEF Scheduled, HEnd
<1>8. t - ths < Half /\ -Half <= t - ths
  <2>1. t - ths < Half
    BY <1>2, <1>4, <1>7
  <2>2. CASE ths = th
    BY <2>1, <2>2, Near
  <2>3. CASE BlankStarts /\ ths = th + HSyncError
    <3>1. th <= t
      BY <2>3 DEF BlankStarts, Scheduled, Started
    <3>2. QED
      BY <1>2, <2>1, <2>3, <3>1
  <2>4. QED
    BY <1>4, <2>2, <2>3
<1>9. HEdge(line) <=> t - ths >= a
  <2>1. S32(U32(t) - U32(ths)) = t - ths
    BY <1>4, <1>8, Distance
  <2>2. S32(cycle - line.sCycle) = t - ths
    BY <1>5, <2>1 DEF Cycles
  <2>3. QED
    BY <1>6, <2>2 DEF HEdge
<1>10. ASSUME NEW c \in Hs PROVE t < ths + a + c
  <2>1. MaxBlock <= c /\ MaxBlock - HSyncError <= c /\ c \in Nat
    BY ErrorIs, Lengths
  <2>2. QED
    BY <1>2, <1>4, <1>7, <2>1
<1>11. t < ths + a + Lag
  BY <1>2, <1>4, <1>7
<1>12. QED
  BY <1>1, <1>3, <1>4, <1>5, <1>6, <1>9, <1>10, <1>11

\* An event test is never so late that it misses a part of a scanline, and a
\* part that is put off by the correction starts before the vertical blank ends.
LEMMA HorizontalTime ==
  ASSUME TimeTypes, NEW t \in Int, NEW tn \in Int, NEW te \in Int, NEW tv \in Int,
         NEW th \in Int, Cycles(t, tn, te, tv, th), Scheduled(t, tn, te, tv, th),
         NEW line, line = IF Updates THEN Shifted(hsync) ELSE hsync,
         NEW ths, ths = HStart(th),
         NEW v, v = IF Updates /\ VEdge THEN NextPart(vsync, VCycleT(vsync)) ELSE vsync,
         NEW tw, tw = VStart(tv),
         NEW h, h = IF HEdge(line) THEN NextPart(line, HCycleT(line)) ELSE line,
         NEW tg, tg = IF HEdge(line) THEN ths + HCycleT(line) ELSE ths
  PROVE  /\ line \in Part /\ ths \in Int /\ line.sCycle = U32(ths)
         /\ HEdge(line) => t - Lag <= ths /\ ths <= t
         /\ h \in Part /\ tg \in Int /\ h.sCycle = U32(tg)
         /\ t < tg + HCycleT(h) /\ t + WaitCycles - tg < Half
         /\ tg <= t \/ (v.blank /\ tg < tw + 4 + MaxBlock + HSyncError)
<1>1. /\ line \in Part /\ ths \in Int /\ line.sCycle = U32(ths)
      /\ HEdge(line) <=> t - ths >= HCycleT(line)
      /\ t < ths + HCycleT(line) + Lag
      /\ \A b \in Hs : t < ths + HCycleT(line) + b
  BY LineTime
<1>2. PICK a \in Hs : a = HCycleT(line) /\ a \in Int
  BY <1>1, PartLengths
<1>3. /\ MaxBlock \in Nat /\ a \in Nat /\ WaitCycles \in Nat /\ Lag \in Nat
      /\ Half \in Nat /\ HSyncError \in Int /\ VBlank \in Nat
      /\ 4 + MaxBlock + HSyncError <= VBlank
      /\ \A b \in Hs : WaitCycles + b + MaxBlock < Half
  BY Lengths, LagIs, HalfOf, ErrorIs
<1>4. HEdge(line) => t - Lag <= ths /\ ths <= t
  <2>1. ASSUME HEdge(line) PROVE ths <= t
    BY <1>1, <1>2, <1>3, <2>1
  <2>2. ASSUME HEdge(line) PROVE t - Lag <= ths
    <3>1. t < th + a + MaxBlock /\ a + MaxBlock < Lag /\ a + MaxBlock - HSyncError < Lag
      <4>1. HCycleT(hsync) = a
        BY <1>2, LineTime
      <4>2. QED
        BY <4>1, Lengths, ErrorIs DEF Scheduled, HEnd
    <3>2. ths = th \/ ths = th + HSyncError
      BY DEF HStart
    <3>3. QED
      BY <1>1, <1>3, <3>1, <3>2
  <2>3. QED
    BY <2>1, <2>2
<1>5. h \in Part /\ tg \in Int /\ h.sCycle = U32(tg)
  <2>1. CASE HEdge(line)
    <3>1. h = [blank |-> ~line.blank, sCycle |-> U32(line.sCycle + a)] /\ tg = ths + a
      BY <1>2, <2>1 DEF NextPart
    <3>2. U32(line.sCycle + a) = U32(ths + a)
      <4>1. ths \in Int /\ line.sCycle = U32(ths) /\ a \in Int
        BY <1>1, <1>2
      <4>2. U32(U32(ths) + a) = U32(ths + a)
        BY <4>1, Later
      <4>3. QED
        BY <4>1, <4>2
    <3>3. PICK b \in BOOLEAN : b = ~line.blank
      BY <1>1 DEF Part
    <3>4. PICK c \in 0..CycleCount - 1 : c = U32(ths + a)
      BY <1>1, <1>2, U32Same
    <3>5. h = [blank |-> b, sCycle |-> c]
      BY <3>1, <3>2, <3>3, <3>4
    <3>6. QED
      BY <1>1, <1>2, <3>1, <3>4, <3>5 DEF Part
  <2>2. CASE ~HEdge(line)
    BY <1>1, <2>2
  <2>3. QED
    BY <2>1, <2>2
<1>6. PICK b \in Hs : b = HCycleT(h) /\ b \in Int
  BY <1>5, PartLengths
<1>7. t < tg + b
  <2>1. CASE HEdge(line)
    BY <1>1, <1>2, <1>6, <2>1
  <2>2. CASE ~HEdge(line)
    <3>1. h = line /\ tg = ths /\ ~(t - ths >= a) /\ b = a
      BY <1>1, <1>2, <1>6, <2>2
    <3>2. QED
      BY <1>1, <1>2, <3>1
  <2>3. QED
    BY <2>1, <2>2
<1>8. t + WaitCycles - tg < Half
  BY <1>3, <1>5, <1>6, <1>7
<1>9. tg <= t \/ (v.blank /\ tg < tw + 4 + MaxBlock + HSyncError)
  <2>1. CASE HEdge(line)
    BY <1>1, <1>2, <2>1
  <2>2. CASE ~HEdge(line) /\ Updates /\ VEdge
    <3>1. v = IF VEdge THEN NextPart(vsync, VCycleT(vsync)) ELSE vsync
      BY <2>2
    <3>2. tw = IF VEdge THEN VEnd(tv) ELSE tv
      BY <2>2 DEF VStart
    <3>3. /\ tw \in Int /\ tw <= t /\ t < tw + 4 + MaxBlock
          /\ tw = tv + VCycleT(vsync) /\ v.blank = ~vsync.blank
      BY <2>2, <3>1, <3>2, VerticalTime
    <3>4. CASE vsync.blank
      <4>1. tg = th /\ tw = tv + VBlank
        BY <2>2, <3>3, <3>4 DEF HStart, BlankStarts, VCycleT
      <4>2. th <= t \/ th < tv + 4 + MaxBlock + HSyncError
        BY DEF Scheduled, Started
      <4>3. QED
        BY <1>3, <3>3, <4>1, <4>2
    <3>5. CASE ~vsync.blank
      <4>1. tg = th + HSyncError /\ th <= t /\ v.blank
        BY <2>2, <3>3, <3>5 DEF HStart, BlankStarts, Scheduled, Started
      <4>2. QED
        BY <1>3, <3>3, <4>1
    <3>6. QED
      BY <3>4, <3>5
  <2>3. CASE ~HEdge(line) /\ ~(Updates /\ VEdge)
    <3>1. tg = th /\ tw = tv /\ v = vsync
      BY <2>3 DEF HStart, BlankStarts, VStart
    <3>2. QED
      BY <3>1 DEF Scheduled, Started
  <2>4. QED
    BY <2>1, <2>2, <2>3
<1>10. QED
  BY <1>1, <1>4, <1>5, <1>6, <1>7, <1>8, <1>9

\* cpuRcntSet schedules the next update before the vertical blank and before
\* the timer reaches what is tested, and an event test for it.
LEMMA UpdateTime ==
  ASSUME NEW t \in Int, cycle = U32(t), NEW k \in Typed, Since(k, t - Lag, t),
         NEW v \in Part, NEW tw \in Int, v.sCycle = U32(tw), tw <= t, t < tw + VCycleT(v),
         NEW o \in Others, NEW p \in Others,
         NEW r, r = RcntSetAll(k, v, o, p, U32(cycle + WaitCycles))
  PROVE  /\ r.next \in Nat
         /\ \E f \in Int : r.event = U32(f) /\ f <= t + WaitCycles /\ t - Lag <= f
         /\ t + r.next <= tw + VCycleT(v) \/ r.next <= 4
         /\ Bus(k) => r.next <= 4 \/ t + r.next <= t + Left(k)
<1>1. PICK a \in Vs : a = VCycleT(v) /\ a \in Int
  BY PartLengths
<1>2. PICK first \in Int : first = t + WaitCycles
  BY Lengths
<1>3. /\ Lag \in Nat /\ WaitCycles \in Nat /\ MaxBlock \in Nat /\ a \in Nat
      /\ MaxBlock > 0 /\ WaitCycles < Half /\ Half \in Nat /\ a < Half /\ Lag < Half
  <2>1. PICK h \in Hs : h = HRender
    BY DEF Hs
  <2>2. /\ h \in Nat /\ WaitCycles + h + MaxBlock < Half /\ a + h + 2 * MaxBlock < Half
        /\ a \in Nat /\ WaitCycles \in Nat /\ MaxBlock \in Nat /\ MaxBlock > 0
        /\ a + MaxBlock + Lag < Half
    BY Lengths
  <2>3. QED
    BY <2>2, LagIs, HalfOf
<1>4. U32(cycle + WaitCycles) = U32(first)
  BY <1>2, <1>3, Later
<1>5. PICK next \in Int :
        next = S32(VCycleT(v) - (cycle - v.sCycle)) /\ next = tw + a - t
  <2>1. tw + a - t < Half /\ 0 < tw + a - t
    BY <1>1, <1>3
  <2>2. -Half <= tw + a - t
    BY <1>3, <2>1
  <2>3. S32(U32(tw) + a - U32(t)) = tw + a - t
    BY <1>1, <2>1, <2>2, Signed
  <2>4. VCycleT(v) - (cycle - v.sCycle) = U32(tw) + a - U32(t)
    BY <1>1, U32Same
  <2>5. S32(VCycleT(v) - (cycle - v.sCycle)) = tw + a - t
    BY <2>3, <2>4
  <2>6. QED
    BY <1>1, <2>5
<1>6. PICK q0 : q0 = [next |-> next, event |-> U32(first)]
  OBVIOUS
<1>7. PICK q1 : q1 = RcntSetOthers(o, U32(t), q0)
  OBVIOUS
<1>8. PICK q2 : q2 = RcntSet(k, U32(t), q1.next, q1.event)
  OBVIOUS
<1>9. PICK q3 : q3 = RcntSetOthers(p, U32(t), q2)
  OBVIOUS
<1>10. r = [q3 EXCEPT !.next = Max2(@, 0)]
  <2>1. q0 = [next |-> S32(VCycleT(v) - (cycle - v.sCycle)),
              event |-> U32(cycle + WaitCycles)]
    BY <1>4, <1>5, <1>6
  <2>2. QED
    BY <1>7, <1>8, <1>9, <2>1, Zenon DEF RcntSetAll
<1>11. -Half <= first - t /\ first - t < Half /\ t - Lag <= first
  BY <1>2, <1>3
<1>12. /\ q1.next \in Int
       /\ \E f \in Int :
              /\ q1.event = U32(f)
              /\ \/ q1.next \in {next, 4} /\ f = first
                 \/ /\ q1.next < next \/ q1.next < 4
                    /\ q1.next >= -Lag /\ f = Min2(first, t + q1.next)
  <2>1. q0.next = next /\ q0.event = U32(first)
    BY <1>6
  <2>2. QED
    BY <1>7, <1>11, <2>1, RcntSetOthersIs
<1>13. PICK x1 \in Int, f1 \in Int :
         /\ x1 = q1.next /\ q1.event = U32(f1) /\ (x1 <= next \/ x1 <= 4)
         /\ t - Lag <= f1 /\ f1 <= first
  BY <1>2, <1>3, <1>11, <1>12 DEF Min2
<1>14. -Half <= f1 - t /\ f1 - t < Half
  BY <1>2, <1>3, <1>13
<1>15. /\ q2.next \in Int
       /\ \E f \in Int :
              /\ q2.event = U32(f)
              /\ \/ q2.next \in {x1, 4} /\ f = f1
                 \/ q2.next < x1 /\ q2.next >= -Lag /\ f = Min2(f1, t + q2.next)
       /\ Bus(k) => q2.next = 4 \/ t + q2.next <= t + Left(k)
  <2>1. t <= t /\ t - t < a + MaxBlock
    BY <1>3
  <2>2. q2 = RcntSet(k, U32(t), x1, U32(f1))
    BY <1>8, <1>13
  <2>3. QED
    BY <1>14, <2>1, <2>2, RcntSetIs
<1>16. PICK x2 \in Int, f2 \in Int :
         /\ x2 = q2.next /\ q2.event = U32(f2)
         /\ x2 <= next \/ x2 <= 4
         /\ t - Lag <= f2 /\ f2 <= first
         /\ Bus(k) => x2 = 4 \/ t + x2 <= t + Left(k)
  <2>1. PICK f \in Int :
              /\ q2.event = U32(f)
              /\ \/ q2.next \in {x1, 4} /\ f = f1
                 \/ q2.next < x1 /\ q2.next >= -Lag /\ f = Min2(f1, t + q2.next)
    BY <1>15
  <2>2. PICK x \in Int : x = q2.next
    BY <1>15
  <2>3. x <= next \/ x <= 4
    BY <1>13, <2>1, <2>2
  <2>4. t - Lag <= f /\ f <= first
    BY <1>2, <1>3, <1>13, <2>1, <2>2 DEF Min2
  <2>5. QED
    BY <1>15, <2>1, <2>2, <2>3, <2>4
<1>17. -Half <= f2 - t /\ f2 - t < Half
  BY <1>2, <1>3, <1>16
<1>18. /\ q3.next \in Int /\ q3 = [next |-> q3.next, event |-> q3.event]
       /\ \E f \in Int :
              /\ q3.event = U32(f)
              /\ \/ q3.next \in {x2, 4} /\ f = f2
                 \/ /\ q3.next < x2 \/ q3.next < 4
                    /\ q3.next >= -Lag /\ f = Min2(f2, t + q3.next)
  BY <1>9, <1>16, <1>17, RcntSetOthersIs
<1>19. PICK x3 \in Int, f3 \in Int :
         /\ x3 = q3.next /\ q3.event = U32(f3)
         /\ x3 <= x2 \/ x3 <= 4
         /\ t - Lag <= f3 /\ f3 <= first
  BY <1>2, <1>3, <1>16, <1>18 DEF Min2
<1>20. r.next = Max2(x3, 0) /\ r.event = U32(f3)
  BY <1>10, <1>18, <1>19
<1>21. PICK n \in Int : n = r.next /\ n = IF x3 < 0 THEN 0 ELSE x3
  BY <1>20 DEF Max2
<1>22. n \in Nat /\ (t + n <= tw + a \/ n <= 4)
  BY <1>1, <1>5, <1>16, <1>19, <1>21
<1>23. ASSUME Bus(k), ~(n <= 4) PROVE t + n <= t + Left(k)
  <2>1. n = x3 /\ x3 <= x2 /\ x2 # 4
    BY <1>19, <1>21, <1>23
  <2>2. t + x2 <= t + Left(k)
    BY <1>16, <1>23, <2>1
  <2>3. Left(k) \in Int
    <3>1. /\ k.mode.rate \in Int /\ k.count \in Int /\ k.target \in Int /\ Top \in Int
          /\ Age(k) \in Int
      BY <1>23, Lengths, FoldedTyped DEF Typed, Mode, Bus
    <3>2. Limit(k) - k.count \in Int
      BY <3>1 DEF Limit
    <3>3. (Limit(k) - k.count) * k.mode.rate \in Int
      BY <3>1, <3>2
    <3>4. QED
      BY <3>1, <3>3 DEF Left
  <2>4. QED
    BY <2>1, <2>2, <2>3
<1>24. QED
  BY <1>1, <1>2, <1>19, <1>20, <1>21, <1>22, <1>23

\* What rcntUpdate leaves, or what it would have left if it is not run: the
\* last update at n, the next one after m cycles and the event at f, for the
\* timer k and the vertical blank v whose part starts at tw.
Handled(t, n, m, f, k, v, tw) ==
  /\ n <= t /\ \E w \in Vs : t - n < w + MaxBlock
  /\ tw <= n /\ n < tw + VCycleT(v)
  /\ t < Max2(tw + VCycleT(v), n + 4)
  /\ -Lag <= m /\ n + m <= Max2(tw + VCycleT(v), n + 4)
  /\ n - Lag <= f /\ f <= t + WaitCycles
  /\ Since(k, n - Lag, t)
  /\ Bus(k) /\ ~(gates /\ ~k.mode.vblankGate) =>
       m <= 4 \/ n + m <= t + Left(k) \/ n + m <= t

\* The vertical blank and the timer after the update, and what the update sets.
VAfter == IF Updates /\ VEdge THEN NextPart(vsync, VCycleT(vsync)) ELSE vsync
KAfter == IF Updates THEN Updated(AfterVEdge(counter)) ELSE counter
RAfter(o, p) ==
  IF Updates THEN RcntSetAll(KAfter, VAfter, o, p, U32(cycle + WaitCycles))
  ELSE [next |-> nextCounter, event |-> U32(cycle + WaitCycles)]

\* What the update, or its absence, leaves: typed values, and the schedule Handled.
UpdateDone(t, v, k, r, tw) ==
  /\ v \in Part /\ k \in Typed /\ r.next \in Int /\ tw \in Int
  /\ v.sCycle = U32(tw)
  /\ \E n, f \in Int :
       /\ (IF Updates THEN cycle ELSE nextsCounter) = U32(n)
       /\ r.event = U32(f) /\ Handled(t, n, r.next, f, k, v, tw)

\* With or without an update, an event test leaves the schedule Handled.
LEMMA HandledTime ==
  ASSUME TimeTypes, NEW t \in Int, NEW tn \in Int, NEW te \in Int, NEW tv \in Int,
         NEW th \in Int, Cycles(t, tn, te, tv, th), Scheduled(t, tn, te, tv, th),
         TimerInTime(t, tn), NEW o \in Others, NEW p \in Others,
         NEW v, v = VAfter, NEW k, k = KAfter, NEW r, r = RAfter(o, p),
         NEW tw, tw = VStart(tv)
  PROVE  UpdateDone(t, v, k, r, tw)
<1>1. /\ cycle = U32(t) /\ Lag \in Nat /\ MaxBlock \in Nat \ {0} /\ WaitCycles \in Nat
      /\ nextCounter \in Int /\ counter \in Typed /\ vsync \in Part
  BY LagIs, Lengths DEF Cycles, TimeTypes
<1>2. CASE Updates
  <2>1. /\ v = IF VEdge THEN NextPart(vsync, VCycleT(vsync)) ELSE vsync
        /\ tw = IF VEdge THEN VEnd(tv) ELSE tv
    BY <1>2 DEF VStart, VAfter
  <2>2. v \in Part /\ tw \in Int
    BY <2>1, VerticalTime
  <2>3. v.sCycle = U32(tw) /\ tw <= t /\ t < tw + VCycleT(v)
    BY <2>1, VerticalTime
  <2>4. k \in Typed /\ Since(k, t - Lag, t)
    BY <1>1, <1>2, AfterVEdgeTime, UpdatedTime DEF KAfter
  <2>5. r = RcntSetAll(k, v, o, p, U32(cycle + WaitCycles))
    BY <1>2 DEF RAfter
  <2>6. /\ r.next \in Nat
        /\ \E f \in Int : r.event = U32(f) /\ f <= t + WaitCycles /\ t - Lag <= f
        /\ t + r.next <= tw + VCycleT(v) \/ r.next <= 4
        /\ Bus(k) => r.next <= 4 \/ t + r.next <= t + Left(k)
    BY <1>1, <2>2, <2>3, <2>4, <2>5, UpdateTime
  <2>7. PICK m \in Nat : m = r.next
    BY <2>6
  <2>8. PICK f \in Int : r.event = U32(f) /\ f <= t + WaitCycles /\ t - Lag <= f
    BY <2>6
  <2>9. PICK a \in Vs : a = VCycleT(v) /\ a \in Int /\ a \in Nat
    BY <2>2, PartLengths, Lengths
  <2>10. /\ t <= t /\ \E w \in Vs : t - t < w + MaxBlock
    BY <1>1, <2>9
  <2>11. /\ t < Max2(tw + VCycleT(v), t + 4)
         /\ t + m <= Max2(tw + VCycleT(v), t + 4)
         /\ -Lag <= m
    BY <1>1, <2>2, <2>3, <2>6, <2>7, <2>9 DEF Max2
  <2>12. Bus(k) => m <= 4 \/ t + m <= t + Left(k)
    BY <2>6, <2>7
  <2>13. Handled(t, t, m, f, k, v, tw)
    BY <2>3, <2>4, <2>8, <2>10, <2>11, <2>12 DEF Handled
  <2>14. QED
    BY <1>1, <1>2, <2>2, <2>3, <2>4, <2>7, <2>8, <2>13 DEF UpdateDone
<1>3. CASE ~Updates
  <2>1. v = vsync /\ k = counter /\ r.next = nextCounter /\ tw = tv
        /\ r.event = U32(cycle + WaitCycles)
    BY <1>3 DEF VStart, VAfter, KAfter, RAfter
  <2>2. PICK f \in Int : f = t + WaitCycles /\ r.event = U32(f)
    <3>1. WaitCycles \in Int
      BY <1>1
    <3>2. U32(U32(t) + WaitCycles) = U32(t + WaitCycles)
      BY <3>1, Later
    <3>3. QED
      BY <1>1, <2>1, <3>1, <3>2
  <2>3. t - tn < VCycleT(vsync) + MaxBlock /\ VCycleT(vsync) \in Vs
    BY Near
  <2>4. /\ tn <= t /\ tv <= tn /\ tn < tv + VCycleT(v)
        /\ t < Max2(tv + VCycleT(v), tn + 4)
        /\ -Lag <= nextCounter /\ tn + nextCounter <= Max2(tv + VCycleT(v), tn + 4)
    <3>1. /\ tn <= t /\ tv <= tn /\ tn < tv + VCycleT(v) /\ -Lag <= nextCounter
          /\ tn + nextCounter <= Max2(tv + VCycleT(v), tn + 4)
      BY <2>1 DEF Scheduled, Latest, VEnd
    <3>2. t - tn < nextCounter
      <4>1. t - tn < Half /\ -Half <= t - tn
        <5>1. t - tn < VCycleT(vsync) + MaxBlock
          BY Near
        <5>2. PICK a \in Vs : a = VCycleT(vsync)
          BY <2>3
        <5>3. a \in Nat /\ a + MaxBlock + Lag < Half
          BY Lengths
        <5>4. QED
          BY <1>1, <3>1, <5>1, <5>2, <5>3, HalfOf
      <4>2. S32(U32(t) - U32(tn)) = t - tn
        BY <4>1, Distance
      <4>3. QED
        BY <1>1, <1>3, <4>2 DEF Updates, Cycles
    <3>3. PICK late \in Int : late = Max2(tv + VCycleT(v), tn + 4)
      <4>1. PICK a \in Int : a = VCycleT(v)
        BY <1>1, <2>1, PartLengths
      <4>2. QED
        BY <4>1 DEF Max2
    <3>4. QED
      BY <1>1, <3>1, <3>2, <3>3
  <2>5. tn - Lag <= f /\ f <= t + WaitCycles
    BY <1>1, <2>2, <2>4
  <2>6. /\ Since(k, tn - Lag, t)
        /\ Bus(k) /\ ~(gates /\ ~k.mode.vblankGate) =>
             nextCounter <= 4 \/ tn + nextCounter <= t + Left(k) \/ tn + nextCounter <= t
    BY <2>1, Zenon DEF TimerInTime, ByHblank, Soon
  <2>7. Handled(t, tn, nextCounter, f, k, v, tv)
    BY <2>3, <2>4, <2>5, <2>6 DEF Handled
  <2>8. nextsCounter = U32(tn) /\ v.sCycle = U32(tv)
    BY <2>1 DEF Cycles
  <2>9. QED
    BY <1>1, <1>3, <2>1, <2>2, <2>7, <2>8 DEF UpdateDone
<1>4. QED
  BY <1>2, <1>3

\* An event test looks after everything that is due, and sets the next one.
LEMMA EventTestTime ==
  ASSUME TimeInv, NEW o \in Others, NEW p \in Others, EventTest(o, p)
  PROVE  TimeInv'
<1>1. PICK t, tn, te, tv, th \in Int :
        Cycles(t, tn, te, tv, th) /\ Scheduled(t, tn, te, tv, th) /\ TimerInTime(t, tn)
  BY DEF TimeInv
<1>2. TimeTypes /\ cycle = U32(t)
  BY <1>1 DEF TimeInv, Cycles
<1>3. PICK v : v = VAfter
  OBVIOUS
<1>4. PICK line, h : /\ line = IF Updates THEN Shifted(hsync) ELSE hsync
                     /\ h = IF HEdge(line) THEN NextPart(line, HCycleT(line)) ELSE line
  OBVIOUS
<1>5. PICK k : k = KAfter
  OBVIOUS
<1>6. PICK r : r = RAfter(o, p)
  OBVIOUS
<1>7. /\ vsync' = v /\ hsync' = h /\ counter' = AfterHEdge(k, line)
      /\ nextsCounter' = (IF Updates THEN cycle ELSE nextsCounter)
      /\ nextCounter' = r.next
      /\ g_nextEventCycle' =
           SetNextEvent(SetNextEvent(r.event, h.sCycle, HCycleT(h)),
                        nextsCounter', r.next)
      /\ tested' = TRUE /\ UNCHANGED <<cycle, gates>>
  <2>1. CASE Updates
    BY <1>3, <1>4, <1>5, <1>6, <2>1 DEF EventTest, Updates, VAfter, KAfter, RAfter
  <2>2. CASE ~Updates
    BY <1>3, <1>4, <1>5, <1>6, <2>2 DEF EventTest, Updates, VAfter, KAfter, RAfter
  <2>3. QED
    BY <2>1, <2>2
<1>8. PICK tw : tw = VStart(tv)
  OBVIOUS
<1>9. /\ v \in Part /\ k \in Typed /\ r.next \in Int /\ tw \in Int
      /\ v.sCycle = U32(tw)
      /\ \E n, f \in Int :
           /\ (IF Updates THEN cycle ELSE nextsCounter) = U32(n)
           /\ r.event = U32(f) /\ Handled(t, n, r.next, f, k, v, tw)
  <2>1. TimeTypes /\ Cycles(t, tn, te, tv, th) /\ Scheduled(t, tn, te, tv, th)
        /\ TimerInTime(t, tn)
    BY <1>1, <1>2
  <2>2. UpdateDone(t, v, k, r, tw)
    BY <2>1, <1>3, <1>5, <1>6, <1>8, HandledTime
  <2>3. QED
    BY <2>2 DEF UpdateDone
<1>10. PICK n, f \in Int :
        /\ nextsCounter' = U32(n) /\ v.sCycle = U32(tw) /\ r.event = U32(f)
        /\ Handled(t, n, r.next, f, k, v, tw)
  BY <1>7, <1>9
<1>11. PICK ths, tg : /\ ths = HStart(th)
                      /\ tg = IF HEdge(line) THEN ths + HCycleT(line) ELSE ths
  OBVIOUS
<1>12. /\ line \in Part /\ ths \in Int /\ line.sCycle = U32(ths)
       /\ HEdge(line) => t - Lag <= ths /\ ths <= t
       /\ h \in Part /\ tg \in Int /\ h.sCycle = U32(tg)
       /\ t < tg + HCycleT(h) /\ t + WaitCycles - tg < Half
       /\ tg <= t \/ (v.blank /\ tg < tw + 4 + MaxBlock + HSyncError)
  <2>1. TimeTypes /\ Cycles(t, tn, te, tv, th) /\ Scheduled(t, tn, te, tv, th)
    BY <1>1, <1>2
  <2>2. QED
    BY <2>1, <1>3, <1>4, <1>8, <1>11, HorizontalTime, SMTT(30) DEF VAfter
<1>13. PICK a \in Vs : a = VCycleT(v) /\ a \in Int
  BY <1>9, PartLengths
<1>14. PICK b \in Hs : b = HCycleT(h) /\ b \in Int
  BY <1>12, PartLengths
<1>15. PICK w \in Vs : t - n < w + MaxBlock
  BY <1>10 DEF Handled
<1>16. PICK m \in Int : m = r.next
  BY <1>9
<1>17. /\ n <= t /\ tw <= n /\ n < tw + a /\ t < Max2(tw + a, n + 4)
       /\ -Lag <= m /\ n + m <= Max2(tw + a, n + 4)
       /\ n - Lag <= f /\ f <= t + WaitCycles
  BY <1>10, <1>13, <1>16 DEF Handled
<1>18. /\ Lag \in Nat /\ Half \in Nat /\ MaxBlock \in Nat \ {0} /\ WaitCycles \in Nat
       /\ w \in Nat /\ w + MaxBlock + Lag < Half
       /\ b \in Nat /\ b + MaxBlock < Lag /\ w + b + 2 * MaxBlock < Half
       /\ VBlank \in Nat /\ VBlank + MaxBlock + Lag < Half
       /\ VBlank + b + 2 * MaxBlock < Half
       /\ Max2(tw + a, n + 4) \in Int
  <2>1. Max2(tw + a, n + 4) \in Int
    BY <1>9, <1>13 DEF Max2
  <2>2. VBlank \in Vs
    BY DEF Vs
  <2>3. QED
    BY <2>1, <2>2, Lengths, LagIs, HalfOf
<1>19. tg <= t \/ tg < n + VBlank
  <2>1. HSyncError \in Int /\ 4 + MaxBlock + HSyncError <= VBlank
    BY ErrorIs
  <2>2. QED
    BY <1>9, <1>12, <1>17, <1>18, <2>1
<1>20. PICK e \in Int : /\ e = Min2(f, tg + b) /\ e <= f /\ e <= tg + b
                        /\ e = f \/ e = tg + b
  BY <1>12, <1>14 DEF Min2
<1>21. SetNextEvent(r.event, h.sCycle, HCycleT(h)) = U32(e)
  <2>1. -Half <= f - tg /\ f - tg < Half
    BY <1>12, <1>15, <1>17, <1>18, <1>19
  <2>2. SetNextEvent(U32(f), U32(tg), b) = U32(Min2(f, tg + b))
    BY <1>12, <1>14, <2>1, SetNextEventIs
  <2>3. QED
    BY <1>10, <1>12, <1>14, <1>20, <2>2
<1>22. PICK g \in Int : g = Min2(e, n + m) /\ g <= e /\ g <= n + m /\ (g = e \/ g = n + m)
  BY DEF Min2
<1>23. n - Lag <= e
  BY <1>12, <1>14, <1>17, <1>18, <1>20
<1>24. g_nextEventCycle' = U32(g)
  <2>1. -Half <= e - n
    BY <1>18, <1>23
  <2>2. e - n < Half
    BY <1>12, <1>15, <1>17, <1>18, <1>19, <1>20
  <2>3. SetNextEvent(U32(e), U32(n), m) = U32(Min2(e, n + m))
    BY <2>1, <2>2, SetNextEventIs
  <2>4. QED
    BY <1>7, <1>10, <1>16, <1>21, <1>22, <2>3
<1>25. Cycles(t, n, g, tw, tg)'
  BY <1>2, <1>7, <1>10, <1>12, <1>24 DEF Cycles
<1>26. Scheduled(t, n, g, tw, tg)'
  <2>1. /\ VEnd(tw)' = tw + a /\ HEnd(tg)' = tg + b /\ nextCounter' = m
        /\ Latest(n, tw)' = Max2(tw + a, n + 4)
    BY <1>7, <1>13, <1>14, <1>16 DEF VEnd, HEnd, Latest, VCycleT, HCycleT
  <2>2. n - Lag <= g /\ g <= tg + b /\ g <= n + m /\ g <= Max2(tw + a, n + 4)
    BY <1>12, <1>14, <1>17, <1>18, <1>20, <1>22, <1>23
  <2>3. t < tg + b /\ Started(t, tw, tg)'
    BY <1>7, <1>12, <1>14 DEF Started
  <2>4. t < tg + b + MaxBlock /\ t < Max2(tw + a, n + 4) + MaxBlock
    BY <1>12, <1>14, <1>17, <1>18, <2>3
  <2>5. QED
    BY <1>17, <2>1, <2>2, <2>3, <2>4 DEF Scheduled
<1>27. HEdge(line) => n - Lag <= ths /\ ths <= t
  BY <1>12, <1>17, <1>18
<1>28. PICK k3 : k3 = AfterHEdge(k, line)
  OBVIOUS
<1>29. /\ k3 \in Typed /\ Since(k3, n - Lag, t)
       /\ ~(gates /\ ~k3.mode.vblankGate) =>
            k3 = k \/ (k3.mode = k.mode /\ k.mode.rate = 0)
  <2>1. Since(k, n - Lag, t)
    BY <1>10 DEF Handled
  <2>2. QED
    BY <1>2, <1>9, <1>12, <1>27, <1>28, <2>1, AfterHEdgeTime
<1>30. TimerInTime(t, n)'
  <2>1. counter' = k3 /\ nextCounter' = m /\ gates' = gates /\ cycle' = cycle
    BY <1>7, <1>16, <1>28
  <2>2. Since(counter, n - Lag, t)'
    BY <1>29, <2>1 DEF Since
  <2>3. ASSUME (Bus(counter) /\ ~ByHblank)'
        PROVE  (\/ Soon \/ n + nextCounter <= t + Left(counter)
                \/ n + nextCounter <= t)'
    <3>1. Bus(k3) /\ ~(gates /\ ~k3.mode.vblankGate)
      BY <2>1, <2>3 DEF Bus, ByHblank
    <3>2. k3 = k
      BY <1>29, <3>1 DEF Bus
    <3>3. m <= 4 \/ n + m <= t + Left(k) \/ n + m <= t
      BY <1>10, <1>16, <3>1, <3>2, Zenon DEF Handled
    <3>4. Left(counter)' = Left(k)
      BY <2>1, <3>2 DEF Left, Limit, Age
    <3>5. Soon' <=> m <= 4
      BY <2>1 DEF Soon
    <3>6. QED
      BY <2>1, <3>3, <3>4, <3>5
  <2>4. QED
    BY <2>2, <2>3 DEF TimerInTime
<1>31. TimeTypes'
  BY <1>2, <1>7, <1>9, <1>12, <1>28, <1>29 DEF TimeTypes
<1>32. QED
  BY <1>9, <1>12, <1>25, <1>26, <1>30, <1>31 DEF TimeInv

\* Every step leaves the schedule in time.
LEMMA TimeStep ==
  ASSUME TimeInv, [Next]_vars
  PROVE  TimeInv'
<1>1. CASE \E b \in 1..MaxBlock : Run(b)
  BY <1>1, RunTime
<1>2. CASE \E m \in Modes, clear \in BOOLEAN : Wmode(m, clear)
  BY <1>2, WmodeTime
<1>3. CASE \E x \in Counts : Wcount(x)
  BY <1>3, WcountTime
<1>4. CASE \E x \in Targets : Wtarget(x)
  BY <1>4, WtargetTime
<1>5. CASE \E o, p \in Others : EventTest(o, p)
  BY <1>5, EventTestTime
<1>6. CASE UNCHANGED vars
  <2>1. UNCHANGED <<cycle, nextsCounter, g_nextEventCycle, nextCounter, counter,
                    gates, hsync, vsync, tested>>
    BY <1>6 DEF vars
  <2>2. TimeTypes'
    BY <2>1 DEF TimeInv, TimeTypes
  <2>3. PICK t, tn, te, tv, th \in Int :
          Cycles(t, tn, te, tv, th) /\ Scheduled(t, tn, te, tv, th)
          /\ TimerInTime(t, tn)
    BY DEF TimeInv
  <2>4. Cycles(t, tn, te, tv, th)' /\ Scheduled(t, tn, te, tv, th)'
    BY <2>1, <2>3 DEF Cycles, Scheduled, Latest, VEnd, HEnd, VCycleT, HCycleT,
                        Started
  <2>5. TimerInTime(t, tn)'
    BY <2>1, <2>3 DEF TimerInTime, Since, Bus, ByHblank, Soon, Left, Limit, Age
  <2>6. QED
    BY <2>2, <2>4, <2>5 DEF TimeInv
<1>7. CASE \E d \in Delays : OtherEvent(d)
  BY <1>7, OtherEventTime
<1>8. CASE \E o \in Others : OtherSet(o)
  BY <1>8, OtherSetTime
<1>9. QED
  BY <1>1, <1>2, <1>3, <1>4, <1>5, <1>6, <1>7, <1>8 DEF Next

\* For every value of the constants, the next update and the next event test
\* are set in time for all that is due.
THEOREM EventsInTime == Spec => []NextEventInTime
<1>1. Init => TimeInv
  BY InitTime
<1>2. TimeInv /\ [Next]_vars => TimeInv'
  BY TimeStep
<1>3. TimeInv => NextEventInTime
  BY TimeImplies
<1>4. QED
  BY <1>1, <1>2, <1>3, PTL DEF Spec

-----------------------------------------------------------------------------
(* The stepped timer, and the types *)

Steps == [follows : BOOLEAN, count : Nat, phase : Nat, out : Outcome]

\* The stepped timer has its types after a test of the target and the top.
LEMMA IdealHitTyped ==
  ASSUME counter \in Typed, NEW d \in Steps
  PROVE  IdealHit(d) \in Steps
<1>1. PICK tar : tar = [Irq(d.out) EXCEPT !.TargetReached = TRUE]
  OBVIOUS
<1>2. PICK over : over = IF counter.mode.OverflowInterrupt
                         THEN [Irq(d.out) EXCEPT !.OverflowReached = TRUE] ELSE d.out
  OBVIOUS
<1>3. PICK c : c = IF counter.mode.ZeroReturn THEN 0 ELSE d.count
  OBVIOUS
<1>4. d.out \in Outcome /\ d.count \in Nat
  BY DEF Steps
<1>5. tar \in Outcome /\ over \in Outcome /\ c \in Nat
  BY <1>1, <1>2, <1>3, <1>4, IrqTyped
<1>6. /\ [d EXCEPT !.out = tar, !.count = c] \in Steps
      /\ [d EXCEPT !.count = 0, !.out = over] \in Steps
  BY <1>5 DEF Steps
<1>7. IdealHit(d) \in {[d EXCEPT !.out = tar, !.count = c],
                       [d EXCEPT !.count = 0, !.out = over], d}
  BY <1>1, <1>2, <1>3, Zenon DEF IdealHit
<1>8. QED
  BY <1>6, <1>7

\* And so it has after a cycle.
LEMMA IdealStepTyped ==
  ASSUME counter \in Typed, NEW d \in Steps
  PROVE  IdealStep(d) \in Steps
<1>1. PICK p : p = d.phase + 1
  OBVIOUS
<1>2. p \in Nat
  BY <1>1 DEF Steps
<1>3. [d EXCEPT !.phase = p] \in Steps
  BY <1>2 DEF Steps
<1>4. PICK e : e = [d EXCEPT !.phase = 0, !.count = @ + 1]
  OBVIOUS
<1>5. e \in Steps
  <2>1. PICK c \in Nat : c = d.count + 1
    BY DEF Steps
  <2>2. e = [d EXCEPT !.phase = 0, !.count = c]
    BY <1>4, <2>1, Zenon
  <2>3. QED
    BY <2>2 DEF Steps
<1>6. IdealHit(e) \in Steps
  BY <1>5, IdealHitTyped
<1>7. IdealStep(d) \in {d, [d EXCEPT !.phase = p], IdealHit(e)}
  BY <1>1, <1>4, Zenon DEF IdealStep
<1>8. QED
  BY <1>3, <1>6, <1>7

\* What the function of IdealAfter has at i.
Stepped(f, i) == IF i = 0 THEN ideal ELSE IdealStep(f[i - 1])

\* There is a function that satisfies the equation of IdealAfter: the largest
\* one could be extended by a step.
LEMMA SteppedExists ==
  ASSUME NEW b \in Nat
  PROVE  \E f : f = [i \in 0..b |-> Stepped(f, i)]
<1> DEFINE Solved(n) == \E f : f = [i \in 0..n |-> Stepped(f, i)]
           S == {n \in Nat : ~Solved(n)}
<1>1. S = {}
  <2> SUFFICES ASSUME S # {} PROVE FALSE
    OBVIOUS
  <2>1. PICK n \in S : \A m \in S : n <= m
    <3>1. S \subseteq Nat
      OBVIOUS
    <3> HIDE DEF S
    <3>2. QED
      BY <3>1, Least
  <2>2. n # 0
    <3>1. [i \in 0..0 |-> ideal] = [i \in 0..0 |-> Stepped([e \in 0..0 |-> ideal], i)]
      BY DEF Stepped
    <3>2. Solved(0)
      BY <3>1
    <3>3. QED
      BY <2>1, <3>2
  <2>3. n - 1 \in Nat /\ n \in Nat /\ ~(n <= n - 1)
    BY <2>1, <2>2
  <2>4. Solved(n - 1)
    <3> HIDE DEF Solved
    <3>1. QED
      BY <2>1, <2>3
  <2>5. PICK f : f = [i \in 0..(n - 1) |-> Stepped(f, i)]
    BY <2>4
  <2> DEFINE g == [i \in 0..n |-> Stepped(f, i)]
  <2>6. ASSUME NEW i \in 0..n PROVE Stepped(g, i) = Stepped(f, i)
    <3>1. CASE i = 0
      BY <3>1 DEF Stepped
    <3>2. CASE i # 0
      <4>1. i - 1 \in 0..n /\ i - 1 \in 0..(n - 1)
        BY <2>3, <3>2
      <4>2. g[i - 1] = Stepped(f, i - 1) /\ f[i - 1] = Stepped(f, i - 1)
        BY <2>5, <4>1
      <4> HIDE DEF g
      <4>3. QED
        BY <3>2, <4>2 DEF Stepped
    <3>3. QED
      BY <3>1, <3>2
  <2>7. g = [i \in 0..n |-> Stepped(g, i)]
    BY <2>6
  <2>8. Solved(n)
    BY <2>7
  <2>9. QED
    BY <2>1, <2>8
<1>2. QED
  BY <1>1

\* The stepped timer has its types after any number of cycles: none of them can
\* be the first after which it has not.
LEMMA IdealAfterTyped ==
  ASSUME counter \in Typed, ideal \in Steps, NEW b \in Nat
  PROVE  IdealAfter(b) \in Steps
<1>1. PICK d : d = CHOOSE f : f = [i \in 0..b |-> Stepped(f, i)]
  OBVIOUS
<1>2. IdealAfter(b) = d[b]
  BY <1>1, Zenon DEF IdealAfter, Stepped
<1>3. d = [i \in 0..b |-> Stepped(d, i)]
  BY <1>1, SteppedExists
<1>4. \A i \in 0..b : d[i] = Stepped(d, i)
  BY <1>3
<1> DEFINE S == {i \in 0..b : d[i] \notin Steps}
<1>5. S = {}
  <2> SUFFICES ASSUME S # {} PROVE FALSE
    OBVIOUS
  <2>1. PICK i \in S : \A j \in S : i <= j
    <3>1. S \subseteq Nat
      OBVIOUS
    <3> HIDE DEF S
    <3>2. QED
      BY <3>1, Least
  <2>2. i \in 0..b /\ d[i] = Stepped(d, i) /\ d[i] \notin Steps
    BY <1>4, <2>1
  <2>3. i # 0
    BY <2>2 DEF Stepped
  <2>4. i - 1 \in 0..b /\ ~(i <= i - 1)
    BY <2>2, <2>3
  <2>5. d[i - 1] \in Steps
    BY <2>1, <2>4
  <2>6. d[i] = IdealStep(d[i - 1])
    BY <2>2, <2>3 DEF Stepped
  <2>7. QED
    BY <2>2, <2>5, <2>6, IdealStepTyped
<1>6. d[b] \in Steps
  BY <1>5
<1>7. QED
  BY <1>2, <1>6

\* The stepped timer has its types when it is started over from a timer.
LEMMA IdealOfTyped ==
  ASSUME NEW t \in Int, cycle = U32(t), NEW k \in Typed
  PROVE  IdealOf(k) \in Steps
<1>1. Stopped \in Steps
  BY DEF Stopped, Steps, NoOutcome, Outcome
<1>2. CASE Bus(k)
  <2>1. k.mode.rate \in Nat \ {0} /\ k.out \in Outcome
    BY <1>2, CountersAssumption DEF Bus, Typed, Mode
  <2>2. \A a \in Nat, r \in Nat \ {0} : a % r \in Nat
    OBVIOUS
  <2>3. Rcount(k) \in Nat /\ Age(k) \in Nat
    BY FoldedTyped
  <2>4. PICK c, p \in Nat : c = Rcount(k) /\ p = Age(k) % k.mode.rate
    BY <2>1, <2>2, <2>3
  <2>5. [follows |-> TRUE, count |-> c, out |-> k.out, phase |-> p] \in Steps
    BY <2>1 DEF Steps
  <2>6. QED
    BY <1>1, <2>4, <2>5 DEF IdealOf
<1>3. CASE ~Bus(k)
  BY <1>1, <1>3 DEF IdealOf
<1>4. QED
  BY <1>2, <1>3

\* The invariant of the schedule has all types but those of the stepped timer.
TypeInv == TimeInv /\ ideal \in Steps

LEMMA TypeImplies == TypeInv => TypeOK
<1> SUFFICES ASSUME TypeInv PROVE TypeOK
  OBVIOUS
<1>1. PICK t, tn, te, tv, th \in Int : Cycles(t, tn, te, tv, th)
  BY DEF TypeInv, TimeInv
<1>2. /\ cycle \in 0..CycleCount - 1 /\ g_nextEventCycle \in 0..CycleCount - 1
      /\ nextsCounter \in 0..CycleCount - 1
  BY <1>1, U32Same DEF Cycles
<1>3. /\ counter.count \in Nat /\ counter.target \in 0..Top - 1
      /\ counter.future \in BOOLEAN /\ counter.sCycleT \in 0..CycleCount - 1
      /\ counter.mode \in Mode /\ counter.out \in Outcome
  BY DEF TypeInv, TimeInv, TimeTypes, Typed
<1>4. /\ vsync.blank \in BOOLEAN /\ vsync.sCycle \in 0..CycleCount - 1
      /\ hsync.blank \in BOOLEAN /\ hsync.sCycle \in 0..CycleCount - 1
  BY DEF TypeInv, TimeInv, TimeTypes, Part
<1>5. /\ ideal.follows \in BOOLEAN /\ ideal.count \in Nat /\ ideal.phase \in Nat
      /\ ideal.out \in Outcome
  BY DEF TypeInv, Steps
<1>6. nextCounter \in Int /\ gates \in BOOLEAN /\ tested \in BOOLEAN
  BY DEF TypeInv, TimeInv, TimeTypes
<1>7. QED
  BY <1>2, <1>3, <1>4, <1>5, <1>6 DEF TypeOK

\* Every step keeps the types of the stepped timer.
LEMMA TypeStep ==
  ASSUME TypeInv, [Next]_vars, TimeInv'
  PROVE  ideal' \in Steps
<1>1. PICK t \in Int : cycle = U32(t)
  BY DEF TypeInv, TimeInv, Cycles
<1>2. counter \in Typed /\ counter' \in Typed /\ ideal \in Steps
  BY DEF TypeInv, TimeInv, TimeTypes
<1>3. IdealOf(counter') \in Steps
  BY <1>1, <1>2, IdealOfTyped
<1>4. ASSUME NEW b \in 1..MaxBlock, Run(b) PROVE ideal' \in Steps
  <2>1. b \in Nat /\ ideal' = IdealAfter(b)
    BY <1>4, CountersAssumption DEF Run
  <2>2. QED
    BY <1>2, <2>1, IdealAfterTyped
<1>5. ASSUME NEW m \in Modes, NEW clear \in BOOLEAN, Wmode(m, clear)
      PROVE  ideal' \in Steps
  <2>1. PICK out : out = [counter.out EXCEPT !.TargetReached = @ /\ ~clear,
                                             !.OverflowReached = @ /\ ~clear]
    OBVIOUS
  <2>2. ideal' = [ideal EXCEPT !.out = out] \/ ideal' = IdealOf(counter')
    BY <1>5, <2>1, Zenon DEF Wmode, Set
  <2>3. counter.out \in Outcome
    BY <1>2 DEF Typed
  <2>4. out \in Outcome
    BY <2>1, <2>3 DEF Outcome
  <2>5. [ideal EXCEPT !.out = out] \in Steps
    BY <1>2, <2>4 DEF Steps
  <2>6. QED
    BY <1>3, <2>2, <2>5
<1>6. ASSUME NEW x \in Counts, Wcount(x) PROVE ideal' \in Steps
  <2>1. x \in Nat
    BY CountersAssumption
  <2>2. [ideal EXCEPT !.count = x] \in Steps
    BY <1>2, <2>1 DEF Steps
  <2>3. IdealHit([ideal EXCEPT !.count = x]) \in Steps
    BY <1>2, <2>2, IdealHitTyped
  <2>4. ideal' = IdealHit([ideal EXCEPT !.count = x]) \/ ideal' = IdealOf(counter')
    BY <1>6, Zenon DEF Wcount, Set
  <2>5. QED
    BY <1>3, <2>3, <2>4
<1>7. ASSUME NEW x \in Targets, Wtarget(x) PROVE ideal' \in Steps
  <2>1. ideal' = ideal \/ ideal' = IdealOf(counter')
    BY <1>7, Zenon DEF Wtarget, Set
  <2>2. QED
    BY <1>2, <1>3, <2>1
<1>8. ASSUME NEW o \in Others, NEW p \in Others, EventTest(o, p) PROVE ideal' \in Steps
  <2>1. ideal' = ideal \/ ideal' = IdealOf(counter')
    BY <1>8, Zenon DEF EventTest
  <2>2. QED
    BY <1>2, <1>3, <2>1
<1>9. ASSUME UNCHANGED vars PROVE ideal' \in Steps
  BY <1>2, <1>9 DEF vars
<1>10. ASSUME NEW d \in Delays, OtherEvent(d) PROVE ideal' \in Steps
  BY <1>2, <1>10, Zenon DEF OtherEvent
<1>11. ASSUME NEW o \in Others, OtherSet(o) PROVE ideal' \in Steps
  BY <1>2, <1>11, Zenon DEF OtherSet
<1>12. QED
  BY <1>4, <1>5, <1>6, <1>7, <1>8, <1>9, <1>10, <1>11 DEF Next

\* Every variable has its type, for every value of the constants.
THEOREM CountersTypeCorrect == Spec => []TypeOK
<1>1. Init => TypeInv
  <2>1. Init => ideal \in Steps
    BY DEF Init, Stopped, Steps, NoOutcome, Outcome
  <2>2. QED
    BY <2>1, InitTime DEF TypeInv
<1>2. TypeInv /\ [Next]_vars => TypeInv'
  BY TimeStep, TypeStep DEF TypeInv
<1>3. QED
  BY <1>1, <1>2, TypeImplies, PTL DEF Spec

=============================================================================
