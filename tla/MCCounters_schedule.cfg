SPECIFICATION Spec
CONSTANTS
  CycleCount = 78
  Top = 5
  Rates = {2}
  VRender = 6
  VBlank = 7
  HRender = 4
  HBlank = 2
  HScanlines = 4
  WaitCycles = 20
  MaxBlock = 2
  MaxCount = 6
  Others <- MCOthers
  Delays = {0}
  Modes <- MCTimers
  Targets = {3}
  Counts = {4}
INVARIANT SetAfterGate
VIEW Relative
