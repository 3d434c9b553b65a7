SPECIFICATION Spec
CONSTANTS
  CycleCount = 78
  Top = 4
  Rates = {2}
  VRender = 6
  VBlank = 7
  HRender = 4
  HBlank = 2
  HScanlines = 4
  WaitCycles = 20
  MaxBlock = 2
  MaxCount = 5
  Others <- MCOthers
  Delays = {2}
  Modes <- MCTimers
  Targets = {3}
  Counts = {3}
INVARIANTS NextEventInTime CountsAsStepped PeriodsKept GateFollowsBlank
VIEW Relative
