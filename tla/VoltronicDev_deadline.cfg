\* The wall clock is set once during the call.
CONSTANTS
  HidReportSize = 4
  CommandLengths <- MCCommandLengths
  ReceiveLength = 10
  Timeouts <- MCTimeouts
  OptionSets <- MCNoOptions
  MaxDelay = 1
  TicksPerMs = 1
  ClockMod = 8
  InitialClocks <- MCClocks
  ClockSettings <- MCSettings
  MaxClockSteps = 1
SPECIFICATION Spec
INVARIANT GivesUpAlways
