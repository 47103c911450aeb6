\* Default options, as isv calls the library.
CONSTANTS
  HidReportSize = 4
  CommandLengths <- MCCommandLengths
  ReceiveLength = 10
  Timeouts <- MCTimeouts
  OptionSets <- MCNoOptions
  MaxDelay = 1
  TicksPerMs = 1
  ClockMod = 8
  InitialClocks <- MCClocks
  ClockSettings = {}
  MaxClockSteps = 0
SPECIFICATION Spec
INVARIANT BadChecksumIsRejected
