\* All options of the library; the wall clock may be set once during the call.
CONSTANTS
  HidReportSize = 4
  CommandLengths <- MCCommandLengths
  ReceiveLength = 10
  Timeouts <- MCTimeouts
  OptionSets <- MCAllOptions
  MaxDelay = 1
  TicksPerMs = 1
  ClockMod = 8
  InitialClocks <- MCClocks
  ClockSettings <- MCSettings
  MaxClockSteps = 1
SPECIFICATION Spec
INVARIANTS TypeOK RequestInOrder WaitIsBounded ReadHasRoom GivesUpInTime NotTooEarly
PROPERTIES ImplementsContract Returns
