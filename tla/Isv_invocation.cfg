\* Every command, three options, replies of up to 10 bytes.
CONSTANTS
  Commands <- MCAllCommands
  MaxOptions = 3
  Lengths <- MCLengths
  RequestLengths = {2}
  ReplyLimit = 10
SPECIFICATION Spec
INVARIANTS TypeOK OwnArguments PretendSendsNothing InputErrorsSendNothing ZeroMeansDone NoCallWithoutDevice
PROPERTY Ends
