\* One command of each kind, three options.
CONSTANTS
  Commands <- MCSomeCommands
  MaxOptions = 3
  Lengths <- MCLengths
  RequestLengths = {1, 2}
  ReplyLimit = 10
SPECIFICATION Spec
INVARIANT AcceptedReplyIsComplete
