CONSTANTS
  Nobody = Nobody
  Invocations <- MCInvocations
  SetChoices <- MCSetChoices
  MaxOpen = 2
  RequestReports = 2
  ReplyReports = 2
SPECIFICATION Spec
INVARIANTS TypeOK OwnReply ZeroMeansCarriedOut UndisturbedIsUnderstood
PROPERTY CallsImplementContract
PROPERTY Ends
