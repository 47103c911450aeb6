\* Replies to every message, in every format.
CONSTANTS
  AmpsSize = 3
  StaleMinutes = {0, 77}
  StaleTexts <- MCStaleTexts
  Replies <- MCReplies
SPECIFICATION Spec
INVARIANTS TypeOK ShownAsDeclared AnswersAreGiven NothingIsLost LabelsAreReadable CopiesFit ColumnsKeepTheData
