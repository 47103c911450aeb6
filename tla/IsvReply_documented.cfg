\* The output of a status against the comments of p18.h.
CONSTANTS
  AmpsSize = 3
  StaleMinutes = {0, 77}
  StaleTexts <- MCStaleTexts
  Replies <- MCReplies
SPECIFICATION Spec
INVARIANT ValuesAreShown
