\* Replies to every message with a list.
CONSTANTS
  AmpsSize = 3
  StaleMinutes = {0, 7}
  BufSize = 8
  Replies <- MCReplies
SPECIFICATION Spec
INVARIANTS TypeOK ItemsAreSplit AllItemsDelivered FieldsHoldTheirItems
