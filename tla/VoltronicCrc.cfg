\* Every text of two bytes; one byte changed in the frames of texts of
\* one byte and of some of two.
CONSTANTS
  TextBytes <- MCTextBytes
  Masks <- MCMasks
  DamagedTexts <- MCDamagedTexts
SPECIFICATION Spec
INVARIANTS TypeOK RemainderIsPolynomial FrameEndsAtItsEnd OnlyDamageIsRefused
