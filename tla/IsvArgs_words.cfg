SPECIFICATION Spec
CONSTANT CommandLines <- MCCommandLines
INVARIANTS TypeOK LengthIsDeclared SentIsMeant OthersAreAccepted
