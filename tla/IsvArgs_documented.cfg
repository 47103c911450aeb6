SPECIFICATION Spec
CONSTANT CommandLines <- MCCommandLines
INVARIANT DocumentedIsAccepted
