CONSTANTS
  MaxHeight = 4
  MaxCrashes = 1
  MaxErrors = 1
SPECIFICATION Spec
INVARIANTS NoGaps
PROPERTY CatchesUp
