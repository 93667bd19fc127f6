CONSTANTS
  MaxHeight = 3
  MaxCrashes = 0
  MaxErrors = 1
SPECIFICATION Spec
PROPERTY Retries
