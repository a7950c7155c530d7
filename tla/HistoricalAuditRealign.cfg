CONSTANTS
  Runs = {1}
  Shared = TRUE
  MaxEvents = 1
SPECIFICATION Spec
PROPERTY WorkStays

