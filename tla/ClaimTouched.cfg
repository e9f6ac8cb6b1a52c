SPECIFICATION PostSpec
CONSTANTS
    MaxSteps = 10
    Images = 2
INVARIANTS
    TouchedIsTold
CHECK_DEADLOCK FALSE
