CONSTANTS
    N = 2
    Backdated = FALSE
    MaxWrites = 4
    MaxFails = 1
SPECIFICATION FairSpec
INVARIANTS StaleIsNoticed RunningIsValid
PROPERTIES NeverBackwards ConfigConverges
\* A process that could not start stops.
CHECK_DEADLOCK FALSE
