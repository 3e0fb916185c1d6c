SPECIFICATION DirectorSpec
CONSTANTS
    Turns = {1, 2, 3, 4, 5}
    RequestsOf <- CloudTurns
    MaxRounds = 2
    HardLimit = 2
    MaxStoreFailures = 1
INVARIANT
    CloudWithinBudget
\* Every turn of the instance ends.
CHECK_DEADLOCK FALSE
