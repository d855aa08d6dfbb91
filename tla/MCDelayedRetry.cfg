SPECIFICATION FairSpec
CONSTANTS
    MaxRetries = 1
    MaxCalls = 3
CHECK_DEADLOCK FALSE
INVARIANTS TypeOK NoReexecution SlotInStep RetriedWhenSafe NothingLeftBehind
PROPERTY CallReturns
