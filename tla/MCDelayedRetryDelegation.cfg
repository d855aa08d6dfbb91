SPECIFICATION Spec
CONSTANTS
    MaxRetries = 1
    MaxCalls = 1
CHECK_DEADLOCK FALSE
INVARIANT NoDelegationKept
