SPECIFICATION Spec
CONSTANTS
    Mutations = {m1}
    Tokens = {t1}
    HeldAtStart = {t1}
    AutoRenew = FALSE
    Cancellable = FALSE
    MaxRetries = 1
    MaxFaults = 0
    MaxEvents = 1
    MaxRevoked = 1
    None = None
INVARIANT DefiniteErrorNotExecuted
