SPECIFICATION FairSpec
CONSTANTS
    Mutations = {}
    Tokens = {t1}
    HeldAtStart = {}
    AutoRenew = TRUE
    Cancellable = FALSE
    MaxRetries = 1
    MaxFaults = 1
    MaxEvents = 1
    MaxRevoked = 1
    None = None
PROPERTIES CallReturns UsableAgain
