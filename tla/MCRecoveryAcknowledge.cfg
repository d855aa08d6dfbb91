SPECIFICATION FairSpec
CONSTANTS
    Mutations = {}
    Tokens = {t1}
    HeldAtStart = {t1}
    AutoRenew = TRUE
    Cancellable = FALSE
    MaxRetries = 1
    MaxFaults = 0
    MaxEvents = 0
    MaxRevoked = 1
    None = None
PROPERTY RevokedAcknowledged
