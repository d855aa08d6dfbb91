SPECIFICATION Spec
CONSTANTS
    Mutations = {m1}
    Tokens = {t1}
    HeldAtStart = {}
    AutoRenew = FALSE
    Cancellable = FALSE
    MaxRetries = 1
    MaxFaults = 1
    MaxEvents = 1
    MaxRevoked = 0
    None = None
INVARIANT LostReplyIsUnknown
