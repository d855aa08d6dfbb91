SPECIFICATION Spec
CONSTANTS
    Mutations = {m1}
    Tokens = {t1}
    HeldAtStart = {t1}
    AutoRenew = TRUE
    Cancellable = TRUE
    MaxRetries = 1
    MaxFaults = 1
    MaxEvents = 2
    MaxRevoked = 1
    None = None
CONSTRAINT FewDisturbances
INVARIANTS TypeOK ReclaimBeforeComplete LockContinuity RenewedWhileUsed NothingSentWhileLost
PROPERTIES ContractSpec Fencing NeverReclaimedAfterUnlock
