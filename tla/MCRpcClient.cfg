SPECIFICATION ClientSpec
CONSTANTS
    Calls = {c1, c2, c3}
    NoCall = NoCall
    MaxConns = 2
    XidMod = 3
    MaxLeases = 2
CHECK_DEADLOCK FALSE
INVARIANTS
    TypeOK
    ReplyIsOwn
    StreamInStep
    KeeperStops
PROPERTIES
    ContractSpec
    CallReturns
    FailureReported
    LeaseEnds
