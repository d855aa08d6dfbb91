SPECIFICATION Spec
CONSTANTS
    Headroom = 2
    MaxIo = 3
    Sizes = {0, 2, 3, 6}
    MaxReconnects = 1
    Data <- MCData
    Old <- MCOld
    ChunkSize = 2
    MaxOffset = 6
    MaxFaults = 2
    MaxRestarts = 2
    Cookies = {1, 2, 3, 4}
    MaxEntries = 3
    MaxChanges = 2
    Tree <- MCTree
    Target <- MCTarget
    Doomed <- MCDoomed
    MaxMoves = 3
    Limits = {0, 2, 4, 5}
    MaxIoBytes = 4
    ServerSizes = {0, 1, 3, 6}
    MaxRetries = 2
    NFS4_FHSIZE = 6
    NFS4_OPAQUE_LIMIT = 5
    NFS4_MAX_IO = 7
    MaxItems = 2
    NFS4_NSECONDS_PER_SECOND = 2
    NFS3_FHSIZE = 5
    MAX_NAME_BYTES = 5
    MAX_PATH_BYTES = 6
    MAX_IO_BYTES = 7
    MAX_DIR_ENTRIES = 2
    MOUNT_MAX_LIST_ENTRIES = 2
    AUTH_SYS_MAX_GROUPS = 2
    NFS3_NSECONDS_PER_SECOND = 2
    MaxRecord = 60
    Paths <- MCPaths
    AttrNames = {"n", ".."}
    OpLimits = {5, 16}
CHECK_DEADLOCK FALSE
INVARIANTS
    TypeOK NothingLeftBehind Negotiated OkMeansDurable OldOrNew
    ListingComplete ListingEnds TreesRight MessagesExact MethodsAnswered
