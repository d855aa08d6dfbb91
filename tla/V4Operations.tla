---------------------------- MODULE V4Operations ----------------------------
(***************************************************************************)
(* The NFSv4 COMPOUND of src/src/v4/proto.rs: what Operation::encode writes *)
(* after each operation number, and what OperationResult::decode reads      *)
(* after each result's operation and status.  A result carries no length,   *)
(* so every body must be read to its last word for the next to be found.    *)
(***************************************************************************)
EXTENDS V4Types

Numbered(first, names) == [n \in first..(first + Len(names) - 1) |-> names[n - first + 1]]

\* OpCode::from_u32; any other number is read as Illegal
OpCode ==
  Numbered(3, <<"Access", "Close", "Commit", "Create", "DelegPurge", "DelegReturn",
    "GetAttr", "GetFh", "Link", "Lock", "Lockt", "Locku", "Lookup", "Lookupp", "NVerify",
    "Open", "OpenAttr", "OpenConfirm", "OpenDowngrade", "PutFh", "PutPubFh", "PutRootFh",
    "Read", "ReadDir", "ReadLink", "Remove", "Rename", "Renew", "RestoreFh", "SaveFh",
    "SecInfo", "SetAttr", "SetClientId", "SetClientIdConfirm", "Verify", "Write",
    "ReleaseLockOwner", "BackchannelCtl", "BindConnToSession", "ExchangeId",
    "CreateSession", "DestroySession", "FreeStateId", "GetDirDelegation",
    "GetDeviceInfo", "GetDeviceList", "LayoutCommit", "LayoutGet", "LayoutReturn",
    "SecInfoNoName", "Sequence", "SetSsv", "TestStateId", "WantDelegation",
    "DestroyClientId", "ReclaimComplete", "Allocate", "Copy", "CopyNotify",
    "Deallocate", "IoAdvise", "LayoutError", "LayoutStats", "OffloadCancel",
    "OffloadStatus", "ReadPlus", "Seek", "WriteSame", "Clone">>)
  @@ 10044 :> "Illegal"

\* Status::from_u32; any other number is kept as Unknown
Status ==
  0 :> "Ok" @@ 1 :> "Perm" @@ 2 :> "NoEnt" @@ 5 :> "Io" @@ 6 :> "Nxio"
  @@ 13 :> "Access" @@ 17 :> "Exist" @@ 18 :> "Xdev" @@ 20 :> "NotDir"
  @@ 21 :> "IsDir" @@ 22 :> "Inval" @@ 27 :> "Fbig" @@ 28 :> "NoSpc"
  @@ 30 :> "ReadOnlyFs" @@ 31 :> "Mlink" @@ 63 :> "NameTooLong" @@ 66 :> "NotEmpty"
  @@ 69 :> "Dquot" @@ 70 :> "Stale" @@ 10001 :> "BadHandle"
  @@ Numbered(10003, <<"BadCookie", "NotSupported", "TooSmall", "ServerFault", "BadType",
    "Delay", "Same", "Denied", "Expired", "Locked", "Grace", "FhExpired", "ShareDenied",
    "WrongSec", "ClidInUse", "Resource", "Moved", "NoFileHandle",
    "MinorVersionMismatch", "StaleClientId", "StaleStateId", "OldStateId", "BadStateId",
    "BadSeqId", "NotSame", "LockRange", "Symlink", "RestoreFh", "LeaseMoved",
    "AttrNotSupp", "NoGrace", "ReclaimBad", "ReclaimConflict", "BadXdr", "LocksHeld",
    "OpenMode", "BadOwner", "BadChar", "BadName", "BadRange", "LockNotSupp",
    "OpIllegal", "Deadlock", "FileOpen", "AdminRevoked", "CbPathDown", "BadIoMode",
    "BadLayout", "BadSessionDigest", "BadSession", "BadSlot", "CompleteAlready",
    "ConnNotBoundToSession", "DelegAlreadyWanted", "BackChanBusy", "LayoutTryLater",
    "LayoutUnavailable", "NoMatchingLayout", "RecallConflict", "UnknownLayoutType",
    "SeqMisordered", "SequencePos", "ReqTooBig", "RepTooBig", "RepTooBigToCache",
    "RetryUncachedRep", "UnsafeCompound", "TooManyOps", "OpNotInSession",
    "HashAlgUnsupported">>)
  @@ Numbered(10074, <<"ClientIdBusy", "PnfsIoHole", "SeqFalseRetry", "BadHighSlot",
    "DeadSession", "EncrAlgUnsupported", "PnfsNoLayout", "NotOnlyOp", "WrongCred",
    "WrongType", "DirDelegUnavailable", "RejectDeleg", "ReturnConflict", "DelegRevoked",
    "PartnerNotSupp", "PartnerNoAuth", "UnionNotSupported", "OffloadDenied", "WrongLfs",
    "BadLabel", "OffloadNoReqs">>)

\* Status::as_u32
Code(name) == CHOOSE n \in DOMAIN Status : Status[n] = name

(***************************************************************************)
(* Operation::encode: the arguments of each operation.                      *)
(***************************************************************************)
OperationArgs ==
  [op \in Range(OpCode) \ {"Illegal"} |->
     CASE op \in {"PutRootFh", "PutPubFh", "Lookupp", "GetFh", "ReadLink", "SaveFh",
                  "RestoreFh"} -> Nothing
       [] op \in {"Lookup", "SecInfo", "Remove", "Link"} -> Text
       [] op = "Rename" -> Struct(<<Text, Text>>)
       [] op \in {"DestroyClientId", "DelegPurge", "Renew"} -> U64
       [] op \in {"ReclaimComplete", "OpenAttr"} -> Bool
       [] op \in {"DelegReturn", "FreeStateId", "OffloadCancel", "OffloadStatus"} ->
            StateId_encode
       [] op \in {"NVerify", "Verify"} -> Fattr_encode
       [] op \in {"Allocate", "Deallocate"} -> Struct(<<StateId_encode, U64, U64>>)
       [] op = "Access" -> U32
       [] op = "BackchannelCtl" -> BackchannelCtlArgs
       [] op = "BindConnToSession" -> BindConnToSessionArgs
       [] op = "Clone" -> CloneArgs
       [] op = "Close" -> Struct(<<U32, StateId_encode>>)
       [] op = "Commit" -> Struct(<<U64, U32>>)
       [] op = "Copy" -> CopyArgs
       [] op = "CopyNotify" -> CopyNotifyArgs
       [] op = "Create" -> CreateArgs
       [] op = "CreateSession" -> CreateSessionArgs
       [] op = "DestroySession" -> SessionId
       [] op = "ExchangeId" -> ExchangeIdArgs
       [] op = "GetAttr" -> Bitmap_encode
       [] op = "GetDeviceInfo" -> GetDeviceInfoArgs
       [] op = "GetDeviceList" -> GetDeviceListArgs
       [] op = "GetDirDelegation" -> GetDirDelegationArgs
       [] op = "IoAdvise" -> IoAdviseArgs
       [] op = "LayoutCommit" -> LayoutCommitArgs
       [] op = "LayoutError" -> LayoutErrorArgs
       [] op = "LayoutGet" -> LayoutGetArgs
       [] op = "LayoutReturn" -> LayoutReturnArgs
       [] op = "LayoutStats" -> LayoutStatsArgs
       [] op = "Lock" -> LockArgs
       [] op = "Lockt" -> LockTestArgs
       [] op = "Locku" -> LockUnlockArgs
       [] op = "Open" -> OpenArgs
       [] op = "OpenConfirm" -> Struct(<<StateId_encode, U32>>)
       [] op = "OpenDowngrade" -> Struct(<<StateId_encode, U32, U32, U32>>)
       [] op = "PutFh" -> FileHandle_encode
       [] op = "Read" -> Struct(<<StateId_encode, U64, U32>>)
       [] op = "ReadDir" -> Struct(<<U64, Verifier, U32, U32, Bitmap_encode>>)
       [] op = "ReadPlus" -> ReadPlusArgs
       [] op = "ReleaseLockOwner" -> LockOwner_encode
       [] op = "SecInfoNoName" -> SecInfoStyle
       [] op = "Seek" -> Struct(<<StateId_encode, U64, SeekContent>>)
       [] op = "Sequence" -> SequenceArgs
       [] op = "SetAttr" -> Struct(<<StateId_encode, Fattr_encode>>)
       [] op = "SetClientId" -> SetClientIdArgs
       [] op = "SetClientIdConfirm" -> SetClientIdConfirmArgs
       [] op = "SetSsv" -> SetSsvArgs
       [] op = "TestStateId" -> Many(StateId_encode)
       [] op = "WantDelegation" -> WantDelegationArgs
       [] op = "Write" -> Struct(<<StateId_encode, U64, StableHow, Payload>>)
       [] op = "WriteSame" -> WriteSameArgs]

OperationArms == [n \in DOMAIN OpCode \ {10044} |-> OperationArgs[OpCode[n]]]
Operation == Union(OperationArms)

CompoundArgs == Struct(<<Text, U32, Many(Operation)>>)

=============================================================================
