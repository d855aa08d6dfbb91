------------------------------ MODULE V4Types ------------------------------
(***************************************************************************)
(* The NFSv4 data types of src/src/v4/proto.rs, each as the XDR schema its  *)
(* Encode or Decode implementation follows.  A type with both has both,     *)
(* since nothing but their agreement makes the client read back what it     *)
(* writes.  Strings are opaques: the decoder's UTF-8 test is left out.      *)
(***************************************************************************)
EXTENDS Xdr

CONSTANTS NFS4_FHSIZE, NFS4_OPAQUE_LIMIT, NFS4_MAX_IO, \* byte limits, scaled
          MaxItems,                     \* the array limits of 16 to 1000000, scaled
          NFS4_NSECONDS_PER_SECOND      \* scaled

Text == Opaque(NFS4_OPAQUE_LIMIT)
Payload == Opaque(NFS4_MAX_IO)
Many(s) == Arr(s, MaxItems)
Few(s) == Arr(s, 1)
Verifier == Fixed(8)
SessionId == Fixed(16)
Choice(d) == Among(d)                   \* an enum whose from_u32 may answer None
Open_u32 == U32                         \* an enum with an Unknown(u32) variant

FileHandle_encode == Opaque(NFS4_FHSIZE)
FileHandle_decode == Opaque(NFS4_FHSIZE)

StateId_encode == Struct(<<U32, Fixed(12)>>)
StateId_decode_Short == Struct(<<U32, Fixed(8)>>)

StateId_decode == Struct(<<U32, Fixed(12)>>)

DeviceId_encode == Fixed(16)
DeviceId_decode == Fixed(16)

FileType == Open_u32

Bitmap_encode == Many(U32)
Bitmap_decode == Many(U32)

Fattr_encode == Struct(<<Bitmap_encode, Payload>>)
Fattr_decode == Struct(<<Bitmap_decode, Payload>>)

NfsTime_encode == Struct(<<U64, Among(0..(NFS4_NSECONDS_PER_SECOND - 1))>>)
NfsTime_decode == Struct(<<U64, Among(0..(NFS4_NSECONDS_PER_SECOND - 1))>>)

\* encode_set_time: SET_TO_SERVER_TIME4 = 0, SET_TO_CLIENT_TIME4 = 1
SetTime_encode == Union(0 :> Nothing @@ 1 :> NfsTime_encode)

RpcGssService == Open_u32

SecInfo_decode ==
  UnionElse(6 :> Struct(<<Text, U32, RpcGssService>>), Nothing)

NetAddr_encode == Struct(<<Text, Text>>)
NetAddr_decode == Struct(<<Text, Text>>)

AuthSys == Struct(<<U32, Cut(Text), U32, U32, Cut(Many(U32))>>)

CallbackSecParms ==
  Union(0 :> Nothing @@ 1 :> AuthSys @@ 6 :> Struct(<<RpcGssService, Text, Text>>))

SecInfoStyle == Choice({0, 1})
StateProtectHow == {0, 1, 2}

ClientOwner == Struct(<<Verifier, Text>>)
CallbackClient == Struct(<<U32, NetAddr_encode>>)
SetClientIdArgs == Struct(<<ClientOwner, CallbackClient, U32>>)
SetClientIdConfirmArgs == Struct(<<U64, Verifier>>)

\* flags, SP4_NONE, and no implementation id
ExchangeIdArgs == Struct(<<ClientOwner, U32, Among({0}), Among({0})>>)

ChannelAttrs_encode == Struct(<<U32, U32, U32, U32, U32, U32, Few(U32)>>)
ChannelAttrs_decode == Struct(<<U32, U32, U32, U32, U32, U32, Few(U32)>>)

CreateSessionArgs ==
  Struct(<<U64, U32, U32, ChannelAttrs_encode, ChannelAttrs_encode, U32,
           Many(CallbackSecParms)>>)
BackchannelCtlArgs == Struct(<<U32, Many(CallbackSecParms)>>)
SequenceArgs == Struct(<<SessionId, U32, U32, U32, Bool>>)

ChannelDirFromClient == Choice({1, 2, 3, 7})
ChannelDirFromServer == Choice({1, 2, 3})
BindConnToSessionArgs == Struct(<<SessionId, ChannelDirFromClient, Bool>>)

OpenOwner == Struct(<<U64, Text>>)
CreateMode == 0..3
OpenType == 0..1
OpenDelegationType == 0..3

NfsAce == Struct(<<U32, U32, U32, Text>>)
NfsSpaceLimit == Union(1 :> U64 @@ 2 :> Struct(<<U32, U32>>))

\* WND4_CONTENTION and WND4_RESOURCE carry a flag, the other reasons nothing
WhyNoDelegation == UnionElse(1 :> Bool @@ 2 :> Bool, Nothing)
OpenDelegation ==
  Union(0 :> Nothing
     @@ 1 :> Struct(<<StateId_decode, Bool, NfsAce>>)
     @@ 2 :> Struct(<<StateId_decode, Bool, NfsSpaceLimit, NfsAce>>)
     @@ 3 :> WhyNoDelegation)

OpenClaimType == 0..6
LockType == Choice(1..4)
LockOwner_encode == Struct(<<U64, Text>>)
LockOwner_decode == Struct(<<U64, Text>>)

\* new_lock_owner true: open seqid and stateid, then the lock owner's
Locker ==
  Union(1 :> Struct(<<U32, StateId_encode, U32, LockOwner_encode>>)
     @@ 0 :> Struct(<<StateId_encode, U32>>))
LockArgs == Struct(<<LockType, Bool, U64, U64, Locker>>)
LockTestArgs == Struct(<<LockType, U64, U64, LockOwner_encode>>)
LockUnlockArgs == Struct(<<LockType, U32, StateId_encode, U64, U64>>)
LockDenied == Struct(<<U64, U64, LockType, LockOwner_decode>>)

IoAdviceType == 0..10

\* OPEN4_NOCREATE, or OPEN4_CREATE with UNCHECKED4, GUARDED4, EXCLUSIVE4 or
\* EXCLUSIVE4_1
OpenHow ==
  Union(0 :> Nothing
     @@ 1 :> Union(0 :> Fattr_encode @@ 1 :> Fattr_encode @@ 2 :> Verifier
                @@ 3 :> Struct(<<Verifier, Fattr_encode>>)))
OpenClaim ==
  Union(0 :> Text @@ 1 :> Choice(OpenDelegationType)
     @@ 2 :> Struct(<<StateId_encode, Text>>) @@ 3 :> Text @@ 4 :> Nothing
     @@ 5 :> StateId_encode @@ 6 :> Nothing)
OpenArgs == Struct(<<U32, U32, U32, OpenOwner, OpenHow, OpenClaim>>)

StableHow == Choice(0..2)
SeekContent == Choice({0, 1})
ChangeAttrType == 0..4

ReadPlusArgs == Struct(<<StateId_encode, U64, U32>>)
ReadPlusContent == Union(0 :> Struct(<<U64, Payload>>) @@ 1 :> Struct(<<U64, U64>>))
IoAdviseArgs == Struct(<<StateId_encode, U64, U64, Bitmap_encode>>)

LayoutType_encode == Open_u32
LayoutType_decode == Open_u32
LayoutIomode_encode == Open_u32
LayoutIomode_decode == Open_u32
LayoutContent_encode == Struct(<<LayoutType_encode, Payload>>)
LayoutContent_decode == Struct(<<LayoutType_decode, Payload>>)
Layout_encode == Struct(<<U64, U64, LayoutIomode_encode, LayoutContent_encode>>)
Layout_decode == Struct(<<U64, U64, LayoutIomode_decode, LayoutContent_decode>>)
DeviceAddr == Struct(<<LayoutType_decode, Payload>>)
LayoutUpdate == Struct(<<LayoutType_encode, Payload>>)
GetDirDelegationArgs ==
  Struct(<<Bool, Bitmap_encode, NfsTime_encode, NfsTime_encode, Bitmap_encode,
           Bitmap_encode>>)
GetDeviceInfoArgs == Struct(<<DeviceId_encode, LayoutType_encode, U32, Bitmap_encode>>)
GetDeviceListArgs == Struct(<<LayoutType_encode, U32, U64, Verifier>>)
LayoutCommitArgs ==
  Struct(<<U64, U64, Bool, StateId_encode, Opt(U64), Opt(NfsTime_encode), LayoutUpdate>>)
LayoutGetArgs ==
  Struct(<<Bool, LayoutType_encode, LayoutIomode_encode, U64, U64, U64,
           StateId_encode, U32>>)
LayoutReturnFile == Struct(<<U64, U64, StateId_encode, Payload>>)
LayoutReturn == Union(1 :> LayoutReturnFile @@ 2 :> Nothing @@ 3 :> Nothing)
LayoutReturnArgs ==
  Struct(<<Bool, LayoutType_encode, LayoutIomode_encode, LayoutReturn>>)
SetSsvArgs == Struct(<<Text, Text>>)
DelegationClaim ==
  Union(4 :> Nothing @@ 1 :> Choice(OpenDelegationType) @@ 6 :> Nothing)
WantDelegationArgs == Struct(<<U32, DelegationClaim>>)
DeviceError == Struct(<<DeviceId_encode, U32, U32>>)
LayoutErrorArgs == Struct(<<U64, U64, StateId_encode, Many(DeviceError)>>)
IoInfo == Struct(<<U64, U64>>)
LayoutStatsArgs ==
  Struct(<<U64, U64, StateId_encode, IoInfo, IoInfo, DeviceId_encode, LayoutUpdate>>)

NetLoc_encode == Union(1 :> Text @@ 2 :> Text @@ 3 :> NetAddr_encode)
NetLoc_decode == Union(1 :> Text @@ 2 :> Text @@ 3 :> NetAddr_decode)
AppDataBlock == Struct(<<U64, U64, U64, U64, U32, U64, Payload>>)
WriteResponse == Struct(<<Few(StateId_decode), U64, StableHow, Verifier>>)
CopyRequirements == Struct(<<Bool, Bool>>)
CopyArgs ==
  Struct(<<StateId_encode, StateId_encode, U64, U64, U64, Bool, Bool,
           Many(NetLoc_encode)>>)
CopyNotifyArgs == Struct(<<StateId_encode, NetLoc_encode>>)
WriteSameArgs == Struct(<<StateId_encode, StableHow, AppDataBlock>>)
CloneArgs == Struct(<<StateId_encode, StateId_encode, U64, U64, U64>>)

\* NF4DIR, NF4LNK with its text, NF4BLK and NF4CHR with the device, NF4SOCK, NF4FIFO
CreateKind ==
  Union(2 :> Nothing @@ 5 :> Text @@ 3 :> Struct(<<U32, U32>>)
     @@ 4 :> Struct(<<U32, U32>>) @@ 6 :> Nothing @@ 7 :> Nothing)
CreateArgs == Struct(<<CreateKind, Text, Fattr_encode>>)

=============================================================================
