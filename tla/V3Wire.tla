------------------------------- MODULE V3Wire -------------------------------
(***************************************************************************)
(* The NFSv3, MOUNT, portmap and RPC messages of src/src/v3/proto.rs,       *)
(* src/src/v3/mount.rs, src/src/v3/portmap.rs and src/src/rpc.rs as XDR     *)
(* schemas.  A procedure has the arguments its Encode implementation writes *)
(* and the result its method of Nfs3Client reads: the body for NFS3_OK and  *)
(* the body for any other status, which most procedures fill with the       *)
(* attributes of what they touched.                                         *)
(***************************************************************************)
EXTENDS Xdr

CONSTANTS NFS3_FHSIZE, MAX_NAME_BYTES, MAX_PATH_BYTES, MAX_IO_BYTES, \* scaled
          MAX_DIR_ENTRIES, MOUNT_MAX_LIST_ENTRIES, AUTH_SYS_MAX_GROUPS,
          NFS3_NSECONDS_PER_SECOND

Name == Opaque(MAX_NAME_BYTES)
Path == Opaque(MAX_PATH_BYTES)
FileData == Opaque(MAX_IO_BYTES)
Verf == Fixed(8)

NfsStatus ==
  0 :> "Ok" @@ 1 :> "Perm" @@ 2 :> "NoEnt" @@ 5 :> "Io" @@ 6 :> "Nxio" @@ 13 :> "Access"
  @@ 17 :> "Exist" @@ 18 :> "Xdev" @@ 19 :> "Nodev" @@ 20 :> "NotDir" @@ 21 :> "IsDir"
  @@ 22 :> "Inval" @@ 27 :> "Fbig" @@ 28 :> "NoSpc" @@ 30 :> "ReadOnlyFs"
  @@ 31 :> "Mlink" @@ 63 :> "NameTooLong" @@ 66 :> "NotEmpty" @@ 69 :> "Dquot"
  @@ 70 :> "Stale" @@ 71 :> "Remote" @@ 10001 :> "BadHandle" @@ 10002 :> "NotSync"
  @@ 10003 :> "BadCookie" @@ 10004 :> "NotSupported" @@ 10005 :> "TooSmall"
  @@ 10006 :> "ServerFault" @@ 10007 :> "BadType" @@ 10008 :> "Jukebox"

MountStatus ==
  0 :> "Ok" @@ 1 :> "Perm" @@ 2 :> "NoEnt" @@ 5 :> "Io" @@ 13 :> "Access"
  @@ 20 :> "NotDir" @@ 22 :> "Invalid" @@ 63 :> "NameTooLong"
  @@ 10004 :> "NotSupported" @@ 10006 :> "ServerFault"

\* the body for each status the code names, and for one it does not
ByStatus(statuses, ok, fail) ==
  UnionElse([s \in DOMAIN statuses |-> IF statuses[s] = "Ok" THEN ok ELSE fail], fail)
Reply(ok, fail) == ByStatus(NfsStatus, ok, fail)

FileType_encode == Among(1..7)
FileType_decode == Among(1..7)
FileHandle_encode == Opaque(NFS3_FHSIZE)
FileHandle_decode == Opaque(NFS3_FHSIZE)
SpecData_encode == Struct(<<U32, U32>>)
SpecData_decode == Struct(<<U32, U32>>)
NfsTime_encode == Struct(<<U32, Among(0..(NFS3_NSECONDS_PER_SECOND - 1))>>)
NfsTime_decode == Struct(<<U32, Among(0..(NFS3_NSECONDS_PER_SECOND - 1))>>)
FileAttr ==
  Struct(<<FileType_decode, U32, U32, U32, U32, U64, U64, SpecData_decode, U64, U64,
           NfsTime_decode, NfsTime_decode, NfsTime_decode>>)
WccAttr == Struct(<<U64, NfsTime_decode, NfsTime_decode>>)
decode_post_op_attr == Opt(FileAttr)
decode_pre_op_attr == Opt(WccAttr)
decode_post_op_fh == Opt(FileHandle_decode)
WccData == Struct(<<decode_pre_op_attr, decode_post_op_attr>>)
encode_set_time == Union(0 :> Nothing @@ 1 :> Nothing @@ 2 :> NfsTime_encode)
SetAttr ==
  Struct(<<Opt(U32), Opt(U32), Opt(U32), Opt(U64), encode_set_time, encode_set_time>>)
StableHow_encode == Among(0..2)
StableHow_decode == Among(0..2)
CreateHow == Union(0 :> SetAttr @@ 1 :> SetAttr @@ 2 :> Verf)
MknodData ==
  Union(4 :> Struct(<<SetAttr, SpecData_encode>>) @@ 3 :> Struct(<<SetAttr, SpecData_encode>>)
     @@ 6 :> SetAttr @@ 7 :> SetAttr)

Diropargs == Struct(<<FileHandle_encode, Name>>)
SetattrArgs == Struct(<<FileHandle_encode, SetAttr, Opt(NfsTime_encode)>>)
AccessArgs == Struct(<<FileHandle_encode, U32>>)
ReadArgs == Struct(<<FileHandle_encode, U64, U32>>)
WriteArgs == Struct(<<FileHandle_encode, U64, U32, StableHow_encode, FileData>>)
CreateArgs == Struct(<<Diropargs, CreateHow>>)
MkdirArgs == Struct(<<Diropargs, SetAttr>>)
SymlinkArgs == Struct(<<Diropargs, SetAttr, Path>>)
MknodArgs == Struct(<<Diropargs, MknodData>>)
RenameArgs == Struct(<<Diropargs, Diropargs>>)
LinkArgs == Struct(<<FileHandle_encode, Diropargs>>)
ReadDirArgs == Struct(<<FileHandle_encode, U64, Verf, U32>>)
ReadDirPlusArgs == Struct(<<FileHandle_encode, U64, Verf, U32, U32>>)
CommitArgs == Struct(<<FileHandle_encode, U64, U32>>)

\* decode_dir_entries
DirEntries(plus) ==
  Chain(Struct(<<U64, Name, U64>>
               \o (IF plus THEN <<decode_post_op_attr, decode_post_op_fh>> ELSE << >>)),
        MAX_DIR_ENTRIES)

getattr == Reply(FileAttr, Nothing)
setattr == Reply(WccData, WccData)
lookup ==
  Reply(Struct(<<FileHandle_decode, decode_post_op_attr, decode_post_op_attr>>),
        decode_post_op_attr)
access == Reply(Struct(<<decode_post_op_attr, U32>>), decode_post_op_attr)
readlink == Reply(Struct(<<decode_post_op_attr, Path>>), decode_post_op_attr)
read == Reply(Struct(<<decode_post_op_attr, U32, Bool, FileData>>), decode_post_op_attr)
write == Reply(Struct(<<WccData, U32, StableHow_decode, Verf>>), WccData)
\* CREATE, MKDIR, SYMLINK and MKNOD
create_like ==
  Reply(Struct(<<decode_post_op_fh, decode_post_op_attr, WccData>>), WccData)
\* REMOVE and RMDIR
wcc_only == Reply(WccData, WccData)
rename == Reply(Struct(<<WccData, WccData>>), Struct(<<WccData, WccData>>))
link ==
  Reply(Struct(<<decode_post_op_attr, WccData>>), Struct(<<decode_post_op_attr, WccData>>))
readdir ==
  Reply(Struct(<<decode_post_op_attr, Verf, DirEntries(FALSE), Bool>>), decode_post_op_attr)
readdirplus ==
  Reply(Struct(<<decode_post_op_attr, Verf, DirEntries(TRUE), Bool>>), decode_post_op_attr)
fsstat ==
  Reply(Struct(<<decode_post_op_attr, U64, U64, U64, U64, U64, U64, U32>>),
        decode_post_op_attr)
fsinfo ==
  Reply(Struct(<<decode_post_op_attr, U32, U32, U32, U32, U32, U32, U32, U64,
                 NfsTime_decode, U32>>), decode_post_op_attr)
pathconf ==
  Reply(Struct(<<decode_post_op_attr, U32, U32, Bool, Bool, Bool, Bool>>),
        decode_post_op_attr)
commit == Reply(Struct(<<WccData, Verf>>), WccData)

DirPath == Path
mount == ByStatus(MountStatus, Struct(<<FileHandle_decode, Arr(U32, MAX_DIR_ENTRIES)>>), Nothing)
decode_mount_list == Chain(Struct(<<Name, Path>>), MOUNT_MAX_LIST_ENTRIES)
decode_group_list == Chain(Name, MOUNT_MAX_LIST_ENTRIES)
decode_export_list == Chain(Struct(<<Path, decode_group_list>>), MOUNT_MAX_LIST_ENTRIES)
Mapping == Struct(<<U32, U32, U32, U32>>)
get_port == U32

\* the RPC header; AUTH_SYS cuts the machine name and the groups to the limits
AuthSys == Struct(<<U32, Cut(Name), U32, U32, Cut(Arr(U32, AUTH_SYS_MAX_GROUPS))>>)
encode_opaque_auth == Struct(<<U32, Path>>)
read_opaque_auth == Struct(<<U32, Path>>)
encode_call ==
  Struct(<<U32, Among({0}), Among({2}), U32, U32, U32, encode_opaque_auth,
           encode_opaque_auth>>)
decode_accepted_reply ==
  Struct(<<read_opaque_auth, UnionElse(2 :> Struct(<<U32, U32>>), Nothing)>>)
decode_denied_reply == UnionElse(0 :> Struct(<<U32, U32>>) @@ 1 :> U32, Nothing)
decode_reply ==
  Struct(<<U32, Among({1}),
           UnionElse(0 :> decode_accepted_reply @@ 1 :> decode_denied_reply, Nothing)>>)

=============================================================================
