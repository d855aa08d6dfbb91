----------------------------- MODULE V4Results -----------------------------
(***************************************************************************)
(* OperationResult::decode and CompoundResponse::decode of                  *)
(* src/src/v4/proto.rs.  A result is its operation number, its status and   *)
(* the body that the two call for; a status no arm names has no body.       *)
(***************************************************************************)
EXTENDS V4Operations

StatusOnly == UnionElse(<< >>, Nothing)
OnOk(body) == UnionElse(Code("Ok") :> body, Nothing)
OnOkOr(body, status, other) ==
  UnionElse(Code("Ok") :> body @@ Code(status) :> other, Nothing)

skip_change_info == Struct(<<Bool, U64, U64>>)

skip_state_protect_reply ==
  Union(0 :> Nothing
     @@ 1 :> Struct(<<Bitmap_decode, Bitmap_decode>>)
     @@ 2 :> Struct(<<Bitmap_decode, Bitmap_decode, U32, U32, U32, U32, Many(Text)>>))

skip_server_owner == Struct(<<U64, Text>>)
skip_impl_ids == Few(Struct(<<Text, Text, U64, U32>>))

decode_set_client_id_result ==
  OnOkOr(Struct(<<U64, Verifier>>), "ClidInUse", NetAddr_decode)

decode_exchange_id_result ==
  OnOk(Struct(<<U64, U32, U32, skip_state_protect_reply, skip_server_owner, Text,
                skip_impl_ids>>))

decode_create_session_result ==
  OnOk(Struct(<<SessionId, U32, U32, ChannelAttrs_decode, ChannelAttrs_decode>>))

decode_bind_conn_to_session_result ==
  OnOk(Struct(<<SessionId, ChannelDirFromServer, Bool>>))

decode_sequence_result == OnOk(Struct(<<SessionId, U32, U32, U32, U32, U32>>))

decode_get_dir_delegation_result ==
  OnOk(Union(0 :> Struct(<<Verifier, StateId_decode, Bitmap_decode, Bitmap_decode,
                           Bitmap_decode>>)
          @@ 1 :> Bool))

decode_get_device_info_result ==
  OnOkOr(Struct(<<DeviceAddr, Bitmap_decode>>), "TooSmall", U32)

decode_get_device_list_result ==
  OnOk(Struct(<<U64, Verifier, Many(DeviceId_decode), Bool>>))

decode_layout_commit_result == OnOk(Opt(U64))

decode_layout_get_result ==
  OnOkOr(Struct(<<Bool, StateId_decode, Many(Layout_decode)>>), "LayoutTryLater", Bool)

decode_layout_return_result == OnOk(Opt(StateId_decode))

decode_open_result ==
  OnOk(Struct(<<StateId_decode, skip_change_info, U32, Bitmap_decode, OpenDelegation>>))

decode_readdir_result ==
  OnOk(Struct(<<Verifier, Chain(Struct(<<U64, Text, Fattr_decode>>), MaxItems), Bool>>))

decode_data_result(op) ==
  CASE op = "Read" -> OnOk(Struct(<<Bool, Payload>>))
    [] op = "Write" -> OnOk(Struct(<<U32, StableHow, Verifier>>))
    [] op = "Commit" -> OnOk(Verifier)
    [] op = "IoAdvise" -> OnOk(Bitmap_decode)
    [] op = "Copy" ->
         OnOkOr(Struct(<<WriteResponse, CopyRequirements>>), "OffloadNoReqs",
                CopyRequirements)
    [] op = "CopyNotify" ->
         OnOk(Struct(<<NfsTime_decode, StateId_decode, Many(NetLoc_decode)>>))
    [] op = "OffloadStatus" -> OnOk(Struct(<<U64, Few(U32)>>))
    [] op = "ReadPlus" -> OnOk(Struct(<<Bool, Many(ReadPlusContent)>>))
    [] op = "Seek" -> OnOk(Struct(<<Bool, U64>>))
    [] op = "WriteSame" -> OnOk(WriteResponse)

decode_name_result(op) ==
  CASE op = "SetAttr" -> OnOk(Bitmap_decode)
    [] op \in {"Remove", "Link"} -> OnOk(skip_change_info)
    [] op = "Rename" -> OnOk(Struct(<<skip_change_info, skip_change_info>>))
    [] op = "Create" -> OnOk(Struct(<<skip_change_info, Bitmap_decode>>))
    [] op = "ReadLink" -> OnOk(Text)

decode_state_result(op) ==
  CASE op \in {"OpenConfirm", "Close", "Locku", "OpenDowngrade"} -> OnOk(StateId_decode)
    [] op = "Lock" -> OnOkOr(StateId_decode, "Denied", LockDenied)
    [] op = "Lockt" -> UnionElse(Code("Denied") :> LockDenied, Nothing)
    [] op = "TestStateId" -> OnOk(Many(U32))

decode_object_result(op) ==
  CASE op = "SetSsv" -> OnOk(Text)
    [] op = "WantDelegation" -> OnOk(OpenDelegation)
    [] op = "GetFh" -> OnOk(FileHandle_decode)
    [] op = "GetAttr" -> OnOk(Fattr_decode)
    [] op = "Access" -> OnOk(Struct(<<U32, U32>>))
    [] op \in {"SecInfo", "SecInfoNoName"} -> OnOk(Many(SecInfo_decode))

ResultBody(op) ==
  CASE op = "SetClientId" -> decode_set_client_id_result
    [] op = "ExchangeId" -> decode_exchange_id_result
    [] op = "CreateSession" -> decode_create_session_result
    [] op = "BindConnToSession" -> decode_bind_conn_to_session_result
    [] op = "Sequence" -> decode_sequence_result
    [] op = "Open" -> decode_open_result
    [] op \in {"OpenConfirm", "Close", "Lock", "Lockt", "Locku", "OpenDowngrade",
               "TestStateId"} -> decode_state_result(op)
    [] op = "GetDirDelegation" -> decode_get_dir_delegation_result
    [] op = "GetDeviceInfo" -> decode_get_device_info_result
    [] op = "GetDeviceList" -> decode_get_device_list_result
    [] op = "LayoutCommit" -> decode_layout_commit_result
    [] op = "LayoutGet" -> decode_layout_get_result
    [] op = "LayoutReturn" -> decode_layout_return_result
    [] op \in {"SetSsv", "WantDelegation", "GetFh", "GetAttr", "Access", "SecInfo",
               "SecInfoNoName"} -> decode_object_result(op)
    [] op \in {"Read", "Write", "Commit", "IoAdvise", "Copy", "CopyNotify",
               "OffloadStatus", "ReadPlus", "Seek", "WriteSame"} -> decode_data_result(op)
    [] op \in {"SetAttr", "Remove", "Link", "Rename", "Create", "ReadLink"} ->
         decode_name_result(op)
    [] op = "ReadDir" -> decode_readdir_result
    [] OTHER -> StatusOnly

ResultArms == [n \in DOMAIN OpCode |-> ResultBody(OpCode[n])]
OperationResult == UnionElse(ResultArms, StatusOnly)

CompoundResponse == Struct(<<U32, Text, Many(OperationResult)>>)

(***************************************************************************)
(* Fattr: values stand in the order of their attribute numbers.  Each       *)
(* parse_* reads the attributes it knows and refuses any other.             *)
(***************************************************************************)
parse_supported_attrs == 0 :> Bitmap_decode

parse_basic ==
  1 :> FileType @@ 3 :> U64 @@ 4 :> U64 @@ 20 :> U64 @@ 33 :> U32 @@ 35 :> U32
  @@ 36 :> Text @@ 37 :> Text @@ 45 :> U64 @@ 47 :> NfsTime_decode
  @@ 52 :> NfsTime_decode @@ 53 :> NfsTime_decode

parse_fsstat == [a \in {21, 22, 23, 42, 43, 44} |-> U64]

parse_fsinfo ==
  2 :> U32 @@ 5 :> Bool @@ 6 :> Bool @@ 9 :> Bool @@ 10 :> U32 @@ 15 :> Bool
  @@ 26 :> Bool @@ 27 :> U64 @@ 30 :> U64 @@ 31 :> U64 @@ 51 :> NfsTime_decode

parse_pathconf ==
  16 :> Bool @@ 17 :> Bool @@ 18 :> Bool @@ 28 :> U32 @@ 29 :> U32 @@ 34 :> Bool

\* from_set_attrs: the attributes in the order the code writes them
from_set_attrs ==
  <<<<4, U64>>, <<33, U32>>, <<36, Text>>, <<37, Text>>, <<48, SetTime_encode>>,
    <<54, SetTime_encode>>>>

(***************************************************************************)
(* Bitmap: attribute a is bit a % 32 of word a / 32; a word is the set of   *)
(* its bits.                                                                *)
(***************************************************************************)
from_valid_attrs(attrs) ==
  IF attrs = {} THEN << >>
  ELSE [w \in 1..(Max(attrs) \div 32 + 1) |-> {a % 32 : a \in {b \in attrs : b \div 32 = w - 1}}]

contains(words, a) ==
  a \div 32 + 1 \in DOMAIN words /\ a % 32 \in words[a \div 32 + 1]

\* Bitmap::attrs, lowest first
attrs_of(words) ==
  FlattenSeq([w \in DOMAIN words |->
                SelectSeq([i \in 1..32 |-> 32 * (w - 1) + i - 1],
                          LAMBDA a : contains(words, a))])

=============================================================================
