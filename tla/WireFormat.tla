----------------------------- MODULE WireFormat -----------------------------
(***************************************************************************)
(* One message on the wire: a value of some wire type is encoded, framed as *)
(* RPC record fragments (RpcClient::write_record and read_record in         *)
(* src/src/rpc.rs), perhaps cut short by a closing connection, reassembled  *)
(* and decoded.  Written says what the sender writes and Read what the      *)
(* receiver expects; where the client has only one of the two, the server   *)
(* is the other and follows the same description.                           *)
(***************************************************************************)
EXTENDS Xdr, TLC

CONSTANTS NFS4_FHSIZE, NFS4_OPAQUE_LIMIT, NFS4_MAX_IO, MaxItems,
          NFS4_NSECONDS_PER_SECOND, NFS3_FHSIZE, MAX_NAME_BYTES, MAX_PATH_BYTES,
          MAX_IO_BYTES, MAX_DIR_ENTRIES, MOUNT_MAX_LIST_ENTRIES, AUTH_SYS_MAX_GROUPS,
          NFS3_NSECONDS_PER_SECOND,
          MaxRecord       \* max_record_size, in words

VARIABLES message,   \* the wire type and which of its sample values is sent
          frames,    \* what the sender wrote, as record fragments
          wire,      \* where the message is
          whole,     \* the sender's record reached the receiver as it was written
          received   \* what the receiver made of it

wireVars == <<message, frames, wire, whole, received>>

V4 == INSTANCE V4Results
V3 == INSTANCE V3Wire

Both(s) == <<s, s>>

(***************************************************************************)
(* Pairs of what is written and what is read.                               *)
(***************************************************************************)
Pairs ==
  <<<<V4!FileHandle_encode, V4!FileHandle_decode>>, <<V4!StateId_encode, V4!StateId_decode>>,
    <<V4!DeviceId_encode, V4!DeviceId_decode>>, <<V4!Bitmap_encode, V4!Bitmap_decode>>,
    <<V4!Fattr_encode, V4!Fattr_decode>>, <<V4!NfsTime_encode, V4!NfsTime_decode>>,
    <<V4!NetAddr_encode, V4!NetAddr_decode>>, <<V4!NetLoc_encode, V4!NetLoc_decode>>,
    <<V4!ChannelAttrs_encode, V4!ChannelAttrs_decode>>,
    <<V4!LockOwner_encode, V4!LockOwner_decode>>, <<V4!Layout_encode, V4!Layout_decode>>,
    <<V3!FileHandle_encode, V3!FileHandle_decode>>, <<V3!SpecData_encode, V3!SpecData_decode>>,
    <<V3!NfsTime_encode, V3!NfsTime_decode>>, <<V3!FileType_encode, V3!FileType_decode>>,
    <<V3!StableHow_encode, V3!StableHow_decode>>>>

Calls ==
  <<V3!Diropargs, V3!SetattrArgs, V3!AccessArgs, V3!ReadArgs,
    V3!WriteArgs, V3!CreateArgs, V3!MkdirArgs, V3!SymlinkArgs, V3!MknodArgs, V3!RenameArgs,
    V3!LinkArgs, V3!ReadDirArgs, V3!ReadDirPlusArgs, V3!CommitArgs, V3!DirPath, V3!Mapping,
    V3!AuthSys, V3!encode_call>>

Replies ==
  <<V3!getattr, V3!setattr, V3!lookup, V3!access, V3!readlink, V3!read,
    V3!write, V3!create_like, V3!wcc_only, V3!rename, V3!link, V3!readdir, V3!readdirplus,
    V3!fsstat, V3!fsinfo, V3!pathconf, V3!commit, V3!mount, V3!decode_mount_list,
    V3!decode_export_list, V3!get_port, V3!decode_reply>>

Table == Pairs \o [i \in DOMAIN Calls |-> Both(Calls[i])]
               \o [i \in DOMAIN Replies |-> Both(Replies[i])]

(***************************************************************************)
(* Attribute values: the writer puts them in the order written, the reader  *)
(* follows the bitmap, lowest attribute first.  parse_* read what the       *)
(* server writes, and the server reads what from_set_attrs writes.          *)
(***************************************************************************)
Parsers ==
  <<V4!parse_supported_attrs, V4!parse_basic, V4!parse_fsstat, V4!parse_fsinfo,
    V4!parse_pathconf>>

SetAttrSchema == [a \in {p[1] : p \in Range(V4!from_set_attrs)} |->
                    (CHOOSE p \in Range(V4!from_set_attrs) : p[1] = a)[2]]

InMaskOrder(schemas, attrs) ==
  LET order == V4!attrs_of(V4!from_valid_attrs(attrs))
  IN  Struct([i \in DOMAIN order |-> schemas[order[i]]])

InCodeOrder(attrs) ==
  LET fields == SelectSeq(V4!from_set_attrs, LAMBDA p : p[1] \in attrs)
  IN  Struct([i \in DOMAIN fields |-> fields[i][2]])

FewOrAll(attrs) == {s \in SUBSET attrs : Cardinality(s) \in {1, 2}} \cup {attrs}

Written(t) ==
  CASE t[1] = "table" -> Table[t[2]][1]
    [] t[1] = "call" -> V4!CompoundArgs
    [] t[1] = "reply" -> V4!CompoundResponse
    [] t[1] = "parse" -> InMaskOrder(Parsers[t[2]], t[3])
    [] t[1] = "set" -> InCodeOrder(t[3])

Reading(t) ==
  CASE t[1] = "table" -> Table[t[2]][2]
    [] t[1] = "call" -> V4!CompoundArgs
    [] t[1] = "reply" -> V4!CompoundResponse
    [] t[1] = "parse" -> InMaskOrder(Parsers[t[2]], t[3])
    [] t[1] = "set" -> InMaskOrder(SetAttrSchema, t[3])

\* a server's reply is not checked against the client's limits before it is sent
FromServer(t) ==
  t[1] \in {"parse", "reply"} \/ (t[1] = "table" /\ t[2] > Len(Pairs \o Calls))

(***************************************************************************)
(* The values sent: those of Samples.  A COMPOUND holds every sample of one *)
(* operation, or of one operation's result, and another behind it.          *)
(***************************************************************************)
After(n) == IF n + 1 \in DOMAIN V4!OperationArms THEN n + 1 ELSE 3

Values(t) ==
  CASE t[1] = "call" ->
         LET args == Samples(V4!OperationArms[t[2]])
             next == <<After(t[2]), Samples(V4!OperationArms[After(t[2])])[1]>>
         IN  [i \in DOMAIN args |-> <<<<1>>, 2, <<<<t[2], args[i]>>, next>>>>]
    [] t[1] = "reply" ->
         LET rs == Samples(V4!ResultArms[t[2]])
             next == <<After(t[2]), Samples(V4!ResultArms[After(t[2])])[1]>>
         IN  [i \in DOMAIN rs |-> <<rs[i][1], << >>, <<<<t[2], rs[i]>>, next>>>>]
    [] OTHER -> Samples(Written(t))

Types ==
  {<<"table", t, {}>> : t \in DOMAIN Table}
  \cup {<<"call", n, {}>> : n \in DOMAIN V4!OperationArms}
  \cup {<<"reply", n, {}>> : n \in DOMAIN V4!ResultArms}
  \cup UNION {{<<"parse", p, s>> : s \in FewOrAll(DOMAIN Parsers[p])} : p \in DOMAIN Parsers}
  \cup {<<"set", 0, s>> : s \in FewOrAll(DOMAIN SetAttrSchema)}

WireInit ==
  /\ \E t \in Types : message = [type |-> t, v |-> "blank"]
  /\ frames = << >>
  /\ wire = "blank"
  /\ whole = TRUE
  /\ received = Bad

\* the caller fills the message in with one of its type's sample values
Compose ==
  /\ wire = "blank"
  /\ LET vs == Values(message.type)
     IN  \E i \in DOMAIN vs : message' = [message EXCEPT !.v = vs[i]]
  /\ wire' = "new"
  /\ UNCHANGED <<frames, whole, received>>

Frame(last, words) == [last |-> last, words |-> words, len |-> Len(words)]

\* to_bytes and write_record: one final fragment, or nothing when a limit is passed
Write ==
  /\ wire = "new"
  /\ LET s == Written(message.type)
     IN  IF FromServer(message.type) \/ Fits(s, message.v)
         THEN wire' = "sent" /\ frames' = <<Frame(TRUE, Put(s, message.v))>>
         ELSE wire' = "unsent" /\ UNCHANGED frames
  /\ UNCHANGED <<message, whole, received>>

\* the other end may send a record in several fragments
Split ==
  /\ wire = "sent" /\ Len(frames) = 1 /\ whole
  /\ LET words == frames[1].words
     IN  \E n \in {0, Len(words) \div 2, Len(words)} :
           frames' = <<Frame(FALSE, SubSeq(words, 1, n)),
                       Frame(TRUE, SubSeq(words, n + 1, Len(words)))>>
  /\ UNCHANGED <<message, wire, whole, received>>

\* the connection closes inside the record
Close ==
  /\ wire = "sent" /\ whole /\ Last(frames).words # << >>
  /\ frames' = [frames EXCEPT ![Len(frames)].words = Front(@)]
  /\ whole' = FALSE
  /\ UNCHANGED <<message, wire, received>>

\* the other end wrote less than the message holds
Shorten ==
  /\ wire = "sent" /\ Len(frames) = 1 /\ whole
  /\ LET words == frames[1].words
     IN  \E n \in {0, Len(words) \div 2, Len(words) - 1} :
           /\ n \in 0..(Len(words) - 1)
           /\ frames' = <<Frame(TRUE, SubSeq(words, 1, n))>>
  /\ whole' = FALSE
  /\ UNCHANGED <<message, wire, received>>

(***************************************************************************)
(* read_record: a non-final fragment of no bytes, a record over             *)
(* max_record_size and a connection that closes inside it are errors.       *)
(***************************************************************************)
Total(fs) == FoldLeft(LAMBDA n, f : n + f.len, 0, fs)

read_record(fs) ==
  IF \/ \E i \in DOMAIN fs : ~fs[i].last /\ fs[i].len = 0
     \/ Total(fs) > MaxRecord
     \/ \E i \in DOMAIN fs : Len(fs[i].words) < fs[i].len
  THEN Bad
  ELSE Got(FlattenSeq([i \in DOMAIN fs |-> fs[i].words]), << >>)

Receive ==
  /\ wire = "sent"
  /\ LET record == read_record(frames)
     IN  received' = IF record.ok THEN from_bytes(Reading(message.type), record.v) ELSE Bad
  /\ wire' = "received"
  /\ UNCHANGED <<message, frames, whole>>

WireNext == Compose \/ Write \/ Split \/ Close \/ Shorten \/ Receive

WireSpec == WireInit /\ [][WireNext]_wireVars

WireTypeOK ==
  /\ wire \in {"blank", "new", "sent", "unsent", "received"}
  /\ whole \in BOOLEAN
  /\ received.ok \in BOOLEAN
  /\ Len(frames) <= 2

(***************************************************************************)
(* What the client reads is what was written, field for field, whatever the *)
(* message and however it is split into fragments: a COMPOUND result behind *)
(* another is found, attribute values are taken in the order of their       *)
(* bitmap, and each type the client both writes and reads agrees with       *)
(* itself (the Encode and Decode implementations of src/src/v4/proto.rs and *)
(* src/src/v3/proto.rs).  A message cut short, over a limit or over the     *)
(* record size is refused as a whole, never read as another value.          *)
(***************************************************************************)
WireExact ==
  LET readable == /\ whole
                  /\ Fits(Reading(message.type), message.v)
                  /\ Total(frames) <= MaxRecord
                  /\ \A i \in DOMAIN frames : frames[i].last \/ frames[i].len > 0
  IN  /\ wire = "unsent" => ~Fits(Reading(message.type), message.v)
      /\ wire = "received" => received.ok = readable
      /\ wire = "received" /\ received.ok => received.v = message.v

=============================================================================
