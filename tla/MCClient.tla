------------------------------ MODULE MCClient ------------------------------
(***************************************************************************)
(* The parts of the client beside calls and recovery, for TLC: session     *)
(* set-up, file updates, directory listings, tree calls, the NFSv3         *)
(* connection, the wire format and the NFSv4 methods.  The parts share no  *)
(* state, so a behaviour follows one of them: `part` says which, and the   *)
(* variables of the others are "off".                                      *)
(***************************************************************************)
EXTENDS WireFormat, V4Calls

CONSTANTS Headroom, MaxIo, Sizes, MaxReconnects,
          Data, Old, ChunkSize, MaxOffset, MaxFaults, MaxRestarts,
          Cookies, MaxEntries, MaxChanges,
          Tree, Target, Doomed, MaxMoves,
          Limits, MaxIoBytes, ServerSizes, MaxRetries

VARIABLES
    part,
    builder, accepts, at, role, minor, own, granted, io, error, live, clientIds, unsure, dropped, made, broken,
    rec, recovered, calling,
    call, step, file, verifier, offset, left, more, answer, base, created, opened, outcome, excused,
    unclosed, rival, spent,
    form, sane, entries, steady, version, cookie, cookieverf, got, pages, ended,
    fn, version3, typed, fs, stack, depth, ask, dir, seen, result, listed, unlinked, moves, helpful,
    v3call, ports, limit, phase, recorded, answered, blurred, retries, server, size

Setup == INSTANCE SessionSetup WITH MaxRetries <- MaxReconnects
Update == INSTANCE FileUpdate
List == INSTANCE Listing
Trees == INSTANCE TreeCalls
Connection == INSTANCE V3Connection

setupVars == <<builder, accepts, at, role, minor, own, granted, io, error, live, clientIds, unsure,
               dropped, made, broken, rec, recovered, calling>>
updateVars == <<call, step, file, verifier, offset, left, more, answer, base, created, opened, outcome,
                excused, unclosed, rival, spent>>
listVars == <<form, sane, entries, steady, version, cookie, cookieverf, got, pages, ended>>
treeVars == <<fn, version3, typed, fs, stack, depth, ask, dir, seen, result, listed, unlinked, moves, helpful>>
v3Vars == <<v3call, ports, limit, phase, recorded, answered, blurred, retries, server, size>>
vars == <<part, setupVars, updateVars, listVars, treeVars, v3Vars, wireVars, callVars>>

SetupOff ==
    /\ builder = "off" /\ accepts = "off" /\ at = "off" /\ role = "off" /\ minor = "off" /\ own = "off"
    /\ granted = "off" /\ io = "off" /\ error = "off" /\ live = "off" /\ clientIds = "off"
    /\ unsure = "off" /\ dropped = "off" /\ made = "off" /\ broken = "off" /\ rec = "off"
    /\ recovered = "off" /\ calling = "off"
UpdateOff ==
    /\ call = "off" /\ step = "off" /\ file = "off" /\ verifier = "off" /\ offset = "off" /\ left = "off"
    /\ more = "off" /\ answer = "off" /\ base = "off" /\ created = "off" /\ opened = "off"
    /\ outcome = "off" /\ excused = "off" /\ unclosed = "off" /\ rival = "off" /\ spent = "off"
ListOff ==
    /\ form = "off" /\ sane = "off" /\ entries = "off" /\ steady = "off" /\ version = "off"
    /\ cookie = "off" /\ cookieverf = "off" /\ got = "off" /\ pages = "off" /\ ended = "off"
TreesOff ==
    /\ fn = "off" /\ version3 = "off" /\ typed = "off" /\ fs = "off" /\ stack = "off" /\ depth = "off"
    /\ ask = "off" /\ dir = "off" /\ seen = "off" /\ result = "off" /\ listed = "off" /\ unlinked = "off"
    /\ moves = "off" /\ helpful = "off"
V3Off ==
    /\ v3call = "off" /\ ports = "off" /\ limit = "off" /\ phase = "off" /\ recorded = "off"
    /\ answered = "off" /\ blurred = "off" /\ retries = "off" /\ server = "off" /\ size = "off"
WireOff ==
    message = "off" /\ frames = "off" /\ wire = "off" /\ whole = "off" /\ received = "off"
CallsOff ==
    /\ method = "off" /\ program = "off" /\ rawPaths = "off" /\ attrName = "off" /\ nothing = "off"
    /\ badArg = "off" /\ level = "off" /\ maxOps = "off" /\ part4 = "off" /\ todo = "off" /\ closing = "off" /\ opens = "off"
    /\ forgotten = "off" /\ effects = "off" /\ refusals = "off" /\ garbled = "off" /\ value = "off"
    /\ finding = "off"

Init ==
    \/ /\ part = "setup" /\ Setup!Init
       /\ UpdateOff /\ ListOff /\ TreesOff /\ V3Off /\ WireOff /\ CallsOff
    \/ /\ part = "update" /\ Update!Init
       /\ SetupOff /\ ListOff /\ TreesOff /\ V3Off /\ WireOff /\ CallsOff
    \/ /\ part = "list" /\ List!Init
       /\ SetupOff /\ UpdateOff /\ TreesOff /\ V3Off /\ WireOff /\ CallsOff
    \/ /\ part = "trees" /\ Trees!Init
       /\ SetupOff /\ UpdateOff /\ ListOff /\ V3Off /\ WireOff /\ CallsOff
    \/ /\ part = "v3" /\ Connection!Init
       /\ SetupOff /\ UpdateOff /\ ListOff /\ TreesOff /\ WireOff /\ CallsOff
    \/ /\ part = "wire" /\ WireInit
       /\ SetupOff /\ UpdateOff /\ ListOff /\ TreesOff /\ V3Off /\ CallsOff
    \/ /\ part = "calls" /\ CallInit
       /\ SetupOff /\ UpdateOff /\ ListOff /\ TreesOff /\ V3Off /\ WireOff

Next ==
    /\ UNCHANGED part
    /\ \/ /\ part = "setup" /\ Setup!Next
          /\ UNCHANGED <<updateVars, listVars, treeVars, v3Vars, wireVars, callVars>>
       \/ /\ part = "update" /\ Update!Next
          /\ UNCHANGED <<setupVars, listVars, treeVars, v3Vars, wireVars, callVars>>
       \/ /\ part = "list" /\ List!Next
          /\ UNCHANGED <<setupVars, updateVars, treeVars, v3Vars, wireVars, callVars>>
       \/ /\ part = "trees" /\ Trees!Next
          /\ UNCHANGED <<setupVars, updateVars, listVars, v3Vars, wireVars, callVars>>
       \/ /\ part = "v3" /\ Connection!Next
          /\ UNCHANGED <<setupVars, updateVars, listVars, treeVars, wireVars, callVars>>
       \/ /\ part = "wire" /\ WireNext
          /\ UNCHANGED <<setupVars, updateVars, listVars, treeVars, v3Vars, callVars>>
       \/ /\ part = "calls" /\ CallNext
          /\ UNCHANGED <<setupVars, updateVars, listVars, treeVars, v3Vars, wireVars>>

Spec == Init /\ [][Next]_vars

-----------------------------------------------------------------------------
(* Values for TLC                                                          *)

MCData == <<1, 2, 3>>
MCOld == <<7, 8>>
MCTree == {<<"a">>, <<"a", "b">>, <<"a", "c">>, <<"a", "b", "d">>}
MCTarget == <<"a", "b">>
MCDoomed == <<"a">>
MCPaths == {<<"">>, <<"", "">>, <<"", "a">>, <<"", "a", "..", "b">>, <<"a", "", ".", "b">>}

-----------------------------------------------------------------------------
(* Properties                                                              *)

\* The variables of the part under way have the types its module declares.
TypeOK ==
    /\ part = "setup" => Setup!TypeOK
    /\ part = "update" => Update!TypeOK
    /\ part = "list" => List!TypeOK
    /\ part = "trees" => Trees!TypeOK
    /\ part = "v3" => Connection!TypeOK
    /\ part = "wire" => WireTypeOK
    /\ part = "calls" => CallTypeOK

\* A call that is over leaves nothing of its own at the server unless a reply
\* was lost or a clean-up request itself failed: no session after a shutdown,
\* none after a failed connect but one at most that was dropped, no temporary
\* file after an atomic update but copy_atomic's when its CLOSE failed, no MOUNT
\* record after a failed NFSv3 connect or an unmount, no open file after a method
\* (cleanup_session_setup_error, finish_with_temp_cleanup, connect_with_builder,
\* finish_with_close).
NothingLeftBehind ==
    /\ part = "setup" => Setup!NoSessionLeft
    /\ part = "update" => Update!NoTempLeft
    /\ part = "v3" => Connection!NoMountLeft
    /\ part = "calls" => NoOpenLeft

\* A connected client uses the highest minor version both sides speak and
\* transfer sizes that fit the session's channel, the server's limits and its
\* own, and are never zero (connect_session, apply_fsinfo_limits, clamp_io_size).
Negotiated ==
    /\ part = "setup" => Setup!HighestMinor /\ Setup!TransfersFit
    /\ part = "v3" => Connection!TransfersFitV3

\* Ok from a FILE_SYNC update means that every byte is on the server's disk in
\* its place, through short writes, weaker stability and restarts
\* (write_opened_at, write_handle_all, commit_opened).
OkMeansDurable == part = "update" => Update!OkMeansDurable

\* A reader of the target of an atomic update sees the old content or the
\* whole new one at every moment (write_atomic, copy_atomic).
OldOrNew == part = "update" => Update!OldOrNew

\* A listing that succeeds against a sane server has every entry that was
\* there throughout exactly once (read_dir_with_limit, next_dir_cursor).
ListingComplete == part = "list" => List!ListingComplete

\* A directory listing is over after at most one page more than the limit has
\* entries, whatever the server answers (dir_page_from_batch, append_dir_entries).
ListingEnds == part = "list" => List!ListingEnds

\* create_dir_all does not fail because another client makes the same
\* directories; remove_all left alone takes the whole tree and never anything
\* it did not list (create_dir_all's Exist branch, the stack of remove_all).
TreesRight == part = "trees" => Trees!CreateSurvivesRival /\ Trees!RemoveTakesTree

\* What one side encodes the other decodes to the same value with nothing left
\* over, through any cut into record fragments; what breaks a limit or is cut
\* short is refused (xdr.rs, rpc.rs, proto.rs of both versions).
MessagesExact == part = "wire" => WireExact

\* A method that returns Ok has had its operation done on the object its paths
\* name, and an NFS error is one the server gave (compound, response_*).
MethodsAnswered == part = "calls" => CallsAnswered

\* verify_attrs and nverify_attrs answer Ok(false) where the server says that the
\* attributes are not, or are, the same (the methods' documentation).
FalseIsAnAnswer == part = "calls" => VerifyAnswersFalse

\* An atomic copy that fails removes its temporary file, unless a reply was lost or
\* the REMOVE failed ("cleanup REMOVE after failed atomic copy" in copy_atomic).
FailedCopyCleansUp == part = "update" => Update!FailedCopyCleansUp
=============================================================================
