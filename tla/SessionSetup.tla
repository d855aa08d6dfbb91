---------------------------- MODULE SessionSetup ----------------------------
(***************************************************************************)
(* Connecting an NFSv4 client and taking it down again: connect_session    *)
(* for every minor version from the highest down, the checks of what       *)
(* CREATE_SESSION granted, RECLAIM_COMPLETE, the root's FSINFO with the    *)
(* session recovery that compound_status may run inside it, the lease      *)
(* keeper's own session, shutdown() and destroy_client_id().  Every        *)
(* failure after CREATE_SESSION has to undo it.  A step is one RPC and the *)
(* code up to the next one; DELAY loops are DelayedRetry, and recovery of  *)
(* a client that is connected is Recovery.  Sizes are scaled down:         *)
(* Headroom stands for NFS4_COMPOUND_IO_HEADROOM, MaxIo for NFS4_MAX_IO.   *)
(***************************************************************************)
EXTENDS Integers, FiniteSets, FiniteSetsExt

CONSTANTS Headroom, MaxIo,
          Sizes,          \* the channel and transfer sizes the server may name
          MaxRetries      \* RetryPolicy::max_retries, for reconnecting

MinorVersions == 1..2     \* NFS4_MINOR_VERSION_SESSION_MIN..LATEST
Roles == {"main", "keeper", "rebuilt"}

VARIABLES
    builder,    \* the ClientBuilder's max_minor_version, transfer size, lease renewal
    accepts,    \* the minor versions the server speaks
    at,         \* the step the client is at
    role,       \* whose session is being set up
    minor,      \* the minor version being tried
    own,        \* own[r]: the session the client knows for role r, 0 for none
    granted,    \* granted[r]: the channel attributes of that session
    io,         \* the transfer sizes in force
    error,      \* the error being returned while a set-up is undone
    live,       \* sessions alive at the server
    clientIds,  \* the client ids the server knows
    unsure,     \* sessions whose CREATE_SESSION reply was lost or whose DESTROY_SESSION failed
    dropped,    \* sessions the client let go of without a DESTROY_SESSION
    made,       \* the id of the last session asked for
    broken,     \* the main connection lost a reply and takes no more requests
    rec,        \* recover_session: what it is for, where it returns to, its retries
    recovered,  \* compound_status: recovered_session
    calling     \* the call under way or returned

vars == <<builder, accepts, at, role, minor, own, granted, io, error, live, clientIds, unsure, dropped, made,
          broken, rec, recovered, calling>>

None == 0
NoSize == [request |-> 0, response |-> 0, requests |-> 0, ops |-> 0]
NoRec == [cause |-> "none", back |-> "supported", retry |-> 0]
Steps == {"start", "exchange", "create", "reclaim", "undo", "supported", "values", "complete", "swap",
          "match", "closeKeeper", "close", "connected", "stopKeeper", "destroyMain", "destroyClient", "done"}
Outcomes == {"none", "ok", "protocol", "mismatch", "refused", "transport", "io", "cleanup"}

TypeOK ==
    /\ builder \in [max : MinorVersions, size : 1..MaxIo, renew : BOOLEAN]
    /\ accepts \subseteq MinorVersions /\ at \in Steps /\ role \in Roles
    /\ minor \in MinorVersions /\ made \in Nat /\ own \in [Roles -> 0..made]
    /\ live \subseteq 1..made /\ unsure \subseteq 1..made /\ dropped \subseteq 1..made
    /\ granted \in [Roles -> [request : Nat, response : Nat, requests : Nat, ops : Nat]]
    /\ io \in [read : Nat, write : Nat] /\ error \in Outcomes
    /\ clientIds \subseteq {"ours"} /\ broken \in BOOLEAN /\ recovered \in BOOLEAN
    /\ rec \in [cause : {"none", "session", "transport"}, back : {"supported", "values"}, retry : 0..MaxRetries]
    /\ calling \in {"connect", "shutdown", "destroy_client_id"}

Init ==
    /\ builder \in [max : MinorVersions, size : {1, MaxIo}, renew : BOOLEAN]
    /\ accepts \in SUBSET MinorVersions
    /\ at = "start" /\ role = "main" /\ minor = builder.max
    /\ own = [r \in Roles |-> None] /\ granted = [r \in Roles |-> NoSize]
    /\ io = [read |-> builder.size, write |-> builder.size] /\ error = "none"
    /\ live = {} /\ clientIds = {} /\ unsure = {} /\ dropped = {} /\ made = 0
    /\ broken = FALSE /\ rec = NoRec /\ recovered = FALSE /\ calling = "connect"

-----------------------------------------------------------------------------
(* Pure helpers                                                            *)

session_payload_limit_Whole(channel) == Min({channel, MaxIo})

\* saturating_sub of the head-room, then NFS4_MAX_IO.
session_payload_limit(channel) == Min({Max({channel - Headroom, 0}), MaxIo})

\* The session must leave room for a payload and take a request.
validate_session_channel_attrs(a) ==
    a.request > Headroom /\ a.response > Headroom /\ a.requests # 0

\* session_max_operations refuses a session without operations.
session_max_operations(a) == a.ops # 0

\* 0 stands for an attribute the server did not report, too.
clamp_io_size(server, limit) == IF server = 0 THEN limit ELSE Max({Min({limit, server}), 1})

\* The versions still to be tried below this one.
HasNextMinor == minor > 1

-----------------------------------------------------------------------------
(* The session of one role: connect_session                                *)

\* recover_session calls connect_session again after a transport failure.
Retries(e) == role = "rebuilt" /\ e = "transport" /\ rec.retry < MaxRetries

\* compound_status returns a recovery's error, added to the transport failure
\* that led to it.
RecoveryError(e) == IF rec.cause = "transport" THEN "cleanup" ELSE e

\* connect_session returns an error: the client has nothing, or the keeper or
\* the recovery failed and connect_with_builder shuts the main session down.
Fails(e) ==
    /\ error' = CASE Retries(e) -> error
                  [] ~Retries(e) /\ role = "rebuilt" -> RecoveryError(e)
                  [] OTHER -> e
    /\ at' = CASE Retries(e) -> "exchange"
               [] ~Retries(e) /\ role = "main" -> "done"
               [] OTHER -> "close"
    /\ minor' = IF Retries(e) THEN builder.max ELSE minor
    /\ rec' = IF Retries(e) THEN [rec EXCEPT !.retry = @ + 1] ELSE rec

\* The builder is valid (validate_* refuse the others before any RPC).
Connect ==
    /\ at = "start"
    /\ at' = "exchange"
    /\ UNCHANGED <<builder, accepts, role, minor, own, granted, io, error, live, clientIds, unsure, dropped, made,
                   broken, rec, recovered, calling>>

\* TCP connect, then EXCHANGE_ID; only MINOR_VERS_MISMATCH tries the next
\* version, every other error is returned.
Exchange ==
    /\ at = "exchange"
    /\ \/ /\ minor \in accepts
          /\ clientIds' = {"ours"} /\ at' = "create"
          /\ UNCHANGED <<error, minor, rec>>
       \/ /\ minor \notin accepts /\ HasNextMinor
          /\ minor' = minor - 1
          /\ UNCHANGED <<error, clientIds, at, rec>>
       \/ /\ minor \notin accepts /\ ~HasNextMinor
          /\ Fails("mismatch")
          /\ UNCHANGED clientIds
       \/ /\ \E e \in {"refused", "transport"} : Fails(e)
          /\ UNCHANGED clientIds
    /\ UNCHANGED <<builder, accepts, role, own, granted, io, live, unsure, dropped, made, broken, recovered, calling>>

NewSession == made + 1

\* Only connect's main session completes the reclaim here; a recovery does so
\* by itself, and the keeper has nothing to reclaim.
AfterCheck == CASE role = "main" -> "reclaim" [] role = "keeper" -> "match" [] OTHER -> "complete"

CheckGranted_Forgets(a) ==
    IF validate_session_channel_attrs(a) /\ session_max_operations(a)
    THEN /\ at' = AfterCheck /\ own' = [own EXCEPT ![role] = NewSession]
         /\ granted' = [granted EXCEPT ![role] = a]
         /\ UNCHANGED <<error, minor, rec>>
    ELSE Fails("protocol") /\ UNCHANGED <<own, granted>>

\* validate_session_channel_attrs and session_max_operations of what was
\* granted, each undone on failure.
CheckGranted(a) ==
    /\ IF validate_session_channel_attrs(a) /\ session_max_operations(a)
       THEN at' = AfterCheck /\ granted' = [granted EXCEPT ![role] = a] /\ UNCHANGED error
       ELSE at' = "undo" /\ error' = "protocol" /\ UNCHANGED granted
    /\ own' = [own EXCEPT ![role] = NewSession]
    /\ UNCHANGED <<minor, rec>>

\* CREATE_SESSION: granted, refused, or its reply lost with or without effect.
CreateSession ==
    /\ at = "create"
    /\ \/ /\ live' = live \cup {NewSession} /\ made' = NewSession
          /\ \E a \in [request : Sizes, response : Sizes, requests : 0..1, ops : 0..3] : CheckGranted(a)
          /\ UNCHANGED unsure
       \/ Fails("refused") /\ UNCHANGED <<granted, live, own, unsure, made>>
       \/ /\ live' \in {live, live \cup {NewSession}} /\ made' = NewSession
          /\ unsure' = unsure \cup {NewSession} /\ Fails("transport")
          /\ UNCHANGED <<granted, own>>
    /\ UNCHANGED <<builder, accepts, role, io, clientIds, dropped, broken, recovered, calling>>

\* SEQUENCE and RECLAIM_COMPLETE need two operations; COMPLETE_ALREADY is
\* success.
ReclaimComplete ==
    /\ at = "reclaim"
    /\ \/ granted["main"].ops >= 2 /\ at' = "supported" /\ UNCHANGED error
       \/ granted["main"].ops < 2 /\ at' = "undo" /\ error' = "protocol"
       \/ granted["main"].ops >= 2 /\ at' = "undo" /\ error' \in {"refused", "transport"}
    /\ UNCHANGED <<builder, accepts, role, minor, own, granted, io, live, clientIds, unsure, dropped, made, broken,
                   rec, recovered, calling>>

\* DESTROY_SESSION for session s on a connection that still takes requests or
\* not.  It works, or it fails and the session may stay.
Destroy(s, worked, usable) ==
    \/ worked /\ usable /\ live' = live \ {s} /\ UNCHANGED unsure
    \/ /\ ~worked /\ live' \in IF usable THEN {live, live \ {s}} ELSE {live}
       /\ unsure' = unsure \cup {s}

\* cleanup_session_setup_error keeps the first error, and reports a failed
\* clean-up as its own kind.
Undo ==
    /\ at = "undo"
    /\ \E worked \in BOOLEAN :
          /\ Destroy(own[role], worked, error # "transport")
          /\ Fails(IF worked THEN error ELSE "cleanup")
    /\ own' = [own EXCEPT ![role] = None] /\ granted' = [granted EXCEPT ![role] = NoSize]
    /\ UNCHANGED <<builder, accepts, role, io, clientIds, dropped, made, broken, recovered, calling>>

-----------------------------------------------------------------------------
(* The root's FSINFO: two COMPOUNDs of SEQUENCE, PUTROOTFH and GETATTR,    *)
(* for the supported attributes and for their values.                      *)

FsinfoOps == 3
CloseWith(e) == at' = "close" /\ error' = e /\ UNCHANGED <<role, minor, rec>>

\* recover_session begins with connect_session, from the highest version down.
Recover(cause) ==
    /\ rec' = [cause |-> cause, back |-> at, retry |-> 0]
    /\ role' = "rebuilt" /\ minor' = builder.max /\ at' = "exchange"
    /\ UNCHANGED error

\* compound_status without an answer: the request does not fit the session, or
\* it fails.  A session status, which may mean that the server has dropped the
\* session, and a transport failure start a recovery, once.
FsinfoFails ==
    /\ at \in {"supported", "values"}
    /\ \/ granted["main"].ops < FsinfoOps /\ CloseWith("protocol") /\ UNCHANGED <<live, broken>>
       \/ granted["main"].ops >= FsinfoOps /\ CloseWith("refused") /\ UNCHANGED <<live, broken>>
       \/ /\ granted["main"].ops >= FsinfoOps /\ broken' = TRUE
          /\ IF recovered THEN CloseWith("transport") ELSE Recover("transport")
          /\ UNCHANGED live
       \/ /\ granted["main"].ops >= FsinfoOps /\ live' \in {live, live \ {own["main"]}}
          /\ IF recovered THEN CloseWith("refused") ELSE Recover("session")
          /\ UNCHANGED broken
    /\ UNCHANGED <<builder, accepts, own, granted, io, clientIds, unsure, dropped, made, recovered, calling>>

ReadSupported ==
    /\ at = "supported" /\ granted["main"].ops >= FsinfoOps
    /\ at' = "values" /\ recovered' = FALSE
    /\ UNCHANGED <<builder, accepts, role, minor, own, granted, io, error, live, clientIds, unsure, dropped, made,
                   broken, rec, calling>>

\* apply_fsinfo_limits, then start_lease_renewal: a lease time is needed, and
\* the keeper connects with a session of its own.
ReadFsinfo ==
    /\ at = "values" /\ granted["main"].ops >= FsinfoOps
    /\ \E r, w \in Sizes, lease \in BOOLEAN :
          /\ io' = [read |-> clamp_io_size(r, Min({builder.size, session_payload_limit(granted["main"].response)})),
                    write |-> clamp_io_size(w, Min({builder.size, session_payload_limit(granted["main"].request)}))]
          /\ \/ ~builder.renew /\ at' = "connected" /\ UNCHANGED <<role, minor, error>>
             \/ /\ builder.renew /\ lease
                /\ role' = "keeper" /\ minor' = builder.max /\ at' = "exchange"
                /\ UNCHANGED error
             \/ builder.renew /\ ~lease /\ at' = "close" /\ error' = "protocol" /\ UNCHANGED <<role, minor>>
    /\ UNCHANGED <<builder, accepts, own, granted, live, clientIds, unsure, dropped, made, broken, rec, recovered,
                   calling>>

\* The Client of role r goes out of scope without a DESTROY_SESSION.
Drop(r) ==
    /\ dropped' = dropped \cup {own[r]}
    /\ own' = [own EXCEPT ![r] = None] /\ granted' = [granted EXCEPT ![r] = NoSize]

\* recover_session's RECLAIM_COMPLETE, with no locks to reclaim, and its
\* start_lease_renewal, which refuses while connect has no FSINFO to take the
\* lease time from.  An error drops the rebuilt client.
CompleteRecovery ==
    /\ at = "complete"
    /\ \/ /\ granted["rebuilt"].ops >= 2 /\ ~builder.renew
          /\ at' = "swap" /\ UNCHANGED <<error, dropped, own, granted>>
       \/ /\ \/ granted["rebuilt"].ops >= 2 /\ builder.renew /\ error' = RecoveryError("protocol")
             \/ granted["rebuilt"].ops < 2 /\ error' = RecoveryError("protocol")
             \/ granted["rebuilt"].ops >= 2 /\ \E e \in {"refused", "transport"} : error' = RecoveryError(e)
          /\ Drop("rebuilt") /\ at' = "close"
    /\ UNCHANGED <<builder, accepts, role, minor, io, live, clientIds, unsure, made, broken, rec, recovered, calling>>

Swap_KeepsOld ==
    /\ at = "swap"
    /\ own' = [own EXCEPT !["main"] = own["rebuilt"], !["rebuilt"] = None]
    /\ granted' = [granted EXCEPT !["main"] = granted["rebuilt"], !["rebuilt"] = NoSize]
    /\ io' = [read |-> builder.size, write |-> builder.size]
    /\ role' = "main" /\ broken' = FALSE /\ recovered' = TRUE /\ rec' = NoRec /\ at' = rec.back
    /\ UNCHANGED <<builder, accepts, minor, error, live, unsure, clientIds, dropped, made, calling>>

\* The rebuilt client takes over, `let _ = old.shutdown()`, and the request is
\* sent again.
Swap ==
    /\ at = "swap"
    /\ \E worked \in BOOLEAN : Destroy(own["main"], worked, ~broken)
    /\ own' = [own EXCEPT !["main"] = own["rebuilt"], !["rebuilt"] = None]
    /\ granted' = [granted EXCEPT !["main"] = granted["rebuilt"], !["rebuilt"] = NoSize]
    /\ io' = [read |-> builder.size, write |-> builder.size]
    /\ role' = "main" /\ broken' = FALSE /\ recovered' = TRUE /\ rec' = NoRec /\ at' = rec.back
    /\ UNCHANGED <<builder, accepts, minor, error, clientIds, dropped, made, calling>>

-----------------------------------------------------------------------------
(* The lease keeper, and connect_with_builder's clean-up                   *)

\* The keeper's client id may differ (the server restarted in between): its
\* session is shut down and STALE_CLIENTID returned.  BlockingLease::start
\* fails when the thread cannot be spawned: the closure is dropped, with the
\* keeper in it.
MatchKeeper ==
    /\ at = "match"
    /\ \/ at' = "connected" /\ UNCHANGED <<error, dropped, own, granted>>
       \/ at' = "closeKeeper" /\ error' = "refused" /\ UNCHANGED <<dropped, own, granted>>
       \/ at' = "close" /\ error' = "io" /\ Drop("keeper")
    /\ UNCHANGED <<builder, accepts, role, minor, io, live, clientIds, unsure, made, broken, rec, recovered, calling>>

\* let _ = keeper.shutdown().
CloseKeeper ==
    /\ at = "closeKeeper"
    /\ \E worked \in BOOLEAN : Destroy(own["keeper"], worked, TRUE)
    /\ own' = [own EXCEPT !["keeper"] = None] /\ granted' = [granted EXCEPT !["keeper"] = NoSize]
    /\ at' = "close"
    /\ UNCHANGED <<builder, accepts, role, minor, io, error, clientIds, dropped, made, broken, rec, recovered, calling>>

\* client.shutdown().
CloseMain ==
    /\ at = "close"
    /\ \E worked \in BOOLEAN :
          /\ Destroy(own["main"], worked, ~broken)
          /\ error' = IF worked THEN error ELSE "cleanup"
    /\ own' = [own EXCEPT !["main"] = None]
    /\ at' = "done"
    /\ UNCHANGED <<builder, accepts, role, minor, granted, io, clientIds, dropped, made, broken, rec, recovered, calling>>

-----------------------------------------------------------------------------
(* Taking it down                                                          *)

\* shutdown() and destroy_client_id() begin with stop_lease_renewal.
Shutdown ==
    /\ at = "connected"
    /\ calling' \in {"shutdown", "destroy_client_id"}
    /\ at' = IF own["keeper"] = None THEN "destroyMain" ELSE "stopKeeper"
    /\ UNCHANGED <<builder, accepts, role, minor, own, granted, io, error, live, clientIds, unsure, dropped, made,
                   broken, rec, recovered>>

\* DESTROY_SESSION for the keeper; BADSESSION and DEADSESSION count as done,
\* any other failure ends the call before the main session is destroyed.
StopKeeper ==
    /\ at = "stopKeeper"
    /\ \E worked \in BOOLEAN :
          /\ Destroy(own["keeper"], worked, TRUE)
          /\ at' = IF worked THEN "destroyMain" ELSE "done"
          /\ error' = IF worked THEN error ELSE "refused"
    /\ own' = [own EXCEPT !["keeper"] = None]
    /\ UNCHANGED <<builder, accepts, role, minor, granted, io, clientIds, dropped, made, broken, rec, recovered, calling>>

DestroyMain ==
    /\ at = "destroyMain"
    /\ \E worked \in BOOLEAN :
          /\ Destroy(own["main"], worked, TRUE)
          /\ at' = IF worked /\ calling = "destroy_client_id" THEN "destroyClient" ELSE "done"
          /\ error' = IF ~worked THEN "refused" ELSE IF calling = "shutdown" THEN "ok" ELSE error
    /\ own' = [own EXCEPT !["main"] = None]
    /\ UNCHANGED <<builder, accepts, role, minor, granted, io, clientIds, dropped, made, broken, rec, recovered, calling>>

\* The server refuses DESTROY_CLIENTID while a session of the client lives.
DestroyClient ==
    /\ at = "destroyClient"
    /\ \/ live = {} /\ clientIds' = {} /\ error' = "ok"
       \/ UNCHANGED clientIds /\ error' = "refused"
    /\ at' = "done"
    /\ UNCHANGED <<builder, accepts, role, minor, own, granted, io, live, unsure, dropped, made, broken, rec, recovered,
                   calling>>

\* One attempt at the session of one role.
SetUp == Connect \/ Exchange \/ CreateSession \/ ReclaimComplete \/ Undo

\* The root's attributes, and a recovery while they are read.
Fsinfo == FsinfoFails \/ ReadSupported \/ ReadFsinfo \/ CompleteRecovery \/ Swap

Next ==
    \/ SetUp \/ Fsinfo \/ MatchKeeper \/ CloseKeeper \/ CloseMain
    \/ Shutdown \/ StopKeeper \/ DestroyMain \/ DestroyClient

Spec == Init /\ [][Next]_vars

-----------------------------------------------------------------------------
(* Properties                                                              *)

\* A connect that failed and a shutdown that returned Ok leave no session at the
\* server but those whose CREATE_SESSION reply was lost, whose DESTROY_SESSION
\* failed, or that were dropped; and a session is dropped only by a connect that
\* fails, one at most: the keeper's when its thread cannot be started, or the one
\* of a recovery inside FSINFO that cannot be completed (connect_session_minor,
\* connect_with_builder, start_lease_renewal, recover_session, shutdown).
NoSessionLeft ==
    /\ at = "done" /\ (calling = "connect" \/ error = "ok") => live \subseteq unsure \cup dropped
    /\ dropped # {} => at \in {"close", "done"} /\ calling = "connect"
    /\ \A s, t \in dropped : s = t

\* The version in use is the highest one both sides allow, for the main session,
\* the keeper's and a rebuilt one (connect_session falls back on a mismatch only).
HighestMinor ==
    at = "connected" => minor = Max({v \in accepts : v <= builder.max})

\* Every transfer the client will ask for fits the channel of the session it is
\* made in, also when that session was rebuilt, and the configured size, and is at
\* least a byte (apply_fsinfo_limits).
TransfersFit ==
    at = "connected" =>
        /\ io.read \in 1..builder.size /\ io.read + Headroom <= granted["main"].response
        /\ io.write \in 1..builder.size /\ io.write + Headroom <= granted["main"].request
=============================================================================
