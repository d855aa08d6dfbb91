---------------------------- MODULE V3Connection ----------------------------
(***************************************************************************)
(* How an NFSv3 client is built and taken down: the builder's checks, the  *)
(* portmapper, MNT, the NFS connection, FSINFO with its JUKEBOX retries,   *)
(* the transfer sizes, and UMNT when a later step fails; the stand-alone   *)
(* MOUNT calls (EXPORT, DUMP, UMNT, UMNTALL).  Every connection may fail,  *)
(* every request may be refused or lose its reply.                         *)
(***************************************************************************)
EXTENDS Integers, FiniteSetsExt

CONSTANTS Limits,       \* transfer limits the builder may ask for
          MaxIoBytes,   \* the largest it is allowed to
          ServerSizes,  \* what FSINFO may report, 0 included
          MaxRetries    \* RetryPolicy::max_retries

VARIABLES
    v3call,     \* "connect", "list_exports", "list_mounts", "unmount", "unmount_all"
    ports,      \* the builder's mount_port and nfs_port: "none", "zero" or "given"
    limit,      \* the builder's transfer limit
    phase,      \* what the client does next
    recorded,   \* the exports the MOUNT service has a record of for this host
    answered,   \* the result, "none" before it is known
    blurred,    \* a MNT or UMNT reply was lost or unreadable
    retries,    \* FSINFO was answered JUKEBOX that often
    server,     \* what FSINFO reported
    size        \* read_size

vars == <<v3call, ports, limit, phase, recorded, answered, blurred, retries, server, size>>

Calls == {"connect", "list_exports", "list_mounts", "unmount", "unmount_all"}
Phases == {"validate", "portmap", "mount", "rpc", "nfs_port", "nfs", "fsinfo", "cleanup", "ready", "over"}

TypeOK ==
    /\ v3call \in Calls /\ ports \in [mount : {"none", "zero", "given"}, nfs : {"none", "zero", "given"}]
    /\ limit \in Limits /\ phase \in Phases /\ recorded \subseteq {"mine", "other"}
    /\ answered \in {"none", "ok", "error"} /\ blurred \in BOOLEAN /\ retries \in 0..MaxRetries
    /\ server \in [preferred : ServerSizes, max : ServerSizes] /\ size \in 0..MaxIoBytes

Init ==
    /\ v3call \in Calls /\ ports \in [mount : {"none", "zero", "given"}, nfs : {"none", "zero", "given"}]
    /\ limit \in Limits
    /\ recorded \in IF v3call = "connect" THEN {{}} ELSE SUBSET {"mine", "other"}
    /\ phase = "validate" /\ answered = "none" /\ blurred = FALSE /\ retries = 0 /\ size = 0
    /\ server = [preferred |-> 0, max |-> 0]

End(how) == answered' = how /\ phase' = "over"
Go(p) == phase' = p /\ UNCHANGED answered
kept == <<v3call, ports, limit>>

\* validate_transfer_size, validate_port; the stand-alone calls check the host.
Validate ==
    /\ phase = "validate"
    /\ IF (v3call = "connect" /\ limit \notin 1..MaxIoBytes) \/ ports.mount = "zero"
       THEN End("error")
       ELSE Go(IF ports.mount = "none" THEN "portmap" ELSE "mount")
    /\ UNCHANGED <<kept, recorded, blurred, retries, server, size>>

\* get_tcp_port for MOUNT: port 0 means the program is not registered, and any
\* failure ends the call.
FindMountPort ==
    /\ phase = "portmap"
    /\ Go("mount") \/ End("error")
    /\ UNCHANGED <<kept, recorded, blurred, retries, server, size>>

\* The connection to the MOUNT service.
ConnectMount ==
    /\ phase = "mount"
    /\ Go("rpc") \/ End("error")
    /\ UNCHANGED <<kept, recorded, blurred, retries, server, size>>

\* MNT.  The record exists once the server ran it; the client knows only when
\* it could read the reply.
Mount ==
    /\ phase = "rpc" /\ v3call = "connect"
    /\ \/ recorded' = recorded \cup {"mine"} /\ Go("nfs_port") /\ UNCHANGED blurred
       \/ End("error") /\ UNCHANGED <<recorded, blurred>>
       \/ recorded' \in {recorded, recorded \cup {"mine"}} /\ blurred' = TRUE /\ End("error")
    /\ UNCHANGED <<kept, retries, server, size>>

\* EXPORT and DUMP change nothing; UMNT drops this export, UMNTALL all of them.
MountCall ==
    /\ phase = "rpc" /\ v3call # "connect"
    /\ LET effect == CASE v3call = "unmount" -> recorded \ {"mine"}
                       [] v3call = "unmount_all" -> {}
                       [] OTHER -> recorded IN
       \/ recorded' = effect /\ End("ok") /\ UNCHANGED blurred
       \/ recorded' \in {recorded, effect} /\ End("error") /\ blurred' = TRUE
    /\ UNCHANGED <<kept, retries, server, size>>

FindNfsPort_NoCleanup ==
    /\ phase = "nfs_port"
    /\ IF ports.nfs = "zero" THEN End("error") ELSE Go("nfs")
    /\ UNCHANGED <<kept, recorded, blurred, retries, server, size>>

\* A zero port is refused only here, after MNT; the portmapper's failure is
\* not one: port 2049 is used instead.
FindNfsPort ==
    /\ phase = "nfs_port"
    /\ Go(IF ports.nfs = "zero" THEN "cleanup" ELSE "nfs")
    /\ UNCHANGED <<kept, recorded, blurred, retries, server, size>>

\* The NFS connection.
ConnectNfs ==
    /\ phase = "nfs"
    /\ Go("fsinfo") \/ Go("cleanup")
    /\ UNCHANGED <<kept, recorded, blurred, retries, server, size>>

clamp_io_size_NoMax(preferred, max, most) ==
    LET wanted == IF preferred = 0 THEN max ELSE preferred IN Max({1, Min({wanted, most})})

\* The preferred size, or the largest when none is preferred, within the
\* largest (0: no limit given) and within 1..most.
clamp_io_size(preferred, max, most) ==
    LET wanted == IF preferred = 0 THEN max ELSE preferred
        capped == IF max = 0 THEN wanted ELSE Min({wanted, max})
    IN  Max({1, Min({capped, most})})

\* FSINFO; set_max_record_size may still refuse the sizes.
Fsinfo ==
    /\ phase = "fsinfo"
    /\ \/ \E p, m \in ServerSizes :
             /\ server' = [preferred |-> p, max |-> m]
             /\ size' = clamp_io_size(p, m, limit)
             /\ (phase' = "ready" /\ answered' = "ok") \/ Go("cleanup")
       \/ Go("cleanup") /\ UNCHANGED <<server, size>>
    /\ UNCHANGED <<kept, recorded, blurred, retries>>

\* JUKEBOX: the same call again after a delay, while the policy allows one.
Jukebox ==
    /\ phase = "fsinfo"
    /\ IF retries < MaxRetries THEN retries' = retries + 1 /\ Go("fsinfo")
       ELSE Go("cleanup") /\ UNCHANGED retries
    /\ UNCHANGED <<kept, recorded, blurred, server, size>>

\* cleanup_error(err, "cleanup UMOUNT after failed NFSv3 connect", unmount).
Cleanup ==
    /\ phase = "cleanup"
    /\ \/ recorded' = recorded \ {"mine"} /\ UNCHANGED blurred
       \/ recorded' \in {recorded, recorded \ {"mine"}} /\ blurred' = TRUE
    /\ End("error")
    /\ UNCHANGED <<kept, retries, server, size>>

\* Client::unmount: a new MOUNT connection and UMNT; the client is consumed.
Unmount ==
    /\ phase = "ready" /\ phase' = "over"
    /\ \/ recorded' = recorded \ {"mine"} /\ UNCHANGED <<answered, blurred>>
       \/ recorded' \in {recorded, recorded \ {"mine"}} /\ blurred' = TRUE /\ answered' = "error"
       \/ answered' = "error" /\ blurred' = TRUE /\ UNCHANGED recorded
    /\ UNCHANGED <<kept, retries, server, size>>

ConnectSteps ==
    \/ Validate \/ FindMountPort \/ ConnectMount \/ Mount
    \/ FindNfsPort \/ ConnectNfs \/ Fsinfo \/ Jukebox \/ Cleanup

Next == ConnectSteps \/ MountCall \/ Unmount

Spec == Init /\ [][Next]_vars

-----------------------------------------------------------------------------
(* Properties                                                              *)

\* A connect that fails after MNT, and a client that was unmounted, leave no
\* record behind at the MOUNT service, unless a MNT or UMNT went wrong
\* (connect_with_builder's five clean-ups, Client::unmount).
NoMountLeft ==
    (v3call = "connect" /\ phase = "over" /\ ~blurred) => "mine" \notin recorded

\* A ready client transfers at least one byte and never more than the server's
\* largest transfer or its own limit (clamp_io_size).
TransfersFitV3 ==
    phase = "ready" => /\ size \in 1..limit
                       /\ server.max # 0 => size <= server.max
=============================================================================
