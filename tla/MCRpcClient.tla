---------------------------- MODULE MCRpcClient ----------------------------
(***************************************************************************)
(* The two places where the client itself is concurrent, for TLC: the      *)
(* stream a call is made on (three calls, two streams and transaction ids  *)
(* that wrap after three, so that an abandoned xid comes round again) and  *)
(* the lease keeper.  They share no state: the keeper has a connection of  *)
(* its own.  A behaviour follows one of them and leaves the other as it    *)
(* starts, where none of its fair actions is enabled.                      *)
(***************************************************************************)
EXTENDS RpcClient

CONSTANT MaxLeases

VARIABLES
    part,      \* "rpc" or "lease"
    kind, worker, mutex, flag, aborted, health, refused, session, late, owner, lease, dropped

leaseVars == <<kind, worker, mutex, flag, aborted, health, refused, session, late, owner, lease, dropped>>

Lease == INSTANCE LeaseRenewal

ClientInit ==
    /\ Init /\ Lease!Init
    /\ part = "lease" \/ (part = "rpc" /\ \A l \in Lease!Leases : kind[l] = "thread")

ClientNext ==
    \/ part = "rpc" /\ Next /\ UNCHANGED <<part, leaseVars>>
    \/ part = "lease" /\ Lease!Next /\ UNCHANGED <<part, vars>>

ClientSpec ==
    /\ ClientInit /\ [][ClientNext]_<<part, vars, leaseVars>>
    /\ WF_vars(ReadReply \/ ReadFails)
    /\ Lease!Fairness

\* No heartbeat is sent on a session the client has destroyed, a stopped
\* keeper never runs beside its successor, and stop() and Drop never leave the
\* worker to sleep out its interval: the flag is set and tested under one
\* mutex, and stop() joins before DESTROY_SESSION (lease.rs, BlockingLease and
\* TokioLease; stop_lease_renewal).
KeeperStops == Lease!KeeperStops

\* A refused heartbeat is reported by failed(), so that the next call starts
\* a recovery, unless the lease was given up meanwhile (LeaseHealth, lease.rs).
FailureReported == Lease!FailureReported

\* stop() returns, and the worker of a dropped lease ends (BlockingLease::stop,
\* TokioLease::stop and Drop).
LeaseEnds == Lease!StopReturns /\ Lease!DroppedWorkerEnds
=============================================================================
