---------------------------- MODULE LeaseRenewal ----------------------------
(***************************************************************************)
(* The lease keeper (src/src/v4/lease.rs) and the three client operations  *)
(* that start, stop and drop it.  The blocking client runs it on a thread: *)
(* the worker waits on a condition variable for `interval` or for the stop *)
(* flag, both under one mutex, and sends its heartbeat with the mutex      *)
(* released.  The tokio client runs it as a task that is aborted at an     *)
(* await.  stop() joins the worker before DESTROY_SESSION names its        *)
(* session; Drop does not join, so an old worker may outlive its lease and *)
(* overlap the next one.                                                   *)
(***************************************************************************)
EXTENDS Naturals, FiniteSets

CONSTANT MaxLeases        \* leases started in one behaviour

Leases == 1..MaxLeases
None == 0

VARIABLES
    kind,       \* kind[l]: "thread" (BlockingLease) or "task" (TokioLease)
    worker,     \* worker[l]: where the worker of lease l is
    mutex,      \* mutex[l]: who holds stop.0: "free", "worker" or "owner"
    flag,       \* flag[l]: the stop flag the mutex guards
    aborted,    \* aborted[l]: the task was told to abort
    health,     \* health[l]: LeaseHealth says failed
    refused,    \* refused[l]: a heartbeat of l was not answered OK
    session,    \* session[l]: the keeper's session: "none", "live", "gone"
    late,       \* late[l]: heartbeats sent after the client destroyed the session
    owner,      \* what the client is doing
    lease,      \* the client's lease_renewal, None when it has none
    dropped     \* leases dropped without stop()

vars == <<kind, worker, mutex, flag, aborted, health, refused, session, late, owner, lease, dropped>>

Workers == {"off", "lock", "wait", "wake", "hold", "renew", "fail", "done"}
Owners == {"idle", "stopping", "notify", "join", "destroy", "dropping", "dropNotify"}

TypeOK ==
    /\ kind \in [Leases -> {"thread", "task"}] /\ worker \in [Leases -> Workers]
    /\ mutex \in [Leases -> {"free", "worker", "owner"}]
    /\ flag \in [Leases -> BOOLEAN] /\ aborted \in [Leases -> BOOLEAN]
    /\ health \in [Leases -> BOOLEAN] /\ refused \in [Leases -> BOOLEAN]
    /\ session \in [Leases -> {"none", "live", "gone"}] /\ late \in [Leases -> BOOLEAN]
    /\ owner \in Owners /\ lease \in Leases \cup {None} /\ dropped \subseteq Leases

Init ==
    /\ kind \in {[l \in Leases |-> k] : k \in {"thread", "task"}}
    /\ worker = [l \in Leases |-> "off"] /\ mutex = [l \in Leases |-> "free"]
    /\ flag = [l \in Leases |-> FALSE] /\ aborted = [l \in Leases |-> FALSE]
    /\ health = [l \in Leases |-> FALSE] /\ refused = [l \in Leases |-> FALSE]
    /\ session = [l \in Leases |-> "none"] /\ late = [l \in Leases |-> FALSE]
    /\ owner = "idle" /\ lease = None /\ dropped = {}

-----------------------------------------------------------------------------
(* The worker                                                              *)

WorkerLocks_WaitsFirst(l) ==
    /\ worker[l] = "lock"
    /\ kind[l] = "thread" => mutex[l] = "free"
    /\ worker' = [worker EXCEPT ![l] = "wait"]
    /\ UNCHANGED <<kind, mutex, flag, aborted, health, refused, session, late, owner, lease, dropped>>

\* lock() at the top of the thread's loop; wait_timeout_while tests the
\* condition before it waits.  The task just sleeps.
WorkerLocks(l) ==
    /\ worker[l] = "lock"
    /\ IF kind[l] = "task"
       THEN worker' = [worker EXCEPT ![l] = "wait"] /\ UNCHANGED mutex
       ELSE /\ mutex[l] = "free"
            /\ IF flag[l]
               THEN /\ worker' = [worker EXCEPT ![l] = "hold"]
                    /\ mutex' = [mutex EXCEPT ![l] = "worker"]
               ELSE /\ worker' = [worker EXCEPT ![l] = "wait"]
                    /\ UNCHANGED mutex
    /\ UNCHANGED <<kind, flag, aborted, health, refused, session, late, owner, lease, dropped>>

\* The interval has passed.
WaitTimesOut(l) ==
    /\ worker[l] = "wait"
    /\ worker' = [worker EXCEPT ![l] = IF kind[l] = "task" THEN "renew" ELSE "wake"]
    /\ UNCHANGED <<kind, mutex, flag, aborted, health, refused, session, late, owner, lease, dropped>>

\* A woken thread takes the mutex again; the condition decides whether it
\* leaves, and after a time-out it goes on with the flag clear.
WorkerWakes(l) ==
    /\ worker[l] = "wake" /\ mutex[l] = "free"
    /\ worker' = [worker EXCEPT ![l] = "hold"]
    /\ mutex' = [mutex EXCEPT ![l] = "worker"]
    /\ UNCHANGED <<kind, flag, aborted, health, refused, session, late, owner, lease, dropped>>

\* if *stopped { break }; drop(stopped).
WorkerTestsFlag(l) ==
    /\ worker[l] = "hold"
    /\ mutex' = [mutex EXCEPT ![l] = "free"]
    /\ worker' = [worker EXCEPT ![l] = IF flag[l] THEN "done" ELSE "renew"]
    /\ UNCHANGED <<kind, flag, aborted, health, refused, session, late, owner, lease, dropped>>

\* renew(): one empty COMPOUND on the keeper's own session and connection.
\* TRUE needs an OK answer without a revocation flag; anything else is FALSE.
Renew(l, ok) ==
    /\ worker[l] = "renew"
    /\ ok => session[l] = "live"
    /\ late' = [late EXCEPT ![l] = @ \/ session[l] = "gone"]
    /\ worker' = [worker EXCEPT ![l] = IF ok THEN "lock" ELSE "fail"]
    /\ refused' = [refused EXCEPT ![l] = @ \/ ~ok]
    /\ UNCHANGED <<kind, mutex, flag, aborted, health, session, owner, lease, dropped>>

WorkerFails_KeepsGoing(l) ==
    /\ worker[l] = "fail"
    /\ worker' = [worker EXCEPT ![l] = "lock"]
    /\ UNCHANGED <<kind, mutex, flag, aborted, health, refused, session, late, owner, lease, dropped>>

\* worker_health.fail(); break.
WorkerFails(l) ==
    /\ worker[l] = "fail"
    /\ health' = [health EXCEPT ![l] = TRUE]
    /\ worker' = [worker EXCEPT ![l] = "done"]
    /\ UNCHANGED <<kind, mutex, flag, aborted, refused, session, late, owner, lease, dropped>>

\* An aborted task is dropped at its next await: the sleep or the heartbeat.
TaskAborts(l) ==
    /\ kind[l] = "task" /\ aborted[l]
    /\ worker[l] \in {"lock", "wait", "renew"}
    /\ worker' = [worker EXCEPT ![l] = "done"]
    /\ UNCHANGED <<kind, mutex, flag, aborted, health, refused, session, late, owner, lease, dropped>>

-----------------------------------------------------------------------------
(* The client                                                              *)

\* LeaseHealth::failed() || is_finished().
Failed(l) == health[l] \/ worker[l] = "done"

\* start_lease_renewal after the keeper's session was created for the same
\* client id.  (SessionSetup has the steps before this one.)
StartLease ==
    /\ owner = "idle" /\ lease = None
    /\ \E l \in Leases :
          /\ worker[l] = "off" /\ \A k \in 1..(l - 1) : worker[k] # "off"
          /\ lease' = l
          /\ worker' = [worker EXCEPT ![l] = "lock"]
          /\ session' = [session EXCEPT ![l] = "live"]
    /\ UNCHANGED <<kind, mutex, flag, aborted, health, refused, late, owner, dropped>>

\* stop(): take the mutex and set the flag, or abort the task.
StopSets ==
    /\ owner = "stopping" /\ mutex[lease] = "free"
    /\ IF kind[lease] = "thread"
       THEN flag' = [flag EXCEPT ![lease] = TRUE] /\ UNCHANGED aborted
       ELSE aborted' = [aborted EXCEPT ![lease] = TRUE] /\ UNCHANGED flag
    /\ owner' = "notify"
    /\ UNCHANGED <<kind, worker, mutex, health, refused, session, late, lease, dropped>>

Stop ==
    /\ owner = "idle" /\ lease # None
    /\ owner' = "stopping"
    /\ UNCHANGED <<kind, worker, mutex, flag, aborted, health, refused, session, late, lease, dropped>>

\* notify_all(): a waiting thread is woken.
Notified(l) ==
    worker' = [worker EXCEPT ![l] = IF kind[l] = "thread" /\ @ = "wait" THEN "wake" ELSE @]

StopNotifies ==
    /\ owner = "notify"
    /\ Notified(lease)
    /\ owner' = "join"
    /\ UNCHANGED <<kind, mutex, flag, aborted, health, refused, session, late, lease, dropped>>

Join_Skipped ==
    /\ owner = "join"
    /\ owner' = "destroy"
    /\ UNCHANGED <<kind, worker, mutex, flag, aborted, health, refused, session, late, lease, dropped>>

\* thread.join(), or the task awaited.
Join ==
    /\ owner = "join" /\ worker[lease] = "done"
    /\ owner' = "destroy"
    /\ UNCHANGED <<kind, worker, mutex, flag, aborted, health, refused, session, late, lease, dropped>>

\* The future that awaits the aborted task is itself dropped: the lease goes
\* with it and its session is left to the server.
CancelJoin ==
    /\ owner = "join" /\ kind[lease] = "task"
    /\ dropped' = dropped \cup {lease}
    /\ lease' = None /\ owner' = "idle"
    /\ UNCHANGED <<kind, worker, mutex, flag, aborted, health, refused, session, late>>

\* DESTROY_SESSION for the keeper's session over the client's connection.  It
\* fails, or finds no session, or succeeds; the lease is gone in every case.
DestroyKeeper ==
    /\ owner = "destroy"
    /\ \E outcome \in {"live", "gone"} :
          session' = [session EXCEPT ![lease] = IF @ = "live" THEN outcome ELSE @]
    /\ lease' = None /\ owner' = "idle"
    /\ UNCHANGED <<kind, worker, mutex, flag, aborted, health, refused, late, dropped>>

\* Drop: the client is replaced (reconnect) or goes out of scope.
Drop ==
    /\ owner = "idle" /\ lease # None
    /\ owner' = "dropping"
    /\ UNCHANGED <<kind, worker, mutex, flag, aborted, health, refused, session, late, lease, dropped>>

DropSets_Forgets ==
    /\ owner = "dropping" /\ mutex[lease] = "free"
    /\ owner' = "dropNotify"
    /\ UNCHANGED <<kind, worker, mutex, flag, aborted, health, refused, session, late, lease, dropped>>

DropSets ==
    /\ owner = "dropping" /\ mutex[lease] = "free"
    /\ IF kind[lease] = "thread"
       THEN flag' = [flag EXCEPT ![lease] = TRUE] /\ UNCHANGED aborted
       ELSE aborted' = [aborted EXCEPT ![lease] = TRUE] /\ UNCHANGED flag
    /\ owner' = "dropNotify"
    /\ UNCHANGED <<kind, worker, mutex, health, refused, session, late, lease, dropped>>

DropNotifies ==
    /\ owner = "dropNotify"
    /\ Notified(lease)
    /\ dropped' = dropped \cup {lease}
    /\ lease' = None /\ owner' = "idle"
    /\ UNCHANGED <<kind, mutex, flag, aborted, health, refused, session, late>>

\* The server forgets the keeper's session.
SessionDropped(l) ==
    /\ session[l] = "live"
    /\ session' = [session EXCEPT ![l] = "none"]
    /\ UNCHANGED <<kind, worker, mutex, flag, aborted, health, refused, late, owner, lease, dropped>>

Worker(l) ==
    \/ WorkerLocks(l)
    \/ WaitTimesOut(l)
    \/ WorkerWakes(l)
    \/ WorkerTestsFlag(l)
    \/ \E ok \in BOOLEAN : Renew(l, ok)
    \/ WorkerFails(l)

Stopping == StopSets \/ StopNotifies \/ Join \/ DestroyKeeper
Dropping == DropSets \/ DropNotifies

Next ==
    \/ \E l \in Leases : Worker(l) \/ TaskAborts(l) \/ SessionDropped(l)
    \/ StartLease
    \/ Stop
    \/ Drop
    \/ CancelJoin
    \/ Stopping
    \/ Dropping

\* The operating system runs the threads and the runtime polls the tasks, the
\* heartbeat's socket has a time-out no longer than the interval, an aborted
\* task is dropped when it is next polled, and the worker, which takes the
\* mutex once in each interval, does not keep the client out for ever.
Fairness ==
    /\ \A l \in Leases : WF_vars(Worker(l)) /\ WF_vars(TaskAborts(l))
    /\ SF_vars(Stopping) /\ SF_vars(Dropping)

Spec == Init /\ [][Next]_vars /\ Fairness

-----------------------------------------------------------------------------
(* Properties                                                              *)

\* stop() returns the session id only after the worker is gone, so no
\* heartbeat is sent on a session the client has already destroyed
\* (lease.rs:72-79, stop_lease_renewal).
QuietAfterStop == \A l \in Leases : ~late[l]

\* At most one worker serves the client at a time once the leases it dropped
\* are set aside: a stopped lease never runs beside its successor
\* (stop_lease_renewal takes the lease before it stops it).
OneKeeper ==
    Cardinality({l \in Leases \ dropped : worker[l] \notin {"off", "done"}}) <= 1

\* Once stop() or Drop has notified, the worker thread is not waiting for its
\* interval: it was woken, or it meets the flag before it waits
\* (wait_timeout_while tests it under the mutex stop() sets it under).
WokenOnStop ==
    \A l \in Leases : kind[l] = "thread" /\ (l \in dropped \/ (l = lease /\ owner \in {"join", "destroy"}))
                        => worker[l] # "wait"

\* What stopping and dropping leases guarantees at every moment: the three
\* properties above (stop, Drop and stop_lease_renewal).
KeeperStops == TypeOK /\ QuietAfterStop /\ OneKeeper /\ WokenOnStop

\* A refused heartbeat does not stay hidden: failed() becomes true, so the
\* next call starts a recovery, unless the lease was given up meanwhile
\* (lease.rs:50-53 and 64-70).
FailureReported == \A l \in Leases : refused[l] ~> (Failed(l) \/ lease # l)

\* stop() returns: no wake-up is lost between the flag and the condition
\* variable, and neither side keeps the mutex (lease.rs:40-49, 72-79).
StopReturns == (owner = "stopping") ~> (owner = "idle")

\* A worker whose lease was dropped without a join ends by itself
\* (Drop for BlockingLease and TokioLease).
DroppedWorkerEnds == \A l \in Leases : (l \in dropped) ~> (worker[l] = "done")
=============================================================================
