------------------------- MODULE LeaseRenewalProofs -------------------------
(***************************************************************************)
(* For any number of leases: a heartbeat never follows DESTROY_SESSION, at *)
(* most one worker serves the client, and no stopped thread is left        *)
(* waiting.  The invariant says which workers may run (the current lease's *)
(* and those of dropped leases), that a destroyed session's worker is      *)
(* done, and that the stop flag is set from the moment stop() or Drop has  *)
(* set it.                                                                 *)
(***************************************************************************)
EXTENDS LeaseRenewal, FiniteSetTheorems, TLAPS

Running(l) == worker[l] \notin {"off", "done"}
GivenUp(l) == l \in dropped \/ (l = lease /\ owner \in {"notify", "join", "destroy", "dropNotify"})

\* The client is busy with a lease it still has.
OwnerHasLease == owner # "idle" => lease \in Leases

\* Only the current lease and dropped ones have a worker that runs.
OnlyCurrentRuns == \A l \in Leases : Running(l) => l = lease \/ l \in dropped

\* stop() has joined before the session is destroyed, so a destroyed session
\* has no worker left.
GoneIsDone ==
    /\ owner = "destroy" => worker[lease] = "done"
    /\ \A l \in Leases : session[l] = "gone" => worker[l] = "done"

\* The flag of a lease given up is set and stays set.
FlagStays == \A l \in Leases : kind[l] = "thread" /\ GivenUp(l) => flag[l]

Inv ==
    /\ TypeOK /\ OwnerHasLease /\ OnlyCurrentRuns /\ GoneIsDone /\ FlagStays
    /\ QuietAfterStop /\ WokenOnStop

-----------------------------------------------------------------------------

\* The initial state, with no lease and every worker off, satisfies Inv
\* (a client before start_lease_renewal).
LEMMA InitInv == Init => Inv
<1> SUFFICES ASSUME Init PROVE Inv
  OBVIOUS
<1>1. TypeOK
  BY DEF Init, TypeOK, Leases, Workers, Owners, None
<1>2. OwnerHasLease /\ OnlyCurrentRuns /\ GoneIsDone /\ QuietAfterStop
  BY DEF Init, OwnerHasLease, OnlyCurrentRuns, Running, GoneIsDone, QuietAfterStop, Leases
<1>3. FlagStays /\ WokenOnStop
  BY DEF Init, FlagStays, GivenUp, WokenOnStop, Leases
<1> QED
  BY <1>1, <1>2, <1>3 DEF Inv

\* Every step keeps the types (all of lease.rs and the three client calls).
LEMMA TypeStep == TypeOK /\ OwnerHasLease /\ [Next]_vars => TypeOK'
<1> SUFFICES ASSUME TypeOK, OwnerHasLease, [Next]_vars PROVE TypeOK'
  OBVIOUS
<1> USE DEF TypeOK, OwnerHasLease, Workers, Owners
<1>1. CASE UNCHANGED vars
  BY <1>1 DEF vars
<1>2. ASSUME NEW l \in Leases, Worker(l) PROVE TypeOK'
  <2>1. CASE WorkerLocks(l)
    BY <2>1 DEF WorkerLocks
  <2>2. CASE WaitTimesOut(l)
    BY <2>2 DEF WaitTimesOut
  <2>3. CASE WorkerWakes(l)
    BY <2>3 DEF WorkerWakes
  <2>4. CASE WorkerTestsFlag(l)
    BY <2>4 DEF WorkerTestsFlag
  <2>5. CASE \E ok \in BOOLEAN : Renew(l, ok)
    BY <2>5 DEF Renew
  <2>6. CASE WorkerFails(l)
    BY <2>6 DEF WorkerFails
  <2> QED
    BY <1>2, <2>1, <2>2, <2>3, <2>4, <2>5, <2>6 DEF Worker
<1>3. ASSUME NEW l \in Leases, TaskAborts(l) PROVE TypeOK'
  BY <1>3 DEF TaskAborts
<1>4. ASSUME NEW l \in Leases, SessionDropped(l) PROVE TypeOK'
  BY <1>4 DEF SessionDropped
<1>5. CASE StartLease
  BY <1>5 DEF StartLease
<1>6. CASE Stop
  BY <1>6 DEF Stop
<1>7. CASE Drop
  BY <1>7 DEF Drop
<1>8. CASE CancelJoin
  BY <1>8 DEF CancelJoin
<1>9. CASE Stopping
  <2>1. CASE StopSets
    BY <2>1 DEF StopSets
  <2>2. CASE StopNotifies
    BY <2>2 DEF StopNotifies, Notified
  <2>3. CASE Join
    BY <2>3 DEF Join
  <2>4. CASE DestroyKeeper
    BY <2>4 DEF DestroyKeeper
  <2> QED
    BY <1>9, <2>1, <2>2, <2>3, <2>4 DEF Stopping
<1>10. CASE Dropping
  <2>1. CASE DropSets
    BY <2>1 DEF DropSets
  <2>2. CASE DropNotifies
    BY <2>2 DEF DropNotifies, Notified
  <2> QED
    BY <1>10, <2>1, <2>2 DEF Dropping
<1> QED
  BY <1>1, <1>2, <1>3, <1>4, <1>5, <1>6, <1>7, <1>8, <1>9, <1>10 DEF Next

\* stop(), Drop and the session's destruction work on the lease the client
\* has, and which workers run follows it (start_lease_renewal and
\* stop_lease_renewal take and clear lease_renewal).
LEMMA CurrentStep == TypeOK /\ OwnerHasLease /\ OnlyCurrentRuns /\ GoneIsDone /\ [Next]_vars => (OwnerHasLease /\ OnlyCurrentRuns)'
<1> SUFFICES ASSUME TypeOK, OwnerHasLease, OnlyCurrentRuns, GoneIsDone, [Next]_vars PROVE (OwnerHasLease /\ OnlyCurrentRuns)'
  OBVIOUS
<1> USE DEF TypeOK, OwnerHasLease, OnlyCurrentRuns, Running, GoneIsDone, Leases, None, Owners, Workers
<1>1. CASE UNCHANGED vars
  BY <1>1 DEF vars
<1>2. ASSUME NEW l \in Leases, Worker(l) PROVE (OwnerHasLease /\ OnlyCurrentRuns)'
  <2>1. CASE WorkerLocks(l)
    BY <2>1 DEF WorkerLocks
  <2>2. CASE WaitTimesOut(l)
    BY <2>2 DEF WaitTimesOut
  <2>3. CASE WorkerWakes(l)
    BY <2>3 DEF WorkerWakes
  <2>4. CASE WorkerTestsFlag(l)
    BY <2>4 DEF WorkerTestsFlag
  <2>5. CASE \E ok \in BOOLEAN : Renew(l, ok)
    BY <2>5 DEF Renew
  <2>6. CASE WorkerFails(l)
    BY <2>6 DEF WorkerFails
  <2> QED
    BY <1>2, <2>1, <2>2, <2>3, <2>4, <2>5, <2>6 DEF Worker
<1>3. ASSUME NEW l \in Leases, TaskAborts(l) PROVE (OwnerHasLease /\ OnlyCurrentRuns)'
  BY <1>3 DEF TaskAborts
<1>4. ASSUME NEW l \in Leases, SessionDropped(l) PROVE (OwnerHasLease /\ OnlyCurrentRuns)'
  BY <1>4 DEF SessionDropped
<1>5. CASE StartLease
  BY <1>5 DEF StartLease
<1>6. CASE Stop
  BY <1>6 DEF Stop
<1>7. CASE Drop
  BY <1>7 DEF Drop
<1>8. CASE CancelJoin
  BY <1>8 DEF CancelJoin
<1>9. CASE Stopping
  <2>1. CASE StopSets
    BY <2>1 DEF StopSets
  <2>2. CASE StopNotifies
    BY <2>2 DEF StopNotifies, Notified
  <2>3. CASE Join
    BY <2>3 DEF Join
  <2>4. CASE DestroyKeeper
    BY <2>4 DEF DestroyKeeper
  <2> QED
    BY <1>9, <2>1, <2>2, <2>3, <2>4 DEF Stopping
<1>10. CASE Dropping
  <2>1. CASE DropSets
    BY <2>1 DEF DropSets
  <2>2. CASE DropNotifies
    BY <2>2 DEF DropNotifies, Notified
  <2> QED
    BY <1>10, <2>1, <2>2 DEF Dropping
<1> QED
  BY <1>1, <1>2, <1>3, <1>4, <1>5, <1>6, <1>7, <1>8, <1>9, <1>10 DEF Next

\* A destroyed session has no worker, hence no heartbeat follows
\* DESTROY_SESSION (stop() joins first).
LEMMA QuietStep == TypeOK /\ OwnerHasLease /\ GoneIsDone /\ QuietAfterStop /\ [Next]_vars => (GoneIsDone /\ QuietAfterStop)'
<1> SUFFICES ASSUME TypeOK, OwnerHasLease, GoneIsDone, QuietAfterStop, [Next]_vars PROVE (GoneIsDone /\ QuietAfterStop)'
  OBVIOUS
<1> USE DEF TypeOK, OwnerHasLease, GoneIsDone, QuietAfterStop, Leases, None, Owners, Workers
<1>1. CASE UNCHANGED vars
  BY <1>1 DEF vars
<1>2. ASSUME NEW l \in Leases, Worker(l) PROVE (GoneIsDone /\ QuietAfterStop)'
  <2>1. CASE WorkerLocks(l)
    BY <2>1 DEF WorkerLocks
  <2>2. CASE WaitTimesOut(l)
    BY <2>2 DEF WaitTimesOut
  <2>3. CASE WorkerWakes(l)
    BY <2>3 DEF WorkerWakes
  <2>4. CASE WorkerTestsFlag(l)
    BY <2>4 DEF WorkerTestsFlag
  <2>5. CASE \E ok \in BOOLEAN : Renew(l, ok)
    BY <2>5 DEF Renew
  <2>6. CASE WorkerFails(l)
    BY <2>6 DEF WorkerFails
  <2> QED
    BY <1>2, <2>1, <2>2, <2>3, <2>4, <2>5, <2>6 DEF Worker
<1>3. ASSUME NEW l \in Leases, TaskAborts(l) PROVE (GoneIsDone /\ QuietAfterStop)'
  BY <1>3 DEF TaskAborts
<1>4. ASSUME NEW l \in Leases, SessionDropped(l) PROVE (GoneIsDone /\ QuietAfterStop)'
  BY <1>4 DEF SessionDropped
<1>5. CASE StartLease
  BY <1>5 DEF StartLease
<1>6. CASE Stop
  BY <1>6 DEF Stop
<1>7. CASE Drop
  BY <1>7 DEF Drop
<1>8. CASE CancelJoin
  BY <1>8 DEF CancelJoin
<1>9. CASE Stopping
  <2>1. CASE StopSets
    BY <2>1 DEF StopSets
  <2>2. CASE StopNotifies
    BY <2>2 DEF StopNotifies, Notified
  <2>3. CASE Join
    BY <2>3 DEF Join
  <2>4. CASE DestroyKeeper
    BY <2>4 DEF DestroyKeeper
  <2> QED
    BY <1>9, <2>1, <2>2, <2>3, <2>4 DEF Stopping
<1>10. CASE Dropping
  <2>1. CASE DropSets
    BY <2>1 DEF DropSets
  <2>2. CASE DropNotifies
    BY <2>2 DEF DropNotifies, Notified
  <2> QED
    BY <1>10, <2>1, <2>2 DEF Dropping
<1> QED
  BY <1>1, <1>2, <1>3, <1>4, <1>5, <1>6, <1>7, <1>8, <1>9, <1>10 DEF Next

\* Once set, the flag of a lease given up stays set, and its thread is not
\* waiting once notified (wait_timeout_while tests the flag under the mutex).
LEMMA WokenStep == TypeOK /\ OwnerHasLease /\ FlagStays /\ WokenOnStop /\ [Next]_vars => (FlagStays /\ WokenOnStop)'
<1> SUFFICES ASSUME TypeOK, OwnerHasLease, FlagStays, WokenOnStop, [Next]_vars PROVE (FlagStays /\ WokenOnStop)'
  OBVIOUS
<1> USE DEF TypeOK, OwnerHasLease, FlagStays, GivenUp, WokenOnStop, Leases, None, Owners, Workers
<1>1. CASE UNCHANGED vars
  BY <1>1 DEF vars
<1>2. ASSUME NEW l \in Leases, Worker(l) PROVE (FlagStays /\ WokenOnStop)'
  <2>1. CASE WorkerLocks(l)
    <3>1. FlagStays'
      BY <2>1 DEF WorkerLocks
    <3>2. ASSUME kind[l] = "thread", GivenUp(l) PROVE worker'[l] = "hold"
      <4>1. flag[l] /\ kind[l] # "task"
        BY <3>2
      <4> QED
        BY <2>1, <4>1 DEF WorkerLocks
    <3>3. \A k \in Leases : k # l => worker'[k] = worker[k]
      BY <2>1 DEF WorkerLocks
    <3>4. WokenOnStop'
      BY <2>1, <3>2, <3>3 DEF WorkerLocks
    <3> QED
      BY <3>1, <3>4
  <2>2. CASE WaitTimesOut(l)
    BY <2>2 DEF WaitTimesOut
  <2>3. CASE WorkerWakes(l)
    BY <2>3 DEF WorkerWakes
  <2>4. CASE WorkerTestsFlag(l)
    BY <2>4 DEF WorkerTestsFlag
  <2>5. CASE \E ok \in BOOLEAN : Renew(l, ok)
    BY <2>5 DEF Renew
  <2>6. CASE WorkerFails(l)
    BY <2>6 DEF WorkerFails
  <2> QED
    BY <1>2, <2>1, <2>2, <2>3, <2>4, <2>5, <2>6 DEF Worker
<1>3. ASSUME NEW l \in Leases, TaskAborts(l) PROVE (FlagStays /\ WokenOnStop)'
  BY <1>3 DEF TaskAborts
<1>4. ASSUME NEW l \in Leases, SessionDropped(l) PROVE (FlagStays /\ WokenOnStop)'
  BY <1>4 DEF SessionDropped
<1>5. CASE StartLease
  BY <1>5 DEF StartLease
<1>6. CASE Stop
  BY <1>6 DEF Stop
<1>7. CASE Drop
  BY <1>7 DEF Drop
<1>8. CASE CancelJoin
  BY <1>8 DEF CancelJoin
<1>9. CASE Stopping
  <2>1. CASE StopSets
    BY <2>1 DEF StopSets
  <2>2. CASE StopNotifies
    BY <2>2 DEF StopNotifies, Notified
  <2>3. CASE Join
    BY <2>3 DEF Join
  <2>4. CASE DestroyKeeper
    BY <2>4 DEF DestroyKeeper
  <2> QED
    BY <1>9, <2>1, <2>2, <2>3, <2>4 DEF Stopping
<1>10. CASE Dropping
  <2>1. CASE DropSets
    BY <2>1 DEF DropSets
  <2>2. CASE DropNotifies
    BY <2>2 DEF DropNotifies, Notified
  <2> QED
    BY <1>10, <2>1, <2>2 DEF Dropping
<1> QED
  BY <1>1, <1>2, <1>3, <1>4, <1>5, <1>6, <1>7, <1>8, <1>9, <1>10 DEF Next

\* The invariant gives the three promises; at most one worker runs because it
\* can only be the current lease's (OneKeeper counts them).
LEMMA InvKeeper == Inv => KeeperStops
<1> SUFFICES ASSUME Inv PROVE OneKeeper
  BY DEF Inv, KeeperStops
<1> DEFINE S == {l \in Leases \ dropped : worker[l] \notin {"off", "done"}}
<1>1. S \subseteq {lease}
  BY DEF Inv, OnlyCurrentRuns, Running
<1>2. IsFiniteSet({lease}) /\ Cardinality({lease}) = 1
  BY FS_Singleton
<1>3. IsFiniteSet(S) /\ Cardinality(S) <= Cardinality({lease})
  BY <1>1, <1>2, FS_Subset
<1>4. Cardinality(S) <= 1
  BY <1>2, <1>3
<1> QED
  BY <1>4 DEF OneKeeper

\* For any number of leases, threads or tasks, started, stopped, dropped and
\* cancelled in any order: no heartbeat is sent on a session the client has
\* destroyed, at most one keeper not dropped is running, and no stopped
\* thread sleeps on (lease.rs; start_lease_renewal, stop_lease_renewal).
THEOREM KeeperSafe == Spec => []KeeperStops
<1>1. Init => Inv
  BY InitInv
<1>2. Inv /\ [Next]_vars => Inv'
  BY TypeStep, CurrentStep, QuietStep, WokenStep DEF Inv
<1>3. Inv => KeeperStops
  BY InvKeeper
<1> QED
  BY <1>1, <1>2, <1>3, PTL DEF Spec
=============================================================================
