------------------------------- MODULE MCLocks -------------------------------
(***************************************************************************)
(* Two programs that only lock and unlock while their session fails, for   *)
(* TLC: each is an instance of Recovery with locks and bounds of its own,  *)
(* and a behaviour follows one of them.                                    *)
(***************************************************************************)
EXTENDS TLC

CONSTANTS Single,   \* the token of the program with one lock
          Pair,     \* the tokens of the program with two
          None

VARIABLES program,
    srvCid, held, grace, reclaimable, completed, rival, me, lease, reg, pc, ret, call, recovered, rec,
    late, nextCid, faults, events, revoked, execs, outcome, lostReply, flagged, contended, givenUp, readOk

\* lock() and unlock() with two faults or dropped futures, an event and a
\* revocation.
One == INSTANCE Recovery WITH
    Mutations <- {}, Tokens <- {Single}, HeldAtStart <- {}, AutoRenew <- FALSE, Cancellable <- TRUE,
    MaxRetries <- 1, MaxFaults <- 2, MaxEvents <- 1, MaxRevoked <- 1

\* Two locks held, which a recovery reclaims one after the other, with two
\* events and a fault.
Two == INSTANCE Recovery WITH
    Mutations <- {}, Tokens <- Pair, HeldAtStart <- Pair, AutoRenew <- FALSE, Cancellable <- FALSE,
    MaxRetries <- 1, MaxFaults <- 1, MaxEvents <- 2, MaxRevoked <- 0

vars == <<program, One!vars>>

Init ==
    \/ program = "one" /\ One!Init
    \/ program = "two" /\ Two!Init

Next ==
    /\ UNCHANGED program
    /\ \/ program = "one" /\ One!Next
       \/ program = "two" /\ Two!Next

Spec == Init /\ [][Next]_vars

\* The registry treats its entries alike.
LocksSymmetry == Permutations(Pair)

-----------------------------------------------------------------------------
(* Properties: those of Recovery, for both programs.                       *)

\* An OPEN is executed at most once, in spite of the retry loop around it
\* (open_with_owner_failure_cleanup).
OpenAtMostOnce == IF program = "one" THEN One!OpenAtMostOnce ELSE Two!OpenAtMostOnce

\* A lock() that returns a definite error leaves no lock behind (the clean-up in
\* lock).
NoOrphanLock == IF program = "one" THEN One!NoOrphanLock ELSE Two!NoOrphanLock

\* A lock the client vouches for was never in another client's hands since it
\* was granted: recovery reclaims, it never acquires anew (recover_session).
LockContinuity == IF program = "one" THEN One!LockContinuity ELSE Two!LockContinuity

\* RECLAIM_COMPLETE is not sent before every tracked lock was reclaimed or
\* marked lost (recover_session).
ReclaimBeforeComplete == IF program = "one" THEN One!ReclaimBeforeComplete ELSE Two!ReclaimBeforeComplete

\* While a lost token has not been handed back, only requests that release
\* state are sent (LockRegistry::ensure_valid and the requests exempt from it).
NothingSentWhileLost == IF program = "one" THEN One!NothingSentWhileLost ELSE Two!NothingSentWhileLost
=============================================================================
