------------------------------ MODULE Recovery ------------------------------
(***************************************************************************)
(* Session recovery of the NFSv4.1/4.2 client: Client::compound_status,    *)
(* Client::recover_session and what they call, the operations that keep    *)
(* server state (lock, unlock), the lease keeper, and a server that        *)
(* restarts, expires leases, drops sessions, revokes locks and grants the  *)
(* same ranges to other clients.  v4/blocking.rs and v4/tokio.rs share the *)
(* structure; Cancel is what dropping a tokio future adds.                 *)
(*                                                                         *)
(* Granularity.  An RPC is one step: the request, its execution, and what  *)
(* the client does with the reply up to its next RPC.  The reply only      *)
(* changes the client's own state, so a server event between execution and *)
(* reply could as well happen after the reply is handled; RpcClient.tla    *)
(* shows that the transport gives a call its own reply or none.  A request *)
(* whose reply is lost may have been executed, may never be, or may be     *)
(* executed later from the abandoned stream (the variable late).           *)
(*                                                                         *)
(* Data.  A COMPOUND is its kind (the field step).  An error is what the   *)
(* predicates of error.rs tell apart.  A stateid is the client id it was   *)
(* granted under.  A session id is whether the server still has that       *)
(* session (the field up); a session nobody will use again is forgotten,   *)
(* except that its requests may still be executed.  A DELAY or GRACE loop  *)
(* re-sends a request the server did not execute, so a loop is one step    *)
(* here; DelayedRetry.tla is about it.                                     *)
(***************************************************************************)
EXTENDS Naturals, FiniteSets

CONSTANTS
    Mutations,     \* the mutating calls the program makes, each once
    Tokens,        \* byte-range locks the program takes, each once
    HeldAtStart,   \* the tokens it holds in the initial state
    AutoRenew,     \* ClientBuilder::automatic_lease_renewal
    Cancellable,   \* the tokio client: a future may be dropped
    MaxRetries,    \* RetryPolicy::max_retries
    MaxFaults,     \* bound: replies lost, connections refused
    MaxEvents,     \* bound: restarts, expiries, dropped sessions
    MaxRevoked,    \* bound: locks the server revokes
    None           \* no call, no token

ASSUME ConstantsAssumption ==
    /\ HeldAtStart \subseteq Tokens
    /\ AutoRenew \in BOOLEAN /\ Cancellable \in BOOLEAN
    /\ MaxRetries \in Nat /\ MaxFaults \in Nat /\ MaxEvents \in Nat /\ MaxRevoked \in Nat
    /\ Mutations \cap Tokens = {} /\ None \notin Mutations \cup Tokens

VARIABLES
    \* the server
    srvCid,        \* client id of this client's owner, 0 when there is none
    held,          \* state of each token's lock under srvCid
    grace,         \* the grace period after a restart
    reclaimable,   \* locks the previous instance recorded
    completed,     \* RECLAIM_COMPLETE was executed for srvCid
    rival,         \* ranges another client holds
    \* the client
    me,            \* Client: client_id, session_id, rpc.interrupted, recovery_pending
    lease,         \* Client::lease_renewal: present, session_id, failed()
    reg,           \* LockRegistry: present, client_id, lost
    pc, ret,       \* control point, and the Result being returned
    call,          \* locals of the public operation and of its OPEN or CLOSE loop
    recovered,     \* compound_status: recovered_session
    rec,           \* locals of recover_session
    \* the environment and the history
    late,          \* requests that may still be executed from abandoned streams
    nextCid, faults, events, revoked,
    execs,         \* executions of each mutation, of each token's first OPEN
    outcome,       \* what the call returned
    lostReply,     \* calls with a request whose reply was lost
    flagged,       \* calls whose reply reported revoked state
    contended,     \* ranges another client got after the token was granted
    givenUp,       \* tokens the program has passed to unlock()
    readOk         \* the last read-only call succeeded

srvVars == <<srvCid, held, grace, reclaimable, completed, rival>>
cliVars == <<me, lease, reg>>
ctlVars == <<pc, ret, call, recovered, rec>>
envVars == <<late, nextCid, faults, events, revoked>>
histVars == <<execs, outcome, lostReply, flagged, contended, givenUp, readOk>>
vars == <<srvVars, cliVars, ctlVars, envVars, histVars>>

Calls == Mutations \cup Tokens
Steps == {"read", "mutate", "open", "lock", "locku", "free", "rlo", "close", "reclaim", "none"}
LockStates == {"none", "open", "locked", "revoked"}
Outcomes == {"none", "ok", "error", "unknown", "lost"}

\* A Result: Ok, or an Error with is_outcome_unknown, is_session_recoverable
\* and is_lost_state.
Result == [ok : BOOLEAN, unknown : BOOLEAN, session : BOOLEAN, lost : BOOLEAN]
Ok == [ok |-> TRUE, unknown |-> FALSE, session |-> FALSE, lost |-> FALSE]
Err(u, s, l) == [ok |-> FALSE, unknown |-> u, session |-> s, lost |-> l]
Refused == Err(FALSE, FALSE, FALSE)     \* a status of the operation itself
Interrupted == Err(FALSE, FALSE, FALSE) \* RpcConnectionInvalid: nothing was sent
ReplyLost == Err(TRUE, FALSE, FALSE)    \* OutcomeUnknown
BadSession == Err(FALSE, TRUE, FALSE)   \* NfsV4 with a session status
StaleClient == Err(FALSE, TRUE, TRUE)   \* ... that is_lost_state as well
LockLost == Err(FALSE, FALSE, TRUE)

\* Slip: the cleanup's error hides that the primary outcome is unknown.
Cleanup_HidesPrimary(primary, cleanup) ==
    IF cleanup.ok THEN primary
    ELSE Err(cleanup.unknown, primary.session \/ cleanup.session, primary.lost \/ cleanup.lost)

\* cleanup_error: the outcome is the primary error's, the rest is either's.
Cleanup(primary, cleanup) ==
    IF cleanup.ok THEN primary
    ELSE Err(primary.unknown, primary.session \/ cleanup.session, primary.lost \/ cleanup.lost)

NoLease == [on |-> FALSE, up |-> FALSE, failed |-> FALSE]
NoCall == [kind |-> "none", id |-> None, step |-> "none", outer |-> FALSE, saved |-> Ok]
NoRec == [cont |-> "none", orig |-> Ok, cid |-> 0, up |-> FALSE, todo |-> {}, retry |-> 0]

ControlPoints ==
    {"idle", "entry", "send", "revoked", "return", "stoplease", "exchange", "create", "relock",
     "complete", "fsinfo", "keeper", "swap", "recovered"}
Sessions == [cid : Nat, up : BOOLEAN, dead : BOOLEAN, pending : BOOLEAN]
Leases == [on : BOOLEAN, up : BOOLEAN, failed : BOOLEAN]
Entries == [in : BOOLEAN, cid : Nat, lost : BOOLEAN]
Operations ==
    [kind : {"none", "read", "mutate", "lock", "unlock", "reconnect"}, id : Calls \cup {None},
     step : Steps, outer : BOOLEAN, saved : Result]
Recoveries ==
    [cont : {"none", "entry", "transport", "session", "open", "close", "user"}, orig : Result,
     cid : Nat, up : BOOLEAN, todo : SUBSET Tokens, retry : 0..MaxRetries]
Requests == [step : Steps, id : Calls \cup {None}]

TypeOK ==
    /\ srvCid \in Nat /\ nextCid \in Nat
    /\ held \in [Tokens -> LockStates]
    /\ grace \in BOOLEAN /\ completed \in BOOLEAN
    /\ reclaimable \subseteq Tokens /\ rival \subseteq Tokens
    /\ me \in Sessions /\ lease \in Leases /\ reg \in [Tokens -> Entries]
    /\ pc \in ControlPoints /\ ret \in Result /\ call \in Operations
    /\ recovered \in BOOLEAN /\ rec \in Recoveries
    /\ late \subseteq Requests
    /\ faults \in 0..MaxFaults /\ events \in 0..MaxEvents /\ revoked \in 0..MaxRevoked
    /\ execs \in [Calls -> Nat] /\ outcome \in [Calls -> Outcomes]
    /\ lostReply \subseteq Calls /\ flagged \subseteq Calls
    /\ contended \subseteq Tokens /\ givenUp \subseteq Tokens
    /\ readOk \in BOOLEAN

\* A connected client holding some locks: connect_with_builder has completed
\* RECLAIM_COMPLETE and, when asked to, started the lease keeper.
Init ==
    /\ srvCid = 1 /\ nextCid = 2
    /\ held = [t \in Tokens |-> IF t \in HeldAtStart THEN "locked" ELSE "none"]
    /\ grace = FALSE /\ reclaimable = {} /\ completed = TRUE /\ rival = {}
    /\ me = [cid |-> 1, up |-> TRUE, dead |-> FALSE, pending |-> FALSE]
    /\ lease = IF AutoRenew THEN [on |-> TRUE, up |-> TRUE, failed |-> FALSE] ELSE NoLease
    /\ reg = [t \in Tokens |-> [in |-> t \in HeldAtStart, cid |-> 1, lost |-> FALSE]]
    /\ pc = "idle" /\ ret = Ok /\ call = NoCall /\ recovered = FALSE /\ rec = NoRec
    /\ late = {} /\ faults = 0 /\ events = 0 /\ revoked = 0
    /\ execs = [c \in Calls |-> IF c \in HeldAtStart THEN 1 ELSE 0]
    /\ outcome = [c \in Calls |-> IF c \in HeldAtStart THEN "ok" ELSE "none"]
    /\ lostReply = {} /\ flagged = {} /\ contended = {} /\ givenUp = {} /\ readOk = TRUE

-----------------------------------------------------------------------------
\* Slips: a mutation, or an OPEN, is replayed on the new session.
Replayable_Mutation(step) == step \in {"read", "mutate"}
Replayable_Open(step) == step \in {"read", "open"}

\* operations_release_state, operations_can_replay_after_session_recovery
Release(step) == step \in {"locku", "free", "rlo", "close"}
Replayable(step) == step = "read"

\* LockRegistry::ensure_valid
Valid == \A t \in Tokens : ~(reg[t].in /\ reg[t].lost)
Tracked == {t \in Tokens : reg[t].in /\ ~reg[t].lost}
MarkLost(t) == reg' = [reg EXCEPT ![t].lost = TRUE]

Return(r) == pc' = "return" /\ ret' = r

\* recover_session up to its first RPC.
BeginRecovery(cont, orig) ==
    /\ rec' = [NoRec EXCEPT !.cont = cont, !.orig = orig]
    /\ pc' = IF lease.on THEN "stoplease" ELSE "exchange"
    /\ UNCHANGED <<ret, call, recovered>>

OutcomeOf(r) ==
    CASE r.ok -> "ok" [] r.unknown -> "unknown" [] r.lost /\ ~r.unknown /\ ~r.ok -> "lost"
      [] OTHER -> "error"

\* The public operation returns r to the program.
Finish(r) ==
    /\ pc' = "idle" /\ ret' = Ok
    /\ call' = NoCall /\ recovered' = FALSE /\ rec' = NoRec
    /\ outcome' = IF call.kind \in {"mutate", "lock"}
                  THEN [outcome EXCEPT ![call.id] = OutcomeOf(r)] ELSE outcome
    /\ readOk' = IF call.kind = "read" THEN r.ok ELSE readOk

-----------------------------------------------------------------------------
(* The server, as far as this client sees it.                              *)

CanExecute(step, id) ==
    CASE step = "open"    -> ~grace /\ held[id] \in {"none", "open"}
      [] step = "lock"    -> ~grace /\ held[id] = "open" /\ id \notin rival
      [] step = "locku"   -> held[id] = "locked"
      [] step = "free"    -> held[id] = "open"
      [] step = "close"   -> held[id] \in {"open", "locked"}
      [] step = "reclaim" -> grace /\ id \in reclaimable /\ ~completed
      [] OTHER            -> TRUE

HeldAfter(step, id) ==
    CASE step \in {"open", "locku"}    -> [held EXCEPT ![id] = "open"]
      [] step \in {"lock", "reclaim"}  -> [held EXCEPT ![id] = "locked"]
      [] step = "close"                -> [held EXCEPT ![id] = "none"]
      [] OTHER                         -> held

ExecsAfter(step, id) ==
    IF step \in {"mutate", "open"} THEN [execs EXCEPT ![id] = @ + 1] ELSE execs

Execute(step, id) ==
    /\ CanExecute(step, id)
    /\ held' = HeldAfter(step, id)
    /\ execs' = ExecsAfter(step, id)

\* SEQ4_STATUS_*_REVOKED in the reply to SEQUENCE
RevokedFlag == \E t \in Tokens : held[t] = "revoked"

Fault == faults < MaxFaults /\ faults' = faults + 1

\* What becomes of a request whose reply the client will not see.
RequestFate(up, step, id) ==
    \/ UNCHANGED <<held, execs, late>>
    \/ up /\ Execute(step, id) /\ UNCHANGED late
    \/ /\ up /\ step # "read"
       /\ late' = late \cup {[step |-> step, id |-> id]}
       /\ UNCHANGED <<held, execs>>

LateExecution(r) ==
    /\ r \in late
    /\ Execute(r.step, r.id)
    /\ late' = late \ {r}
    /\ UNCHANGED <<srvCid, grace, reclaimable, completed, rival, cliVars, ctlVars,
                   nextCid, faults, events, revoked, outcome, lostReply, flagged, contended,
                   givenUp, readOk>>

Event == events < MaxEvents /\ events' = events + 1

\* The client id is gone, and with it its sessions and its state.
ForgetClient ==
    /\ srvCid' = 0 /\ completed' = FALSE /\ late' = {}
    /\ me' = [me EXCEPT !.up = FALSE]
    /\ lease' = [lease EXCEPT !.up = FALSE]
    /\ rec' = [rec EXCEPT !.up = FALSE]
    /\ held' = [t \in Tokens |-> "none"]

ServerRestart ==
    /\ Event /\ ForgetClient
    /\ grace' = TRUE
    /\ reclaimable' = {t \in Tokens : held[t] = "locked"} \cup reclaimable
    /\ UNCHANGED <<rival, reg, pc, ret, call, recovered, nextCid, faults, revoked, histVars>>

GraceEnds ==
    /\ grace /\ grace' = FALSE /\ reclaimable' = {}
    /\ UNCHANGED <<srvCid, held, completed, rival, cliVars, ctlVars, envVars, histVars>>

LeaseExpires ==
    /\ srvCid # 0 /\ Event /\ ForgetClient
    /\ UNCHANGED <<grace, reclaimable, rival, reg, pc, ret, call, recovered, nextCid, faults,
                   revoked, histVars>>

SessionDropped ==
    /\ Event
    /\ \/ me.up /\ ~me.dead /\ me' = [me EXCEPT !.up = FALSE] /\ UNCHANGED <<lease, rec>>
       \/ lease.up /\ lease' = [lease EXCEPT !.up = FALSE] /\ UNCHANGED <<me, rec>>
       \/ rec.up /\ rec' = [rec EXCEPT !.up = FALSE] /\ UNCHANGED <<me, lease>>
    /\ UNCHANGED <<srvVars, reg, pc, ret, call, recovered, late, nextCid, faults, revoked, histVars>>

LockRevoked(t) ==
    /\ held[t] = "locked" /\ revoked < MaxRevoked /\ revoked' = revoked + 1
    /\ held' = [held EXCEPT ![t] = "revoked"]
    /\ UNCHANGED <<srvCid, grace, reclaimable, completed, rival, cliVars, ctlVars,
                   late, nextCid, faults, events, histVars>>

RivalLocks(t) ==
    /\ ~grace /\ t \notin rival /\ held[t] # "locked"
    /\ rival' = rival \cup {t}
    /\ contended' = IF reg[t].in THEN contended \cup {t} ELSE contended
    /\ UNCHANGED <<srvCid, held, grace, reclaimable, completed, cliVars, ctlVars,
                   envVars, execs, outcome, lostReply, flagged, givenUp, readOk>>

RivalUnlocks(t) ==
    /\ t \in rival /\ rival' = rival \ {t}
    /\ UNCHANGED <<srvCid, held, grace, reclaimable, completed, cliVars, ctlVars,
                   envVars, histVars>>

-----------------------------------------------------------------------------
(* Public operations.  The program calls them one at a time (&mut self).   *)

Begin(kind, id, step) ==
    /\ pc = "idle" /\ pc' = "entry"
    /\ call' = [NoCall EXCEPT !.kind = kind, !.id = id, !.step = step]
    /\ UNCHANGED <<srvVars, me, lease, ret, recovered, rec, envVars, execs, outcome, lostReply,
                   flagged, contended, readOk>>

Read == Begin("read", None, "read") /\ UNCHANGED <<reg, givenUp>>

Mutate(c) == outcome[c] = "none" /\ Begin("mutate", c, "mutate") /\ UNCHANGED <<reg, givenUp>>

\* lock_with_owner: OPEN, LOCK, register
Lock(t) == outcome[t] = "none" /\ Begin("lock", t, "open") /\ UNCHANGED <<reg, givenUp>>

\* Slip: the token stays registered until the server has confirmed.
Unlock_KeepsClaim(t) ==
    /\ t \in Tracked
    /\ Begin("unlock", t, "locku")
    /\ givenUp' = givenUp \cup {t} /\ UNCHANGED reg

\* unlock gives up its claim before its first RPC.
Unlock(t) ==
    /\ t \in Tracked
    /\ Begin("unlock", t, "locku")
    /\ reg' = [reg EXCEPT ![t].in = FALSE]
    /\ givenUp' = givenUp \cup {t}

\* Slip: unlock reports the loss and leaves the token registered.
UnlockLost_KeepsToken(t) ==
    /\ pc = "idle" /\ reg[t].in /\ reg[t].lost
    /\ givenUp' = givenUp \cup {t}
    /\ UNCHANGED <<srvVars, cliVars, ctlVars, envVars, execs, outcome, lostReply, flagged,
                   contended, readOk>>

\* unlock of a lost lock: CLOSE when the open state is this client's, result ignored
UnlockLost(t) ==
    /\ pc = "idle" /\ reg[t].in /\ reg[t].lost
    /\ reg' = [reg EXCEPT ![t].in = FALSE]
    /\ givenUp' = givenUp \cup {t}
    /\ \/ /\ reg[t].cid = me.cid /\ ~me.dead /\ me.up /\ held[t] = "open"
          /\ held' = [held EXCEPT ![t] = "none"]
          /\ UNCHANGED <<me, faults>>
       \/ /\ reg[t].cid = me.cid => me.dead \/ ~me.up \/ held[t] # "open"
          /\ UNCHANGED <<held, me, faults>>
       \/ /\ reg[t].cid = me.cid /\ ~me.dead /\ Fault
          /\ me' = [me EXCEPT !.dead = TRUE]
          /\ UNCHANGED held
    /\ UNCHANGED <<srvCid, grace, reclaimable, completed, rival, lease, ctlVars,
                   late, nextCid, events, revoked, execs, outcome, lostReply, flagged, contended,
                   readOk>>

Reconnect ==
    /\ pc = "idle"
    /\ call' = [NoCall EXCEPT !.kind = "reconnect"]
    /\ me' = [me EXCEPT !.pending = TRUE]
    /\ rec' = [NoRec EXCEPT !.cont = "user"]
    /\ pc' = IF lease.on THEN "stoplease" ELSE "exchange"
    /\ UNCHANGED <<srvVars, lease, reg, ret, recovered, envVars, histVars>>

-----------------------------------------------------------------------------
(* compound_status                                                         *)

\* Slip: recovery is due for this call only.
Entry_NotPending ==
    /\ pc = "entry"
    /\ IF me.pending \/ (lease.on /\ lease.failed)
       THEN BeginRecovery("entry", Ok) /\ UNCHANGED me
       ELSE /\ IF ~Release(call.step) /\ ~Valid THEN Return(LockLost)
               ELSE pc' = "send" /\ UNCHANGED ret
            /\ UNCHANGED <<me, call, recovered, rec>>
    /\ UNCHANGED <<srvVars, lease, reg, envVars, histVars>>

\* Slip: a lost lock does not block later operations.
Entry_NoValidCheck ==
    /\ pc = "entry"
    /\ IF me.pending \/ (lease.on /\ lease.failed)
       THEN me' = [me EXCEPT !.pending = TRUE] /\ BeginRecovery("entry", Ok)
       ELSE pc' = "send" /\ UNCHANGED <<ret, me, call, recovered, rec>>
    /\ UNCHANGED <<srvVars, lease, reg, envVars, histVars>>

Entry ==
    /\ pc = "entry"
    /\ IF me.pending \/ (lease.on /\ lease.failed)
       THEN me' = [me EXCEPT !.pending = TRUE] /\ BeginRecovery("entry", Ok)
       ELSE /\ IF ~Release(call.step) /\ ~Valid THEN Return(LockLost)
               ELSE pc' = "send" /\ UNCHANGED ret
            /\ UNCHANGED <<me, call, recovered, rec>>
    /\ UNCHANGED <<srvVars, lease, reg, envVars, histVars>>

\* A transport failure: recover once per compound_status, then give up.
Transport(err, dead) ==
    IF recovered
    THEN me' = [me EXCEPT !.dead = dead] /\ Return(err) /\ UNCHANGED <<call, recovered, rec>>
    ELSE me' = [me EXCEPT !.dead = dead, !.pending = TRUE] /\ BeginRecovery("transport", err)

SendInvalid ==
    /\ pc = "send" /\ me.dead
    /\ Transport(Interrupted, TRUE)
    /\ UNCHANGED <<srvVars, lease, reg, envVars, histVars>>

SendBadSession ==
    /\ pc = "send" /\ ~me.dead /\ ~me.up
    /\ IF recovered
       THEN Return(BadSession) /\ UNCHANGED <<me, call, recovered, rec>>
       ELSE me' = [me EXCEPT !.pending = TRUE] /\ BeginRecovery("session", BadSession)
    /\ UNCHANGED <<srvVars, lease, reg, envVars, histVars>>

\* A reply to the COMPOUND: check_revoked_locks first when SEQUENCE says so.
Reply(r) ==
    /\ ret' = r
    /\ IF RevokedFlag
       THEN /\ pc' = "revoked"
            /\ rec' = [NoRec EXCEPT !.todo = Tracked]
            /\ flagged' = flagged \cup ({call.id} \cap Calls)
       ELSE pc' = "return" /\ UNCHANGED <<rec, flagged>>

SendExecuted ==
    /\ pc = "send" /\ ~me.dead /\ me.up
    /\ Execute(call.step, call.id)
    /\ Reply(Ok)
    /\ UNCHANGED <<srvCid, grace, reclaimable, completed, rival, cliVars, call,
                   recovered, envVars, outcome, lostReply, contended, givenUp, readOk>>

SendRefused ==
    /\ pc = "send" /\ ~me.dead /\ me.up
    /\ call.step # "read"
    /\ Reply(Refused)
    /\ UNCHANGED <<srvVars, cliVars, call, recovered, envVars, execs, outcome, lostReply,
                   contended, givenUp, readOk>>

\* OPEN or CLOSE itself returns a status of requires_session_recovery.
SendOpExpired ==
    /\ pc = "send" /\ ~me.dead /\ me.up
    /\ call.step \in {"open", "close"} /\ ~RevokedFlag /\ Fault
    /\ IF call.outer
       THEN Return(StaleClient) /\ UNCHANGED <<me, call, recovered, rec>>
       ELSE me' = [me EXCEPT !.pending = TRUE] /\ BeginRecovery(call.step, StaleClient)
    /\ UNCHANGED <<srvVars, lease, reg, late, nextCid, events, revoked, histVars>>

NoteLostReply ==
    lostReply' = IF call.step \in {"mutate", "open", "lock"} THEN lostReply \cup ({call.id} \cap Calls)
                 ELSE lostReply

\* The stream breaks or times out, or the reply cannot be decoded as an RPC
\* reply: the latter is no transport failure, so it is returned as it is.
SendReplyLost ==
    /\ pc = "send" /\ ~me.dead /\ Fault
    /\ RequestFate(me.up, call.step, call.id)
    /\ NoteLostReply
    /\ \/ Transport(ReplyLost, TRUE)
       \/ /\ me' = [me EXCEPT !.dead = TRUE] /\ Return(ReplyLost)
          /\ UNCHANGED <<call, recovered, rec>>
    /\ UNCHANGED <<srvCid, grace, reclaimable, completed, rival, lease, reg, nextCid,
                   events, revoked, outcome, flagged, contended, givenUp, readOk>>

\* check_revoked_locks for one lock: TEST_STATEID, and FREE_STATEID when lost
CheckRevoked(t) ==
    /\ pc = "revoked" /\ t \in rec.todo
    /\ \/ /\ me.dead /\ Return(Interrupted)
          /\ UNCHANGED <<held, me, reg, rec, faults>>
       \/ /\ ~me.dead /\ ~me.up /\ Return(BadSession)
          /\ UNCHANGED <<held, me, reg, rec, faults>>
       \/ /\ ~me.dead /\ Fault /\ Return(ReplyLost)
          /\ me' = [me EXCEPT !.dead = TRUE]
          /\ UNCHANGED <<held, reg, rec>>
       \/ /\ ~me.dead /\ me.up /\ held[t] = "locked"
          /\ rec' = [rec EXCEPT !.todo = @ \ {t}]
          /\ UNCHANGED <<held, me, reg, faults, pc, ret>>
       \/ /\ ~me.dead /\ me.up /\ held[t] # "locked"
          /\ rec' = [rec EXCEPT !.todo = @ \ {t}]
          /\ MarkLost(t)
          /\ \/ /\ held' = [held EXCEPT ![t] = IF @ = "revoked" THEN "open" ELSE @]
                /\ UNCHANGED <<me, faults>>
             \/ /\ Fault /\ me' = [me EXCEPT !.dead = TRUE]
                /\ \/ UNCHANGED held
                   \/ held' = [held EXCEPT ![t] = IF @ = "revoked" THEN "open" ELSE @]
          /\ UNCHANGED <<pc, ret>>
    /\ UNCHANGED <<srvCid, grace, reclaimable, completed, rival, lease, call,
                   recovered, late, nextCid, events, revoked, histVars>>

RevokedChecked ==
    /\ pc = "revoked" /\ rec.todo = {}
    /\ Return(IF ~Release(call.step) /\ ~Valid THEN LockLost ELSE ret)
    /\ UNCHANGED <<srvVars, cliVars, call, recovered, rec, envVars, histVars>>

-----------------------------------------------------------------------------
(* recover_session                                                         *)

RecoveryFails(e) == pc' = "recovered" /\ ret' = e /\ UNCHANGED rec

\* An RPC of recovery_compound gets no reply, or a status that is not about
\* lost state.
RecoveryRpcFails == Fault /\ \E e \in {ReplyLost, Refused} : RecoveryFails(e)

\* stop_lease_renewal: the keeper is joined, its session destroyed from the
\* foreground stream; the result is ignored.
StopLease ==
    /\ pc = "stoplease" /\ pc' = "exchange"
    /\ lease' = NoLease
    /\ \/ UNCHANGED <<me, faults>>
       \/ ~me.dead /\ Fault /\ me' = [me EXCEPT !.dead = TRUE]
    /\ UNCHANGED <<srvVars, reg, ret, call, recovered, rec, late, nextCid, events, revoked, histVars>>

\* EXCHANGE_ID with the client's owner and verifier: the client id the server
\* still knows, or a new one.
ExchangeId(cid) ==
    /\ cid = IF srvCid = 0 THEN nextCid ELSE srvCid
    /\ srvCid' = cid
    /\ nextCid' = IF srvCid = 0 THEN nextCid + 1 ELSE nextCid

\* Slip: a failed attempt counts twice.
ConnectFails_CountsTwice ==
    /\ Fault
    /\ \/ /\ rec.retry < MaxRetries
          /\ pc' = "exchange" /\ rec' = [rec EXCEPT !.retry = @ + 2, !.cid = 0] /\ UNCHANGED ret
       \/ \E u \in BOOLEAN : RecoveryFails(Err(u, FALSE, FALSE))

\* connect_session failed.  A failure of the transport is retried from the
\* start while RetryPolicy allows; any other is returned.
ConnectFails ==
    /\ Fault
    /\ \/ /\ rec.retry < MaxRetries
          /\ pc' = "exchange" /\ rec' = [rec EXCEPT !.retry = @ + 1, !.cid = 0] /\ UNCHANGED ret
       \/ \E u \in BOOLEAN : RecoveryFails(Err(u, FALSE, FALSE))

ConnectExchange ==
    /\ pc = "exchange"
    /\ \/ /\ \E cid \in {srvCid, nextCid} : ExchangeId(cid) /\ rec' = [rec EXCEPT !.cid = cid]
          /\ pc' = "create" /\ UNCHANGED <<ret, faults>>
       \/ /\ ConnectFails
          /\ (\E cid \in {srvCid, nextCid} : ExchangeId(cid)) \/ UNCHANGED <<srvCid, nextCid>>
    /\ UNCHANGED <<held, grace, reclaimable, completed, rival, cliVars, call, recovered,
                   late, events, revoked, histVars>>

ConnectCreate ==
    /\ pc = "create"
    /\ \/ /\ rec.cid = srvCid
          /\ rec' = [rec EXCEPT !.up = TRUE, !.todo = Tracked]
          /\ pc' = "relock" /\ UNCHANGED <<ret, faults>>
       \/ rec.cid # srvCid /\ RecoveryFails(StaleClient) /\ UNCHANGED faults
       \/ ConnectFails
    /\ UNCHANGED <<srvVars, cliVars, call, recovered, late, nextCid, events, revoked, histVars>>

\* Slip: the loop over the locks does not advance.
Relocked_Stuck(t) == UNCHANGED <<rec, pc, ret>>

Relocked(t) == rec' = [rec EXCEPT !.todo = @ \ {t}] /\ UNCHANGED <<pc, ret>>

\* check_recovered_lock: the same client id, so the old stateids are tested.
CheckRecovered(t) ==
    /\ pc = "relock" /\ t \in rec.todo /\ reg[t].cid = rec.cid
    /\ \/ ~rec.up /\ RecoveryFails(BadSession) /\ UNCHANGED <<reg, faults>>
       \/ RecoveryRpcFails /\ UNCHANGED reg
       \/ /\ rec.up /\ Relocked(t) /\ UNCHANGED faults
          /\ IF held[t] = "locked" THEN UNCHANGED reg ELSE MarkLost(t)
    /\ UNCHANGED <<srvVars, me, lease, call, recovered, late, nextCid, events, revoked, histVars>>

\* Slips: a lock that cannot be reclaimed is taken as a new one, or taken for
\* reclaimed although the server refused.
ReclaimLock_AsNew(t) ==
    /\ pc = "relock" /\ t \in rec.todo /\ reg[t].cid # rec.cid /\ rec.up
    /\ CanExecute("reclaim", t) \/ (~grace /\ t \notin rival)
    /\ held' = HeldAfter("reclaim", t)
    /\ reg' = [reg EXCEPT ![t].cid = rec.cid]
    /\ Relocked(t)
    /\ UNCHANGED <<srvCid, grace, reclaimable, completed, rival, me, lease, call, recovered,
                   envVars, histVars>>

ReclaimLock_IgnoresRefusal(t) ==
    /\ pc = "relock" /\ t \in rec.todo /\ reg[t].cid # rec.cid /\ rec.up
    /\ held' = IF CanExecute("reclaim", t) THEN HeldAfter("reclaim", t) ELSE held
    /\ reg' = [reg EXCEPT ![t].cid = rec.cid]
    /\ Relocked(t)
    /\ UNCHANGED <<srvCid, grace, reclaimable, completed, rival, me, lease, call, recovered,
                   envVars, histVars>>

\* reclaim_lock: OPEN with CLAIM_PREVIOUS, LOCK with reclaim; CLOSE, result
\* ignored, when the LOCK is refused.
ReclaimLock(t) ==
    /\ pc = "relock" /\ t \in rec.todo /\ reg[t].cid # rec.cid
    /\ \/ /\ ~rec.up /\ RecoveryFails(BadSession)
          /\ UNCHANGED <<held, reg, late, faults>>
       \/ /\ RecoveryRpcFails /\ UNCHANGED reg
          /\ \/ RequestFate(rec.up, "reclaim", t)
             \/ /\ rec.up /\ CanExecute("reclaim", t)
                /\ held' = [held EXCEPT ![t] = "open"] /\ UNCHANGED late
       \/ /\ rec.up /\ CanExecute("reclaim", t)
          /\ held' = HeldAfter("reclaim", t)
          /\ reg' = [reg EXCEPT ![t].cid = rec.cid]
          /\ Relocked(t) /\ UNCHANGED <<late, faults>>
       \/ /\ rec.up
          /\ Relocked(t) /\ MarkLost(t) /\ UNCHANGED <<held, late, faults>>
    /\ UNCHANGED <<srvCid, grace, reclaimable, completed, rival, me, lease, call,
                   recovered, nextCid, events, revoked, histVars>>

\* Slip: RECLAIM_COMPLETE does not wait for the locks.
AllRelocked_Early ==
    /\ pc = "relock" /\ pc' = "complete"
    /\ UNCHANGED <<srvVars, cliVars, ret, call, recovered, rec, envVars, histVars>>

AllRelocked ==
    /\ pc = "relock" /\ rec.todo = {} /\ pc' = "complete"
    /\ UNCHANGED <<srvVars, cliVars, ret, call, recovered, rec, envVars, histVars>>

\* RECLAIM_COMPLETE; COMPLETE_ALREADY counts as success.
ReclaimComplete ==
    /\ pc = "complete"
    /\ \/ /\ rec.up /\ completed' = TRUE
          /\ pc' = "fsinfo" /\ UNCHANGED <<ret, rec, faults>>
       \/ /\ ~rec.up /\ RecoveryFails(BadSession)
          /\ UNCHANGED <<completed, faults>>
       \/ /\ RecoveryRpcFails
          /\ \/ UNCHANGED completed
             \/ rec.up /\ completed' = TRUE
    /\ UNCHANGED <<srvCid, held, grace, reclaimable, rival, cliVars, call, recovered,
                   late, nextCid, events, revoked, histVars>>

RefreshFsinfo ==
    /\ pc = "fsinfo"
    /\ \/ /\ rec.up
          /\ pc' = IF AutoRenew THEN "keeper" ELSE "swap"
          /\ UNCHANGED <<ret, rec, faults>>
       \/ ~rec.up /\ RecoveryFails(BadSession) /\ UNCHANGED faults
       \/ RecoveryRpcFails
    /\ UNCHANGED <<srvVars, cliVars, call, recovered, late, nextCid, events, revoked, histVars>>

\* start_lease_renewal: a second session, which must be of the same client id.
StartKeeper ==
    /\ pc = "keeper"
    /\ \/ /\ \E cid \in {srvCid, nextCid} :
                /\ ExchangeId(cid)
                /\ IF cid = rec.cid
                   THEN /\ lease' = [on |-> TRUE, up |-> TRUE, failed |-> FALSE]
                        /\ pc' = "swap" /\ UNCHANGED <<ret, rec>>
                   ELSE RecoveryFails(StaleClient) /\ UNCHANGED lease
          /\ UNCHANGED faults
       \/ /\ Fault /\ UNCHANGED <<lease, srvCid, nextCid>>
          /\ \E u \in BOOLEAN : RecoveryFails(Err(u, FALSE, FALSE))
    /\ UNCHANGED <<held, grace, reclaimable, completed, rival, me, reg, call, recovered, late,
                   events, revoked, histVars>>

\* Slip: recovery succeeds whatever became of the locks.
Swap_NoValidCheck ==
    /\ pc = "swap" /\ pc' = "recovered" /\ ret' = Ok
    /\ me' = [cid |-> rec.cid, up |-> rec.up, dead |-> FALSE, pending |-> FALSE]
    /\ rec' = [rec EXCEPT !.cid = 0, !.up = FALSE]
    /\ UNCHANGED <<srvVars, lease, reg, call, recovered, envVars, histVars>>

\* mem::replace, shutdown of the old session, ensure_valid
Swap ==
    /\ pc = "swap" /\ pc' = "recovered"
    /\ me' = [cid |-> rec.cid, up |-> rec.up, dead |-> FALSE, pending |-> FALSE]
    /\ ret' = IF Valid THEN Ok ELSE LockLost
    /\ rec' = [rec EXCEPT !.cid = 0, !.up = FALSE]
    /\ UNCHANGED <<srvVars, lease, reg, call, recovered, envVars, histVars>>

\* Where recover_session returns to.
Recovered ==
    /\ pc = "recovered"
    /\ IF rec.cont = "user"
       THEN Finish(ret)
       ELSE /\ rec' = NoRec
            /\ recovered' = (ret.ok /\ rec.cont \in {"transport", "session"})
            /\ call' = IF rec.cont \in {"open", "close"} THEN [call EXCEPT !.outer = TRUE] ELSE call
            /\ CASE ret.ok /\ rec.cont \in {"entry", "transport", "session"} /\ Replayable(call.step)
                        -> pc' = "send" /\ UNCHANGED ret
                 [] ret.ok /\ rec.cont = "open"
                        -> pc' = "entry" /\ UNCHANGED ret
                 [] ret.ok /\ rec.cont = "entry" /\ ~Replayable(call.step)
                        -> Return(BadSession)
                 [] ret.ok /\ rec.cont \in {"transport", "session"} /\ ~Replayable(call.step)
                        -> Return(rec.orig)
                 [] ret.ok /\ rec.cont = "close" -> Return(rec.orig)
                 [] ~ret.ok /\ rec.cont = "transport" -> Return(Cleanup(rec.orig, ret))
                 [] OTHER -> Return(ret)
            /\ UNCHANGED <<outcome, readOk>>
    /\ UNCHANGED <<srvVars, cliVars, envVars, execs, lostReply, flagged, contended, givenUp>>

-----------------------------------------------------------------------------
(* What the operations do with the Result of a compound_status.            *)

NextStep(step, saved) ==
    /\ pc' = "entry" /\ recovered' = FALSE /\ rec' = NoRec
    /\ call' = [call EXCEPT !.step = step, !.outer = FALSE, !.saved = saved]
    /\ ret' = Ok /\ UNCHANGED <<outcome, readOk>>

\* open_with_owner_failure_cleanup and close_with_current_filehandle try once
\* more after a session error.
TryAgain ==
    /\ call.step \in {"open", "close"} /\ ret.session /\ ~call.outer
    /\ pc' = "entry" /\ recovered' = FALSE /\ rec' = NoRec
    /\ call' = [call EXCEPT !.outer = TRUE]
    /\ ret' = Ok /\ UNCHANGED <<outcome, readOk>>

GiveUp == ~(call.step \in {"open", "close"} /\ ret.session /\ ~call.outer)

OperationReturns ==
    /\ pc = "return"
    /\ \/ TryAgain
       \/ call.step \in {"read", "mutate"} /\ Finish(ret)
       \/ call.step = "open" /\ ret.ok /\ NextStep("lock", Ok)
       \/ call.step = "open" /\ ~ret.ok /\ GiveUp /\ Finish(ret)
       \/ call.step = "lock" /\ ~ret.ok /\ NextStep("close", ret)
       \/ call.step = "locku" /\ ret.ok /\ NextStep("free", Ok)
       \/ call.step = "free" /\ ret.ok /\ NextStep("rlo", Ok)
       \/ call.step \in {"locku", "free"} /\ ~ret.ok /\ NextStep("close", ret)
       \/ call.step = "rlo" /\ NextStep("close", ret)
       \/ call.step = "close" /\ GiveUp
          /\ Finish(IF call.saved.ok THEN ret ELSE Cleanup(call.saved, ret))
    /\ UNCHANGED <<srvVars, cliVars, envVars, execs, lostReply, flagged, contended, givenUp>>

\* LockRegistry::register
LockGranted ==
    /\ pc = "return" /\ call.step = "lock" /\ ret.ok
    /\ reg' = [reg EXCEPT ![call.id] = [in |-> TRUE, cid |-> me.cid, lost |-> FALSE]]
    /\ Finish(Ok)
    /\ UNCHANGED <<srvVars, me, lease, envVars, execs, lostReply, flagged, contended, givenUp>>

-----------------------------------------------------------------------------
(* The lease keeper, and cancellation.                                     *)

\* An empty recovery_compound on the keeper's session.
HeartbeatFails ==
    /\ lease.on /\ ~lease.failed
    /\ lease' = [lease EXCEPT !.failed = TRUE]
    /\ UNCHANGED <<srvVars, me, reg, ctlVars, late, nextCid, events, revoked, histVars>>

HeartbeatRefused == (~lease.up \/ RevokedFlag) /\ HeartbeatFails /\ UNCHANGED faults
HeartbeatLost == Fault /\ HeartbeatFails

\* The tokio future is dropped while it waits for a reply on the stream.
CancelSend ==
    /\ Cancellable /\ pc = "send" /\ ~me.dead /\ Fault
    /\ RequestFate(me.up, call.step, call.id)
    /\ NoteLostReply
    /\ me' = [me EXCEPT !.dead = TRUE]
    /\ Finish(ReplyLost)
    /\ UNCHANGED <<srvCid, grace, reclaimable, completed, rival, lease, reg, nextCid,
                   events, revoked, flagged, contended, givenUp>>

\* ... or inside check_revoked_locks or recover_session: the rebuilt client
\* is dropped with it, and recovery_pending stays set.
CancelRecovery ==
    /\ Cancellable /\ Fault
    /\ \/ pc \in {"revoked", "stoplease", "exchange", "create", "relock", "complete", "fsinfo",
                 "keeper"}
       \/ pc = "recovered" /\ ~me.pending
    /\ me' = [me EXCEPT !.dead = @ \/ pc \in {"revoked", "stoplease"}]
    /\ lease' = IF pc = "stoplease" THEN NoLease ELSE lease
    /\ Finish(ReplyLost)
    /\ UNCHANGED <<srvVars, reg, late, nextCid, events, revoked, execs, lostReply, flagged,
                   contended, givenUp>>

-----------------------------------------------------------------------------
ServerNext ==
    \/ \E r \in late : LateExecution(r)
    \/ ServerRestart \/ GraceEnds \/ LeaseExpires \/ SessionDropped
    \/ \E t \in Tokens : LockRevoked(t) \/ RivalLocks(t) \/ RivalUnlocks(t)

ProgramNext ==
    \/ Read \/ Reconnect
    \/ \E c \in Mutations : Mutate(c)
    \/ \E t \in Tokens : Lock(t) \/ Unlock(t) \/ UnlockLost(t)

ClientNext ==
    \/ Entry \/ SendInvalid \/ SendBadSession \/ SendExecuted \/ SendRefused \/ SendOpExpired
    \/ SendReplyLost \/ RevokedChecked
    \/ StopLease \/ ConnectExchange \/ ConnectCreate \/ AllRelocked \/ ReclaimComplete
    \/ RefreshFsinfo \/ StartKeeper \/ Swap \/ Recovered \/ OperationReturns \/ LockGranted
    \/ \E t \in Tokens : CheckRevoked(t) \/ CheckRecovered(t) \/ ReclaimLock(t)

Next ==
    \/ ServerNext \/ ProgramNext \/ ClientNext
    \/ HeartbeatRefused \/ HeartbeatLost \/ CancelSend \/ CancelRecovery

Spec == Init /\ [][Next]_vars

\* The client's own steps are taken; the keeper beats; the program keeps
\* reading and hands back lost locks; the grace period ends.
FairSpec ==
    /\ Spec
    /\ WF_vars(ClientNext)
    /\ WF_vars(HeartbeatRefused)
    /\ SF_vars(Read)
    /\ \A t \in Tokens : SF_vars(UnlockLost(t))
    /\ WF_vars(GraceEnds)

-----------------------------------------------------------------------------
(* Properties                                                              *)

\* Mutating COMPOUNDs keep the at-most-once contract through recoveries,
\* restarts and cancellation: executed at most once, Ok only when executed, a
\* definite error only when never executed.  A call whose reply reported
\* revoked state counts as unknown: see DefiniteErrorNotExecuted.
ReportOf(c) ==
    CASE outcome[c] \in {"none", "ok", "unknown"} -> outcome[c]
      [] OTHER -> IF c \in flagged THEN "unknown" ELSE "error"

Contract == INSTANCE AtMostOnce WITH
    Calls <- Mutations,
    begun <- {c \in Mutations : outcome[c] # "none" \/ call.id = c},
    execs <- [c \in Mutations |-> execs[c]],
    reported <- [c \in Mutations |-> ReportOf(c)]

ContractSpec == Contract!Spec

\* The retry loop around OPEN in open_with_owner_failure_cleanup never opens
\* twice: it sends again only what was certainly not executed.
OpenAtMostOnce == \A t \in Tokens : execs[t] <= 1

\* A token the client vouches for, and that the server holds, was never in
\* another client's hands since it was granted: recovery reclaims, it never
\* acquires anew (reconnect's doc comment).
LockContinuity ==
    \A t \in Tracked : held[t] = "locked" /\ reg[t].cid = srvCid => t \notin contended

\* RECLAIM_COMPLETE is not sent before every tracked lock has been carried to
\* the new client id or marked lost: the server would refuse later reclaims.
ReclaimBeforeComplete == completed => \A t \in Tracked : reg[t].cid = srvCid

\* Once unlock() was called no recovery takes the lock again, even when the
\* LOCKU itself triggered it; only a reclaim already in flight can.
NeverReclaimedAfterUnlock ==
    [][\A t \in givenUp :
          held'[t] = "locked" => held[t] = "locked" \/ [step |-> "reclaim", id |-> t] \in late]_vars

\* No mutation is executed while a lock the program relies on is gone from
\* the server: after a restart or an expiry the program hears of it first.
\* Revocation is reported only in a reply, and requests already abandoned with
\* an unknown outcome are out of the client's hands.
Fencing ==
    [][\A c \in Mutations : execs'[c] > execs[c] =>
          \A t \in Tokens : reg[t].in =>
             \/ held[t] \in {"locked", "revoked"}
             \/ reg[t].lost /\ outcome[c] = "unknown"]_vars

\* While a lost token has not been handed back, only requests that release
\* state are sent.
NothingSentWhileLost == pc = "send" /\ ~Release(call.step) => Valid

\* With automatic renewal no request is sent without a keeper: a recovery that
\* stopped the keeper and failed blocks the session until one completes.
RenewedWhileUsed == AutoRenew /\ pc = "send" => lease.on

\* A lock() that returns a definite error leaves no lock behind.
NoOrphanLock ==
    \A t \in Tokens : outcome[t] \in {"error", "lost"} /\ t \notin flagged => held[t] # "locked"

\* Every operation returns: recovery and its retries are bounded.
CallReturns == pc # "idle" ~> pc = "idle"

\* Once failures cease, a program that keeps reading and hands back the locks
\* it lost reads again, without calling reconnect().
UsableAgain == ~readOk ~> readOk

\* error.rs, is_outcome_unknown: an error for which it is false means that the
\* request did not execute.
DefiniteErrorNotExecuted ==
    \A c \in Mutations : outcome[c] \in {"error", "lost"} => execs[c] = 0

\* README.md: a mutating request whose reply was lost returns an error with
\* is_outcome_unknown() true.
LostReplyIsUnknown == \A c \in lostReply : outcome[c] \in {"none", "unknown"}

\* check_revoked_locks: revoked state is acknowledged so that SEQUENCE need
\* not keep reporting it.
RevokedAcknowledged == \A t \in Tokens : held[t] = "revoked" ~> held[t] # "revoked"
=============================================================================
