--------------------------- MODULE RecoveryProofs ---------------------------
(***************************************************************************)
(* Proofs about Recovery for every set of mutations and locks, every       *)
(* number of faults, events and revocations, with and without the keeper.  *)
(***************************************************************************)
EXTENDS Recovery, TLAPS

\* The control points inside recover_session, before the client is replaced.
Recovering == {"stoplease", "exchange", "create", "relock", "complete", "fsinfo", "keeper", "swap"}

\* recovery_pending covers every moment at which the old session must not be
\* used, and what is sent afterwards was checked.
Control ==
    /\ pc \in Recovering => me.pending
    /\ pc \in {"send", "revoked"} => ~me.pending
    /\ pc \in {"return", "recovered"} /\ ret.ok => ~me.pending
    /\ pc = "recovered" /\ ret.ok => Valid
    /\ rec.cont \in {"transport", "session", "close"} => ~rec.orig.ok
    /\ NothingSentWhileLost
    /\ AutoRenew /\ (~me.pending \/ pc = "swap") => lease.on

\* The client id under which the locks are held, as recovery carries them over.
Claims ==
    /\ nextCid # 0
    /\ srvCid = 0 => ~completed
    /\ rec.up => rec.cid = srvCid /\ srvCid # 0
    /\ pc \in {"stoplease", "exchange", "create"} => ~rec.up
    /\ pc = "create" => rec.cid # 0
    /\ ~me.pending /\ completed => me.cid = srvCid
    /\ pc \in {"fsinfo", "keeper", "swap"} /\ completed => rec.cid = srvCid
    /\ pc = "relock" => \A t \in Tracked \ rec.todo : reg[t].cid = rec.cid
    /\ pc = "complete" => \A t \in Tracked : reg[t].cid = rec.cid
    /\ ReclaimBeforeComplete

Inv == TypeOK /\ Control /\ Claims

\* Every Result the client builds is one.
LEMMA Values ==
    /\ \A u, s, l \in BOOLEAN : Err(u, s, l) \in Result
    /\ Ok \in Result /\ Refused \in Result /\ Interrupted \in Result /\ ReplyLost \in Result
    /\ BadSession \in Result /\ StaleClient \in Result /\ LockLost \in Result
    /\ \A p, c \in Result : Cleanup(p, c) \in Result
<1> USE DEF Err, Ok, Refused, Interrupted, ReplyLost, BadSession, StaleClient, LockLost, Result
<1>1. /\ \A u, s, l \in BOOLEAN : Err(u, s, l) \in Result
      /\ Ok \in Result /\ Refused \in Result /\ Interrupted \in Result /\ ReplyLost \in Result
      /\ BadSession \in Result /\ StaleClient \in Result /\ LockLost \in Result
  OBVIOUS
<1>2. ASSUME NEW p \in Result, NEW c \in Result  PROVE Cleanup(p, c) \in Result
  <2>1. (p.session \/ c.session) \in BOOLEAN /\ (p.lost \/ c.lost) \in BOOLEAN /\ p.unknown \in BOOLEAN
    BY <1>2, Zenon
  <2> QED  BY <1>2, <2>1 DEF Cleanup
<1> QED  BY <1>1, <1>2

\* The locals of an operation, a recovery and a lease at rest.
LEMMA Blanks == NoCall \in Operations /\ NoRec \in Recoveries /\ NoLease \in Leases
BY Values, ConstantsAssumption
   DEF NoCall, NoRec, NoLease, Operations, Recoveries, Leases, Steps, Calls

\* The outcome the program sees.
LEMMA OutcomeType == ASSUME NEW r \in Result PROVE OutcomeOf(r) \in Outcomes
BY DEF OutcomeOf, Outcomes, Result

\* A lock in the registry is marked lost.
LEMMA MarkLostType ==
    ASSUME TypeOK, NEW t \in Tokens, MarkLost(t)
    PROVE  reg' \in [Tokens -> Entries]
<1>1. [reg[t] EXCEPT !.lost = TRUE] \in Entries  BY Zenon DEF TypeOK, Entries
<1> QED  BY <1>1 DEF MarkLost, TypeOK

\* Executing a request on the server
LEMMA ExecuteType ==
    ASSUME TypeOK, NEW step \in Steps, NEW id \in Calls \cup {None}, Execute(step, id)
    PROVE  held' \in [Tokens -> LockStates] /\ execs' \in [Calls -> Nat]
<1>1. held' \in [Tokens -> LockStates]
  BY Zenon DEF TypeOK, Execute, HeldAfter, LockStates
<1>2. execs' \in [Calls -> Nat]
  <2>1. CASE id \in Calls  BY <2>1 DEF TypeOK, Execute, ExecsAfter
  <2>2. CASE id \notin Calls
    <3>1. [execs EXCEPT ![id] = @ + 1] = execs  BY <2>2 DEF TypeOK
    <3> QED  BY <3>1, Zenon DEF TypeOK, Execute, ExecsAfter
  <2> QED  BY <2>1, <2>2
<1> QED  BY <1>1, <1>2

\* ... or leaving it to the network
LEMMA RequestFateType ==
    ASSUME TypeOK, NEW up, NEW step \in Steps, NEW id \in Calls \cup {None}, RequestFate(up, step, id)
    PROVE  held' \in [Tokens -> LockStates] /\ execs' \in [Calls -> Nat] /\ late' \subseteq Requests
<1>1. [step |-> step, id |-> id] \in Requests  BY DEF Requests
<1> QED  BY <1>1, ExecuteType DEF TypeOK, RequestFate

\* The operation returns.
LEMMA FinishType ==
    ASSUME TypeOK, NEW r \in Result, Finish(r)
    PROVE  /\ pc' \in ControlPoints /\ ret' \in Result /\ call' \in Operations
           /\ recovered' \in BOOLEAN /\ rec' \in Recoveries
           /\ outcome' \in [Calls -> Outcomes] /\ readOk' \in BOOLEAN
<1>1. outcome' \in [Calls -> Outcomes]
  BY OutcomeType, Zenon DEF TypeOK, Finish
<1>2. readOk' \in BOOLEAN  BY DEF TypeOK, Finish, Result
<1> QED  BY <1>1, <1>2, Values, Blanks, Zenon DEF Finish, ControlPoints

\* A recovery begins.
LEMMA BeginRecoveryType ==
    ASSUME TypeOK, NEW orig \in Result, 
           NEW cont \in {"none", "entry", "transport", "session", "open", "close", "user"},
           BeginRecovery(cont, orig)
    PROVE  /\ pc' \in ControlPoints /\ ret' \in Result /\ call' \in Operations
           /\ recovered' \in BOOLEAN /\ rec' \in Recoveries
<1>1. rec' \in Recoveries  BY Blanks, Zenon DEF BeginRecovery, Recoveries
<1>2. pc' \in ControlPoints  BY DEF BeginRecovery, ControlPoints
<1> QED  BY <1>1, <1>2 DEF TypeOK, BeginRecovery

-----------------------------------------------------------------------------
(* Type correctness                                                        *)

\* The server's own steps
LEMMA ServerType ==
    ASSUME TypeOK, ServerNext
    PROVE  TypeOK'
<1> USE DEF srvVars, cliVars, ctlVars, envVars, histVars
<1>1. ASSUME NEW r \in late, LateExecution(r)  PROVE TypeOK'
  <2>1. r.step \in Steps /\ r.id \in Calls \cup {None}  BY DEF TypeOK, Requests
  <2>2. held' \in [Tokens -> LockStates] /\ execs' \in [Calls -> Nat]
    BY <1>1, <2>1, ExecuteType DEF LateExecution
  <2>3. late' \subseteq Requests  BY <1>1 DEF LateExecution, TypeOK
  <2> QED  BY <1>1, <2>2, <2>3 DEF LateExecution, TypeOK
<1>2. ASSUME ForgetClient
      PROVE  /\ srvCid' \in Nat /\ completed' \in BOOLEAN /\ held' \in [Tokens -> LockStates]
             /\ me' \in Sessions /\ lease' \in Leases /\ rec' \in Recoveries /\ late' \subseteq Requests
  <2>1. srvCid' \in Nat /\ completed' \in BOOLEAN /\ late' \subseteq Requests
    BY <1>2, Zenon DEF ForgetClient
  <2>2. held' \in [Tokens -> LockStates]  BY <1>2 DEF ForgetClient, LockStates
  <2>3. me' \in Sessions  BY <1>2, Zenon DEF ForgetClient, TypeOK, Sessions
  <2>4. lease' \in Leases  BY <1>2, Zenon DEF ForgetClient, TypeOK, Leases
  <2>5. rec' \in Recoveries  BY <1>2, Zenon DEF ForgetClient, TypeOK, Recoveries
  <2> QED  BY <2>1, <2>2, <2>3, <2>4, <2>5
<1>3. ASSUME Event PROVE events' \in 0..MaxEvents
  BY <1>3, ConstantsAssumption DEF Event, TypeOK
<1>4. CASE ServerRestart
  <2>1. reclaimable' \subseteq Tokens  BY <1>4 DEF ServerRestart, TypeOK
  <2> QED  BY <1>2, <1>3, <1>4, <2>1 DEF ServerRestart, TypeOK
<1>5. CASE GraceEnds  BY <1>5, Zenon DEF GraceEnds, TypeOK
<1>6. CASE LeaseExpires  BY <1>2, <1>3, <1>6 DEF LeaseExpires, TypeOK
<1>7. CASE SessionDropped
  <2>1. me' \in Sessions  BY <1>7, Zenon DEF SessionDropped, TypeOK, Sessions
  <2>2. lease' \in Leases  BY <1>7, Zenon DEF SessionDropped, TypeOK, Leases
  <2>3. rec' \in Recoveries  BY <1>7, Zenon DEF SessionDropped, TypeOK, Recoveries
  <2> QED  BY <1>3, <1>7, <2>1, <2>2, <2>3 DEF SessionDropped, TypeOK
<1>8. ASSUME NEW t \in Tokens, LockRevoked(t)  PROVE TypeOK'
  <2>1. held' \in [Tokens -> LockStates]  BY <1>8 DEF LockRevoked, TypeOK, LockStates
  <2>2. revoked' \in 0..MaxRevoked  BY <1>8, ConstantsAssumption DEF LockRevoked, TypeOK
  <2> QED  BY <1>8, <2>1, <2>2 DEF LockRevoked, TypeOK
<1>9. ASSUME NEW t \in Tokens, RivalLocks(t) \/ RivalUnlocks(t)  PROVE TypeOK'
  <2>1. rival' \subseteq Tokens /\ contended' \subseteq Tokens
    BY <1>9 DEF RivalLocks, RivalUnlocks, TypeOK
  <2> QED  BY <1>9, <2>1 DEF RivalLocks, RivalUnlocks, TypeOK
<1> QED  BY <1>1, <1>4, <1>5, <1>6, <1>7, <1>8, <1>9, Zenon DEF ServerNext

\* The program calls an operation.
LEMMA ProgramType ==
    ASSUME TypeOK, ProgramNext
    PROVE  TypeOK'
<1> USE DEF srvVars, cliVars, ctlVars, envVars, histVars
<1>1. ASSUME NEW kind \in {"read", "mutate", "lock", "unlock"}, NEW id \in Calls \cup {None},
             NEW step \in Steps, Begin(kind, id, step),
             reg' \in [Tokens -> Entries], givenUp' \subseteq Tokens
      PROVE  TypeOK'
  <2>1. call' \in Operations  BY <1>1, Blanks, Zenon DEF Begin, Operations
  <2>2. pc' \in ControlPoints  BY <1>1 DEF Begin, ControlPoints
  <2> QED  BY <1>1, <2>1, <2>2 DEF Begin, TypeOK
<1>2. /\ "read" \in Steps /\ "mutate" \in Steps /\ "open" \in Steps /\ "locku" \in Steps
  BY DEF Steps
<1>3. CASE Read  BY <1>1, <1>2, <1>3, Zenon DEF Read, TypeOK
<1>4. ASSUME NEW c \in Mutations, Mutate(c)  PROVE TypeOK'
  BY <1>1, <1>2, <1>4 DEF Mutate, TypeOK, Calls
<1>5. ASSUME NEW t \in Tokens, Lock(t)  PROVE TypeOK'
  BY <1>1, <1>2, <1>5 DEF Lock, TypeOK, Calls
<1>6. ASSUME NEW t \in Tokens, reg' = [reg EXCEPT ![t].in = FALSE], givenUp' = givenUp \cup {t}
      PROVE  reg' \in [Tokens -> Entries] /\ givenUp' \subseteq Tokens
  BY <1>6, Zenon DEF TypeOK, Entries
<1>7. ASSUME NEW t \in Tokens, Unlock(t)  PROVE TypeOK'
  BY <1>1, <1>2, <1>6, <1>7, Zenon DEF Unlock, Calls
<1>8. ASSUME NEW t \in Tokens, UnlockLost(t)  PROVE TypeOK'
  <2>1. reg' \in [Tokens -> Entries] /\ givenUp' \subseteq Tokens
    BY <1>6, <1>8, Zenon DEF UnlockLost
  <2>2. held' \in [Tokens -> LockStates]  BY <1>8 DEF UnlockLost, TypeOK, LockStates
  <2>3. me' \in Sessions  BY <1>8, Zenon DEF UnlockLost, TypeOK, Sessions
  <2>4. faults' \in 0..MaxFaults  BY <1>8, ConstantsAssumption DEF UnlockLost, TypeOK, Fault
  <2> QED  BY <1>8, <2>1, <2>2, <2>3, <2>4 DEF UnlockLost, TypeOK
<1>9. CASE Reconnect
  <2>1. call' \in Operations  BY <1>9, Blanks DEF Reconnect, Operations
  <2>2. rec' \in Recoveries  BY <1>9, Blanks DEF Reconnect, Recoveries
  <2>3. me' \in Sessions  BY <1>9, Zenon DEF Reconnect, TypeOK, Sessions
  <2>4. pc' \in ControlPoints  BY <1>9 DEF Reconnect, ControlPoints
  <2> QED  BY <1>9, <2>1, <2>2, <2>3, <2>4 DEF Reconnect, TypeOK
<1> QED  BY <1>3, <1>4, <1>5, <1>7, <1>8, <1>9 DEF ProgramNext

\* compound_status
LEMMA SendType ==
    ASSUME TypeOK,
           \/ Entry \/ SendInvalid \/ SendBadSession \/ SendExecuted \/ SendRefused
           \/ SendOpExpired \/ SendReplyLost \/ RevokedChecked
           \/ \E t \in Tokens : CheckRevoked(t)
    PROVE  TypeOK'
<1> USE DEF srvVars, cliVars, ctlVars, envVars, histVars
<1>1. call.step \in Steps /\ call.id \in Calls \cup {None}  BY DEF TypeOK, Operations
<1>2. ASSUME NEW r \in Result, Return(r)  PROVE pc' \in ControlPoints /\ ret' \in Result
  BY <1>2 DEF Return, ControlPoints
<1>3. ASSUME NEW b \in BOOLEAN
      PROVE  /\ [me EXCEPT !.pending = TRUE] \in Sessions /\ [me EXCEPT !.dead = b] \in Sessions
             /\ [me EXCEPT !.dead = b, !.pending = TRUE] \in Sessions
  BY <1>3, Zenon DEF TypeOK, Sessions
<1>4. ASSUME Fault PROVE faults' \in 0..MaxFaults
  BY <1>4, ConstantsAssumption DEF Fault, TypeOK
<1>5. ASSUME NEW err \in Result, NEW dead \in BOOLEAN, Transport(err, dead)
      PROVE  /\ me' \in Sessions /\ pc' \in ControlPoints /\ ret' \in Result
             /\ call' \in Operations /\ recovered' \in BOOLEAN /\ rec' \in Recoveries
  BY <1>2, <1>3, <1>5, BeginRecoveryType, Zenon DEF Transport, TypeOK
<1>6. ASSUME NEW r \in Result, Reply(r)
      PROVE  /\ pc' \in ControlPoints /\ ret' \in Result /\ rec' \in Recoveries
             /\ flagged' \subseteq Calls
  <2>1. Tracked \subseteq Tokens  BY DEF Tracked
  <2>2. rec' \in Recoveries  BY <1>6, <2>1, Blanks DEF Reply, Recoveries, TypeOK
  <2>3. pc' \in ControlPoints  BY <1>6, Zenon DEF Reply, ControlPoints
  <2> QED  BY <1>6, <2>2, <2>3 DEF Reply, TypeOK
<1>7. CASE Entry
  <2>1. /\ me' \in Sessions /\ pc' \in ControlPoints /\ ret' \in Result
        /\ call' \in Operations /\ recovered' \in BOOLEAN /\ rec' \in Recoveries
    <3>1. CASE me.pending \/ (lease.on /\ lease.failed)
      BY <1>3, <1>7, <3>1, Values, BeginRecoveryType, Zenon DEF Entry
    <3>2. CASE ~(me.pending \/ (lease.on /\ lease.failed))
      BY <1>2, <1>7, <3>2, Values DEF Entry, TypeOK, ControlPoints
    <3> QED  BY <3>1, <3>2
  <2> QED  BY <1>7, <2>1 DEF Entry, TypeOK
<1>8. CASE SendInvalid  BY <1>5, <1>8, Values, Zenon DEF SendInvalid, TypeOK
<1>9. CASE SendBadSession
  BY <1>2, <1>3, <1>9, Values, BeginRecoveryType, Zenon DEF SendBadSession, TypeOK
<1>10. CASE SendExecuted
  BY <1>1, <1>6, <1>10, Values, ExecuteType, Zenon DEF SendExecuted, TypeOK
<1>11. CASE SendRefused  BY <1>6, <1>11, Values DEF SendRefused, TypeOK
<1>12. CASE SendOpExpired
  <2>1. CASE call.outer
    BY <1>2, <1>4, <1>12, <2>1, Values DEF SendOpExpired, TypeOK
  <2>2. CASE ~call.outer
    BY <1>3, <1>4, <1>12, <2>2, Values, BeginRecoveryType, Zenon DEF SendOpExpired, TypeOK
  <2> QED  BY <2>1, <2>2, Zenon
<1>13. CASE SendReplyLost
  <2>1. held' \in [Tokens -> LockStates] /\ execs' \in [Calls -> Nat] /\ late' \subseteq Requests
    BY <1>1, <1>13, RequestFateType, Zenon DEF SendReplyLost
  <2>2. lostReply' \subseteq Calls  BY <1>13 DEF SendReplyLost, NoteLostReply, TypeOK
  <2>3. /\ me' \in Sessions /\ pc' \in ControlPoints /\ ret' \in Result
        /\ call' \in Operations /\ recovered' \in BOOLEAN /\ rec' \in Recoveries
    BY <1>2, <1>3, <1>5, <1>13, Values, Zenon DEF SendReplyLost, TypeOK
  <2> QED  BY <1>4, <1>13, <2>1, <2>2, <2>3 DEF SendReplyLost, TypeOK
<1>14. CASE RevokedChecked  BY <1>2, <1>14, Values, Zenon DEF RevokedChecked, TypeOK
<1>15. ASSUME NEW t \in Tokens, CheckRevoked(t)  PROVE TypeOK'
  <2>1. held' \in [Tokens -> LockStates]  BY <1>15 DEF CheckRevoked, TypeOK, LockStates
  <2>2. me' \in Sessions  BY <1>3, <1>15, Zenon DEF CheckRevoked, TypeOK
  <2>3. reg' \in [Tokens -> Entries]  BY <1>15, MarkLostType, Zenon DEF CheckRevoked, TypeOK
  <2>4. rec' \in Recoveries  BY <1>15, SMTT(30) DEF CheckRevoked, TypeOK, Recoveries
  <2>5. pc' \in ControlPoints /\ ret' \in Result
    BY <1>2, <1>15, Values, Zenon DEF CheckRevoked, TypeOK
  <2>6. faults' \in 0..MaxFaults  BY <1>4, <1>15 DEF CheckRevoked, TypeOK
  <2> QED  BY <1>15, <2>1, <2>2, <2>3, <2>4, <2>5, <2>6, Zenon DEF CheckRevoked, TypeOK
<1> QED
  BY <1>7, <1>8, <1>9, <1>10, <1>11, <1>12, <1>13, <1>14, <1>15, Zenon

\* recover_session
LEMMA RecoverType ==
    ASSUME TypeOK,
           \/ StopLease \/ ConnectExchange \/ ConnectCreate \/ AllRelocked \/ ReclaimComplete
           \/ RefreshFsinfo \/ StartKeeper \/ Swap \/ Recovered
           \/ \E t \in Tokens : CheckRecovered(t) \/ ReclaimLock(t)
    PROVE  TypeOK'
<1> USE DEF srvVars, cliVars, ctlVars, envVars, histVars
<1>1. {"exchange", "create", "relock", "complete", "fsinfo", "keeper", "swap", "recovered", "send",
       "entry", "return"} \subseteq ControlPoints
  BY DEF ControlPoints
<1>2. ASSUME Fault PROVE faults' \in 0..MaxFaults
  BY <1>2, ConstantsAssumption DEF Fault, TypeOK
<1>3. ASSUME NEW e \in Result, RecoveryFails(e)
      PROVE  pc' \in ControlPoints /\ ret' \in Result /\ rec' \in Recoveries
  BY <1>1, <1>3 DEF RecoveryFails, TypeOK
<1>4. ASSUME RecoveryRpcFails
      PROVE  /\ pc' \in ControlPoints /\ ret' \in Result /\ rec' \in Recoveries
             /\ faults' \in 0..MaxFaults
  BY <1>2, <1>3, <1>4, Values DEF RecoveryRpcFails
<1>5. ASSUME ConnectFails
      PROVE  /\ pc' \in ControlPoints /\ ret' \in Result /\ rec' \in Recoveries
             /\ faults' \in 0..MaxFaults
  <2>1. CASE \E u \in BOOLEAN : RecoveryFails(Err(u, FALSE, FALSE))
    BY <1>2, <1>3, <1>5, <2>1, Values, Zenon DEF ConnectFails
  <2>2. CASE /\ rec.retry < MaxRetries /\ pc' = "exchange" /\ UNCHANGED ret
             /\ rec' = [rec EXCEPT !.retry = @ + 1, !.cid = 0]
    <3>1. rec.retry + 1 \in 0..MaxRetries
      BY <2>2, ConstantsAssumption DEF TypeOK, Recoveries
    <3>2. rec' \in Recoveries  BY <2>2, <3>1, Zenon DEF TypeOK, Recoveries
    <3> QED  BY <1>1, <1>2, <1>5, <2>2, <3>2 DEF ConnectFails, TypeOK
  <2> QED  BY <1>5, <2>1, <2>2, Zenon DEF ConnectFails
<1>6. ASSUME NEW cid \in {srvCid, nextCid}, ExchangeId(cid)
      PROVE  cid \in Nat /\ srvCid' \in Nat /\ nextCid' \in Nat
  BY <1>6, SMTT(30) DEF ExchangeId, TypeOK
<1>7. CASE StopLease
  <2>1. me' \in Sessions  BY <1>7, Zenon DEF StopLease, TypeOK, Sessions
  <2> QED  BY <1>1, <1>2, <1>7, <2>1, Blanks DEF StopLease, TypeOK
<1>8. CASE ConnectExchange
  <2>1. srvCid' \in Nat /\ nextCid' \in Nat  BY <1>6, <1>8 DEF ConnectExchange, TypeOK
  <2>2. /\ pc' \in ControlPoints /\ ret' \in Result /\ rec' \in Recoveries
        /\ faults' \in 0..MaxFaults
    <3>1. CASE ConnectFails  BY <1>5, <3>1
    <3>2. ASSUME NEW cid \in {srvCid, nextCid}, ExchangeId(cid), rec' = [rec EXCEPT !.cid = cid],
                 pc' = "create", UNCHANGED <<ret, faults>>
          PROVE  /\ pc' \in ControlPoints /\ ret' \in Result /\ rec' \in Recoveries
                 /\ faults' \in 0..MaxFaults
      <4>1. rec' \in Recoveries  BY <1>6, <3>2, Zenon DEF TypeOK, Recoveries
      <4> QED  BY <1>1, <3>2, <4>1 DEF TypeOK
    <3> QED  BY <1>8, <3>1, <3>2 DEF ConnectExchange
  <2> QED  BY <1>8, <2>1, <2>2, Zenon DEF ConnectExchange, TypeOK
<1>9. CASE ConnectCreate
  <2>1. Tracked \subseteq Tokens  BY DEF Tracked
  <2>2. [rec EXCEPT !.up = TRUE, !.todo = Tracked] \in Recoveries
    BY <2>1, Zenon DEF TypeOK, Recoveries
  <2> QED  BY <1>1, <1>3, <1>5, <1>9, <2>2, Values, Zenon DEF ConnectCreate, TypeOK
<1>10. CASE AllRelocked  BY <1>1, <1>10 DEF AllRelocked, TypeOK
<1>11. CASE ReclaimComplete
  BY <1>1, <1>3, <1>4, <1>11, Values, Zenon DEF ReclaimComplete, TypeOK
<1>12. CASE RefreshFsinfo
  BY <1>1, <1>3, <1>4, <1>12, Values, Zenon DEF RefreshFsinfo, TypeOK
<1>13. CASE StartKeeper
  <2>1. srvCid' \in Nat /\ nextCid' \in Nat  BY <1>6, <1>13, Zenon DEF StartKeeper, TypeOK
  <2>2. lease' \in Leases
    <3>1. [on |-> TRUE, up |-> TRUE, failed |-> FALSE] \in Leases  BY DEF Leases
    <3> QED  BY <1>13, <3>1, Zenon DEF StartKeeper, TypeOK
  <2>3. pc' \in ControlPoints /\ ret' \in Result /\ rec' \in Recoveries
    BY <1>1, <1>3, <1>13, Values, Zenon DEF StartKeeper, TypeOK
  <2>4. faults' \in 0..MaxFaults  BY <1>2, <1>13, Zenon DEF StartKeeper, TypeOK
  <2> QED  BY <1>13, <2>1, <2>2, <2>3, <2>4, Zenon DEF StartKeeper, TypeOK
<1>14. CASE Swap
  <2>1. me' \in Sessions  BY <1>14 DEF Swap, TypeOK, Sessions, Recoveries
  <2>2. rec' \in Recoveries  BY <1>14, Zenon DEF Swap, TypeOK, Recoveries
  <2> QED  BY <1>1, <1>14, <2>1, <2>2, Values, Zenon DEF Swap, TypeOK
<1>15. CASE Recovered
  <2>1. CASE rec.cont = "user"
    <3>1. Finish(ret)  BY <1>15, <2>1, Zenon DEF Recovered
    <3> QED  BY <1>15, <3>1, FinishType, Zenon DEF Recovered, TypeOK
  <2>2. CASE rec.cont # "user"
    <3>1. rec.orig \in Result /\ rec.cont # "user"  BY <2>2, Zenon DEF TypeOK, Recoveries
    <3>2. rec' \in Recoveries /\ UNCHANGED <<outcome, readOk>>  BY <1>15, <2>2, Blanks DEF Recovered
    <3>3. recovered' \in BOOLEAN  BY <1>15, <2>2, Zenon DEF Recovered
    <3>4. call' \in Operations  BY <1>15, <2>2, Zenon DEF Recovered, TypeOK, Operations
    <3>5. pc' \in ControlPoints /\ ret' \in Result
      <4>1. Return(BadSession) \/ Return(rec.orig) \/ Return(Cleanup(rec.orig, ret)) \/ Return(ret)
            \/ (pc' = "send" /\ UNCHANGED ret) \/ (pc' = "entry" /\ UNCHANGED ret)
        BY <1>15, <2>2 DEF Recovered
      <4> QED  BY <1>1, <3>1, <4>1, Values DEF Return, TypeOK
    <3> QED  BY <1>15, <3>2, <3>3, <3>4, <3>5, Zenon DEF Recovered, TypeOK
  <2> QED  BY <2>1, <2>2, Zenon
<1>16. ASSUME NEW t \in Tokens
       PROVE  /\ MarkLost(t) => reg' \in [Tokens -> Entries]
              /\ Relocked(t) => rec' \in Recoveries /\ pc' \in ControlPoints /\ ret' \in Result
              /\ rec.cid \in Nat
  <2>1. rec.cid \in Nat /\ [rec EXCEPT !.todo = @ \ {t}] \in Recoveries
    BY Zenon DEF TypeOK, Recoveries
  <2> QED  BY <2>1, MarkLostType, Zenon DEF Relocked, TypeOK
<1>17. ASSUME NEW t \in Tokens, CheckRecovered(t)  PROVE TypeOK'
  BY <1>3, <1>4, <1>16, <1>17, Values, Zenon DEF CheckRecovered, TypeOK
<1>18. ASSUME NEW t \in Tokens, ReclaimLock(t)  PROVE TypeOK'
  <2>1. "reclaim" \in Steps /\ t \in Calls  BY Zenon DEF Steps, Calls
  <2>2. reg' \in [Tokens -> Entries]  BY <1>16, <1>18, SMTT(30) DEF ReclaimLock, TypeOK, Entries
  <2>3. held' \in [Tokens -> LockStates] /\ late' \subseteq Requests
    BY <1>18, <2>1, RequestFateType, Zenon DEF ReclaimLock, HeldAfter, TypeOK, LockStates
  <2>4. /\ pc' \in ControlPoints /\ ret' \in Result /\ rec' \in Recoveries
        /\ faults' \in 0..MaxFaults
    BY <1>3, <1>4, <1>16, <1>18, Values, Zenon DEF ReclaimLock, TypeOK
  <2>5. execs' \in [Calls -> Nat]
    BY <1>18 DEF ReclaimLock, TypeOK
  <2> QED  BY <1>18, <2>2, <2>3, <2>4, <2>5, Zenon DEF ReclaimLock, TypeOK
<1> QED
  BY <1>7, <1>8, <1>9, <1>10, <1>11, <1>12, <1>13, <1>14, <1>15, <1>17, <1>18, Zenon

\* What the operations do with the result, the keeper, and cancellation
LEMMA ReturnType ==
    ASSUME TypeOK,
           OperationReturns \/ LockGranted \/ HeartbeatRefused \/ HeartbeatLost \/ CancelSend \/ CancelRecovery
    PROVE  TypeOK'
<1> USE DEF srvVars, cliVars, ctlVars, envVars, histVars
<1>1. ASSUME Fault PROVE faults' \in 0..MaxFaults
  BY <1>1, ConstantsAssumption DEF Fault, TypeOK
<1>2. "entry" \in ControlPoints /\ {"lock", "close", "free", "rlo"} \subseteq Steps
  BY DEF ControlPoints, Steps
<1>3. ASSUME NEW step \in Steps, NEW saved \in Result, NextStep(step, saved)
      PROVE  /\ pc' \in ControlPoints /\ ret' \in Result /\ call' \in Operations
             /\ recovered' \in BOOLEAN /\ rec' \in Recoveries
             /\ outcome' \in [Calls -> Outcomes] /\ readOk' \in BOOLEAN
  <2>1. call' \in Operations  BY <1>3, Zenon DEF NextStep, TypeOK, Operations
  <2> QED  BY <1>2, <1>3, <2>1, Values, Blanks, Zenon DEF NextStep, TypeOK
<1>4. CASE OperationReturns
  <2>1. /\ pc' \in ControlPoints /\ ret' \in Result /\ call' \in Operations
        /\ recovered' \in BOOLEAN /\ rec' \in Recoveries
        /\ outcome' \in [Calls -> Outcomes] /\ readOk' \in BOOLEAN
    <3>1. CASE TryAgain
      <4>1. call' \in Operations  BY <3>1, Zenon DEF TryAgain, TypeOK, Operations
      <4> QED  BY <1>2, <3>1, <4>1, Values, Blanks, Zenon DEF TryAgain, TypeOK
    <3>2. call.saved \in Result /\ ret \in Result  BY DEF TypeOK, Operations
    <3>3. (IF call.saved.ok THEN ret ELSE Cleanup(call.saved, ret)) \in Result
      BY <3>2, Values, Zenon
    <3>4. \/ TryAgain \/ (\E r \in Result : Finish(r))
          \/ \E step \in Steps, saved \in Result : NextStep(step, saved)
      BY <1>2, <1>4, <3>2, <3>3, Values, Zenon DEF OperationReturns
    <3> QED  BY <1>3, <3>1, <3>4, FinishType
  <2> QED  BY <1>4, <2>1, Zenon DEF OperationReturns, TypeOK
<1>5. CASE LockGranted
  <2>1. [in |-> TRUE, cid |-> me.cid, lost |-> FALSE] \in Entries  BY DEF TypeOK, Entries, Sessions
  <2>2. reg' \in [Tokens -> Entries]  BY <1>5, <2>1, Zenon DEF LockGranted, TypeOK
  <2> QED  BY <1>5, <2>2, Values, FinishType, Zenon DEF LockGranted, TypeOK
<1>6. ASSUME HeartbeatFails PROVE lease' \in Leases
  BY <1>6, Zenon DEF HeartbeatFails, TypeOK, Leases
<1>7. CASE HeartbeatRefused  BY <1>6, <1>7, Zenon DEF HeartbeatRefused, HeartbeatFails, TypeOK
<1>8. CASE HeartbeatLost  BY <1>1, <1>6, <1>8, Zenon DEF HeartbeatLost, HeartbeatFails, TypeOK
<1>9. CASE CancelSend
  <2>1. call.step \in Steps /\ call.id \in Calls \cup {None}  BY DEF TypeOK, Operations
  <2>2. held' \in [Tokens -> LockStates] /\ execs' \in [Calls -> Nat] /\ late' \subseteq Requests
    BY <1>9, <2>1, RequestFateType DEF CancelSend
  <2>3. lostReply' \subseteq Calls  BY <1>9 DEF CancelSend, NoteLostReply, TypeOK
  <2>4. me' \in Sessions  BY <1>9, Zenon DEF CancelSend, TypeOK, Sessions
  <2> QED  BY <1>1, <1>9, <2>2, <2>3, <2>4, Values, FinishType, Zenon DEF CancelSend, TypeOK
<1>10. CASE CancelRecovery
  <2>1. me' \in Sessions
    <3>1. (me.dead \/ pc \in {"revoked", "stoplease"}) \in BOOLEAN  BY Zenon
    <3> QED  BY <1>10, <3>1, Zenon DEF CancelRecovery, TypeOK, Sessions
  <2>2. lease' \in Leases  BY <1>10, Blanks DEF CancelRecovery, TypeOK
  <2> QED  BY <1>1, <1>10, <2>1, <2>2, Values, FinishType DEF CancelRecovery, TypeOK
<1> QED  BY <1>4, <1>5, <1>7, <1>8, <1>9, <1>10, Zenon

\* A connected client
LEMMA InitType == ASSUME Init PROVE TypeOK
<1>1. held \in [Tokens -> LockStates]  BY Zenon DEF Init, LockStates
<1>2. me \in Sessions  BY Zenon DEF Init, Sessions
<1>3. lease \in Leases
  <2>1. [on |-> TRUE, up |-> TRUE, failed |-> FALSE] \in Leases  BY Zenon DEF Leases
  <2> QED  BY <2>1, Blanks DEF Init
<1>4. reg \in [Tokens -> Entries]
  <2>2. ASSUME NEW t \in Tokens  PROVE [in |-> t \in HeldAtStart, cid |-> 1, lost |-> FALSE] \in Entries
    <3>1. CASE t \in HeldAtStart  BY <3>1 DEF Entries
    <3>2. CASE t \notin HeldAtStart  BY <3>2, SMTT(30) DEF Entries
    <3> QED  BY <3>1, <3>2
  <2> QED  BY <2>2, Zenon DEF Init
<1>5. pc \in ControlPoints  BY Zenon DEF Init, ControlPoints
<1>6. execs \in [Calls -> Nat]  BY Zenon DEF Init
<1>7. outcome \in [Calls -> Outcomes]  BY Zenon DEF Init, Outcomes
<1>8. faults \in 0..MaxFaults /\ events \in 0..MaxEvents /\ revoked \in 0..MaxRevoked
  BY ConstantsAssumption DEF Init
<1> QED
  BY <1>1, <1>2, <1>3, <1>4, <1>5, <1>6, <1>7, <1>8, Values, Blanks, Zenon DEF Init, TypeOK

\* TypeOK is inductive.
LEMMA NextType == ASSUME TypeOK, [Next]_vars PROVE TypeOK'
<1>1. CASE ServerNext  BY <1>1, ServerType
<1>2. CASE ProgramNext  BY <1>2, ProgramType
<1>3. CASE ClientNext  BY <1>3, SendType, RecoverType, ReturnType DEF ClientNext
<1>4. CASE HeartbeatRefused \/ HeartbeatLost \/ CancelSend \/ CancelRecovery
  BY <1>4, ReturnType, Zenon
<1>5. CASE UNCHANGED vars
  BY <1>5 DEF vars, srvVars, cliVars, ctlVars, envVars, histVars, TypeOK
<1> QED  BY <1>1, <1>2, <1>3, <1>4, <1>5 DEF Next

-----------------------------------------------------------------------------
(* What the control points and the claims rest on                          *)

\* The part of the type invariant the rest of the proof needs
Kinds ==
    /\ me \in Sessions /\ lease \in Leases /\ reg \in [Tokens -> Entries]
    /\ ret \in Result /\ call \in Operations /\ rec \in Recoveries
    /\ srvCid \in Nat /\ nextCid \in Nat
    /\ completed \in BOOLEAN

Safe == Kinds /\ Control /\ Claims

\* The errors are no successes.
LEMMA Bad ==
    /\ ~Refused.ok /\ ~Interrupted.ok /\ ~ReplyLost.ok /\ ~BadSession.ok /\ ~StaleClient.ok /\ ~LockLost.ok
    /\ \A u, s, l : ~Err(u, s, l).ok
BY DEF Err, Refused, Interrupted, ReplyLost, BadSession, StaleClient, LockLost

\* Marking the session for recovery, or its stream as broken, keeps its client id.
LEMMA Marked ==
    ASSUME Safe
    PROVE  /\ [me EXCEPT !.pending = TRUE].pending
           /\ [me EXCEPT !.pending = TRUE].cid = me.cid
           /\ \A dead : /\ [me EXCEPT !.dead = dead].pending = me.pending
                        /\ [me EXCEPT !.dead = dead].cid = me.cid
                        /\ [me EXCEPT !.dead = dead, !.pending = TRUE].pending
                        /\ [me EXCEPT !.dead = dead, !.pending = TRUE].cid = me.cid
BY DEF Safe, Kinds, Sessions

\* A step that touches nothing the invariant is about
LEMMA Untouched ==
    ASSUME Safe, UNCHANGED <<pc, ret, call, rec, me, lease, reg, srvCid, completed, nextCid>>
    PROVE  Control' /\ Claims'
<1>1. Control'  BY Zenon DEF Safe, Control, NothingSentWhileLost, Valid
<1>2. Claims'  BY Zenon DEF Safe, Claims, ReclaimBeforeComplete, Tracked
<1> QED  BY <1>1, <1>2, Zenon

\* A step that only leaves compound_status or recover_session, without success
LEMMA Rests ==
    ASSUME Safe,
           pc' \in {"idle", "entry", "return", "recovered"},
           pc' \in {"return", "recovered"} => ~ret'.ok,
           rec' \in {rec, NoRec},
           me'.pending = me.pending, me'.cid = me.cid,
           UNCHANGED <<lease, reg, srvCid, completed, nextCid>>
    PROVE  Control' /\ Claims'
<1> USE DEF Safe, Kinds, NoRec, Ok
<1>1. Control'  BY SMTT(30) DEF Control, NothingSentWhileLost, Valid, Recovering
<1>2. Claims'  BY DEF Claims, ReclaimBeforeComplete, Tracked
<1> QED  BY <1>1, <1>2, Zenon

\* recover_session begins with recovery_pending set.
LEMMA Recovers ==
    ASSUME Safe, NEW cont, NEW orig, BeginRecovery(cont, orig),
           cont \in {"transport", "session", "close"} => ~orig.ok,
           me'.pending, me'.cid = me.cid,
           UNCHANGED <<lease, reg, srvCid, completed, nextCid>>
    PROVE  Control' /\ Claims'
<1> USE DEF Safe, Kinds, NoRec, Ok, BeginRecovery
<1>1. Control'  BY DEF Control, NothingSentWhileLost, Valid, Recovering
<1>2. Claims'  BY DEF Claims, ReclaimBeforeComplete, Tracked
<1> QED  BY <1>1, <1>2

\* A transport failure
LEMMA TransportInv ==
    ASSUME Safe, NEW err, NEW dead, Transport(err, dead), ~err.ok,
           UNCHANGED <<lease, reg, srvCid, completed, nextCid>>
    PROVE  Control' /\ Claims'
<1>1. CASE recovered  BY <1>1, Rests, Marked, Zenon DEF Transport, Return
<1>2. CASE ~recovered  BY <1>2, Recovers, Marked, Zenon DEF Transport
<1> QED  BY <1>1, <1>2

\* The server's own steps
LEMMA ServerInv ==
    ASSUME Safe, ServerNext
    PROVE  Control' /\ Claims'
<1> USE DEF Safe, Kinds, Sessions, Leases, Entries, Operations, Recoveries, Result, srvVars, cliVars,
            ctlVars, envVars, histVars, Ok, Err, LockLost
<1>1. CASE ServerRestart
  <2>1. Control'
    BY <1>1, Zenon DEF Control, NothingSentWhileLost, Valid, Recovering, ServerRestart, ForgetClient
  <2>2. Claims'
    BY <1>1, Zenon DEF Control, Claims, ReclaimBeforeComplete, Tracked, Recovering, ServerRestart,
       ForgetClient
  <2> QED  BY <2>1, <2>2
<1>2. CASE LeaseExpires
  <2>1. Control'
    BY <1>2, Zenon DEF Control, NothingSentWhileLost, Valid, Recovering, LeaseExpires, ForgetClient
  <2>2. Claims'
    BY <1>2, Zenon DEF Control, Claims, ReclaimBeforeComplete, Tracked, Recovering, LeaseExpires,
       ForgetClient
  <2> QED  BY <2>1, <2>2
<1>3. CASE SessionDropped
  <2>1. Control'
    BY <1>3 DEF Control, NothingSentWhileLost, Valid, Recovering, SessionDropped
  <2>2. Claims'
    BY <1>3, SMTT(30) DEF Control, Claims, ReclaimBeforeComplete, Tracked, Recovering,
       SessionDropped
  <2> QED  BY <2>1, <2>2
<1>4. ASSUME NEW r \in late, LateExecution(r)  PROVE Control' /\ Claims'
  BY <1>4, Untouched, Zenon DEF LateExecution
<1>5. CASE GraceEnds  BY <1>5, Untouched, Zenon DEF GraceEnds
<1>6. ASSUME NEW t \in Tokens, LockRevoked(t) \/ RivalLocks(t) \/ RivalUnlocks(t)
      PROVE  Control' /\ Claims'
  BY <1>6, Untouched, Zenon DEF LockRevoked, RivalLocks, RivalUnlocks
<1> QED  BY <1>1, <1>2, <1>3, <1>4, <1>5, <1>6 DEF ServerNext

\* The program calls an operation.
LEMMA ProgramInv ==
    ASSUME Safe, ProgramNext
    PROVE  Control' /\ Claims'
<1> USE DEF Safe, Kinds, Sessions, Leases, Entries, Operations, Recoveries, Result, srvVars, cliVars,
            ctlVars, envVars, histVars, Ok, Err, LockLost
<1>1. CASE Read  BY <1>1, Rests DEF Read, Begin
<1>2. ASSUME NEW c \in Mutations, Mutate(c)  PROVE Control' /\ Claims'
  BY <1>2, Rests DEF Mutate, Begin
<1>3. ASSUME NEW t \in Tokens, Lock(t)  PROVE Control' /\ Claims'
  BY <1>3, Rests, Zenon DEF Lock, Begin
<1>4. ASSUME NEW t \in Tokens, Unlock(t)  PROVE Control' /\ Claims'
  <2>1. Control'
    BY <1>4 DEF Control, NothingSentWhileLost, Valid, Recovering, Unlock, Begin
  <2>2. Claims'
    BY <1>4 DEF Control, Claims, ReclaimBeforeComplete, Tracked, Recovering, Unlock, Begin
  <2> QED  BY <2>1, <2>2
<1>5. ASSUME NEW t \in Tokens, UnlockLost(t)  PROVE Control' /\ Claims'
  <2>1. Control'
    BY <1>5, Zenon DEF Control, NothingSentWhileLost, Valid, Recovering, UnlockLost
  <2>2. Claims'
    BY <1>5, SMTT(30) DEF Control, Claims, ReclaimBeforeComplete, Tracked, Recovering, UnlockLost
  <2> QED  BY <2>1, <2>2
<1>6. CASE Reconnect
  <2>1. Control'
    BY <1>6 DEF Control, NothingSentWhileLost, Valid, Recovering, Reconnect, NoRec
  <2>2. Claims'
    BY <1>6 DEF Control, Claims, ReclaimBeforeComplete, Tracked, Recovering, Reconnect, NoRec
  <2> QED  BY <2>1, <2>2
<1> QED  BY <1>1, <1>2, <1>3, <1>4, <1>5, <1>6, Zenon DEF ProgramNext

\* recovery first when it is pending or the keeper failed, then ensure_valid
LEMMA EntryInv ==
    ASSUME Safe, Entry
    PROVE  Control' /\ Claims'
<1> USE DEF srvVars, envVars
<1>1. CASE me.pending \/ (lease.on /\ lease.failed)
  BY <1>1, Recovers, Marked, Zenon DEF Entry
<1>2. CASE ~(me.pending \/ (lease.on /\ lease.failed)) /\ ~Release(call.step) /\ ~Valid
  BY <1>2, Rests, Bad DEF Entry, Return
<1>3. CASE ~(me.pending \/ (lease.on /\ lease.failed)) /\ (Release(call.step) \/ Valid)
  <2>1. /\ pc' = "send" /\ ~me.pending
        /\ UNCHANGED <<ret, me, call, rec, lease, reg, srvCid, completed, nextCid>>
    BY <1>3, Zenon DEF Entry
  <2>2. Control'
    BY <1>3, <2>1, Zenon DEF Safe, Control, NothingSentWhileLost, Valid, Recovering, Release
  <2>3. Claims'  BY <2>1 DEF Safe, Claims, ReclaimBeforeComplete, Tracked
  <2> QED  BY <2>2, <2>3
<1> QED  BY <1>1, <1>2, <1>3

\* the stream is known to be broken
LEMMA SendInvalidInv ==
    ASSUME Safe, SendInvalid
    PROVE  Control' /\ Claims'
BY TransportInv, Bad, Zenon DEF SendInvalid, srvVars, envVars

\* SEQUENCE refuses the session
LEMMA SendBadSessionInv ==
    ASSUME Safe, SendBadSession
    PROVE  Control' /\ Claims'
<1> USE DEF srvVars, envVars
<1>1. CASE recovered  BY <1>1, Rests, Bad DEF SendBadSession, Return
<1>2. CASE ~recovered  BY <1>2, Recovers, Marked, Bad, Zenon DEF SendBadSession
<1> QED  BY <1>1, <1>2

\* OPEN or CLOSE reports lost state
LEMMA SendOpExpiredInv ==
    ASSUME Safe, SendOpExpired
    PROVE  Control' /\ Claims'
<1> USE DEF srvVars, envVars
<1>1. CASE call.outer  BY <1>1, Rests, Bad DEF SendOpExpired, Return
<1>2. CASE ~call.outer  BY <1>2, Recovers, Marked, Bad, Zenon DEF SendOpExpired
<1> QED  BY <1>1, <1>2

\* the reply is lost
LEMMA SendReplyLostInv ==
    ASSUME Safe, SendReplyLost
    PROVE  Control' /\ Claims'
<1>1. CASE Transport(ReplyLost, TRUE)  BY <1>1, TransportInv, Bad, Zenon DEF SendReplyLost
<1>2. CASE ~Transport(ReplyLost, TRUE)
  <2>1. /\ me' = [me EXCEPT !.dead = TRUE] /\ pc' = "return" /\ ret' = ReplyLost /\ rec' = rec
        /\ UNCHANGED <<lease, reg, srvCid, completed, nextCid>>
    BY <1>2, Zenon DEF SendReplyLost, Return
  <2>2. me'.pending = me.pending /\ me'.cid = me.cid  BY <2>1, Marked, Zenon
  <2> QED  BY <2>1, <2>2, Rests, Bad
<1> QED  BY <1>1, <1>2, Zenon

\* compound_status
LEMMA SendInv ==
    ASSUME Safe,
           \/ Entry \/ SendInvalid \/ SendBadSession \/ SendExecuted \/ SendRefused
           \/ SendOpExpired \/ SendReplyLost \/ RevokedChecked
           \/ \E t \in Tokens : CheckRevoked(t)
    PROVE  Control' /\ Claims'
<1> USE DEF Safe, Kinds, Sessions, Leases, Entries, Operations, Recoveries, Result, srvVars, cliVars,
            ctlVars, envVars, histVars, Ok, Err, Refused, Interrupted, ReplyLost, BadSession,
            StaleClient, LockLost, Cleanup, Release
<1>1. CASE SendExecuted
  <2>1. Control'
    BY <1>1, ZenonT(30) DEF Control, NothingSentWhileLost, Valid, Recovering, SendExecuted, Reply,
       NoRec
  <2>2. Claims'
    BY <1>1, Zenon DEF Control, Claims, ReclaimBeforeComplete, Tracked, Recovering, SendExecuted,
       Reply, NoRec
  <2> QED  BY <2>1, <2>2, Zenon
<1>2. CASE SendRefused
  <2>1. Control'
    BY <1>2, ZenonT(30) DEF Control, NothingSentWhileLost, Valid, Recovering, SendRefused, Reply,
       NoRec
  <2>2. Claims'
    BY <1>2, Zenon DEF Control, Claims, ReclaimBeforeComplete, Tracked, Recovering, SendRefused,
       Reply, NoRec
  <2> QED  BY <2>1, <2>2
<1>3. CASE RevokedChecked
  <2>1. Control'
    BY <1>3 DEF Control, NothingSentWhileLost, Valid, Recovering, RevokedChecked, Return
  <2>2. Claims'
    BY <1>3, Zenon DEF Control, Claims, ReclaimBeforeComplete, Tracked, Recovering,
       RevokedChecked, Return
  <2> QED  BY <2>1, <2>2
<1>4. ASSUME NEW t \in Tokens, CheckRevoked(t)  PROVE Control' /\ Claims'
  <2>1. Control'
    BY <1>4, Zenon DEF Control, NothingSentWhileLost, Valid, Recovering, CheckRevoked, MarkLost,
       Return
  <2>2. Claims'
    BY <1>4, SMTT(30) DEF Control, Claims, ReclaimBeforeComplete, Tracked, Recovering,
       CheckRevoked, MarkLost, Return
  <2> QED  BY <2>1, <2>2, Zenon
<1> QED
  BY <1>1, <1>2, <1>3, <1>4, EntryInv, SendInvalidInv, SendBadSessionInv, SendOpExpiredInv,
     SendReplyLostInv

\* EXCHANGE_ID: the client id is new, or the one the server holds
LEMMA ConnectExchangeInv ==
    ASSUME Safe, ConnectExchange
    PROVE  Control' /\ Claims'
<1> USE DEF Safe, Kinds, srvVars, cliVars
<1>1. me.pending /\ ~rec.up  BY DEF Control, Claims, ConnectExchange, Recovering
<1>2. /\ nextCid' # 0
      /\ srvCid' = 0 => srvCid = 0
      /\ completed => srvCid' = srvCid
      /\ UNCHANGED <<completed, me, reg, lease>>
  BY DEF ConnectExchange, ExchangeId, Claims
<1>3. ASSUME pc' \in {"exchange", "create", "recovered"}, pc' = "recovered" => ~ret'.ok,
             rec'.cont = rec.cont, rec'.orig = rec.orig, ~rec'.up,
             pc' = "create" => rec'.cid # 0
      PROVE  Control' /\ Claims'
  <2>1. Control'  BY <1>1, <1>2, <1>3, Zenon DEF Control, NothingSentWhileLost, Valid, Recovering
  <2>2. Claims'  BY <1>1, <1>2, <1>3 DEF Claims, ReclaimBeforeComplete, Tracked
  <2> QED  BY <2>1, <2>2
<1>4. CASE ConnectFails
  <2>1. CASE \E u \in BOOLEAN : RecoveryFails(Err(u, FALSE, FALSE))
    BY <1>1, <1>3, <2>1, Bad, Zenon DEF RecoveryFails
  <2>2. CASE pc' = "exchange" /\ rec' = [rec EXCEPT !.retry = @ + 1, !.cid = 0]
    <3>1. rec'.cont = rec.cont /\ rec'.orig = rec.orig /\ rec'.up = rec.up  BY <2>2 DEF Recoveries
    <3> QED  BY <1>1, <1>3, <2>2, <3>1
  <2> QED  BY <1>4, <2>1, <2>2, Zenon DEF ConnectFails
<1>5. ASSUME NEW cid \in {srvCid, nextCid}, ExchangeId(cid), rec' = [rec EXCEPT !.cid = cid], pc' = "create"
      PROVE  Control' /\ Claims'
  <2>1. cid # 0  BY <1>5 DEF ExchangeId, Claims
  <2>2. rec'.cont = rec.cont /\ rec'.orig = rec.orig /\ rec'.up = rec.up /\ rec'.cid = cid
    BY <1>5 DEF Recoveries
  <2> QED  BY <1>1, <1>3, <1>5, <2>1, <2>2, Zenon
<1> QED  BY <1>4, <1>5 DEF ConnectExchange

\* CREATE_SESSION: the new session belongs to that client id
LEMMA ConnectCreateInv ==
    ASSUME Safe, ConnectCreate
    PROVE  Control' /\ Claims'
<1> USE DEF Safe, Kinds, srvVars, cliVars
<1>1. me.pending /\ ~rec.up /\ rec.cid # 0  BY DEF Control, Claims, ConnectCreate, Recovering
<1>2. UNCHANGED <<srvCid, nextCid, completed, me, reg, lease>>  BY Zenon DEF ConnectCreate
<1>3. ASSUME \E e : RecoveryFails(e) /\ ~e.ok  PROVE Control' /\ Claims'
  BY <1>2, <1>3, Rests, Zenon DEF RecoveryFails
<1>4. CASE ConnectFails
  <2>1. CASE \E u \in BOOLEAN : RecoveryFails(Err(u, FALSE, FALSE))  BY <1>3, <2>1, Bad, Zenon
  <2>2. CASE pc' = "exchange" /\ rec' = [rec EXCEPT !.retry = @ + 1, !.cid = 0]
    <3>1. rec'.cont = rec.cont /\ rec'.orig = rec.orig /\ rec'.up = rec.up  BY <2>2 DEF Recoveries
    <3>2. Control'
      BY <1>1, <1>2, <2>2, <3>1, Zenon DEF Control, NothingSentWhileLost, Valid, Recovering
    <3>3. Claims'  BY <1>1, <1>2, <2>2, <3>1, Zenon DEF Claims, ReclaimBeforeComplete, Tracked
    <3> QED  BY <3>2, <3>3
  <2> QED  BY <1>4, <2>1, <2>2, Zenon DEF ConnectFails
<1>5. CASE /\ rec.cid = srvCid /\ pc' = "relock"
           /\ rec' = [rec EXCEPT !.up = TRUE, !.todo = Tracked]
  <2>1. rec'.cont = rec.cont /\ rec'.orig = rec.orig /\ rec'.cid = rec.cid /\ rec'.todo = Tracked
    BY <1>5 DEF Recoveries
  <2>2. Control'
    BY <1>1, <1>2, <1>5, <2>1, Zenon DEF Control, NothingSentWhileLost, Valid, Recovering
  <2>3. Claims'  BY <1>1, <1>2, <1>5, <2>1, Zenon DEF Claims, ReclaimBeforeComplete, Tracked
  <2> QED  BY <2>2, <2>3
<1> QED  BY <1>3, <1>4, <1>5, Bad, Zenon DEF ConnectCreate

\* recover_session gives up: the client in use, and recovery_pending, are as before.
LEMMA RecoveryEnds ==
    ASSUME Safe, NEW e, RecoveryFails(e), ~e.ok,
           UNCHANGED <<me, lease, reg, srvCid, completed, nextCid>>
    PROVE  Control' /\ Claims'
<1>1. pc' = "recovered" /\ ret' = e /\ rec' = rec  BY DEF RecoveryFails
<1>2. me'.pending = me.pending /\ me'.cid = me.cid  OBVIOUS
<1> QED  BY <1>1, <1>2, Rests

\* An RPC of recover_session fails.
LEMMA RpcEnds ==
    ASSUME Safe, RecoveryRpcFails, UNCHANGED <<me, lease, reg, srvCid, completed, nextCid>>
    PROVE  Control' /\ Claims'
<1>1. PICK e \in {ReplyLost, Refused} : RecoveryFails(e)  BY DEF RecoveryRpcFails
<1>2. ~e.ok  BY Bad
<1> QED  BY <1>1, <1>2, RecoveryEnds

\* What becomes of a lock that was checked or reclaimed.
Settled(t) ==
    \/ UNCHANGED reg /\ reg[t].cid = rec.cid
    \/ MarkLost(t)
    \/ reg' = [reg EXCEPT ![t].cid = rec.cid] /\ rec.up

\* Checking or reclaiming a lock: what is no longer in todo is under the new
\* client id, or marked lost.
LEMMA RelockedInv ==
    ASSUME Safe, NEW t \in Tokens, pc = "relock", Relocked(t), Settled(t),
           UNCHANGED <<me, lease, srvCid, completed, nextCid>>
    PROVE  Control' /\ Claims'
<1>1. /\ rec'.cont = rec.cont /\ rec'.orig = rec.orig /\ rec'.cid = rec.cid /\ rec'.up = rec.up
      /\ rec'.todo = rec.todo \ {t} /\ pc' = "relock"
  BY DEF Safe, Kinds, Recoveries, Relocked
<1>2. /\ \A u \in Tokens : u # t => reg'[u] = reg[u]
      /\ \/ reg'[t].lost
         \/ /\ reg'[t].in = reg[t].in /\ reg'[t].lost = reg[t].lost /\ reg'[t].cid = rec.cid
            /\ reg[t].cid = rec.cid \/ rec.up
  <2>1. CASE UNCHANGED reg /\ reg[t].cid = rec.cid  BY <2>1, Zenon
  <2>2. CASE MarkLost(t)  BY <2>2 DEF MarkLost, Safe, Kinds, Entries
  <2>3. CASE reg' = [reg EXCEPT ![t].cid = rec.cid] /\ rec.up
    BY <2>3, Zenon DEF Safe, Kinds, Entries
  <2> QED  BY <2>1, <2>2, <2>3 DEF Settled
<1>3. ASSUME NEW u \in Tracked'
      PROVE  /\ u \in Tracked
             /\ u # t => reg'[u].cid = reg[u].cid
             /\ u = t => reg'[u].cid = rec.cid
             /\ reg'[u].cid = reg[u].cid \/ (rec.up /\ reg'[u].cid = rec.cid)
  <2>1. u \in Tokens /\ reg'[u].in /\ ~reg'[u].lost  BY <1>3, Zenon DEF Tracked
  <2>2. CASE u = t  BY <1>2, <2>1, <2>2, Zenon DEF Tracked
  <2>3. CASE u # t
    <3>1. reg'[u] = reg[u]  BY <1>2, <2>1, <2>3, Zenon
    <3>2. reg[u].in /\ ~reg[u].lost /\ reg'[u].cid = reg[u].cid  BY <2>1, <3>1, Zenon
    <3>3. u \in Tracked  BY <2>1, <3>2, Zenon DEF Tracked
    <3> QED  BY <2>3, <3>2, <3>3
  <2> QED  BY <2>2, <2>3
<1>4. Control'  BY <1>1, Zenon DEF Safe, Control, NothingSentWhileLost, Recovering
<1>5. \A u \in Tracked' \ rec'.todo : reg'[u].cid = rec'.cid
  <2> SUFFICES ASSUME NEW u \in Tracked', u \notin rec'.todo  PROVE reg'[u].cid = rec'.cid
    OBVIOUS
  <2>1. CASE u = t  BY <1>1, <1>3, <2>1, Zenon
  <2>2. CASE u # t
    <3>1. u \in Tracked \ rec.todo  BY <1>1, <1>3, <2>2, Zenon
    <3> QED  BY <1>1, <1>3, <2>2, <3>1, Zenon DEF Safe, Claims
  <2> QED  BY <2>1, <2>2, Zenon
<1>6. ReclaimBeforeComplete'
  <2> SUFFICES ASSUME completed, NEW u \in Tracked'  PROVE reg'[u].cid = srvCid
    BY Zenon DEF ReclaimBeforeComplete
  <2> QED  BY <1>3 DEF Safe, Claims, ReclaimBeforeComplete
<1>7. Claims'  BY <1>1, <1>5, <1>6, Zenon DEF Safe, Claims, Control, Recovering
<1> QED  BY <1>4, <1>7

\* check_recovered_lock
LEMMA CheckRecoveredInv ==
    ASSUME Safe, NEW t \in Tokens, CheckRecovered(t)
    PROVE  Control' /\ Claims'
<1>1. pc = "relock" /\ reg[t].cid = rec.cid /\ UNCHANGED <<srvCid, nextCid, completed, me, lease>>
  BY Zenon DEF CheckRecovered, srvVars
<1>2. CASE RecoveryFails(BadSession) /\ UNCHANGED reg  BY <1>1, <1>2, Bad, RecoveryEnds, Zenon
<1>3. CASE RecoveryRpcFails /\ UNCHANGED reg  BY <1>1, <1>3, RpcEnds
<1>4. CASE Relocked(t) /\ (UNCHANGED reg \/ MarkLost(t))
  BY <1>1, <1>4, RelockedInv, SMTT(30) DEF Settled
<1> QED  BY <1>2, <1>3, <1>4, Zenon DEF CheckRecovered

\* reclaim_lock
LEMMA ReclaimLockInv ==
    ASSUME Safe, NEW t \in Tokens, ReclaimLock(t)
    PROVE  Control' /\ Claims'
<1>1. pc = "relock" /\ UNCHANGED <<srvCid, nextCid, completed, me, lease>>  BY Zenon DEF ReclaimLock
<1>2. CASE RecoveryFails(BadSession) /\ UNCHANGED reg  BY <1>1, <1>2, Bad, RecoveryEnds
<1>3. CASE RecoveryRpcFails /\ UNCHANGED reg  BY <1>1, <1>3, RpcEnds
<1>4. CASE Relocked(t) /\ (MarkLost(t) \/ (rec.up /\ reg' = [reg EXCEPT ![t].cid = rec.cid]))
  BY <1>1, <1>4, RelockedInv, SMTT(30) DEF Settled
<1> QED  BY <1>2, <1>3, <1>4 DEF ReclaimLock

\* RECLAIM_COMPLETE: whether or not its reply arrives, every tracked lock is
\* under the client id it is sent for.
LEMMA ReclaimCompleteInv ==
    ASSUME Safe, ReclaimComplete
    PROVE  Control' /\ Claims'
<1> USE DEF Safe, Kinds
<1>1. /\ pc = "complete" /\ me.pending /\ (\A t \in Tracked : reg[t].cid = rec.cid)
      /\ rec' = rec /\ UNCHANGED <<srvCid, nextCid, me, lease, reg>>
  BY Zenon DEF ReclaimComplete, RecoveryRpcFails, RecoveryFails, cliVars, Claims, Control,
     Recovering
<1>2. CASE UNCHANGED completed /\ RecoveryFails(BadSession)  BY <1>1, <1>2, Bad, RecoveryEnds, Zenon
<1>3. CASE UNCHANGED completed /\ RecoveryRpcFails  BY <1>1, <1>3, RpcEnds, Zenon
<1>4. CASE rec.up /\ completed' = TRUE /\ pc' \in {"fsinfo", "recovered"} /\ (pc' = "recovered" => ~ret'.ok)
  <2>1. rec.cid = srvCid /\ srvCid # 0  BY <1>4, Zenon DEF Claims
  <2>2. Control'  BY <1>1, <1>4, Zenon DEF Control, NothingSentWhileLost, Recovering
  <2>3. Claims'  BY <1>1, <1>4, <2>1, Zenon DEF Claims, ReclaimBeforeComplete, Tracked
  <2> QED  BY <2>2, <2>3
<1>5. ASSUME RecoveryRpcFails  PROVE pc' = "recovered" /\ ~ret'.ok
  BY <1>5, Bad DEF RecoveryRpcFails, RecoveryFails
<1> QED  BY <1>2, <1>3, <1>4, <1>5, Zenon DEF ReclaimComplete

\* start_lease_renewal: the keeper's client id is the recovered one.
LEMMA StartKeeperInv ==
    ASSUME Safe, StartKeeper
    PROVE  Control' /\ Claims'
<1> USE DEF Safe, Kinds
<1>1. /\ pc = "keeper" /\ me.pending /\ rec' = rec /\ UNCHANGED <<completed, me, reg>>
      /\ completed => rec.cid = srvCid
  BY Zenon DEF StartKeeper, RecoveryFails, Claims, Control, Recovering
<1>2. /\ nextCid' # 0
      /\ srvCid # 0 => srvCid' = srvCid
      /\ completed => srvCid # 0
  <2>1. CASE UNCHANGED <<srvCid, nextCid>>  BY <2>1, Zenon DEF Claims
  <2>2. CASE \E cid \in {srvCid, nextCid} : ExchangeId(cid)
    BY <2>2, SMTT(30) DEF ExchangeId, Claims
  <2> QED  BY <2>1, <2>2, Zenon DEF StartKeeper
<1>3. CASE pc' = "recovered" /\ ~ret'.ok /\ UNCHANGED lease
  <2>1. Control'  BY <1>1, <1>3, Zenon DEF Control, NothingSentWhileLost, Recovering
  <2>2. Claims'  BY <1>1, <1>2, <1>3, Zenon DEF Claims, ReclaimBeforeComplete, Tracked
  <2> QED  BY <2>1, <2>2
<1>4. CASE pc' = "swap" /\ lease' = [on |-> TRUE, up |-> TRUE, failed |-> FALSE]
  <2>1. Control'  BY <1>1, <1>4, Zenon DEF Control, NothingSentWhileLost, Recovering
  <2>2. Claims'  BY <1>1, <1>2, <1>4, Zenon DEF Claims, ReclaimBeforeComplete, Tracked
  <2> QED  BY <2>1, <2>2
<1>5. ASSUME NEW e \in {StaleClient, Err(TRUE, FALSE, FALSE), Err(FALSE, FALSE, FALSE)}, RecoveryFails(e)
      PROVE  pc' = "recovered" /\ ~ret'.ok
  BY <1>5, Bad, Zenon DEF RecoveryFails
<1> QED  BY <1>3, <1>4, <1>5, Zenon DEF StartKeeper

\* recover_session
LEMMA RecoverInv ==
    ASSUME Safe,
           \/ StopLease \/ ConnectExchange \/ ConnectCreate \/ AllRelocked \/ ReclaimComplete
           \/ RefreshFsinfo \/ StartKeeper \/ Swap \/ Recovered
           \/ \E t \in Tokens : CheckRecovered(t) \/ ReclaimLock(t)
    PROVE  Control' /\ Claims'
<1> USE DEF Safe, Kinds, Sessions, Recoveries, Result, srvVars, cliVars, envVars
<1>1. CASE StopLease
  <2>1. Control'
    BY <1>1, Zenon DEF Control, NothingSentWhileLost, Valid, Recovering, StopLease, NoLease
  <2>2. Claims'
    BY <1>1, Zenon DEF Control, Claims, ReclaimBeforeComplete, Tracked, Recovering, StopLease
  <2> QED  BY <2>1, <2>2, Zenon
<1>2. CASE AllRelocked
  <2>1. /\ pc = "relock" /\ pc' = "complete" /\ rec.todo = {}
        /\ UNCHANGED <<me, lease, reg, rec, srvCid, nextCid, completed>>
    BY <1>2, Zenon DEF AllRelocked
  <2>2. Control'  BY <2>1, Zenon DEF Control, NothingSentWhileLost, Valid, Recovering
  <2>3. Claims'  BY <2>1, Zenon DEF Claims, ReclaimBeforeComplete, Tracked
  <2> QED  BY <2>2, <2>3
<1>3. CASE RefreshFsinfo
  <2>1. pc = "fsinfo" /\ UNCHANGED <<me, lease, reg, srvCid, nextCid, completed>>
    BY <1>3, Zenon DEF RefreshFsinfo
  <2>2. CASE RecoveryFails(BadSession)  BY <2>1, <2>2, Bad, RecoveryEnds, Zenon
  <2>3. CASE RecoveryRpcFails  BY <2>1, <2>3, RpcEnds, Zenon
  <2>4. CASE pc' = (IF AutoRenew THEN "keeper" ELSE "swap") /\ UNCHANGED rec
    <3>1. Control'  BY <2>1, <2>4, Zenon DEF Control, NothingSentWhileLost, Recovering
    <3>2. Claims'  BY <2>1, <2>4, Zenon DEF Claims, ReclaimBeforeComplete, Tracked
    <3> QED  BY <3>1, <3>2
  <2> QED  BY <1>3, <2>2, <2>3, <2>4, Zenon DEF RefreshFsinfo
<1>4. CASE Swap
  <2>1. Control'
    BY <1>4, Zenon DEF Control, NothingSentWhileLost, Valid, Recovering, Swap, LockLost, Err
  <2>2. Claims'
    BY <1>4, Zenon DEF Claims, ReclaimBeforeComplete, Tracked, Swap
  <2> QED  BY <2>1, <2>2
<1>5. CASE Recovered
  <2>1. pc = "recovered" /\ UNCHANGED <<me, lease, reg, srvCid, nextCid, completed>>
    BY <1>5, Zenon DEF Recovered
  <2>2. Control'
    BY <1>5, <2>1, SMTT(30) DEF Control, NothingSentWhileLost, Valid, Recovering, Recovered,
       Finish, Return,
                      NoRec, Replayable, Ok, Cleanup, Err, BadSession
  <2>3. rec' = NoRec /\ pc' \in {"send", "entry", "return", "idle"}
    BY <1>5, Zenon DEF Recovered, Finish, Return
  <2>4. Claims'  BY <2>1, <2>3, Zenon DEF Claims, ReclaimBeforeComplete, Tracked, NoRec
  <2> QED  BY <2>2, <2>4
<1> QED
  BY <1>1, <1>2, <1>3, <1>4, <1>5, ConnectExchangeInv, ConnectCreateInv, CheckRecoveredInv,
     ReclaimLockInv, ReclaimCompleteInv, StartKeeperInv

\* the operation goes on or returns
LEMMA OperationReturnsInv ==
    ASSUME Safe, OperationReturns
    PROVE  Control' /\ Claims'
<1>1. /\ pc' \in {"idle", "entry"} /\ rec' = NoRec
      /\ UNCHANGED <<me, lease, reg, srvCid, completed, nextCid>>
  BY Zenon DEF OperationReturns, TryAgain, NextStep, Finish, srvVars, cliVars, envVars
<1> QED  BY <1>1, Rests, Zenon

\* What the operations do with the result, the keeper, and cancellation
LEMMA ReturnInv ==
    ASSUME Safe,
           OperationReturns \/ LockGranted \/ HeartbeatRefused \/ HeartbeatLost \/ CancelSend \/ CancelRecovery
    PROVE  Control' /\ Claims'
<1> USE DEF Safe, Kinds, Sessions, Leases, Entries, Operations, Recoveries, Result, srvVars, cliVars,
            ctlVars, envVars, histVars, Ok, Err, Refused, Interrupted, ReplyLost, BadSession,
            StaleClient, LockLost, Cleanup, Release
<1>1. CASE LockGranted
  <2>1. Control'
    BY <1>1, Zenon DEF Control, NothingSentWhileLost, Valid, Recovering, LockGranted, Finish, NoRec
  <2>2. Claims'
    BY <1>1, Zenon DEF Control, Claims, ReclaimBeforeComplete, Tracked, Recovering, LockGranted,
       Finish, NoRec
  <2> QED  BY <2>1, <2>2, Zenon
<1>2. CASE HeartbeatRefused
  <2>1. Control'
    BY <1>2 DEF Control, NothingSentWhileLost, Valid, Recovering, HeartbeatRefused, HeartbeatFails
  <2>2. Claims'
    BY <1>2, Zenon DEF Control, Claims, ReclaimBeforeComplete, Tracked, Recovering,
       HeartbeatRefused, HeartbeatFails
  <2> QED  BY <2>1, <2>2
<1>3. CASE HeartbeatLost
  <2>1. Control'
    BY <1>3, Zenon DEF Control, NothingSentWhileLost, Valid, Recovering, HeartbeatLost,
       HeartbeatFails
  <2>2. Claims'
    BY <1>3, Zenon DEF Control, Claims, ReclaimBeforeComplete, Tracked, Recovering, HeartbeatLost,
       HeartbeatFails
  <2> QED  BY <2>1, <2>2
<1>4. CASE CancelSend
  <2>1. Control'
    BY <1>4, Zenon DEF Control, NothingSentWhileLost, Valid, Recovering, CancelSend, Finish, NoRec
  <2>2. Claims'
    BY <1>4, Zenon DEF Control, Claims, ReclaimBeforeComplete, Tracked, Recovering, CancelSend,
       Finish, NoRec
  <2> QED  BY <2>1, <2>2
<1>5. CASE CancelRecovery
  <2>1. Control'
    BY <1>5, Zenon DEF Control, NothingSentWhileLost, Valid, Recovering, CancelRecovery, Finish,
       NoRec, NoLease
  <2>2. Claims'
    BY <1>5 DEF Control, Claims, ReclaimBeforeComplete, Tracked, Recovering, CancelRecovery,
       Finish, NoRec, NoLease
  <2> QED  BY <2>1, <2>2
<1> QED  BY <1>1, <1>2, <1>3, <1>4, <1>5, OperationReturnsInv, Zenon

\* The invariant holds initially,
LEMMA InitInv == ASSUME Init PROVE Inv
<1>1. Control
  <2>1. ~me.pending /\ pc = "idle" /\ rec.cont = "none" /\ (AutoRenew => lease.on)
    BY Zenon DEF Init, NoRec
  <2> QED  BY <2>1, Zenon DEF Control, NothingSentWhileLost, Recovering
<1>2. Claims
  BY SMTT(30) DEF Init, Claims, ReclaimBeforeComplete, Tracked, NoRec
<1> QED  BY <1>1, <1>2, InitType, Zenon DEF Inv

\* and every step keeps it.
LEMMA NextInv == ASSUME Inv, [Next]_vars PROVE Inv'
<1>1. Safe  BY Zenon DEF Inv, Safe, Kinds, TypeOK
<1>2. Control' /\ Claims'
  <2>1. CASE ServerNext  BY <1>1, <2>1, ServerInv, Zenon
  <2>2. CASE ProgramNext  BY <1>1, <2>2, ProgramInv, Zenon
  <2>3. CASE ClientNext  BY <1>1, <2>3, SendInv, RecoverInv, ReturnInv, Zenon DEF ClientNext
  <2>4. CASE HeartbeatRefused \/ HeartbeatLost \/ CancelSend \/ CancelRecovery
    BY <1>1, <2>4, ReturnInv, Zenon
  <2>5. CASE UNCHANGED vars
    BY <1>1, <2>5, Untouched DEF vars, srvVars, cliVars, ctlVars, envVars
  <2> QED  BY <2>1, <2>2, <2>3, <2>4, <2>5, Zenon DEF Next
<1> QED  BY <1>2, NextType, Zenon DEF Inv

-----------------------------------------------------------------------------
(* The theorems                                                            *)

\* The state of the client and the server always has its type.
THEOREM TypeCorrect == Spec => []TypeOK
BY InitType, NextType, PTL DEF Spec

\* The invariant holds in every behaviour.
LEMMA Invariant == Spec => []Inv
BY InitInv, NextInv, PTL DEF Spec

\* While a lock is lost and not handed back, compound_status sends only
\* requests that release state: whatever the order of restarts, revocations,
\* lost replies, cancellations and recoveries.
THEOREM NothingSentOnLostLock == Spec => []NothingSentWhileLost
<1>1. Inv => NothingSentWhileLost  BY Zenon DEF Inv, Control
<1> QED  BY <1>1, Invariant, PTL

\* With automatic renewal no request is sent while no lease keeper runs:
\* recovery_pending outlives every failed or cancelled recovery.
THEOREM KeeperRunsWhileUsed == Spec => []RenewedWhileUsed
<1>1. Inv => RenewedWhileUsed  BY Zenon DEF Inv, Control, RenewedWhileUsed
<1> QED  BY <1>1, Invariant, PTL

\* recover_session reports RECLAIM_COMPLETE only after every lock that is not
\* marked lost was carried over to the client id the server holds.
THEOREM ReclaimedBeforeComplete == Spec => []ReclaimBeforeComplete
<1>1. Inv => ReclaimBeforeComplete  BY DEF Inv, Claims
<1> QED  BY <1>1, Invariant, PTL
=============================================================================
