---------------------------- MODULE DelayedRetry ----------------------------
(***************************************************************************)
(* The retry loops of the NFSv4 client over a session that works: the      *)
(* DELAY/GRACE loop inside compound_status, the loops around OPEN, LOCK    *)
(* and CLOSE that rebuild a request carrying a state-owner seqid, the      *)
(* sequence id of the session's only slot, and the clean-up of             *)
(* open_with_owner_failure_cleanup when a later part of an OPEN fails.     *)
(*                                                                         *)
(* A COMPOUND is the sequence of its operations' names.  The server        *)
(* executes it up to the first operation it answers with DELAY or GRACE    *)
(* ("delay") or with another status ("error").  Lost replies and lost      *)
(* sessions are Recovery.tla's.                                            *)
(***************************************************************************)
EXTENDS Naturals, Sequences

CONSTANTS
    MaxRetries,    \* RetryPolicy::max_retries
    MaxCalls       \* bound: how many calls the program makes

ASSUME ConstantsAssumption == MaxRetries \in Nat /\ MaxCalls \in Nat

VARIABLES
    seq,       \* Client::sequence_id
    slot,      \* the server's sequence id of slot 0
    pc,        \* "idle", "send" in compound_status, "got" its response
    call,      \* the public call, the phase it is in, the error it will return
    retry,     \* compound_status: retry
    outer,     \* open, lock_opened, close: retry
    reply,     \* how many operations succeeded, and the status
    opens,     \* open states the server holds for this client
    deleg,     \* the server granted a delegation with the last OPEN
    path,      \* the file an open_temp creates exists
    execs,     \* operations that took effect during this call
    sent,      \* requests of this call
    unclean,   \* a clean-up request of this call was refused
    result,    \* what the last call returned
    calls

clientVars == <<seq, call, retry, outer, result>>
serverVars == <<slot, opens, deleg, path>>
histVars == <<execs, sent, unclean, calls>>
vars == <<clientVars, serverVars, histVars, pc, reply>>

-----------------------------------------------------------------------------
(* What may be sent again                                                  *)

\* operation_can_replay_after_successful_prefix
ReplayablePrefix ==
    {"PutRootFh", "PutPubFh", "PutFh", "Lookup", "Lookupp", "Access", "SecInfo", "SecInfoNoName",
     "NVerify", "GetFh", "GetAttr", "Read", "ReadDir", "ReadLink", "ReadPlus", "Seek", "Verify",
     "SaveFh", "RestoreFh", "LockTest", "TestStateIds", "GetDeviceInfo", "GetDeviceList",
     "OffloadStatus"}

\* operation_can_retry_after_delayed_result: not the ones with a seqid
CarriesSeqid ==
    {"Open", "OpenConfirm", "Close", "Lock", "LockUnlock", "OpenDowngrade", "Sequence"}

\* Slips: whatever precedes the delayed operation is sent again; the result
\* of SEQUENCE is not counted.
AllowsDelayedRetry_AnyPrefix(ops, r) ==
    r.status = "delay" /\ (r.ok = 0 \/ ops[r.ok] \notin CarriesSeqid)

AllowsDelayedRetry_OffByOne(ops, r) ==
    /\ r.status = "delay"
    /\ \/ r.ok = 0
       \/ /\ \A i \in 1..r.ok : ops[i] \in ReplayablePrefix
          /\ ops[r.ok] \notin CarriesSeqid

\* response_allows_delayed_retry: SEQUENCE was delayed, or everything before
\* the delayed operation can be repeated and so can the operation itself.
AllowsDelayedRetry(ops, r) ==
    /\ r.status = "delay"
    /\ \/ r.ok = 0
       \/ /\ \A i \in 1..(r.ok - 1) : ops[i] \in ReplayablePrefix
          /\ ops[r.ok] \notin CarriesSeqid

\* The COMPOUND of each phase.
Compound ==
    [inspect |-> <<"Lookup", "GetAttr">>,
     write   |-> <<"PutFh", "Write">>,
     lock    |-> <<"PutFh", "Lock">>,
     open    |-> <<"Lookup", "Open", "GetFh">>,
     attr    |-> <<"Lookup", "OpenAttr", "Open", "GetFh">>,
     deleg   |-> <<"PutFh", "DelegReturn">>,
     close   |-> <<"PutFh", "Close">>,
     remove  |-> <<"Lookup", "Remove">>]

\* The operation a phase's own loop rebuilds with a new seqid.
Rebuilt == [inspect |-> "none", write |-> "none", lock |-> "Lock", open |-> "Open", attr |-> "Open",
            deleg |-> "none", close |-> "Close", remove |-> "none"]

\* Operations whose effect must not be repeated.
Effects == {"Write", "Lock", "Open", "DelegReturn", "Close", "Remove"}

Ops == Compound[call.phase]

Statuses == {"ok", "delay", "error"}
NoReply == [ok |-> 0, status |-> "ok"]

TypeOK ==
    /\ seq \in Nat /\ slot \in Nat
    /\ pc \in {"idle", "send", "got"}
    /\ call \in [kind : DOMAIN Compound \cup {"temp"}, phase : DOMAIN Compound, saved : Statuses]
    /\ retry \in 0..MaxRetries /\ outer \in 0..MaxRetries
    /\ reply \in [ok : Nat, status : Statuses]
    /\ opens \in {0, 1} /\ deleg \in BOOLEAN /\ path \in BOOLEAN
    /\ execs \in [Effects -> Nat] /\ sent \in Nat /\ unclean \in BOOLEAN
    /\ result \in Statuses /\ calls \in 0..MaxCalls

Init ==
    /\ seq = 1 /\ slot = 0
    /\ pc = "idle" /\ reply = NoReply
    /\ call = [kind |-> "inspect", phase |-> "inspect", saved |-> "ok"]
    /\ retry = 0 /\ outer = 0
    /\ opens = 0 /\ deleg = FALSE /\ path = FALSE
    /\ execs = [op \in Effects |-> 0] /\ sent = 0 /\ unclean = FALSE
    /\ result = "ok" /\ calls = 0

-----------------------------------------------------------------------------
(* The program                                                             *)

Begin(kind, phase) ==
    /\ pc = "idle" /\ calls < MaxCalls
    /\ pc' = "send" /\ calls' = calls + 1
    /\ call' = [kind |-> kind, phase |-> phase, saved |-> "ok"]
    /\ retry' = 0 /\ outer' = 0
    /\ execs' = [op \in Effects |-> 0] /\ sent' = 0 /\ unclean' = FALSE
    /\ UNCHANGED <<seq, serverVars, reply, result>>

Inspect == Begin("inspect", "inspect")

\* open, open_temp, open_named_attr; the model follows one file at a time.
OpenFile ==
    /\ opens = 0 /\ ~deleg /\ ~path
    /\ \E kp \in {<<"open", "open">>, <<"temp", "open">>, <<"attr", "attr">>} : Begin(kp[1], kp[2])

\* Operations on a file the program has open.
UseFile == opens = 1 /\ result = "ok" /\ \E k \in {"write", "lock", "close"} : Begin(k, k)

-----------------------------------------------------------------------------
(* compound_status                                                         *)

\* Slip: the sequence id advances with every reply.
NextSeq_Always(ok) == seq + 1

\* sequence_succeeded
NextSeq(ok) == IF ok > 0 THEN seq + 1 ELSE seq

\* What the server answers: the number of operations that succeed, SEQUENCE
\* first, and the status of the one that does not.
Reply ==
    {r \in [ok : 0..(Len(Ops) + 1), status : Statuses] :
        /\ (r.status = "ok") <=> (r.ok = Len(Ops) + 1)
        /\ seq # slot + 1 => r.ok = 0 /\ r.status = "error"}

Took(op, r) == \E i \in 1..(r.ok - 1) : Ops[i] = op

Serve(r) ==
    /\ slot' = IF r.ok > 0 THEN seq ELSE slot
    /\ opens' = IF Took("Open", r) THEN 1 ELSE IF Took("Close", r) THEN 0 ELSE opens
    /\ IF Took("Open", r) THEN deleg' \in BOOLEAN
       ELSE deleg' = (deleg /\ ~Took("DelegReturn", r))
    /\ path' = IF Took("Open", r) THEN call.kind = "temp" ELSE path /\ ~Took("Remove", r)
    /\ execs' = [op \in Effects |-> IF Took(op, r) THEN execs[op] + 1 ELSE execs[op]]

\* Slip: one retry too many.
WithinBudget_OffByOne(n) == n <= MaxRetries

\* RetryPolicy::delay_for_retry
WithinBudget(n) == n < MaxRetries

Send ==
    /\ pc = "send"
    /\ \E r \in Reply :
          /\ Serve(r)
          /\ seq' = NextSeq(r.ok)
          /\ IF AllowsDelayedRetry(Ops, r) /\ WithinBudget(retry)
             THEN retry' = retry + 1 /\ UNCHANGED <<pc, reply>>
             ELSE pc' = "got" /\ reply' = r /\ UNCHANGED retry
    /\ sent' = sent + 1
    /\ UNCHANGED <<call, outer, result, unclean, calls>>

-----------------------------------------------------------------------------
(* What the operations do with the response                                *)

\* response_operation_has_delayed_status
OwnerDelayed ==
    /\ reply.status = "delay" /\ reply.ok \in DOMAIN Ops
    /\ Ops[reply.ok] = Rebuilt[call.phase]

\* Slip: the loop goes round without sending the request again.
Rebuild_Stuck == pc = "got" /\ OwnerDelayed /\ WithinBudget(outer) /\ UNCHANGED vars

Rebuild ==
    /\ pc = "got" /\ OwnerDelayed /\ WithinBudget(outer)
    /\ outer' = outer + 1 /\ retry' = 0 /\ pc' = "send"
    /\ reply' = NoReply /\ UNCHANGED <<seq, call, result, serverVars, histVars>>

Settled == pc = "got" /\ ~(OwnerDelayed /\ WithinBudget(outer))

Finish(status) ==
    /\ pc' = "idle" /\ result' = status
    /\ retry' = 0 /\ outer' = 0 /\ UNCHANGED call

Phase(phase, saved) ==
    /\ pc' = "send" /\ call' = [call EXCEPT !.phase = phase, !.saved = saved]
    /\ retry' = 0 /\ outer' = 0
    /\ UNCHANGED result

SimpleReturns ==
    /\ Settled
    /\ call.phase \in {"inspect", "write", "lock"} \/ call.kind = "close"
    /\ Finish(reply.status)
    /\ reply' = NoReply /\ UNCHANGED <<seq, serverVars, histVars>>

OpenTook == Took("Open", reply)

OpenRefused ==
    /\ Settled /\ call.phase \in {"open", "attr"} /\ ~OpenTook
    /\ Finish(reply.status)
    /\ reply' = NoReply /\ UNCHANGED <<seq, serverVars, histVars>>

\* Slip: the error is returned and the open state forgotten.
OpenUnusable_Forgotten ==
    /\ Settled /\ call.phase \in {"open", "attr"} /\ OpenTook
    /\ Finish(IF reply.status = "ok" THEN "error" ELSE reply.status)
    /\ reply' = NoReply /\ UNCHANGED <<seq, serverVars, histVars>>

\* cleanup_open_response, or a result validate_open_result rejects: CLOSE.
OpenUnusable ==
    /\ Settled /\ call.phase \in {"open", "attr"} /\ OpenTook
    /\ Phase("close", IF reply.status = "ok" THEN "error" ELSE reply.status)
    /\ reply' = NoReply /\ UNCHANGED <<seq, serverVars, histVars>>

OpenReturns ==
    /\ Settled /\ call.phase \in {"open", "attr"} /\ reply.status = "ok"
    /\ IF deleg THEN Phase("deleg", "ok") ELSE Finish("ok")
    /\ reply' = NoReply /\ UNCHANGED <<seq, serverVars, histVars>>

\* return_open_delegation, and CLOSE when it fails
DelegReturned ==
    /\ Settled /\ call.phase = "deleg"
    /\ IF reply.status = "ok" THEN Finish("ok") /\ UNCHANGED unclean
       ELSE Phase("close", reply.status) /\ unclean' = TRUE
    /\ reply' = NoReply /\ UNCHANGED <<seq, serverVars, execs, sent, calls>>

\* cleanup_failed_open
CleanupClosed ==
    /\ Settled /\ call.phase = "close" /\ call.kind # "close"
    /\ unclean' = (unclean \/ reply.status # "ok")
    /\ IF call.kind = "temp" THEN Phase("remove", call.saved) ELSE Finish(call.saved)
    /\ reply' = NoReply /\ UNCHANGED <<seq, serverVars, execs, sent, calls>>

CleanupRemoved ==
    /\ Settled /\ call.phase = "remove"
    /\ unclean' = (unclean \/ reply.status # "ok")
    /\ Finish(call.saved)
    /\ reply' = NoReply /\ UNCHANGED <<seq, serverVars, execs, sent, calls>>

Handle ==
    \/ Rebuild \/ SimpleReturns \/ OpenRefused \/ OpenUnusable \/ OpenReturns
    \/ DelegReturned \/ CleanupClosed \/ CleanupRemoved

Next == Inspect \/ OpenFile \/ UseFile \/ Send \/ Handle

Spec == Init /\ [][Next]_vars

\* The server answers and the client goes on; nothing is assumed of the
\* answers, every one may be DELAY.
FairSpec == Spec /\ WF_vars(Send \/ Handle)

-----------------------------------------------------------------------------
(* Properties                                                              *)

\* However the two loops nest, no operation with an effect takes effect twice
\* in one call: compound_status repeats a request only when nothing before the
\* delayed operation had an effect.
NoReexecution == \A op \in Effects : execs[op] <= 1

\* Every request carries the sequence id the server expects for the slot, so
\* none is taken for a retransmission: the id advances with each SEQUENCE that
\* succeeded and only then, also when the rest of the COMPOUND failed.
SlotInStep == seq = slot + 1

\* A call of which nothing took effect returns DELAY only when the whole
\* budget of RetryPolicy was spent on it.
RetriedWhenSafe ==
    pc = "idle" /\ result = "delay" /\ (\A op \in Effects : execs[op] = 0) => sent > MaxRetries

\* A failed open leaves no open state and no temporary file on the server
\* unless a request of its clean-up was refused as well.
NothingLeftBehind ==
    pc = "idle" /\ result # "ok" /\ call.kind \in {"open", "temp", "attr"} /\ ~unclean =>
        opens = 0 /\ ~path

\* Every call returns, however often the server answers DELAY.
CallReturns == pc = "send" ~> pc = "idle"

\* open_with_owner_failure_cleanup: no delegation is kept, since the client
\* runs no callback service, unless the server refused to take it back.
NoDelegationKept == pc = "idle" /\ ~unclean => ~deleg
=============================================================================
