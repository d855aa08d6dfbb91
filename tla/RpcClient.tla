----------------------------- MODULE RpcClient -----------------------------
(***************************************************************************)
(* The ONC RPC client of rpc.rs and tokio_rpc.rs: one call at a time over  *)
(* one TCP stream, transaction ids that wrap, and the `interrupted` flag   *)
(* that keeps a stream whose position is not known from being used again.  *)
(*                                                                         *)
(* A call's arguments and its reply are abstracted to the identity of the  *)
(* call: a reply carries the call it answers, so that taking another       *)
(* call's reply for one's own is visible.  A stream is the sequence of     *)
(* whole records in flight; fragments are put together by read_record.     *)
(* Streams that were abandoned stay in the model: the server may still     *)
(* read a request from one of them.                                        *)
(***************************************************************************)
EXTENDS Naturals, Sequences

CONSTANTS
    Calls,      \* the calls the program makes, each once
    MaxConns,   \* bound: how many streams are opened
    XidMod,     \* transaction ids are u32: 2^32 in the code
    NoCall      \* not a member of Calls

ASSUME ConstantsAssumption ==
    /\ MaxConns \in Nat \ {0}
    /\ XidMod \in Nat \ {0, 1}
    /\ NoCall \notin Calls

Conns == 1..MaxConns
Xids == 0..(XidMod - 1)
Results == {"none", "ok", "rejected", "invalid", "encode", "unknown", "cancelled"}

Request == [xid : Xids, call : Calls]
Reply == [xid : Xids, kind : {"ok", "rejected", "garbled"}, call : Calls]

VARIABLES
    xid,           \* RpcClient.xid
    interrupted,   \* RpcClient.interrupted
    conn,          \* which stream RpcClient.stream is
    pc,            \* "idle", or "reading" inside call()
    cur,           \* the call in progress
    toServer,      \* requests in flight, per stream
    toClient,      \* replies in flight, per stream
    execs,         \* how often the server executed each call
    result,        \* what call() returned
    payload        \* whose reply was returned by a successful call()

clientVars == <<xid, interrupted, conn, pc, cur>>
wireVars == <<toServer, toClient>>
outVars == <<result, payload>>
vars == <<clientVars, wireVars, execs, outVars>>

TypeOK ==
    /\ xid \in Xids
    /\ interrupted \in BOOLEAN
    /\ conn \in Conns
    /\ pc \in {"idle", "reading"}
    /\ cur \in Calls \cup {NoCall}
    /\ toServer \in [Conns -> Seq(Request)]
    /\ toClient \in [Conns -> Seq(Reply)]
    /\ execs \in [Calls -> Nat]
    /\ result \in [Calls -> Results]
    /\ payload \in [Calls -> Calls \cup {NoCall}]

Init ==
    /\ xid \in Xids
    /\ interrupted = FALSE
    /\ conn = 1
    /\ pc = "idle"
    /\ cur = NoCall
    /\ toServer = [g \in Conns |-> <<>>]
    /\ toClient = [g \in Conns |-> <<>>]
    /\ execs = [c \in Calls |-> 0]
    /\ result = [c \in Calls |-> "none"]
    /\ payload = [c \in Calls |-> NoCall]

-----------------------------------------------------------------------------
(* The client                                                              *)

\* Slip: the increment does not wrap.
NextXid_NoWrap(x) == x + 1

\* next_xid: wrapping increment that skips zero.
NextXid(x) == IF (x + 1) % XidMod = 0 THEN 1 % XidMod ELSE (x + 1) % XidMod

Unused(c) == pc = "idle" /\ result[c] = "none"

Return(c, r) == result' = [result EXCEPT ![c] = r]

\* call() on a stream whose previous call did not complete.
CallInvalid(c) ==
    /\ Unused(c)
    /\ interrupted
    /\ Return(c, "invalid")
    /\ UNCHANGED <<clientVars, wireVars, execs, payload>>

\* encode_call fails: the xid is used up, the stream is untouched.
CallEncodeError(c) ==
    /\ Unused(c)
    /\ ~interrupted
    /\ xid' = NextXid(xid)
    /\ Return(c, "encode")
    /\ UNCHANGED <<interrupted, conn, pc, cur, wireVars, execs, payload>>

\* write_record succeeds.
CallWrite(c) ==
    /\ Unused(c)
    /\ ~interrupted
    /\ xid' = NextXid(xid)
    /\ interrupted' = TRUE
    /\ toServer' = [toServer EXCEPT ![conn] = Append(@, [xid |-> xid', call |-> c])]
    /\ pc' = "reading"
    /\ cur' = c
    /\ UNCHANGED <<conn, toClient, execs, outVars>>

\* Slip: the flag is set only once the write has succeeded.
CallWriteFails_NotMarked(c) ==
    /\ Unused(c)
    /\ ~interrupted
    /\ xid' = NextXid(xid)
    /\ \/ toServer' = [toServer EXCEPT ![conn] = Append(@, [xid |-> xid', call |-> c])]
       \/ UNCHANGED toServer
    /\ Return(c, "unknown")
    /\ UNCHANGED <<interrupted, conn, pc, cur, toClient, execs, payload>>

\* write_record fails or its future is dropped.  The record may have been
\* cut short, which the server discards, or be complete (the flush failed).
CallWriteFails(c) ==
    /\ Unused(c)
    /\ ~interrupted
    /\ xid' = NextXid(xid)
    /\ interrupted' = TRUE
    /\ \/ toServer' = [toServer EXCEPT ![conn] = Append(@, [xid |-> xid', call |-> c])]
       \/ UNCHANGED toServer
    /\ \E r \in {"unknown", "cancelled"} : Return(c, r)
    /\ UNCHANGED <<conn, pc, cur, toClient, execs, payload>>

\* Slip: a reply that cannot be decoded is taken for a refusal.
Decode_GarbledIsRefusal(expected, reply) ==
    IF reply.xid # expected THEN "unknown"
    ELSE IF reply.kind = "garbled" THEN "rejected" ELSE reply.kind

\* The reply decode_reply sees decides what call() returns and whether the
\* stream may be used again.
Decode(expected, reply) ==
    IF reply.xid # expected \/ reply.kind = "garbled" THEN "unknown" ELSE reply.kind

\* read_record delivers a whole record and decode_reply looks at it.
ReadReply ==
    /\ pc = "reading"
    /\ toClient[conn] # <<>>
    /\ LET reply == Head(toClient[conn])
           verdict == Decode(xid, reply)
       IN  /\ interrupted' = (verdict = "unknown")
           /\ Return(cur, verdict)
           /\ payload' = [payload EXCEPT ![cur] = IF verdict = "ok" THEN reply.call ELSE @]
    /\ toClient' = [toClient EXCEPT ![conn] = Tail(@)]
    /\ pc' = "idle"
    /\ cur' = NoCall
    /\ UNCHANGED <<xid, conn, toServer, execs>>

\* Slips: the stream is used again after a timeout; the timeout is ignored.
ReadFails_Reuse ==
    /\ pc = "reading"
    /\ Return(cur, "unknown")
    /\ interrupted' = FALSE /\ pc' = "idle" /\ cur' = NoCall
    /\ UNCHANGED <<xid, conn, wireVars, execs, payload>>

ReadFails_Ignored == pc = "reading" /\ UNCHANGED vars

\* read_record fails: a timeout, a reset, an oversized or malformed record.
ReadFails ==
    /\ pc = "reading"
    /\ Return(cur, "unknown")
    /\ pc' = "idle"
    /\ cur' = NoCall
    /\ UNCHANGED <<xid, interrupted, conn, wireVars, execs, payload>>

\* tokio: the future of call() is dropped while it awaits the reply.
Cancel ==
    /\ pc = "reading"
    /\ Return(cur, "cancelled")
    /\ pc' = "idle"
    /\ cur' = NoCall
    /\ UNCHANGED <<xid, interrupted, conn, wireVars, execs, payload>>

\* A new RpcClient replaces the old one (reconnect or session recovery).
Reconnect ==
    /\ pc = "idle"
    /\ conn < MaxConns
    /\ conn' = conn + 1
    /\ xid' \in Xids
    /\ interrupted' = FALSE
    /\ UNCHANGED <<pc, cur, wireVars, execs, outVars>>

-----------------------------------------------------------------------------
(* The server, from how the client uses it.  It reads a stream in order,   *)
(* also one the client has abandoned, and answers with the request's xid.  *)

ServerAnswer(g, kind) ==
    /\ toServer[g] # <<>>
    /\ toServer' = [toServer EXCEPT ![g] = Tail(@)]
    /\ toClient' = [toClient EXCEPT ![g] = Append(@,
          [xid |-> Head(toServer[g]).xid, kind |-> kind, call |-> Head(toServer[g]).call])]
    /\ UNCHANGED <<clientVars, outVars>>

ServerExecute(g) ==
    /\ \E kind \in {"ok", "garbled"} : ServerAnswer(g, kind)
    /\ execs' = [execs EXCEPT ![Head(toServer[g]).call] = @ + 1]

ServerReject(g) == ServerAnswer(g, "rejected") /\ UNCHANGED execs

\* The connection goes down with requests or replies still in it.
Lose(g) ==
    /\ toServer[g] # <<>> \/ toClient[g] # <<>>
    /\ toServer' = [toServer EXCEPT ![g] = <<>>]
    /\ toClient' = [toClient EXCEPT ![g] = <<>>]
    /\ UNCHANGED <<clientVars, execs, outVars>>

Next ==
    \/ \E c \in Calls :
          CallInvalid(c) \/ CallEncodeError(c) \/ CallWrite(c) \/ CallWriteFails(c)
    \/ ReadReply \/ ReadFails \/ Cancel \/ Reconnect
    \/ \E g \in Conns : ServerExecute(g) \/ ServerReject(g) \/ Lose(g)

Spec == Init /\ [][Next]_vars

\* A timeout is configured, so a read that gets no record fails in the end.
FairSpec == Spec /\ WF_vars(ReadReply \/ ReadFails)

-----------------------------------------------------------------------------
(* Properties                                                              *)

\* A call that returns a payload returns the payload of its own reply: a late
\* reply to an earlier call, whose xid may have come round again, is never
\* handed to a later one (call() refuses an interrupted stream).
ReplyIsOwn == \A c \in Calls : payload[c] \in {c, NoCall}

\* A stream on which a call may still be made is empty in both directions,
\* and while a call waits the stream holds at most its own request or reply:
\* the discipline of the `interrupted` flag that ReplyIsOwn rests on.
StreamInStep ==
    /\ ~interrupted => toServer[conn] = <<>> /\ toClient[conn] = <<>>
    /\ pc = "reading" =>
          /\ interrupted
          /\ Len(toServer[conn]) + Len(toClient[conn]) <= 1
          /\ \A i \in 1..Len(toServer[conn]) : toServer[conn][i] = [xid |-> xid, call |-> cur]
          /\ \A i \in 1..Len(toClient[conn]) : toClient[conn][i].call = cur

\* A call in progress returns: the read timeout bounds the wait.
CallReturns == pc = "reading" ~> pc = "idle"

\* The transport implements the at-most-once contract: call() never sends a
\* request twice, reports success only for an executed call, and reports a
\* definite error only for a call that is not and will not be executed.
ReportOf(r) ==
    CASE r = "none" -> "none"
      [] r = "ok" -> "ok"
      [] r \in {"unknown", "cancelled"} -> "unknown"
      [] OTHER -> "error"

Contract == INSTANCE AtMostOnce WITH
    begun <- {c \in Calls : result[c] # "none" \/ c = cur},
    reported <- [c \in Calls |-> ReportOf(result[c])]

ContractSpec == Contract!Spec
=============================================================================
