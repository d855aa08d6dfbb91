-------------------------- MODULE RpcClientProofs --------------------------
(***************************************************************************)
(* Proofs about RpcClient for any set of calls, any number of streams and  *)
(* any width of the transaction id.                                        *)
(***************************************************************************)
EXTENDS RpcClient, SequenceTheorems, TLAPS

\* A stream carries one record at most, and nothing before it is opened.
OneRecord ==
    /\ \A g \in Conns : Len(toServer[g]) + Len(toClient[g]) <= 1
    /\ \A g \in Conns : g > conn => toServer[g] = <<>> /\ toClient[g] = <<>>

\* The call in progress.
InProgress ==
    /\ pc = "reading" <=> cur # NoCall
    /\ pc = "reading" => result[cur] = "none"

\* StreamInStep, in terms of the only record a stream can carry.
Discipline ==
    /\ ~interrupted => toServer[conn] = <<>> /\ toClient[conn] = <<>>
    /\ pc = "reading" =>
          /\ interrupted
          /\ toServer[conn] # <<>> => Head(toServer[conn]) = [xid |-> xid, call |-> cur]
          /\ toClient[conn] # <<>> => Head(toClient[conn]).call = cur

Inv == TypeOK /\ OneRecord /\ InProgress /\ Discipline /\ ReplyIsOwn

-----------------------------------------------------------------------------
(* Sequences of at most one record                                         *)

\* What writing a record to an empty stream gives.
LEMMA AppendToEmpty ==
    ASSUME NEW S, NEW s \in Seq(S), NEW x \in S, Len(s) = 0
    PROVE  /\ Append(s, x) \in Seq(S)
           /\ Append(s, x) # <<>>
           /\ Len(Append(s, x)) = 1
           /\ Head(Append(s, x)) = x
  OBVIOUS

\* What reading the only record of a stream leaves.
LEMMA TailOfOne ==
    ASSUME NEW S, NEW s \in Seq(S), s # <<>>, Len(s) <= 1
    PROVE  /\ Tail(s) = <<>>
           /\ Len(s) = 1
           /\ Head(s) \in S
  <1>0. Len(s) \in Nat \ {0}
    BY EmptySeq, Zenon
  <1>1. Len(s) = 1
    BY <1>0
  <1>2. Tail(s) \in Seq(S) /\ Len(Tail(s)) = 0
    BY <1>1
  <1>3. Tail(s) = <<>>
    <2>1. Tail(s) # <<>> => Len(Tail(s)) \in Nat \ {0}
      BY <1>2, EmptySeq, Zenon
    <2> QED BY <2>1, <1>2
  <1> QED BY <1>1, <1>3

\* An empty stream, by its length.
LEMMA EmptyByLength ==
    ASSUME NEW S, NEW s \in Seq(S)
    PROVE  /\ s = <<>> <=> Len(s) = 0
           /\ Len(s) \in Nat
  <1>1. s # <<>> => Len(s) \in Nat \ {0}
    BY EmptySeq, Zenon
  <1>2. Len(<<>>) = 0
    BY EmptySeq, Zenon
  <1> QED BY <1>1, <1>2

-----------------------------------------------------------------------------
(* The inductive invariant                                                 *)

\* next_xid stays in range and is never an id that the width cannot hold.
LEMMA NextXidType == ASSUME NEW x \in Xids PROVE NextXid(x) \in Xids
  <1>1. XidMod \in Nat /\ XidMod > 1
    BY ConstantsAssumption
  <1>2. (x + 1) % XidMod \in 0..(XidMod - 1) /\ 1 % XidMod \in 0..(XidMod - 1)
    BY <1>1 DEF Xids
  <1> QED BY <1>2 DEF NextXid, Xids

\* A fresh RpcClient: nothing in flight, the flag clear.
LEMMA InitInv == Init => Inv
  <1> SUFFICES ASSUME Init PROVE Inv
    OBVIOUS
  <1> USE DEF Init
  <1>1. TypeOK
    <2>1. 1 \in Conns
      BY ConstantsAssumption DEF Conns
    <2>2. toServer \in [Conns -> Seq(Request)] /\ toClient \in [Conns -> Seq(Reply)]
      BY EmptySeq
    <2>3. result \in [Calls -> Results] /\ payload \in [Calls -> Calls \cup {NoCall}]
      BY DEF Results
    <2> QED BY <2>1, <2>2, <2>3 DEF TypeOK
  <1>2. OneRecord
    BY EmptySeq DEF OneRecord, Conns
  <1>3. InProgress /\ Discipline
    BY ConstantsAssumption DEF InProgress, Discipline, Conns
  <1>4. ReplyIsOwn
    BY DEF ReplyIsOwn
  <1> QED BY <1>1, <1>2, <1>3, <1>4 DEF Inv

\* Steps that touch no stream: call() refuses, or fails to encode.
LEMMA QuietCallInv ==
    ASSUME Inv, NEW c \in Calls, CallInvalid(c) \/ CallEncodeError(c)
    PROVE  Inv'
  <1> USE DEF Inv, Unused, Return
  <1>1. TypeOK'
    BY NextXidType DEF TypeOK, CallInvalid, CallEncodeError, clientVars, wireVars, Results
  <1>2. OneRecord'
    BY DEF OneRecord, CallInvalid, CallEncodeError, clientVars, wireVars
  <1>3. InProgress'
    BY DEF InProgress, TypeOK, CallInvalid, CallEncodeError, clientVars
  <1>4. Discipline'
    BY DEF Discipline, CallInvalid, CallEncodeError, clientVars, wireVars
  <1>5. ReplyIsOwn'
    BY DEF ReplyIsOwn, CallInvalid, CallEncodeError
  <1> QED BY <1>1, <1>2, <1>3, <1>4, <1>5

\* Steps that may put a request on the stream.
LEMMA WriteInv ==
    ASSUME Inv, NEW c \in Calls, CallWrite(c) \/ CallWriteFails(c)
    PROVE  Inv'
  <1> USE DEF Inv, Unused, Return
  <1> DEFINE req == [xid |-> xid', call |-> c]
  <1>0. /\ ~interrupted /\ pc = "idle" /\ result[c] = "none" /\ interrupted' /\ conn' = conn
        /\ xid' = NextXid(xid) /\ toClient' = toClient /\ payload' = payload /\ execs' = execs
        /\ toServer' = [toServer EXCEPT ![conn] = Append(@, req)] \/ toServer' = toServer
    BY DEF CallWrite, CallWriteFails, outVars
  <1>1. xid' \in Xids /\ req \in Request
    BY <1>0, NextXidType DEF TypeOK, Request
  <1>2. /\ toServer[conn] \in Seq(Request) /\ toServer[conn] = <<>> /\ toClient[conn] = <<>>
        /\ Len(toServer[conn]) = 0 /\ Len(toClient[conn]) = 0
    BY <1>0, EmptySeq DEF TypeOK, Discipline
  <1>3. /\ Append(toServer[conn], req) \in Seq(Request)
        /\ Len(Append(toServer[conn], req)) = 1
        /\ Head(Append(toServer[conn], req)) = req
    BY <1>1, <1>2, AppendToEmpty
  <1>4. TypeOK'
    <2>1. toServer' \in [Conns -> Seq(Request)]
      BY <1>0, <1>3 DEF TypeOK
    <2>2. /\ pc' \in {"idle", "reading"} /\ cur' \in Calls \cup {NoCall}
          /\ result' \in [Calls -> Results]
      BY DEF TypeOK, CallWrite, CallWriteFails, outVars, Results
    <2> QED BY <1>0, <1>1, <2>1, <2>2 DEF TypeOK
  <1>5. OneRecord'
    <2>1. ASSUME NEW g \in Conns
          PROVE  Len(toServer'[g]) + Len(toClient'[g]) <= 1
      <3>1. Len(toServer[g]) + Len(toClient[g]) <= 1
        BY Zenon DEF OneRecord
      <3>2. CASE g # conn \/ toServer' = toServer
        <4>1. toServer'[g] = toServer[g] /\ toClient'[g] = toClient[g]
          BY <1>0, <3>2 DEF TypeOK
        <4> QED BY <3>1, <4>1
      <3>3. CASE g = conn /\ toServer' # toServer
        <4>1. toServer'[g] = Append(toServer[conn], req) /\ toClient'[g] = toClient[conn]
          BY <1>0, <3>3 DEF TypeOK
        <4> HIDE DEF req
        <4> QED BY <1>2, <1>3, <4>1
      <3> QED BY <3>2, <3>3
    <2>2. ASSUME NEW g \in Conns, g > conn'
          PROVE  toServer'[g] = <<>> /\ toClient'[g] = <<>>
      <3>1. g # conn /\ g > conn
        BY <1>0, <2>2 DEF TypeOK, Conns
      <3> QED BY <1>0, <3>1 DEF TypeOK, OneRecord
    <2> QED BY <2>1, <2>2 DEF OneRecord
  <1>6. InProgress'
    BY <1>0, ConstantsAssumption DEF InProgress, TypeOK, CallWrite, CallWriteFails, outVars
  <1>7. Discipline'
    <2>1. CASE CallWrite(c)
      BY <2>1, <1>0, <1>2, <1>3 DEF Discipline, CallWrite, TypeOK
    <2>2. CASE CallWriteFails(c)
      BY <2>2, <1>0 DEF Discipline, CallWriteFails, TypeOK
    <2> QED BY <2>1, <2>2
  <1>8. ReplyIsOwn'
    BY <1>0 DEF ReplyIsOwn
  <1> QED BY <1>4, <1>5, <1>6, <1>7, <1>8

\* The step that takes a reply off the stream.
LEMMA ReadReplyInv == ASSUME Inv, ReadReply PROVE Inv'
  <1> USE DEF Inv, Return
  <1> DEFINE reply == Head(toClient[conn])
             verdict == Decode(xid, reply)
  <1>1. /\ pc = "reading" /\ cur \in Calls /\ toClient[conn] # <<>> /\ conn \in Conns
        /\ toClient[conn] \in Seq(Reply) /\ toServer[conn] \in Seq(Request)
    BY DEF ReadReply, TypeOK, InProgress
  <1>2. /\ Len(toClient[conn]) \in Nat /\ Len(toServer[conn]) \in Nat
        /\ Len(toClient[conn]) # 0
        /\ toServer[conn] = <<>> <=> Len(toServer[conn]) = 0
    BY <1>1, EmptyByLength
  <1>3. Len(toClient[conn]) = 1 /\ toServer[conn] = <<>>
    <2>1. Len(toServer[conn]) + Len(toClient[conn]) <= 1
      BY <1>1, Zenon DEF OneRecord
    <2>2. Len(toClient[conn]) = 1 /\ Len(toServer[conn]) = 0
      <3> DEFINE m == Len(toClient[conn])
                 n == Len(toServer[conn])
      <3>1. m \in Nat /\ n \in Nat /\ m # 0 /\ n + m <= 1
        BY <1>2, <2>1
      <3> HIDE DEF m, n
      <3>2. m = 1 /\ n = 0
        BY <3>1
      <3> QED BY <3>2 DEF m, n
    <2> QED BY <1>2, <2>2, Zenon
  <1>4. Tail(toClient[conn]) = <<>> /\ reply \in Reply /\ reply.call = cur
    <2>1. reply.call = cur
      BY <1>1, Zenon DEF Discipline
    <2>2. Tail(toClient[conn]) = <<>> /\ reply \in Reply
      <3>1. Len(toClient[conn]) <= 1
        BY <1>3
      <3> HIDE DEF reply
      <3> QED BY <1>1, <3>1, TailOfOne, Zenon DEF reply
    <2> QED BY <2>1, <2>2
  <1>5. verdict \in {"ok", "rejected", "unknown"}
    BY <1>4 DEF Decode, Reply
  <1>6. /\ interrupted' = (verdict = "unknown") /\ pc' = "idle" /\ cur' = NoCall
        /\ result' = [result EXCEPT ![cur] = verdict]
        /\ payload' = [payload EXCEPT ![cur] = IF verdict = "ok" THEN reply.call ELSE @]
        /\ toClient' = [toClient EXCEPT ![conn] = Tail(@)]
        /\ toServer' = toServer /\ xid' = xid /\ conn' = conn /\ execs' = execs
    BY DEF ReadReply
  <1>7. toClient'[conn] = <<>> /\ toClient' \in [Conns -> Seq(Reply)]
    BY <1>1, <1>4, <1>6, EmptySeq DEF TypeOK
  <1>8. TypeOK'
    BY <1>1, <1>4, <1>5, <1>6, <1>7 DEF TypeOK, Results
  <1>9. OneRecord'
    <2>1. Len(toClient'[conn]) = 0 /\ Len(toServer'[conn]) = 0
      BY <1>3, <1>6, <1>7, EmptySeq
    <2> QED BY <1>1, <1>6, <1>7, <2>1 DEF OneRecord, TypeOK
  <1>10. InProgress'
    BY <1>6 DEF InProgress
  <1>11. Discipline'
    BY <1>3, <1>6, <1>7 DEF Discipline
  <1>12. ReplyIsOwn'
    BY <1>1, <1>4, <1>6 DEF ReplyIsOwn, TypeOK
  <1> QED BY <1>8, <1>9, <1>10, <1>11, <1>12

\* Steps that leave the streams alone and the flag set, and reconnection.
LEMMA QuietEndInv == ASSUME Inv, ReadFails \/ Cancel \/ Reconnect PROVE Inv'
  <1> USE DEF Inv, Return
  <1>1. CASE ReadFails \/ Cancel
    <2>1. /\ pc = "reading" /\ interrupted /\ cur \in Calls
          /\ pc' = "idle" /\ cur' = NoCall /\ interrupted' = interrupted /\ conn' = conn
          /\ toServer' = toServer /\ toClient' = toClient /\ xid' = xid
          /\ payload' = payload /\ execs' = execs
      BY <1>1 DEF ReadFails, Cancel, wireVars, TypeOK, InProgress, Discipline
    <2>2. TypeOK'
      BY <1>1, <2>1 DEF ReadFails, Cancel, TypeOK, Results
    <2>3. OneRecord'
      BY <2>1 DEF OneRecord
    <2> QED BY <2>1, <2>2, <2>3 DEF InProgress, Discipline, ReplyIsOwn
  <1>2. CASE Reconnect
    <2>1. /\ conn \in Conns /\ conn' \in Conns /\ conn' > conn /\ interrupted' = FALSE
          /\ pc = "idle" /\ xid' \in Xids
          /\ \A g \in Conns : g > conn' => g > conn
          /\ UNCHANGED <<pc, cur, toServer, toClient, execs, result, payload>>
      BY <1>2, ConstantsAssumption DEF Reconnect, TypeOK, Conns, wireVars, outVars
    <2>2. TypeOK'
      BY <2>1 DEF TypeOK
    <2>3. OneRecord'
      BY <2>1 DEF OneRecord
    <2>4. InProgress'
      BY <2>1 DEF InProgress
    <2>5. Discipline'
      BY <2>1 DEF Discipline, OneRecord
    <2> QED BY <2>1, <2>2, <2>3, <2>4, <2>5 DEF ReplyIsOwn
  <1> QED BY <1>1, <1>2

\* The server moves the only record of a stream to the other direction.
LEMMA ServerAnswerInv ==
    ASSUME Inv, NEW g \in Conns, NEW kind \in {"ok", "rejected", "garbled"}, ServerAnswer(g, kind),
           execs' \in [Calls -> Nat]
    PROVE  Inv'
  <1> USE DEF Inv
  <1> DEFINE req == Head(toServer[g])
             reply == [xid |-> req.xid, kind |-> kind, call |-> req.call]
  <1>1. /\ toServer[g] \in Seq(Request) /\ toClient[g] \in Seq(Reply) /\ toServer[g] # <<>>
    BY DEF ServerAnswer, TypeOK
  <1>2. /\ Len(toServer[g]) = 1 /\ Len(toClient[g]) = 0
    <2>1. Len(toServer[g]) + Len(toClient[g]) <= 1
      BY Zenon DEF OneRecord
    <2> DEFINE m == Len(toServer[g])
               n == Len(toClient[g])
    <2>2. m \in Nat /\ n \in Nat /\ m # 0
      BY <1>1, EmptyByLength
    <2>3. m + n <= 1
      BY <2>1
    <2> HIDE DEF m, n
    <2>4. m = 1 /\ n = 0
      BY <2>2, <2>3
    <2> QED BY <2>4 DEF m, n
  <1>3. Tail(toServer[g]) = <<>> /\ req \in Request
    <2>1. Len(toServer[g]) <= 1
      BY <1>2
    <2> QED BY <1>1, <2>1, TailOfOne, Zenon
  <1>4. reply \in Reply
    BY <1>3 DEF Request, Reply
  <1>5. /\ Append(toClient[g], reply) \in Seq(Reply)
        /\ Len(Append(toClient[g], reply)) = 1
        /\ Head(Append(toClient[g], reply)) = reply
    <2> HIDE DEF reply
    <2> QED BY <1>1, <1>2, <1>4, AppendToEmpty
  <1>6. /\ toServer' = [toServer EXCEPT ![g] = <<>>]
        /\ toClient' = [toClient EXCEPT ![g] = Append(toClient[g], reply)]
        /\ UNCHANGED <<xid, interrupted, conn, pc, cur, result, payload>>
    BY <1>3 DEF ServerAnswer, clientVars, outVars, TypeOK
  <1>7. toServer'[g] = <<>> /\ toClient'[g] = Append(toClient[g], reply)
    BY <1>6 DEF TypeOK
  <1>8. \A h \in Conns \ {g} : toServer'[h] = toServer[h] /\ toClient'[h] = toClient[h]
    BY <1>6 DEF TypeOK
  <1>9. TypeOK'
    <2>1. toServer' \in [Conns -> Seq(Request)]
      BY <1>6, EmptySeq DEF TypeOK
    <2>2. toClient' \in [Conns -> Seq(Reply)]
      <3> HIDE DEF reply
      <3> QED BY <1>5, <1>6 DEF TypeOK
    <2> QED BY <1>6, <2>1, <2>2 DEF TypeOK
  <1>10. OneRecord'
    <2>1. Len(toServer'[g]) + Len(toClient'[g]) <= 1
      <3>1. Len(toServer'[g]) = 0
        BY <1>7, EmptySeq
      <3> HIDE DEF reply
      <3> QED BY <1>5, <1>7, <3>1
    <2>2. ~(g > conn)
      BY <1>1 DEF OneRecord
    <2> QED BY <1>6, <1>8, <2>1, <2>2, Zenon DEF OneRecord
  <1>11. InProgress'
    BY <1>6 DEF InProgress
  <1>12. Discipline'
    <2>1. CASE g # conn
      BY <1>6, <1>8, <2>1 DEF Discipline, TypeOK
    <2>2. CASE g = conn
      <3>1. interrupted
        BY <1>1, <2>2 DEF Discipline
      <3>2. pc = "reading" => reply.call = cur
        BY <1>1, <2>2 DEF Discipline
      <3> HIDE DEF reply
      <3> QED BY <1>5, <1>6, <1>7, <2>2, <3>1, <3>2 DEF Discipline
    <2> QED BY <2>1, <2>2
  <1> QED BY <1>6, <1>9, <1>10, <1>11, <1>12 DEF ReplyIsOwn

\* A connection that goes down empties both directions of its stream.
LEMMA LoseInv == ASSUME Inv, NEW g \in Conns, Lose(g) PROVE Inv'
  <1> USE DEF Inv
  <1>1. /\ toServer' = [toServer EXCEPT ![g] = <<>>]
        /\ toClient' = [toClient EXCEPT ![g] = <<>>]
        /\ UNCHANGED <<xid, interrupted, conn, pc, cur, execs, result, payload>>
    BY DEF Lose, clientVars, outVars
  <1>2. toServer'[g] = <<>> /\ toClient'[g] = <<>>
    BY <1>1 DEF TypeOK
  <1>3. \A h \in Conns \ {g} : toServer'[h] = toServer[h] /\ toClient'[h] = toClient[h]
    BY <1>1 DEF TypeOK
  <1>4. TypeOK'
    BY <1>1, EmptySeq DEF TypeOK
  <1>5. OneRecord'
    <2>1. Len(toServer'[g]) + Len(toClient'[g]) <= 1
      <3>1. Len(toServer'[g]) = 0 /\ Len(toClient'[g]) = 0
        BY <1>2, EmptySeq
      <3> QED BY <3>1
    <2> QED BY <1>1, <1>2, <1>3, <2>1, Zenon DEF OneRecord
  <1>6. InProgress'
    BY <1>1 DEF InProgress
  <1>7. Discipline'
    BY <1>1, <1>2, <1>3 DEF Discipline, TypeOK
  <1> QED BY <1>1, <1>4, <1>5, <1>6, <1>7 DEF ReplyIsOwn

\* Every step of call(), of reconnection and of the server keeps the invariant.
LEMMA NextInv == Inv /\ [Next]_vars => Inv'
  <1> SUFFICES ASSUME Inv, [Next]_vars PROVE Inv'
    OBVIOUS
  <1>1. ASSUME NEW c \in Calls,
               CallInvalid(c) \/ CallEncodeError(c) \/ CallWrite(c) \/ CallWriteFails(c)
        PROVE  Inv'
    BY <1>1, QuietCallInv, WriteInv
  <1>2. CASE ReadReply
    BY <1>2, ReadReplyInv
  <1>3. CASE ReadFails \/ Cancel \/ Reconnect
    BY <1>3, QuietEndInv
  <1>4. ASSUME NEW g \in Conns, ServerExecute(g) PROVE Inv'
    <2>1. PICK kind \in {"ok", "garbled"} : ServerAnswer(g, kind)
      BY <1>4 DEF ServerExecute
    <2>2. execs' \in [Calls -> Nat]
      <3> DEFINE c == Head(toServer[g]).call
      <3>1. execs' = [execs EXCEPT ![c] = @ + 1] /\ execs \in [Calls -> Nat]
        BY <1>4 DEF ServerExecute, Inv, TypeOK
      <3> HIDE DEF c
      <3>2. ASSUME c \in Calls PROVE execs' \in [Calls -> Nat]
        BY <3>1, <3>2
      <3>3. ASSUME c \notin Calls PROVE execs' \in [Calls -> Nat]
        BY <3>1, <3>3
      <3> QED BY <3>2, <3>3
    <2> QED BY <2>1, <2>2, ServerAnswerInv
  <1>5. ASSUME NEW g \in Conns, ServerReject(g) PROVE Inv'
    BY <1>5, ServerAnswerInv DEF ServerReject, Inv, TypeOK
  <1>6. ASSUME NEW g \in Conns, Lose(g) PROVE Inv'
    BY <1>6, LoseInv
  <1>7. CASE UNCHANGED vars
    BY <1>7 DEF vars, clientVars, wireVars, outVars, Inv, TypeOK, OneRecord, InProgress,
                Discipline, ReplyIsOwn
  <1> QED BY <1>1, <1>2, <1>3, <1>4, <1>5, <1>6, <1>7 DEF Next

\* The invariant gives the properties the model checker runs check.
LEMMA InvGivesStreamInStep == Inv => StreamInStep
  <1> SUFFICES ASSUME Inv, pc = "reading"
               PROVE  /\ interrupted
                      /\ Len(toServer[conn]) + Len(toClient[conn]) <= 1
                      /\ \A i \in 1..Len(toServer[conn]) :
                            toServer[conn][i] = [xid |-> xid, call |-> cur]
                      /\ \A i \in 1..Len(toClient[conn]) : toClient[conn][i].call = cur
    BY DEF StreamInStep, Inv, Discipline
  <1>1. conn \in Conns /\ toServer[conn] \in Seq(Request) /\ toClient[conn] \in Seq(Reply)
    BY DEF Inv, TypeOK
  <1>2. Len(toServer[conn]) + Len(toClient[conn]) <= 1
    BY <1>1, Zenon DEF Inv, OneRecord
  <1>3. Len(toServer[conn]) \in 0..1 /\ Len(toClient[conn]) \in 0..1
    <2> DEFINE m == Len(toServer[conn])
               n == Len(toClient[conn])
    <2>1. m \in Nat /\ n \in Nat /\ m + n <= 1
      BY <1>1, <1>2, EmptyByLength
    <2> HIDE DEF m, n
    <2>2. m \in 0..1 /\ n \in 0..1
      BY <2>1
    <2> QED BY <2>2 DEF m, n
  <1>4. ASSUME NEW i \in 1..Len(toServer[conn])
        PROVE  toServer[conn][i] = [xid |-> xid, call |-> cur]
    <2>1. i = 1 /\ Len(toServer[conn]) = 1
      <3> DEFINE m == Len(toServer[conn])
      <3>1. m \in 0..1 /\ i \in 1..m
        BY <1>3
      <3> HIDE DEF m
      <3>2. i = 1 /\ m = 1
        BY <3>1
      <3> QED BY <3>2 DEF m
    <2>2. toServer[conn] # <<>>
      <3>1. Len(toServer[conn]) # 0
        BY <2>1
      <3> QED BY <3>1, <1>1, EmptyByLength, Zenon
    <2>3. toServer[conn][i] = Head(toServer[conn])
      BY <1>1, <2>1
    <2> QED BY <2>2, <2>3 DEF Inv, Discipline
  <1>5. ASSUME NEW i \in 1..Len(toClient[conn]) PROVE toClient[conn][i].call = cur
    <2>1. i = 1 /\ Len(toClient[conn]) = 1
      <3> DEFINE m == Len(toClient[conn])
      <3>1. m \in 0..1 /\ i \in 1..m
        BY <1>3
      <3> HIDE DEF m
      <3>2. i = 1 /\ m = 1
        BY <3>1
      <3> QED BY <3>2 DEF m
    <2>2. toClient[conn] # <<>>
      <3>1. Len(toClient[conn]) # 0
        BY <2>1
      <3> QED BY <3>1, <1>1, EmptyByLength, Zenon
    <2>3. toClient[conn][i] = Head(toClient[conn])
      BY <1>1, <2>1
    <2> QED BY <2>2, <2>3 DEF Inv, Discipline
  <1> QED BY <1>2, <1>4, <1>5 DEF Inv, Discipline

\* The type invariant of the transport: in particular the transaction id
\* stays a value of its width through every wrap of next_xid.
THEOREM TypeCorrect == Spec => []TypeOK
  <1>1. Inv => TypeOK
    BY DEF Inv
  <1> QED BY <1>1, InitInv, NextInv, PTL DEF Spec

\* The discipline of the interrupted flag, for every number of calls, streams
\* and transaction ids.
THEOREM StreamsStayInStep == Spec => []StreamInStep
  BY InitInv, NextInv, InvGivesStreamInStep, PTL DEF Spec

\* A call never returns another call's reply.  Nothing is assumed of the
\* transaction ids but their range: they may repeat across streams and wrap
\* after two calls; it is the flag that keeps an old reply from a new call.
THEOREM RepliesAreOwn == Spec => []ReplyIsOwn
  <1>1. Inv => ReplyIsOwn
    BY DEF Inv
  <1> QED BY <1>1, InitInv, NextInv, PTL DEF Spec
=============================================================================
