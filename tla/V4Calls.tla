------------------------------ MODULE V4Calls -------------------------------
(***************************************************************************)
(* A method of the NFSv4 client against a server: the operations a path    *)
(* becomes, the server that runs a COMPOUND up to the first operation that *)
(* fails, the checks on the shape of its reply, the result the method      *)
(* reads from it, and the CLOSEs that end the method.  The server may fail *)
(* any operation and may send a reply that does not fit the request; it    *)
(* never claims, in a well-formed reply, to have done what it did not do.  *)
(* Lost replies, DELAY and session recovery are Recovery and DelayedRetry. *)
(***************************************************************************)
EXTENDS V4Methods, FiniteSets, SequencesExt

CONSTANTS Paths,      \* paths, as split('/') gives them
          AttrNames,  \* names of named attributes
          OpLimits    \* the operations a session may allow in a COMPOUND

VARIABLES
    method, program,              \* the method called, and what it does
    rawPaths, attrName,           \* its arguments
    nothing,    \* its data, range or attribute set is empty
    badArg,     \* another argument is invalid
    level,      \* the session's minor version
    maxOps,     \* session_max_operations: what the session granted
    part4,      \* "start", "run", "close", "done"
    todo,       \* steps left
    closing,    \* files to close, the last one first
    opens,      \* server: the method's open files
    forgotten,  \* opens whose reply was unusable or whose CLOSE failed
    effects,    \* server: the operations done, with the objects they were done on
    refusals,   \* server: the operations that failed, with their status
    garbled,    \* some reply did not fit its request
    value,      \* what the last result read says
    finding     \* what the method returns

callVars == <<method, program, rawPaths, attrName, nothing, badArg, level, maxOps, part4, todo, closing, opens,
              forgotten, effects, refusals, garbled, value, finding>>

NoFh == <<"-">>
Public == <<"pub">>

-----------------------------------------------------------------------------
(* Paths.                                                                  *)

path_components(raw) == SelectSeq(raw, LAMBDA c : c \notin {"", "."})
ValidPath(raw) == raw # <<"">> /\ ".." \notin Range(raw) /\ "too-long" \notin Range(raw)
validate_named_attr_name(name) == name \notin {"", ".", "..", "a/b", "too-long"}

Item(op) == [op |-> op, name |-> "", old |-> "", at |-> NoFh]
Named(op, name) == [Item(op) EXCEPT !.name = name]
PutFh(h) == [Item("PUTFH") EXCEPT !.at = h]
Lookups(components) == [i \in 1..Len(components) |-> Named("LOOKUP", components[i])]

path_ops(n, tail) == <<Item("PUTROOTFH")>> \o Lookups(path_components(rawPaths[n])) \o tail
public_path_ops(n, tail) == <<Item("PUTPUBFH")>> \o Lookups(path_components(rawPaths[n])) \o tail
parent_path_ops_NoLookupp(n, tail) == path_ops(n, tail)
parent_path_ops(n, tail) == path_ops(n, <<Item("LOOKUPP")>> \o tail)
named_attr_ops(n, tail) == path_ops(n, <<Item("OPENATTR"), Named("LOOKUP", attrName)>> \o tail)

\* split_parent: the directory's components and the name in it.
split_parent(n) ==
    LET all == path_components(rawPaths[n]) IN [dir |-> Front(all), name |-> Last(all)]
parent_ops(n, tail) == <<Item("PUTROOTFH")>> \o Lookups(split_parent(n).dir) \o tail

\* What a path denotes, and the place an operation is meant to be applied.
Obj(n) == path_components(rawPaths[n])
Place(where, n) ==
    CASE where \in {"path", "entry", "link", "entries"} -> Obj(n)
      [] where = "public" -> Public \o Obj(n)
      [] where = "parent" -> Front(Obj(n))
      [] where = "attrdir" -> Append(Obj(n), "@")
      [] where \in {"attr", "attrentry"} -> Obj(n) \o <<"@", attrName>>
      [] where = "attrentries" -> Obj(n) \o <<"@", "new">>
      [] OTHER -> NoFh

\* The file the method has opened by its n-th path.
OpenedObj(n) == Place(program.opens[n].where, n)
Place2(s) == IF s.where \in {"handle", "pair"} THEN OpenedObj(s.n) ELSE Place(s.where, s.n)
Source(s) ==
    CASE s.where = "pair" -> OpenedObj(1)
      [] s.where \in {"link", "entries"} -> Obj(1)
      [] s.where = "attrentries" -> Obj(1) \o <<"@", attrName>>
      [] OTHER -> NoFh

\* The path errors that stop a step before it is sent.
Sendable(s) ==
    LET ns == IF s.where \in {"link", "entries"} THEN {1, 2} ELSE {s.n} IN
    \/ s.where \in {"own", "bare", "handle", "pair"}
    \/ /\ \A n \in ns : ValidPath(rawPaths[n])
       /\ s.where \in {"entry", "parent"} => Obj(s.n) # <<>>
       /\ s.where = "link" => Obj(2) # <<>>
       /\ s.where = "entries" => Obj(1) # <<>> /\ Obj(2) # <<>>
       /\ s.where \in {"attr", "attrentry", "attrentries"} => validate_named_attr_name(attrName)

Tail1(s) == IF s.op = "" THEN <<>> ELSE <<Item(s.op)>>
OpenTail(s, name) == <<Named(s.op, name)>> \o (IF s.op = "OPEN" THEN <<Item("GETFH")>> ELSE <<>>)

Ops(s) ==
    LET ops ==
        CASE s.where = "path" -> path_ops(s.n, Tail1(s))
          [] s.where = "public" -> public_path_ops(s.n, Tail1(s))
          [] s.where = "parent" -> parent_path_ops(s.n, Tail1(s))
          [] s.where = "entry" -> parent_ops(s.n, OpenTail(s, split_parent(s.n).name))
          [] s.where = "attr" -> named_attr_ops(s.n, Tail1(s))
          [] s.where = "attrdir" -> path_ops(s.n, <<Item("OPENATTR")>> \o Tail1(s))
          [] s.where = "attrentry" -> path_ops(s.n, <<Item("OPENATTR")>> \o OpenTail(s, attrName))
          [] s.where = "handle" -> <<PutFh(OpenedObj(s.n)), Item(s.op)>>
          [] s.where = "pair" ->
                <<PutFh(OpenedObj(1)), Item("SAVEFH"), PutFh(OpenedObj(2)), Item(s.op)>>
          [] s.where = "link" ->
                path_ops(1, <<Item("SAVEFH")>>) \o parent_ops(2, <<Named(s.op, split_parent(2).name)>>)
          [] s.where = "entries" ->
                parent_ops(1, <<Item("SAVEFH")>>)
                \o parent_ops(2, <<[Named(s.op, split_parent(2).name)
                                      EXCEPT !.old = split_parent(1).name]>>)
          [] s.where = "attrentries" ->
                path_ops(s.n, <<Item("OPENATTR"), Item("SAVEFH"),
                                [Named(s.op, "new") EXCEPT !.old = attrName]>>)
          [] OTHER -> Tail1(s)
    IN IF s.where = "bare" THEN ops ELSE <<Item("SEQUENCE")>> \o ops

-----------------------------------------------------------------------------
(* The server.                                                             *)

NeedsNoFh == {"SEQUENCE", "PUTROOTFH", "PUTPUBFH", "PUTFH", "BACKCHANNEL_CTL", "SET_SSV",
              "BIND_CONN_TO_SESSION", "DELEGPURGE", "FREE_STATEID", "TEST_STATEID",
              "RELEASE_LOCKOWNER", "OFFLOAD_STATUS", "OFFLOAD_CANCEL", "GETDEVICEINFO",
              "GETDEVICELIST", "LAYOUTRETURN"}
TakesSaved == {"RENAME", "LINK", "COPY", "CLONE"}

On(fh, item) == IF item.name = "" THEN fh ELSE Append(fh, item.name)

Run1(st, item) ==
    LET cur == CASE item.op = "PUTROOTFH" -> <<>>
                 [] item.op = "PUTPUBFH" -> Public
                 [] item.op = "PUTFH" -> item.at
                 [] item.op = "LOOKUPP" -> Front(st.cur)
                 [] item.op = "OPENATTR" -> Append(st.cur, "@")
                 [] item.op \in {"LOOKUP", "OPEN"} -> On(st.cur, item)
                 [] OTHER -> st.cur
        from == IF item.op \notin TakesSaved THEN NoFh
                ELSE IF item.old = "" THEN st.saved ELSE Append(st.saved, item.old)
    IN [cur |-> cur,
        saved |-> IF item.op = "SAVEFH" THEN st.cur ELSE st.saved,
        lacks |-> st.lacks \/ (item.op \notin NeedsNoFh /\ st.cur = NoFh)
                           \/ (item.op \in TakesSaved /\ st.saved = NoFh),
        done |-> Append(st.done, [op |-> item.op, on |-> On(cur, IF item.op \in {"LOOKUP", "OPEN"}
                                                                  THEN Item("") ELSE item),
                                  from |-> from])]

RunOps(ops) ==
    LET st[k \in 0..Len(ops)] ==
            IF k = 0 THEN [cur |-> NoFh, saved |-> NoFh, lacks |-> FALSE, done |-> <<>>]
            ELSE Run1(st[k - 1], ops[k])
    IN st[Len(ops)]

\* What running the first k operations does; after the last one, where it got to.
Effects(ops, k) ==
    LET st == RunOps(SubSeq(ops, 1, k)) IN
    Range(st.done)
    \cup (IF st.lacks THEN {[op |-> "NOFILEHANDLE", on |-> NoFh, from |-> NoFh]} ELSE {})
    \cup (IF k = Len(ops) THEN {[op |-> "", on |-> st.cur, from |-> NoFh]} ELSE {})

Failures(op) ==
    {"NOENT", "IO", "OP_ILLEGAL"}
    \cup (CASE op = "LOCKT" -> {"DENIED"} [] op = "VERIFY" -> {"NOT_SAME"} [] op = "NVERIFY" -> {"SAME"}
            [] op = "RELEASE_LOCKOWNER" -> {"LOCKS_HELD"} [] op = "READDIR" -> {"NOTDIR"}
            [] OTHER -> {})

Result(op, status) == [op |-> IF status = "OP_ILLEGAL" THEN "ILLEGAL" ELSE op, status |-> status]
Sized == {"READ", "READ_PLUS", "WRITE", "WRITE_SAME", "COPY", "TEST_STATEID"}

\* What may come of a COMPOUND: k operations are done and the next one fails with st;
\* g says how the reply misrepresents that, if it does.
Garbles == {"no", "unreadable", "tag", "more", "fewer", "fewer, ok", "other op", "failed, ok",
            "other status", "early failure"}

Turns(ops) ==
    LET n == Len(ops)
        sizes == IF ops[n].op \in Sized THEN {"right", "over", "none", "weak"} ELSE {"right"}
        extras == IF \E i \in DOMAIN ops : ops[i].op = "OPEN" THEN {"no", "confirm", "delegation"} ELSE {"no"}
        Turn(k, st, size, extra, g) == [k |-> k, st |-> st, size |-> size, extra |-> extra, g |-> g]
    IN {Turn(n, "OK", size, extra, "no") : size \in sizes, extra \in extras}
       \cup {Turn(n, "OK", "right", "no", g) : g \in Garbles}
       \cup {Turn(k, "NOENT", "right", "no", g) : k \in {0, n - 1}, g \in Garbles}
       \cup UNION {{Turn(k, st, "right", "no", "no") : st \in Failures(ops[k + 1].op)} : k \in 0..(n - 1)}

Refused(ops, c) == IF c.k = Len(ops) THEN <<>> ELSE <<Result(ops[c.k + 1].op, c.st)>>

Honest(ops, c) ==
    [tag |-> "nfs-rs-v4", status |-> c.st, readable |-> TRUE, size |-> c.size, extra |-> c.extra,
     results |-> [i \in 1..c.k |-> Result(ops[i].op, "OK")] \o Refused(ops, c)]

Reply(ops, c) ==
    LET r == Honest(ops, c) IN
    CASE c.g = "no" -> r
      [] c.g = "unreadable" -> [r EXCEPT !.readable = FALSE]
      [] c.g = "tag" -> [r EXCEPT !.tag = "other"]
      [] c.g = "more" -> [r EXCEPT !.results = Append(@, Result("GETATTR", "OK"))]
      [] c.g = "fewer" -> [r EXCEPT !.results = Front(@)]
      [] c.g = "fewer, ok" -> [r EXCEPT !.results = Front(@), !.status = "OK"]
      [] c.g = "other op" -> [r EXCEPT !.results[Len(r.results)].op = "OTHER"]
      [] c.g = "failed, ok" -> [r EXCEPT !.status = IF @ = "OK" THEN "IO" ELSE "OK"]
      [] c.g = "other status" -> [r EXCEPT !.status = IF @ = "NOENT" THEN "IO" ELSE "NOENT"]
      [] c.g = "early failure" -> [r EXCEPT !.results[1].status = "IO"]

-----------------------------------------------------------------------------
(* The client's reading of a reply.                                        *)

Ok == [kind |-> "ok", op |-> "", status |-> "OK"]
Absent == [Ok EXCEPT !.kind = "absent"]
Protocol == [Ok EXCEPT !.kind = "protocol"]
Input == [Ok EXCEPT !.kind = "input"]
Pending == [Ok EXCEPT !.kind = "pending"]
nfsv4(op, status) == [kind |-> "nfs", op |-> op, status |-> status]

compound_result_matches_expected(result, op) ==
    result.op = op \/ (result.op = "ILLEGAL" /\ result.status = "OP_ILLEGAL")

validate_compound_response_shape_NoLength(ops, r) ==
    /\ r.tag = "nfs-rs-v4"
    /\ Len(r.results) <= Len(ops)
    /\ \A i \in DOMAIN r.results : compound_result_matches_expected(r.results[i], ops[i].op)

validate_compound_response_shape(ops, r) ==
    LET failed == {i \in DOMAIN r.results : r.results[i].status # "OK"} IN
    /\ r.tag = "nfs-rs-v4"
    /\ Len(r.results) <= Len(ops)
    /\ \A i \in DOMAIN r.results : compound_result_matches_expected(r.results[i], ops[i].op)
    /\ r.status = "OK" => Len(r.results) = Len(ops) /\ failed = {}
    /\ r.status # "OK" /\ failed # {} =>
            \A i \in failed : i = Len(r.results) /\ r.results[i].status = r.status
    /\ r.status # "OK" /\ failed = {} => r.results = <<>>

raw_compound_with_rpc(ops, r) == r.readable /\ validate_compound_response_shape(ops, r)

ensure_ok(r) ==
    IF r.status = "OK" THEN Ok
    ELSE IF r.results = <<>> THEN nfsv4("COMPOUND", r.status)
    ELSE nfsv4(Last(r.results).op, Last(r.results).status)

ensure_last_status(r) ==
    IF r.results = <<>> THEN Protocol
    ELSE IF Last(r.results).status = "OK" THEN Ok
    ELSE nfsv4(Last(r.results).op, Last(r.results).status)

\* The first result of the operation decides.
response(r, op) ==
    LET at == SelectInSeq(r.results, LAMBDA x : x.op = op) IN
    IF at = 0 THEN Protocol
    ELSE IF r.results[at].status = "OK" THEN Ok
    ELSE nfsv4(op, r.results[at].status)

validate_result_size(op, size) == size \notin {"over", "none"} /\ ~(op = "WRITE_SAME" /\ size = "weak")

response_sized(r, op) ==
    IF response(r, op) = Ok /\ ~validate_result_size(op, r.size) THEN Protocol ELSE response(r, op)

\* Statuses that are answers: NOT_SAME and SAME, DENIED, LOCKS_HELD.
response_verify(r, op, false_status) ==
    IF response(r, op) = nfsv4(op, false_status) THEN Absent ELSE response(r, op)
response_lock_test(r) ==
    IF response(r, "LOCKT") = nfsv4("LOCKT", "DENIED") THEN Absent ELSE response(r, "LOCKT")
response_release_lock_owner(r) ==
    IF response(r, "RELEASE_LOCKOWNER") = nfsv4("RELEASE_LOCKOWNER", "LOCKS_HELD") THEN Absent
    ELSE response(r, "RELEASE_LOCKOWNER")

\* The operations whose results are read without further checks.
ObjectReplies == {"GETFH", "GETATTR", "ACCESS", "BIND_CONN_TO_SESSION", "SET_SSV", "SECINFO",
                  "SECINFO_NO_NAME"}
FileReplies == {"READLINK", "IO_ADVISE", "COPY_NOTIFY"}
StateReplies == {"OFFLOAD_STATUS", "GETDEVICEINFO", "GETDEVICELIST", "GET_DIR_DELEGATION"}
LayoutReplies == {"WANT_DELEGATION", "LAYOUTCOMMIT", "LAYOUTGET", "LAYOUTRETURN"}
DirReplies == {"COMMIT", "SEEK", "READDIR"}

Read(r, pick) ==
    CASE pick = "none" -> Ok
      [] pick = "status" -> ensure_last_status(r)
      [] pick \in Sized -> response_sized(r, pick)
      [] pick = "VERIFY" -> response_verify(r, pick, "NOT_SAME")
      [] pick = "NVERIFY" -> response_verify(r, pick, "SAME")
      [] pick = "LOCKT" -> response_lock_test(r)
      [] pick = "RELEASE_LOCKOWNER" -> response_release_lock_owner(r)
      [] pick \in ObjectReplies \cup FileReplies \cup StateReplies \cup LayoutReplies \cup DirReplies ->
            response(r, pick)

\* What a step makes of a reply.
Outcome(s, ops, r) ==
    IF ~raw_compound_with_rpc(ops, r) THEN Protocol
    ELSE IF s.strict /\ ensure_ok(r) # Ok THEN ensure_ok(r)
    ELSE Read(r, s.pick)

-----------------------------------------------------------------------------
(* The method.                                                             *)

OpenSteps == [i \in 1..Len(program.opens) |-> Step(program.opens[i].where, i, "OPEN", "OPEN")]
Compare == IF program.distinct = "no" THEN <<>> ELSE <<Step("compare", 1, "", "none")>>
Steps == program.prep \o OpenSteps \o Compare \o program.body

Call == <<method, program, rawPaths, attrName, nothing, badArg, level, maxOps>>

UsesPaths == \E i \in DOMAIN Steps : Steps[i].where \notin {"own", "bare"}
UsesTwo == \E i \in DOMAIN Steps : Steps[i].n = 2
UsesAttr == \E i \in DOMAIN Steps : Steps[i].where \in {"attr", "attrentry", "attrentries"}
AnyPath == CHOOSE p \in Paths : ValidPath(p) /\ path_components(p) # <<>>

\* One name for each different program.
Distinguished == {CHOOSE m \in DOMAIN Methods : Methods[m] = p : p \in Range(Methods)}

CallInit ==
    /\ \E m \in Distinguished : method = m /\ program = Methods[m]
    /\ nothing \in BOOLEAN
    /\ badArg \in IF program.check = "no" THEN {FALSE} ELSE BOOLEAN
    /\ level \in IF program.min = 2 THEN {1, 2} ELSE {2}
    /\ maxOps \in OpLimits
    /\ \E p \in IF UsesPaths THEN Paths ELSE {AnyPath} :
       \E q \in IF UsesTwo THEN Paths ELSE {p} : rawPaths = <<p, q>>
    /\ attrName \in IF UsesAttr THEN AttrNames ELSE {"n"}
    /\ part4 = "start" /\ todo = <<>> /\ closing = <<>> /\ opens = {} /\ forgotten = {}
    /\ effects = {} /\ refusals = {} /\ garbled = FALSE /\ value = "none"
    /\ finding = Pending

\* ensure_distinct_copy_handles and the comparison of the two paths.
SamePaths == path_components(rawPaths[1]) = path_components(rawPaths[2])
ensure_distinct_copy_handles == OpenedObj(1) # OpenedObj(2)

Begin ==
    /\ part4 = "start"
    /\ LET refuse == \/ level < program.min
                     \/ badArg /\ program.check = "first"
                     \/ /\ program.distinct = "paths"
                        /\ SamePaths \/ \E n \in {1, 2} : ~ValidPath(rawPaths[n])
           idle == nothing /\ \/ program.idle = "first"
                              \/ program.idle = "late" /\ level >= program.min
       IN /\ finding' = IF idle THEN Ok ELSE IF refuse THEN Input ELSE Pending
          /\ part4' = IF idle \/ refuse THEN "done" ELSE "run"
          /\ todo' = IF idle \/ refuse THEN <<>> ELSE Steps
    /\ UNCHANGED <<Call, closing, opens, forgotten, effects, refusals, garbled, value>>

Settle(f, files) ==
    /\ finding' = IF f.kind = "nfs" /\ f.status \in program.absent THEN Absent ELSE f
    /\ closing' = files
    /\ todo' = <<>>
    /\ part4' = IF files = <<>> THEN "done" ELSE "close"

Proceed(steps, files) ==
    IF steps = <<>> THEN Settle(Ok, files)
    ELSE /\ todo' = steps /\ closing' = files
         /\ UNCHANGED <<finding, part4>>

Rest(s) == s.redo \o Tail(todo)

\* Only the operations that set a session up are sent without this check.
validate_session_compound_operation_count(s) == s.where = "bare" \/ Len(Ops(s)) <= maxOps

InvalidArgument(s) == ~Sendable(s) \/ (badArg /\ program.check = "body" /\ s.where = "handle")

\* A step that is not sent: an empty request, an invalid argument, a comparison,
\* more operations than the session takes.
NotSent ==
    /\ part4 = "run"
    /\ LET s == Head(todo) IN
       \/ /\ s.where = "compare"
          /\ IF ensure_distinct_copy_handles THEN Proceed(Tail(todo), closing)
             ELSE Settle(Protocol, closing)
       \/ /\ nothing /\ s.skip # "no"
          /\ IF s.skip = "skip" THEN Proceed(Tail(todo), closing) ELSE Settle(Protocol, closing)
       \/ /\ s.where # "compare" /\ ~(nothing /\ s.skip # "no")
          /\ \/ InvalidArgument(s) /\ Settle(Input, closing)
             \/ /\ ~InvalidArgument(s) /\ ~validate_session_compound_operation_count(s)
                /\ Settle(Protocol, closing)
    /\ UNCHANGED <<Call, opens, forgotten, effects, refusals, garbled, value>>

\* The operation the method is for, and the object the caller named.
Goal == LET s == Last(Steps) IN [op |-> s.op, on |-> Place2(s), from |-> Source(s)]

\* What the server did, as far as it bears on the method's answer.
Serve(ops, c) ==
    IF finding \in {Pending, Ok}
    THEN /\ effects' = effects \cup {e \in Effects(ops, c.k) : e.op \in {Goal.op, "NOFILEHANDLE"}}
         /\ refusals' = refusals \cup Range(Refused(ops, c))
         /\ garbled' = (garbled \/ c.g # "no")
    ELSE UNCHANGED <<effects, refusals, garbled>>

\* open: an OPEN that was answered is closed again on every later error.
OpenFile(s) ==
    LET ops == Ops(s) IN
    \E c \in Turns(ops) :
        LET r == Reply(ops, c)
            ran == \E i \in 1..c.k : ops[i].op = "OPEN"
            fits == raw_compound_with_rpc(ops, r)
            byHandle == Append(closing, [n |-> s.n, where |-> "handle"])
            byPath == Append(closing, [n |-> s.n, where |-> IF s.where = "entry" THEN "path" ELSE "attr"])
        IN /\ Serve(ops, c)
           /\ opens' = IF ran THEN opens \cup {s.n} ELSE opens
           /\ forgotten' = IF ran /\ ~fits THEN forgotten \cup {s.n} ELSE forgotten
           /\ UNCHANGED value
           /\ CASE ~fits -> Settle(Protocol, closing)
                [] fits /\ ensure_ok(r) # Ok ->
                      Settle(ensure_ok(r), IF response(r, "OPEN") = Ok THEN byPath ELSE closing)
                [] fits /\ ensure_ok(r) = Ok /\ r.extra = "confirm" -> Settle(Protocol, byHandle)
                [] fits /\ ensure_ok(r) = Ok /\ r.extra = "delegation" ->
                      Proceed(<<return_open_delegation(s.n)>> \o Tail(todo), byHandle)
                [] OTHER -> Proceed(Tail(todo), byHandle)

\* Every other COMPOUND.  A WRITE that was not committed is followed by a COMMIT.
Send(s) ==
    LET ops == Ops(s) IN
    \E c \in Turns(ops) :
        LET f == Outcome(s, ops, Reply(ops, c)) IN
        /\ Serve(ops, c)
        /\ IF f = Ok /\ s.op = "WRITE" /\ c.size = "weak"
           THEN Proceed(<<commit_opened(s.n)>> \o Tail(todo), closing)
           ELSE \/ f = Ok /\ Proceed(Tail(todo), closing)
                \/ f = Ok /\ s.redo # <<>> /\ Proceed(Rest(s), closing)
                \/ f # Ok /\ Settle(f, closing)
        /\ value' = IF f = Ok /\ s.pick = s.op THEN c.size ELSE value
        /\ UNCHANGED <<opens, forgotten>>

Request ==
    /\ part4 = "run" /\ todo # <<>>
    /\ LET s == Head(todo) IN
       /\ s.where # "compare" /\ ~(nothing /\ s.skip # "no") /\ ~InvalidArgument(s)
       /\ validate_session_compound_operation_count(s)
       /\ IF s.pick = "OPEN" THEN OpenFile(s) ELSE Send(s)
    /\ UNCHANGED Call

CloseFile_OnSuccess ==
    /\ part4 = "close"
    /\ part4' = "done" /\ closing' = <<>>
    /\ UNCHANGED <<Call, todo, opens, forgotten, effects, refusals, garbled, value, finding>>

\* The CLOSE of the file opened last.
Closing == Step(Last(closing).where, Last(closing).n, "CLOSE", "status")

\* close, the last opened file first; the first error of all is the method's.
CloseFile ==
    /\ part4 = "close"
    /\ LET n == Last(closing).n
           ops == Ops(Closing)
       IN \E c \in Turns(ops) :
             LET f == Outcome(Closing, ops, Reply(ops, c)) IN
             /\ Serve(ops, c)
             /\ opens' = IF c.k = Len(ops) THEN opens \ {n} ELSE opens
             /\ forgotten' = IF c.k = Len(ops) THEN forgotten ELSE forgotten \cup {n}
             /\ finding' = IF finding = Ok THEN f ELSE finding
    /\ closing' = Front(closing)
    /\ part4' = IF Len(closing) = 1 THEN "done" ELSE "close"
    /\ UNCHANGED <<Call, todo, value>>

CallNext == Begin \/ NotSent \/ Request \/ CloseFile

CallSpec == CallInit /\ [][CallNext]_callVars

-----------------------------------------------------------------------------
(* Properties.                                                             *)

CallTypeOK ==
    /\ part4 \in {"start", "run", "close", "done"}
    /\ (part4 = "run") = (todo # <<>>) /\ (part4 = "close" => closing # <<>>)
    /\ opens \subseteq {1, 2} /\ forgotten \subseteq {1, 2}
    /\ Len(closing) <= 2
    /\ finding.kind \in {"ok", "absent", "protocol", "input", "nfs", "pending"}

Skipped == nothing /\ (program.idle # "no" \/ Last(Steps).skip = "skip")

\* A method that returns Ok has had its operation done, on the very object its paths
\* name, and returns a result of the size it asked for; an NFS error is the status of an
\* operation the server failed; a method that fails on its arguments before the first
\* request has had nothing done; and no operation is ever sent without its file handles
\* (compound_status, validate_compound_response_shape and the response_* functions).
CallsAnswered ==
    /\ finding = Ok /\ part4 = "done" /\ ~Skipped =>
            Goal \in effects /\ value \in {"none", "right", "weak"}
    /\ finding.kind = "nfs" =>
            \E e \in refusals : e.status = finding.status /\ finding.op \in {e.op, "COMPOUND"}
    /\ finding.kind = "protocol" /\ ~garbled =>
            \/ \E i \in DOMAIN Steps : ~Steps[i].strict \/ Steps[i].pick \in Sized
            \/ program.opens # <<>>
            \/ Len(Ops(Last(Steps))) > maxOps
    /\ \A e \in effects : e.op # "NOFILEHANDLE"

\* A method that has returned has closed every file it opened, unless the reply to its
\* OPEN was unusable or the server did not carry out its CLOSE; no limit on the
\* operations of a COMPOUND that lets an OPEN through stops the CLOSE after it
\* (finish_with_close, cleanup_open_response).
NoOpenLeft ==
    /\ part4 = "done" => opens \subseteq forgotten
    /\ part4 = "close" => validate_session_compound_operation_count(Closing)

\* verify_attrs answers Ok(false) when the server says NFS4ERR_NOT_SAME, and nverify_attrs
\* when it says NFS4ERR_SAME, as their documentation has it.
VerifyAnswersFalse ==
    part4 = "done" /\ finding.kind = "nfs" =>
        <<finding.op, finding.status>> \notin {<<"VERIFY", "NOT_SAME">>, <<"NVERIFY", "SAME">>}
=============================================================================
