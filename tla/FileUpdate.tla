----------------------------- MODULE FileUpdate -----------------------------
(***************************************************************************)
(* The calls that put data into a file, NFSv3 and NFSv4: write, write_at,  *)
(* append, copy, and the atomic forms that write a temporary sibling and   *)
(* rename it into place.  A step is one RPC.  The server may write less    *)
(* than it was given, keep what it wrote in memory and lose it in a        *)
(* restart, refuse any RPC, or lose a reply after or before its effect;    *)
(* another client may append meanwhile.                                    *)
(***************************************************************************)
EXTENDS Integers, Sequences, SequencesExt, FiniteSetsExt

CONSTANTS Data,           \* what the call writes, a sequence of bytes
          Old,            \* what the target holds before it
          ChunkSize,      \* write_size and read_size
          MaxOffset,      \* u64::MAX, scaled down
          MaxFaults, MaxRestarts

VARIABLES
    call,       \* the call: its protocol, kind and the stability it asks for
    step,       \* the RPC the client sends next
    file,       \* file[n]: what the server has under that name
    verifier,   \* the server's write verifier, one per instance
    offset,     \* where the next chunk goes
    left,       \* the bytes still to be written, of this chunk or of the call
    more,       \* copy: READ has not reported the end of the file yet
    answer,     \* the last WRITE's count, stability and verifier
    base,       \* append: the size GETATTR reported
    created,    \* the temporary file was created by this call
    opened,     \* NFSv4: the call holds an open file
    outcome,    \* "none", "ok", or the first error
    excused,    \* a reply was lost or a REMOVE for clean-up failed
    unclosed,   \* the CLOSE after the last byte failed
    rival,      \* the bytes another client appended
    spent       \* faults and restarts so far

vars == <<call, step, file, verifier, offset, left, more, answer, base, created, opened, outcome, excused, unclosed,
          rival, spent>>

Levels == {"unstable", "datasync", "filesync"}
Kinds == {"write", "write_at", "append", "copy", "write_atomic", "copy_atomic"}
Names == {"target", "temp"}
Absent == [there |-> FALSE, mem |-> <<>>, disk |-> <<>>]
Content(m, d) == [there |-> TRUE, mem |-> m, disk |-> d]
RivalByte == 9

Atomic == call.kind \in {"write_atomic", "copy_atomic"}
Copies == call.kind \in {"copy", "copy_atomic"}
Into == IF Atomic THEN "temp" ELSE "target"

TypeOK ==
    /\ call \in [proto : {"v3", "v4"}, kind : Kinds, stable : Levels]
    /\ step \in {"getattr", "create", "open", "truncate", "read", "write", "commit", "close",
                 "rename", "remove", "done"}
    /\ \A n \in Names : /\ DOMAIN file[n] = {"there", "mem", "disk"}
                        /\ Len(file[n].mem) <= 2 * MaxOffset
    /\ verifier \in 0..MaxRestarts /\ offset \in 0..MaxOffset
    /\ Len(left) <= Len(Data) /\ Range(left) \subseteq Range(Data)
    /\ more \in BOOLEAN /\ created \in BOOLEAN /\ opened \in BOOLEAN
    /\ answer \in [count : 0..ChunkSize, level : Levels, verifier : 0..MaxRestarts]
    /\ outcome \in {"none", "ok", "refused", "unknown", "protocol"}
    /\ excused \in BOOLEAN /\ unclosed \in BOOLEAN /\ base \in 0..MaxOffset
    /\ spent \in [faults : 0..MaxFaults, restarts : 0..MaxRestarts, rival : 0..1]

FirstStep(c) ==
    CASE c.kind \in {"write", "copy", "write_atomic", "copy_atomic"} -> "create"
      [] c.kind = "write_at" -> "open"
      [] OTHER -> "getattr"

Init ==
    /\ call \in [proto : {"v3"}, kind : Kinds, stable : Levels]
                \cup [proto : {"v4"}, kind : Kinds, stable : {"filesync"}]
    /\ step = FirstStep(call)
    /\ \E there \in BOOLEAN :
          /\ call.kind \in {"append", "write_at"} => there
          /\ file = [n \in Names |-> IF n = "target" /\ there THEN Content(Old, Old) ELSE Absent]
    /\ offset \in IF call.kind = "write_at" THEN {1, MaxOffset - 1} ELSE {0}
    /\ verifier = 0 /\ base = 0 /\ created = FALSE /\ opened = FALSE
    /\ left = IF Copies THEN <<>> ELSE Data
    /\ more = Copies
    /\ answer = [count |-> 0, level |-> "filesync", verifier |-> 0]
    /\ outcome = "none" /\ excused = FALSE /\ unclosed = FALSE /\ rival = <<>>
    /\ spent = [faults |-> 0, restarts |-> 0, rival |-> 0]

-----------------------------------------------------------------------------
(* The server                                                              *)

Rank(level) == CASE level = "unstable" -> 0 [] level = "datasync" -> 1 [] OTHER -> 2

\* bytes laid over content at offset at, holes filled with zeros.
Overlay(content, at, bytes) ==
    [i \in 1..Max({Len(content), at + Len(bytes)}) |->
        IF i \in (at + 1)..(at + Len(bytes)) THEN bytes[i - at]
        ELSE IF i <= Len(content) THEN content[i] ELSE 0]

Written(f, at, bytes, level) ==
    [f EXCEPT !.mem = Overlay(@, at, bytes),
              !.disk = IF level = "unstable" THEN @ ELSE Overlay(@, at, bytes)]

Committed(f, at, count) ==
    [f EXCEPT !.disk = Overlay(@, at, SubSeq(f.mem, at + 1, Min({at + count, Len(f.mem)})))]

Restart ==
    /\ spent.restarts < MaxRestarts /\ step # "done"
    /\ file' = [n \in Names |-> [file[n] EXCEPT !.mem = file[n].disk]]
    /\ verifier' = verifier + 1
    /\ spent' = [spent EXCEPT !.restarts = @ + 1]
    /\ UNCHANGED <<call, step, offset, left, more, answer, base, created, opened, outcome, excused, rival, unclosed>>

\* Another client appends with its own, stable write.
RivalAppends ==
    /\ call.kind = "append" /\ spent.rival = 0 /\ step # "done"
    /\ file' = [file EXCEPT !["target"] = Written(@, Len(@.mem), <<RivalByte>>, "filesync")]
    /\ rival' = Append(rival, RivalByte)
    /\ spent' = [spent EXCEPT !.rival = 1]
    /\ UNCHANGED <<call, step, verifier, offset, left, more, answer, base, created, opened, outcome, excused, unclosed>>

-----------------------------------------------------------------------------
(* How a call ends                                                         *)

AfterError_NoRemove == IF opened THEN "close" ELSE "done"

\* finish_with_close, then finish_with_temp_cleanup: an open file is closed,
\* a temporary file this call created is removed.
AfterError == IF opened THEN "close" ELSE IF Atomic /\ created THEN "remove" ELSE "done"

Fail(e) == outcome' = e /\ step' = AfterError

\* An RPC that is answered with an error, or whose reply is lost: the effect
\* may have happened.  An NFSv3 connection is unusable afterwards.
Refused == Fail("refused") /\ UNCHANGED <<file, excused, spent>>
Lost(effect) ==
    /\ spent.faults < MaxFaults
    /\ spent' = [spent EXCEPT !.faults = @ + 1]
    /\ file' \in {file, effect} /\ excused' = TRUE /\ Fail("unknown")

rest == <<call, verifier, offset, left, more, answer, base, created, opened, rival, unclosed>>

NextTransfer == IF Copies THEN "read" ELSE "write"

-----------------------------------------------------------------------------
(* Opening                                                                 *)

\* append: metadata(path).size, before the file is opened.
GetSize ==
    /\ step = "getattr"
    /\ \/ /\ base' = Len(file["target"].mem) /\ offset' = Len(file["target"].mem)
          /\ step' = "open"
          /\ UNCHANGED <<file, outcome, excused, spent>>
       \/ Refused /\ UNCHANGED <<base, offset>>
       \/ Lost(file) /\ UNCHANGED <<base, offset>>
    /\ UNCHANGED <<call, verifier, left, more, answer, created, opened, rival, unclosed>>

\* OPEN without create, or the v3 path look-up.
OpenExisting ==
    /\ step = "open"
    /\ \/ step' = "write" /\ opened' = (call.proto = "v4") /\ UNCHANGED <<file, outcome, excused, spent>>
       \/ Refused /\ UNCHANGED opened
       \/ Lost(file) /\ UNCHANGED opened
    /\ UNCHANGED <<call, verifier, offset, left, more, answer, base, created, rival, unclosed>>

\* OPEN UNCHECKED, or resolve and CREATE UNCHECKED when there is no file.
CreateTarget ==
    /\ step = "create" /\ ~Atomic
    /\ LET made == [file EXCEPT !["target"] = IF @.there THEN @ ELSE Content(<<>>, <<>>)] IN
       \/ /\ file' = made /\ step' = "truncate" /\ opened' = (call.proto = "v4")
          /\ UNCHANGED <<outcome, excused, spent>>
       \/ Refused /\ UNCHANGED opened
       \/ Lost(made) /\ UNCHANGED opened
    /\ UNCHANGED <<call, verifier, offset, left, more, answer, base, created, rival, unclosed>>

\* OPEN or CREATE GUARDED under a fresh name.  When the server leaves out the
\* handle, v3 looks it up and may fail with the file already created.
CreateTemp ==
    /\ step = "create" /\ Atomic
    /\ LET made == [file EXCEPT !["temp"] = Content(<<>>, <<>>)] IN
       \/ /\ file' = made /\ created' = TRUE /\ opened' = (call.proto = "v4")
          /\ step' = NextTransfer /\ UNCHANGED <<outcome, excused, spent>>
       \/ /\ call.proto = "v3" /\ file' = made /\ created' = TRUE
          /\ outcome' = "refused" /\ step' = "remove" /\ UNCHANGED <<opened, excused, spent>>
       \/ Refused /\ UNCHANGED <<created, opened>>
       \/ Lost(made) /\ UNCHANGED <<created, opened>>
    /\ UNCHANGED <<call, verifier, offset, left, more, answer, base, rival, unclosed>>

\* SETATTR size 0.
Truncate ==
    /\ step = "truncate"
    /\ LET emptied == [file EXCEPT !["target"] = Content(<<>>, <<>>)] IN
       \/ file' = emptied /\ step' = NextTransfer /\ UNCHANGED <<outcome, excused, spent>>
       \/ Refused
       \/ Lost(emptied)
    /\ UNCHANGED rest

-----------------------------------------------------------------------------
(* Transferring                                                            *)

\* Where the client goes when a chunk is written out.
Finished(rem, again) ==
    IF rem # <<>> THEN "write"
    ELSE IF again THEN "read"
    ELSE IF opened THEN "close"
    ELSE IF Atomic THEN "rename" ELSE "done"

\* copy reads the next chunk: short reads are legal, no data ends the copy,
\* and no data before the end of the file is an error.
ReadChunk ==
    /\ step = "read"
    /\ \/ \E n \in 0..Min({ChunkSize, Len(Data) - offset}), eof \in BOOLEAN :
             /\ eof => offset + n = Len(Data)
             /\ left' = SubSeq(Data, offset + 1, offset + n)
             /\ more' = (n > 0 /\ ~eof)
             /\ IF n = 0 /\ ~eof
                THEN Fail("protocol")
                ELSE step' = Finished(left', FALSE)
                     /\ outcome' = IF step' = "done" THEN "ok" ELSE outcome
             /\ UNCHANGED <<file, excused, spent>>
       \/ Refused /\ UNCHANGED <<left, more>>
       \/ Lost(file) /\ UNCHANGED <<left, more>>
    /\ UNCHANGED <<call, verifier, offset, answer, base, created, opened, rival, unclosed>>

Advance_Unchecked(n) ==
    /\ offset' = offset + n
    /\ left' = SubSeq(left, n + 1, Len(left))
    /\ step' = Finished(left', more)
    /\ outcome' = IF step' = "done" THEN "ok" ELSE outcome

\* advance_offset and the loop's test; an offset that overflows is an error
\* after the data went out.
Advance(n) ==
    IF offset + n > MaxOffset
    THEN Fail("protocol") /\ UNCHANGED <<offset, left>>
    ELSE /\ offset' = offset + n
         /\ left' = SubSeq(left, n + 1, Len(left))
         /\ step' = Finished(left', more)
         /\ outcome' = IF step' = "done" THEN "ok" ELSE outcome

NeedsCommit_Never(level) == FALSE

\* !committed.satisfies(stable).
NeedsCommit(level) == Rank(level) < Rank(call.stable)

\* WRITE of the next chunk.  A count of zero or beyond the chunk is an error.
WriteChunk ==
    /\ step = "write"
    /\ LET chunk == SubSeq(left, 1, Min({ChunkSize, Len(left)})) IN
       \/ \E n \in 1..Len(chunk), level \in Levels :
             /\ file' = [file EXCEPT ![Into] = Written(@, offset, SubSeq(chunk, 1, n), level)]
             /\ answer' = [count |-> n, level |-> level, verifier |-> verifier]
             /\ IF NeedsCommit(level)
                THEN step' = "commit" /\ UNCHANGED <<offset, left, outcome>>
                ELSE Advance(n)
             /\ UNCHANGED <<excused, spent>>
       \/ Fail("protocol") /\ UNCHANGED <<file, answer, offset, left, excused, spent>>
       \/ Refused /\ UNCHANGED <<answer, offset, left>>
       \/ /\ Lost([file EXCEPT ![Into] = Written(@, offset, chunk, "filesync")])
          /\ UNCHANGED <<answer, offset, left>>
    /\ UNCHANGED <<call, verifier, more, base, created, opened, rival, unclosed>>

Commit_AnyVerifier ==
    /\ step = "commit"
    /\ file' = [file EXCEPT ![Into] = Committed(@, offset, answer.count)]
    /\ Advance(answer.count)
    /\ UNCHANGED <<call, verifier, more, answer, base, created, opened, excused, rival, spent, unclosed>>

\* COMMIT of the chunk just written; a verifier other than the WRITE's means
\* that the server restarted and may have lost it.
Commit ==
    /\ step = "commit"
    /\ LET synced == [file EXCEPT ![Into] = Committed(@, offset, answer.count)] IN
       \/ /\ file' = synced
          /\ IF verifier # answer.verifier
             THEN Fail("protocol") /\ UNCHANGED <<offset, left>>
             ELSE Advance(answer.count)
          /\ UNCHANGED <<excused, spent>>
       \/ Refused /\ UNCHANGED <<offset, left>>
       \/ Lost(synced) /\ UNCHANGED <<offset, left>>
    /\ UNCHANGED <<call, verifier, more, answer, base, created, opened, rival, unclosed>>

-----------------------------------------------------------------------------
(* Finishing                                                               *)

\* CLOSE of every file the call opened.  After success a failed CLOSE is the
\* call's error; after an error it is only added to it.  copy_atomic returns a
\* failed CLOSE at once and leaves its temporary file (copy_atomic, `close_result?`).
Close ==
    /\ step = "close"
    /\ \E closed \in BOOLEAN :
          /\ ~closed => spent.faults < MaxFaults
          /\ spent' = IF closed THEN spent ELSE [spent EXCEPT !.faults = @ + 1]
          /\ opened' = FALSE
          /\ outcome' = CASE outcome # "none" -> outcome
                          [] outcome = "none" /\ ~closed -> "refused"
                          [] OTHER -> IF Atomic THEN "none" ELSE "ok"
          /\ step' = CASE outcome = "none" /\ closed -> IF Atomic THEN "rename" ELSE "done"
                       [] outcome = "none" /\ ~closed /\ call.kind = "copy_atomic" -> "done"
                       [] OTHER -> IF created THEN "remove" ELSE "done"
          /\ unclosed' = (outcome = "none" /\ ~closed)
    /\ UNCHANGED <<call, file, verifier, offset, left, more, answer, base, created, excused, rival>>

\* RENAME over the target.
Rename ==
    /\ step = "rename"
    /\ LET moved == [file EXCEPT !["target"] = file["temp"], !["temp"] = Absent] IN
       \/ file' = moved /\ outcome' = "ok" /\ step' = "done" /\ UNCHANGED <<excused, spent>>
       \/ Refused
       \/ Lost(moved)
    /\ UNCHANGED rest

\* remove(temp).  Its failure is reported with the first error.
RemoveTemp ==
    /\ step = "remove"
    /\ \/ /\ ~(call.proto = "v3" /\ outcome = "unknown")
          /\ file' = [file EXCEPT !["temp"] = Absent] /\ UNCHANGED excused
       \/ UNCHANGED file /\ excused' = TRUE
    /\ step' = "done"
    /\ UNCHANGED <<rest, outcome, spent>>

Next ==
    \/ Restart \/ RivalAppends
    \/ GetSize \/ OpenExisting \/ CreateTarget \/ CreateTemp \/ Truncate
    \/ ReadChunk \/ WriteChunk \/ Commit
    \/ Close \/ Rename \/ RemoveTemp

Spec == Init /\ [][Next]_vars

-----------------------------------------------------------------------------
(* Properties                                                              *)

\* What the target holds after the call, when no other client wrote.
Expected ==
    CASE call.kind = "write_at" -> Overlay(Old, offset - Len(Data), Data)
      [] call.kind = "append" -> SubSeq(file["target"].disk, 1, base) \o Data
      [] OTHER -> Data

\* Ok from a call that asked for FILE_SYNC means that every byte is on the
\* server's disk in its place, in spite of short writes, weaker stability than
\* asked for and restarts; append keeps every byte below the size it read and
\* puts its own bytes there in one piece, whatever another client appends
\* (write_opened_at, write_handle_all, commit_opened, copy_opened).
OkMeansDurable ==
    outcome = "ok" /\ call.stable = "filesync" =>
        /\ rival = <<>> => file["target"].disk = Expected
        /\ call.kind = "append" =>
                /\ IsPrefix(Old, file["target"].disk)
                /\ SubSeq(file["target"].disk, base + 1, base + Len(Data)) = Data

\* At no moment, restarts included, does a reader of the target of an atomic
\* call see anything but the old content or all of the new one
\* (write_atomic_with_mode, copy_atomic: the temporary is stable before RENAME).
OldOrNew ==
    Atomic /\ call.stable = "filesync" =>
        /\ file["target"].mem \in {Old, Data, <<>>} /\ file["target"].disk \in {Old, Data, <<>>}
        /\ file["target"].there => file["target"].mem # <<>> /\ file["target"].disk # <<>>

\* An atomic call that ends, well or badly, leaves no temporary file of its own
\* unless a reply was lost or the REMOVE that cleans up failed; the one other
\* case is a copy_atomic that wrote everything and whose CLOSE failed, which
\* returns without the clean-up (finish_with_temp_cleanup, create_guarded_handle
\* sets `created` before it looks the handle up, copy_atomic's `close_result?`).
NoTempLeft ==
    step = "done" /\ ~excused /\ file["temp"].there => call.kind = "copy_atomic" /\ unclosed

\* The same without the exception: a failed atomic call removes its temporary
\* file whatever the failure was, as the "cleanup REMOVE after failed atomic copy"
\* of copy_atomic has it.
FailedCopyCleansUp == step = "done" /\ ~excused => ~file["temp"].there
=============================================================================
