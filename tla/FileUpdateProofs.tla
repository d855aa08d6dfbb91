-------------------------- MODULE FileUpdateProofs --------------------------
(***************************************************************************)
(* When an atomic update may leave its temporary file behind, for data,    *)
(* chunks and offsets of any size and any number of faults and server      *)
(* restarts.  The invariant: a temporary file that exists is one the call  *)
(* knows it created, or a reply about it was lost; and a call that knows   *)
(* removes it before it ends, but for copy_atomic after a failed CLOSE.    *)
(***************************************************************************)
EXTENDS FileUpdate, TLAPS

IsFile(f) == f = [there |-> f.there, mem |-> f.mem, disk |-> f.disk]

Inv ==
    /\ file = [n \in Names |-> file[n]] /\ IsFile(file["temp"])
    /\ file["temp"].there = TRUE => excused = TRUE \/ created = TRUE
    /\ created = TRUE => Atomic
    /\ step = "done" /\ excused # TRUE /\ file["temp"].there = TRUE => call.kind = "copy_atomic" /\ unclosed = TRUE

\* Writing and committing change a file's content, not whether it exists
\* (WRITE and COMMIT).
LEMMA ContentOnly ==
    ASSUME NEW f, IsFile(f), NEW at, NEW bytes, NEW level
    PROVE  /\ IsFile(Written(f, at, bytes, level)) /\ Written(f, at, bytes, level).there = f.there
           /\ IsFile(Committed(f, at, bytes)) /\ Committed(f, at, bytes).there = f.there
<1> DEFINE m == Overlay(f.mem, at, bytes)
           d == IF level = "unstable" THEN f.disk ELSE Overlay(f.disk, at, bytes)
           c == Overlay(f.disk, at, SubSeq(f.mem, at + 1, Min({at + bytes, Len(f.mem)})))
<1>1. Written(f, at, bytes, level) = [f EXCEPT !.mem = m, !.disk = d]
  BY DEF Written
<1>2. Committed(f, at, bytes) = [f EXCEPT !.disk = c]
  BY DEF Committed
<1> HIDE DEF m, d, c
<1> QED
  BY <1>1, <1>2 DEF IsFile

\* A lost reply: the effect happened or not, and the call says so
\* (TransportUncertain errors).
LEMMA LostKeeps ==
    ASSUME Inv, NEW effect, Lost(effect), UNCHANGED <<call, created>>,
           effect = [n \in Names |-> effect[n]], IsFile(effect["temp"])
    PROVE  Inv'
BY DEF Inv, Lost, Fail, IsFile, Atomic

\* An error answer leaves the files alone; the call goes on to remove the
\* temporary file if it made one (finish_with_temp_cleanup).
LEMMA RefusedKeeps ==
    ASSUME Inv, UNCHANGED <<call, created, file, excused>>, step' = AfterError
    PROVE  Inv'
BY DEF Inv, AfterError, Atomic

\* The same for a step that changes contents and does not end the call, or
\* ends one that has no temporary file.
LEMMA ContentKeeps ==
    ASSUME Inv, UNCHANGED <<call, created, excused>>,
           file' = [n \in Names |-> file'[n]], IsFile(file'["temp"]),
           file'["temp"].there = file["temp"].there,
           step' # "done" \/ ~Atomic \/ step' = AfterError
    PROVE  Inv'
BY DEF Inv, AfterError, Atomic

\* Every step of an update keeps the invariant (write, append, copy and the
\* atomic forms, with restarts and another client's append).
LEMMA StepInv == ASSUME Inv, [Next]_vars PROVE Inv'
<1> USE DEF Names
<1>0. IsFile(Absent) /\ Absent.there = FALSE /\ IsFile(Content(<<>>, <<>>))
  BY DEF IsFile, Absent, Content
<1>1. CASE UNCHANGED vars
  BY <1>1 DEF vars, Inv, Atomic
<1>2. CASE Restart
  <2>1. IsFile(file'["temp"]) /\ file'["temp"].there = file["temp"].there
    BY <1>2 DEF Restart, Inv, IsFile
  <2> QED
    BY <1>2, <2>1, ContentKeeps DEF Restart
<1>3. CASE RivalAppends
  <2>1. file' = [n \in Names |-> file'[n]] /\ file'["temp"] = file["temp"]
    BY <1>3 DEF RivalAppends, Inv
  <2> QED
    BY <1>3, <2>1, ContentKeeps DEF RivalAppends, Inv
<1>4. CASE GetSize
  <2>1. CASE step' = "open" /\ UNCHANGED <<file, excused>>
    BY <1>4, <2>1 DEF GetSize, Inv, Atomic
  <2>2. CASE Refused
    BY <1>4, <2>2, RefusedKeeps DEF GetSize, Refused, Fail
  <2>3. CASE Lost(file)
    BY <1>4, <2>3, LostKeeps DEF GetSize, Inv
  <2> QED
    BY <1>4, <2>1, <2>2, <2>3 DEF GetSize
<1>5. CASE OpenExisting
  <2>1. CASE step' = "write" /\ UNCHANGED <<file, excused>>
    BY <1>5, <2>1 DEF OpenExisting, Inv, Atomic
  <2>2. CASE Refused
    BY <1>5, <2>2, RefusedKeeps DEF OpenExisting, Refused, Fail
  <2>3. CASE Lost(file)
    BY <1>5, <2>3, LostKeeps DEF OpenExisting, Inv
  <2> QED
    BY <1>5, <2>1, <2>2, <2>3 DEF OpenExisting
<1>6. CASE CreateTarget
  <2> DEFINE made == [file EXCEPT !["target"] = IF @.there THEN @ ELSE Content(<<>>, <<>>)]
  <2>1. made = [n \in Names |-> made[n]] /\ made["temp"] = file["temp"] /\ IsFile(made["temp"])
    BY DEF Inv
  <2> HIDE DEF made
  <2>2. CASE file' = made /\ step' = "truncate" /\ UNCHANGED excused
    BY <1>6, <2>1, <2>2, ContentKeeps DEF CreateTarget
  <2>3. CASE Refused
    BY <1>6, <2>3, RefusedKeeps DEF CreateTarget, Refused, Fail
  <2>4. CASE Lost(made)
    BY <1>6, <2>1, <2>4, LostKeeps DEF CreateTarget
  <2> QED
    BY <1>6, <2>2, <2>3, <2>4 DEF CreateTarget, made
<1>7. CASE CreateTemp
  <2> DEFINE made == [file EXCEPT !["temp"] = Content(<<>>, <<>>)]
  <2>1. made = [n \in Names |-> made[n]] /\ IsFile(made["temp"])
    BY <1>0 DEF Inv
  <2> HIDE DEF made
  <2>2. CASE file' = made /\ created' = TRUE /\ step' \in {"remove", "read", "write"} /\ UNCHANGED excused
    BY <1>7, <2>1, <2>2 DEF CreateTemp, Inv, Atomic
  <2>3. CASE Refused /\ UNCHANGED created
    BY <1>7, <2>3, RefusedKeeps DEF CreateTemp, Refused, Fail
  <2>4. CASE Lost(made) /\ UNCHANGED created
    BY <1>7, <2>1, <2>4, LostKeeps DEF CreateTemp
  <2> QED
    BY <1>7, <2>2, <2>3, <2>4 DEF CreateTemp, made, NextTransfer
<1>8. CASE Truncate
  <2> DEFINE emptied == [file EXCEPT !["target"] = Content(<<>>, <<>>)]
  <2>1. emptied = [n \in Names |-> emptied[n]] /\ emptied["temp"] = file["temp"] /\ IsFile(emptied["temp"])
    BY DEF Inv
  <2> HIDE DEF emptied
  <2>2. CASE file' = emptied /\ step' = NextTransfer /\ UNCHANGED excused
    BY <1>8, <2>1, <2>2, ContentKeeps DEF Truncate, rest, NextTransfer
  <2>3. CASE Refused
    BY <1>8, <2>3, RefusedKeeps DEF Truncate, rest, Refused, Fail
  <2>4. CASE Lost(emptied)
    BY <1>8, <2>1, <2>4, LostKeeps DEF Truncate, rest
  <2> QED
    BY <1>8, <2>2, <2>3, <2>4 DEF Truncate, emptied
<1>9. CASE ReadChunk
  <2>1. CASE UNCHANGED <<file, excused>> /\ (step' = AfterError \/ step' = Finished(left', FALSE))
    BY <1>9, <2>1, ContentKeeps DEF ReadChunk, Finished, Inv
  <2>2. CASE Lost(file)
    BY <1>9, <2>2, LostKeeps DEF ReadChunk, Inv
  <2> QED
    BY <1>9, <2>1, <2>2 DEF ReadChunk, Refused, Fail
<1>10. CASE WriteChunk
  <2> DEFINE chunk == SubSeq(left, 1, Min({ChunkSize, Len(left)}))
             put(bytes, level) == [file EXCEPT ![Into] = Written(@, offset, bytes, level)]
  <2>1. ASSUME NEW bytes, NEW level
        PROVE  LET f == put(bytes, level) IN
               f = [n \in Names |-> f[n]] /\ IsFile(f["temp"]) /\ f["temp"].there = file["temp"].there
    BY ContentOnly DEF Inv, Into
  <2> HIDE DEF chunk, put
  <2>2. CASE \E n \in 1..Len(chunk), level \in Levels :
                /\ file' = put(SubSeq(chunk, 1, n), level)
                /\ (NeedsCommit(level) /\ step' = "commit") \/ (~NeedsCommit(level) /\ Advance(n))
                /\ UNCHANGED excused
    <3>1. step' # "done" \/ ~Atomic \/ step' = AfterError
      BY <2>2 DEF Advance, Finished, Fail
    <3> QED
      BY <1>10, <2>1, <2>2, <3>1, ContentKeeps DEF WriteChunk
  <2>3. CASE UNCHANGED <<file, excused>> /\ step' = AfterError
    BY <1>10, <2>3, RefusedKeeps DEF WriteChunk
  <2>4. CASE Lost(put(chunk, "filesync"))
    BY <1>10, <2>1, <2>4, LostKeeps DEF WriteChunk
  <2> QED
    BY <1>10, <2>2, <2>3, <2>4 DEF WriteChunk, chunk, put, Refused, Fail
<1>11. CASE Commit
  <2> DEFINE synced == [file EXCEPT ![Into] = Committed(@, offset, answer.count)]
  <2>1. synced = [n \in Names |-> synced[n]] /\ IsFile(synced["temp"]) /\ synced["temp"].there = file["temp"].there
    BY ContentOnly DEF Inv, Into
  <2> HIDE DEF synced
  <2>2. CASE file' = synced /\ UNCHANGED excused /\ (step' = AfterError \/ Advance(answer.count))
    <3>1. step' # "done" \/ ~Atomic \/ step' = AfterError
      BY <2>2 DEF Advance, Finished, Fail
    <3> QED
      BY <1>11, <2>1, <2>2, <3>1, ContentKeeps DEF Commit
  <2>3. CASE Refused
    BY <1>11, <2>3, RefusedKeeps DEF Commit, Refused, Fail
  <2>4. CASE Lost(synced)
    BY <1>11, <2>1, <2>4, LostKeeps DEF Commit
  <2> QED
    BY <1>11, <2>2, <2>3, <2>4 DEF Commit, synced, Fail
<1>12. CASE Close
  <2>1. PICK closed \in BOOLEAN :
           /\ step' = CASE outcome = "none" /\ closed -> IF Atomic THEN "rename" ELSE "done"
                        [] outcome = "none" /\ ~closed /\ call.kind = "copy_atomic" -> "done"
                        [] OTHER -> IF created THEN "remove" ELSE "done"
           /\ unclosed' = (outcome = "none" /\ ~closed)
    BY <1>12 DEF Close
  <2>2. UNCHANGED <<call, file, created, excused>>
    BY <1>12 DEF Close
  <2>3. step' = "done" => created # TRUE \/ (call.kind = "copy_atomic" /\ unclosed' = TRUE)
    <3>1. CASE outcome = "none" /\ closed
      BY <2>1, <3>1 DEF Inv
    <3>2. CASE outcome = "none" /\ ~closed /\ call.kind = "copy_atomic"
      BY <2>1, <3>2
    <3>3. CASE outcome # "none" \/ (~closed /\ call.kind # "copy_atomic")
      BY <2>1, <3>3
    <3> QED
      BY <3>1, <3>2, <3>3
  <2> QED
    BY <2>2, <2>3 DEF Inv, Atomic
<1>13. CASE Rename
  <2> DEFINE moved == [file EXCEPT !["target"] = file["temp"], !["temp"] = Absent]
  <2>1. moved = [n \in Names |-> moved[n]] /\ moved["temp"] = Absent
    BY DEF Inv
  <2> HIDE DEF moved
  <2>2. CASE file' = moved /\ UNCHANGED excused
    BY <1>0, <1>13, <2>1, <2>2 DEF Rename, rest, Inv, Atomic
  <2>3. CASE Refused
    BY <1>13, <2>3, RefusedKeeps DEF Rename, rest, Refused, Fail
  <2>4. CASE Lost(moved)
    BY <1>0, <1>13, <2>1, <2>4, LostKeeps DEF Rename, rest
  <2> QED
    BY <1>13, <2>2, <2>3, <2>4 DEF Rename, moved
<1>14. CASE RemoveTemp
  BY <1>0, <1>14 DEF RemoveTemp, rest, Inv, Atomic
<1> QED
  BY <1>1, <1>2, <1>3, <1>4, <1>5, <1>6, <1>7, <1>8, <1>9, <1>10, <1>11, <1>12, <1>13, <1>14 DEF Next

\* Whatever is written, in whatever chunks, and whenever requests fail or the
\* server restarts: a call that is over has left no temporary file, unless a
\* reply was lost, the REMOVE for clean-up failed, or it is a copy_atomic whose
\* CLOSE failed after the last byte (finish_with_temp_cleanup, copy_atomic).
THEOREM TempRemoved == Spec => []NoTempLeft
<1>1. ASSUME Init PROVE Inv
  <2>1. file = [n \in Names |-> file[n]] /\ file["temp"] = Absent
    BY <1>1 DEF Init, Names
  <2>2. IsFile(Absent) /\ Absent.there = FALSE
    BY DEF IsFile, Absent
  <2> QED
    BY <1>1, <2>1, <2>2 DEF Init, Inv
<1>2. Inv /\ [Next]_vars => Inv'
  BY StepInv
<1>3. Inv => NoTempLeft
  BY DEF Inv, NoTempLeft
<1> QED
  BY <1>1, <1>2, <1>3, PTL DEF Spec
=============================================================================
