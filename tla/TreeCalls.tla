----------------------------- MODULE TreeCalls ------------------------------
(***************************************************************************)
(* create_dir_all and remove_all (NFSv3 and NFSv4, blocking and Tokio):    *)
(* calls made of many requests, on a tree another client changes between   *)
(* any two of them.  NFSv4 sends whole paths, resolved by the server when  *)
(* the request runs; NFSv3's create_dir_all goes down by file handle, which*)
(* is stale once its directory is gone, even if a new one has its name.    *)
(* NFSv4's REMOVE removes files and empty directories alike, NFSv3 has     *)
(* REMOVE and RMDIR.                                                       *)
(***************************************************************************)
EXTENDS Integers, Sequences, SequencesExt, FiniteSets

CONSTANTS Tree,      \* the paths that may exist, sequences of names
          Target,    \* the path create_dir_all is given
          Doomed,    \* the path remove_all is given
          MaxMoves   \* changes of the other client

VARIABLES
    fn,        \* "create_dir_all" or "remove_all"
    version3,  \* NFSv3 client, else NFSv4
    typed,     \* whether the server reports file types
    fs,        \* the tree: path -> [type, id]
    stack,     \* remove_all's tasks
    depth,     \* create_dir_all: components done
    ask,       \* create_dir_all: its next request
    dir,       \* create_dir_all, NFSv3: id of the directory reached
    seen,      \* create_dir_all: id of the object looked up last
    result,    \* "none", "ok" or an error
    listed,    \* ghost: the paths remove_all found
    unlinked,  \* ghost: the paths remove_all removed
    moves,     \* ghost: changes of the other client
    helpful    \* ghost: all of them made directories

vars == <<fn, version3, typed, fs, stack, depth, ask, dir, seen, result, listed, unlinked, moves, helpful>>

Errors == {"noent", "notdir", "isdir", "notempty", "stale", "exist", "not_a_directory"}
Kinds == {"dir", "file"}

Present(p) == p \in DOMAIN fs
IsDir(p) == p = <<>> \/ (Present(p) /\ fs[p].type = "dir")
Children(p) == {q \in DOMAIN fs : Len(q) = Len(p) + 1 /\ Front(q) = p}

\* The tree hangs together.
Closed(t) == \A p \in DOMAIN t : Len(p) > 1 => Front(p) \in DOMAIN t /\ t[Front(p)].type = "dir"

TypeOK ==
    /\ fn \in {"create_dir_all", "remove_all"} /\ version3 \in BOOLEAN /\ typed \in BOOLEAN
    /\ DOMAIN fs \subseteq Tree /\ \A p \in DOMAIN fs : fs[p].type \in Kinds /\ fs[p].id \in 0..MaxMoves + 1
    /\ Closed(fs)
    /\ \A i \in DOMAIN stack : stack[i].do \in {"visit", "rmdir"} /\ stack[i].path \in Tree
    /\ depth \in 0..Len(Target) /\ ask \in {"lookup", "mkdir", "handle", "again", "check"}
    /\ dir \in -1..MaxMoves + 1 /\ seen \in -1..MaxMoves + 1
    /\ result \in {"none", "ok"} \cup Errors
    /\ listed \subseteq Tree /\ unlinked \subseteq Tree /\ moves \in 0..MaxMoves /\ helpful \in BOOLEAN

Visit(p, t) == [do |-> "visit", path |-> p, type |-> t]

\* remove_all starts with metadata(path).
Init ==
    /\ fn \in {"create_dir_all", "remove_all"} /\ version3 \in BOOLEAN /\ typed \in BOOLEAN
    /\ fs \in {t \in UNION {[D -> [type : Kinds, id : {0}]] : D \in SUBSET Tree} : Closed(t)}
    /\ depth = 0 /\ ask = "lookup" /\ dir = -1 /\ seen = -1
    /\ stack = IF fn = "remove_all" THEN <<Visit(Doomed, "none")>> ELSE <<>>
    /\ result = "none" /\ listed = {Doomed} /\ unlinked = {} /\ moves = 0 /\ helpful = TRUE

Calling(f) == fn = f /\ result = "none"
Finish(r) == result' = r
Without(p) == [q \in DOMAIN fs \ {p} |-> fs[q]]
With(p, t) == [q \in DOMAIN fs \cup {p} |-> IF q = p THEN [type |-> t, id |-> moves + 1] ELSE fs[q]]

\* The other client creates, or removes, one entry.
Rival ==
    /\ result = "none" /\ moves < MaxMoves /\ moves' = moves + 1
    /\ \/ \E p \in Tree, t \in Kinds :
             /\ ~Present(p) /\ IsDir(Front(p))
             /\ fs' = With(p, t)
             /\ helpful' = (helpful /\ t = "dir")
       \/ \E p \in DOMAIN fs : Children(p) = {} /\ fs' = Without(p) /\ helpful' = FALSE
    /\ UNCHANGED <<fn, version3, typed, stack, depth, ask, dir, seen, result, listed, unlinked>>

-----------------------------------------------------------------------------
(* create_dir_all                                                          *)

Here == SubSeq(Target, 1, depth + 1)
Parent == SubSeq(Target, 1, depth)

\* What the server says to a request below the directory reached so far.
Stale == version3 /\ depth > 0 /\ (~Present(Parent) \/ fs[Parent].id # dir)
Unreachable == Stale \/ ~IsDir(Parent)
Why == IF Stale THEN "stale" ELSE IF Present(Parent) THEN "notdir" ELSE "noent"

\* The component is there: ensure_directory checks the type it came with, or
\* asks for it (GETATTR of the handle, NFSv4 a READDIR of the path).
Descend(id) ==
    /\ depth' = depth + 1 /\ ask' = "lookup" /\ dir' = id /\ seen' = id
    /\ result' = IF depth + 1 = Len(Target) THEN "ok" ELSE "none"
Give(r) == Finish(r) /\ UNCHANGED <<depth, ask, dir, seen>>
Ask(a) == ask' = a /\ UNCHANGED <<depth, dir, seen, result>>
Enter == IF IsDir(Here) THEN Descend(fs[Here].id) ELSE Give("not_a_directory")
Check ==
    IF typed THEN Enter
    ELSE ask' = "check" /\ seen' = fs[Here].id /\ UNCHANGED <<depth, dir, result>>

\* metadata(current), NFSv3 lookup: NoEnt leads to MKDIR.
Lookup ==
    /\ Calling("create_dir_all") /\ ask = "lookup"
    /\ IF Unreachable /\ Why # "noent" THEN Give(Why)
       ELSE IF ~Present(Here) THEN Ask("mkdir") ELSE Check
    /\ UNCHANGED <<fn, version3, typed, fs, stack, listed, unlinked, moves, helpful>>

Mkdir_ExistFails ==
    /\ Calling("create_dir_all") /\ ask = "mkdir"
    /\ IF Unreachable THEN Give(Why) /\ UNCHANGED fs
       ELSE IF Present(Here) THEN Give("exist") /\ UNCHANGED fs
       ELSE fs' = With(Here, "dir") /\ (IF version3 THEN Ask("handle") ELSE Descend(fs'[Here].id))
    /\ UNCHANGED <<fn, version3, typed, stack, listed, unlinked, moves, helpful>>

\* MKDIR: Exist means someone was faster, and is looked at again.  NFSv3's
\* reply may leave out the handle, which is then looked up.
Mkdir ==
    /\ Calling("create_dir_all") /\ ask = "mkdir"
    /\ IF Unreachable THEN Give(Why) /\ UNCHANGED fs
       ELSE IF Present(Here) THEN Ask("again") /\ UNCHANGED fs
       ELSE /\ fs' = With(Here, "dir")
            /\ Descend(fs'[Here].id) \/ (version3 /\ Ask("handle"))
    /\ UNCHANGED <<fn, version3, typed, stack, listed, unlinked, moves, helpful>>

\* The second lookup: after Exist it also checks the type.
LookAgain ==
    /\ Calling("create_dir_all") /\ ask \in {"again", "handle"}
    /\ IF Unreachable THEN Give(Why)
       ELSE IF ~Present(Here) THEN Give("noent")
       ELSE IF ask = "again" THEN Check ELSE Descend(fs[Here].id)
    /\ UNCHANGED <<fn, version3, typed, fs, stack, listed, unlinked, moves, helpful>>

\* The type asked for.
CheckType ==
    /\ Calling("create_dir_all") /\ ask = "check"
    /\ IF version3 /\ (~Present(Here) \/ fs[Here].id # seen) THEN Give("stale")
       ELSE IF ~Present(Here) THEN Give("noent") ELSE Enter
    /\ UNCHANGED <<fn, version3, typed, fs, stack, listed, unlinked, moves, helpful>>

-----------------------------------------------------------------------------
(* remove_all                                                              *)

Top == stack[Len(stack)]
Task(d) == Calling("remove_all") /\ stack # <<>> /\ Top.do = d
Abort(r) == Finish(r) /\ UNCHANGED <<fs, stack, listed, unlinked>>
RemoveUnchanged == UNCHANGED <<fn, version3, typed, depth, ask, dir, seen, moves, helpful>>

\* No type known: metadata(path), and probe_directory (a READDIR) when the
\* server reports none.
FindType ==
    /\ Task("visit") /\ Top.type \in {"none", "probe"}
    /\ IF ~Present(Top.path) THEN Abort("noent")
       ELSE /\ stack' = [stack EXCEPT ![Len(stack)].type =
                           IF ~version3 /\ ~typed /\ Top.type = "none" THEN "probe" ELSE fs[Top.path].type]
            /\ UNCHANGED <<fs, result, listed, unlinked>>
    /\ RemoveUnchanged

\* The type an entry is listed with.  Without one, NFSv4 probes the path and
\* NFSv3 asks for its attributes.
ListedType(c) == IF typed THEN fs[c].type ELSE IF version3 THEN "none" ELSE "probe"

ReadTree_DirOnTop ==
    /\ Task("visit") /\ Top.type = "dir"
    /\ IF ~Present(Top.path) THEN Abort("noent") ELSE
       IF ~IsDir(Top.path) THEN Abort("notdir") ELSE
       LET found == Children(Top.path) IN
          /\ stack' = Front(stack) \o SetToSeq({Visit(c, ListedType(c)) : c \in found})
                        \o <<[do |-> "rmdir", path |-> Top.path, type |-> "dir"]>>
          /\ listed' = listed \cup found
          /\ UNCHANGED <<fs, result, unlinked>>
    /\ RemoveUnchanged

\* A directory: its RMDIR waits below the visits of its children.
ReadTree ==
    /\ Task("visit") /\ Top.type = "dir"
    /\ IF ~Present(Top.path) THEN Abort("noent") ELSE
       IF ~IsDir(Top.path) THEN Abort("notdir") ELSE
       LET found == Children(Top.path) IN
          /\ stack' = Front(stack) \o <<[do |-> "rmdir", path |-> Top.path, type |-> "dir"]>>
                        \o SetToSeq({Visit(c, ListedType(c)) : c \in found})
          /\ listed' = listed \cup found
          /\ UNCHANGED <<fs, result, unlinked>>
    /\ RemoveUnchanged

\* REMOVE and RMDIR; NFSv4's remove serves both.
Refusal(p, directory) ==
    IF ~Present(p) THEN "noent"
    ELSE IF version3 /\ ~directory /\ IsDir(p) THEN "isdir"
    ELSE IF version3 /\ directory /\ ~IsDir(p) THEN "notdir"
    ELSE IF Children(p) # {} THEN "notempty" ELSE "none"

Unlink ==
    /\ Task("rmdir") \/ (Task("visit") /\ Top.type = "file")
    /\ LET no == Refusal(Top.path, Top.do = "rmdir") IN
       IF no # "none" THEN Abort(no)
       ELSE /\ fs' = Without(Top.path)
            /\ unlinked' = unlinked \cup {Top.path}
            /\ stack' = Front(stack)
            /\ result' = IF Len(stack) = 1 THEN "ok" ELSE "none"
            /\ UNCHANGED listed
    /\ RemoveUnchanged

CreateDirAll == Lookup \/ Mkdir \/ LookAgain \/ CheckType
RemoveAll == FindType \/ ReadTree \/ Unlink

Next == Rival \/ CreateDirAll \/ RemoveAll

Spec == Init /\ [][Next]_vars

-----------------------------------------------------------------------------
(* Properties                                                              *)

\* create_dir_all never fails because another client makes the same
\* directories: if directories are all the other client made and nothing on
\* the way was a file, the call does not fail (the Exist branch of MKDIR).
CreateSurvivesRival ==
    (fn = "create_dir_all" /\ result \in Errors /\ helpful) =>
        \E i \in DOMAIN Target : LET p == SubSeq(Target, 1, i) IN Present(p) /\ fs[p].type = "file"

\* remove_all removes only what it listed, and left alone it succeeds on every
\* tree, whatever the server says of file types; Ok means everything listed is
\* gone (the order of RemoveTask on the stack).
RemoveTakesTree ==
    fn = "remove_all" =>
        /\ unlinked \subseteq listed
        /\ result \in Errors /\ moves = 0 => result = "noent" /\ ~Present(Doomed)
        /\ result = "ok" => unlinked = listed
=============================================================================
