------------------------------ MODULE Listing -------------------------------
(***************************************************************************)
(* Reading a directory page by page: read_dir (NFSv3 with READDIRPLUS and  *)
(* its fall-back to READDIR, NFSv4 with READDIR, named attributes the same *)
(* way) and list_devices (GETDEVICELIST).  A sane server keeps one cookie  *)
(* per entry and answers with the entries after the cookie it is given;    *)
(* an insane one answers anything.  Another client changes the directory   *)
(* meanwhile.                                                              *)
(***************************************************************************)
EXTENDS Integers, Sequences, SequencesExt, FiniteSetsExt

CONSTANTS Cookies,        \* the cookies of the entries a directory may have
          MaxEntries,     \* the client's entry limit
          MaxChanges

VARIABLES
    form,       \* "v3", "v4" or "devices"
    sane,       \* whether the server is
    entries,    \* the cookies of the directory's entries
    steady,     \* the entries that were there all along
    version,    \* the server's cookie verifier
    cookie,     \* the cursor: the cookie sent with the next request
    cookieverf, \* and its verifier
    got,        \* the entries collected so far, as cookies
    pages,      \* pages read
    ended       \* "no", "ok", "limit", "protocol" or "refused"

vars == <<form, sane, entries, steady, version, cookie, cookieverf, got, pages, ended>>

TypeOK ==
    /\ form \in {"v3", "v4", "devices"} /\ sane \in BOOLEAN
    /\ entries \subseteq Cookies /\ steady \subseteq Cookies
    /\ version \in 0..MaxChanges /\ cookie \in Cookies \cup {0}
    /\ cookieverf \in 0..MaxChanges /\ got \in Seq(Cookies) /\ pages \in Nat
    /\ ended \in {"no", "ok", "limit", "protocol", "refused"}

Init ==
    /\ form \in {"v3", "v4", "devices"} /\ sane \in BOOLEAN
    /\ entries \in SUBSET Cookies /\ steady = entries
    /\ version = 0 /\ cookie = 0 /\ cookieverf = 0
    /\ got = <<>> /\ pages = 0 /\ ended = "no"

\* Another client adds or removes an entry; the server may move its verifier.
Change ==
    /\ ended = "no" /\ sane /\ version < MaxChanges
    /\ \E c \in Cookies :
          /\ entries' = IF c \in entries THEN entries \ {c} ELSE entries \cup {c}
          /\ steady' = steady \ {c}
    /\ version' \in {version, version + 1}
    /\ UNCHANGED <<form, sane, cookie, cookieverf, got, pages, ended>>

\* The first n entries after the cookie, in cookie order.
After(c, n) ==
    LET rest == SetToSortSeq({e \in entries : e > c}, <) IN SubSeq(rest, 1, Min({n, Len(rest)}))

\* What the server may answer: a page and whether it is the last.
SanePages ==
    {[page |-> After(cookie, n), eof |-> {e \in entries : e > cookie} \subseteq Range(After(cookie, n))] :
        n \in 1..Max({1, Cardinality({e \in entries : e > cookie})})}
Answers ==
    IF sane THEN SanePages
    ELSE [page : {<<>>} \cup {<<c>> : c \in Cookies}, eof : BOOLEAN]

next_dir_cursor_First(page, eof) ==
    IF eof THEN [to |-> "end", cookie |-> cookie]
    ELSE IF page = <<>> \/ Head(page) = cookie THEN [to |-> "error", cookie |-> cookie]
    ELSE [to |-> "more", cookie |-> Head(page)]

\* eof ends the listing; a page without entries, or one whose last cookie is
\* the cookie sent, is an error; else the last cookie is the next cursor.
next_dir_cursor(page, eof) ==
    IF eof THEN [to |-> "end", cookie |-> cookie]
    ELSE IF page = <<>> \/ Last(page) = cookie THEN [to |-> "error", cookie |-> cookie]
    ELSE [to |-> "more", cookie |-> Last(page)]

Over_Page(page) == Len(page) > MaxEntries

\* entries.len() + batch.len() > max_entries.
Over(page) == Len(got) + Len(page) > MaxEntries

Continue(page, cursor) ==
    /\ got' = got \o page
    /\ cookie' = cursor.cookie
    /\ cookieverf' = version
    /\ ended' = IF cursor.to = "end" THEN "ok" ELSE "no"

Stop(how) == ended' = how /\ UNCHANGED <<got, cookie, cookieverf>>

\* NFSv4: response_readdir, next_dir_cursor, then the limit.
ReadDirV4 ==
    /\ form = "v4" /\ ended = "no"
    /\ \E a \in Answers :
          LET cursor == next_dir_cursor(a.page, a.eof) IN
          IF cursor.to = "error" THEN Stop("protocol")
          ELSE IF Over(a.page) THEN Stop("limit")
          ELSE Continue(a.page, cursor)
    /\ pages' = pages + 1
    /\ UNCHANGED <<form, sane, entries, steady, version>>

\* NFSv3: READDIRPLUS, or READDIR with the same cursor when the server does
\* not support it; append_dir_entries tests the limit before the cursor.
ReadDirV3 ==
    /\ form = "v3" /\ ended = "no"
    /\ \E a \in Answers :
          LET cursor == next_dir_cursor(a.page, a.eof) IN
          IF Over(a.page) THEN Stop("limit")
          ELSE IF cursor.to = "error" THEN Stop("protocol")
          ELSE Continue(a.page, cursor)
    /\ pages' = pages + 1
    /\ UNCHANGED <<form, sane, entries, steady, version>>

\* GETDEVICELIST names the next cookie itself: at eof it does not matter, else
\* it must differ from the one sent.
next_device_list_cursor(to, eof) ==
    IF eof THEN [to |-> "end", cookie |-> cookie]
    ELSE IF to = cookie THEN [to |-> "error", cookie |-> cookie]
    ELSE [to |-> "more", cookie |-> to]

\* list_devices asks for what is left of its limit, fails when nothing is, and
\* refuses a page with more.
ReadDevices ==
    /\ form = "devices" /\ ended = "no"
    /\ IF Len(got) >= MaxEntries
       THEN Stop("limit") /\ UNCHANGED pages
       ELSE /\ \E a \in Answers, next \in Cookies :
                  LET to == IF sane /\ a.page # <<>> THEN Last(a.page) ELSE next
                      cursor == next_device_list_cursor(to, a.eof) IN
                  IF Over(a.page) THEN Stop("limit")
                  ELSE IF cursor.to = "error" THEN Stop("protocol")
                  ELSE Continue(a.page, cursor)
            /\ pages < 2 * MaxEntries       \* a bound on empty pages
            /\ pages' = pages + 1
    /\ UNCHANGED <<form, sane, entries, steady, version>>

\* NFS3ERR_BAD_COOKIE, NFS4ERR_NOT_SAME: the verifier sent back is stale; or
\* any other refusal.
Refuse ==
    /\ ended = "no" /\ (~sane \/ (cookie # 0 /\ cookieverf # version))
    /\ Stop("refused")
    /\ UNCHANGED <<form, sane, entries, steady, version, pages>>

Next == Change \/ ReadDirV4 \/ ReadDirV3 \/ ReadDevices \/ Refuse

Spec == Init /\ [][Next]_vars

-----------------------------------------------------------------------------
(* Properties                                                              *)

\* A listing that returns Ok from a sane server has every entry that was there
\* throughout exactly once and in order, whatever other clients changed and
\* however the server cut its pages (read_dir_with_limit, next_dir_cursor).
ListingComplete ==
    sane /\ ended = "ok" =>
        /\ steady \subseteq Range(got)
        /\ \A i, j \in DOMAIN got : i < j => got[i] < got[j]

\* Whatever the server answers, the client reads at most one page more than
\* its limit has entries, and keeps no more entries than the limit
\* (a page before EOF has an entry, and the limit counts all pages).
ListingEnds ==
    /\ Len(got) <= MaxEntries
    /\ form # "devices" => pages <= MaxEntries + 1
=============================================================================
