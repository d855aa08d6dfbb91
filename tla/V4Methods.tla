----------------------------- MODULE V4Methods ------------------------------
(***************************************************************************)
(* What each public method of the NFSv4 client sends.  A method is a       *)
(* program: COMPOUNDs sent before any file is opened, the files it opens,  *)
(* and the COMPOUNDs sent while they are open; the CLOSEs follow from the  *)
(* opens.  A step names where its last operation applies (where, and n for *)
(* the first or the second path), the operation, the result read from the  *)
(* reply (pick), and whether the reply's status is checked before it.      *)
(***************************************************************************)
EXTENDS Naturals, Sequences, TLC

Step(where, n, op, pick) ==
    [where |-> where, n |-> n, op |-> op, pick |-> pick, strict |-> TRUE, skip |-> "no",
     redo |-> <<>>]

\* The step whose value the method returns, or whose status is all it returns.
Query(where, n, op) == Step(where, n, op, op)
Do(where, n, op) == Step(where, n, op, "status")

\* compound_status instead of compound; a request with nothing in it is not sent, or
\* its answer cannot be done without; a step after which some are done again.
Lenient(s) == [s EXCEPT !.strict = FALSE]
IfAny(s) == [s EXCEPT !.skip = "skip"]
Needed(s) == [s EXCEPT !.skip = "fail"]
Loop(s, redo) == [s EXCEPT !.redo = redo]

Method(prep, opens, body) ==
    [prep |-> prep, opens |-> opens, body |-> body, min |-> 1, idle |-> "no", check |-> "no",
     absent |-> {}, distinct |-> "no"]

Direct(steps) == Method(steps, <<>>, <<>>)
Opened(where, body) == Method(<<>>, <<[where |-> where, n |-> 1]>>, body)
TwoOpened(where, prep, body) ==
    Method(prep, <<[where |-> where, n |-> 1], [where |-> where, n |-> 2]>>, body)

\* require_minor_version(.., NFS4_MINOR_VERSION_V42)
V42(m) == [m EXCEPT !.min = 2]
\* Nothing to do: Ok before anything else is looked at, or after the version check.
Idle(m) == [m EXCEPT !.idle = "first"]
IdleLate(m) == [m EXCEPT !.idle = "late"]
\* Another argument (an owner, a count, a limit) is validated first, or before the body.
Checked(m) == [m EXCEPT !.check = "first"]
CheckedOpen(m) == [m EXCEPT !.check = "body"]
\* Statuses the method turns into a value.
Unless(statuses, m) == [m EXCEPT !.absent = statuses]
Distinct(what, m) == [m EXCEPT !.distinct = what]

-----------------------------------------------------------------------------
(* Attributes: the supported ones are asked for first, and only those of   *)
(* the wanted attributes that are supported are requested.                 *)

SupportedValues(where, n) == <<Query(where, n, "GETATTR"), IfAny(Query(where, n, "GETATTR"))>>
DirPage(where) == Checked(Direct(<<Query(where, 1, "GETATTR"), Query(where, 1, "READDIR")>>))

LookupMethods ==
    [lookup |-> Direct(<<Step("path", 1, "", "none")>>),
     lookup_public |-> Direct(<<Step("public", 1, "", "none")>>),
     public_exists |-> Unless({"NOENT"}, Direct(<<Step("public", 1, "", "none")>>)),
     file_handle |-> Direct(<<Query("path", 1, "GETFH")>>),
     public_file_handle |-> Direct(<<Query("public", 1, "GETFH")>>),
     parent_file_handle |-> Direct(<<Query("parent", 1, "GETFH")>>),
     exists |-> Unless({"NOENT"}, Direct(<<Step("path", 1, "", "none")>>))]

PublicMethods ==
    [public_supported_attrs |-> Direct(<<Query("public", 1, "GETATTR")>>),
     public_getattr_values |-> Idle(Direct(<<Query("public", 1, "GETATTR")>>)),
     public_supported_attr_values |-> Direct(SupportedValues("public", 1)),
     public_read_dir_page |-> DirPage("public"),
     public_access |-> Direct(<<Query("public", 1, "ACCESS")>>)]

ParentMethods ==
    [parent_supported_attrs |-> Direct(<<Query("parent", 1, "GETATTR")>>),
     parent_getattr_values |-> Idle(Direct(<<Query("parent", 1, "GETATTR")>>)),
     parent_supported_attr_values |-> Direct(SupportedValues("parent", 1)),
     parent_read_dir_page |-> DirPage("parent"),
     parent_access |-> Direct(<<Query("parent", 1, "ACCESS")>>)]

AttributeMethods ==
    [supported_attrs |-> Direct(<<Query("path", 1, "GETATTR")>>),
     getattr_values |-> Idle(Direct(<<Query("path", 1, "GETATTR")>>)),
     get_supported_attr_values |-> Direct(SupportedValues("path", 1))]

SessionMethods ==
    [backchannel_ctl |-> Direct(<<Do("own", 1, "BACKCHANNEL_CTL")>>),
     bind_conn_to_session |-> Direct(<<Lenient(Query("bare", 1, "BIND_CONN_TO_SESSION"))>>),
     set_ssv |-> Direct(<<Query("own", 1, "SET_SSV")>>)]

AccessMethods ==
    [access |-> Direct(<<Query("path", 1, "ACCESS")>>),
     secinfo |-> Direct(<<Query("entry", 1, "SECINFO")>>),
     secinfo_no_name |-> Direct(<<Query("path", 1, "SECINFO_NO_NAME")>>)]

VerifyMethods ==
    [verify_attrs |-> Direct(<<Query("path", 1, "VERIFY")>>),
     nverify_attrs |-> Direct(<<Query("path", 1, "NVERIFY")>>)]

DelegationMethods ==
    [want_delegation |-> Direct(<<Query("path", 1, "WANT_DELEGATION")>>),
     get_dir_delegation |-> Direct(<<Query("path", 1, "GET_DIR_DELEGATION")>>),
     return_delegation |-> Direct(<<Do("path", 1, "DELEGRETURN")>>),
     purge_delegations |-> Direct(<<Do("own", 1, "DELEGPURGE")>>)]

test_lock == Checked(Direct(<<Lenient(Query("path", 1, "LOCKT"))>>))

StateMethods ==
    [free_stateid |-> Direct(<<Do("own", 1, "FREE_STATEID")>>),
     test_stateids |-> Idle(Checked(Direct(<<Query("own", 1, "TEST_STATEID")>>))),
     release_lock_owner |-> Checked(Direct(<<Lenient(Query("own", 1, "RELEASE_LOCKOWNER"))>>))]

-----------------------------------------------------------------------------
(* Requests on an open file.                                               *)

io_advise_opened == Query("handle", 1, "IO_ADVISE")
read_opened_at == Query("handle", 1, "READ")
read_opened_to_end == Loop(read_opened_at, <<read_opened_at>>)
read_opened_range == IfAny(read_opened_to_end)
read_plus_opened == Query("handle", 1, "READ_PLUS")
seek_opened == Query("handle", 1, "SEEK")
set_opened_attrs(n) == Do("handle", n, "SETATTR")
return_open_delegation(n) == Do("handle", n, "DELEGRETURN")
update_opened_allocation(op) == Do("handle", 1, op)
write_same_opened == Query("handle", 1, "WRITE_SAME")
write_chunk(n) == Query("handle", n, "WRITE")
write_opened_at(n) == IfAny(Loop(write_chunk(n), <<write_chunk(n)>>))
commit_opened(n) == Query("handle", n, "COMMIT")
copy_opened ==
    <<read_opened_at, IfAny(Loop(write_chunk(2), <<read_opened_at, write_chunk(2)>>))>>
copy_opened_range_offload == Query("pair", 2, "COPY")
copy_notify_opened == Query("handle", 1, "COPY_NOTIFY")
layout_get_opened == Query("handle", 1, "LAYOUTGET")
clone_opened_range == Do("pair", 2, "CLONE")

io_advise == V42(Opened("entry", <<io_advise_opened>>))

ReadMethods ==
    [read |-> Opened("entry", <<read_opened_to_end>>),
     read_range |-> Opened("entry", <<read_opened_range>>),
     read_at |-> Opened("entry", <<read_opened_range>>)]

SeekMethods ==
    [read_plus |-> V42(Opened("entry", <<read_plus_opened>>)),
     seek |-> V42(Opened("entry", <<seek_opened>>)),
     read_link |-> Direct(<<Query("path", 1, "READLINK")>>)]

WriteMethods ==
    [write |-> Opened("entry", <<set_opened_attrs(1), write_opened_at(1)>>),
     write_from_reader |-> Opened("entry", <<set_opened_attrs(1), write_opened_at(1)>>)]

truncate == Opened("entry", <<set_opened_attrs(1)>>)
update_allocation(op) == Idle(V42(Opened("entry", <<update_opened_allocation(op)>>)))
write_same == CheckedOpen(V42(Opened("entry", <<write_same_opened>>)))

SetAttrMethods ==
    [setattr |-> Idle(Direct(<<Do("path", 1, "SETATTR")>>)),
     setattr_size |-> Idle(Opened("entry", <<set_opened_attrs(1)>>)),
     write_at |-> Opened("entry", <<write_opened_at(1)>>)]

copy ==
    Distinct("paths", TwoOpened("entry", SupportedValues("path", 1), <<set_opened_attrs(2)>> \o copy_opened))

copy_range_offload ==
    Distinct("handles", IdleLate(Checked(V42(TwoOpened("entry", <<>>, <<copy_opened_range_offload>>)))))

OffloadMethods ==
    [copy_notify |-> V42(Opened("entry", <<copy_notify_opened>>)),
     copy_notify_with_stateid |-> V42(Direct(<<Query("path", 1, "COPY_NOTIFY")>>)),
     offload_status |-> V42(Direct(<<Query("own", 1, "OFFLOAD_STATUS")>>)),
     offload_cancel |-> V42(Direct(<<Do("own", 1, "OFFLOAD_CANCEL")>>))]

get_device_info == Checked(Direct(<<Query("own", 1, "GETDEVICEINFO")>>))
list_device_page == Checked(Direct(<<Query("own", 1, "GETDEVICELIST")>>))
layout_get == Checked(Opened("entry", <<layout_get_opened>>))
layout_commit == Direct(<<Query("path", 1, "LAYOUTCOMMIT")>>)

LayoutReports ==
    [layout_error |-> Direct(<<Do("path", 1, "LAYOUTERROR")>>),
     layout_stats |-> Direct(<<Do("path", 1, "LAYOUTSTATS")>>)]

LayoutReturns ==
    [layout_return_file |-> Direct(<<Query("path", 1, "LAYOUTRETURN")>>),
     layout_return_fsid |-> Direct(<<Query("path", 1, "LAYOUTRETURN")>>),
     layout_return_all |-> Direct(<<Query("own", 1, "LAYOUTRETURN")>>)]

clone_range == IdleLate(V42(TwoOpened("entry", <<>>, <<clone_opened_range>>)))

commit == Direct(<<Query("path", 1, "COMMIT")>>)

create_new == Opened("entry", <<>>)

-----------------------------------------------------------------------------
(* Names.                                                                  *)

mkdir == Direct(<<Do("entry", 1, "CREATE")>>)

CreateMethods ==
    [symlink |-> Direct(<<Do("entry", 1, "CREATE")>>),
     create_special |-> Direct(<<Do("entry", 1, "CREATE")>>)]

hard_link == Direct(<<Do("link", 2, "LINK")>>)

RemoveMethods ==
    [remove |-> Direct(<<Do("entry", 1, "REMOVE")>>),
     remove_if_exists |-> Unless({"NOENT"}, Direct(<<Do("entry", 1, "REMOVE")>>)),
     rmdir_if_exists |-> Unless({"NOENT"}, Direct(<<Do("entry", 1, "REMOVE")>>))]

rename == Direct(<<Do("entries", 2, "RENAME")>>)
read_dir_page == DirPage("path")

probe_directory == Unless({"NOTDIR"}, Direct(<<Query("path", 1, "READDIR")>>))

renew == Direct(<<Step("own", 1, "", "none")>>)

-----------------------------------------------------------------------------
(* Named attributes: files in the attribute directory of an object.        *)

read_named_attr_page == DirPage("attrdir")

NamedAttrValues ==
    [named_attr_exists |-> Unless({"NOENT"}, Direct(SupportedValues("attr", 1))),
     named_attr_supported_attrs |-> Direct(<<Query("attr", 1, "GETATTR")>>),
     named_attr_getattr_values |-> Direct(<<IfAny(Query("attr", 1, "GETATTR"))>>),
     named_attr_supported_attr_values |-> Direct(SupportedValues("attr", 1))]

ReadNamedAttrs ==
    [read_named_attr |-> Opened("attrentry", <<read_opened_to_end>>),
     read_named_attr_range |-> Opened("attrentry", <<read_opened_range>>),
     read_named_attr_at |-> Opened("attrentry", <<read_opened_range>>)]

WriteNamedAttrs ==
    [write_named_attr |-> Opened("attrentry", <<set_opened_attrs(1), write_opened_at(1)>>),
     write_named_attr_from_reader |->
         Opened("attrentry", <<set_opened_attrs(1), write_opened_at(1)>>)]

write_named_attr_at == Opened("attrentry", <<write_opened_at(1)>>)

append_named_attr ==
    Method(<<Query("attr", 1, "GETATTR"), Needed(Query("attr", 1, "GETATTR"))>>,
           <<[where |-> "attrentry", n |-> 1]>>, <<write_opened_at(1)>>)

copy_named_attr ==
    Distinct("handles",
        TwoOpened("attrentry", SupportedValues("attr", 1), <<set_opened_attrs(2)>> \o copy_opened))

set_named_attr_attrs == Idle(Opened("attrentry", <<set_opened_attrs(1)>>))

RenameNamedAttrs ==
    [rename_named_attr |-> Direct(<<Do("attrentries", 1, "RENAME")>>),
     rename_named_attr_if_exists |->
         Unless({"NOENT"}, Direct(<<Do("attrentries", 1, "RENAME")>>))]

RemoveNamedAttrs ==
    [remove_named_attr |-> Direct(<<Do("attrentry", 1, "REMOVE")>>),
     remove_named_attr_if_exists |-> Unless({"NOENT"}, Direct(<<Do("attrentry", 1, "REMOVE")>>))]

-----------------------------------------------------------------------------
Methods ==
    LookupMethods @@ PublicMethods @@ ParentMethods @@ AttributeMethods @@ SessionMethods
    @@ AccessMethods @@ VerifyMethods @@ DelegationMethods @@ StateMethods @@ ReadMethods
    @@ SeekMethods @@ WriteMethods @@ SetAttrMethods @@ OffloadMethods @@ LayoutReports
    @@ LayoutReturns @@ CreateMethods @@ RemoveMethods @@ NamedAttrValues @@ ReadNamedAttrs
    @@ WriteNamedAttrs @@ RenameNamedAttrs @@ RemoveNamedAttrs
    @@ [test_lock |-> test_lock, io_advise |-> io_advise, truncate |-> truncate,
        allocate |-> update_allocation("ALLOCATE"), deallocate |-> update_allocation("DEALLOCATE"),
        write_same |-> write_same, copy |-> copy, copy_range_offload |-> copy_range_offload,
        get_device_info |-> get_device_info, list_device_page |-> list_device_page,
        layout_get |-> layout_get, layout_commit |-> layout_commit, clone_range |-> clone_range,
        commit |-> commit, create_new |-> create_new, mkdir |-> mkdir, hard_link |-> hard_link,
        rename |-> rename, read_dir_page |-> read_dir_page, probe_directory |-> probe_directory,
        renew |-> renew, read_named_attr_page |-> read_named_attr_page,
        write_named_attr_at |-> write_named_attr_at, append_named_attr |-> append_named_attr,
        copy_named_attr |-> copy_named_attr, set_named_attr_attrs |-> set_named_attr_attrs]

=============================================================================
