# A TLA+ model of the NFS client

This directory models the userspace NFS client of this repository: the ONC RPC
transport, the recovery of NFSv4.1/4.2 sessions with the byte-range locks they
carry, the retry loops around delayed operations, the lease keeper, connecting
and shutting down, file updates, listings and tree calls, the public NFSv4
methods, the NFSv3 connection, and the wire format of both versions. The modules
are checked with TLC on small instances; the central invariants of seven of them
are proved with TLAPS for every instance.

## 1. The system

### Parts, state and operations

| Part | Source | State | Operations |
|---|---|---|---|
| ONC RPC over TCP | `rpc.rs`, `tokio_rpc.rs` | stream, `xid`, `interrupted`, timeout, record limit | connect, `call` (encode, write, read, decode) |
| Errors | `error.rs` | - | `is_outcome_unknown`, `is_transport_failure`, `is_session_recoverable`, `is_lost_state`, `Cleanup` |
| Retry policy | `retry.rs` | - | `delay_for_retry` |
| NFSv4 session | `v4/blocking.rs`, `v4/tokio.rs` | client id, session id, `sequence_id`, `open_seqid`, `recovery_pending`, limits | connect, `compound_status`, `recover_session`, `reconnect`, `shutdown`, `destroy_client_id` |
| NFSv4 locks | `v4/client.rs` (`LockRegistry`), `v4/blocking.rs` | registered locks: client id, stateids, `lost` | `lock`, `unlock`, `reclaim_lock`, `check_recovered_lock`, `check_revoked_locks` |
| Lease keeper | `v4/lease.rs` | worker, health flag, second session | start, heartbeat, `failed`, `stop` |
| NFSv4 opens | `v4/blocking.rs` | open stateid, delegation | `open`, `open_temp`, `open_named_attr`, clean-up, `close` |
| NFSv4 files | `v4/blocking.rs`, `v4/client.rs` | - | read, write, commit, append, copy, atomic replacement, named attributes, ACLs, xattrs, layouts |
| NFSv4 directories | same | cookie, verifier | paging, `create_dir_all`, `remove_all` |
| NFSv3 | `v3/*.rs` | root handle, FSINFO limits, mount | connect with portmap and MOUNT, the same file and directory operations, JUKEBOX retry |
| Wire types | `xdr/*`, `v4/proto.rs`, `v3/proto.rs` | - | encode, decode, validation |

The blocking and the tokio client have the same structure. What tokio adds is
that a future may be dropped at any `await`.

### How they interact

A public operation builds one or more COMPOUNDs. `compound_status` prefixes
SEQUENCE, sends through the RPC client, and deals with three kinds of trouble:
the stream failed (rebuild the session, repeat only read-only requests), the
session is gone (the same), the server asks to wait (repeat what had no
effect). Rebuilding a session stops the lease keeper, connects again, carries
the locks over or marks them lost, says RECLAIM_COMPLETE, and starts a new
keeper. The keeper runs beside the program and reports failure through a flag.

### What is hard about it

- a reply that arrives after its call has given up, on a stream that is used
  again; transaction ids that come round again;
- a request executed although its reply was lost, and executed from an
  abandoned stream after the session has been rebuilt;
- a server that restarts during recovery, between two reclaims, or before
  RECLAIM_COMPLETE, so that locks of several client ids meet in one recovery;
- a lock lost in a recovery that an unrelated call triggered;
- an unlock whose own LOCKU triggers a recovery;
- cancellation inside recovery, with the keeper stopped and locks half moved;
- two retry loops nested in each other, over requests that carry sequence
  numbers;
- an OPEN that succeeds inside a COMPOUND that fails;
- a worker thread that is stopped, dropped or replaced while it sleeps, sends a
  heartbeat or has just failed;
- a set-up of several requests, each of which may fail after the others took
  effect;
- data acknowledged from memory by a server that then restarts;
- a directory or a tree that another client changes while it is walked;
- results that follow each other in a reply without any delimiter.

`PROJECT.json` lists these and the others as hazards, each at its line.

### Correctness

1. A call gets its own reply or none.
2. A mutating request is executed at most once; success means executed; a
   definite error means not executed.
3. A lock the client vouches for was never in other hands since it was granted;
   after a loss the program is told before anything else is sent.
4. A released lock is not taken again.
5. Nothing takes effect twice through a DELAY loop, and the slot's sequence id
   stays in step with the server.
6. A failed operation leaves nothing behind on the server.
7. Every call returns, and the client works again once the server does.
8. No heartbeat follows the end of its session, and a failed one is noticed.
9. Ok from a stable update means that the data is on disk; an atomic update
   shows the old content or the new one and nothing else.
10. A listing is complete or an error, and ends.
11. What is encoded is what is decoded, and a method's result is the server's
    answer to that method's operation.

## 2. Modules

| Module | Models | Checked by |
|---|---|---|
| `AtMostOnce` | the abstract contract of a mutating call (property 2) | refined by `RpcClient`, `Recovery` |
| `RpcClient` | `rpc.rs`, `tokio_rpc.rs` | `MCRpcClient` |
| `RpcClientProofs` | invariants of `RpcClient` and their proofs | TLAPS |
| `DelayedRetry` | the DELAY/GRACE loops, the slot, opens and their clean-up | `MCDelayedRetry` |
| `DelayedRetryProofs` | invariants of `DelayedRetry` and their proofs | TLAPS |
| `Recovery` | `compound_status`, `recover_session`, `lock`, `unlock`, the lease keeper, cancellation | `MCRecovery`, `MCLocks` |
| `RecoveryProofs` | invariants of `Recovery` and their proofs | TLAPS |
| `LeaseRenewal` | `v4/lease.rs` and its three callers | `MCRpcClient` |
| `LeaseRenewalProofs` | its safety, proved | TLAPS |
| `SessionSetup` | connecting an NFSv4 client, `shutdown`, `destroy_client_id` | `MCClient` |
| `SessionSetupProofs` | its safety, proved | TLAPS |
| `FileUpdate` | write, write_at, append, copy, write_atomic, copy_atomic of both versions | `MCClient` |
| `FileUpdateProofs` | no temporary file left, proved | TLAPS |
| `Listing` | `read_dir` of both versions, `list_devices` | `MCClient` |
| `TreeCalls` | `create_dir_all`, `remove_all` of both versions | `MCClient` |
| `V3Connection` | connecting an NFSv3 client, MOUNT and portmap calls, `unmount` | `MCClient` |
| `V3ConnectionProofs` | its safety, proved | TLAPS |
| `Pairs` | lemmas on the smaller and the larger of two sizes | TLAPS |
| `V4Methods` | what each public NFSv4 method sends, as data | through `V4Calls` |
| `V4Calls` | how a method's COMPOUNDs are built, sent, checked and read, and its files closed | `MCClient` |
| `Xdr` | the primitive encoders and decoders, as an interpreter of schemas | through `WireFormat` |
| `V4Types`, `V4Operations`, `V4Results` | the schemas of `v4/proto.rs` | through `WireFormat` |
| `V3Wire` | the schemas of `v3/proto.rs`, `mount.rs`, `portmap.rs` and the RPC headers | through `WireFormat` |
| `WireFormat` | messages through record fragments and back | `MCClient` |

### RpcClient

A stream is the sequence of whole records in flight in each direction; an
abandoned stream stays in the model, and the server may still read from it. A
reply names the call it answers, so that a call returning another call's reply
is visible in `payload`. `call()` is two steps: writing the request
(`CallWrite`, `CallWriteFails`) and reading the reply (`ReadReply`,
`ReadFails`); `Cancel` drops the tokio future in between. `interrupted` is set
before the write and cleared only by a reply that decodes. `XidMod` stands for
2^32, so that ids repeat within a run.

### DelayedRetry

A session that works, with one slot. A COMPOUND is the sequence of its
operations' names. The server executes any prefix and answers the next
operation with DELAY/GRACE or with another status. `Send` is one turn of the
loop in `compound_status`; `Rebuild` one turn of the loop around OPEN, LOCK or
CLOSE. The actions from `OpenRefused` to `CleanupRemoved` are the ways out of
`open_with_owner_failure_cleanup` and `open_named_attr`. Whether
`validate_open_result` accepts is free, so an OPEN that succeeded may still be
closed again.

### Recovery

One client, one server, another client that wants the same ranges. An RPC is
one step; `RpcClient` justifies that a call gets its own reply or none. A
request without a reply may have been executed, be lost, or be executed later
(`late`). A Result is what the predicates of `error.rs` tell apart. A stateid
is the client id it was granted under, a session id is whether the server still
has the session. `pc` follows `compound_status` (`entry`, `send`, `revoked`,
`return`) and `recover_session` (`stoplease`, `exchange`, `create`, `relock`,
`complete`, `fsinfo`, `keeper`, `swap`, `recovered`); `rec.cont` says which
caller the recovery returns to. The DELAY loops are left to `DelayedRetry`.

History variables (`execs`, `outcome`, `lostReply`, `flagged`, `contended`,
`givenUp`, `readOk`) record what the properties speak of and guard nothing,
except that each mutation and each lock is called once.

`DelayedRetry` and `Recovery` assume a server whose COMPOUND replies can be
decoded (`V4Calls` does not). A server that
answers OPEN or CLOSE with a session status while it also reports revoked state
is left out (`SendOpExpired`).

### LeaseRenewal

One worker per lease, a thread or a task. The thread's loop is `lock` (take the
mutex, test the flag), `wait`, `wake`, `hold` (flag tested with the mutex held),
`renew`, `fail`; a task sleeps in `wait` and is dropped at an `await` once
aborted. The client starts a lease, stops it (`StopSets`, `StopNotifies`,
`Join`, `DestroyKeeper`) or drops it (`DropSets`, `DropNotifies`); the future
that awaits a stopped task may be dropped too (`CancelJoin`). `late` records a
heartbeat sent on a session the client had destroyed.

### SessionSetup

A step is one request and the code up to the next. `own` is what the client
knows, `live` what the server has, `unsure` the sessions whose CREATE_SESSION
reply was lost or whose DESTROY_SESSION failed. Sizes are scaled: `Headroom` is
`NFS4_COMPOUND_IO_HEADROOM`, `MaxIo` is `NFS4_MAX_IO`. A failed DESTROY_SESSION
of the keeper ends `shutdown` before the main session is destroyed, as in the
code; the property is about `Ok`.

FSINFO goes through `compound_status`, so a session status or a transport failure
starts `recover_session` in the middle of connecting (`FsinfoFails`, `Recover`):
the same set-up again for the role `rebuilt`, with its own reconnects, then
RECLAIM_COMPLETE (`CompleteRecovery`) and the exchange of the two clients
(`Swap`). With automatic renewal that recovery cannot succeed, because
`start_lease_renewal` has no FSINFO yet to take the lease time from.

`dropped` holds the sessions of clients that go out of scope without a
DESTROY_SESSION: the rebuilt one when its recovery fails after CREATE_SESSION, and
the keeper's when `BlockingLease::start` cannot spawn its thread. `NoSessionLeft`
allows those and no others: at most one, and only in a connect that fails.

### FileUpdate

One call on one file, for either protocol. A file has what the server shows
(`mem`) and what survives a restart (`disk`). WRITE may write less, answer with
any stability, or lose its reply; the write verifier changes with a restart.
`excused` is set where a reply was lost or the REMOVE that cleans up failed;
`unclosed` where the CLOSE after the last byte failed. `copy_atomic` returns that
failure at once (`close_result?`) and leaves its temporary file: `NoTempLeft` names
this one case, and the run `copy_left` shows it. Another client may append once
while `append` runs; `append` writes at the size it read, so the other client's
bytes may be overwritten. `OkMeansDurable` asks that no byte below that size is
lost and that the call's own bytes stand there in one piece.

### Listing, TreeCalls

`Listing`: a sane server answers with entries after the cookie, in any cut; an
insane one answers any page of at most one entry. `list_devices` is bounded by
the limit only when pages have entries: an insane server can answer empty pages
with moving cookies, so the model bounds those (`pages < 2 * MaxEntries`) and
the property on the number of pages leaves devices out.
`TreeCalls`: a tree of four names, and a rival who creates, removes and replaces
entries (`MaxMoves`). `RemoveAll` works from the stack of the code; a type that
READDIR left out is probed as the code does.

### V3Connection

Validation, portmap, MNT, the NFS port, the NFS connection, FSINFO with
JUKEBOX, UMNT when a later step fails, and the stand-alone MOUNT calls.
`blurred` says that a MNT or UMNT reply was lost or could not be read: the code
sends no UMNT when the MNT reply is unreadable.

### V4Methods and V4Calls

`V4Methods` is a table of about a hundred methods: the COMPOUNDs sent before a
file is opened, the files opened, the COMPOUNDs sent while they are open, and
the result read. `V4Calls` interprets it: path operations are built as
`path_ops`, `parent_ops` and `named_attr_ops` build them, a server model follows
the current filehandle, executes a prefix and fails at any operation, and one
reply of a method may be misshapen (unreadable, another tag, more or fewer or
other results, a status that contradicts the results). A session takes 5 or 16
operations in a COMPOUND (`maxOps`), and a longer request is refused before it is
sent (`validate_session_compound_operation_count`). The reply goes through
`validate_compound_response_shape`, `ensure_ok` and `response_*`, and files are
closed on every path. The session below is one that works: lost replies and
recovery are `Recovery`'s subject, delays `DelayedRetry`'s.

### Xdr, V4Types, V4Operations, V4Results, V3Wire, WireFormat

A type is a schema in the order in which the code writes or reads its fields,
with the limits the code tests; `Xdr` encodes, decodes and samples schemas. A
word is 16 bits wide and limits are small (`NFS4_OPAQUE_LIMIT = 5` and so on),
so that a value at, below and above each limit occurs. `WireFormat` composes a
message, cuts it into record fragments, perhaps truncates it, and reads it back.
Where the code has an encoder and a decoder of a type, the two are separate
schemas and are checked against each other. A type with only one side in the
client uses the same schema for its peer, and the check then shows what the
framing around it does: COMPOUND results out of step, attributes in mask order,
lengths and padding, limits, fragments.

## 3. Runs

| Run | Instance | Shows |
|---|---|---|
| `rpc` | 3 calls, 2 streams, 3 ids; or 2 leases, threads or tasks | a late reply is never another call's; the transport implements `AtMostOnce`; every call returns; a lease stops, ends and reports its failure |
| `delayed_retry` | 3 calls, 1 retry per loop | nothing takes effect twice, the slot stays in step, a failed open is cleaned up, the budget is spent before giving up |
| `restart` | 1 lock, 1 mutation, keeper, cancellation, 2 events or 1 and a revocation, 1 fault | types, `AtMostOnce`, fencing, continuity, RECLAIM_COMPLETE after the reclaims, no reclaim after unlock, nothing sent without a keeper or while a lock is lost |
| `locks` | lock and unlock, 2 faults, 1 event, 1 revocation; or 2 held locks, 2 events, 1 fault | OPEN once, no orphan lock; interrupted reclaims are resumed, RECLAIM_COMPLETE comes last |
| `live` | keeper, a lock to be taken and released, 1 event, 1 revocation, 1 fault | every call returns, reads succeed again |
| `client` | one part per behaviour, see below | nothing left behind, sizes that fit, durable and atomic updates, complete and finite listings, trees, exact messages, answered methods |
| `definite_error`, `lost_reply`, `acknowledge`, `delegation_kept`, `verify_false`, `copy_left` | as above | where the code departs from what its docs say |

An event is a restart, a lease expiry or a dropped session. A fault is a lost
reply, a refused connection or a cancellation. `FewDisturbances` caps events and
revocations of the `restart` run together at two.

The `client` run is a sum: a behaviour follows one of `SessionSetup`,
`FileUpdate`, `Listing`, `TreeCalls`, `V3Connection`, `WireFormat` and
`V4Calls`, which share no state, and the variables of the others are `"off"`. So
is the `rpc` run, of `RpcClient` and `LeaseRenewal`, and the `locks` run, of two
instances of `Recovery`. The properties of the `client` run:

| Property | Says |
|---|---|
| `NothingLeftBehind` | a call that is over left no session, temporary file, MOUNT record or open file, unless a reply was lost or a clean-up request failed; the exceptions are `dropped` and `unclosed` above |
| `Negotiated` | the highest common minor version; transfer sizes within the channel, the server's limits and the client's, never 0 |
| `OkMeansDurable`, `OldOrNew` | correctness 9 |
| `ListingComplete`, `ListingEnds` | correctness 10 |
| `TreesRight` | `create_dir_all` survives another client making the same directories; `remove_all` left alone takes the whole tree, and never anything it did not list |
| `MessagesExact`, `MethodsAnswered` | correctness 11 |

**Bounds.** In the `client` run: data of three bytes in chunks of two gives a
full and a short chunk; two faults let a clean-up fail too; two restarts let one
fall between WRITE and COMMIT twice; four cookies and a limit of three let a
listing meet its limit on any page; channel sizes below, at and above the
head-room; one reconnect (`MaxReconnects`) lets a recovery inside connect lose its
connection and go on; five operations in a COMPOUND let some requests of a method
through and refuse others; two JUKEBOX answers exhaust the retries. Two leases let a dropped
worker meet its successor. In the other runs, two events let a restart interrupt the recovery from an earlier one;
two locks let it fall between two reclaims; one fault lets the recovery itself
fail and be resumed by the next call. Three RPC calls over three ids make an id
come round while a late reply is in flight. Three calls over the slot are an
open, a use and a close.

**Deadlock** is not checked where the program may simply have made all its
calls (`rpc`, `delayed_retry`, `client`).

**Fairness.** `RpcClient`: a read ends, by a reply or by the configured timeout.
`LeaseRenewal`: threads are run and tasks polled; a heartbeat ends because its
socket has a timeout no longer than the interval; an aborted task is dropped
when it is next polled (weak fairness of each worker). `stop` and `Drop` need
the mutex, which the worker takes and gives back once in each interval, so that
the client is not kept out for ever (strong fairness of `Stopping` and
`Dropping`). Starting, stopping and dropping are the program's choice and have
no fairness.
`DelayedRetry`: the server answers, with anything. `Recovery`: the client's own
steps are taken; the keeper's next heartbeat on a session the server dropped
does fail, since it is sent every interval; the grace period ends. `UsableAgain`
is about a program that keeps reading and hands back locks it has lost, so those
two calls are taken infinitely often if they can be.

### Where code and documentation disagree

- `definite_error`: when the reply to a mutation reports revoked state,
  `compound_status` returns `LockLost`, or an error of `check_revoked_locks`, in
  place of the reply. The mutation was executed and `is_outcome_unknown()` is
  false (`error.rs:119`).
- `lost_reply`: the reply to OPEN is lost, the recovery fails with a session
  status, the loop around OPEN tries again, and what is returned is a definite
  session error (`README.md:61`).
- `acknowledge`: a revoked lock that recovery finds, or that is unlocked before
  it is found, is never given to FREE_STATEID (`v4/blocking.rs:752`).
- `delegation_kept`: an open that fails after OPEN granted a delegation closes
  the file and forgets the delegation (`v4/blocking.rs:3976`).
- `verify_false`: `verify_attrs` and `nverify_attrs` cannot return `Ok(false)`: the
  COMPOUND's status is checked first, so NOT_SAME and SAME come out as errors
  (`v4/blocking.rs:909`, `:918`).
- `copy_left`: `copy_atomic` leaves its temporary file when CLOSE fails after the
  copy succeeded, before its "cleanup REMOVE after failed atomic copy"
  (`v4/blocking.rs:1708`); `copy_named_attr_atomic` has the same lines.

`ContractSpec` of `Recovery` and `NoOrphanLock` set aside exactly the calls
whose reply reported revoked state (`flagged`), the subject of the first item.

Smaller observations made while modelling, kept in the models as the code has
them:

- `create_with_mode` is documented as creating or replacing, and sends a guarded
  create.
- `remove_all_if_exists` returns `Ok(false)` when some child vanished meanwhile,
  although the tree was there.
- `shutdown` returns before it destroys the main session when the keeper's
  DESTROY_SESSION fails; a failed recovery, and a keeper whose thread cannot be
  started, leave their session to the server.
- `list_devices` fails when the number of devices is exactly the limit and the
  server has not said eof.
- `test_lock` and `lock` read their own operation's result without the general
  check, so that a failed LOOKUP before it is reported as a protocol error.
- An MNT reply that cannot be read leaves its record: there is no UMNT.
- After a failed SETATTR no bitmap is decoded (`tests/v4_protocol.rs:1508`).

## 4. Proofs

`RpcClientProofs` proves, for any set of calls, any number of streams and any
modulus of at least two,

- `TypeCorrect`: `Spec => []TypeOK`,
- `StreamsStayInStep`: `Spec => []StreamInStep`,
- `RepliesAreOwn`: `Spec => []ReplyIsOwn`.

`ReplyIsOwn` is not inductive: an idle client could hold a stream with an old
reply in it. The inductive invariant adds that streams not opened yet are
empty, that a stream which may be used is empty while the client is idle, and
that while a call is reading, its stream holds at most one record in both
directions together, which carries the call's own id and identity. The proof
has one lemma per group of actions. That records never mix does not depend on
ids being distinct, which is why the modulus may be as small as two.

`DelayedRetryProofs` proves, for any number of calls and any retry budget,

- `TypeCorrect`: `Spec => []TypeOK`,
- `SlotStaysInStep`: `Spec => []SlotInStep`,
- `NothingTwice`: `Spec => []NoReexecution`.

`NoReexecution` is not inductive: it does not say that what is about to be sent
has had no effect yet. `Fresh` adds that. While a phase's COMPOUND is to be
sent, neither its own operation with an effect nor those of the phases after it
have been executed; once the response is there, the phase's own operation has
been executed only if the response says so. Lemmas about the pure operators
carry the argument: operations in `ReplayablePrefix` have no effect
(`PrefixHasNoEffect`), so where `AllowsDelayedRetry` holds nothing took effect
(`RepeatIsHarmless`), and neither did anything where the loops around OPEN, LOCK
and CLOSE build their request again (`RebuildIsHarmless`).

`RecoveryProofs` proves, for any sets of mutations and locks, any number of
faults, events and revocations, with and without keeper and cancellation,

- `TypeCorrect`: `Spec => []TypeOK`,
- `NothingSentOnLostLock`: `Spec => []NothingSentWhileLost`,
- `KeeperRunsWhileUsed`: `Spec => []RenewedWhileUsed`,
- `ReclaimedBeforeComplete`: `Spec => []ReclaimBeforeComplete`.

None of the last three is inductive, because each speaks of one moment and
depends on how the client came there. Two strengthenings are needed. `Control`
ties `recovery_pending` to the control points: it is set throughout
`recover_session`, clear when a request is sent and when a recovery has
succeeded, and with automatic renewal a keeper runs while it is clear. `Claims`
follows the client ids: a new session that is up belongs to the server's client
id; during the reclaims the tracked locks no longer in `todo` are under that id,
and before RECLAIM_COMPLETE is sent all of them are. When the server forgets the
client it also forgets RECLAIM_COMPLETE, so an interrupted recovery leaves no
claim that the next one would have to keep. Both are proved together, with one
lemma per action or group of actions.

`LeaseRenewalProofs` proves `KeeperSafe`, `Spec => []KeeperStops`, for any number
of leases. That a heartbeat never meets a destroyed session is not inductive: it
depends on the join that came before. The invariant adds that a destroyed
session's worker is done and that at `DestroyKeeper` the lease's worker is; that
only the current lease and dropped ones have a running worker, which gives
`OneKeeper`; and that the flag of a lease given up stays set, so that its thread,
which tests it with the mutex held, does not wait again.

`SessionSetupProofs` proves `SetupSafe`: `NoSessionLeft`, `HighestMinor` and
`TransfersFit` for channel, transfer and head-room sizes of any width and any number
of reconnects. `Known` (every session at the server is one the client knows, has
dropped, or is unsure of), `Owned` (which sessions the client knows at which step)
and `Dropping` (a dropped one means that connect is failing) carry the first,
`Descends` (every higher version was refused) the second, and three lemmas about
`session_payload_limit` and `clamp_io_size` the third. `V3ConnectionProofs`
proves `ClampFits` and `ConnectionSafe` in the same way. The sizes of the TLC
instances are scaled down; these theorems cover the real ones.

`FileUpdateProofs` proves `TempRemoved`, `Spec => []NoTempLeft`, for any data,
chunk size and number of faults and restarts: a temporary file that exists was
created with the call's knowledge (`created`) or a reply about it was lost
(`excused`), and every way to `done` goes past its removal, but for `copy_atomic`
with a failed CLOSE (`unclosed`).

The proofs assume `ConstantsAssumption` of their module: bounds are natural
numbers, switches are Booleans, the tokens held at the start are tokens,
mutations and tokens are disjoint, and the "no call" value is none of them;
`RpcClient` has at least one stream and two ids. `SetupSafe` and `ConnectionSafe`
state their own: sizes are natural numbers and `MaxIo` is positive.

Only model-checked: the refinements of `AtMostOnce`; `RetriedWhenSafe` and
`NothingLeftBehind` of `DelayedRetry`; `LockContinuity`, `Fencing`,
`NeverReclaimedAfterUnlock`, `OpenAtMostOnce` and `NoOrphanLock` of `Recovery`;
`OkMeansDurable` and `OldOrNew`, whose content is built by induction over data;
`Listing`, `TreeCalls`, `V4Calls` and the wire modules, which use recursive
operators or sorted sequences; and all liveness, which is out of TLAPS's reach.

## 5. What could follow

- A proof that `RpcClient` implements `AtMostOnce`; proofs of `RetriedWhenSafe`
  and `NothingLeftBehind` of `DelayedRetry` and of `OpenAtMostOnce`,
  `LockContinuity` and `NeverReclaimedAfterUnlock` of `Recovery`.
- The slot's sequence id after a reply that cannot be decoded, and its wrap at
  2^32 (two of the hazards).
- `V4Calls` above `Recovery`: a method whose session is rebuilt between two of
  its COMPOUNDs.

## 6. Not modelled

- Formatting of errors, logging, and the builders' validation beyond the sizes
  and ports above.
- The loops of `read`, `read_at` and `read_exact_at`, which change nothing; the
  read side of `copy` is modelled.
- The `_from_reader` forms: a local reader stands where `copy` reads the source,
  and its failure is a failed READ.
- The NFSv3 methods that are one call each: their messages are in `V3Wire`.
- The tokio clients' methods, which are the blocking ones with `await`; what
  cancellation adds is in `RpcClient`, `Recovery` and `LeaseRenewal`.
- Character sets of names: a path is a sequence of components.
- The examples, which only call public methods.
- Times: a timeout may happen whenever a reply is awaited, a backoff delay is no
  step.
