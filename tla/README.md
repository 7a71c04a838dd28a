# A TLA+ verification of Resilient-Messenger

This directory holds TLA+ models of the messenger's state machines, the TLC
configurations that check them on small instances, and proofs that TLAPS checks
for every instance. Paths below are relative to the repository root; `core`
stands for `crates/messenger-core/src/lib.rs`, `api` for
`services/core-api/src/lib.rs`, `transport` for
`crates/messenger-transport/src/lib.rs`, `crypto` for
`crates/messenger-crypto/src/lib.rs`. `PROJECT.json` maps every definition to the lines
it models and lists runs, mutants, findings, hazards and theorems.

## 1. The system

| Part | State | Operations | Hard because |
|---|---|---|---|
| `messenger-core`, store | SQLite tables: messages, outbox, conversations, conversation_members, inbox, sync_cursors, change_counter, blocks, network mode, relay cache | create/list/search, get_pending_uploads, mark_upload_accepted, retry, cancel, receipts, ingest, cursors, groups, wipe | the process dies between two autocommitted statements; acknowledgements, receipts and retries come in any order; u64 cursors in an i64 column |
| `messenger-core`, locks | `Mutex<Connection>`, `RwLock` of the master key, key_metadata | rotate_master_key against create_message, list_messages, local_search | two locks in two orders; a ciphertext made under a key that is no longer held |
| upload pipeline | outbox rows, stored events, answers in flight | what the FFI object lets the native shell do | lost requests and replies, duplicates, cancellation while an upload is in flight |
| `core-api`, Delivery Service | groups, group_members, membership_operations, group_events, device_group_cursors | create_group, apply_membership_operation, upload_event, sync_group, sync_global, record_receipts, advance_group_cursor, cleanup | concurrent handlers at READ COMMITTED; an identity column drawn before commit; retention |
| `core-api`, accounts | challenges, access and refresh sessions, usernames, recovery blobs | register, challenge, rotate_refresh, claim/change/release | reuse detection under concurrent rotation; cooldown check and claim are two statements |
| `core-api`, mailboxes | key_packages, welcome_mailbox | publish/fetch, upload/fetch | consumed on fetch, reply may be lost |
| `core-api`, front end | rate counters, NOTIFY listener | handle_binary, dispatch, long-poll | wake-up between subscription and wait |
| `messenger-transport` | endpoint health, backoff, directory, frame queue | verify, choose, flush | failover while frames are in flight, directory rollback |
| `messenger-crypto` | OpenMLS groups, key packages and their private keys, exported snapshots | add, remove, propose, self_update, join, encrypt, process, export/import, destroy | own commit merged before the service accepted it; restarts from old snapshots |
| `relay` | none | forward over WebSocket (long-poll) or HTTPS | its timeout equals the long-poll's; every error looks alike |
| `messenger-protocol` | none | encode, decode | one byte string per value, at every width and limit |
| `messenger-identity`, `messenger-uniffi` | none | signatures, bindings | - |

How they interact: the native shell calls `messenger-core` through
`messenger-uniffi`; it uploads what `get_pending_uploads` offers over
`messenger-transport`, through a relay or directly, to `core-api`, which stores
an event once and answers with its cursor; the shell then calls
`mark_upload_accepted`, or `retry_message`. Readers page through `sync_group` by
cursor and hand the pages to `ingest_server_batch`. Receipts come back on their
own path, `apply_delivery_receipt` and `apply_read_receipt`. What the shell uploads
are ciphertexts and handshake messages of `messenger-crypto`; key packages and
welcomes go through the mailboxes. Every request and answer is a `TransportFrame` of
`messenger-protocol`.

## 2. Modules

| Module | Models | Style |
|---|---|---|
| `LocalStore` | the store's tables and the methods that write them | one action per method; `retry_message` is two |
| `UploadPipeline` | `LocalStore` composed with network and service | extends `LocalStore`; every change of the store is one of its actions |
| `OfflineSend` | what the pipeline promises of a message | abstract specification, refined by `UploadPipeline` |
| `KeyRotation` | the two locks and the methods that take both | one action between two lock operations, `pc` per thread |
| `DeliveryService` | group events on the server | one action per statement another handler can get in front of, `pc` per handler |
| `Sessions` | challenges and refresh token families | one action between two lock operations, `pc` per handler |
| `Usernames` | claim, change and release of usernames | one action per statement another handler can get in front of |
| `Transport` | the client's frame queue, relay directory and flush | one action per method; flush is split at its sends |
| `Mailboxes` | key packages and welcomes | the two tables and the statements on them |
| `FrontEnd` | `Mailboxes` composed with event log, request handler, connection pool, relay and client | extends `Mailboxes`; one action per await of `handle_binary`, `phase` per handler |
| `MlsEpochs` | the MLS engines of one conversation's devices and the log between them | one action per engine method |
| `FrameCodec` | the wire format | encoder as operators, decoder as a machine, one item per step |
| `MC...` | instances for TLC | definitions for constants only |
| `...Proofs` | theorems about the module of that name | extends it and `TLAPS`; `LocalStoreProofs` also holds those about `UploadPipeline` and its refinement, `TransportProofs` those about `FrameCodec` |

Operators placed right before a definition under a contrasting name
(`DropNothing` before `DropFromOutbox`) are mutants: forms a plausible bug would
give the definition. Each property is shown to fail under one (PROJECT.json,
`mutants`), so none of them holds by the shape of the model.

### LocalStore

Tables are functions from identifiers to rows, `NoRow` for none. Every method
takes the connection mutex, so methods do not interleave: `Idle` guards each
action. All methods but one write in one transaction or one statement; an error
return has written nothing and is a stuttering step. `retry_message` issues two
autocommitted updates (core:352, core:353): `RetryMessage` and
`RetryMessageStatus`, between which only the clock (`BackoffElapses`) or a crash
(`CrashAndReopen`) can act. Time is reduced to whether an outbox row's
`next_attempt_at_ms` lies in the future (`backoff`); the length of the delay is
not modelled. `Bump` counts the trigger firings of core:659-664, one per row
touched. `SetSyncCursor` keeps the widths: the argument ranges over `U64`, the
column holds `AsI64` of it, and the `CHECK` of core:643 refuses the negative half.
`issued` is a history of identifiers, so that `random_id` is fresh. Listing
methods change nothing and appear as `View`. A rotation changes no table of this
module except the ciphertext, which it leaves out (see `KeyRotation`), and the
revision, which it raises.

### UploadPipeline

`stored` is what the service has committed and `acks` the answers on their way.
`Upload` succeeds; `UploadFails` loses the request or the reply, so the service
may or may not have the message; two uploads of one message yield two answers;
`Crash` kills the process and its answers in flight. The shell, the network and
the service are external: the shell's code in `apps/` only loads the bindings,
and what it may do is what the FFI object offers. A receipt may
overtake the acknowledgement of the same message, since receipts travel from the
recipient on a path of their own; that is why
`DrainsUnlessOvertaken` has an exception and `SettledDeliveryIsFinal` speaks only of
messages that have left the outbox.

`OfflineSend` says the same without tables, network or retries: a message is queued,
committed at the service, settled at the client, or withdrawn. `PhaseOf` is the
refinement mapping: in the outbox a message is queued or committed, depending on the
service; outside it is settled or, if cancelled, withdrawn. Retries, crashes, lost
replies, receipts and the clock are stuttering steps. `ImplementsOfflineSend` is
the whole abstract specification, its progress clause included; `OfflineSend!Safety` is
the part without it.

### KeyRotation

`create_message` reads the key under a guard that lives for one expression
(core:159-162) and then locks the connection; `list_messages` and `local_search`
lock the connection and then the key once per row; `rotate_master_key` locks the
key for writing and then the connection. The statements between two lock
operations are one step. A body is the version of the key it was sealed under.
The commit (core:613) and the swap of the key in memory (core:614) are two steps.

### DeliveryService

`upload_event` is the membership and correlation checks (`UploadBegin`; no lock is
taken and `applied` only grows, so one step loses nothing), the duplicate lookup, the
INSERT, split into drawing the identity value and passing the unique indexes,
where it waits for an open transaction with the same key, and the commit, after
which the handler may still die before it answers. `advance_group_cursor` is the
locking read and the rest. `apply_membership_operation` holds the author's row
lock over all of its statements and is one step. `HandlerDies` rolls a
transaction back at any point. `sync_group` pages through one group, `sync_global`
through all groups of the device under one cursor (`Global`); the reader
(`after`, `got`) keeps the last cursor of each page. `expired` marks events whose
TTL has passed; it is counted from the start of the transaction, so any event may be
next. `overtaken` and `earlier` are histories: cursors in flight below a served page,
and cursors in the log when a device was admitted. The membership check (api:761) and
the page query (api:762-764) of `sync_group` are two statements and one step here: a
removal between them only serves a page to a device that was a member when it asked,
as if it had been read before the removal. What clients ask for in a
behaviour is a `scenario`, chosen initially. Error answers write nothing. Signatures
are assumed to verify; no code revokes a device. `advance_group_cursor` is a public
method that the tests use; no route of `main.rs` calls it.

### Sessions

`register_account_device` is one step: the primary key of `devices` lets one of two
concurrent registrations through. `FOR UPDATE` on a join locks the row of the challenge or token and then the row of
its device; who holds which lock is read off `pc` and `req`. `complete_challenge`
is the locking read of the challenge with its checks (`CompleteLock`) and, with the
device locked too, everything up to the commit. `rotate_refresh` locks the token,
locks the device and decides, and then either issues the successor and commits or
runs the UPDATE of the family: `RotateMatch` takes the statement's snapshot,
`RotateRevoke` waits for locked rows, revokes what was matched and commits. The
device lock is what keeps a successor from appearing between these two; the
mutant without it shows that the token's lock alone would not do. `used`,
`revoked` and the expired ones are sets of tokens. `openedBy` and `reused` are
histories. Two handlers that wait for each other (one holds a token and waits for
the device, the other holds the device and revokes that token) are a deadlock
PostgreSQL breaks by failing one: `HandlerDies`.

### Usernames

A row is `owner` and membership in `released`; `cooling` holds the names whose
`release_after` lies in the future. `claim_username` is its DELETE and its INSERT
with the commit; `change_username` is the snapshot and the lock of its first read,
the availability check, the DELETE, and the rest with the commit. A row deleted by
an open transaction is locked until it ends (`Locked`); an INSERT that meets a unique
index fails (`NameFree`, `AccountFree`), which is `HandlerDies`, as is every error
answer. `overtaken` is a history: the name was released after the handler had found
it free.

### Transport

`flush` has the manager to itself but can be suspended, and dropped, at every send.
`Current(e)` says which relay the loop over the sorted endpoints has reached,
`tried` which ones it has passed for the frame at the head. A send is WebSocket,
then HTTPS; it succeeds only at a relay that is up and may fail at any. `now` is an
argument of `flush`, so cooldowns end only between flushes. A directory is accepted if
its version is not lower and `verify` finds it valid. A frame in `Refused` is one the
core answers with an error whenever it is sent; the relay makes a 502 of it, so the
sender takes the relay for dead. `log`, `answered` and `failedNow` are histories.

### FrontEnd and Mailboxes

A request goes through the phases of `handle_binary`: rate limit, subscription if it
is a long-poll, dispatch (query and commit), an idle wait after an empty first page,
a second dispatch, the answer. State is kept by handler, `Sender` giving the device it
serves. A client sends a frame over the relay's WebSocket and, whatever went wrong, once
more over HTTPS (transport:337-345). Its own timer (transport:200) is one of the things
that go wrong (`ClientTimesOut`), and it does not end the handler: `websocket_loop`
awaits the core's answer without watching the socket (relay main.rs:105). The handler is
then `abandoned`: it goes on, with its listener and its locks, beside the HTTPS
repetition of the same frame, and may still commit or consume, until it has answered to
nobody or the relay's timer drops it (`Dropped`). So two fetches of one mailbox overlap
for one device, too, and listeners of abandoned handlers weigh on the pool. The relay maps
WebSocket to the core's long-poll route and HTTPS to its sync route, so the fallback
never waits. `RequestFails` may strike at any await and ends the handler too (a refusal,
a lost connection between relay and core, the relay's timer); a dying handler gives locks
and listener back and loses its page. Consumed rows in such a page are `lost`.
`listening` holds a connection of the pool (`InUse`); an acquire can time out only
when listeners hold all of them (`Jammed`). The relay's timer starts before the
core's, so it ends an idle wait (`RelayGivesUp`), and the core's own timer never
does. A page that does not fit a frame becomes an empty body (`Garbled`), which the
relay cannot decode. `fetch_key_package` and `fetch_welcomes` lock rows with SKIP
LOCKED, mark them consumed and commit before the answer is encoded.
`publish_key_package` refuses an id that is taken, also when the same request is
repeated; `upload_welcome` accepts it and changes nothing.

### MlsEpochs

`epochs` is every epoch any device has made, a tree of commits. A device's `group`
is its epoch, its pending proposals, the ratchet generations it has sent and seen,
and whether it is still a member. `Commit` is shared by add, remove and
self_update: it covers the pending proposals and merges at once
(crypto:211-213, 269-271, 376-378). What the engine returns waits in `outgoing` for
the shell. A device exports snapshots at any time and restarts from its last one, or
from nothing if it has none: before it holds a conversation there is nothing
`export_conversation_state` accepts, so published key packages do not survive.
A shell processes the log in order. After a restart, or when it has destroyed its state,
it reads the log from the beginning or goes on where it was (`ReadsOn`): the cursor in
`messenger-core` survives, and no code ties it to the snapshot. `entered` and `restored`
are histories: who made, merged or joined which epoch, and who was ever restored from a
snapshot. The calls of each shell, and the number of refused uploads and restarts, are a plan, chosen
initially.

OpenMLS is external. Assumed of it: a message opens only in the epoch it was made
in, since the engine configures no past epochs; not at its author; once per
generation of its ratchet, which is used up even if the content is refused; a commit
is refused by a device that lacks a proposal it covers; a welcome opens with the
private key of its package. Fewer than 100 messages are sent per epoch, the ratchets'
tolerance (crypto:151). A device is in a roster once. OpenMLS refuses a second leaf with
the same signature key; a device that restarts from nothing has a new key (crypto:103),
and that nobody adds it again before its old leaf is removed is an assumption on the
shells (see section 6). Whether a snapshot has the generations used for reading is left
open (`Restart` allows both).

### FrameCodec

A value is the sequence of its items' values, in the order of the array. `Encode`
translates the encoder and gives no bytes where it answers with an error (`OutOfRange`,
or a frame that is too long); the decoder reads a head (`HeadAt`), then an item
per step, and stops at the first error. Arithmetic on heads and the byte widths are
the code's; the limits are constants, scaled down in the run but for the TTL's. An
argument from 2^30 on, past every limit, is `Huge`: as a number or a length it is
refused, whatever it is. `Admitted` is what the types of the two structs let the encoder
meet; inputs to the decoder are byte strings of any kind.

## 3. Runs

Passing runs, with what they show:

| Run | States | Shows |
|---|---|---|
| `LocalStore` | 560 k | status and outbox agree after any order of calls and a crash inside `retry_message`; settled messages stay settled; no dangling row, no unobserved change, no event overwritten, no cursor going back or negative |
| `UploadPipeline` | 6 k | the pipeline implements `OfflineSend`: no message leaves the outbox before the service has it, unless withdrawn, and none waits for ever; each leaves the outbox unless a receipt overtook its acknowledgement; a delivery reported after that is never taken back |
| `KeyRotation` | 18 k | commit and swap look atomic; a failed read points at a stale row; no rotation passes over such a row; calls return unless a reader and a rotator embrace |
| `DeliveryService` | 1.7 M | answers are durable and name one cursor per client message while it is kept; a reader can only miss live events that were in flight below a page it got or, with `sync_global`, older than its admission; positions stay within what the log has reached and go back only in a race to create their row |
| `Sessions` | 80 k | a reuse answer has revoked everything rotated out of the token; a family is revoked as a whole or has exactly one token left; a challenge opens one family |
| `Usernames` | 1.3 M | an account has one name; a name passes on only through a release; a cooldown is broken only by a change that found the name free before its release |
| `Transport` | 12 k | frames are answered in order and none is lost, whatever fails or is cancelled; each is answered at last unless a refused frame is ahead of it; a failed relay is asked once per flush; a working relay is not left |
| `FrontEnd` | 108 k | a waiting long-poll has nothing to read or a notification; no key package or welcome is handed out twice, also to a fetch its client gave up and its repetition; what is consumed was put into an answer; events arrive unless their page is too large for a frame; welcomes arrive unless they expire or their one answer is lost |
| `MlsEpochs` | 690 k | a device follows one commit out of each epoch, unless it was restored from a snapshot, so only two devices that commit can part; an added device has a welcome it can open, unless it or the package was lost, the package served to join by a competing commit of the same proposal, or `self_update` dropped the welcome; devices end in one epoch unless commits compete, a handshake message is lost, or a restart forgets or skips one |
| `FrameCodec` | 9 k | an accepted input is the one encoding of what it decodes to; what is encoded decodes to what it was |

Runs that find a disagreement between the code and what the repository says of it:

| Run | Property | Trace in a sentence |
|---|---|---|
| `KeyRotationDeadlock` | `CallsReturn` | list holds the connection, rotate holds the key, each waits for the other |
| `DeliverySkip` | `NoEventSkipped` | cursors 1 and 2 drawn, 2 committed and paged, then 1 committed |

Each has a counterpart among the passing properties, which says how far the trouble
reaches: `OnlyTheEmbraceBlocks` and `SkippedWasInFlight`. `PROJECT.json` quotes the
sentence each violation contradicts. Further divergences between code and documents
are written into the exceptions of passing properties or into the models:

- An acknowledgement that a receipt has overtaken is refused, and the outbox row stays
  (core:326); `docs/OFFLINE_FIRST.md` says that acknowledgements "move state forward
  idempotently". The exception of `DrainsUnlessOvertaken`.
- A message whose receipt overtook a lost acknowledgement goes from Delivered back to
  RetryScheduled (core:353); `docs/LOCAL_STORAGE.md` says "State transitions are
  transactional and monotonic". `SettledDeliveryIsFinal` holds outside the outbox only.
- `create_message` encrypts before it locks the connection; a rotation in between
  leaves a row that opens under no later key (core:160). `ListFailsOnlyOnStaleRow` and
  `NoRotationPastStaleRow` say what follows.
- A membership operation and its MLS commit are two transactions (api:583, api:715) and
  no job reconciles them; `docs/DELIVERY_SERVICE.md` says they "commit in one
  transaction".
- The page queries filter expired events and their answer cannot say so; the same
  document promises "an explicit gap/expired result". `SkippedWasInFlight` excepts them.
- `WithinLog` measures a position against the rows that retention has left, so a device
  may be refused its own position; `PositionsStayReachable` says only then.
- Two first calls of `advance_group_cursor` find no row to lock and may leave the
  smaller cursor; the document says "monotonically". `RegressionOnlyOnCreation`.
- `sync_global` does not return what its cursor passed before the device was admitted.
- A lost answer to `fetch_welcomes` loses the welcomes; so does a page of them that is
  too large for a frame (`WelcomesArrive`).
- `flush` never checks again that its directory is unexpired, and `Verified` accepts a
  second directory of the same version, while `docs/TRANSPORTS.md` speaks of an
  "unexpired" directory and `docs/RELAY_DIRECTORY.md` of a "newer version".
- The frames queued in the transport are a `VecDeque` in memory (transport:249), and
  responses already collected are dropped when a later frame makes `flush` fail
  (transport:375); `docs/TRANSPORTS.md` says that the manager "persists its outbox
  before sending" and `docs/PROGRESS.md` speaks of a "persistent deduplicated outbox".
  What persists is the outbox of `messenger-core`. `AnsweredThenQueued` speaks of one
  process, and of the relay's answer, not of what the caller is handed.
- HTTPS fallback does not long-poll, since only the relay's WebSocket route leads to
  the core's long-poll route.

**Bounds.** Two messages suffice for the store: its methods act on one message at
a time and share only the mutex and the counter. `MaxAttempts` 2 lets a retry
follow a retry (1 in the pipeline). `MaxRevision` 7 caps the counter of the store high enough for two
messages to be created, retried and settled; in the pipeline (30) it is never
reached. `I64Max` 1 gives four u64 values, two of which wrap. `BatchLimit` 2
admits a page that repeats an event with another ciphertext and refuses one that
is longer. Two writers, two rotators and three key versions let one rotation
overtake another and a stale row meet a second rotation. Two handlers are enough
for every race between two requests. `DeliveryService` has three scenarios: competing
uploads, where three cursors leave room for one burnt by a dying handler and for a
message uploaded again after retention; a reader that pages, one event a page, while
its position is moved and events expire; and a reader that follows two groups under
one cursor and is admitted, removed and admitted again. Handlers are symmetric there. In `Sessions`
two challenges open two families, three handlers let a reuse meet a rotation that
meets another, and three tokens make a chain with a middle; tokens and handlers are
symmetric, which is sound since only invariants are checked and neither is compared
but for equality. In `Transport` three message ids, one of them refused, and
`MaxEnqueues` 3 let an id be
queued again after its answer; of three relays one is down and has the best
priority; `MaxCancels` 1 drops one flush. In `Usernames` two handlers, two accounts
and three names let both accounts change to the same third name. In `FrontEnd` two
connections are what one long-poll needs and two listeners exhaust; a frame holds one
event or welcome, and clients ask for one or two. The device that polls and fetches has
two handlers, one it gave up and one it awaits; the other device has one. A client gives
a WebSocket frame up only when a handler is free for the repetition, so a third attempt
beside two abandoned ones does not occur. `MaxFaults` bounds refusals, failures and timeouts outside an
idle wait, by workload: 2 where a single welcome is fetched, which loses both attempts of a
request, 1 or 0 elsewhere; idle waits are cut off and given up without limit. The plans of `MlsEpochs` are the shortest that make two commits compete, a
removal meet texts, a device come back, a proposal be committed by another call, and two
commits cover one proposal to add; a plan has one refused upload or restart, the first
two, the last none. `FrameCodec` has every number at
which a head changes its width and the limits plus one; the frame limit is 271 bytes so
that bodies of 255, 256 and 257 lie around it. No other run uses symmetry.

**Deadlock** is checked except where the system may stop: in the pipeline, when
all messages are settled; in `KeyRotation` with readers, which really deadlocks
(`KeyRotationDeadlock` shows it); in `Sessions`, where all challenges may expire;
in the `DeliveryService` runs, where a scenario ends when its uploads are stored;
in `FrontEnd`, `MlsEpochs` and `FrameCodec`, where clients, plans and inputs come to
an end.

**Fairness.** `UploadPipeline`: the clock advances (weak fairness of `Elapse`); a
method that holds the mutex goes on unless the process dies (weak fairness of
`RetryRecorded`); a shell that keeps offering pending uploads succeeds at last,
and an answer that keeps arriving is handled at last (strong fairness of `Upload`
and `Acknowledged`), since losses and crashes disable them again and again
without stopping the shell from trying. Nothing is assumed of users, recipients
or crashes. `KeyRotation`: a call that can take its next step again and again
takes it (strong fairness), which is what the scheduler and locks that do not starve a
waiter give; starting a call is never assumed. `Transport`:
the caller flushes while frames are queued and a flush goes on by itself (weak
fairness); time passes between flushes and a relay that is up and is asked again and
again answers at last (strong fairness); cancellation is bounded, since a caller that
always drops its flush before the second relay is tried makes no progress. `FrontEnd`:
a handler goes on by itself, abandoned or not (weak fairness); the pool serves its waiters in turn
(strong fairness of the steps that acquire a connection); devices go on polling and
asking for welcomes (strong fairness); nothing is assumed of uploads, and faults are
bounded. `MlsEpochs`: shells upload what the engine returns and process what they
receive (weak fairness); calls, exports and restarts are free.

## 4. Proofs

Eight modules hold proofs, each about the module of its name, two also about another.
All of them hold for every set of identifiers, threads, handlers, clients, devices and
messages, and for every scenario, plan, workload, value and input the assumptions admit. Each proves that `IInv` is inductive
(`InitIInv`, `NextIInv`, then `Invariance`), that it implies the invariants, and that a
step from it satisfies the action properties. TLC has checked each `IInv` as an invariant
of the instance the module's run uses. The invariant of the pipeline is `PipeInv`, that of
the decoder `CodecInv`.

| Theorem | States | Needs |
|---|---|---|
| **LocalStoreProofs** | | |
| `TypeCorrect`, `PendingStaysQueued`, `SettledStaysOut`, `RetryIsCounted`, `NoDanglingRows` | `TypeOK`, `PendingInOutbox`, `SettledNotQueued`, `RetryScheduledWasAttempted`, `ReferentialIntegrity` | one another and the two facts below |
| `SettledForever`, `Observability`, `FirstWriteWins`, `CursorsMonotonic` | `SettledIsFinal`, `ChangesAreObservable`, `InboxFirstWriteWins`, `CursorsNeverRegress` | one step, method by method |
| `DeliveryIsFinal` | `SettledDeliveryIsFinal` | `PipeInv` |
| `ImplementsOfflineSafety` | `PipeSpec => Abstract!Safety` | `PipeInv` |
| **KeyRotationProofs** | | |
| `ListingFailures` | `ListFailsOnlyOnStaleRow` | `LocksHeld`, `VersionsAgree` |
| `RotationStopsAtStaleRow` | `NoRotationPastStaleRow` | `NoFutureBodies` |
| `OnlyCircle` | `[](WaitsForRunning \/ Embraced)`: no deadlock but the embrace | `LocksHeld`, `HoldersInside` |
| `EmbraceIsForever` | `[][Embraced => Embraced']_vars` | the same |
| **DeliveryServiceProofs** | | |
| `IdempotentWhileKept`, `AnsweredIsDurable` | `UploadIdempotent`, `AckedIsStored` | `KeysAreUnique`, `AckedRowExists` |
| `OnlyInFlightSkipped` | `SkippedWasInFlight` | `PassedWasOvertaken`, `PassedInGroup`, `PassedGlobally`; for the latter `EventsHaveMembers` |
| `PositionsReachable` | `PositionsStayReachable` | `CursorsWereDrawn`, `CursorsAreUnique` |
| `LockedUpdatesMoveOn` | `RegressionOnlyOnCreation` | `LockedPosition` |
| `MembersOnlyService` | `[]MembersOnly`: events, positions and pages belong to devices that were admitted, commits to applied operations | `RequestsOfMembers` |
| **SessionsProofs** | | |
| `ReuseRevokes` | `ReuseRevokesDescendants` | `SnapshotIsCurrent`, `RevokedTogether` |
| `OneTokenOrNone` | `WholeFamilyOrOneToken` | `OneUnrotated`, `IssuingIsGood` |
| `OneSessionPerChallenge` | `ChallengeOpensOneFamily` | `OpenersAreConsumed`, `LocksExclude` |
| **UsernamesProofs** | | |
| `OneActiveName` | `OneNamePerAccount` | `OneLiveRow`, `LockedIsLive` |
| `NoNameIsTaken` | `NoNameTaken` | `PurgedIsReleased` |
| `CooldownHoldsButForTheRace` | `CooldownBrokenOnlyInRace` | `CoolingWasOvertaken` |
| **TransportProofs** | | |
| `NoFrameLost` | `AnsweredThenQueued` | `FlushHasFrame`, sequence lemmas |
| `OneFailurePerFlush` | `FailsOncePerFlush` | `FailedAreCooling` |
| `StickyRelay` | `LeavesOnlyFailedRelay` | `TriedAreCooling` |
| `OneEncoding` | `AcceptsOnlyItsEncoding` | `Consumed`, `Passed`, `Accepted` |
| `DecodesWhatWasEncoded` | `RoundTrip` | `GenuineInput`, `Following` |
| **FrontEndProofs** | | |
| `WakeupsArrive` | `NoLostWakeup` | `NotifiedSinceQuery` |
| `ConsumeOnce` | `HandedOutOnce` | `HeldOnce`, `HandedAreConsumed` |
| `NothingConsumedUnsent` | `ConsumedWasSent` | `NothingSelectedYet` |
| **MlsEpochsProofs** | | |
| `NoDeviceForks` | `OneBranch` | `DevicesFollowOneBranch`, `WelcomesAreSingle`, `MessagesLeadToEpochs` |
| `AddedDevicesCanJoin` | `AddedCanJoin` | `AddedAreInvited`, `PackagesAreKept`, `PackagesHaveOneOrigin` |

The arguments:

- **LocalStore.** Two facts join the invariants. `RetryInProgressIsQueued`: while
  `retry_message` is between its statements the message is in the outbox with its attempt
  counted; without it, the blind second update could queue a settled message or show a
  retry nobody counted. `RowsWereIssued`: a stored message has an identifier drawn before;
  without it `create_message` could reset a settled message. `IngestedPayload` finds the
  first occurrence of an event in a batch by the well-ordering of its indices.
- **UploadPipeline.** `PipeInv` adds to `IInv` that the service acknowledges only what it
  has (`AcksAreOfStored`) and that what left the outbox is stored or cancelled
  (`OnlyStoredLeaves`). With it every action maps, under `PhaseOf`, to one step of
  `OfflineSend` or none. `StatusesInUse` excludes the statuses no method sets, from which
  the step would not map.
- **KeyRotation.** The recorded version differs from the key in memory only while a
  rotator holds both locks between commit and swap, and no body is sealed under a version
  yet to come. So a row that does not open was sealed under an older key, and a rotation
  that reaches it does not commit. Of the liveness property `OnlyTheEmbraceBlocks` the part
  without fairness is proved: locks are held only inside the methods that take both, so a
  call that waits has, at the end of its chain of waits, a call that can go on, or it is in
  or behind an embrace; and an embrace never ends.
- **DeliveryService.** Cursors are drawn in one order and committed in another, so the
  invariants speak of drawn cursors too: none is in the table or expired, no two handlers
  have the same, and one that a reader has moved past was recorded as overtaken. The
  unique index covers rows of open transactions; without that `KeysAreUnique` is not
  inductive. A removal may overtake a request that has passed its membership check, so
  `MembersOnly` speaks of devices that are or were members; rows of `group_members` and
  `membership_operations` are never deleted (`AdmissionsLast`).
- **Sessions.** All tokens of a family belong to one device, so whoever holds the device's
  row is alone with the family: between the snapshot of its UPDATE and its commit nobody
  adds a token, and the rows found are the whole family.
- **Usernames.** A name that `change_username` has locked stays its account's until the
  transaction ends, and a row deleted by an open transaction stays released.
- **Transport.** A relay that failed in the running flush is cooling down and stays so
  until the flush ends, also when later frames get through.
- **FrameCodec.** `Consumed` is the heart: what the decoder has consumed is what the
  encoder writes for the array's head and the items decoded so far, and the position is
  its length. It is proved from the inside out. A head that `HeadAt` accepts is the one
  `Major` writes for its argument, and the one `Major` writes is accepted with that
  argument: arithmetic on each of the four widths (`HeadCanonical`, `HeadReads`). The same
  follows for an item and its content (`ItemCanonical`, `ItemReads`). An array has five or
  six items, so its encoding is a concatenation of a fixed number of parts and needs no
  induction. `Passed` keeps what `Judged` let through, so that at the end the encoder
  does not refuse the value. For `RoundTrip`, `Following` says that a decoder
  on an encoded value has found that value's items so far and has not failed, since the
  next item is written at its position and read back as it was (`GenuineItem`).
- **FrontEnd.** A request with a listener that has seen an empty page has been notified of
  everything committed since its query, already before it waits. Rows held by one fetch are
  neither consumed nor held by another, whether they serve two devices or one that has
given the first up; only a handler that answers, or ends, lets go of its rows. That a poll with something to read gets a page
  that is not empty (`PageOfUnread`) rests on the well-ordering of positions.
- **MlsEpochs.** A device may be restored from any snapshot and receive any message ever
  made, so the invariants speak of snapshots as of groups and of every message ever
  produced (`Produced`), uploaded or not. A key package is fetched once and so used out of
  one epoch (`PackagesHaveOneOrigin`); its private key is kept until it serves to join.
  For `OneBranch` the invariant follows each device that was never restored on its way
  (`BranchOf`): where it is a member it enters an epoch from the one before, it has gone no
  further than where it is, and the welcomes to where it has been are used up. So when it
  merges a commit, its own or another's, it has left the epoch by no other; a device that
  destroyed its state can come back only by a welcome, which is made for those who are not
  members of the epoch before. A restored device is back where it has been further, which
  is why it is excepted.

The proof of `AddedDevicesCanJoin` found an earlier form of `AddedCanJoin` too strong. Two
commits that compete out of one epoch may cover the same proposal to add a device. Both
welcomes are made for its one key package, so the device that joins by one of them can
never open the other. The property now has that exception, and one of the run's plans
makes the case happen.

**Assumptions**, all in the modules that declare the constants, so that TLC evaluates them
on every run: bounds are natural numbers; `None` is no identifier; event identifiers are
finite and batches are sequences of rows; kinds of threads are disjoint; a page has room
for one event, a scenario's requests name groups, devices and roles that exist, and no
group is called `Global`; directories, priorities, senders of handlers, addressees, audiences,
faults of a workload and sizes have their types, and a single item fits a frame; a poll asks for at least one event; the
creator is a device, and a plan is a sequence of calls per device with a number of losses;
the limits of the wire format lie below 2^30 (they are 65536, 4096, 2592000 and 16), values
to encode are of the structs' types, and inputs to decode are byte strings. A TTL is any
natural number there, which includes every `u32`.

**Only model-checked.** Liveness: `DrainsUnlessOvertaken`, the progress clause of
`ImplementsOfflineSend`, `CallsReturn`, `OnlyTheEmbraceBlocks`, `QueueDrains`,
`EventsArrive`, `WelcomesArrive`, `Converges`; fairness and ENABLED are out of the prover's
reach. The numbers of states, the mutants and the two violations are
statements about instances.

## 5. Plan

Done: the modules above, and a theorem for every invariant and every action property of
the passing runs; of `ImplementsOfflineSend` the safety part, of `OnlyTheEmbraceBlocks` what
needs no fairness. Left for later, should the code change that way: a job that reconciles
membership operations with their commits, and groups of conversations in one MLS store.

## 6. Not modelled

Cryptography (AEAD, signatures, the MLS key schedule) beyond the rules that a body
opens under its own key and a message in its own epoch; key derivation and
certificates (`messenger-identity`), which are functions of primitives; the
bindings' conversions; native shells, tools and deployment; metrics and logging;
jitter and the exact length of backoffs. Of `core-api`: `authenticate_access` and the lookups (reads), recovery packages
(an upsert and a read of an opaque blob), `record_receipts` (a table nobody reads),
`add_group_member` (no route reaches it), and the rate limiter's counter, which is a
refusal at any time. Of `messenger-core`: blocks, network mode and the relay cache,
written by one statement each and read by no method that writes, and statements that
fail on I/O errors, so also a wipe that fails halfway (core:620) and leaves its
transaction open; a crash between a rotation and the shell's record of the new key, which is in no code here. Of `messenger-crypto`: several
conversations in one store; `import_conversation_state` replaces all of them
(crypto:465); and a device with two leaves, which a restart from nothing, with its new
signer (crypto:103), and another addition might make, and of which
`commit_remove_members` would remove the first (crypto:261-265). In `DeliveryService` an author who is removed between the check and the
INSERT is stored, as in the code, and no property forbids it. SQLite and PostgreSQL
themselves, of which the models take atomic transactions, foreign keys, unique
indexes, row locks and READ COMMITTED visibility.
