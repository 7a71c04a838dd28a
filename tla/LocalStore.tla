----------------------------- MODULE LocalStore -----------------------------
(***************************************************************************)
(* The device's SQLite store: crates/messenger-core/src/lib.rs.            *)
(*                                                                         *)
(* Every public method of MessengerCore takes the mutex around the one     *)
(* connection, so methods never interleave; what interleaves is a crash.   *)
(* A method whose statements run in one transaction is one action.  The    *)
(* exception is retry_message, which issues two autocommitted UPDATEs: it  *)
(* is two actions, and between them the mutex is held (retrying # None)    *)
(* and the process may die.  A method that returns an error rolls back or  *)
(* has written nothing: error returns are stuttering steps.                *)
(*                                                                         *)
(* Tables are functions over the identifiers; an identifier without a row  *)
(* maps to NoRow (or None).  Times are reduced to what the code compares:  *)
(* an outbox row is in `backoff' while next_attempt_at_ms > now.           *)
(***************************************************************************)
EXTENDS Integers, FiniteSets, Sequences

CONSTANTS
    MessageIds,     \* values random_id() may return
    Conversations,  \* conversation (group) identifiers
    Devices,        \* devices that may be members of a conversation
    Events,         \* server event identifiers
    Payloads,       \* opaque event ciphertexts
    Batches,        \* pages of events a sync may return
    Scopes,         \* scopes of sync cursors
    None,           \* the absent value
    I64Max,         \* largest value of the i64 the cursor column stores
    BatchLimit,     \* largest batch ingest_server_batch accepts (50)
    MaxAttempts,    \* bound: retries of one message
    MaxRevision     \* bound: value of the change counter

EventRows == [event : Events, payload : Payloads]

ASSUME NoneAssumption == None \notin MessageIds \cup Payloads
ASSUME EventsAssumption == IsFiniteSet(Events) /\ Batches \subseteq Seq(EventRows)
ASSUME BoundsAssumption ==
    /\ I64Max \in Nat
    /\ BatchLimit \in Nat
    /\ MaxAttempts \in Nat
    /\ MaxRevision \in Nat

VARIABLES
    status,         \* messages.status, NoRow when the message has no row
    conv,           \* messages.conversation_id
    outbox,         \* messages that have an outbox row
    attempts,       \* outbox.attempts, 0 without a row
    backoff,        \* outbox rows whose next attempt lies in the future
    conversations,  \* rows of conversations
    members,        \* conversation_members: NoRow, Active or Removed
    inbox,          \* inbox.event_ciphertext, None without a row
    cursors,        \* sync_cursors.cursor, NoRow without a row
    revision,       \* change_counter.revision
    issued,         \* identifiers random_id() has returned (history)
    retrying        \* the message between retry_message's two statements

vars == <<status, conv, outbox, attempts, backoff, conversations, members,
          inbox, cursors, revision, issued, retrying>>

messageVars == <<status, conv, outbox, attempts, backoff, issued>>
groupVars == <<conversations, members>>
syncVars == <<inbox, cursors>>
-----------------------------------------------------------------------------
NoRow == -1

Draft == 0
Queued == 1
Encrypting == 2
ReadyToUpload == 3
Uploading == 4
ServerAccepted == 5
Delivered == 6
Read == 7
RetryScheduled == 8
FailedPermanent == 9
Cancelled == 10

MessageStatus ==
    {Draft, Queued, Encrypting, ReadyToUpload, Uploading, ServerAccepted,
     Delivered, Read, RetryScheduled, FailedPermanent, Cancelled}

Active == 1
Removed == 2

U64 == 0 .. (2 * I64Max + 1)

\* The `as i64' cast: the upper half of u64 wraps to the negatives.
AsI64(n) == IF n > I64Max THEN n - (2 * I64Max + 2) ELSE n

Init ==
    /\ status = [m \in MessageIds |-> NoRow]
    /\ conv = [m \in MessageIds |-> None]
    /\ outbox = {}
    /\ attempts = [m \in MessageIds |-> 0]
    /\ backoff = {}
    /\ conversations = {}
    /\ members = [p \in Conversations \X Devices |-> NoRow]
    /\ inbox = [e \in Events |-> None]
    /\ cursors = [s \in Scopes |-> NoRow]
    /\ revision = 0
    /\ issued = {}
    /\ retrying = None
-----------------------------------------------------------------------------
(* Helpers: the mutex, the change triggers, the outbox.                    *)

\* The connection mutex is free.
Idle == retrying = None

\* Each row a statement touches fires its change trigger once.
Bump(n) ==
    /\ revision + n <= MaxRevision
    /\ revision' = revision + n

\* members_change_update: AFTER UPDATE ON conversation_members.
NoUpdateTrigger == UNCHANGED revision
MembersChangeUpdate == Bump(1)

\* DELETE FROM outbox WHERE client_message_id = m.
DropNothing(m) == UNCHANGED <<outbox, attempts, backoff>>
DropFromOutbox(m) ==
    /\ outbox' = outbox \ {m}
    /\ attempts' = [attempts EXCEPT ![m] = 0]
    /\ backoff' = backoff \ {m}

\* The outbox rows get_pending_uploads offers to the transport.
PendingUploads == outbox \ backoff
-----------------------------------------------------------------------------
(* Messages.                                                               *)

\* The statuses mark_upload_accepted advances to ServerAccepted.
UploadableOrCancelled == {ReadyToUpload, Uploading, RetryScheduled, Cancelled}
Uploadable == {ReadyToUpload, Uploading, RetryScheduled}

\* The statuses cancel_pending_message accepts.
CancellableAccepted == {Queued, ReadyToUpload, RetryScheduled, ServerAccepted}
Cancellable == {Queued, ReadyToUpload, RetryScheduled}

\* INSERT INTO outbox: due at once, no attempts.
EnqueueNothing(m) == UNCHANGED <<outbox, attempts, backoff>>
EnqueueUpload(m) ==
    /\ outbox' = outbox \cup {m}
    /\ attempts' = [attempts EXCEPT ![m] = 0]
    /\ backoff' = backoff \ {m}

CreateMessage(m, c) ==
    /\ Idle
    /\ m \notin issued
    /\ issued' = issued \cup {m}
    /\ conversations' = conversations \cup {c}
    /\ status' = [status EXCEPT ![m] = ReadyToUpload]
    /\ conv' = [conv EXCEPT ![m] = c]
    /\ EnqueueUpload(m)
    /\ Bump(IF c \in conversations THEN 1 ELSE 2)
    /\ UNCHANGED <<members, syncVars, retrying>>

MarkUploadAccepted(m) ==
    /\ Idle
    /\ \/ /\ status[m] \in Uploadable
          /\ status' = [status EXCEPT ![m] = ServerAccepted]
          /\ Bump(1)
       \/ /\ status[m] = ServerAccepted
          /\ UNCHANGED <<status, revision>>
    /\ DropFromOutbox(m)
    /\ UNCHANGED <<conv, issued, groupVars, syncVars, retrying>>

\* retry_message finds the outbox row it reads the attempts from.
HasMessageRow(m) == status[m] # NoRow
HasOutboxRow(m) == m \in outbox

\* retry_message up to and including its first statement: one more attempt,
\* and the next one 1000 << min(attempts, 10) ms from now.
RetryStatusFirst(m) ==
    /\ Idle
    /\ HasOutboxRow(m)
    /\ status' = [status EXCEPT ![m] = RetryScheduled]
    /\ Bump(1)
    /\ retrying' = m
    /\ UNCHANGED <<conv, outbox, attempts, backoff, issued, groupVars, syncVars>>
RetryMessage(m) ==
    /\ Idle
    /\ HasOutboxRow(m)
    /\ attempts[m] < MaxAttempts
    /\ attempts' = [attempts EXCEPT ![m] = @ + 1]
    /\ backoff' = backoff \cup {m}
    /\ retrying' = m
    /\ UNCHANGED <<status, conv, outbox, issued, groupVars, syncVars, revision>>

\* Its second statement, which does not look at the old status.
RetryMessageStatus ==
    /\ retrying # None
    /\ status' = [status EXCEPT ![retrying] = RetryScheduled]
    /\ Bump(1)
    /\ retrying' = None
    /\ UNCHANGED <<conv, outbox, attempts, backoff, issued, groupVars, syncVars>>

CancelPendingMessage(m) ==
    /\ Idle
    /\ status[m] \in Cancellable
    /\ status' = [status EXCEPT ![m] = Cancelled]
    /\ DropFromOutbox(m)
    /\ Bump(1)
    /\ UNCHANGED <<conv, issued, groupVars, syncVars, retrying>>

\* The new status a receipt carries.
ReceiptStatuses == {Delivered, Read}

\* UPDATE ... WHERE status < s: the numbers order the statuses, and NoRow, which
\* is no row to update, is excluded first.
OverwritesStatus(m, s) == status[m] # NoRow
AdvancesStatus(m, s) == status[m] # NoRow /\ status[m] < s

\* advance_message_status; a status at or past the new one is left alone.
ApplyReceipt(m, s) ==
    /\ Idle
    /\ AdvancesStatus(m, s)
    /\ status' = [status EXCEPT ![m] = s]
    /\ Bump(1)
    /\ UNCHANGED <<conv, outbox, attempts, backoff, issued, groupVars,
                   syncVars, retrying>>

\* The clock passes next_attempt_at_ms of an outbox row.
BackoffElapses(m) ==
    /\ m \in backoff
    /\ backoff' = backoff \ {m}
    /\ UNCHANGED <<status, conv, outbox, attempts, issued, groupVars,
                   syncVars, revision, retrying>>
-----------------------------------------------------------------------------
(* Conversations and members.                                              *)

CreateGroup(c) ==
    /\ Idle
    /\ c \notin conversations
    /\ conversations' = conversations \cup {c}
    /\ Bump(1)
    /\ UNCHANGED <<messageVars, members, syncVars, retrying>>

\* PRAGMA foreign_keys = ON: a row's parent must exist.
ForeignKeysOff(c) == TRUE
ParentExists(c) == c \in conversations

AddMember(c, d) ==
    /\ Idle
    /\ ParentExists(c)
    /\ members' = [members EXCEPT ![<<c, d>>] = Active]
    /\ Bump(1)
    /\ UNCHANGED <<messageVars, conversations, syncVars, retrying>>

RemoveMember(c, d) ==
    /\ Idle
    /\ members[<<c, d>>] = Active
    /\ members' = [members EXCEPT ![<<c, d>>] = Removed]
    /\ MembersChangeUpdate
    /\ UNCHANGED <<messageVars, conversations, syncVars, retrying>>
-----------------------------------------------------------------------------
(* Inbox and cursors.                                                      *)

\* INSERT OR IGNORE: the events of the batch that have no inbox row yet.
ReplacedEvents(batch) ==
    {e \in Events : \E i \in DOMAIN batch : batch[i].event = e}
NewEvents(batch) ==
    {e \in Events :
        inbox[e] = None /\ \E i \in DOMAIN batch : batch[i].event = e}

\* The rows go in one by one: within a batch the first occurrence wins.
FirstOccurrence(batch, e) ==
    CHOOSE i \in DOMAIN batch :
        /\ batch[i].event = e
        /\ \A j \in DOMAIN batch : batch[j].event = e => i <= j

IngestRows(batch) ==
    /\ Idle
    /\ inbox' = [e \in Events |->
                    IF e \in NewEvents(batch)
                    THEN batch[FirstOccurrence(batch, e)].payload
                    ELSE inbox[e]]
    /\ Bump(Cardinality(NewEvents(batch)))
    /\ UNCHANGED <<messageVars, groupVars, cursors, retrying>>

IngestServerEvent(row) == IngestRows(<<row>>)

IngestServerBatch(batch) ==
    /\ Len(batch) <= BatchLimit
    /\ IngestRows(batch)

\* The regression test of set_sync_cursor, on the value read back as u64.
AcceptsAnyCursor(s, c) == TRUE
AcceptsCursor(s, c) == cursors[s] # NoRow => c >= cursors[s]

\* CHECK(cursor>=0) rejects a cursor whose cast is negative.
CastUnchecked(c) == TRUE
CheckedCursor(c) == AsI64(c) >= 0

SetSyncCursor(s, c) ==
    /\ Idle
    /\ AcceptsCursor(s, c)
    /\ CheckedCursor(c)
    /\ cursors' = [cursors EXCEPT ![s] = AsI64(c)]
    /\ UNCHANGED <<messageVars, groupVars, inbox, revision, retrying>>
-----------------------------------------------------------------------------
(* The account as a whole.                                                 *)

WipeLocalAccount ==
    /\ Idle
    /\ status' = [m \in MessageIds |-> NoRow]
    /\ conv' = [m \in MessageIds |-> None]
    /\ outbox' = {}
    /\ attempts' = [m \in MessageIds |-> 0]
    /\ backoff' = {}
    /\ conversations' = {}
    /\ members' = [p \in Conversations \X Devices |-> NoRow]
    /\ inbox' = [e \in Events |-> None]
    /\ cursors' = [s \in Scopes |-> NoRow]
    /\ Bump(1)
    /\ UNCHANGED <<issued, retrying>>

\* The process dies and the database is opened again.  Committed rows stay,
\* migrate() only creates what is missing, and the interrupted method is gone.
CrashAndReopen ==
    /\ retrying # None
    /\ retrying' = None
    /\ UNCHANGED <<messageVars, groupVars, syncVars, revision>>

Next ==
    \/ \E m \in MessageIds, c \in Conversations : CreateMessage(m, c)
    \/ \E m \in MessageIds : MarkUploadAccepted(m)
    \/ \E m \in MessageIds : RetryMessage(m)
    \/ RetryMessageStatus
    \/ \E m \in MessageIds : CancelPendingMessage(m)
    \/ \E m \in MessageIds, s \in ReceiptStatuses : ApplyReceipt(m, s)
    \/ \E m \in MessageIds : BackoffElapses(m)
    \/ \E c \in Conversations : CreateGroup(c)
    \/ \E c \in Conversations, d \in Devices : AddMember(c, d)
    \/ \E c \in Conversations, d \in Devices : RemoveMember(c, d)
    \/ \E row \in EventRows : IngestServerEvent(row)
    \/ \E batch \in Batches : IngestServerBatch(batch)
    \/ \E s \in Scopes, c \in U64 : SetSyncCursor(s, c)
    \/ WipeLocalAccount
    \/ CrashAndReopen

Spec == Init /\ [][Next]_vars
-----------------------------------------------------------------------------
(* Properties.                                                             *)

\* Every table holds values its columns admit; no cursor is negative although
\* set_sync_cursor casts a u64 to the i64 column.
TypeOK ==
    /\ status \in [MessageIds -> MessageStatus \cup {NoRow}]
    /\ conv \in [MessageIds -> Conversations \cup {None}]
    /\ outbox \subseteq MessageIds
    /\ attempts \in [MessageIds -> Nat]
    /\ backoff \subseteq outbox
    /\ conversations \subseteq Conversations
    /\ members \in [Conversations \X Devices -> {NoRow, Active, Removed}]
    /\ inbox \in [Events -> Payloads \cup {None}]
    /\ cursors \in [Scopes -> (0 .. I64Max) \cup {NoRow}]
    /\ revision \in Nat
    /\ issued \subseteq MessageIds
    /\ retrying \in MessageIds \cup {None}

\* Queued work survives everything but a wipe: a message that the user sees as
\* waiting for upload has the outbox row that makes get_pending_uploads offer
\* it, also when the process died between retry_message's two statements.
PendingInOutbox ==
    \A m \in MessageIds :
        status[m] \in {ReadyToUpload, RetryScheduled} => m \in outbox

\* An accepted or cancelled message is never offered for upload again:
\* mark_upload_accepted and cancel_pending_message leave no outbox row behind
\* and retry_message cannot bring one back.
SettledNotQueued ==
    \A m \in MessageIds :
        status[m] \in {ServerAccepted, Cancelled} => m \notin outbox

\* retry_message writes the backoff before the status, so a message shown as
\* RetryScheduled has at least one recorded attempt even after a crash.
RetryScheduledWasAttempted ==
    \A m \in MessageIds : status[m] = RetryScheduled => attempts[m] > 0

\* No dangling rows: outbox rows belong to messages, messages and members to
\* conversations, also after wipe_local_account.
ReferentialIntegrity ==
    /\ \A m \in outbox : status[m] # NoRow
    /\ \A m \in MessageIds : status[m] # NoRow => conv[m] \in conversations
    /\ \A p \in Conversations \X Devices :
          members[p] # NoRow => p[1] \in conversations

\* The message whose retry is half done is still queued and already counted;
\* this is why the second statement may overwrite the status blindly.
RetryInProgressIsQueued ==
    retrying # None => retrying \in outbox /\ attempts[retrying] > 0

\* A late acknowledgement, retry or receipt never revives a cancelled message
\* and never returns an accepted one to the queue.
SettledIsFinal ==
    [][\A m \in MessageIds :
        /\ status[m] = Cancelled => status'[m] \in {Cancelled, NoRow}
        /\ status[m] = ServerAccepted =>
               status'[m] \in {ServerAccepted, Delivered, Read, NoRow}]_vars

\* What the list_* methods show the user.
View == <<status, conv, conversations, members, inbox>>

\* observe_conversation_changes misses nothing: every step that changes what the
\* user can list raises the revision, whichever table it touched.
ChangesAreObservable == [][View' # View => revision' > revision]_vars

\* A stored event is never overwritten by a later copy with the same event id;
\* only wipe_local_account removes it.
InboxFirstWriteWins ==
    [][\A e \in Events :
        inbox[e] # None => inbox'[e] = inbox[e] \/ WipeLocalAccount]_vars

\* A sync cursor never moves back, although it is compared as u64 and stored as
\* i64; only wipe_local_account clears it.
CursorsNeverRegress ==
    [][\A s \in Scopes : cursors'[s] >= cursors[s] \/ WipeLocalAccount]_vars
=============================================================================
