------------------------------ MODULE Mailboxes ------------------------------
(***************************************************************************)
(* The consume-once tables of services/core-api/src/lib.rs: key packages,  *)
(* of which fetch_key_package hands out the oldest, and the welcome        *)
(* mailbox, which fetch_welcomes empties page by page.                     *)
(*                                                                         *)
(* A fetch is a transaction of two steps: SELECT ... FOR UPDATE SKIP       *)
(* LOCKED takes rows that nobody holds, then UPDATE ... consumed_at and    *)
(* COMMIT.  A handler that dies in between gives its rows back.  Several   *)
(* handlers may fetch from one mailbox at once, for one device too: a      *)
(* request that the device has given up, and its repetition.  Inserts are  *)
(* one statement each.  What may be refused before a table is touched      *)
(* (credentials, membership, size) is left to the caller.  No code removes *)
(* rows, and no code revokes a device.                                     *)
(*                                                                         *)
(* Rows are kept in the order of created_at and expires_at, which is the   *)
(* order of insertion for both tables.                                     *)
(***************************************************************************)
EXTENDS Naturals, Sequences, FiniteSets, SequencesExt

CONSTANTS
    Clients,        \* devices
    Handlers,       \* handlers that may be at work at once
    Sender,         \* the device each of them serves
    Packages,       \* key package ids
    Welcomes,       \* welcome ids
    Addressee,      \* the device a package or welcome belongs to
    Lapsing         \* welcomes whose expires_at passes

ASSUME SenderAssumption == Sender \in [Handlers -> Clients]
ASSUME AddresseeAssumption == Addressee \in [Packages \cup Welcomes -> Clients]
ASSUME LapsingAssumption == Lapsing \subseteq Welcomes

VARIABLES
    keyPackages,    \* key_packages, oldest first
    mailbox,        \* welcome_mailbox, oldest first
    consumed,       \* rows whose consumed_at is set
    lapsed,         \* welcomes past their expires_at
    locked          \* rows the fetch of each handler holds

mail == <<keyPackages, mailbox, consumed, lapsed, locked>>

MailInit ==
    /\ keyPackages = <<>>
    /\ mailbox = <<>>
    /\ consumed = {}
    /\ lapsed = {}
    /\ locked = [h \in Handlers |-> {}]

Held == UNION {locked[h] : h \in Handlers}

\* INSERT ... ON CONFLICT DO NOTHING: an id that is taken changes nothing.
Inserted(rows, id) == IF id \in ToSet(rows) THEN rows ELSE Append(rows, id)

PublishKeyPackage(p) ==
    /\ keyPackages' = Inserted(keyPackages, p)
    /\ UNCHANGED <<mailbox, consumed, lapsed, locked>>

UploadWelcome(w) ==
    /\ mailbox' = Inserted(mailbox, w)
    /\ UNCHANGED <<keyPackages, consumed, lapsed, locked>>

\* FOR UPDATE SKIP LOCKED: a row that is held is passed over, and one that was
\* consumed since the query began is checked again and passed over too.  The rows
\* are given by their place in the table.
Unguarded(d, rows) ==
    {i \in DOMAIN rows : Addressee[rows[i]] = d /\ rows[i] \notin consumed \cup lapsed}
Takeable(d, rows) ==
    {i \in DOMAIN rows : /\ Addressee[rows[i]] = d
                         /\ rows[i] \notin consumed \cup lapsed \cup Held}

\* ORDER BY ... LIMIT n, of the rows at the given places.
Oldest(rows, places, n) ==
    {rows[i] : i \in {j \in places : Cardinality({k \in places : k <= j}) <= n}}

\* fetch_key_package for a target, fetch_welcomes for the device itself: lock.
TakeKeyPackage(h, target) ==
    /\ locked' = [locked EXCEPT ![h] =
                      Oldest(keyPackages, Takeable(target, keyPackages), 1)]
    /\ UNCHANGED <<keyPackages, mailbox, consumed, lapsed>>

TakeWelcomes(h, limit) ==
    /\ locked' = [locked EXCEPT ![h] =
                      Oldest(mailbox, Takeable(Sender[h], mailbox), limit)]
    /\ UNCHANGED <<keyPackages, mailbox, consumed, lapsed>>

\* UPDATE ... SET consumed_at, one row at a time by id, and COMMIT.
ConsumesMailbox(h) ==
    consumed \cup locked[h] \cup
        IF locked[h] \subseteq Packages
        THEN {} ELSE {mailbox[i] : i \in Takeable(Sender[h], mailbox)}
Consumes(h) == consumed \cup locked[h]

Consume(h) ==
    /\ consumed' = Consumes(h)
    /\ locked' = [locked EXCEPT ![h] = {}]
    /\ UNCHANGED <<keyPackages, mailbox, lapsed>>

GiveBack(h) ==
    /\ locked' = [locked EXCEPT ![h] = {}]
    /\ UNCHANGED <<keyPackages, mailbox, consumed, lapsed>>

\* The clock passes a welcome's expires_at.
WelcomeLapses(w) ==
    /\ w \in (ToSet(mailbox) \cap Lapsing) \ lapsed
    /\ lapsed' = lapsed \cup {w}
    /\ UNCHANGED <<keyPackages, mailbox, consumed, locked>>
=============================================================================
