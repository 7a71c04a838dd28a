---------------------------- MODULE KeyRotation -----------------------------
(***************************************************************************)
(* The two locks of MessengerCore (crates/messenger-core/src/lib.rs): the  *)
(* mutex around the connection and the read-write lock around the master   *)
(* key, with the methods that take both.                                   *)
(*                                                                         *)
(*   create_message     key (read), released, then db                      *)
(*   list_messages      db, then key (read) once per row                   *)
(*   local_search       as list_messages                                   *)
(*   rotate_master_key  key (write), then db                               *)
(*                                                                         *)
(* Threads are the callers the shared FFI object admits.  A row is the     *)
(* version of the key its body was encrypted under; decrypting it under    *)
(* any other key fails authentication.  Statements between two lock        *)
(* operations are one step.                                                *)
(***************************************************************************)
EXTENDS Integers, FiniteSets

CONSTANTS
    MessageIds,     \* values random_id() may return
    Creators,       \* threads that call create_message
    Listers,        \* threads that call list_messages or local_search
    Rotators,       \* threads that call rotate_master_key
    None,           \* no thread
    MaxVersion      \* bound: highest key version ever requested

Threads == Creators \cup Listers \cup Rotators

ASSUME ThreadsAssumption ==
    /\ None \notin Threads \cup MessageIds
    /\ Creators \cap Listers = {}
    /\ Creators \cap Rotators = {}
    /\ Listers \cap Rotators = {}
ASSUME VersionAssumption == MaxVersion \in Nat \ {0}

VARIABLES
    rows,           \* messages.body_ciphertext: the key version, NoRow without
    keyVersion,     \* key_metadata.key_version
    activeKey,      \* the key in the RwLock
    keyWriter,      \* who holds the RwLock for writing
    dbOwner,        \* who holds the connection mutex
    pc,             \* where each thread is
    draft,          \* create_message: the identifier it has drawn
    sealed,         \* create_message: the key its ciphertext was made with
    todo,           \* list_messages: the rows still to decrypt
    wanted          \* rotate_master_key: the requested new_version

vars == <<rows, keyVersion, activeKey, keyWriter, dbOwner, pc, draft, sealed, todo,
          wanted>>

NoRow == 0

Rows == {m \in MessageIds : rows[m] # NoRow}

\* encrypt and decrypt: a body authenticates under the key that sealed it and under
\* no other, so the version of that key is all there is to know of it.
Decrypts(key, body) == body = key

Init ==
    /\ rows = [m \in MessageIds |-> NoRow]
    /\ keyVersion = 1
    /\ activeKey = 1
    /\ keyWriter = None
    /\ dbOwner = None
    /\ pc = [t \in Threads |-> "idle"]
    /\ draft = [t \in Threads |-> None]
    /\ sealed = [t \in Threads |-> NoRow]
    /\ todo = [t \in Threads |-> {}]
    /\ wanted = [t \in Threads |-> 0]

\* The only step of t: from one label to another.
Goto(t, from, to) == pc[t] = from /\ pc' = [pc EXCEPT ![t] = to]
-----------------------------------------------------------------------------
(* create_message.                                                         *)

\* random_id() never repeats an identifier.
Fresh(m) == rows[m] = NoRow /\ \A t \in Creators : draft[t] # m

\* The guard on the key lives for one statement: read, encrypt, release.
CreateEncrypt(t, m) ==
    /\ Goto(t, "idle", "insert")
    /\ Fresh(m)
    /\ keyWriter = None
    /\ draft' = [draft EXCEPT ![t] = m]
    /\ sealed' = [sealed EXCEPT ![t] = activeKey]
    /\ UNCHANGED <<rows, keyVersion, activeKey, keyWriter, dbOwner, todo, wanted>>

\* Lock the connection, run the transaction, unlock.
CreateInsert(t) ==
    /\ Goto(t, "insert", "idle")
    /\ dbOwner = None
    /\ rows' = [rows EXCEPT ![draft[t]] = sealed[t]]
    /\ draft' = [draft EXCEPT ![t] = None]
    /\ sealed' = [sealed EXCEPT ![t] = NoRow]
    /\ UNCHANGED <<keyVersion, activeKey, keyWriter, dbOwner, todo, wanted>>
-----------------------------------------------------------------------------
(* list_messages and local_search.                                         *)

ListLock(t) ==
    /\ Goto(t, "idle", "list")
    /\ dbOwner = None
    /\ dbOwner' = t
    /\ todo' = [todo EXCEPT ![t] = Rows]
    /\ UNCHANGED <<rows, keyVersion, activeKey, keyWriter, draft, sealed, wanted>>

\* One row: wait for the key, decrypt; a failure ends the call.
ListRow(t, m) ==
    /\ m \in todo[t]
    /\ keyWriter = None
    /\ \/ /\ Goto(t, "list", "list")
          /\ Decrypts(activeKey, rows[m])
          /\ todo' = [todo EXCEPT ![t] = @ \ {m}]
          /\ UNCHANGED dbOwner
       \/ /\ Goto(t, "list", "failed")
          /\ ~Decrypts(activeKey, rows[m])
          /\ todo' = [todo EXCEPT ![t] = {}]
          /\ dbOwner' = None
    /\ UNCHANGED <<rows, keyVersion, activeKey, keyWriter, draft, sealed, wanted>>

ListDone(t) ==
    /\ Goto(t, "list", "idle")
    /\ todo[t] = {}
    /\ dbOwner' = None
    /\ UNCHANGED <<rows, keyVersion, activeKey, keyWriter, draft, sealed, todo,
                   wanted>>

\* The caller takes note of the error.
ListFailed(t) ==
    /\ Goto(t, "failed", "idle")
    /\ UNCHANGED <<rows, keyVersion, activeKey, keyWriter, dbOwner, draft, sealed,
                   todo, wanted>>
-----------------------------------------------------------------------------
(* rotate_master_key.                                                      *)

RotateLockKey(t, v) ==
    /\ Goto(t, "idle", "lockDb")
    /\ keyWriter = None
    /\ keyWriter' = t
    /\ wanted' = [wanted EXCEPT ![t] = v]
    /\ UNCHANGED <<rows, keyVersion, activeKey, dbOwner, draft, sealed, todo>>

RotateLockDb(t) ==
    /\ Goto(t, "lockDb", "reencrypt")
    /\ dbOwner = None
    /\ dbOwner' = t
    /\ UNCHANGED <<rows, keyVersion, activeKey, keyWriter, draft, sealed, todo,
                   wanted>>

\* The version is the next one and every row decrypts under the active key.
RotatableDespiteErrors(t) == wanted[t] = keyVersion + 1
Rotatable(t) ==
    /\ wanted[t] = keyVersion + 1
    /\ \A m \in Rows : Decrypts(activeKey, rows[m])

\* The transaction: all rows and the recorded version change together.
RotateCommitUnlocking(t) ==
    /\ Goto(t, "reencrypt", "swap")
    /\ Rotatable(t)
    /\ rows' = [m \in MessageIds |-> IF m \in Rows THEN wanted[t] ELSE NoRow]
    /\ keyVersion' = wanted[t]
    /\ dbOwner' = None
    /\ keyWriter' = None
    /\ UNCHANGED <<activeKey, draft, sealed, todo, wanted>>
RotateCommit(t) ==
    /\ Goto(t, "reencrypt", "swap")
    /\ Rotatable(t)
    /\ rows' = [m \in MessageIds |-> IF m \in Rows THEN wanted[t] ELSE NoRow]
    /\ keyVersion' = wanted[t]
    /\ UNCHANGED <<activeKey, keyWriter, dbOwner, draft, sealed, todo, wanted>>

\* Otherwise the transaction rolls back and both guards are dropped.
RotateRetryForever(t) ==
    /\ Goto(t, "reencrypt", "reencrypt")
    /\ ~Rotatable(t)
    /\ UNCHANGED vars
RotateAbort(t) ==
    /\ Goto(t, "reencrypt", "idle")
    /\ ~Rotatable(t)
    /\ dbOwner' = None
    /\ keyWriter' = None
    /\ UNCHANGED <<rows, keyVersion, activeKey, draft, sealed, todo, wanted>>

\* Replace the key in memory and return, dropping both guards.
RotateSwap(t) ==
    /\ Goto(t, "swap", "idle")
    /\ activeKey' = wanted[t]
    /\ dbOwner' = None
    /\ keyWriter' = None
    /\ UNCHANGED <<rows, keyVersion, draft, sealed, todo, wanted>>
-----------------------------------------------------------------------------
CreateStep(t) == (\E m \in MessageIds : CreateEncrypt(t, m)) \/ CreateInsert(t)

ListStep(t) ==
    \/ ListLock(t)
    \/ \E m \in MessageIds : ListRow(t, m)
    \/ ListDone(t)
    \/ ListFailed(t)

RotateCall(t) == \E v \in 1 .. MaxVersion : RotateLockKey(t, v)
RotateStep(t) == RotateLockDb(t) \/ RotateCommit(t) \/ RotateAbort(t) \/ RotateSwap(t)

Next ==
    \/ \E t \in Creators : CreateStep(t)
    \/ \E t \in Listers : ListStep(t)
    \/ \E t \in Rotators : RotateCall(t) \/ RotateStep(t)

\* A started call takes its next step whenever it can do so again and again:
\* the scheduler runs every thread and no lock starves a waiter.
Fairness ==
    /\ \A t \in Creators : SF_vars(CreateInsert(t))
    /\ \A t \in Listers :
          SF_vars(\/ \E m \in MessageIds : ListRow(t, m)
                  \/ ListDone(t)
                  \/ ListFailed(t))
    /\ \A t \in Rotators : SF_vars(RotateStep(t))

Spec == Init /\ [][Next]_vars /\ Fairness
-----------------------------------------------------------------------------
\* A row that no key in memory opens any more: create_message encrypted it
\* before a rotation and inserted it afterwards.
Stale(m) == rows[m] # NoRow /\ rows[m] < activeKey

\* A call of list_messages that overlaps a rotation never fails on its account:
\* an authentication error means that a stale row is really there.
ListFailsOnlyOnStaleRow ==
    \A t \in Listers : pc[t] = "failed" => \E m \in MessageIds : Stale(m)

\* rotate_master_key never moves on past a row it could not decrypt: while there
\* is one, the recorded version stays.
NoRotationPastStaleRow ==
    [][(\E m \in MessageIds : Stale(m)) => keyVersion' = keyVersion]_vars

\* A reader and a rotator each hold the lock the other one waits for.
Embraced ==
    \E l \in Listers, r \in Rotators :
        /\ dbOwner = l /\ todo[l] # {}
        /\ keyWriter = r /\ pc[r] = "lockDb"

\* Nothing but that embrace keeps a call from returning: not the wait of writers
\* for a rotation, nor a rotation that is refused or meets a stale row.
OnlyTheEmbraceBlocks ==
    \A t \in Threads : pc[t] # "idle" ~> pc[t] = "idle" \/ Embraced

\* Every call that was started returns.
CallsReturn == \A t \in Threads : pc[t] # "idle" ~> pc[t] = "idle"
=============================================================================
