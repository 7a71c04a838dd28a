------------------------- MODULE KeyRotationProofs --------------------------
(***************************************************************************)
(* The safety properties of KeyRotation, for any number of threads, any    *)
(* messages and any number of rotations.                                   *)
(*                                                                         *)
(* That list_messages fails on stale rows only is not inductive: it rests  *)
(* on who holds which lock where, on the recorded version being ahead of   *)
(* the key in memory only inside rotate_master_key, and on the version a   *)
(* half-done create_message has encrypted under.                           *)
(*                                                                         *)
(* That calls return is a matter of fairness.  What is proved of it is     *)
(* what can keep one from returning: a reader and a rotator in each        *)
(* other's way, who then stay there, and nothing else.                     *)
(***************************************************************************)
EXTENDS KeyRotation, TLAPS

Labels == {"idle", "insert", "list", "failed", "lockDb", "reencrypt", "swap"}

\* The types of the variables.
KeyTypeOK ==
    /\ rows \in [MessageIds -> Nat]
    /\ keyVersion \in Nat
    /\ activeKey \in Nat \ {0}
    /\ keyWriter \in Threads \cup {None}
    /\ dbOwner \in Threads \cup {None}
    /\ pc \in [Threads -> Labels]
    /\ draft \in [Threads -> MessageIds \cup {None}]
    /\ sealed \in [Threads -> Nat]
    /\ todo \in [Threads -> SUBSET MessageIds]
    /\ wanted \in [Threads -> Nat]

\* Each label belongs to one of the three methods.
OwnLabels ==
    /\ \A t \in Creators : pc[t] \in {"idle", "insert"}
    /\ \A t \in Listers : pc[t] \in {"idle", "list", "failed"}
    /\ \A t \in Rotators : pc[t] \in {"idle", "lockDb", "reencrypt", "swap"}

\* Inside rotate_master_key a thread has the key lock, and from its transaction on
\* the connection; list_messages has the connection while it decrypts.
LocksHeld ==
    /\ \A t \in Threads : pc[t] \in {"lockDb", "reencrypt", "swap"} => keyWriter = t
    /\ \A t \in Threads : pc[t] \in {"list", "reencrypt", "swap"} => dbOwner = t

\* A lock is held only there.
HoldersInside ==
    /\ keyWriter # None => pc[keyWriter] \in {"lockDb", "reencrypt", "swap"}
    /\ dbOwner # None => pc[dbOwner] \in {"list", "reencrypt", "swap"}

\* The recorded version differs from the key in memory only between the commit of a
\* rotation and the swap of the key.
VersionsAgree ==
    /\ (\A t \in Threads : pc[t] # "swap") => keyVersion = activeKey
    /\ \A t \in Threads : pc[t] = "swap" => /\ keyVersion = wanted[t]
                                            /\ keyVersion = activeKey + 1

\* No body is encrypted under a version yet to come, stored or about to be stored.
NoFutureBodies ==
    /\ \A m \in MessageIds : rows[m] <= keyVersion
    /\ \A t \in Threads : pc[t] = "insert" => sealed[t] \in 1 .. activeKey

\* A drawn identifier has no row and is nobody else's.
DraftsAreFresh ==
    \A t \in Creators : pc[t] = "insert" =>
        /\ draft[t] \in MessageIds
        /\ rows[draft[t]] = NoRow
        /\ \A u \in Creators : pc[u] = "insert" /\ draft[u] = draft[t] => u = t

\* What list_messages has still to decrypt is there.
ListedRowsExist == \A t \in Listers : todo[t] \subseteq Rows

IInv ==
    /\ KeyTypeOK
    /\ OwnLabels
    /\ LocksHeld
    /\ HoldersInside
    /\ VersionsAgree
    /\ NoFutureBodies
    /\ DraftsAreFresh
    /\ ListedRowsExist
    /\ ListFailsOnlyOnStaleRow

-----------------------------------------------------------------------------
\* MessengerCore::open: version 1 is recorded and in memory, nobody has a lock.
LEMMA InitIInv == Init => IInv
BY ThreadsAssumption DEF Init, IInv, KeyTypeOK, OwnLabels, LocksHeld, HoldersInside,
   VersionsAgree, NoFutureBodies, DraftsAreFresh, ListedRowsExist, ListFailsOnlyOnStaleRow,
   Labels, Rows, NoRow, Threads

\* Every step of create_message, list_messages and rotate_master_key preserves it.
LEMMA NextIInv == IInv /\ [Next]_vars => IInv'
<1> SUFFICES ASSUME IInv, [Next]_vars PROVE IInv'
  OBVIOUS
<1> USE ThreadsAssumption, VersionAssumption
<1> USE DEF IInv, KeyTypeOK, OwnLabels, LocksHeld, HoldersInside, VersionsAgree,
        NoFutureBodies, DraftsAreFresh, ListedRowsExist, ListFailsOnlyOnStaleRow, Labels, Threads,
        Rows, NoRow, Stale, Goto
<1>1. ASSUME NEW t \in Creators, NEW m \in MessageIds, CreateEncrypt(t, m)
      PROVE  IInv'
  BY <1>1 DEF CreateEncrypt, Fresh
<1>2. ASSUME NEW t \in Creators, CreateInsert(t)
      PROVE  IInv'
  BY <1>2 DEF CreateInsert
<1>3. ASSUME NEW t \in Listers, ListLock(t)
      PROVE  IInv'
  BY <1>3 DEF ListLock
<1>4. ASSUME NEW t \in Listers, NEW m \in MessageIds, ListRow(t, m)
      PROVE  IInv'
  BY <1>4 DEF ListRow, Decrypts
<1>5. ASSUME NEW t \in Listers, ListDone(t)
      PROVE  IInv'
  BY <1>5 DEF ListDone
<1>6. ASSUME NEW t \in Listers, ListFailed(t)
      PROVE  IInv'
  BY <1>6 DEF ListFailed
<1>7. ASSUME NEW t \in Rotators, NEW v \in 1 .. MaxVersion, RotateLockKey(t, v)
      PROVE  IInv'
  BY <1>7 DEF RotateLockKey
<1>8. ASSUME NEW t \in Rotators, RotateLockDb(t)
      PROVE  IInv'
  BY <1>8 DEF RotateLockDb
<1>9. ASSUME NEW t \in Rotators, RotateCommit(t)
      PROVE  IInv'
  BY <1>9 DEF RotateCommit, Rotatable, Decrypts
<1>10. ASSUME NEW t \in Rotators, RotateAbort(t)
       PROVE  IInv'
  BY <1>10 DEF RotateAbort
<1>11. ASSUME NEW t \in Rotators, RotateSwap(t)
       PROVE  IInv'
  BY <1>11 DEF RotateSwap
<1>12. CASE UNCHANGED vars
  BY <1>12 DEF vars
<1> HIDE DEF IInv
<1> QED
  BY <1>1, <1>2, <1>3, <1>4, <1>5, <1>6, <1>7, <1>8, <1>9, <1>10, <1>11, <1>12
     DEF Next, CreateStep, ListStep, RotateCall, RotateStep

\* The invariant holds in every reachable state.
THEOREM Invariance == Spec => []IInv
BY InitIInv, NextIInv, PTL DEF Spec

-----------------------------------------------------------------------------
\* list_messages and local_search report an authentication error only if a row is
\* stored that create_message had encrypted before a rotation: a rotation that
\* overlaps the listing is never the reason by itself.
THEOREM ListingFailures == Spec => []ListFailsOnlyOnStaleRow
<1>1. IInv => ListFailsOnlyOnStaleRow
  BY DEF IInv
<1> QED
  BY <1>1, Invariance, PTL

\* rotate_master_key never advances key_metadata.key_version past a row it cannot
\* decrypt.
THEOREM RotationStopsAtStaleRow == Spec => NoRotationPastStaleRow
<1>1. IInv /\ [Next]_vars =>
        [(\E m \in MessageIds : Stale(m)) => keyVersion' = keyVersion]_vars
  <2> SUFFICES ASSUME IInv, Next, NEW m \in MessageIds, Stale(m)
               PROVE  keyVersion' = keyVersion
    BY DEF vars
  <2>1. ASSUME NEW t \in Rotators, RotateCommit(t)
        PROVE  FALSE
    BY <2>1 DEF RotateCommit, Rotatable, Decrypts, Stale, Rows, IInv, KeyTypeOK
  <2> QED
    BY <2>1 DEF Next, CreateStep, ListStep, RotateCall, RotateStep, CreateEncrypt,
       CreateInsert, ListLock, ListRow, ListDone, ListFailed, RotateLockKey,
       RotateLockDb, RotateAbort, RotateSwap
<1> QED
  BY <1>1, Invariance, PTL DEF Spec, NoRotationPastStaleRow

-----------------------------------------------------------------------------
(* Waiting.                                                                *)

\* A started call whose next step waits for no lock.
Unblocked(t) ==
    \/ pc[t] \in {"failed", "reencrypt", "swap"}
    \/ pc[t] \in {"insert", "lockDb"} /\ dbOwner = None
    \/ pc[t] = "list" /\ (todo[t] = {} \/ keyWriter = None)

\* A call that waits does so for the connection, and whoever has the connection
\* does not wait.
WaitsForRunning ==
    \A t \in Threads :
        pc[t] # "idle" => Unblocked(t) \/ (dbOwner # None /\ Unblocked(dbOwner))

\* Of the waits that create_message, list_messages, local_search and rotate_master_key
\* can get into, in any number, only the embrace of a reader and a rotator is a
\* circle.
THEOREM OnlyCircle == Spec => [](WaitsForRunning \/ Embraced)
<1>1. IInv => WaitsForRunning \/ Embraced
  <2> SUFFICES ASSUME IInv, ~Embraced, NEW t \in Threads, pc[t] # "idle", ~Unblocked(t)
               PROVE  dbOwner # None /\ Unblocked(dbOwner)
    BY DEF WaitsForRunning
  <2> USE DEF IInv, KeyTypeOK, OwnLabels, LocksHeld, HoldersInside
  <2>1. ASSUME NEW l \in Listers, pc[l] = "list"
        PROVE  Unblocked(l)
    <3> SUFFICES ASSUME todo[l] # {}, keyWriter # None PROVE FALSE
      BY <2>1 DEF Unblocked
    <3>1. dbOwner = l /\ keyWriter \in Threads
      BY <2>1 DEF Threads
    <3>2. keyWriter \in Rotators /\ pc[keyWriter] = "lockDb"
      BY <2>1, <3>1, ThreadsAssumption DEF Threads
    <3> QED
      BY <2>1, <3>1, <3>2 DEF Embraced
  <2>2. pc[t] \in {"insert", "lockDb"} /\ dbOwner # None
    BY <2>1 DEF Unblocked, Threads
  <2>3. dbOwner \in Threads /\ pc[dbOwner] \in {"list", "reencrypt", "swap"}
    BY <2>2
  <2> QED
    BY <2>1, <2>2, <2>3 DEF Unblocked, Threads
<1> QED
  BY <1>1, Invariance, PTL

\* Nothing the other threads do resolves the embrace: neither of the two calls can go
\* on, and nobody else has their locks to give back.
THEOREM EmbraceIsForever == Spec => [][Embraced => Embraced']_vars
<1>1. IInv /\ [Next]_vars => [Embraced => Embraced']_vars
  <2> SUFFICES ASSUME IInv, Next, NEW l \in Listers, NEW r \in Rotators,
                      dbOwner = l, todo[l] # {}, keyWriter = r, pc[r] = "lockDb"
               PROVE  dbOwner' = l /\ todo'[l] # {} /\ keyWriter' = r /\ pc'[r] = "lockDb"
    BY DEF Embraced
  <2> USE ThreadsAssumption
  <2> USE DEF IInv, KeyTypeOK, OwnLabels, LocksHeld, HoldersInside, Threads, Goto
  <2>1. l # None /\ r # None
    OBVIOUS
  <2>2. ASSUME NEW t \in Creators, CreateStep(t)
        PROVE  FALSE
    BY <2>1, <2>2 DEF CreateStep, CreateEncrypt, CreateInsert
  <2>3. ASSUME NEW t \in Listers, ListStep(t)
        PROVE  dbOwner' = l /\ todo' = todo /\ keyWriter' = r /\ pc'[r] = "lockDb"
    BY <2>1, <2>3 DEF ListStep, ListLock, ListRow, ListDone, ListFailed
  <2>4. ASSUME NEW t \in Rotators, RotateCall(t) \/ RotateStep(t)
        PROVE  FALSE
    BY <2>1, <2>4 DEF RotateCall, RotateStep, RotateLockKey, RotateLockDb, RotateCommit,
       RotateAbort, RotateSwap
  <2> QED
    BY <2>2, <2>3, <2>4 DEF Next
<1> QED
  BY <1>1, Invariance, PTL DEF Spec
=============================================================================
