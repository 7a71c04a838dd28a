--------------------------- MODULE UsernamesProofs ---------------------------
(***************************************************************************)
(* The safety properties of Usernames, for any accounts, names and number  *)
(* of concurrent requests.                                                 *)
(*                                                                         *)
(* Beneath them are the row locks: a name that change_username has locked  *)
(* stays its account's until the transaction ends, and a released row that *)
(* was deleted stays released.  From these follows when a name that a      *)
(* request found free can have begun to cool down since.                   *)
(***************************************************************************)
EXTENDS Usernames, FiniteSetTheorems, TLAPS

Labels == {"idle", "claim", "lock", "check", "purge", "swap"}

\* The types of the variables.
UsernamesTypeOK ==
    /\ owner \in [Names -> Accounts \cup {None}]
    /\ released \subseteq Names
    /\ cooling \subseteq Names
    /\ pc \in [Handlers -> Labels]
    /\ account \in [Handlers -> Accounts \cup {None}]
    /\ name \in [Handlers -> Names \cup {None}]
    /\ current \in [Handlers -> Names \cup {None}]
    /\ purged \in [Handlers -> BOOLEAN]
    /\ overtaken \in [Handlers -> BOOLEAN]

\* A request has an account and a name; only change_username reads a current name.
RequestsAreMade ==
    \A h \in Handlers :
        /\ pc[h] # "idle" => account[h] \in Accounts /\ name[h] \in Names
        /\ pc[h] \in {"idle", "claim"} => current[h] = None
        /\ pc[h] \notin {"claim", "swap"} => ~purged[h]
        /\ pc[h] \notin {"purge", "swap"} => ~overtaken[h]

\* Released and cooling names have a row.
RowsExist == \A n \in released \cup cooling : owner[n] # None

\* The rows of one account that are not released are one row.
OneLiveRow == \A a \in Accounts : \A n1, n2 \in Live(a) : n1 = n2

HasLocked(h, n) == pc[h] \in {"check", "purge", "swap"} /\ current[h] = n

\* SELECT ... FOR UPDATE: the row is the account's own, and one request has it.
LockedIsLive ==
    \A n \in Names : \A h \in Handlers : HasLocked(h, n) =>
        /\ n \in Live(account[h])
        /\ \A k \in Handlers : HasLocked(k, n) => k = h

\* DELETE ... WHERE released_at IS NOT NULL: nobody else gets at the row.
PurgedIsReleased ==
    \A h \in Handlers : purged[h] =>
        /\ name[h] \in released
        /\ \A k \in Handlers : purged[k] /\ name[k] = name[h] => k = h

\* What claim_username has deleted is past its cooldown; a name that change_username
\* found free cools down only if it was released since.
CoolingWasOvertaken ==
    \A h \in Handlers :
        /\ pc[h] = "claim" /\ purged[h] => name[h] \notin cooling
        /\ pc[h] \in {"purge", "swap"} /\ name[h] \in cooling => overtaken[h]

IInv ==
    /\ UsernamesTypeOK
    /\ RequestsAreMade
    /\ RowsExist
    /\ OneLiveRow
    /\ LockedIsLive
    /\ PurgedIsReleased
    /\ CoolingWasOvertaken

-----------------------------------------------------------------------------
\* An empty table and no request.
LEMMA InitIInv == Init => IInv
BY NoneAssumption DEF Init, IInv, UsernamesTypeOK, RequestsAreMade, RowsExist,
   OneLiveRow, LockedIsLive, HasLocked, PurgedIsReleased, CoolingWasOvertaken, Live, Labels

\* A transaction that inserts its name and commits preserves the invariant: the
\* unique indexes and the locks admit nothing else.
LEMMA CommitsIInv ==
    ASSUME IInv, NEW h \in Handlers, NEW old,
           pc[h] \in {"claim", "swap"},
           old = {current[h]} \ {None},
           ~Locked(name[h], h), NameFree(h), AccountFree(h),
           Commits(h, old)
    PROVE  IInv'
<1> USE NoneAssumption
<1> USE DEF IInv, Commits, Ends
<1>1. \A k \in Handlers :
        overtaken'[k] <=> k # h /\ (overtaken[k] \/ \E n \in old : k \in Relying(n))
  BY Zenon
<1>2. RequestsAreMade'
  <2>1. \A k \in Handlers : overtaken'[k] => pc'[k] \in {"purge", "swap"}
    BY <1>1 DEF UsernamesTypeOK, RequestsAreMade, Relying
  <2> QED
    BY <2>1 DEF UsernamesTypeOK, RequestsAreMade
<1>3. RowsExist'
  BY DEF UsernamesTypeOK, RequestsAreMade, RowsExist, LockedIsLive, HasLocked, Live
<1>4. OneLiveRow'
  BY DEF UsernamesTypeOK, RequestsAreMade, OneLiveRow, Live, AccountFree
<1>5. LockedIsLive'
  BY DEF UsernamesTypeOK, RequestsAreMade, LockedIsLive, HasLocked, Live, Locked
<1>6. PurgedIsReleased'
  BY DEF UsernamesTypeOK, RequestsAreMade, PurgedIsReleased, Locked
<1>7. CoolingWasOvertaken'
  <2>1. ASSUME NEW k \in Handlers, pc'[k] \in {"purge", "swap"}, name'[k] \in cooling'
        PROVE  overtaken'[k]
    BY <1>1, <2>1 DEF UsernamesTypeOK, RequestsAreMade, CoolingWasOvertaken, Relying
  <2>2. ASSUME NEW k \in Handlers, pc'[k] = "claim", purged'[k]
        PROVE  name'[k] \notin cooling'
    BY <2>2 DEF UsernamesTypeOK, RequestsAreMade, CoolingWasOvertaken,
       PurgedIsReleased, LockedIsLive, HasLocked, Live
  <2> QED
    BY <2>1, <2>2 DEF CoolingWasOvertaken
<1>8. UsernamesTypeOK'
  BY DEF UsernamesTypeOK, RequestsAreMade, Labels
<1> QED
  BY <1>2, <1>3, <1>4, <1>5, <1>6, <1>7, <1>8

\* Every step of claim_username, change_username and release_username, the end of a
\* cooldown and the death of a handler preserve the invariant.
LEMMA NextIInv == IInv /\ [Next]_vars => IInv'
<1> SUFFICES ASSUME IInv, [Next]_vars PROVE IInv'
  OBVIOUS
<1> USE NoneAssumption
<1>1. ASSUME NEW h \in Handlers, ClaimInsert(h)
      PROVE  IInv'
  BY <1>1, CommitsIInv DEF ClaimInsert, IInv, RequestsAreMade
<1>2. ASSUME NEW h \in Handlers, ChangeSwap(h)
      PROVE  IInv'
  BY <1>2, CommitsIInv DEF ChangeSwap
<1> USE DEF IInv, UsernamesTypeOK, RequestsAreMade, RowsExist, OneLiveRow, LockedIsLive,
        HasLocked, PurgedIsReleased, CoolingWasOvertaken, Live, Labels, rows, handlers
<1>3. ASSUME NEW h \in Handlers, NEW a \in Accounts, NEW n \in Names,
             ClaimDelete(h, a, n)
      PROVE  IInv'
  BY <1>3 DEF ClaimDelete, Begin, Locked
<1>4. ASSUME NEW h \in Handlers, NEW a \in Accounts, NEW n \in Names,
             ChangeBegin(h, a, n)
      PROVE  IInv'
  BY <1>4 DEF ChangeBegin, Begin
<1>5. ASSUME NEW h \in Handlers, ChangeLock(h)
      PROVE  IInv'
  BY <1>5 DEF ChangeLock, Locked
<1>6. ASSUME NEW h \in Handlers, ChangeCheck(h)
      PROVE  IInv'
  BY <1>6 DEF ChangeCheck, Available
<1>7. ASSUME NEW h \in Handlers, ChangePurge(h)
      PROVE  IInv'
  BY <1>7 DEF ChangePurge, Purgeable, Locked
<1>8. ASSUME NEW n \in Names, ReleaseUsername(n)
      PROVE  IInv'
  <2>1. \A h \in Handlers : overtaken'[h] <=> overtaken[h] \/ h \in Relying(n)
    BY <1>8, Zenon DEF ReleaseUsername
  <2>2. overtaken' \in [Handlers -> BOOLEAN]
    BY <1>8, Zenon DEF ReleaseUsername
  <2>3. RequestsAreMade' /\ CoolingWasOvertaken'
    BY <1>8, <2>1 DEF ReleaseUsername, Relying
  <2> QED
    BY <1>8, <2>2, <2>3 DEF ReleaseUsername, Locked
<1>9. ASSUME NEW n \in Names, CooldownEnds(n)
      PROVE  IInv'
  BY <1>9 DEF CooldownEnds
<1>10. ASSUME NEW h \in Handlers, HandlerDies(h)
       PROVE  IInv'
  BY <1>10 DEF HandlerDies, Ends
<1>11. CASE UNCHANGED vars
  BY <1>11 DEF vars
<1> HIDE DEF IInv
<1> QED
  BY <1>1, <1>2, <1>3, <1>4, <1>5, <1>6, <1>7, <1>8, <1>9, <1>10, <1>11
     DEF Next, Claim, Change

\* The invariant holds in every reachable state.
THEOREM Invariance == Spec => []IInv
BY InitIInv, NextIInv, PTL DEF Spec

-----------------------------------------------------------------------------
\* Claims and changes of one account, however they overlap, leave it one name.
THEOREM OneActiveName == Spec => []OneNamePerAccount
<1>1. IInv => OneNamePerAccount
  <2> SUFFICES ASSUME IInv, NEW a \in Accounts
               PROVE  Cardinality(Live(a)) <= 1
    BY DEF OneNamePerAccount
  <2>1. CASE Live(a) = {}
    BY <2>1, FS_EmptySet
  <2>2. ASSUME NEW n \in Live(a)
        PROVE  Cardinality(Live(a)) <= 1
    <3>1. Live(a) = {n}
      BY <2>2 DEF IInv, OneLiveRow
    <3> QED
      BY <3>1, FS_Singleton
  <2> QED
    BY <2>1, <2>2
<1> QED
  BY <1>1, Invariance, PTL

\* The only steps that change a name's owner or take it back from release are the
\* commits of claim_username and change_username.
LEMMA OnlyCommitsInsert ==
    ASSUME IInv, Next, NEW n \in Names,
           owner'[n] # owner[n] \/ (n \in released /\ n \notin released')
    PROVE  \E h \in Handlers :
               /\ pc[h] \in {"claim", "swap"}
               /\ name[h] = n
               /\ NameFree(h)
<1>1. ASSUME NEW h \in Handlers, ClaimInsert(h) \/ ChangeSwap(h)
      PROVE  pc[h] \in {"claim", "swap"} /\ name[h] = n /\ NameFree(h)
  BY <1>1 DEF ClaimInsert, ChangeSwap, Commits, IInv, UsernamesTypeOK
<1>2. \E h \in Handlers : ClaimInsert(h) \/ ChangeSwap(h)
  BY DEF Next, Claim, Change, ClaimDelete, ChangeBegin, ChangeLock, ChangeCheck,
     ChangePurge, ReleaseUsername, CooldownEnds, HandlerDies, rows
<1> QED
  BY <1>1, <1>2

\* No request takes a name that somebody has.
THEOREM NoNameIsTaken == Spec => NoNameTaken
<1> DEFINE Step == \A n \in Names : owner[n] # None /\ n \notin released /\ n \notin released'
                       => owner'[n] = owner[n]
<1>1. IInv /\ [Next]_vars => [Step]_vars
  <2> SUFFICES ASSUME IInv, Next, NEW n \in Names, owner[n] # None, n \notin released
               PROVE  owner'[n] = owner[n]
    BY DEF vars
  <2> QED
    BY OnlyCommitsInsert DEF NameFree, IInv, PurgedIsReleased
<1> QED
  BY <1>1, Invariance, PTL DEF Spec, NoNameTaken

\* Only a change that had found the name free before it was released gets it before
\* its cooldown is over.
THEOREM CooldownHoldsButForTheRace == Spec => CooldownBrokenOnlyInRace
<1> DEFINE Step == \A n \in Names : n \in released \cap cooling /\ n \notin released'
                       => \E h \in Handlers : name[h] = n /\ overtaken[h]
<1>1. IInv /\ [Next]_vars => [Step]_vars
  <2> SUFFICES ASSUME IInv, Next, NEW n \in Names,
                      n \in released \cap cooling, n \notin released'
               PROVE  \E h \in Handlers : name[h] = n /\ overtaken[h]
    BY DEF vars
  <2>1. PICK h \in Handlers : /\ pc[h] \in {"claim", "swap"}
                              /\ name[h] = n
                              /\ NameFree(h)
    BY OnlyCommitsInsert
  <2>2. purged[h]
    BY <2>1 DEF NameFree, IInv, RowsExist
  <2> QED
    BY <2>1, <2>2 DEF IInv, CoolingWasOvertaken
<1> QED
  BY <1>1, Invariance, PTL DEF Spec, CooldownBrokenOnlyInRace
=============================================================================
