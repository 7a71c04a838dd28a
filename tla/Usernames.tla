------------------------------ MODULE Usernames -----------------------------
(***************************************************************************)
(* Usernames of the server: claim, change and release with a cooldown,     *)
(* services/core-api/src/lib.rs over PostgreSQL at READ COMMITTED.         *)
(*                                                                         *)
(* claim_username and change_username are split at the statements another  *)
(* handler can get in between; release_username works under the lock of    *)
(* its row and is one action.  Reads see what is committed.  A handler     *)
(* that dies, or whose INSERT meets a unique index, loses its transaction. *)
(* Names are canonical and not reserved: the others are refused before     *)
(* anything is read.                                                       *)
(***************************************************************************)
EXTENDS Naturals, FiniteSets

CONSTANTS
    Accounts,       \* registered accounts
    Names,          \* canonical usernames
    Handlers,       \* concurrent request handlers
    None            \* the absent value

ASSUME NoneAssumption == None \notin Accounts \cup Names \cup Handlers

VARIABLES
    owner,          \* usernames.account_id, None without a row
    released,       \* names whose row has released_at
    cooling,        \* names whose release_after lies in the future
    pc,             \* what each handler is about to do
    account,        \* the account each handler works for
    name,           \* the name it asks for
    current,        \* change_username: the account's name it has read
    purged,         \* has its DELETE removed the row of its name?
    overtaken       \* was its name released after it was found free? (history)

rows == <<owner, released, cooling>>
handlers == <<pc, account, name, current, purged, overtaken>>
vars == <<rows, handlers>>

Live(a) == {n \in Names \ released : owner[n] = a}

Init ==
    /\ owner = [n \in Names |-> None]
    /\ released = {}
    /\ cooling = {}
    /\ pc = [h \in Handlers |-> "idle"]
    /\ account = [h \in Handlers |-> None]
    /\ name = [h \in Handlers |-> None]
    /\ current = [h \in Handlers |-> None]
    /\ purged = [h \in Handlers |-> FALSE]
    /\ overtaken = [h \in Handlers |-> FALSE]

-----------------------------------------------------------------------------
(* Locks and unique indexes                                                *)

\* A handler other than h has locked or deleted the row of n.
Locked(n, h) ==
    n # None /\ \E k \in Handlers \ {h} :
        \/ pc[k] \in {"check", "purge", "swap"} /\ current[k] = n
        \/ purged[k] /\ name[k] = n

\* The primary key admits a row for h's name, given h's own DELETE.
NameFree(h) == owner[name[h]] = None \/ purged[h]

\* The unique index on active names admits one more for h's account, given the one
\* h releases in the same transaction.
NoAccountIndex(h) == TRUE
AccountFree(h) == Live(account[h]) \subseteq {current[h]}

Begin(h, a, n, step) ==
    /\ pc[h] = "idle"
    /\ pc' = [pc EXCEPT ![h] = step]
    /\ account' = [account EXCEPT ![h] = a]
    /\ name' = [name EXCEPT ![h] = n]

Ends(h) ==
    /\ pc' = [pc EXCEPT ![h] = "idle"]
    /\ account' = [account EXCEPT ![h] = None]
    /\ name' = [name EXCEPT ![h] = None]
    /\ current' = [current EXCEPT ![h] = None]
    /\ purged' = [purged EXCEPT ![h] = FALSE]

\* Handlers that have found n free and not yet inserted it.
Relying(n) == {h \in Handlers : pc[h] \in {"purge", "swap"} /\ name[h] = n}

\* h inserts its name and commits; the names in old are released with a cooldown.
Commits(h, old) ==
    /\ owner' = [owner EXCEPT ![name[h]] = account[h]]
    /\ released' = (released \ {name[h]}) \cup old
    /\ cooling' = cooling \cup old
    /\ overtaken' = [k \in Handlers |->
           k # h /\ (overtaken[k] \/ \E n \in old : k \in Relying(n))]
    /\ Ends(h)

-----------------------------------------------------------------------------
(* claim_username                                                          *)

\* The DELETE of a released row whose cooldown is over.
ClaimDelete(h, a, n) ==
    LET found == n \in released \ cooling IN
    /\ Begin(h, a, n, "claim")
    /\ found => ~Locked(n, h)
    /\ purged' = [purged EXCEPT ![h] = found]
    /\ UNCHANGED <<rows, current, overtaken>>

\* The INSERT, ON CONFLICT DO NOTHING, and the commit.
ClaimInsert(h) ==
    /\ pc[h] = "claim"
    /\ ~Locked(name[h], h)
    /\ NameFree(h)
    /\ AccountFree(h)
    /\ Commits(h, {})

-----------------------------------------------------------------------------
(* change_username                                                         *)

\* The locking read of the account's name takes its snapshot ...
ChangeBegin(h, a, n) ==
    /\ Begin(h, a, n, "lock")
    /\ \/ /\ Live(a) = {}
          /\ UNCHANGED current
       \/ \E x \in Live(a) : current' = [current EXCEPT ![h] = x]
    /\ UNCHANGED <<rows, purged, overtaken>>

\* ... and gets the row when nobody else has it locked; a row that was released in
\* the meantime is not returned.  Asking for the name one has ends the request.
ChangeLock(h) ==
    LET x == current[h]
        kept == IF x \in Live(account[h]) THEN x ELSE None IN
    /\ pc[h] = "lock"
    /\ ~Locked(x, h)
    /\ kept # name[h]
    /\ current' = [current EXCEPT ![h] = kept]
    /\ pc' = [pc EXCEPT ![h] = "check"]
    /\ UNCHANGED <<rows, account, name, purged, overtaken>>

NotInUse(n) == owner[n] = None \/ n \in released
Available(n) == owner[n] = None \/ n \in released \ cooling

ChangeCheck(h) ==
    /\ pc[h] = "check"
    /\ Available(name[h])
    /\ pc' = [pc EXCEPT ![h] = "purge"]
    /\ UNCHANGED <<rows, account, name, current, purged, overtaken>>

AnyRow(n) == owner[n] # None
Purgeable(n) == n \in released

\* The DELETE of a released row, whatever its cooldown.
ChangePurge(h) ==
    /\ pc[h] = "purge"
    /\ Purgeable(name[h]) => ~Locked(name[h], h)
    /\ purged' = [purged EXCEPT ![h] = Purgeable(name[h])]
    /\ pc' = [pc EXCEPT ![h] = "swap"]
    /\ UNCHANGED <<rows, account, name, current, overtaken>>

\* Release the old name, insert the new one, commit.
ChangeSwap(h) ==
    /\ pc[h] = "swap"
    /\ ~Locked(name[h], h)
    /\ NameFree(h)
    /\ AccountFree(h)
    /\ Commits(h, {current[h]} \ {None})

-----------------------------------------------------------------------------
(* release_username, the clock, failures                                   *)

ReleaseUsername(n) ==
    /\ owner[n] # None /\ n \notin released
    /\ ~Locked(n, None)
    /\ released' = released \cup {n}
    /\ cooling' = cooling \cup {n}
    /\ overtaken' = [h \in Handlers |-> overtaken[h] \/ h \in Relying(n)]
    /\ UNCHANGED <<owner, pc, account, name, current, purged>>

CooldownEnds(n) ==
    /\ n \in cooling
    /\ cooling' = cooling \ {n}
    /\ UNCHANGED <<owner, released, handlers>>

\* The handler or its connection dies, the name is not available, or an INSERT
\* meets a unique index.
HandlerDies(h) ==
    /\ pc[h] # "idle"
    /\ Ends(h)
    /\ overtaken' = [overtaken EXCEPT ![h] = FALSE]
    /\ UNCHANGED rows

Claim(h) ==
    \/ \E a \in Accounts, n \in Names : ClaimDelete(h, a, n)
    \/ ClaimInsert(h)

Change(h) ==
    \/ \E a \in Accounts, n \in Names : ChangeBegin(h, a, n)
    \/ ChangeLock(h)
    \/ ChangeCheck(h)
    \/ ChangePurge(h)
    \/ ChangeSwap(h)

Next ==
    \/ \E h \in Handlers : Claim(h) \/ Change(h) \/ HandlerDies(h)
    \/ \E n \in Names : ReleaseUsername(n) \/ CooldownEnds(n)

Spec == Init /\ [][Next]_vars

-----------------------------------------------------------------------------
(* Properties                                                              *)

\* "one active alias per account" (docs/BACKEND_API.md): concurrent claims and
\* changes of one account leave it one name (claim_username, change_username,
\* usernames_account_active_idx).
OneNamePerAccount == \A a \in Accounts : Cardinality(Live(a)) <= 1

\* A name passes from one account to another only through a release: no claim and
\* no change takes a name that somebody has, however its steps interleave with
\* those of the holder (change_username, :383-405).
NoNameTaken ==
    [][\A n \in Names : owner[n] # None /\ n \notin released /\ n \notin released'
           => owner'[n] = owner[n]]_vars

\* A released name is given out before its cooldown is over only by a change that
\* had found the name free before it was released (change_username, :383-389: the
\* check reads the cooldown, the DELETE does not).
CooldownBrokenOnlyInRace ==
    [][\A n \in Names : n \in released \cap cooling /\ n \notin released'
           => \E h \in Handlers : name[h] = n /\ overtaken[h]]_vars
=============================================================================
