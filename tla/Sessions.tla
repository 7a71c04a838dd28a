------------------------------- MODULE Sessions -----------------------------
(***************************************************************************)
(* Sessions of the server: challenges and rotating refresh tokens,         *)
(* services/core-api/src/lib.rs over PostgreSQL at READ COMMITTED.         *)
(*                                                                         *)
(* A device signs a challenge and receives the first refresh token of a    *)
(* new family; each rotation uses a token up and adds its successor to the *)
(* family; presenting a token that was used or revoked revokes the family. *)
(*                                                                         *)
(* SELECT ... FOR UPDATE on a join locks the rows of both tables, one      *)
(* after the other: first the challenge or the token, then its device.     *)
(* The locks are read off the handlers' program counters.  The UPDATE of a *)
(* family takes the rows of its statement's snapshot and waits for those   *)
(* that are locked.  Handlers that wait for each other are resolved by     *)
(* PostgreSQL, which makes one of them die.                                *)
(*                                                                         *)
(* Signatures that do not verify and rows that do not exist end a request  *)
(* without a write.  Every row of refresh_sessions has a row in            *)
(* access_sessions, inserted with it and never changed, so the second      *)
(* table has no variable.  Nothing in the repository sets                  *)
(* devices.revoked_at.                                                     *)
(***************************************************************************)
EXTENDS Naturals, FiniteSets

CONSTANTS
    Devices,        \* devices with a certificate of their account
    Challenges,     \* challenge identifiers, each drawn at most once
    Tokens,         \* refresh tokens, each drawn at most once
    Families,       \* family identifiers, each drawn at most once
    Handlers,       \* concurrent request handlers
    None            \* the absent value

ASSUME NoneAssumption ==
    None \notin Devices \cup Challenges \cup Tokens \cup Families

VARIABLES
    registered,     \* devices
    challenged,     \* auth_challenges.device_id, None without a row
    consumed,       \* challenges with consumed_at
    staleChallenges,\* challenges whose expires_at has passed
    family,         \* refresh_sessions.family_id, None without a row
    device,         \* refresh_sessions.device_id, None without a row
    successor,      \* refresh_sessions.replaced_by_hash
    used,           \* tokens with used_at
    revoked,        \* tokens with revoked_at
    staleTokens,    \* tokens whose expires_at has passed
    pc,             \* what each handler is about to do
    req,            \* the challenge or token each handler works on
    matched,        \* the rows a handler's UPDATE has found
    openedBy,       \* the challenge that opened each family (history)
    reused          \* tokens answered with TokenReuse (history)

challenges == <<registered, challenged, consumed, staleChallenges>>
tokens == <<family, device, successor, used, revoked, staleTokens>>
handlers == <<pc, req, matched>>
history == <<openedBy, reused>>
vars == <<challenges, tokens, handlers, history>>

Issued == {t \in Tokens : family[t] # None}

Rotating == {"lock_device", "match", "revoke", "issue"}

Init ==
    /\ registered = {}
    /\ challenged = [c \in Challenges |-> None]
    /\ consumed = {}
    /\ staleChallenges = {}
    /\ family = [t \in Tokens |-> None]
    /\ device = [t \in Tokens |-> None]
    /\ successor = [t \in Tokens |-> None]
    /\ used = {}
    /\ revoked = {}
    /\ staleTokens = {}
    /\ pc = [h \in Handlers |-> "idle"]
    /\ req = [h \in Handlers |-> None]
    /\ matched = [h \in Handlers |-> {}]
    /\ openedBy = [f \in Families |-> None]
    /\ reused = {}

-----------------------------------------------------------------------------
(* Locks                                                                   *)

\* Handlers that have the row of challenge c locked.
NoChallengeLock(c) == {}
ChallengeHolders(c) == {h \in Handlers : pc[h] = "open" /\ req[h] = c}

\* Handlers that have the row of token t locked.
TokenHolders(t) == {h \in Handlers : pc[h] \in Rotating /\ req[h] = t}

\* Handlers that have the row of device d locked.
NoDeviceLock(d) == {}
DeviceHolders(d) ==
    {h \in Handlers : pc[h] \in Rotating \ {"lock_device"} /\ device[req[h]] = d}

\* The end of a handler's transaction.
Ends(h) ==
    /\ pc' = [pc EXCEPT ![h] = "idle"]
    /\ req' = [req EXCEPT ![h] = None]
    /\ matched' = [matched EXCEPT ![h] = {}]

\* issue_tokens: a new row for device d in family f.
IssueTokens(new, d, f) ==
    /\ family' = [family EXCEPT ![new] = f]
    /\ device' = [device EXCEPT ![new] = d]

-----------------------------------------------------------------------------
(* register_account_device, begin_challenge and complete_challenge         *)

\* One transaction.  An account id is derived from its root key, so the account's row
\* is this device's own or agrees with it; of two registrations of one device the
\* second fails, at the check or at the primary key of devices.
RegisterAccountDevice(d) ==
    /\ d \notin registered
    /\ registered' = registered \cup {d}
    /\ UNCHANGED <<challenged, consumed, staleChallenges, tokens, handlers, history>>

BeginChallenge(c, d) ==
    /\ d \in registered
    /\ challenged[c] = None
    /\ challenged' = [challenged EXCEPT ![c] = d]
    /\ UNCHANGED <<registered, consumed, staleChallenges, tokens, handlers, history>>

\* The locking read of the challenge, and the checks on what it returns.
CompleteLock(h, c) ==
    /\ pc[h] = "idle"
    /\ challenged[c] # None
    /\ ChallengeHolders(c) = {}
    /\ c \notin consumed \cup staleChallenges
    /\ pc' = [pc EXCEPT ![h] = "open"]
    /\ req' = [req EXCEPT ![h] = c]
    /\ UNCHANGED <<challenges, tokens, matched, history>>

\* With the device's row locked too: consume, open a family, commit.
CompleteChallenge(h, f, new) ==
    LET c == req[h] IN
    /\ pc[h] = "open"
    /\ DeviceHolders(challenged[c]) = {}
    /\ openedBy[f] = None
    /\ new \notin Issued
    /\ consumed' = consumed \cup {c}
    /\ IssueTokens(new, challenged[c], f)
    /\ openedBy' = [openedBy EXCEPT ![f] = c]
    /\ Ends(h)
    /\ UNCHANGED <<registered, challenged, staleChallenges, successor, used, revoked,
                   staleTokens, reused>>

-----------------------------------------------------------------------------
(* rotate_refresh                                                          *)

RevokedOnly(t) == t \in revoked
Spent(t) == t \in used \cup revoked

\* The locking read reaches the token's row.  A token that is merely expired
\* ends the request.
RotateLockToken(h, t) ==
    /\ pc[h] = "idle"
    /\ t \in Issued
    /\ TokenHolders(t) = {}
    /\ Spent(t) \/ t \notin staleTokens
    /\ pc' = [pc EXCEPT ![h] = "lock_device"]
    /\ req' = [req EXCEPT ![h] = t]
    /\ UNCHANGED <<challenges, tokens, matched, history>>

\* The locking read goes on to the device's row and returns.
RotateLockDevice(h) ==
    /\ pc[h] = "lock_device"
    /\ DeviceHolders(device[req[h]]) = {}
    /\ pc' = [pc EXCEPT ![h] = IF Spent(req[h]) THEN "match" ELSE "issue"]
    /\ UNCHANGED <<challenges, tokens, req, matched, history>>

\* The rows of the family in the snapshot of the UPDATE.
FamilyRows(t) == {u \in Issued : family[u] = family[t]}

\* The UPDATE takes its snapshot ...
RotateMatch(h) ==
    /\ pc[h] = "match"
    /\ matched' = [matched EXCEPT ![h] = FamilyRows(req[h])]
    /\ pc' = [pc EXCEPT ![h] = "revoke"]
    /\ UNCHANGED <<challenges, tokens, req, history>>

\* ... gets the locks of the rows it found, revokes them and commits.
RotateRevoke(h) ==
    /\ pc[h] = "revoke"
    /\ \A u \in matched[h] : TokenHolders(u) \subseteq {h}
    /\ revoked' = revoked \cup matched[h]
    /\ reused' = reused \cup {req[h]}
    /\ Ends(h)
    /\ UNCHANGED <<challenges, family, device, successor, used, staleTokens,
                   openedBy>>

\* The token is good: its successor joins the family, commit.
RotateIssue(h, new) ==
    LET t == req[h] IN
    /\ pc[h] = "issue"
    /\ new \notin Issued
    /\ IssueTokens(new, device[t], family[t])
    /\ used' = used \cup {t}
    /\ successor' = [successor EXCEPT ![t] = new]
    /\ Ends(h)
    /\ UNCHANGED <<challenges, revoked, staleTokens, history>>

-----------------------------------------------------------------------------
(* Environment                                                             *)

ChallengeExpires(c) ==
    /\ challenged[c] # None
    /\ c \notin staleChallenges \cup consumed
    /\ staleChallenges' = staleChallenges \cup {c}
    /\ UNCHANGED <<registered, challenged, consumed, tokens, handlers, history>>

TokenExpires(t) ==
    /\ t \in Issued \ (staleTokens \cup used \cup revoked)
    /\ staleTokens' = staleTokens \cup {t}
    /\ UNCHANGED <<challenges, family, device, successor, used, revoked,
                   handlers, history>>

\* The process, its connection or, in a deadlock, the database gives up; so does
\* a request whose signature does not verify.
HandlerDies(h) ==
    /\ pc[h] # "idle"
    /\ Ends(h)
    /\ UNCHANGED <<challenges, tokens, history>>

Complete(h) ==
    \/ \E c \in Challenges : CompleteLock(h, c)
    \/ \E f \in Families, new \in Tokens : CompleteChallenge(h, f, new)

Rotate(h) ==
    \/ \E t \in Tokens : RotateLockToken(h, t)
    \/ RotateLockDevice(h)
    \/ RotateMatch(h)
    \/ RotateRevoke(h)
    \/ \E new \in Tokens : RotateIssue(h, new)

Next ==
    \/ \E d \in Devices : RegisterAccountDevice(d)
    \/ \E c \in Challenges, d \in Devices : BeginChallenge(c, d)
    \/ \E c \in Challenges : ChallengeExpires(c)
    \/ \E t \in Tokens : TokenExpires(t)
    \/ \E h \in Handlers : Complete(h) \/ Rotate(h) \/ HandlerDies(h)

Spec == Init /\ [][Next]_vars

-----------------------------------------------------------------------------
(* Properties                                                              *)

Usable(f) == {t \in Issued \ (used \cup revoked) : family[t] = f}

\* "reuse revokes the token family" (docs/BACKEND_API.md): once a request has
\* been answered TokenReuse, its token and everything ever rotated out of it are
\* revoked, including a successor that another handler was issuing at that moment
\* (rotate_refresh, :306-314).
ReuseRevokesDescendants ==
    /\ reused \subseteq revoked
    /\ \A t \in revoked : successor[t] # None => successor[t] \in revoked

\* A family is revoked as a whole or has exactly one token that can still be
\* rotated: concurrent requests with one token neither fork the session nor leave
\* its owner without a token (rotate_refresh, :298-339).
WholeFamilyOrOneToken ==
    \A f \in Families : openedBy[f] # None =>
        \/ \A t \in Issued : family[t] = f => t \in revoked
        \/ Cardinality(Usable(f)) = 1

\* A challenge opens one session, however many requests carry its signature at
\* the same time (complete_challenge, :259-296).
ChallengeOpensOneFamily ==
    \A f, g \in Families :
        openedBy[f] # None /\ openedBy[f] = openedBy[g] => f = g
=============================================================================
