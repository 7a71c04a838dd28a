---------------------------- MODULE SessionsProofs ---------------------------
(***************************************************************************)
(* The safety properties of Sessions, for any devices, tokens and number   *)
(* of concurrent requests.                                                 *)
(*                                                                         *)
(* The argument is about the lock on the device's row: all tokens of a     *)
(* family belong to one device, so while a handler is between the snapshot *)
(* of its UPDATE and its commit nobody adds a token to the family, and the *)
(* rows it has found are the whole family.  Without that lock a successor  *)
(* that is issued meanwhile would survive the revocation.                  *)
(***************************************************************************)
EXTENDS Sessions, FiniteSetTheorems, TLAPS

Labels == {"idle", "open"} \cup Rotating

\* The types of the variables.
SessionsTypeOK ==
    /\ challenged \in [Challenges -> Devices \cup {None}]
    /\ consumed \subseteq Challenges
    /\ family \in [Tokens -> Families \cup {None}]
    /\ device \in [Tokens -> Devices \cup {None}]
    /\ successor \in [Tokens -> Tokens \cup {None}]
    /\ used \subseteq Tokens
    /\ revoked \subseteq Tokens
    /\ pc \in [Handlers -> Labels]
    /\ req \in [Handlers -> Challenges \cup Tokens \cup {None}]
    /\ matched \in [Handlers -> SUBSET Tokens]
    /\ openedBy \in [Families -> Challenges \cup {None}]
    /\ reused \subseteq Tokens

\* A handler works on a row that exists.
RequestsExist ==
    \A h \in Handlers :
        /\ pc[h] = "open" => req[h] \in Challenges \ consumed /\ challenged[req[h]] # None
        /\ pc[h] \in Rotating => req[h] \in Issued

\* Row locks exclude each other: on a challenge, on a token, on a device.
LocksExclude ==
    \A h, k \in Handlers :
        /\ pc[h] = "open" /\ pc[k] = "open" /\ req[h] = req[k] => h = k
        /\ pc[h] \in Rotating /\ pc[k] \in Rotating /\ req[h] = req[k] => h = k
        /\ /\ pc[h] \in Rotating \ {"lock_device"} /\ pc[k] \in Rotating \ {"lock_device"}
           /\ device[req[h]] = device[req[k]]
           => h = k

\* Tokens of one family belong to one device, and the family was opened.
FamiliesHaveOneDevice ==
    /\ \A t \in Issued : openedBy[family[t]] # None
    /\ \A t, u \in Issued : family[t] = family[u] => device[t] = device[u]

\* Used tokens have a successor, in the family.
SuccessorsStayInFamily ==
    \A t \in Tokens : successor[t] # None =>
        /\ t \in Issued /\ t \in used
        /\ successor[t] \in Issued /\ family[successor[t]] = family[t]

\* The handler that issues a successor has a token that is still good.
IssuingIsGood == \A h \in Handlers : pc[h] = "issue" => ~Spent(req[h])

\* What the UPDATE has found is still the whole family when it commits.
SnapshotIsCurrent ==
    \A h \in Handlers : pc[h] = "revoke" => matched[h] = FamilyRows(req[h])

\* A family is revoked as a whole.
RevokedTogether ==
    /\ used \subseteq Issued
    /\ revoked \subseteq Issued
    /\ \A t, u \in Issued : family[t] = family[u] /\ t \in revoked => u \in revoked

\* A family has exactly one token that was not rotated.
OneUnrotated ==
    /\ \A f \in Families : openedBy[f] # None =>
           \E t \in Issued \ used : family[t] = f
    /\ \A t, u \in Issued \ used : family[t] = family[u] => t = u

\* A challenge that opened a family is consumed.
OpenersAreConsumed ==
    \A f \in Families : openedBy[f] # None => openedBy[f] \in consumed

IInv ==
    /\ SessionsTypeOK
    /\ RequestsExist
    /\ LocksExclude
    /\ FamiliesHaveOneDevice
    /\ SuccessorsStayInFamily
    /\ IssuingIsGood
    /\ SnapshotIsCurrent
    /\ RevokedTogether
    /\ OneUnrotated
    /\ OpenersAreConsumed
    /\ ChallengeOpensOneFamily
    /\ reused \subseteq revoked

-----------------------------------------------------------------------------
\* Empty tables and no request.
LEMMA InitIInv == Init => IInv
BY NoneAssumption DEF Init, IInv, SessionsTypeOK, RequestsExist, LocksExclude,
   FamiliesHaveOneDevice, SuccessorsStayInFamily, IssuingIsGood, SnapshotIsCurrent,
   RevokedTogether, OneUnrotated, OpenersAreConsumed, ChallengeOpensOneFamily, Issued,
   Labels, Rotating

\* Every step of every handler, and of the environment, preserves the invariant.
LEMMA NextIInv == IInv /\ [Next]_vars => IInv'
<1> SUFFICES ASSUME IInv, [Next]_vars PROVE IInv'
  OBVIOUS
<1> USE NoneAssumption
<1> USE DEF IInv, SessionsTypeOK, RequestsExist, LocksExclude, FamiliesHaveOneDevice,
        SuccessorsStayInFamily, IssuingIsGood, SnapshotIsCurrent, RevokedTogether,
        OneUnrotated, OpenersAreConsumed, ChallengeOpensOneFamily, Issued, FamilyRows,
        Spent, Labels, Rotating, challenges, tokens, handlers, history
<1>1. ASSUME NEW d \in Devices, RegisterAccountDevice(d)
      PROVE  IInv'
  BY <1>1 DEF RegisterAccountDevice
<1>2. ASSUME NEW c \in Challenges, NEW d \in Devices, BeginChallenge(c, d)
      PROVE  IInv'
  BY <1>2 DEF BeginChallenge
<1>3. ASSUME NEW c \in Challenges, ChallengeExpires(c)
      PROVE  IInv'
  BY <1>3 DEF ChallengeExpires
<1>4. ASSUME NEW t \in Tokens, TokenExpires(t)
      PROVE  IInv'
  BY <1>4 DEF TokenExpires
<1>5. ASSUME NEW h \in Handlers, NEW c \in Challenges, CompleteLock(h, c)
      PROVE  IInv'
  BY <1>5 DEF CompleteLock, ChallengeHolders
<1>6. ASSUME NEW h \in Handlers, NEW f \in Families, NEW new \in Tokens,
             CompleteChallenge(h, f, new)
      PROVE  IInv'
  BY <1>6 DEF CompleteChallenge, IssueTokens, Ends, DeviceHolders
<1>7. ASSUME NEW h \in Handlers, NEW t \in Tokens, RotateLockToken(h, t)
      PROVE  IInv'
  BY <1>7 DEF RotateLockToken, TokenHolders
<1>8. ASSUME NEW h \in Handlers, RotateLockDevice(h)
      PROVE  IInv'
  BY <1>8 DEF RotateLockDevice, DeviceHolders
<1>9. ASSUME NEW h \in Handlers, RotateMatch(h)
      PROVE  IInv'
  BY <1>9 DEF RotateMatch
<1>10. ASSUME NEW h \in Handlers, RotateRevoke(h)
       PROVE  IInv'
  BY <1>10 DEF RotateRevoke, TokenHolders, Ends
<1>11. ASSUME NEW h \in Handlers, NEW new \in Tokens, RotateIssue(h, new)
       PROVE  IInv'
  <2> DEFINE t == req[h]
  <2>1. /\ t \in Issued /\ t \notin used \cup revoked /\ new \notin Issued /\ new # t
        /\ family[t] \in Families /\ Issued' = Issued \cup {new}
    BY <1>11 DEF RotateIssue, IssueTokens
  <2>2. SessionsTypeOK' /\ RequestsExist' /\ LocksExclude' /\ FamiliesHaveOneDevice'
    BY <1>11, <2>1 DEF RotateIssue, IssueTokens, Ends
  <2>3. SuccessorsStayInFamily' /\ IssuingIsGood' /\ RevokedTogether'
    BY <1>11, <2>1 DEF RotateIssue, IssueTokens, Ends
  <2>4. SnapshotIsCurrent'
    BY <1>11, <2>1 DEF RotateIssue, IssueTokens, Ends
  <2>5. OneUnrotated'
    BY <1>11, <2>1 DEF RotateIssue, IssueTokens, Ends
  <2>6. OpenersAreConsumed' /\ ChallengeOpensOneFamily' /\ (reused \subseteq revoked)'
    BY <1>11 DEF RotateIssue
  <2> QED
    BY <2>2, <2>3, <2>4, <2>5, <2>6
<1>12. ASSUME NEW h \in Handlers, HandlerDies(h)
       PROVE  IInv'
  BY <1>12 DEF HandlerDies, Ends
<1>13. CASE UNCHANGED vars
  BY <1>13 DEF vars
<1> HIDE DEF IInv
<1> QED
  BY <1>1, <1>2, <1>3, <1>4, <1>5, <1>6, <1>7, <1>8, <1>9, <1>10, <1>11, <1>12,
     <1>13 DEF Next, Complete, Rotate

\* The invariant holds in every reachable state.
THEOREM Invariance == Spec => []IInv
BY InitIInv, NextIInv, PTL DEF Spec

-----------------------------------------------------------------------------
\* Once a token was answered with TokenReuse it is revoked together with everything
\* that was or is being rotated out of it.
THEOREM ReuseRevokes == Spec => []ReuseRevokesDescendants
<1>1. IInv => ReuseRevokesDescendants
  BY DEF IInv, ReuseRevokesDescendants, SessionsTypeOK, SuccessorsStayInFamily,
     RevokedTogether
<1> QED
  BY <1>1, Invariance, PTL

\* Concurrent requests with one token neither fork a session nor end it without
\* revoking it.
THEOREM OneTokenOrNone == Spec => []WholeFamilyOrOneToken
<1>1. IInv => WholeFamilyOrOneToken
  <2> SUFFICES ASSUME IInv, NEW f \in Families, openedBy[f] # None,
                      NEW u \in Issued, family[u] = f, u \notin revoked
               PROVE  Cardinality(Usable(f)) = 1
    BY DEF WholeFamilyOrOneToken
  <2>1. PICK t \in Issued \ used : family[t] = f
    BY DEF IInv, OneUnrotated
  <2>2. Usable(f) = {t}
    BY <2>1 DEF Usable, IInv, RevokedTogether, OneUnrotated
  <2> QED
    BY <2>2, FS_Singleton
<1> QED
  BY <1>1, Invariance, PTL

\* However many requests carry the signature of a challenge, it opens one session.
THEOREM OneSessionPerChallenge == Spec => []ChallengeOpensOneFamily
<1>1. IInv => ChallengeOpensOneFamily
  BY DEF IInv
<1> QED
  BY <1>1, Invariance, PTL
=============================================================================
