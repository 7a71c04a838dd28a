------------------------ MODULE DeliveryServiceProofs ------------------------
(***************************************************************************)
(* The safety properties of DeliveryService, for any groups, devices,      *)
(* uploads and number of concurrent handlers.                              *)
(*                                                                         *)
(* Cursors are drawn in one order and committed in another, so each        *)
(* property is a statement about drawn cursors as well: those in flight    *)
(* are neither in the table nor expired, no two handlers have the same,    *)
(* and one that a reader has moved past was recorded as overtaken.         *)
(***************************************************************************)
EXTENDS DeliveryService, FiniteSetTheorems, WellFoundedInduction, TLAPS

Uploading == {"dup", "draw", "insert", "commit"}
Labels == {"idle", "advance"} \cup Uploading

\* The types of the variables.
DeliveryTypeOK ==
    /\ scenario \in Scenarios
    /\ role \in [Groups \X Devices -> -2 .. 2]
    /\ \A e \in events : e.cursor \in Nat /\ e.upload \in scenario.uploads
    /\ lastCursor \in Nat
    /\ expired \subseteq Nat
    /\ position \in [Groups \X Readers -> Int]
    /\ pc \in [Handlers -> Labels]
    /\ DOMAIN req = Handlers
    /\ drawn \in [Handlers -> Nat]
    /\ seen \in [Handlers -> Int]
    /\ after \in [Scopes \X Readers -> Nat]
    /\ DOMAIN got = Readers
    /\ DOMAIN earlier = Groups \X Devices

\* What each handler works on.
RequestsAreTyped ==
    \A h \in Handlers :
        /\ pc[h] \in Uploading => req[h] \in scenario.uploads
        /\ pc[h] = "advance" => req[h].key \in Groups \X Readers /\ req[h].cursor \in Nat
        /\ drawn[h] # 0 <=> pc[h] \in {"insert", "commit"}

\* Everything the identity column has given out lies at or below its last value.
CursorsWereDrawn ==
    /\ \A e \in events : e.cursor <= lastCursor
    /\ \A c \in expired : c <= lastCursor
    /\ \A h \in Handlers : drawn[h] <= lastCursor
    /\ \A p \in Scopes \X Readers : after[p] <= lastCursor

\* A cursor names one row, and one in flight names none yet.
CursorsAreUnique ==
    /\ \A e, f \in events : e.cursor = f.cursor => e = f
    /\ \A h \in Handlers : drawn[h] # 0 =>
           /\ drawn[h] \notin Cursors(events)
           /\ drawn[h] \notin expired
           /\ \A k \in Handlers : drawn[k] = drawn[h] => k = h

\* The unique index on (author, client_message_id), over committed rows and rows of
\* open transactions.
KeysAreUnique ==
    /\ \A e, f \in events : SameKey(e.upload, f.upload) => e = f
    /\ \A h \in Handlers : pc[h] = "commit" =>
           /\ \A e \in events : ~SameKey(e.upload, req[h])
           /\ \A k \in Handlers : pc[k] = "commit" /\ SameKey(req[h], req[k]) => k = h

\* An answer names the row of its key until that row expires.
AckedRowExists ==
    \A a \in acked :
        \/ a.cursor \in expired
        \/ \E e \in events : e.cursor = a.cursor /\ SameKey(e.upload, a.upload)

\* A cursor in flight that a reader has moved past was overtaken.
PassedWasOvertaken ==
    \A h \in Handlers, p \in Scopes \X Readers :
        drawn[h] # 0 /\ drawn[h] <= after[p] => drawn[h] \in overtaken

\* What a reader of a group's log has moved past.
PassedInGroup ==
    \A g \in Groups, d \in Readers : \A e \in events :
        e.upload.group = g /\ e.cursor <= after[<<g, d>>] =>
            e \in got[d] \/ e.cursor \in expired \cup overtaken

\* What a reader of all its groups has moved past.
PassedGlobally ==
    \A d \in Readers : \A e \in events :
        Active(e.upload.group, d) /\ e.cursor <= after[<<Global, d>>] =>
            \/ e \in got[d]
            \/ e.cursor \in expired \cup overtaken \cup earlier[<<e.upload.group, d>>]

\* A group that has events, or soon will have, has had members.
EventsHaveMembers ==
    \A g \in Groups :
        \/ \E d \in Devices : role[<<g, d>>] # NoMember
        \/ /\ \A e \in events : e.upload.group # g
           /\ \A h \in Handlers : pc[h] \in Uploading => req[h].group # g

\* FOR UPDATE: a position that was read is still there, and not past the request.
LockedPosition ==
    \A h \in Handlers : pc[h] = "advance" /\ seen[h] # NoRow =>
        /\ position[req[h].key] = seen[h]
        /\ req[h].cursor >= seen[h]

IInv ==
    /\ DeliveryTypeOK
    /\ RequestsAreTyped
    /\ CursorsWereDrawn
    /\ CursorsAreUnique
    /\ KeysAreUnique
    /\ AckedRowExists
    /\ PassedWasOvertaken
    /\ PassedInGroup
    /\ PassedGlobally
    /\ EventsHaveMembers
    /\ LockedPosition
    /\ PositionsStayReachable

-----------------------------------------------------------------------------
\* A bounded set of natural numbers that is not empty has a greatest element.
LEMMA MaxOfBounded ==
    ASSUME NEW S \in SUBSET Nat, S # {}, NEW b \in Nat, \A n \in S : n <= b
    PROVE  Max(S) \in S /\ \A n \in S : n <= Max(S)
<1> DEFINE Bounds == {k \in Nat : \A n \in S : n <= k}
           Less == {ss \in Nat \X Nat : ss[1] < ss[2]}
<1>1. IsWellFoundedOn(Less, Nat)
  BY NatLessThanWellFounded, Zenon DEF OpToRel
<1>2. Bounds \subseteq Nat /\ Bounds # {}
  OBVIOUS
<1>3. PICK k \in Bounds : \A j \in Bounds : ~(<<j, k>> \in Less)
  <2> HIDE DEF Less, Bounds
  <2> QED
    BY <1>1, <1>2, WFMin
<1>4. \A j \in Bounds : ~(j < k)
  BY <1>3
<1>5. k \in S
  <2> SUFFICES ASSUME k \notin S PROVE FALSE
    OBVIOUS
  <2>1. \A n \in S : n < k
    OBVIOUS
  <2>2. PICK n0 \in S : TRUE
    OBVIOUS
  <2>3. k - 1 \in Nat /\ \A n \in S : n <= k - 1
    BY <2>1, <2>2
  <2>4. k - 1 \in Bounds
    BY <2>3
  <2> QED
    BY <1>4, <2>4
<1>6. \E x \in S : \A y \in S : x >= y
  BY <1>5
<1> QED
  BY <1>6 DEF Max

\* The page that is served holds every candidate up to its last cursor.
LEMMA PageIsPrefix ==
    ASSUME IInv, NEW d, NEW s, NEW page \in Pages(Candidates(d, s)), page # {}
    PROVE  /\ page \subseteq Candidates(d, s)
           /\ Max(Cursors(page)) \in Nat
           /\ Max(Cursors(page)) <= lastCursor
           /\ \E e \in page : e.cursor = Max(Cursors(page))
           /\ \A e \in Candidates(d, s) : e.cursor <= Max(Cursors(page)) => e \in page
<1>1. page \subseteq Candidates(d, s)
  BY DEF Pages
<1>2. page \subseteq events
  BY <1>1 DEF Candidates, InScope
<1>3. /\ Cursors(page) \in SUBSET Nat /\ Cursors(page) # {}
      /\ \A n \in Cursors(page) : n <= lastCursor
  BY <1>2 DEF Cursors, IInv, DeliveryTypeOK, CursorsWereDrawn
<1>4. lastCursor \in Nat
  BY DEF IInv, DeliveryTypeOK
<1>5. Max(Cursors(page)) \in Cursors(page)
  BY <1>3, <1>4, MaxOfBounded
<1>6. \A e \in Candidates(d, s) \ page : \A f \in page : f.cursor < e.cursor
  BY DEF Pages
<1>7. PICK f \in page : f.cursor = Max(Cursors(page))
  BY <1>5 DEF Cursors
<1>8. \A e \in Candidates(d, s) : e.cursor \in Nat
  BY DEF Candidates, InScope, IInv, DeliveryTypeOK
<1> QED
  BY <1>1, <1>3, <1>5, <1>6, <1>7, <1>8
-----------------------------------------------------------------------------
(* Each action preserves the invariant. *)

\* Where rows leave the log and no upload starts, its groups still have had members.
LEMMA MembersKept ==
    ASSUME EventsHaveMembers, UNCHANGED role, events' \subseteq events,
           \A k \in Handlers :
               pc'[k] \in Uploading => pc[k] \in Uploading /\ req'[k] = req[k]
    PROVE  EventsHaveMembers'
  BY DEF EventsHaveMembers

\* A group with no row has no events either: its creator has missed none.
LEMMA CreateGroupStep ==
    ASSUME IInv, NEW g \in Groups, NEW d \in Devices, CreateGroup(g, d)
    PROVE  IInv'
<1> USE DEF IInv, DeliveryTypeOK, RequestsAreTyped, membership, table, handlers, reader
<1> USE DEF Labels, Uploading, Scopes, NoMember, RemovedMember, Owner, NoRow
<1>1. DeliveryTypeOK' /\ RequestsAreTyped'
  BY DEF CreateGroup
<1>2. CursorsWereDrawn' /\ CursorsAreUnique'
  BY DEF CreateGroup, CursorsWereDrawn, CursorsAreUnique, Cursors
<1>3. KeysAreUnique' /\ AckedRowExists'
  BY DEF CreateGroup, KeysAreUnique, SameKey, AckedRowExists
<1>4. PassedWasOvertaken' /\ PassedInGroup'
  BY DEF CreateGroup, PassedWasOvertaken, PassedInGroup
<1>5. LockedPosition' /\ PositionsStayReachable'
  BY DEF CreateGroup, LockedPosition, PositionsStayReachable, Cursors, EventsOf
<1>6. PassedGlobally'
  BY ScenariosAssumption, InputsAssumption DEF CreateGroup, PassedGlobally, Active,
                                               EventsHaveMembers
<1>7. EventsHaveMembers'
  <2>1. \A q \in Groups, x \in Devices :
           role[<<q, x>>] # NoMember => role'[<<q, x>>] # NoMember
    BY DEF CreateGroup
  <2> QED
    BY <2>1 DEF CreateGroup, EventsHaveMembers
<1> QED
  BY <1>1, <1>2, <1>3, <1>4, <1>5, <1>6, <1>7

\* A device that is admitted has the log of its group before it.
LEMMA ApplyMembershipStep ==
    ASSUME IInv, NEW o \in scenario.operations, ApplyMembershipOperation(o)
    PROVE  IInv'
<1> USE DEF IInv, DeliveryTypeOK, RequestsAreTyped, membership, table, handlers, reader
<1> USE DEF Labels, Uploading, Scopes, NoMember, RemovedMember, Owner, NoRow
<1>1. RequestsAreTyped'
  BY DEF ApplyMembershipOperation
<1>2. CursorsWereDrawn' /\ CursorsAreUnique'
  BY DEF ApplyMembershipOperation, CursorsWereDrawn, CursorsAreUnique, Cursors
<1>3. KeysAreUnique' /\ AckedRowExists'
  BY DEF ApplyMembershipOperation, KeysAreUnique, SameKey, AckedRowExists
<1>4. PassedWasOvertaken' /\ PassedInGroup'
  BY DEF ApplyMembershipOperation, PassedWasOvertaken, PassedInGroup
<1>5. LockedPosition' /\ PositionsStayReachable'
  BY DEF ApplyMembershipOperation, LockedPosition, PositionsStayReachable, Cursors,
         EventsOf
<1>6. PassedGlobally'
  <2> SUFFICES ASSUME NEW x \in Readers, NEW e \in events,
                      Active(e.upload.group, x)', e.cursor <= after[<<Global, x>>]
               PROVE  \/ e \in got[x]
                      \/ e.cursor \in expired \cup overtaken
                                          \cup earlier'[<<e.upload.group, x>>]
    BY DEF ApplyMembershipOperation, PassedGlobally
  <2>1. CASE <<e.upload.group, x>> = <<o.group, o.target>>
    <3>1. e.cursor \in Cursors(EventsOf(o.group))
      BY <2>1 DEF Cursors, EventsOf
    <3> QED
      BY <2>1, <3>1, ScenariosAssumption DEF ApplyMembershipOperation
  <2>2. CASE <<e.upload.group, x>> # <<o.group, o.target>>
    BY <2>2, ScenariosAssumption, InputsAssumption
       DEF ApplyMembershipOperation, PassedGlobally, Active
  <2> QED
    BY <2>1, <2>2
<1>7. EventsHaveMembers'
  <2>1. \A q \in Groups, x \in Devices :
           role[<<q, x>>] # NoMember => role'[<<q, x>>] # NoMember
    BY ScenariosAssumption DEF ApplyMembershipOperation
  <2> QED
    BY <2>1 DEF ApplyMembershipOperation, EventsHaveMembers
<1>8. DeliveryTypeOK'
  BY ScenariosAssumption DEF ApplyMembershipOperation
<1> QED
  BY <1>1, <1>2, <1>3, <1>4, <1>5, <1>6, <1>7, <1>8

\* The author of an upload is a member.
LEMMA UploadBeginStep ==
    ASSUME IInv, NEW h \in Handlers, NEW u \in scenario.uploads, UploadBegin(h, u)
    PROVE  IInv'
<1> USE DEF IInv, DeliveryTypeOK, RequestsAreTyped, membership, table, handlers, reader
<1> USE DEF Labels, Uploading, Scopes, NoMember, RemovedMember, Owner, NoRow
<1>1. DeliveryTypeOK' /\ RequestsAreTyped'
  BY DEF UploadBegin
<1>2. CursorsWereDrawn' /\ CursorsAreUnique'
  BY DEF UploadBegin, CursorsWereDrawn, CursorsAreUnique, Cursors
<1>3. KeysAreUnique' /\ AckedRowExists'
  BY DEF UploadBegin, KeysAreUnique, SameKey, AckedRowExists
<1>4. PassedWasOvertaken' /\ PassedInGroup' /\ PassedGlobally'
  BY DEF UploadBegin, PassedWasOvertaken, PassedInGroup, PassedGlobally, Active
<1>5. LockedPosition' /\ PositionsStayReachable'
  BY DEF UploadBegin, LockedPosition, PositionsStayReachable, Cursors, EventsOf
<1>6. EventsHaveMembers'
  <2>1. u.group \in Groups /\ role[<<u.group, u.author>>] # NoMember /\ u.author \in Devices
    BY ScenariosAssumption DEF UploadBegin, Active
  <2>2. \A k \in Handlers : k # h /\ pc'[k] \in Uploading =>
           pc[k] \in Uploading /\ req'[k] = req[k]
    BY DEF UploadBegin
  <2>3. req'[h] = u /\ role' = role /\ events' = events
    BY DEF UploadBegin
  <2> SUFFICES ASSUME NEW g \in Groups, \A d \in Devices : role'[<<g, d>>] = NoMember
               PROVE  /\ \A e \in events' : e.upload.group # g
                      /\ \A k \in Handlers : pc'[k] \in Uploading => req'[k].group # g
    BY Zenon DEF EventsHaveMembers
  <2>4. /\ \A e \in events : e.upload.group # g
        /\ \A k \in Handlers : pc[k] \in Uploading => req[k].group # g
    BY <2>3, Zenon DEF EventsHaveMembers
  <2>5. u.group # g
    BY <2>1, <2>3, Zenon
  <2> QED
    BY <2>2, <2>3, <2>4, <2>5, Zenon
<1> QED
  BY <1>1, <1>2, <1>3, <1>4, <1>5, <1>6

\* An answer to a repeated upload names the row that was found.
LEMMA UploadLookupStep ==
    ASSUME IInv, NEW h \in Handlers, UploadLookup(h)
    PROVE  IInv'
<1> USE DEF IInv, DeliveryTypeOK, RequestsAreTyped, membership, table, handlers, reader
<1> USE DEF Labels, Uploading, Scopes, NoMember, RemovedMember, Owner, NoRow
<1>1. DeliveryTypeOK' /\ RequestsAreTyped'
  BY DEF UploadLookup, Finish
<1>2. CursorsWereDrawn' /\ CursorsAreUnique'
  BY DEF UploadLookup, Finish, CursorsWereDrawn, CursorsAreUnique, Cursors
<1>3. KeysAreUnique'
  BY DEF UploadLookup, Finish, KeysAreUnique, SameKey
<1>4. PassedWasOvertaken' /\ PassedInGroup' /\ PassedGlobally'
  BY DEF UploadLookup, Finish, PassedWasOvertaken, PassedInGroup, PassedGlobally,
         Active
<1>5. LockedPosition' /\ PositionsStayReachable'
  BY DEF UploadLookup, Finish, LockedPosition, PositionsStayReachable, Cursors,
         EventsOf
<1>6. AckedRowExists'
  BY DEF UploadLookup, Finish, AckedRowExists, SameKey, Row
<1>7. EventsHaveMembers'
  <2>1. \A k \in Handlers : pc'[k] \in Uploading => pc[k] \in Uploading /\ req'[k] = req[k]
    BY DEF UploadLookup, Finish
  <2> QED
    BY <2>1, MembersKept DEF UploadLookup, Finish
<1> QED
  BY <1>1, <1>2, <1>3, <1>4, <1>5, <1>6, <1>7

\* The identity column moves past every cursor there is.
LEMMA UploadDrawStep ==
    ASSUME IInv, NEW h \in Handlers, UploadDraw(h)
    PROVE  IInv'
<1> USE DEF IInv, DeliveryTypeOK, RequestsAreTyped, membership, table, handlers, reader
<1> USE DEF Labels, Uploading, Scopes, NoMember, RemovedMember, Owner, NoRow
<1>1. DeliveryTypeOK' /\ RequestsAreTyped'
  BY DEF UploadDraw
<1>2. CursorsWereDrawn'
  BY DEF UploadDraw, CursorsWereDrawn
<1>3. KeysAreUnique' /\ AckedRowExists'
  BY DEF UploadDraw, KeysAreUnique, SameKey, AckedRowExists
<1>4. PassedInGroup' /\ PassedGlobally'
  BY DEF UploadDraw, PassedInGroup, PassedGlobally, Active
<1>5. LockedPosition' /\ PositionsStayReachable'
  BY DEF UploadDraw, LockedPosition, PositionsStayReachable, Cursors, EventsOf
<1>6. CursorsAreUnique'
  <2>1. \A e \in events : e.cursor # lastCursor + 1
    BY DEF CursorsWereDrawn
  <2>2. lastCursor + 1 \notin expired
    BY DEF CursorsWereDrawn
  <2>3. \A k \in Handlers : drawn[k] # lastCursor + 1
    BY DEF CursorsWereDrawn
  <2> QED
    BY <2>1, <2>2, <2>3 DEF UploadDraw, CursorsAreUnique, Cursors
<1>7. PassedWasOvertaken'
  <2>1. \A p \in Scopes \X Readers : ~(lastCursor + 1 <= after[p])
    BY DEF CursorsWereDrawn
  <2> QED
    BY <2>1 DEF UploadDraw, PassedWasOvertaken
<1>8. EventsHaveMembers'
  <2>1. \A k \in Handlers : pc'[k] \in Uploading => pc[k] \in Uploading /\ req'[k] = req[k]
    BY DEF UploadDraw
  <2> QED
    BY <2>1, MembersKept DEF UploadDraw
<1> QED
  BY <1>1, <1>2, <1>3, <1>4, <1>5, <1>6, <1>7, <1>8

\* Two open transactions never hold rows of one key.
LEMMA UploadInsertStep ==
    ASSUME IInv, NEW h \in Handlers, UploadInsert(h)
    PROVE  IInv'
<1> USE DEF IInv, DeliveryTypeOK, RequestsAreTyped, membership, table, handlers, reader
<1> USE DEF Labels, Uploading, Scopes, NoMember, RemovedMember, Owner, NoRow
<1>1. DeliveryTypeOK' /\ RequestsAreTyped'
  BY DEF UploadInsert, Finish
<1>2. CursorsWereDrawn'
  BY DEF UploadInsert, Finish, CursorsWereDrawn
<1>3. AckedRowExists'
  BY DEF UploadInsert, Finish, AckedRowExists, SameKey
<1>4. PassedWasOvertaken' /\ PassedInGroup' /\ PassedGlobally'
  BY DEF UploadInsert, Finish, PassedWasOvertaken, PassedInGroup, PassedGlobally,
         Active
<1>5. LockedPosition' /\ PositionsStayReachable'
  BY DEF UploadInsert, Finish, LockedPosition, PositionsStayReachable, Cursors,
         EventsOf
<1>6. KeysAreUnique'
  <2>1. CASE Violates(req[h], events)
    BY <2>1 DEF UploadInsert, Finish, KeysAreUnique
  <2>2. CASE ~Violates(req[h], events)
    <3>1. \A e \in events : ~SameKey(e.upload, req[h])
      BY <2>2 DEF Violates
    <3>2. \A k \in Handlers : pc[k] = "commit" =>
             ~SameKey(req[k], req[h]) /\ ~SameKey(req[h], req[k])
      <4> SUFFICES ASSUME NEW k \in Handlers, pc[k] = "commit"
                   PROVE  ~SameKey(req[k], req[h])
        BY DEF SameKey
      <4>1. Row(req[k], drawn[k]) \in Uncommitted
        BY DEF Uncommitted
      <4>2. Row(req[k], drawn[k]).upload = req[k]
        BY DEF Row
      <4> QED
        BY <4>1, <4>2, Zenon DEF UploadInsert, Violates
    <3>3. UNCHANGED <<events, req>> /\ pc' = [pc EXCEPT ![h] = "commit"]
      BY <2>2 DEF UploadInsert
    <3> QED
      BY <3>1, <3>2, <3>3 DEF KeysAreUnique
  <2> QED
    BY <2>1, <2>2
<1>7. CursorsAreUnique'
  BY DEF UploadInsert, Finish, CursorsAreUnique, Cursors
<1>8. EventsHaveMembers'
  <2>1. \A k \in Handlers : pc'[k] \in Uploading => pc[k] \in Uploading /\ req'[k] = req[k]
    BY DEF UploadInsert, Finish
  <2> QED
    BY <2>1, MembersKept DEF UploadInsert, Finish
<1> QED
  BY <1>1, <1>2, <1>3, <1>4, <1>5, <1>6, <1>7, <1>8

\* The commit adds one row, of a cursor and a key that no other row has.
LEMMA UploadCommitStep ==
    ASSUME IInv, NEW h \in Handlers, UploadCommit(h)
    PROVE  IInv'
<1> USE DEF IInv, DeliveryTypeOK, RequestsAreTyped, membership, reader
<1> USE DEF Labels, Uploading, Scopes, NoMember, NoRow
<1> DEFINE u == req[h]
           c == drawn[h]
           r == Row(u, c)
<1>1. events' = events \cup {r}
  BY DEF UploadCommit, Committed
<1>2. /\ r.upload = u /\ r.cursor = c
      /\ u \in scenario.uploads /\ u.group \in Groups
      /\ c \in Nat /\ c # 0
  BY ScenariosAssumption DEF UploadCommit, Row
<1>3. /\ \A e \in events : e.cursor # c
      /\ c \notin expired
      /\ \A k \in Handlers \ {h} : drawn[k] # c
  BY <1>2 DEF CursorsAreUnique, Cursors
<1>4. /\ \A e \in events : ~SameKey(e.upload, u)
      /\ \A k \in Handlers \ {h} : pc[k] = "commit" => ~SameKey(u, req[k])
  BY DEF UploadCommit, KeysAreUnique
<1>5. /\ \A k \in Handlers \ {h} :
             UNCHANGED <<pc[k], req[k], drawn[k], seen[k]>>
      /\ pc'[h] = "idle" /\ drawn'[h] = 0 /\ seen'[h] = NoRow
      /\ DOMAIN req' = Handlers
      /\ pc' \in [Handlers -> Labels]
      /\ drawn' \in [Handlers -> Nat]
      /\ seen' \in [Handlers -> Int]
  BY DEF UploadCommit, Finish
<1>6. UNCHANGED <<scenario, role, applied, earlier, lastCursor, expired, position,
                  after, got, overtaken>>
  BY DEF UploadCommit
<1> HIDE DEF u, c, r
<1>7. DeliveryTypeOK' /\ RequestsAreTyped'
  BY <1>1, <1>2, <1>5, <1>6
<1>8. CursorsWereDrawn'
  <2>1. c <= lastCursor
    BY DEF CursorsWereDrawn, c
  <2> QED
    BY <2>1, <1>1, <1>2, <1>5, <1>6 DEF CursorsWereDrawn
<1>9. CursorsAreUnique'
  BY <1>1, <1>2, <1>3, <1>5, <1>6 DEF CursorsAreUnique, Cursors
<1>10. KeysAreUnique'
  <2>1. \A v, w : SameKey(v, w) => SameKey(w, v)
    BY DEF SameKey
  <2>2. \A e, f \in events' : SameKey(e.upload, f.upload) => e = f
    BY <2>1, <1>1, <1>2, <1>4 DEF KeysAreUnique
  <2>3. \A k \in Handlers : pc'[k] = "commit" => k # h /\ pc[k] = "commit" /\ req'[k] = req[k]
    BY <1>5
  <2>4. ASSUME NEW k \in Handlers, pc'[k] = "commit"
        PROVE  /\ \A e \in events' : ~SameKey(e.upload, req'[k])
               /\ \A j \in Handlers : pc'[j] = "commit" /\ SameKey(req'[k], req'[j]) => j = k
    BY <2>3, <2>4, <1>1, <1>2, <1>4 DEF KeysAreUnique
  <2> QED
    BY <2>2, <2>4 DEF KeysAreUnique
<1>11. AckedRowExists'
  <2>1. acked' = acked \/ acked' = acked \cup {r}
    BY DEF UploadCommit, u, c, r
  <2>2. SameKey(u, u)
    BY DEF SameKey
  <2> QED
    BY <2>1, <2>2, <1>1, <1>2, <1>6 DEF AckedRowExists
<1>12. PassedWasOvertaken'
  BY <1>5, <1>6 DEF PassedWasOvertaken
<1>13. \A p \in Scopes \X Readers : c <= after[p] => c \in overtaken
  BY <1>2 DEF PassedWasOvertaken, c
<1>14. PassedInGroup'
  BY <1>1, <1>2, <1>6, <1>13 DEF PassedInGroup
<1>15. PassedGlobally'
  BY <1>1, <1>2, <1>6, <1>13 DEF PassedGlobally, Active
<1>16. EventsHaveMembers'
  <2>1. pc[h] \in Uploading
    BY DEF UploadCommit
  <2>2. \E x \in Devices : role[<<u.group, x>>] # NoMember
    BY <2>1, <1>2 DEF EventsHaveMembers, u
  <2>3. \A k \in Handlers : pc'[k] \in Uploading => pc[k] \in Uploading /\ req'[k] = req[k]
    BY <1>5
  <2> QED
    BY <2>2, <2>3, <1>1, <1>2, <1>6 DEF EventsHaveMembers
<1>17. LockedPosition'
  BY <1>5, <1>6 DEF LockedPosition
<1>18. PositionsStayReachable'
  <2>1. Cursors(events)' = Cursors(events) \cup {c}
    BY <1>1, <1>2 DEF Cursors
  <2>2. \A g : Cursors(EventsOf(g)) \subseteq Cursors(EventsOf(g))'
    BY <1>1 DEF Cursors, EventsOf
  <2> QED
    BY <2>1, <2>2, <1>3, <1>6 DEF PositionsStayReachable
<1> QED
  BY <1>7, <1>8, <1>9, <1>10, <1>11, <1>12, <1>14, <1>15, <1>16, <1>17, <1>18

\* A handler that dies takes its cursor with it.
LEMMA HandlerDiesStep ==
    ASSUME IInv, NEW h \in Handlers, HandlerDies(h)
    PROVE  IInv'
<1> USE DEF IInv, DeliveryTypeOK, RequestsAreTyped, membership, table, handlers, reader
<1> USE DEF Labels, Uploading, Scopes, NoMember, RemovedMember, Owner, NoRow
<1>1. DeliveryTypeOK' /\ RequestsAreTyped'
  BY DEF HandlerDies, Finish
<1>2. CursorsWereDrawn' /\ CursorsAreUnique'
  BY DEF HandlerDies, Finish, CursorsWereDrawn, CursorsAreUnique, Cursors
<1>3. KeysAreUnique' /\ AckedRowExists'
  BY DEF HandlerDies, Finish, KeysAreUnique, SameKey, AckedRowExists
<1>4. PassedWasOvertaken' /\ PassedInGroup' /\ PassedGlobally'
  BY DEF HandlerDies, Finish, PassedWasOvertaken, PassedInGroup, PassedGlobally,
         Active
<1>5. LockedPosition' /\ PositionsStayReachable'
  BY DEF HandlerDies, Finish, LockedPosition, PositionsStayReachable, Cursors,
         EventsOf
<1>6. EventsHaveMembers'
  <2>1. \A k \in Handlers : pc'[k] \in Uploading => pc[k] \in Uploading /\ req'[k] = req[k]
    BY DEF HandlerDies, Finish
  <2> QED
    BY <2>1, MembersKept DEF HandlerDies, Finish
<1> QED
  BY <1>1, <1>2, <1>3, <1>4, <1>5, <1>6

\* The position that is written is one the log has reached, and its lock is held.
LEMMA AdvanceWriteStep ==
    ASSUME IInv, NEW h \in Handlers, AdvanceWrite(h)
    PROVE  IInv'
<1> USE DEF IInv, DeliveryTypeOK, RequestsAreTyped, membership, table, handlers, reader
<1> USE DEF Labels, Uploading, Scopes, NoMember, RemovedMember, Owner, NoRow
<1>1. DeliveryTypeOK' /\ RequestsAreTyped'
  BY DEF AdvanceWrite, Finish
<1>2. CursorsWereDrawn' /\ CursorsAreUnique'
  BY DEF AdvanceWrite, Finish, CursorsWereDrawn, CursorsAreUnique, Cursors
<1>3. KeysAreUnique' /\ AckedRowExists'
  BY DEF AdvanceWrite, Finish, KeysAreUnique, SameKey, AckedRowExists
<1>4. PassedWasOvertaken' /\ PassedInGroup' /\ PassedGlobally'
  BY DEF AdvanceWrite, Finish, PassedWasOvertaken, PassedInGroup, PassedGlobally,
         Active
<1>5. EventsHaveMembers'
  <2>1. \A k \in Handlers : pc'[k] \in Uploading => pc[k] \in Uploading /\ req'[k] = req[k]
    BY DEF AdvanceWrite, Finish
  <2> QED
    BY <2>1, MembersKept DEF AdvanceWrite, Finish
<1>6. LockedPosition'
  BY DEF AdvanceWrite, Finish, LockedPosition, Lockers, Advancing
<1>7. PositionsStayReachable'
  <2> DEFINE g == req[h].key[1]
             c == req[h].cursor
             reached == Cursors(EventsOf(g)) \cup {0}
  <2>1. req[h].key \in Groups \X Readers /\ c \in Nat
    BY DEF AdvanceWrite
  <2>2. reached \in SUBSET Nat /\ 0 \in reached /\ \A n \in reached : n <= lastCursor
    BY DEF CursorsWereDrawn, Cursors, EventsOf
  <2>3. Max(reached) \in reached
    <3> HIDE DEF reached
    <3> QED
      BY <2>2, MaxOfBounded
  <2>4. WithinLog(g, c) => \E n \in reached : c <= n
    BY <2>3 DEF WithinLog
  <2>5. WithinLog(g, c) => c <= 0 \/ \E n \in Cursors(EventsOf(g)) : n >= c
    BY <2>1, <2>2, <2>4
  <2>6. /\ UNCHANGED <<events, expired>>
        /\ \A k \in Groups \X Readers :
              \/ position'[k] = position[k]
              \/ WithinLog(g, c) /\ k = req[h].key /\ position'[k] = c
    BY <2>1 DEF AdvanceWrite
  <2>7. DOMAIN position' = DOMAIN position /\ DOMAIN position = Groups \X Readers
    BY DEF AdvanceWrite
  <2> HIDE DEF c
  <2> QED
    BY <2>5, <2>6, <2>7 DEF PositionsStayReachable, Cursors, EventsOf
<1> QED
  BY <1>1, <1>2, <1>3, <1>4, <1>5, <1>6, <1>7

\* The row that is read is locked from here on.
LEMMA AdvanceReadStep ==
    ASSUME IInv, NEW h \in Handlers, NEW g \in Groups, NEW d \in Readers,
           NEW c \in scenario.requested, AdvanceRead(h, g, d, c)
    PROVE  IInv'
<1> USE DEF IInv, DeliveryTypeOK, RequestsAreTyped, membership, table, handlers, reader
<1> USE DEF Labels, Uploading, Scopes, NoMember, RemovedMember, Owner, NoRow
<1>1. CursorsWereDrawn' /\ CursorsAreUnique'
  BY DEF AdvanceRead, CursorsWereDrawn, CursorsAreUnique, Cursors
<1>2. KeysAreUnique' /\ AckedRowExists'
  BY DEF AdvanceRead, KeysAreUnique, SameKey, AckedRowExists
<1>3. PassedWasOvertaken' /\ PassedInGroup' /\ PassedGlobally'
  BY DEF AdvanceRead, PassedWasOvertaken, PassedInGroup, PassedGlobally, Active
<1>4. PositionsStayReachable'
  BY DEF AdvanceRead, PositionsStayReachable, Cursors, EventsOf
<1>5. DeliveryTypeOK' /\ RequestsAreTyped'
  BY ScenariosAssumption DEF AdvanceRead
<1>6. LockedPosition'
  <2>1. c \in Nat /\ position[<<g, d>>] \in Int
    BY ScenariosAssumption
  <2>2. position[<<g, d>>] # NoRow => c >= position[<<g, d>>]
    BY DEF AdvanceRead, NotBehind
  <2> QED
    BY <2>1, <2>2 DEF AdvanceRead, LockedPosition
<1>7. EventsHaveMembers'
  <2>1. \A k \in Handlers : pc'[k] \in Uploading => pc[k] \in Uploading /\ req'[k] = req[k]
    BY DEF AdvanceRead
  <2> QED
    BY <2>1, MembersKept DEF AdvanceRead
<1> QED
  BY <1>1, <1>2, <1>3, <1>4, <1>5, <1>6, <1>7

\* A page leaves no row behind but those in flight, whose cursors it overtakes.
LEMMA ServedStep ==
    ASSUME IInv, NEW d \in Readers, NEW s \in Scopes, Served(d, s),
           s = Global \/ Active(s, d)
    PROVE  IInv'
<1> USE DEF IInv, DeliveryTypeOK, RequestsAreTyped, membership, table, handlers
<1> USE DEF Labels, Uploading, Scopes, NoMember, NoRow
<1>1. PICK page \in Pages(Candidates(d, s)) :
        /\ page # {}
        /\ got' = [got EXCEPT ![d] = @ \cup page]
        /\ after' = [after EXCEPT ![<<s, d>>] = Max(Cursors(page))]
        /\ overtaken' = overtaken \cup
              {drawn[h] : h \in {k \in Handlers :
                                   drawn[k] \in 1 .. Max(Cursors(page))}}
  BY DEF Served
<1> DEFINE last == Max(Cursors(page))
<1>2. /\ page \subseteq Candidates(d, s)
      /\ last \in Nat /\ last <= lastCursor
      /\ \A e \in Candidates(d, s) : e.cursor <= last => e \in page
  BY <1>1, PageIsPrefix
<1>3. /\ \A x \in Readers : got[x] \subseteq got'[x]
      /\ page \subseteq got'[d]
      /\ DOMAIN got' = Readers
  BY <1>1
<1>4. /\ overtaken \subseteq overtaken'
      /\ \A h \in Handlers : drawn[h] # 0 /\ drawn[h] <= last => drawn[h] \in overtaken'
  BY <1>1, <1>2
<1>5. UNCHANGED <<scenario, membership, table, position, handlers, acked>>
  BY DEF Served
<1> HIDE DEF last
<1>6. /\ after' \in [Scopes \X Readers -> Nat]
      /\ after'[<<s, d>>] = last
      /\ \A p \in Scopes \X Readers : p # <<s, d>> => after'[p] = after[p]
  BY <1>1, <1>2 DEF last
<1>7. DeliveryTypeOK' /\ RequestsAreTyped'
  BY <1>3, <1>5, <1>6
<1>8. CursorsWereDrawn'
  BY <1>2, <1>5, <1>6 DEF CursorsWereDrawn
<1>9. CursorsAreUnique' /\ KeysAreUnique' /\ AckedRowExists' /\ LockedPosition'
  BY <1>5 DEF CursorsAreUnique, KeysAreUnique, AckedRowExists, LockedPosition, Cursors
<1>10. EventsHaveMembers' /\ PositionsStayReachable'
  BY <1>5 DEF EventsHaveMembers, PositionsStayReachable, Cursors, EventsOf
<1>11. PassedWasOvertaken'
  BY <1>4, <1>5, <1>6 DEF PassedWasOvertaken
<1>12. ASSUME NEW e \in InScope(d, s), e.cursor <= last, e.cursor > after[<<s, d>>]
       PROVE  e \in got'[d] \/ e.cursor \in expired
  BY <1>2, <1>3, <1>12 DEF Candidates
<1>13. PassedInGroup'
  <2> SUFFICES ASSUME NEW g \in Groups, NEW x \in Readers, NEW e \in events,
                      e.upload.group = g, e.cursor <= after'[<<g, x>>]
               PROVE  e \in got'[x] \/ e.cursor \in expired \cup overtaken'
    BY <1>5 DEF PassedInGroup
  <2>1. CASE e.cursor <= after[<<g, x>>]
    BY <2>1, <1>3, <1>4 DEF PassedInGroup
  <2>2. CASE ~(e.cursor <= after[<<g, x>>])
    <3>1. g = s /\ x = d
      BY <2>2, <1>6
    <3>2. e \in InScope(d, s)
      BY <3>1, InputsAssumption DEF InScope
    <3>3. e.cursor > after[<<s, d>>] /\ e.cursor <= last
      BY <2>2, <3>1, <1>6
    <3> QED
      BY <3>1, <3>2, <3>3, <1>12
  <2> QED
    BY <2>1, <2>2
<1>14. PassedGlobally'
  <2> SUFFICES ASSUME NEW x \in Readers, NEW e \in events,
                      Active(e.upload.group, x), e.cursor <= after'[<<Global, x>>]
               PROVE  \/ e \in got'[x]
                      \/ e.cursor \in expired \cup overtaken'
                                          \cup earlier[<<e.upload.group, x>>]
    BY <1>5 DEF PassedGlobally, Active
  <2>1. CASE e.cursor <= after[<<Global, x>>]
    BY <2>1, <1>3, <1>4 DEF PassedGlobally
  <2>2. CASE ~(e.cursor <= after[<<Global, x>>])
    <3>1. s = Global /\ x = d
      BY <2>2, <1>6
    <3>2. e \in InScope(d, s)
      BY <3>1 DEF InScope
    <3>3. e.cursor > after[<<s, d>>] /\ e.cursor <= last
      BY <2>2, <3>1, <1>6
    <3> QED
      BY <3>1, <3>2, <3>3, <1>12
  <2> QED
    BY <2>1, <2>2
<1> QED
  BY <1>7, <1>8, <1>9, <1>10, <1>11, <1>13, <1>14

\* A row that expires was in the table, so its cursor is not in flight.
LEMMA EventExpiresStep ==
    ASSUME IInv, NEW c \in Cursors(events), EventExpires(c)
    PROVE  IInv'
<1> USE DEF IInv, DeliveryTypeOK, RequestsAreTyped, membership, table, handlers, reader
<1> USE DEF Labels, Uploading, Scopes, NoMember, RemovedMember, Owner, NoRow
<1>1. RequestsAreTyped'
  BY DEF EventExpires
<1>2. KeysAreUnique' /\ AckedRowExists'
  BY DEF EventExpires, KeysAreUnique, SameKey, AckedRowExists
<1>3. PassedWasOvertaken' /\ PassedInGroup' /\ PassedGlobally'
  BY DEF EventExpires, PassedWasOvertaken, PassedInGroup, PassedGlobally, Active
<1>4. EventsHaveMembers' /\ LockedPosition'
  BY DEF EventExpires, EventsHaveMembers, LockedPosition
<1>5. DeliveryTypeOK' /\ CursorsWereDrawn'
  <2>1. c \in Nat /\ c <= lastCursor
    BY DEF Cursors, CursorsWereDrawn
  <2> QED
    BY <2>1 DEF EventExpires, CursorsWereDrawn
<1>6. CursorsAreUnique'
  BY DEF EventExpires, CursorsAreUnique, Cursors
<1>7. PositionsStayReachable'
  BY DEF EventExpires, PositionsStayReachable, Cursors, EventsOf
<1> QED
  BY <1>1, <1>2, <1>3, <1>4, <1>5, <1>6, <1>7

\* Only rows that have expired are deleted.
LEMMA CleanupStep ==
    ASSUME IInv, CleanupExpiredEvents
    PROVE  IInv'
<1> USE DEF IInv, DeliveryTypeOK, RequestsAreTyped, membership, table, handlers, reader
<1> USE DEF Labels, Uploading, Scopes, NoMember, RemovedMember, Owner, NoRow
<1>1. DeliveryTypeOK' /\ RequestsAreTyped'
  BY DEF CleanupExpiredEvents, Deletable
<1>2. CursorsWereDrawn' /\ CursorsAreUnique'
  BY DEF CleanupExpiredEvents, Deletable, CursorsWereDrawn, CursorsAreUnique,
         Cursors
<1>3. KeysAreUnique' /\ AckedRowExists'
  BY DEF CleanupExpiredEvents, Deletable, KeysAreUnique, SameKey, AckedRowExists
<1>4. PassedWasOvertaken' /\ PassedInGroup' /\ PassedGlobally'
  BY DEF CleanupExpiredEvents, Deletable, PassedWasOvertaken, PassedInGroup,
         PassedGlobally, Active
<1>5. EventsHaveMembers' /\ LockedPosition'
  BY DEF CleanupExpiredEvents, Deletable, EventsHaveMembers, LockedPosition
<1>6. PositionsStayReachable'
  BY DEF CleanupExpiredEvents, Deletable, PositionsStayReachable, Cursors, EventsOf,
         CursorsAreUnique
<1> QED
  BY <1>1, <1>2, <1>3, <1>4, <1>5, <1>6

-----------------------------------------------------------------------------
\* The invariant holds of an empty database.
LEMMA InitIInv == Init => IInv
<1> SUFFICES ASSUME Init PROVE IInv
  OBVIOUS
<1>1. DeliveryTypeOK /\ RequestsAreTyped
  BY DEF Init, DeliveryTypeOK, RequestsAreTyped, Labels, Uploading, NoMember, NoRow
<1>2. CursorsWereDrawn /\ CursorsAreUnique /\ KeysAreUnique /\ AckedRowExists
  BY DEF Init, CursorsWereDrawn, CursorsAreUnique, KeysAreUnique, AckedRowExists
<1>3. PassedWasOvertaken /\ PassedInGroup /\ PassedGlobally
  BY DEF Init, PassedWasOvertaken, PassedInGroup, PassedGlobally
<1>4. EventsHaveMembers /\ LockedPosition /\ PositionsStayReachable
  BY DEF Init, EventsHaveMembers, LockedPosition, PositionsStayReachable, Uploading,
         NoRow
<1> QED
  BY <1>1, <1>2, <1>3, <1>4 DEF IInv

\* Every step preserves the invariant.
LEMMA NextIInv == IInv /\ [Next]_vars => IInv'
<1> SUFFICES ASSUME IInv, [Next]_vars PROVE IInv'
  OBVIOUS
<1>1. ASSUME NEW g \in Groups, NEW d \in Readers, SyncGroup(d, g) PROVE IInv'
  BY <1>1, ServedStep DEF SyncGroup, Scopes
<1>2. ASSUME NEW d \in Readers, SyncGlobal(d) PROVE IInv'
  BY <1>2, ServedStep DEF SyncGlobal, Scopes
<1>3. ASSUME UNCHANGED vars PROVE IInv'
  <2> USE DEF vars, membership, table, handlers, reader
  <2>1. DeliveryTypeOK' /\ RequestsAreTyped' /\ CursorsWereDrawn'
    BY <1>3 DEF IInv, DeliveryTypeOK, RequestsAreTyped, CursorsWereDrawn
  <2>2. CursorsAreUnique' /\ KeysAreUnique' /\ AckedRowExists' /\ PassedWasOvertaken'
    BY <1>3 DEF IInv, CursorsAreUnique, KeysAreUnique, AckedRowExists,
                PassedWasOvertaken, Cursors
  <2>3. PassedInGroup' /\ PassedGlobally' /\ EventsHaveMembers'
    BY <1>3 DEF IInv, PassedInGroup, PassedGlobally, EventsHaveMembers, Active
  <2>4. LockedPosition' /\ PositionsStayReachable'
    BY <1>3 DEF IInv, LockedPosition, PositionsStayReachable, Cursors, EventsOf
  <2> QED
    BY <2>1, <2>2, <2>3, <2>4 DEF IInv
<1> QED
  BY <1>1, <1>2, <1>3, CreateGroupStep, ApplyMembershipStep, UploadBeginStep,
     UploadLookupStep, UploadDrawStep, UploadInsertStep, UploadCommitStep,
     HandlerDiesStep, AdvanceWriteStep, AdvanceReadStep, EventExpiresStep, CleanupStep
  DEF Next

\* The invariant holds in every reachable state.
THEOREM Invariance == Spec => []IInv
  BY InitIInv, NextIInv, PTL DEF Spec

-----------------------------------------------------------------------------
\* Two answers for one (author, client_message_id) name the same cursor, unless
\* retention has deleted one of the two events (upload_event, lookup and unique index).
THEOREM IdempotentWhileKept == Spec => []UploadIdempotent
<1>1. ASSUME IInv PROVE UploadIdempotent
  <2> DEFINE Gone(a) == a.cursor \in expired /\ a \notin events
  <2> SUFFICES ASSUME NEW a \in acked, NEW b \in acked, SameKey(a.upload, b.upload),
                      ~Gone(a), ~Gone(b)
               PROVE  a.cursor = b.cursor
    BY DEF UploadIdempotent
  <2>1. ASSUME NEW x \in acked, ~Gone(x)
        PROVE  \E e \in events : e.cursor = x.cursor /\ SameKey(e.upload, x.upload)
    BY <1>1, <2>1 DEF IInv, AckedRowExists, SameKey
  <2>2. PICK e \in events : e.cursor = a.cursor /\ SameKey(e.upload, a.upload)
    BY <2>1
  <2>3. PICK f \in events : f.cursor = b.cursor /\ SameKey(f.upload, b.upload)
    BY <2>1
  <2>4. SameKey(e.upload, f.upload)
    BY <2>2, <2>3 DEF SameKey
  <2> QED
    BY <1>1, <2>2, <2>3, <2>4 DEF IInv, KeysAreUnique
<1> QED
  BY <1>1, Invariance, PTL

\* An answered upload stays in the table until its TTL has passed (upload_event,
\* cleanup_expired_events), whatever handlers die and however retries overlap.
THEOREM AnsweredIsDurable == Spec => []AckedIsStored
<1>1. IInv => AckedIsStored
  BY DEF IInv, AckedRowExists, AckedIsStored
<1> QED
  BY <1>1, Invariance, PTL

\* Every stored position is one that the group's log has reached
\* (advance_group_cursor), unless retention has deleted the events that led there.
THEOREM PositionsReachable == Spec => []PositionsStayReachable
<1>1. IInv => PositionsStayReachable
  BY DEF IInv
<1> QED
  BY <1>1, Invariance, PTL

\* Paging through sync_group and sync_global misses no live event but those in flight
\* when a page was served and, with sync_global, those older than the membership.
THEOREM OnlyInFlightSkipped == Spec => []SkippedWasInFlight
<1>1. ASSUME IInv PROVE SkippedWasInFlight
  <2> SUFFICES ASSUME NEW d \in Readers, NEW s \in Scopes, NEW e \in Missed(d, s)
               PROVE  e.cursor \in expired \cup overtaken
                          \cup (IF s = Global THEN Predating(d) ELSE {})
    BY DEF SkippedWasInFlight, Cursors
  <2>1. /\ e \in events /\ e \notin got[d] /\ e.cursor <= after[<<s, d>>]
        /\ s \in {e.upload.group, Global} /\ Active(e.upload.group, d)
    BY DEF Missed, InScope
  <2>2. e.upload.group \in Groups
    BY <1>1, <2>1, ScenariosAssumption DEF IInv, DeliveryTypeOK
  <2>3. CASE s = Global
    <3>1. earlier[<<e.upload.group, d>>] \subseteq Predating(d)
      BY <2>2 DEF Predating
    <3> QED
      BY <1>1, <2>1, <2>3, <3>1 DEF IInv, PassedGlobally
  <2>4. CASE s = e.upload.group
    BY <1>1, <2>1, <2>2, <2>4 DEF IInv, PassedInGroup
  <2> QED
    BY <2>1, <2>3, <2>4
<1> QED
  BY <1>1, Invariance, PTL

\* A stored position goes back only in a race of two handlers that create its row
\* (advance_group_cursor): FOR UPDATE orders the updates of a row that exists.
THEOREM LockedUpdatesMoveOn == Spec => RegressionOnlyOnCreation
<1>1. ASSUME IInv, [Next]_vars
      PROVE  [\A k \in DOMAIN position :
                 position'[k] < position[k] => \E h \in Advancing(k) : seen[h] = NoRow]_vars
  <2> SUFFICES ASSUME NEW k \in DOMAIN position, position'[k] < position[k]
               PROVE  \E h \in Advancing(k) : seen[h] = NoRow
    OBVIOUS
  <2>1. position[k] \in Int /\ k \in Groups \X Readers
    BY <1>1 DEF IInv, DeliveryTypeOK
  <2>2. position' # position
    BY <2>1
  <2>3. PICK h \in Handlers : AdvanceWrite(h)
    BY <1>1, <2>2 DEF Next, vars, CreateGroup, ApplyMembershipOperation, UploadBegin,
       UploadLookup, UploadDraw, UploadInsert, UploadCommit, HandlerDies, AdvanceRead,
       SyncGroup, SyncGlobal, Served, EventExpires, CleanupExpiredEvents
  <2>4. k = req[h].key /\ position'[k] = req[h].cursor
    BY <1>1, <2>1, <2>2, <2>3 DEF AdvanceWrite, IInv, DeliveryTypeOK
  <2>5. h \in Advancing(k)
    BY <2>3, <2>4 DEF AdvanceWrite, Advancing
  <2>6. seen[h] # NoRow => position[k] = seen[h] /\ req[h].cursor >= seen[h]
    BY <1>1, <2>3, <2>4 DEF AdvanceWrite, IInv, LockedPosition
  <2>7. req[h].cursor \in Nat
    BY <1>1, <2>3 DEF AdvanceWrite, IInv, RequestsAreTyped
  <2> QED
    BY <2>1, <2>4, <2>5, <2>6, <2>7
<1> QED
  BY <1>1, Invariance, PTL DEF Spec, RegressionOnlyOnCreation

-----------------------------------------------------------------------------
(* Membership.                                                             *)

\* A device that is or was a member of a group.
EverAdmitted(g, d) == g \in Groups /\ d \in Devices /\ role[<<g, d>>] # NoMember

\* What a handler has checked is not undone by a later removal: the author or the
\* device was admitted, and the operation an event names is applied.
RequestOfMember(h) ==
    /\ pc[h] \in Uploading => /\ EverAdmitted(req[h].group, req[h].author)
                              /\ Correlated(req[h])
    /\ pc[h] = "advance" => EverAdmitted(req[h].key[1], req[h].key[2])
RequestsOfMembers == \A h \in Handlers : RequestOfMember(h)

\* The service keeps nothing of a device for a group it was never admitted to: no event,
\* no position, and no page was served to it; every commit names an applied operation.
StoredOfMembers ==
    \A e \in events : EverAdmitted(e.upload.group, e.upload.author) /\ Correlated(e.upload)
PositionsOfMembers ==
    \A k \in Groups \X Readers : position[k] # NoRow => EverAdmitted(k[1], k[2])
PagesForMembers ==
    \A d \in Readers : \A e \in got[d] : EverAdmitted(e.upload.group, d)

MembersOnly ==
    /\ RequestsOfMembers
    /\ StoredOfMembers
    /\ PositionsOfMembers
    /\ PagesForMembers

\* create_group and apply_membership_operation never delete a row of group_members
\* (a removal sets its status), nor one of membership_operations.
LEMMA AdmissionsLast ==
    ASSUME IInv, [Next]_vars
    PROVE  /\ applied \subseteq applied'
           /\ \A k \in Groups \X Devices : role[k] # NoMember => role'[k] # NoMember
<1> USE DEF NoMember, RemovedMember, Owner
<1>1. role \in [Groups \X Devices -> -2 .. 2] /\ scenario \in Scenarios
  BY DEF IInv, DeliveryTypeOK
<1>2. ASSUME NEW g \in Groups, NEW d \in Devices, CreateGroup(g, d)
      PROVE  applied' = applied /\ \A k \in Groups \X Devices :
                                        role[k] # NoMember => role'[k] # NoMember
  BY <1>1, <1>2 DEF CreateGroup
<1>3. ASSUME NEW o \in scenario.operations, ApplyMembershipOperation(o)
      PROVE  applied \subseteq applied' /\ \A k \in Groups \X Devices :
                                        role[k] # NoMember => role'[k] # NoMember
  <2>1. o.role \in 0 .. 2
    BY <1>1, ScenariosAssumption
  <2> QED
    BY <1>1, <1>3, <2>1 DEF ApplyMembershipOperation
<1>4. \/ \E g \in Groups, d \in Devices : CreateGroup(g, d)
      \/ \E o \in scenario.operations : ApplyMembershipOperation(o)
      \/ UNCHANGED <<role, applied>>
  BY DEF Next, vars, membership, UploadBegin, UploadLookup, UploadDraw, UploadInsert,
     UploadCommit, HandlerDies, AdvanceRead, AdvanceWrite, SyncGroup, SyncGlobal, Served,
     EventExpires, CleanupExpiredEvents
<1> QED
  BY <1>2, <1>3, <1>4

\* A request goes on, ends, or is replaced by one that has just been checked.
LEMMA RequestsStay ==
    ASSUME IInv, RequestsOfMembers, [Next]_vars,
           \A h \in Handlers : \/ pc'[h] = "idle"
                               \/ RequestOfMember(h)'
                               \/ /\ req'[h] = req[h]
                                  /\ \/ pc'[h] = pc[h]
                                     \/ pc[h] \in Uploading /\ pc'[h] \in Uploading
    PROVE  RequestsOfMembers'
<1> SUFFICES ASSUME NEW h \in Handlers PROVE RequestOfMember(h)'
  BY DEF RequestsOfMembers
<1>1. CASE pc'[h] = "idle"
  BY <1>1 DEF RequestOfMember, Uploading
<1>2. CASE /\ req'[h] = req[h]
           /\ \/ pc'[h] = pc[h]
              \/ pc[h] \in Uploading /\ pc'[h] \in Uploading
  <2>1. RequestOfMember(h)
    BY DEF RequestsOfMembers
  <2>2. pc'[h] \in Uploading => pc[h] \in Uploading
    BY <1>2
  <2>3. pc'[h] = "advance" => pc[h] = "advance"
    BY <1>2 DEF Uploading
  <2> QED
    BY <1>2, <2>1, <2>2, <2>3, AdmissionsLast DEF RequestOfMember, EverAdmitted, Correlated
<1>3. CASE RequestOfMember(h)'
  BY <1>3
<1> QED
  BY <1>1, <1>2, <1>3

\* Every step keeps what the service stores and serves to members.
LEMMA NextMembersOnly == IInv /\ MembersOnly /\ [Next]_vars => MembersOnly'
<1> SUFFICES ASSUME IInv, MembersOnly, [Next]_vars PROVE MembersOnly'
  OBVIOUS
<1> USE DEF IInv, DeliveryTypeOK, RequestsAreTyped, MembersOnly, RequestsOfMembers
<1>1. RequestsOfMembers'
  <2>1. ASSUME NEW h \in Handlers, NEW u \in scenario.uploads, UploadBegin(h, u)
        PROVE  RequestOfMember(h)'
    BY <2>1, ScenariosAssumption
       DEF UploadBegin, Active, RequestOfMember, EverAdmitted, Correlated, Uploading,
           NoMember, membership
  <2>2. ASSUME NEW h \in Handlers, NEW g \in Groups, NEW d \in Readers,
               NEW c \in scenario.requested, AdvanceRead(h, g, d, c)
        PROVE  RequestOfMember(h)'
    BY <2>2, InputsAssumption
       DEF AdvanceRead, Active, RequestOfMember, EverAdmitted, Uploading, NoMember,
           membership
  <2> HIDE DEF RequestsOfMembers
  <2> SUFFICES ASSUME NEW h \in Handlers
               PROVE  \/ pc'[h] = "idle"
                      \/ RequestOfMember(h)'
                      \/ /\ req'[h] = req[h]
                         /\ \/ pc'[h] = pc[h]
                            \/ pc[h] \in Uploading /\ pc'[h] \in Uploading
    BY RequestsStay
  <2>3. CASE \E k \in Handlers, u \in scenario.uploads : UploadBegin(k, u)
    BY <2>1, <2>3 DEF UploadBegin
  <2>4. CASE \E k \in Handlers, g \in Groups, d \in Readers, c \in scenario.requested :
                AdvanceRead(k, g, d, c)
    <3>1. PICK k \in Handlers, g \in Groups, d \in Readers, c \in scenario.requested :
                AdvanceRead(k, g, d, c)
      BY <2>4, Zenon
    <3>2. CASE h = k
      BY <2>2, <3>1, <3>2, Zenon
    <3>3. CASE h # k
      BY <3>1, <3>3 DEF AdvanceRead
    <3> QED
      BY <3>2, <3>3
  <2>5. CASE \E k \in Handlers :
                \/ UploadLookup(k) \/ UploadDraw(k) \/ UploadInsert(k) \/ UploadCommit(k)
                \/ HandlerDies(k) \/ AdvanceWrite(k)
    BY <2>5 DEF UploadLookup, UploadDraw, UploadInsert, UploadCommit, HandlerDies,
       AdvanceWrite, Finish, Uploading
  <2>6. CASE UNCHANGED <<pc, req>>
    BY <2>6
  <2> QED
    BY <2>3, <2>4, <2>5, <2>6 DEF Next, vars, handlers, CreateGroup,
       ApplyMembershipOperation, SyncGroup, SyncGlobal, Served, EventExpires,
       CleanupExpiredEvents
<1>2. StoredOfMembers'
  <2>1. ASSUME NEW h \in Handlers, UploadCommit(h)
        PROVE  StoredOfMembers'
    <3>1. EverAdmitted(req[h].group, req[h].author) /\ Correlated(req[h])
      BY <2>1 DEF UploadCommit, RequestOfMember, Uploading
    <3> QED
      <4> SUFFICES ASSUME NEW e \in events'
                   PROVE  /\ EverAdmitted(e.upload.group, e.upload.author)'
                          /\ Correlated(e.upload)'
        BY DEF StoredOfMembers
      <4>1. EverAdmitted(e.upload.group, e.upload.author) /\ Correlated(e.upload)
        BY <2>1, <3>1 DEF UploadCommit, Committed, Row, StoredOfMembers
      <4> QED
        BY <2>1, <4>1 DEF UploadCommit, membership, EverAdmitted, Correlated
  <2>2. ASSUME events' \subseteq events
        PROVE  StoredOfMembers'
    BY <2>2, AdmissionsLast DEF StoredOfMembers, EverAdmitted, Correlated
  <2>3. (\E h \in Handlers : UploadCommit(h)) \/ events' \subseteq events
    BY DEF Next, vars, table, CreateGroup, ApplyMembershipOperation, UploadBegin,
       UploadLookup, UploadDraw, UploadInsert, HandlerDies, AdvanceRead, AdvanceWrite,
       SyncGroup, SyncGlobal, Served, EventExpires, CleanupExpiredEvents
  <2> QED
    BY <2>1, <2>2, <2>3
<1>3. PositionsOfMembers'
  <2>1. ASSUME NEW h \in Handlers, AdvanceWrite(h)
        PROVE  PositionsOfMembers'
    <3>1. EverAdmitted(req[h].key[1], req[h].key[2])
      BY <2>1 DEF AdvanceWrite, RequestOfMember
    <3> QED
      BY <2>1, <3>1 DEF AdvanceWrite, PositionsOfMembers, membership, EverAdmitted
  <2>2. ASSUME position' = position
        PROVE  PositionsOfMembers'
    BY <2>2, AdmissionsLast DEF PositionsOfMembers, EverAdmitted
  <2>3. (\E h \in Handlers : AdvanceWrite(h)) \/ position' = position
    BY DEF Next, vars, CreateGroup, ApplyMembershipOperation, UploadBegin, UploadLookup,
       UploadDraw, UploadInsert, UploadCommit, HandlerDies, AdvanceRead, SyncGroup,
       SyncGlobal, Served, EventExpires, CleanupExpiredEvents
  <2> QED
    BY <2>1, <2>2, <2>3
<1>4. PagesForMembers'
  <2>1. ASSUME NEW d \in Readers, NEW s, Served(d, s)
        PROVE  PagesForMembers'
    <3>1. PICK page \in Pages(Candidates(d, s)) : got' = [got EXCEPT ![d] = @ \cup page]
      BY <2>1 DEF Served
    <3>2. \A e \in page : e \in events /\ Active(e.upload.group, d)
      BY <3>1 DEF Pages, Candidates, InScope
    <3>3. \A e \in page : EverAdmitted(e.upload.group, d)
      BY <3>2, ScenariosAssumption, InputsAssumption DEF EverAdmitted, Active, NoMember
    <3> QED
      BY <2>1, <3>1, <3>3 DEF Served, PagesForMembers, membership, EverAdmitted
  <2>2. ASSUME got' = got
        PROVE  PagesForMembers'
    BY <2>2, AdmissionsLast DEF PagesForMembers, EverAdmitted
  <2>3. (\E d \in Readers, s \in Scopes : Served(d, s)) \/ got' = got
    BY DEF Next, vars, reader, Scopes, CreateGroup, ApplyMembershipOperation, UploadBegin,
       UploadLookup, UploadDraw, UploadInsert, UploadCommit, HandlerDies, AdvanceRead,
       AdvanceWrite, SyncGroup, SyncGlobal, EventExpires, CleanupExpiredEvents
  <2> QED
    BY <2>1, <2>2, <2>3
<1> QED
  BY <1>1, <1>2, <1>3, <1>4

\* What is stored of a device, and what was ever served to it, belongs to groups it has
\* been admitted to, and every MLS commit in the log names a membership operation that
\* was applied, however uploads, removals and cursor updates interleave (upload_event,
\* sync_group, sync_global, advance_group_cursor).
THEOREM MembersOnlyService == Spec => []MembersOnly
<1>1. Init => MembersOnly
  BY DEF Init, MembersOnly, RequestsOfMembers, RequestOfMember, StoredOfMembers,
     PositionsOfMembers, PagesForMembers, Uploading, NoRow
<1> QED
  BY <1>1, NextMembersOnly, Invariance, PTL DEF Spec
=============================================================================
