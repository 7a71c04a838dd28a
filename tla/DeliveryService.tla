-------------------------- MODULE DeliveryService ---------------------------
(***************************************************************************)
(* Group events on the server: services/core-api/src/lib.rs over           *)
(* PostgreSQL at READ COMMITTED.                                           *)
(*                                                                         *)
(* Handlers run concurrently.  upload_event and advance_group_cursor are   *)
(* split at every statement whose snapshot or lock another handler can get *)
(* in front of; the other operations read and write under row locks or in  *)
(* one statement and are one action.  A handler that dies loses its        *)
(* transaction.  Error returns write nothing and, when no step was taken   *)
(* before them, are stuttering steps.                                      *)
(*                                                                         *)
(* event_cursor is an identity column: it is drawn from a sequence when    *)
(* the INSERT runs, never given back, and visible only after the commit.   *)
(*                                                                         *)
(* The reading device is part of the model: it asks for the page after the *)
(* cursor it holds, keeps the page and moves on to its last cursor.        *)
(***************************************************************************)
EXTENDS Integers, FiniteSets, FiniteSetsExt

CONSTANTS
    Devices,        \* registered devices
    Groups,         \* group identifiers
    Scenarios,      \* what clients ask of the service, one scenario per behaviour
    Handlers,       \* concurrent request handlers
    Readers,        \* devices that sync
    Global,         \* the scope of sync_global
    None,           \* the absent value
    PageLimit       \* page length (MAX_SYNC_BATCH = 50)

Scopes == Groups \cup {Global}

ASSUME LimitsAssumption == PageLimit \in Nat \ {0}
ASSUME InputsAssumption == Readers \subseteq Devices /\ Global \notin Groups
ASSUME ScenariosAssumption ==
    \A s \in Scenarios :
        /\ \A u \in s.uploads : u.group \in Groups /\ u.author \in Devices
        /\ \A o \in s.operations :        \* a role is checked before anything is read
              /\ o.group \in Groups /\ o.target \in Devices
              /\ o.role \in 0 .. 2
        /\ s.scopes \subseteq Scopes      \* what the readers sync
        /\ s.requested \subseteq Nat      \* arguments of advance_group_cursor
        /\ s.retention \in BOOLEAN        \* does the clock pass a TTL?
        /\ s.maxCursor \in Nat            \* bound: last value of the sequence

VARIABLES
    scenario,       \* creators, uploads, operations and the fields above
    role,           \* group_members: NoMember, RemovedMember or a role 0..2
    applied,        \* membership_operations that are applied
    events,         \* committed rows of group_events
    lastCursor,     \* the identity sequence
    expired,        \* cursors of events whose expires_at has passed
    position,       \* device_group_cursors.cursor, NoRow without a row
    pc,             \* what each handler is about to do
    req,            \* the request each handler works on
    drawn,          \* the cursor each upload has drawn from the sequence
    seen,           \* the position each cursor update has read
    after,          \* reader: the cursor it will ask after next
    got,            \* reader: the events it has received
    acked,          \* answers Ok(cursor) to uploads (history)
    overtaken,      \* cursors in flight below a served page (history)
    earlier         \* cursors in the log when a device was admitted (history)

membership == <<role, applied, earlier>>
table == <<events, lastCursor, expired>>
handlers == <<pc, req, drawn, seen>>
reader == <<after, got, overtaken>>
vars == <<scenario, membership, table, position, handlers, reader, acked>>

Cursors(rows) == {e.cursor : e \in rows}
EventsOf(g) == {e \in events : e.upload.group = g}

NoMember == -1
RemovedMember == -2
Owner == 2
NoRow == -1

MlsCommit == 2

Active(g, d) == role[<<g, d>>] >= 0

\* The row an upload becomes when it draws cursor c.
Row(u, c) == [cursor |-> c, upload |-> u]

SameKey(u, v) == u.author = v.author /\ u.message = v.message

\* Rows inserted by transactions that have not ended.
Uncommitted == {Row(req[h], drawn[h]) : h \in {k \in Handlers : pc[k] = "commit"}}

Init ==
    /\ scenario \in Scenarios
    /\ role = [p \in Groups \X Devices |-> NoMember]
    /\ applied = {}
    /\ events = {}
    /\ lastCursor = 0
    /\ expired = {}
    /\ position = [p \in Groups \X Readers |-> NoRow]
    /\ pc = [h \in Handlers |-> "idle"]
    /\ req = [h \in Handlers |-> None]
    /\ drawn = [h \in Handlers |-> 0]
    /\ seen = [h \in Handlers |-> NoRow]
    /\ after = [p \in Scopes \X Readers |-> 0]
    /\ got = [d \in Readers |-> {}]
    /\ acked = {}
    /\ overtaken = {}
    /\ earlier = [p \in Groups \X Devices |-> {}]

\* The handler answers: nothing of the request is kept.
Finish(h) ==
    /\ pc' = [pc EXCEPT ![h] = "idle"]
    /\ req' = [req EXCEPT ![h] = None]
    /\ drawn' = [drawn EXCEPT ![h] = 0]
    /\ seen' = [seen EXCEPT ![h] = NoRow]
-----------------------------------------------------------------------------
(* Membership.                                                             *)

CreateGroup(g, d) ==
    /\ <<g, d>> \in scenario.creators
    /\ \A e \in Devices : role[<<g, e>>] = NoMember
    /\ role' = [role EXCEPT ![<<g, d>>] = Owner]
    /\ UNCHANGED <<scenario, applied, earlier, table, position, handlers, reader,
                   acked>>

\* The author's row is locked while its role is checked and the target's row
\* is written; a correlation id already stored changes nothing.
ApplyMembershipOperation(o) ==
    /\ role[<<o.group, o.author>>] = Owner
    /\ \A p \in applied : p.correlation # o.correlation
    /\ o.remove => Active(o.group, o.target)
    /\ role' = [role EXCEPT ![<<o.group, o.target>>] =
                    IF o.remove THEN RemovedMember ELSE o.role]
    /\ applied' = applied \cup {o}
    /\ earlier' = [earlier EXCEPT ![<<o.group, o.target>>] = Cursors(EventsOf(o.group))]
    /\ UNCHANGED <<scenario, table, position, handlers, reader, acked>>
-----------------------------------------------------------------------------
(* upload_event.                                                           *)

\* An MLS commit must name an applied membership operation of its group, and
\* so must every other event that names one.
Correlated(u) ==
    /\ u.kind = MlsCommit => u.correlation # None
    /\ u.correlation # None =>
          \E o \in applied : o.correlation = u.correlation /\ o.group = u.group

UploadBegin(h, u) ==
    /\ pc[h] = "idle"
    /\ Active(u.group, u.author)
    /\ Correlated(u)
    /\ pc' = [pc EXCEPT ![h] = "dup"]
    /\ req' = [req EXCEPT ![h] = u]
    /\ UNCHANGED <<scenario, membership, table, position, drawn, seen, reader, acked>>

\* SELECT by (author, client_message_id): an identical event is answered with
\* its cursor, a different one is a conflict, none leads to the INSERT.
UploadLookup(h) ==
    /\ pc[h] = "dup"
    /\ LET same == {e \in events : SameKey(e.upload, req[h])}
       IN \/ /\ same = {}
             /\ pc' = [pc EXCEPT ![h] = "draw"]
             /\ UNCHANGED <<req, drawn, seen, acked>>
          \/ \E e \in same :
                /\ acked' = IF /\ e.upload.id = req[h].id
                               /\ e.upload.body = req[h].body
                            THEN acked \cup {Row(req[h], e.cursor)}
                            ELSE acked
                /\ Finish(h)
    /\ UNCHANGED <<scenario, membership, table, position, reader>>

\* INSERT, first half: the identity column draws the next cursor.
UploadDraw(h) ==
    /\ pc[h] = "draw"
    /\ lastCursor < scenario.maxCursor
    /\ lastCursor' = lastCursor + 1
    /\ drawn' = [drawn EXCEPT ![h] = lastCursor + 1]
    /\ pc' = [pc EXCEPT ![h] = "insert"]
    /\ UNCHANGED <<scenario, membership, events, expired, position, req, seen, reader,
                   acked>>

\* The unique indexes on event_id and (author, client_message_id).
NoUniqueIndex(u, rows) == FALSE
Violates(u, rows) ==
    \E e \in rows : SameKey(e.upload, u) \/ e.upload.id = u.id

\* INSERT, second half: wait for a transaction that inserted the same key,
\* then fail if that key is committed.
UploadInsert(h) ==
    /\ pc[h] = "insert"
    /\ ~Violates(req[h], Uncommitted)
    /\ \/ /\ Violates(req[h], events)
          /\ Finish(h)
       \/ /\ ~Violates(req[h], events)
          /\ pc' = [pc EXCEPT ![h] = "commit"]
          /\ UNCHANGED <<req, drawn, seen>>
    /\ UNCHANGED <<scenario, membership, table, position, reader, acked>>

\* COMMIT, with the notification it carries, and the answer, unless the handler
\* dies between the two.
Committed(h) == events \cup {Row(req[h], drawn[h])}

UploadCommit(h) ==
    /\ pc[h] = "commit"
    /\ events' = Committed(h)
    /\ acked' \in {acked, acked \cup {Row(req[h], drawn[h])}}
    /\ Finish(h)
    /\ UNCHANGED <<scenario, membership, lastCursor, expired, position, reader>>

\* The handler or its connection dies: the transaction is rolled back.
HandlerDies(h) ==
    /\ pc[h] # "idle"
    /\ Finish(h)
    /\ UNCHANGED <<scenario, membership, table, position, reader, acked>>
-----------------------------------------------------------------------------
(* sync_group and sync_global.                                             *)

\* The join on group_members: what the device may read in a scope.
InScope(d, s) ==
    {e \in events : s \in {e.upload.group, Global} /\ Active(e.upload.group, d)}

\* What the page query can return.
Candidates(d, s) ==
    {e \in InScope(d, s) : e.cursor > after[<<s, d>>] /\ e.cursor \notin expired}

\* ORDER BY event_cursor LIMIT PageLimit: every row left out comes later.
UnorderedPages(rows) ==
    {page \in SUBSET rows : Cardinality(page) = Min({PageLimit, Cardinality(rows)})}
Pages(rows) ==
    {page \in SUBSET rows :
        /\ Cardinality(page) = Min({PageLimit, Cardinality(rows)})
        /\ \A e \in page, f \in rows \ page : e.cursor < f.cursor}

\* The page reaches the device, which will ask after its last cursor.
Served(d, s) ==
    /\ \E page \in Pages(Candidates(d, s)) :
          /\ page # {}
          /\ got' = [got EXCEPT ![d] = @ \cup page]
          /\ after' = [after EXCEPT ![<<s, d>>] = Max(Cursors(page))]
          /\ overtaken' = overtaken \cup
                {drawn[h] : h \in {k \in Handlers :
                                     drawn[k] \in 1 .. Max(Cursors(page))}}
    /\ UNCHANGED <<scenario, membership, table, position, handlers, acked>>

\* The membership check and the page are two statements, taken as one: a removal
\* between them serves a page to a device that was a member when it asked, as if
\* the page had been read before the removal.
SyncGroup(d, g) == g \in scenario.scopes /\ Active(g, d) /\ Served(d, g)

SyncGlobal(d) == Global \in scenario.scopes /\ Served(d, Global)
-----------------------------------------------------------------------------
(* advance_group_cursor.                                                   *)

Advancing(k) == {h \in Handlers : pc[h] = "advance" /\ req[h].key = k}

\* SELECT ... FOR UPDATE locks the row, when there is one.
NobodyLocks(k) == {}
Lockers(k) == {h \in Advancing(k) : seen[h] # NoRow}

\* A position that is stored must not move back.
NotBehind(k, c) == position[k] # NoRow => c >= position[k]

AdvanceRead(h, g, d, c) ==
    /\ pc[h] = "idle"
    /\ Active(g, d)
    /\ Lockers(<<g, d>>) = {}
    /\ NotBehind(<<g, d>>, c)
    /\ pc' = [pc EXCEPT ![h] = "advance"]
    /\ req' = [req EXCEPT ![h] = [key |-> <<g, d>>, cursor |-> c]]
    /\ seen' = [seen EXCEPT ![h] = position[<<g, d>>]]
    /\ UNCHANGED <<scenario, membership, table, position, drawn, reader, acked>>

\* The cursor must not lie past the group's last event.
AnyCursor(g, c) == TRUE
WithinLog(g, c) == c <= Max(Cursors(EventsOf(g)) \cup {0})

\* That check, the upsert, which waits for a lock held by another handler, and
\* the commit.
AdvanceWrite(h) ==
    /\ pc[h] = "advance"
    /\ Lockers(req[h].key) \subseteq {h}
    /\ position' = IF WithinLog(req[h].key[1], req[h].cursor)
                   THEN [position EXCEPT ![req[h].key] = req[h].cursor]
                   ELSE position
    /\ Finish(h)
    /\ UNCHANGED <<scenario, membership, table, reader, acked>>
-----------------------------------------------------------------------------
(* Retention.                                                              *)

\* The clock passes the expires_at of an event.  All have one TTL, counted from the
\* start of their transactions, which need not be the order of their cursors.
EventExpires(c) ==
    /\ scenario.retention
    /\ c \in Cursors(events) \ expired
    /\ expired' = expired \cup {c}
    /\ UNCHANGED <<scenario, membership, events, lastCursor, position, handlers,
                   reader, acked>>

\* cleanup_expired_events: one DELETE of a batch of expired rows.
DeletesAnything == events
Deletable == {e \in events : e.cursor \in expired}

CleanupExpiredEvents ==
    /\ \E batch \in SUBSET Deletable : batch # {} /\ events' = events \ batch
    /\ UNCHANGED <<scenario, membership, lastCursor, expired, position, handlers,
                   reader, acked>>

Next ==
    \/ \E g \in Groups, d \in Devices : CreateGroup(g, d)
    \/ \E o \in scenario.operations : ApplyMembershipOperation(o)
    \/ \E h \in Handlers, u \in scenario.uploads : UploadBegin(h, u)
    \/ \E h \in Handlers :
          \/ UploadLookup(h) \/ UploadDraw(h) \/ UploadInsert(h) \/ UploadCommit(h)
          \/ HandlerDies(h) \/ AdvanceWrite(h)
    \/ \E h \in Handlers, g \in Groups, d \in Readers, c \in scenario.requested :
          AdvanceRead(h, g, d, c)
    \/ \E g \in Groups, d \in Readers : SyncGroup(d, g)
    \/ \E d \in Readers : SyncGlobal(d)
    \/ \E c \in Cursors(events) : EventExpires(c)
    \/ CleanupExpiredEvents

Spec == Init /\ [][Next]_vars
-----------------------------------------------------------------------------
(* Properties.                                                             *)

\* Uploads are idempotent on (author, client_message_id) while the event is kept:
\* two answers for one key name the same cursor, unless retention has removed
\* one of the two events.
UploadIdempotent ==
    \A a, b \in acked :
        SameKey(a.upload, b.upload) /\ a.cursor # b.cursor =>
            \E e \in {a, b} : e.cursor \in expired /\ e \notin events

\* An answered upload is durable: its event is in the table until its TTL has
\* passed, whatever handlers die and however retries overlap.
AckedIsStored ==
    \A a \in acked : a.cursor \in expired \/ \E e \in events : e.cursor = a.cursor

\* Events the reader may read and has moved past without receiving them.
Missed(d, s) ==
    {e \in InScope(d, s) : e.cursor <= after[<<s, d>>] /\ e \notin got[d]}

\* Paging through sync_group by cursor reaches every live event of the group.
NoEventSkipped ==
    \A g \in Groups, d \in Readers : Cursors(Missed(d, g)) \subseteq expired

\* Events that were in the log of their group before d was admitted to it.
Predating(d) == UNION {earlier[<<g, d>>] : g \in Groups}

\* The only live events paging can miss are those whose transaction was still
\* open, with a smaller cursor, when a page was served; and, with sync_global, those
\* of a group that its cursor had passed before the device was admitted.
SkippedWasInFlight ==
    \A d \in Readers, s \in Scopes :
        Cursors(Missed(d, s)) \subseteq
            expired \cup overtaken \cup (IF s = Global THEN Predating(d) ELSE {})

\* Every stored position is one the group's log has reached: advance_group_cursor
\* refuses a device that repeats its own position (:842-849) only after the
\* retention has deleted the events that led there.
PositionsStayReachable ==
    \A k \in DOMAIN position :
        \/ position[k] <= 0
        \/ \E c \in Cursors(EventsOf(k[1])) \cup (expired \ Cursors(events)) :
               c >= position[k]

\* device_group_cursors goes back only when two handlers raced to create the row
\* (advance_group_cursor, :831-840): once a position is stored, FOR UPDATE orders the
\* updates and none of them is lost.
RegressionOnlyOnCreation ==
    [][\A k \in DOMAIN position :
        position'[k] < position[k] => \E h \in Advancing(k) : seen[h] = NoRow]_vars
=============================================================================
