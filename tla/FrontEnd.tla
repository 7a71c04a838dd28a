------------------------------ MODULE FrontEnd -------------------------------
(***************************************************************************)
(* A client's request on its way through a relay (services/relay/src/      *)
(* main.rs) to the handler of services/core-api/src/main.rs and back: rate *)
(* limit, subscription, dispatch, long-poll, encoding of the answer.       *)
(*                                                                         *)
(* The client's sender (messenger-transport, NetworkSender) tries the      *)
(* relay's WebSocket first and repeats the same frame over HTTPS if that   *)
(* fails.  Any failure looks the same to it: an error status of core-api   *)
(* makes the relay close the socket or answer with an error status.        *)
(*                                                                         *)
(* The client has a timer of its own.  When it stops waiting, the handler  *)
(* is not stopped with it: websocket_loop forwards the frame without       *)
(* watching the socket, so the handler goes on beside the repetition, with *)
(* its listener and its locks, until it answers to nobody or the relay's   *)
(* timer of 20 s drops it.  Requests are therefore kept by handler, and    *)
(* one device may have several under way, at most one of them awaited.     *)
(*                                                                         *)
(* A SyncRequest over WebSocket is a long-poll: the handler takes a        *)
(* listener, which keeps a connection of the pool until the handler ends,  *)
(* and waits on it if the first page is empty.  Its own timer of 20 s is   *)
(* set after the relay's timer of 20 s, so the relay gives up first; the   *)
(* handler is then dropped with the connection to the relay.               *)
(*                                                                         *)
(* Commits are notified to every listener, whatever their group.  Cursors  *)
(* are positions in the order of commit: that they may be drawn in another *)
(* order is the subject of DeliveryService.                                *)
(***************************************************************************)
EXTENDS Mailboxes, FiniteSetsExt

CONSTANTS
    Events,         \* events clients upload
    Audience,       \* the clients that are members of each event's group
    Workloads,      \* what clients may be after: the requests of each
    Size,           \* encoded size of each event, package and welcome
    FrameLimit,     \* MAX_FRAME_SIZE
    MaxConnections, \* connections of the pool
    MaxFaults,      \* bound, by workload: requests that fail, are refused or given up
    None            \* the absent value

Items == Events \cup Packages \cup Welcomes

ASSUME AudienceAssumption == Audience \in [Events -> SUBSET Clients]
ASSUME SizeAssumption == Size \in [Items -> Nat] /\ \A i \in Items : Size[i] <= FrameLimit
ASSUME FrontEndBounds ==
    /\ MaxConnections \in Nat \ {0}
    /\ FrameLimit \in Nat
    /\ MaxFaults \in [Workloads -> Nat]

\* The Delivery Service clamps the limit of a page to 1 .. MAX_SYNC_BATCH.
ASSUME WorkloadsAssumption ==
    \A w \in Workloads : \A c \in Clients : \A q \in w[c] :
        /\ q.op = "poll" => q.limit \in Nat \ {0}
        /\ q.op = "upload" => q.event \in Events
        /\ q.op = "publish" => q.item \in Packages
        /\ q.op = "invite" => q.item \in Welcomes

VARIABLES
    workload,       \* the requests each client sends in this behaviour
    log,            \* committed group_events, in order
    phase,          \* how far each handler is
    ask,            \* the request of each handler
    since,          \* the cursor in it
    leg,            \* did it come over "ws" or, after a failure, "https"?
    abandoned,      \* handlers at work whose client waits no more
    listening,      \* handlers with a listener
    notified,       \* listeners with a notification to receive
    waited,         \* handlers whose one wait is over
    page,           \* what the dispatch of each handler has selected
    after,          \* client: cursor it asks after
    got,            \* client: what it has received
    lost,           \* rows consumed for an answer that did not arrive (history)
    handed,         \* how often each row was consumed (history)
    faults          \* faults so far

frame == <<ask, since, leg>>
handler == <<listening, notified, waited, page>>
client == <<after, got>>
vars == <<workload, mail, log, phase, frame, abandoned, handler, client, lost, handed, faults>>

Init ==
    /\ workload \in Workloads
    /\ MailInit
    /\ log = <<>>
    /\ phase = [h \in Handlers |-> "free"]
    /\ ask = [h \in Handlers |-> None]
    /\ since = [h \in Handlers |-> 0]
    /\ leg = [h \in Handlers |-> "ws"]
    /\ abandoned = {}
    /\ listening = {}
    /\ notified = {}
    /\ waited = {}
    /\ page = [h \in Handlers |-> {}]
    /\ after = [c \in Clients |-> 0]
    /\ got = [c \in Clients |-> {}]
    /\ lost = {}
    /\ handed = [i \in Packages \cup Welcomes |-> 0]
    /\ faults = 0

\* The client waits for the answer of this handler.
Awaited(h) == phase[h] # "free" /\ h \notin abandoned

\* FrameType::SyncRequest, operations 0 and 1, 2 and 3.
SyncRequests == {"poll", "package", "welcomes"}

LongPoll(h) == leg[h] = "ws" /\ ask[h].op \in SyncRequests

\* Connections in use: listeners keep theirs, transactions give it back.  That of a
\* poll only reads, and is over with its query.
InUse ==
    Cardinality(listening) +
    Cardinality({h \in Handlers : phase[h] = "tx" /\ ask[h].op # "poll"})
Free == InUse < MaxConnections

\* acquire_timeout passes only when listeners hold all connections: those last
\* for seconds, transactions do not.
Jammed == Cardinality(listening) = MaxConnections

\* Every step of a handler moves it on.
Goto(h, p) == phase' = [phase EXCEPT ![h] = p] /\ UNCHANGED workload
-----------------------------------------------------------------------------
(* The client and the relay.                                               *)

\* The frame reaches a new handler: any one that is free, they differ in name only.
Spare(c) == CHOOSE h \in Handlers : Sender[h] = c /\ phase[h] = "free"

Send(h, q, cursor, way) ==
    /\ phase[h] = "free"
    /\ h = Spare(Sender[h])
    /\ Goto(h, "rate")
    /\ ask' = [ask EXCEPT ![h] = q]
    /\ since' = [since EXCEPT ![h] = cursor]
    /\ leg' = [leg EXCEPT ![h] = way]

\* A client sends one frame after the other.
Ask(h, q) ==
    /\ \A k \in Handlers : Sender[k] = Sender[h] => ~Awaited(k)
    /\ Send(h, q, after[Sender[h]], "ws")
    /\ UNCHANGED <<mail, log, abandoned, handler, client, lost, handed, faults>>

\* The request is over for the handler: whatever it holds is given back.
Release(h) ==
    /\ listening' = listening \ {h}
    /\ notified' = notified \ {h}
    /\ waited' = waited \ {h}
    /\ page' = [page EXCEPT ![h] = {}]

Done(h) ==
    /\ Goto(h, "free")
    /\ ask' = [ask EXCEPT ![h] = None]
    /\ since' = [since EXCEPT ![h] = 0]
    /\ leg' = [leg EXCEPT ![h] = "ws"]
    /\ abandoned' = abandoned \ {h}

\* An awaited WebSocket frame is sent again over HTTPS, to a new handler, which
\* takes the place of the one that has ended.
SendAgain(h) ==
    /\ Goto(h, "rate")
    /\ leg' = [leg EXCEPT ![h] = "https"]
    /\ UNCHANGED <<ask, since, abandoned>>

\* The handler ends and its answer reaches nobody.
Fails(h) ==
    /\ \/ Awaited(h) /\ leg[h] = "ws" /\ SendAgain(h)
       \/ ~(Awaited(h) /\ leg[h] = "ws") /\ Done(h)
    /\ Release(h)
    /\ GiveBack(h)
    /\ lost' = lost \cup (page[h] \cap consumed)
    /\ UNCHANGED <<log, client, handed>>

\* A refused token, a lost connection, the relay's timer: at any await.
RequestFails(h) ==
    /\ Awaited(h)
    /\ faults < MaxFaults[workload]
    /\ faults' = faults + 1
    /\ Fails(h)

\* A handler without a client: the relay has seen an HTTPS client hang up, or its
\* timer passes, or the answer has nobody to go to.
Dropped(h) ==
    /\ h \in abandoned
    /\ Fails(h)
    /\ UNCHANGED faults

\* The relay's timer ends an idle wait.
RelayGivesUp(h) ==
    /\ phase[h] = "wait"
    /\ Fails(h)
    /\ UNCHANGED faults

\* The client's own timer, which is no fault where the handler waits: the handler
\* goes on, and over WebSocket the same frame is sent to another one.
ClientTimesOut(h) ==
    /\ Awaited(h)
    /\ \/ phase[h] = "wait" /\ UNCHANGED faults
       \/ phase[h] # "wait" /\ faults < MaxFaults[workload] /\ faults' = faults + 1
    /\ \/ /\ leg[h] = "ws"
          /\ \E k \in Handlers :
                Sender[k] = Sender[h] /\ Send(k, ask[h], since[h], "https")
       \/ leg[h] = "https" /\ UNCHANGED <<workload, phase, frame>>
    /\ abandoned' = abandoned \cup {h}
    /\ UNCHANGED <<mail, log, handler, client, lost, handed>>

\* PoolOptions::acquire_timeout, in the rate limiter or in dispatch.
AcquireTimeout(h) ==
    /\ phase[h] \in {"rate", "query"}
    /\ Jammed
    /\ Fails(h)
    /\ UNCHANGED faults
-----------------------------------------------------------------------------
(* handle_binary.                                                          *)

\* check_rate_limit is a statement of its own; what it refuses, it refuses
\* before anything is done (RequestFails).
RateLimit(h) ==
    /\ phase[h] = "rate"
    /\ Free
    /\ Goto(h, IF LongPoll(h) THEN "listen" ELSE "query")
    /\ UNCHANGED <<mail, log, frame, abandoned, handler, client, lost, handed, faults>>

\* PgListener::connect_with and LISTEN, before the first query; without a
\* connection the request goes on, and will not wait.
Listen(h) ==
    /\ phase[h] = "listen"
    /\ listening' = IF Free THEN listening \cup {h} ELSE listening
    /\ Goto(h, "query")
    /\ UNCHANGED <<mail, log, frame, abandoned, notified, waited, page, client, lost,
                   handed, faults>>

\* Members' events after a cursor, in order.
Unread(c, cursor) == {n \in cursor + 1 .. Len(log) : c \in Audience[log[n]]}

\* ORDER BY event_cursor LIMIT.
NewestFirst(unread, limit) ==
    {n \in unread : Cardinality({m \in unread : m >= n}) <= limit}
PageOf(unread, limit) ==
    {n \in unread : Cardinality({m \in unread : m <= n}) <= limit}

\* What the query of a poll finds.
Readable(h) == Unread(Sender[h], since[h])

\* dispatch, SyncRequest: the query of the operation, which locks what it takes.
QuerySync(h) ==
    \/ /\ ask[h].op = "poll"
       /\ page' = [page EXCEPT ![h] = {log[n] : n \in PageOf(Readable(h), ask[h].limit)}]
       /\ UNCHANGED mail
    \/ /\ ask[h].op = "package"
       /\ TakeKeyPackage(h, ask[h].of)
       /\ UNCHANGED page
    \/ /\ ask[h].op = "welcomes"
       /\ TakeWelcomes(h, ask[h].limit)
       /\ UNCHANGED page

Query(h) ==
    /\ phase[h] = "query"
    /\ Free
    /\ IF ask[h].op \in SyncRequests THEN QuerySync(h) ELSE UNCHANGED <<mail, page>>
    /\ Goto(h, "tx")
    /\ UNCHANGED <<log, frame, abandoned, listening, notified, waited, client, lost, handed,
                   faults>>

\* pg_notify reaches every session that listens, also before it waits.
NotifiesWaiting == {h \in listening : phase[h] = "wait"}
Notifies == notified \cup listening

\* A key package id that is taken is refused, also when the request is a repetition.
Conflicting(h) == ask[h].op = "publish" /\ ask[h].item \in ToSet(keyPackages)

\* dispatch, UploadEnvelope: what the transaction writes.  An event that is in
\* the log already is answered as a duplicate, without a notification.
CommitUpload(h) ==
    /\ \/ /\ ask[h].op = "upload"
          /\ IF ask[h].event \in ToSet(log)
             THEN UNCHANGED <<log, notified>>
             ELSE log' = Append(log, ask[h].event) /\ notified' = Notifies
          /\ UNCHANGED mail
       \/ /\ ask[h].op = "publish"
          /\ ~Conflicting(h)
          /\ PublishKeyPackage(ask[h].item)
          /\ UNCHANGED <<log, notified>>
       \/ ask[h].op = "invite" /\ UploadWelcome(ask[h].item) /\ UNCHANGED <<log, notified>>
    /\ Goto(h, "reply")
    /\ UNCHANGED <<page, handed>>

\* The rows a fetch has locked are consumed before they are sent.
CommitFetch(h) ==
    /\ ask[h].op \in {"package", "welcomes"}
    /\ Consume(h)
    /\ page' = [page EXCEPT ![h] = locked[h]]
    /\ handed' = [i \in DOMAIN handed |-> handed[i] + (IF i \in locked[h] THEN 1 ELSE 0)]
    /\ Goto(h, "reply")
    /\ UNCHANGED <<log, notified>>

\* A first page that is empty is kept back, if there is a listener.
CommitPoll(h) ==
    /\ ask[h].op = "poll"
    /\ Goto(h, IF page[h] = {} /\ h \in listening \ waited
                 THEN "wait" ELSE "reply")
    /\ UNCHANGED <<mail, log, page, handed, notified>>

Commit(h) ==
    /\ phase[h] = "tx"
    /\ CommitUpload(h) \/ CommitFetch(h) \/ CommitPoll(h)
    /\ UNCHANGED <<frame, abandoned, listening, waited, client, lost, faults>>

Conflict(h) ==
    /\ phase[h] = "tx"
    /\ Conflicting(h)
    /\ Fails(h)
    /\ UNCHANGED faults

\* listener.recv() returns: the request is dispatched once more, and answered.
\* The listener is kept until then, but is not waited on again.
WakeUp(h) ==
    /\ phase[h] = "wait"
    /\ h \in notified
    /\ Goto(h, "query")
    /\ waited' = waited \cup {h}
    /\ notified' = notified \ {h}
    /\ UNCHANGED <<mail, log, frame, abandoned, listening, page, client, lost, handed,
                   faults>>
-----------------------------------------------------------------------------
(* The answer.                                                             *)

\* TransportFrame::encode refuses a body past the limit.
Encodable(h) == MapThenSumSet(LAMBDA i : Size[i], page[h]) <= FrameLimit

Deliver(h) ==
    /\ phase[h] = "reply"
    /\ Awaited(h)
    /\ Encodable(h)
    /\ got' = [got EXCEPT ![Sender[h]] = @ \cup page[h]]
    /\ after' = [after EXCEPT ![Sender[h]] =
                    Max({@} \cup {n \in 1 .. Len(log) : log[n] \in page[h]})]
    /\ Done(h)
    /\ Release(h)
    /\ UNCHANGED <<mail, log, lost, handed, faults>>

\* cbor_response sends an empty body with status 200 instead, which the relay
\* cannot decode.
Garbled(h) ==
    /\ phase[h] = "reply"
    /\ ~Encodable(h)
    /\ Fails(h)
    /\ UNCHANGED faults
-----------------------------------------------------------------------------
Step(h) ==
    \/ RateLimit(h) \/ Listen(h) \/ Query(h) \/ Commit(h) \/ Conflict(h) \/ WakeUp(h)
    \/ Deliver(h) \/ Garbled(h) \/ RelayGivesUp(h) \/ AcquireTimeout(h) \/ Dropped(h)

Lapse(w) ==
    /\ WelcomeLapses(w)
    /\ UNCHANGED <<workload, log, phase, frame, abandoned, handler, client, lost, handed,
                   faults>>

Next ==
    \/ \E h \in Handlers : Step(h) \/ RequestFails(h) \/ ClientTimesOut(h)
    \/ \E h \in Handlers : \E q \in workload[Sender[h]] : Ask(h, q)
    \/ \E w \in Welcomes : Lapse(w)

\* A device goes on polling, or asking for welcomes.
AskAgain(c) ==
    \E h \in Handlers : \E q \in workload[c] :
        Sender[h] = c /\ q.op \in {"poll", "welcomes"} /\ Ask(h, q)

(* A handler goes on by itself, the pool serves its waiters in turn, and a *)
(* device that polls or asks for welcomes does so again and again.         *)
Fairness ==
    /\ \A h \in Handlers : WF_vars(Step(h)) /\ SF_vars(RateLimit(h) \/ Query(h))
    /\ \A c \in Clients : SF_vars(AskAgain(c))

Spec == Init /\ [][Next]_vars /\ Fairness
-----------------------------------------------------------------------------
(* Properties.                                                             *)

\* "Subscribe before the first query so a concurrent commit cannot be lost between
\* observing an empty page and beginning to wait" (core-api main.rs:165): a handler
\* that waits without a notification has nothing to read.
NoLostWakeup ==
    \A h \in Handlers : phase[h] = "wait" /\ Readable(h) # {} => h \in notified

\* "KeyPackage consume-once flow" (docs/PROGRESS.md): two fetches never get the same
\* key package or welcome, however they overlap, fail and are repeated; also a fetch
\* the client gave up, whose handler is still at work, and its repetition.
HandedOutOnce == \A i \in Packages \cup Welcomes : handed[i] <= 1

\* A row is consumed only by being put into an answer: it is with a client, on its
\* way, or in an answer that did not arrive.  Nothing else is given up.
ConsumedWasSent ==
    \A i \in consumed :
        \/ \E c \in Clients : i \in got[c]
        \/ \E h \in Handlers : i \in page[h]
        \/ i \in lost

\* The page a poll of c would be answered with cannot be encoded.
TooLarge(c) ==
    \E q \in workload[c] :
        /\ q.op = "poll"
        /\ MapThenSumSet(LAMBDA n : Size[log[n]], PageOf(Unread(c, after[c]), q.limit))
               > FrameLimit

\* Events reach every member that goes on polling, though idle waits are cut off by
\* the relay or given up by the client, requests fail, and listeners, also those of
\* abandoned handlers, may hold every connection that queries need; except that a
\* page too large for a frame is never delivered.
EventsArrive ==
    \A e \in Events : \A c \in Audience[e] :
        /\ e \in ToSet(log)
        /\ \E q \in workload[c] : q.op = "poll"
        ~> e \in got[c] \/ TooLarge(c)

\* A welcome reaches its device unless it expires or the answer it is put into is
\* lost, which is for good.
WelcomesArrive ==
    \A w \in Welcomes :
        w \in ToSet(mailbox)
            ~> w \in got[Addressee[w]] \cup lapsed \cup lost
=============================================================================
