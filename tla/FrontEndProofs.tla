---------------------------- MODULE FrontEndProofs ---------------------------
(***************************************************************************)
(* The safety properties of FrontEnd, for any clients, any workload, any   *)
(* pool and any number of faults.                                          *)
(*                                                                         *)
(* That no wakeup is lost needs the state between the first query and the  *)
(* wait: a request that has a listener and has seen an empty page has been *)
(* notified of everything that was committed since.  That a row is handed  *)
(* out once needs that rows held by one fetch are neither consumed nor     *)
(* held by another.                                                        *)
(***************************************************************************)
EXTENDS FrontEnd, FiniteSetTheorems, SequenceTheorems, WellFoundedInduction, TLAPS

Labels == {"free", "rate", "listen", "query", "tx", "wait", "reply"}

Requests == UNION {w[c] : w \in Workloads, c \in Clients}

\* The types of the variables, as far as the proofs need them.
FrontEndTypeOK ==
    /\ workload \in Workloads
    /\ keyPackages \in Seq(Packages)
    /\ mailbox \in Seq(Welcomes)
    /\ locked \in [Handlers -> SUBSET (Packages \cup Welcomes)]
    /\ log \in Seq(Events)
    /\ phase \in [Handlers -> Labels]
    /\ ask \in [Handlers -> Requests \cup {None}]
    /\ since \in [Handlers -> Nat]
    /\ page \in [Handlers -> SUBSET Items]
    /\ after \in [Clients -> Nat]
    /\ got \in [Clients -> SUBSET Items]
    /\ handed \in [Packages \cup Welcomes -> Nat]

\* A request under way is one of the client's.
RequestsAreAsked == \A h \in Handlers : phase[h] # "free" => ask[h] \in workload[Sender[h]]

\* A request has selected nothing before its query, and a fetch nothing before its
\* commit.
NothingSelectedYet ==
    \A h \in Handlers :
        phase[h] \notin {"tx", "reply"} \/ (phase[h] = "tx" /\ ask[h].op # "poll")
            => page[h] = {}

\* A request with a listener that has found nothing.
FoundNothing(h) ==
    \/ phase[h] = "wait"
    \/ /\ phase[h] = "tx" /\ ask[h].op = "poll" /\ page[h] = {}
       /\ h \in listening \ waited

\* What was committed since the query of such a request has been notified to it.
NotifiedSinceQuery ==
    /\ \A h \in Handlers : phase[h] = "wait" => h \in listening
    /\ \A h \in Handlers : FoundNothing(h) /\ Readable(h) # {} => h \in notified

\* FOR UPDATE SKIP LOCKED: rows that are held are not consumed, and held once.
HeldOnce ==
    /\ \A h \in Handlers : locked[h] \cap consumed = {}
    /\ \A h, k \in Handlers : h # k => locked[h] \cap locked[k] = {}

\* A row that was handed out is consumed.
HandedAreConsumed ==
    \A i \in Packages \cup Welcomes : handed[i] # 0 => i \in consumed

IInv ==
    /\ FrontEndTypeOK
    /\ RequestsAreAsked
    /\ NothingSelectedYet
    /\ NotifiedSinceQuery
    /\ HeldOnce
    /\ HandedAreConsumed
    /\ HandedOutOnce
    /\ ConsumedWasSent

-----------------------------------------------------------------------------
\* A set of natural numbers that is not empty has a least element.
LEMMA LeastNat ==
    ASSUME NEW S \in SUBSET Nat, S # {}
    PROVE  \E n \in S : \A m \in S : n <= m
<1> DEFINE Less == {ss \in Nat \X Nat : ss[1] < ss[2]}
<1>1. IsWellFoundedOn(Less, Nat)
  BY NatLessThanWellFounded, Zenon DEF OpToRel
<1>2. PICK n \in S : \A m \in S : ~(<<m, n>> \in Less)
  <2> HIDE DEF Less
  <2> QED
    BY <1>1, WFMin
<1>3. \A m \in S : ~(m < n)
  BY <1>2
<1> QED
  BY <1>3

\* A bounded set of natural numbers that is not empty has a greatest element.
LEMMA MaxIsMember ==
    ASSUME NEW S \in SUBSET Nat, S # {}, NEW b \in Nat, \A n \in S : n <= b
    PROVE  Max(S) \in S
<1> DEFINE Bounds == {k \in Nat : \A n \in S : n <= k}
<1>1. PICK k \in Bounds : \A j \in Bounds : k <= j
  <2>1. Bounds \in SUBSET Nat /\ Bounds # {}
    OBVIOUS
  <2> HIDE DEF Bounds
  <2> QED
    BY <2>1, LeastNat
<1>2. k \in S
  <2> SUFFICES ASSUME k \notin S PROVE FALSE
    OBVIOUS
  <2>1. \A n \in S : n < k
    OBVIOUS
  <2>2. PICK n0 \in S : TRUE
    OBVIOUS
  <2>3. k - 1 \in Nat /\ \A n \in S : n <= k - 1
    BY <2>1, <2>2
  <2>4. k - 1 \in Bounds
    BY <2>3
  <2> QED
    BY <1>1, <2>4
<1> QED
  BY <1>1, <1>2 DEF Max

\* A page of unread events is not empty unless there are none: LIMIT is at least 1.
LEMMA PageOfUnread ==
    ASSUME NEW S \in SUBSET Nat, S # {}, NEW limit \in Nat \ {0}
    PROVE  PageOf(S, limit) # {}
<1>1. PICK n \in S : \A m \in S : n <= m
  BY LeastNat
<1>2. {m \in S : m <= n} = {n}
  <2>1. \A m \in S : m \in Nat /\ (m <= n => m = n) /\ n <= n
    BY <1>1
  <2> QED
    BY <2>1
<1>3. Cardinality({m \in S : m <= n}) = 1
  BY <1>2, FS_Singleton
<1> QED
  BY <1>1, <1>3 DEF PageOf

\* Inserting an id into a table keeps its type.
LEMMA InsertedType ==
    ASSUME NEW S, NEW rows \in Seq(S), NEW id \in S
    PROVE  Inserted(rows, id) \in Seq(S)
BY AppendProperties DEF Inserted

\* The rows a fetch takes are rows of its table that are neither consumed nor held.
LEMMA TakenAreFree ==
    ASSUME NEW S, NEW rows \in Seq(S), NEW k, NEW n,
           NEW i \in Oldest(rows, Takeable(k, rows), n)
    PROVE  i \in S /\ i \notin consumed /\ i \notin Held
<1>1. PICK j \in Takeable(k, rows) : i = rows[j]
  BY DEF Oldest
<1>2. j \in DOMAIN rows /\ rows[j] \notin consumed \cup lapsed \cup Held
  BY Zenon DEF Takeable
<1> QED
  BY <1>1, <1>2

-----------------------------------------------------------------------------
\* Empty tables and no request.
LEMMA InitIInv == Init => IInv
<1> SUFFICES ASSUME Init PROVE IInv
  OBVIOUS
<1>1. FrontEndTypeOK
  BY EmptySeq DEF Init, MailInit, FrontEndTypeOK, Labels
<1> QED
  BY <1>1 DEF Init, MailInit, IInv, RequestsAreAsked, NothingSelectedYet,
     NotifiedSinceQuery, FoundNothing, HeldOnce, HandedAreConsumed, HandedOutOnce,
     ConsumedWasSent

\* A request that fails gives back what it holds, and loses what was consumed for it.
LEMMA FailsIInv ==
    ASSUME IInv, NEW h \in Handlers, Fails(h)
    PROVE  IInv'
<1> USE DEF IInv, Release, GiveBack, client
<1>0. /\ UNCHANGED workload
      /\ \/ /\ phase' = [phase EXCEPT ![h] = "rate"] /\ phase[h] # "free"
            /\ UNCHANGED <<ask, since>>
         \/ /\ phase' = [phase EXCEPT ![h] = "free"]
            /\ ask' = [ask EXCEPT ![h] = None]
            /\ since' = [since EXCEPT ![h] = 0]
  BY DEF Fails, SendAgain, Done, Goto, Awaited
<1>01. /\ Release(h) /\ GiveBack(h) /\ UNCHANGED <<log, client, handed>>
      /\ lost' = lost \cup (page[h] \cap consumed)
  BY DEF Fails
<1>1. FrontEndTypeOK'
  <2>0. phase \in [Handlers -> Labels] /\ since \in [Handlers -> Nat]
    BY DEF FrontEndTypeOK
  <2> HIDE DEF IInv
  <2>1. phase' \in [Handlers -> Labels] /\ since' \in [Handlers -> Nat]
    BY <1>0, <2>0 DEF Labels
  <2> USE DEF IInv
  <2>2. ask' \in [Handlers -> Requests \cup {None}]
    BY <1>0 DEF FrontEndTypeOK
  <2> QED
    BY <1>0, <1>01, <2>1, <2>2 DEF FrontEndTypeOK
<1>2. RequestsAreAsked'
  BY <1>0, <1>01 DEF FrontEndTypeOK, RequestsAreAsked
<1>3. NothingSelectedYet'
  BY <1>0, <1>01 DEF FrontEndTypeOK, NothingSelectedYet
<1>4. NotifiedSinceQuery'
  BY <1>0, <1>01 DEF FrontEndTypeOK, NotifiedSinceQuery, FoundNothing, Readable, Unread
<1>5. HeldOnce'
  BY <1>0, <1>01 DEF FrontEndTypeOK, HeldOnce
<1>6. HandedAreConsumed' /\ HandedOutOnce'
  BY <1>0, <1>01 DEF HandedAreConsumed, HandedOutOnce
<1>7. ConsumedWasSent'
  BY <1>0, <1>01 DEF FrontEndTypeOK, ConsumedWasSent
<1> QED
  BY <1>1, <1>2, <1>3, <1>4, <1>5, <1>6, <1>7

\* A frame that reaches a free handler, a new one or one that is repeated.
LEMMA SendIInv ==
    ASSUME IInv, NEW h \in Handlers, NEW q \in workload[Sender[h]], NEW cursor \in Nat, NEW way,
           Send(h, q, cursor, way), UNCHANGED <<mail, log, handler, client, lost, handed>>
    PROVE  IInv'
<1> USE DEF IInv, Send, Goto, mail, handler, client
<1>1. q \in Requests
  <2>1. PICK c \in Clients : q \in workload[c]
    BY SenderAssumption
  <2>2. workload \in Workloads
    BY DEF FrontEndTypeOK
  <2> QED
    BY <2>1, <2>2 DEF Requests
<1>2. FrontEndTypeOK'
  BY <1>1 DEF FrontEndTypeOK, Labels
<1>3. RequestsAreAsked' /\ NothingSelectedYet'
  BY DEF RequestsAreAsked, NothingSelectedYet, FrontEndTypeOK
<1>4. NotifiedSinceQuery'
  BY DEF NotifiedSinceQuery, FoundNothing, Readable, Unread, FrontEndTypeOK
<1>5. HeldOnce' /\ HandedAreConsumed' /\ HandedOutOnce' /\ ConsumedWasSent'
  BY DEF HeldOnce, HandedAreConsumed, HandedOutOnce, ConsumedWasSent
<1> QED
  BY <1>2, <1>3, <1>4, <1>5

\* The query of a fetch takes rows that nobody has; that of a poll is empty only if
\* there is nothing to read.
LEMMA QueryIInv ==
    ASSUME IInv, NEW h \in Handlers, Query(h)
    PROVE  IInv'
<1> USE DEF IInv, Query, Goto, client, frame
<1>1. ask[h] \in workload[Sender[h]] /\ workload \in Workloads /\ Sender[h] \in Clients
  BY SenderAssumption DEF RequestsAreAsked, FrontEndTypeOK
<1>2. CASE ask[h].op = "poll"
  <2>1. /\ page' = [page EXCEPT ![h] = {log[n] : n \in PageOf(Readable(h), ask[h].limit)}]
        /\ UNCHANGED mail
    BY <1>2 DEF QuerySync, SyncRequests
  <2>2. {log[n] : n \in PageOf(Readable(h), ask[h].limit)} \subseteq Items
    <3>1. PageOf(Readable(h), ask[h].limit) \subseteq 1 .. Len(log)
      BY DEF PageOf, Readable, Unread, FrontEndTypeOK
    <3>2. \A n \in 1 .. Len(log) : log[n] \in Events
      BY DEF FrontEndTypeOK
    <3> QED
      BY <3>1, <3>2 DEF Items
  <2>3. ask[h].limit \in Nat \ {0}
    BY <1>1, <1>2, WorkloadsAssumption
  <2>4. page'[h] = {} => Readable(h) = {}
    <3>1. page'[h] = {log[n] : n \in PageOf(Readable(h), ask[h].limit)}
      BY <2>1 DEF FrontEndTypeOK
    <3>2. PageOf(Readable(h), ask[h].limit) # {} => page'[h] # {}
      BY <3>1
    <3>3. Readable(h) \in SUBSET Nat
      BY DEF Readable, Unread, FrontEndTypeOK
    <3> QED
      BY <2>3, <3>2, <3>3, PageOfUnread
  <2>5. UNCHANGED <<keyPackages, mailbox, consumed, lapsed, locked>>
    BY <2>1 DEF mail
  <2>6. FrontEndTypeOK'
    BY <2>1, <2>2, <2>5 DEF FrontEndTypeOK, Labels
  <2>7. RequestsAreAsked' /\ NothingSelectedYet'
    BY <1>1, <1>2, <2>1 DEF RequestsAreAsked, NothingSelectedYet, FrontEndTypeOK
  <2>8. NotifiedSinceQuery'
    <3>1. \A k \in Handlers : Readable(k)' = Readable(k)
      BY DEF Readable, Unread
    <3>2. \A k \in Handlers \ {h} : FoundNothing(k)' = FoundNothing(k)
      BY <2>1 DEF FoundNothing, FrontEndTypeOK
    <3>3. FoundNothing(h)' => page'[h] = {}
      BY DEF FoundNothing, FrontEndTypeOK
    <3>4. \A k \in Handlers : phase'[k] = "wait" => phase[k] = "wait"
      BY DEF FrontEndTypeOK
    <3> QED
      BY <2>4, <3>1, <3>2, <3>3, <3>4 DEF NotifiedSinceQuery
  <2>9. HeldOnce' /\ HandedAreConsumed' /\ HandedOutOnce'
    BY <2>5 DEF HeldOnce, HandedAreConsumed, HandedOutOnce
  <2>10. ConsumedWasSent'
    <3>1. page[h] = {}
      BY DEF NothingSelectedYet
    <3> QED
      BY <2>1, <2>5, <3>1 DEF ConsumedWasSent, FrontEndTypeOK
  <2> QED
    BY <2>6, <2>7, <2>8, <2>9, <2>10
<1>3. CASE ask[h].op # "poll"
  <2>1. /\ UNCHANGED <<keyPackages, mailbox, consumed, lapsed, page>>
        /\ \E S \in SUBSET (Packages \cup Welcomes) :
              /\ S \cap consumed = {} /\ S \cap Held = {}
              /\ locked' = [locked EXCEPT ![h] = S] \/ locked' = locked
    <3>1. CASE ask[h].op = "package"
      <4> DEFINE S == Oldest(keyPackages, Takeable(ask[h].of, keyPackages), 1)
      <4>1. S \subseteq Packages /\ S \cap consumed = {} /\ S \cap Held = {}
        BY TakenAreFree DEF FrontEndTypeOK
      <4>2. /\ UNCHANGED <<keyPackages, mailbox, consumed, lapsed, page>>
            /\ locked' = [locked EXCEPT ![h] = S]
        BY <3>1 DEF QuerySync, SyncRequests, TakeKeyPackage
      <4> HIDE DEF S
      <4> QED
        BY <4>1, <4>2
    <3>2. CASE ask[h].op = "welcomes"
      <4> DEFINE S == Oldest(mailbox, Takeable(Sender[h], mailbox), ask[h].limit)
      <4>1. S \subseteq Welcomes /\ S \cap consumed = {} /\ S \cap Held = {}
        BY TakenAreFree DEF FrontEndTypeOK
      <4>2. /\ UNCHANGED <<keyPackages, mailbox, consumed, lapsed, page>>
            /\ locked' = [locked EXCEPT ![h] = S]
        BY <3>2 DEF QuerySync, SyncRequests, TakeWelcomes
      <4> HIDE DEF S
      <4> QED
        BY <4>1, <4>2
    <3>3. CASE ask[h].op \notin SyncRequests
      <4>1. UNCHANGED <<keyPackages, mailbox, consumed, lapsed, page, locked>>
        BY <3>3 DEF mail
      <4>2. {} \in SUBSET (Packages \cup Welcomes)
        OBVIOUS
      <4> QED
        BY <4>1, <4>2
    <3> QED
      BY <1>3, <3>1, <3>2, <3>3 DEF SyncRequests
  <2>2. PICK S \in SUBSET (Packages \cup Welcomes) :
              /\ S \cap consumed = {} /\ S \cap Held = {}
              /\ locked' = [locked EXCEPT ![h] = S] \/ locked' = locked
    BY <2>1
  <2>3. UNCHANGED <<keyPackages, mailbox, consumed, lapsed, page>>
    BY <2>1
  <2>4. FrontEndTypeOK'
    BY <2>2, <2>3 DEF FrontEndTypeOK, Labels
  <2>5. RequestsAreAsked' /\ NothingSelectedYet'
    BY <1>1, <1>3, <2>3 DEF RequestsAreAsked, NothingSelectedYet, FrontEndTypeOK
  <2>6. NotifiedSinceQuery'
    BY <1>3, <2>3 DEF NotifiedSinceQuery, FoundNothing, Readable, Unread, FrontEndTypeOK
  <2>7. HeldOnce'
    <3>1. \A k \in Handlers : S \cap locked[k] = {}
      BY <2>2 DEF Held
    <3> QED
      BY <2>2, <2>3, <3>1 DEF HeldOnce, FrontEndTypeOK
  <2>8. HandedAreConsumed' /\ HandedOutOnce' /\ ConsumedWasSent'
    BY <2>3 DEF HandedAreConsumed, HandedOutOnce, ConsumedWasSent
  <2> QED
    BY <2>4, <2>5, <2>6, <2>7, <2>8
<1> QED
  BY <1>2, <1>3

\* The transaction of an upload notifies every listener of a new event; that of a
\* fetch consumes the rows it holds; that of a poll lets the request wait only if
\* it has a listener and found nothing.
LEMMA CommitIInv ==
    ASSUME IInv, NEW h \in Handlers, Commit(h)
    PROVE  IInv'
<1> USE DEF IInv, Commit, Goto, client, frame
<1>1. ask[h] \in workload[Sender[h]] /\ workload \in Workloads /\ Sender[h] \in Clients
  BY SenderAssumption DEF RequestsAreAsked, FrontEndTypeOK
<1>2. CASE CommitUpload(h)
  <2>1. ask[h].op \in {"upload", "publish", "invite"} /\ page[h] = {}
    BY <1>2 DEF CommitUpload, NothingSelectedYet
  <2>2. UNCHANGED <<consumed, lapsed, locked, page, handed>>
    BY <1>2 DEF CommitUpload, PublishKeyPackage, UploadWelcome, mail
  <2>3. /\ keyPackages' \in Seq(Packages) /\ mailbox' \in Seq(Welcomes)
        /\ log' \in Seq(Events)
    <3>1. CASE ask[h].op = "upload"
      <4>1. ask[h].event \in Events
        BY <1>1, <3>1, WorkloadsAssumption
      <4>2. UNCHANGED <<keyPackages, mailbox>>
        BY <1>2, <3>1 DEF CommitUpload, mail
      <4>3. log' = log \/ log' = Append(log, ask[h].event)
        BY <1>2, <3>1 DEF CommitUpload
      <4>4. Append(log, ask[h].event) \in Seq(Events)
        BY <4>1, AppendProperties DEF FrontEndTypeOK
      <4> QED
        BY <4>2, <4>3, <4>4 DEF FrontEndTypeOK
    <3>2. CASE ask[h].op = "publish"
      <4>1. ask[h].item \in Packages
        BY <1>1, <3>2, WorkloadsAssumption
      <4> QED
        BY <1>2, <3>2, <4>1, InsertedType
           DEF CommitUpload, FrontEndTypeOK, PublishKeyPackage
    <3>3. CASE ask[h].op = "invite"
      <4>1. ask[h].item \in Welcomes
        BY <1>1, <3>3, WorkloadsAssumption
      <4> QED
        BY <1>2, <3>3, <4>1, InsertedType
           DEF CommitUpload, FrontEndTypeOK, UploadWelcome
    <3> QED
      BY <2>1, <3>1, <3>2, <3>3
  <2>4. phase' = [phase EXCEPT ![h] = "reply"] /\ UNCHANGED workload
    BY <1>2 DEF CommitUpload
  <2>5. FrontEndTypeOK'
    BY <2>2, <2>3, <2>4 DEF FrontEndTypeOK, Labels
  <2>6. RequestsAreAsked' /\ NothingSelectedYet'
    BY <1>1, <2>1, <2>2, <2>4 DEF RequestsAreAsked, NothingSelectedYet, FrontEndTypeOK
  <2>7. NotifiedSinceQuery'
    <3>1. \/ log' = log /\ notified' = notified
          \/ notified' = notified \cup listening
      BY <1>2 DEF CommitUpload, Notifies
    <3> QED
      BY <2>2, <2>4, <3>1 DEF NotifiedSinceQuery, FoundNothing, Readable, Unread, FrontEndTypeOK
  <2>8. HeldOnce' /\ HandedAreConsumed' /\ HandedOutOnce' /\ ConsumedWasSent'
    BY <2>2 DEF HeldOnce, HandedAreConsumed, HandedOutOnce, ConsumedWasSent
  <2> QED
    BY <2>5, <2>6, <2>7, <2>8
<1>3. CASE CommitFetch(h)
  <2> USE DEF CommitFetch, Consume, Consumes
  <2>1. page[h] = {}
    BY <1>3 DEF NothingSelectedYet
  <2>2. FrontEndTypeOK'
    BY <1>3 DEF FrontEndTypeOK, Labels, Items
  <2>3. RequestsAreAsked' /\ NothingSelectedYet'
    BY <1>1, <1>3 DEF RequestsAreAsked, NothingSelectedYet, FrontEndTypeOK
  <2>4. NotifiedSinceQuery'
    BY <1>3 DEF NotifiedSinceQuery, FoundNothing, Readable, Unread, FrontEndTypeOK
  <2>5. HeldOnce'
    BY <1>3 DEF HeldOnce, FrontEndTypeOK
  <2>6. HandedAreConsumed' /\ HandedOutOnce'
    BY <1>3 DEF HandedAreConsumed, HandedOutOnce, HeldOnce, FrontEndTypeOK
  <2>7. ConsumedWasSent'
    BY <1>3, <2>1 DEF ConsumedWasSent, FrontEndTypeOK
  <2> QED
    BY <2>2, <2>3, <2>4, <2>5, <2>6, <2>7
<1>4. CASE CommitPoll(h)
  <2>1. UNCHANGED <<keyPackages, mailbox, consumed, lapsed, locked>>
    BY <1>4 DEF CommitPoll, mail
  <2> USE DEF CommitPoll
  <2>2. FrontEndTypeOK'
    BY <1>4, <2>1 DEF FrontEndTypeOK, Labels
  <2>3. RequestsAreAsked' /\ NothingSelectedYet'
    BY <1>1, <1>4 DEF RequestsAreAsked, NothingSelectedYet, FrontEndTypeOK
  <2>4. NotifiedSinceQuery'
    BY <1>4 DEF NotifiedSinceQuery, FoundNothing, Readable, Unread, FrontEndTypeOK
  <2>5. HeldOnce' /\ HandedAreConsumed' /\ HandedOutOnce' /\ ConsumedWasSent'
    BY <1>4, <2>1 DEF HeldOnce, HandedAreConsumed, HandedOutOnce, ConsumedWasSent
  <2> QED
    BY <2>2, <2>3, <2>4, <2>5
<1> QED
  BY <1>2, <1>3, <1>4
\* An answer that arrives moves what was selected to the client.
LEMMA DeliverIInv ==
    ASSUME IInv, NEW h \in Handlers, Deliver(h)
    PROVE  IInv'
<1> USE DEF IInv, Deliver, Done, Release, Goto
<1>0. UNCHANGED <<keyPackages, mailbox, consumed, lapsed, locked>>
  BY DEF mail
<1> DEFINE c == Sender[h]
<1>c. c \in Clients
  BY SenderAssumption
<1>1. after' \in [Clients -> Nat] /\ got' \in [Clients -> SUBSET Items]
  <2> DEFINE S == {after[c]} \cup {n \in 1 .. Len(log) : log[n] \in page[h]}
  <2>1. after[c] \in Nat /\ Len(log) \in Nat
    BY <1>c, LenProperties DEF FrontEndTypeOK
  <2>2. S \in SUBSET Nat /\ S # {} /\ \A n \in S : n <= after[c] + Len(log)
    BY <2>1
  <2>3. Max(S) \in Nat
    <3> HIDE DEF S
    <3>1. after[c] + Len(log) \in Nat
      BY <2>1
    <3>2. Max(S) \in S
      BY <2>2, <3>1, MaxIsMember
    <3> QED
      BY <2>2, <3>2
  <2>4. after' = [after EXCEPT ![c] = Max(S)]
    OBVIOUS
  <2>5. got' = [got EXCEPT ![c] = got[c] \cup page[h]]
    BY <1>c DEF FrontEndTypeOK
  <2> HIDE DEF S, c
  <2> QED
    BY <1>c, <2>3, <2>4, <2>5 DEF FrontEndTypeOK
<1>2. FrontEndTypeOK'
  BY <1>0, <1>1 DEF FrontEndTypeOK, Labels
<1>3. RequestsAreAsked' /\ NothingSelectedYet'
  BY DEF FrontEndTypeOK, RequestsAreAsked, NothingSelectedYet
<1>4. NotifiedSinceQuery'
  BY DEF FrontEndTypeOK, NotifiedSinceQuery, FoundNothing, Readable, Unread
<1>5. HeldOnce' /\ HandedAreConsumed' /\ HandedOutOnce'
  BY <1>0 DEF HeldOnce, HandedAreConsumed, HandedOutOnce
<1>6. ConsumedWasSent'
  BY <1>0, <1>c DEF FrontEndTypeOK, ConsumedWasSent
<1> QED
  BY <1>2, <1>3, <1>4, <1>5, <1>6

\* Every step of a request, and the clock, preserves the invariant.
LEMMA NextIInv == IInv /\ [Next]_vars => IInv'
<1> SUFFICES ASSUME IInv, [Next]_vars PROVE IInv'
  OBVIOUS
<1>1. ASSUME NEW h \in Handlers,
             \/ RequestFails(h) \/ Dropped(h) \/ RelayGivesUp(h)
             \/ AcquireTimeout(h) \/ Conflict(h) \/ Garbled(h)
      PROVE  IInv'
  BY <1>1, FailsIInv
     DEF RequestFails, Dropped, RelayGivesUp, AcquireTimeout, Conflict, Garbled, Awaited
<1>2. ASSUME NEW h \in Handlers, Query(h) \/ Commit(h) \/ Deliver(h)
      PROVE  IInv'
  BY <1>2, QueryIInv, CommitIInv, DeliverIInv
<1> USE DEF IInv, Goto, mail, client, frame, handler
<1>3. ASSUME UNCHANGED <<consumed, locked, page, got, lost, handed>>
      PROVE  HeldOnce' /\ HandedAreConsumed' /\ HandedOutOnce' /\ ConsumedWasSent'
  BY <1>3 DEF HeldOnce, HandedAreConsumed, HandedOutOnce, ConsumedWasSent
<1>4. ASSUME NEW h \in Handlers, NEW q \in workload[Sender[h]], Ask(h, q)
      PROVE  IInv'
  <2>1. after[Sender[h]] \in Nat
    BY SenderAssumption DEF FrontEndTypeOK
  <2> HIDE DEF IInv
  <2> QED
    BY <1>4, <2>1, SendIInv DEF Ask
<1>5. ASSUME NEW h \in Handlers, RateLimit(h)
      PROVE  IInv'
  <2> USE DEF RateLimit
  <2>2. FrontEndTypeOK'
    BY <1>5 DEF FrontEndTypeOK, Labels
  <2>3. RequestsAreAsked' /\ NothingSelectedYet'
    BY <1>5 DEF RequestsAreAsked, NothingSelectedYet, FrontEndTypeOK
  <2>4. NotifiedSinceQuery'
    BY <1>5 DEF NotifiedSinceQuery, FoundNothing, Readable, Unread, FrontEndTypeOK
  <2> QED
    BY <1>5, <1>3, <2>2, <2>3, <2>4
<1>6. ASSUME NEW h \in Handlers, Listen(h)
      PROVE  IInv'
  <2> USE DEF Listen
  <2>2. FrontEndTypeOK'
    BY <1>6 DEF FrontEndTypeOK, Labels
  <2>3. RequestsAreAsked' /\ NothingSelectedYet'
    BY <1>6 DEF RequestsAreAsked, NothingSelectedYet, FrontEndTypeOK
  <2>4. NotifiedSinceQuery'
    BY <1>6 DEF NotifiedSinceQuery, FoundNothing, Readable, Unread, FrontEndTypeOK
  <2> QED
    BY <1>6, <1>3, <2>2, <2>3, <2>4
<1>7. ASSUME NEW h \in Handlers, WakeUp(h)
      PROVE  IInv'
  <2> USE DEF WakeUp
  <2>2. FrontEndTypeOK'
    BY <1>7 DEF FrontEndTypeOK, Labels
  <2>3. RequestsAreAsked' /\ NothingSelectedYet'
    BY <1>7 DEF RequestsAreAsked, NothingSelectedYet, FrontEndTypeOK
  <2>4. NotifiedSinceQuery'
    BY <1>7 DEF NotifiedSinceQuery, FoundNothing, Readable, Unread, FrontEndTypeOK
  <2> QED
    BY <1>7, <1>3, <2>2, <2>3, <2>4
<1>8. ASSUME NEW w \in Welcomes, Lapse(w)
      PROVE  IInv'
  <2> USE DEF Lapse, WelcomeLapses
  <2>2. FrontEndTypeOK'
    BY <1>8 DEF FrontEndTypeOK, Labels
  <2>3. RequestsAreAsked' /\ NothingSelectedYet'
    BY <1>8 DEF RequestsAreAsked, NothingSelectedYet, FrontEndTypeOK
  <2>4. NotifiedSinceQuery'
    BY <1>8 DEF NotifiedSinceQuery, FoundNothing, Readable, Unread, FrontEndTypeOK
  <2> QED
    BY <1>8, <1>3, <2>2, <2>3, <2>4
<1>9. ASSUME NEW h \in Handlers, ClientTimesOut(h)
      PROVE  IInv'
  <2>1. UNCHANGED <<mail, log, handler, client, lost, handed>>
    BY <1>9 DEF ClientTimesOut
  <2>2. CASE leg[h] = "ws"
    <3>1. PICK k \in Handlers : Sender[k] = Sender[h] /\ Send(k, ask[h], since[h], "https")
      BY <1>9, <2>2 DEF ClientTimesOut
    <3>2. ask[h] \in workload[Sender[k]] /\ since[h] \in Nat
      BY <1>9, <3>1 DEF ClientTimesOut, Awaited, RequestsAreAsked, FrontEndTypeOK
    <3> HIDE DEF IInv
    <3> QED
      BY <2>1, <3>1, <3>2, SendIInv
  <2>3. CASE leg[h] # "ws"
    <3>1. UNCHANGED <<workload, phase, ask, since, leg>>
      BY <1>9, <2>3 DEF ClientTimesOut
    <3> QED
      BY <1>3, <2>1, <3>1 DEF FrontEndTypeOK, RequestsAreAsked, NothingSelectedYet,
         NotifiedSinceQuery, FoundNothing, Readable, Unread
  <2> QED
    BY <2>2, <2>3
<1>10. CASE UNCHANGED vars
  BY <1>3, <1>10 DEF vars, FrontEndTypeOK, RequestsAreAsked, NothingSelectedYet,
     NotifiedSinceQuery, FoundNothing, Readable, Unread
<1> HIDE DEF IInv
<1> QED
  BY <1>1, <1>2, <1>4, <1>5, <1>6, <1>7, <1>8, <1>9, <1>10 DEF Next, Step

\* The invariant holds in every reachable state.
THEOREM Invariance == Spec => []IInv
BY InitIInv, NextIInv, PTL DEF Spec

-----------------------------------------------------------------------------
\* A long-poll that waits has been notified of every event committed since its query.
THEOREM WakeupsArrive == Spec => []NoLostWakeup
<1>1. IInv => NoLostWakeup
  BY DEF IInv, NotifiedSinceQuery, FoundNothing, NoLostWakeup
<1> QED
  BY <1>1, Invariance, PTL

\* fetch_key_package and fetch_welcomes hand out no row twice.
THEOREM ConsumeOnce == Spec => []HandedOutOnce
<1>1. IInv => HandedOutOnce
  BY DEF IInv
<1> QED
  BY <1>1, Invariance, PTL

\* A consumed row is with a client, on its way, or in an answer that was lost.
THEOREM NothingConsumedUnsent == Spec => []ConsumedWasSent
<1>1. IInv => ConsumedWasSent
  BY DEF IInv
<1> QED
  BY <1>1, Invariance, PTL
=============================================================================
