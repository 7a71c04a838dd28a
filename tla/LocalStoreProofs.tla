-------------------------- MODULE LocalStoreProofs --------------------------
(***************************************************************************)
(* The safety properties of LocalStore and of UploadPipeline, for any      *)
(* identifiers, any batches and any bounds.                                *)
(*                                                                         *)
(* The outbox invariants are not inductive one by one: retry_message's     *)
(* second statement sets RetryScheduled without looking at the row, which  *)
(* is harmless only because the message whose retry is half done is still  *)
(* in the outbox with its attempt counted.  IInv adds that fact, and that  *)
(* every row has an identifier drawn before, so that create_message never  *)
(* writes over a row.                                                      *)
(*                                                                         *)
(* Every step of the pipeline is a step of LocalStore or leaves the store  *)
(* alone, so IInv holds there too.  PipeInv adds what ties the store to    *)
(* the service; from it the pipeline implements the safety part of         *)
(* OfflineSend and never takes a delivery back.                            *)
(***************************************************************************)
EXTENDS UploadPipeline, FiniteSetTheorems, WellFoundedInduction, TLAPS

\* A stored message has an identifier that was drawn before.
RowsWereIssued == \A m \in MessageIds : status[m] # NoRow => m \in issued

IInv ==
    /\ TypeOK
    /\ PendingInOutbox
    /\ SettledNotQueued
    /\ RetryScheduledWasAttempted
    /\ ReferentialIntegrity
    /\ RetryInProgressIsQueued
    /\ RowsWereIssued

USE DEF NoRow, Draft, Queued, Encrypting, ReadyToUpload, Uploading,
        ServerAccepted, Delivered, Read, RetryScheduled, FailedPermanent,
        Cancelled, MessageStatus, Active, Removed

-----------------------------------------------------------------------------
\* The number of rows an ingested batch inserts is a natural number, and it is
\* positive when the batch brings a new event.
LEMMA NewEventsCount ==
    ASSUME NEW batch
    PROVE  /\ Cardinality(NewEvents(batch)) \in Nat
           /\ NewEvents(batch) # {} => Cardinality(NewEvents(batch)) > 0
<1>1. NewEvents(batch) \subseteq Events
  BY DEF NewEvents
<1>2. IsFiniteSet(NewEvents(batch))
  BY <1>1, FS_Subset, EventsAssumption
<1>3. Cardinality(NewEvents(batch)) \in Nat
  BY <1>2, FS_CardinalityType
<1>4. Cardinality(NewEvents(batch)) = 0 <=> NewEvents(batch) = {}
  BY <1>2, FS_EmptySet
<1> QED
  BY <1>3, <1>4

\* Row by row insertion stores a payload of the batch for every new event: the
\* first occurrence exists because the indices of a batch are well ordered.
LEMMA IngestedPayload ==
    ASSUME NEW batch \in Seq(EventRows), NEW e \in NewEvents(batch)
    PROVE  batch[FirstOccurrence(batch, e)].payload \in Payloads
<1> DEFINE Occurs == {i \in DOMAIN batch : batch[i].event = e}
<1>1. Occurs \subseteq Nat /\ Occurs # {}
  BY DEF NewEvents
<1> DEFINE Less == {ss \in Nat \X Nat : ss[1] < ss[2]}
<1>2. IsWellFoundedOn(Less, Nat)
  BY NatLessThanWellFounded, Zenon DEF OpToRel
<1>3. PICK k \in Occurs : \A j \in Occurs : ~(<<j, k>> \in Less)
  <2> HIDE DEF Occurs, Less
  <2> QED
    BY <1>1, <1>2, WFMin
<1>4. \A j \in Occurs : k <= j
  <2> SUFFICES ASSUME NEW j \in Occurs PROVE k <= j
    OBVIOUS
  <2>1. j \in Nat /\ k \in Nat
    BY <1>1
  <2>2. ~(j < k)
    BY <1>3, <2>1
  <2> QED
    BY <2>1, <2>2
<1>5. FirstOccurrence(batch, e) \in DOMAIN batch
  BY <1>4 DEF FirstOccurrence
<1>6. \A i \in DOMAIN batch : batch[i] \in EventRows
  OBVIOUS
<1> QED
  BY <1>5, <1>6 DEF EventRows

-----------------------------------------------------------------------------
\* The empty database that migrate() creates satisfies the invariant.
LEMMA InitIInv == Init => IInv
BY NoneAssumption DEF Init, IInv, TypeOK, PendingInOutbox, SettledNotQueued,
   RetryScheduledWasAttempted, ReferentialIntegrity, RetryInProgressIsQueued,
   RowsWereIssued

\* Every method, and a crash inside retry_message, preserves the invariant.
LEMMA NextIInv == IInv /\ [Next]_vars => IInv'
<1> SUFFICES ASSUME IInv, [Next]_vars PROVE IInv'
  OBVIOUS
<1> USE NoneAssumption, BoundsAssumption
<1> USE DEF IInv, TypeOK, PendingInOutbox, SettledNotQueued,
        RetryScheduledWasAttempted, ReferentialIntegrity, RetryInProgressIsQueued,
        RowsWereIssued, Idle, Bump, messageVars, groupVars, syncVars
<1>1. ASSUME NEW m \in MessageIds, NEW c \in Conversations, CreateMessage(m, c)
      PROVE  IInv'
  BY <1>1 DEF CreateMessage, EnqueueUpload
<1>2. ASSUME NEW m \in MessageIds, MarkUploadAccepted(m)
      PROVE  IInv'
  BY <1>2 DEF MarkUploadAccepted, DropFromOutbox, Uploadable
<1>3. ASSUME NEW m \in MessageIds, RetryMessage(m)
      PROVE  IInv'
  BY <1>3 DEF RetryMessage, HasOutboxRow
<1>4. CASE RetryMessageStatus
  BY <1>4 DEF RetryMessageStatus
<1>5. ASSUME NEW m \in MessageIds, CancelPendingMessage(m)
      PROVE  IInv'
  BY <1>5 DEF CancelPendingMessage, DropFromOutbox, Cancellable
<1>6. ASSUME NEW m \in MessageIds, NEW s \in ReceiptStatuses, ApplyReceipt(m, s)
      PROVE  IInv'
  BY <1>6 DEF ApplyReceipt, AdvancesStatus, ReceiptStatuses
<1>7. ASSUME NEW m \in MessageIds, BackoffElapses(m)
      PROVE  IInv'
  BY <1>7 DEF BackoffElapses
<1>8. ASSUME NEW c \in Conversations, CreateGroup(c)
      PROVE  IInv'
  BY <1>8 DEF CreateGroup
<1>9. ASSUME NEW c \in Conversations, NEW d \in Devices, AddMember(c, d)
      PROVE  IInv'
  BY <1>9 DEF AddMember, ParentExists
<1>10. ASSUME NEW c \in Conversations, NEW d \in Devices, RemoveMember(c, d)
       PROVE  IInv'
  BY <1>10 DEF RemoveMember, MembersChangeUpdate
<1>11. ASSUME NEW batch \in Seq(EventRows), IngestRows(batch)
       PROVE  IInv'
  <2>1. inbox' \in [Events -> Payloads \cup {None}]
    BY <1>11, IngestedPayload DEF IngestRows
  <2>2. revision' \in Nat
    BY <1>11, NewEventsCount DEF IngestRows
  <2> QED
    BY <1>11, <2>1, <2>2 DEF IngestRows
<1>12. ASSUME NEW row \in EventRows, IngestServerEvent(row)
       PROVE  IInv'
  <2>1. <<row>> \in Seq(EventRows)
    OBVIOUS
  <2> QED
    BY <1>11, <1>12, <2>1 DEF IngestServerEvent
<1>13. ASSUME NEW batch \in Batches, IngestServerBatch(batch)
       PROVE  IInv'
  BY <1>11, <1>13, EventsAssumption DEF IngestServerBatch
<1>14. ASSUME NEW s \in Scopes, NEW c \in U64, SetSyncCursor(s, c)
       PROVE  IInv'
  <2>1. AsI64(c) \in 0 .. I64Max
    BY <1>14 DEF SetSyncCursor, CheckedCursor, AsI64, U64
  <2> QED
    BY <1>14, <2>1 DEF SetSyncCursor
<1>15. CASE WipeLocalAccount
  BY <1>15 DEF WipeLocalAccount
<1>16. CASE CrashAndReopen
  BY <1>16 DEF CrashAndReopen
<1>17. CASE UNCHANGED vars
  BY <1>17 DEF vars
<1> QED
  BY <1>1, <1>2, <1>3, <1>4, <1>5, <1>6, <1>7, <1>8, <1>9, <1>10, <1>12, <1>13,
     <1>14, <1>15, <1>16, <1>17 DEF Next

\* The invariant holds in every state of every behaviour of the store.
THEOREM Invariance == Spec => []IInv
BY InitIInv, NextIInv, PTL DEF Spec

\* Every table stays well typed; in particular the cast in set_sync_cursor never
\* stores a negative cursor.
THEOREM TypeCorrect == Spec => []TypeOK
<1>1. IInv => TypeOK
  BY DEF IInv
<1> QED
  BY Invariance, <1>1, PTL

\* Queued work survives every method and every crash but a wipe.
THEOREM PendingStaysQueued == Spec => []PendingInOutbox
<1>1. IInv => PendingInOutbox
  BY DEF IInv
<1> QED
  BY Invariance, <1>1, PTL

\* An accepted or cancelled message is never offered for upload again.
THEOREM SettledStaysOut == Spec => []SettledNotQueued
<1>1. IInv => SettledNotQueued
  BY DEF IInv
<1> QED
  BY Invariance, <1>1, PTL

\* A message shown as RetryScheduled has a counted attempt, also after a crash
\* between retry_message's two statements.
THEOREM RetryIsCounted == Spec => []RetryScheduledWasAttempted
<1>1. IInv => RetryScheduledWasAttempted
  BY DEF IInv
<1> QED
  BY Invariance, <1>1, PTL

\* No dangling rows.
THEOREM NoDanglingRows == Spec => []ReferentialIntegrity
<1>1. IInv => ReferentialIntegrity
  BY DEF IInv
<1> QED
  BY Invariance, <1>1, PTL

-----------------------------------------------------------------------------
\* The step that SettledIsFinal allows.
SettledStep ==
    \A m \in MessageIds :
        /\ status[m] = Cancelled => status'[m] \in {Cancelled, NoRow}
        /\ status[m] = ServerAccepted =>
               status'[m] \in {ServerAccepted, Delivered, Read, NoRow}

\* No method moves a message out of a settled state: the second statement of
\* retry_message is the only one that could, and the message it names is queued.
LEMMA NextSettled == IInv /\ [Next]_vars => [SettledStep]_vars
<1> SUFFICES ASSUME IInv, [Next]_vars PROVE SettledStep
  OBVIOUS
<1> USE NoneAssumption
<1> USE DEF IInv, TypeOK, SettledNotQueued, RetryInProgressIsQueued, RowsWereIssued,
        SettledStep, Idle, messageVars
<1>1. ASSUME NEW m \in MessageIds, NEW c \in Conversations, CreateMessage(m, c)
      PROVE  SettledStep
  BY <1>1 DEF CreateMessage
<1>2. ASSUME NEW m \in MessageIds, MarkUploadAccepted(m)
      PROVE  SettledStep
  BY <1>2 DEF MarkUploadAccepted, Uploadable
<1>3. ASSUME NEW m \in MessageIds, RetryMessage(m)
      PROVE  SettledStep
  BY <1>3 DEF RetryMessage
<1>4. CASE RetryMessageStatus
  BY <1>4 DEF RetryMessageStatus
<1>5. ASSUME NEW m \in MessageIds, CancelPendingMessage(m)
      PROVE  SettledStep
  BY <1>5 DEF CancelPendingMessage, Cancellable
<1>6. ASSUME NEW m \in MessageIds, NEW s \in ReceiptStatuses, ApplyReceipt(m, s)
      PROVE  SettledStep
  BY <1>6 DEF ApplyReceipt, AdvancesStatus, ReceiptStatuses
<1>7. ASSUME NEW m \in MessageIds, BackoffElapses(m)
      PROVE  SettledStep
  BY <1>7 DEF BackoffElapses
<1>8. ASSUME NEW c \in Conversations, CreateGroup(c)
      PROVE  SettledStep
  BY <1>8 DEF CreateGroup
<1>9. ASSUME NEW c \in Conversations, NEW d \in Devices, AddMember(c, d)
      PROVE  SettledStep
  BY <1>9 DEF AddMember
<1>10. ASSUME NEW c \in Conversations, NEW d \in Devices, RemoveMember(c, d)
       PROVE  SettledStep
  BY <1>10 DEF RemoveMember
<1>11. ASSUME NEW row \in EventRows, IngestServerEvent(row)
       PROVE  SettledStep
  BY <1>11 DEF IngestServerEvent, IngestRows
<1>12. ASSUME NEW batch \in Batches, IngestServerBatch(batch)
       PROVE  SettledStep
  BY <1>12 DEF IngestServerBatch, IngestRows
<1>13. ASSUME NEW s \in Scopes, NEW c \in U64, SetSyncCursor(s, c)
       PROVE  SettledStep
  BY <1>13 DEF SetSyncCursor
<1>14. CASE WipeLocalAccount
  BY <1>14 DEF WipeLocalAccount
<1>15. CASE CrashAndReopen
  BY <1>15 DEF CrashAndReopen
<1>16. CASE UNCHANGED vars
  BY <1>16 DEF vars
<1> QED
  BY <1>1, <1>2, <1>3, <1>4, <1>5, <1>6, <1>7, <1>8, <1>9, <1>10, <1>11,
     <1>12, <1>13, <1>14, <1>15, <1>16 DEF Next

\* Cancelled and accepted messages stay so, whatever arrives late.
THEOREM SettledForever == Spec => SettledIsFinal
BY Invariance, NextSettled, PTL DEF Spec, SettledIsFinal, SettledStep

-----------------------------------------------------------------------------
\* A batch that changes the inbox inserts a row, and so fires the trigger.
LEMMA IngestRaisesRevision ==
    ASSUME IInv, NEW batch, IngestRows(batch)
    PROVE  View' # View => revision' > revision
<1> USE DEF IInv, TypeOK, IngestRows, Bump, View, messageVars, groupVars
<1>1. CASE NewEvents(batch) = {}
  <2>1. inbox' = inbox
    BY <1>1
  <2> QED
    BY <2>1
<1>2. CASE NewEvents(batch) # {}
  BY <1>2, NewEventsCount
<1> QED
  BY <1>1, <1>2

\* Every method that changes what the user can list raises the revision.
LEMMA NextObservable == IInv /\ [Next]_vars => [View' # View => revision' > revision]_vars
<1> SUFFICES ASSUME IInv, [Next]_vars PROVE View' # View => revision' > revision
  OBVIOUS
<1> USE DEF IInv, TypeOK, Bump, View, messageVars, groupVars, syncVars
<1>1. ASSUME NEW m \in MessageIds, NEW c \in Conversations, CreateMessage(m, c)
      PROVE  View' # View => revision' > revision
  BY <1>1 DEF CreateMessage
<1>2. ASSUME NEW m \in MessageIds, MarkUploadAccepted(m)
      PROVE  View' # View => revision' > revision
  BY <1>2 DEF MarkUploadAccepted
<1>3. ASSUME NEW m \in MessageIds, RetryMessage(m)
      PROVE  View' # View => revision' > revision
  BY <1>3 DEF RetryMessage
<1>4. CASE RetryMessageStatus
  BY <1>4 DEF RetryMessageStatus
<1>5. ASSUME NEW m \in MessageIds, CancelPendingMessage(m)
      PROVE  View' # View => revision' > revision
  BY <1>5 DEF CancelPendingMessage
<1>6. ASSUME NEW m \in MessageIds, NEW s \in ReceiptStatuses, ApplyReceipt(m, s)
      PROVE  View' # View => revision' > revision
  BY <1>6 DEF ApplyReceipt, AdvancesStatus
<1>7. ASSUME NEW m \in MessageIds, BackoffElapses(m)
      PROVE  View' # View => revision' > revision
  BY <1>7 DEF BackoffElapses
<1>8. ASSUME NEW c \in Conversations, CreateGroup(c)
      PROVE  View' # View => revision' > revision
  BY <1>8 DEF CreateGroup
<1>9. ASSUME NEW c \in Conversations, NEW d \in Devices, AddMember(c, d)
      PROVE  View' # View => revision' > revision
  BY <1>9 DEF AddMember
<1>10. ASSUME NEW c \in Conversations, NEW d \in Devices, RemoveMember(c, d)
       PROVE  View' # View => revision' > revision
  BY <1>10 DEF RemoveMember, MembersChangeUpdate
<1>11. ASSUME NEW row \in EventRows, IngestServerEvent(row)
       PROVE  View' # View => revision' > revision
  BY <1>11, IngestRaisesRevision DEF IngestServerEvent
<1>12. ASSUME NEW batch \in Batches, IngestServerBatch(batch)
       PROVE  View' # View => revision' > revision
  BY <1>12, IngestRaisesRevision DEF IngestServerBatch
<1>13. ASSUME NEW s \in Scopes, NEW c \in U64, SetSyncCursor(s, c)
       PROVE  View' # View => revision' > revision
  BY <1>13 DEF SetSyncCursor
<1>14. CASE WipeLocalAccount
  BY <1>14 DEF WipeLocalAccount
<1>15. CASE CrashAndReopen
  BY <1>15 DEF CrashAndReopen
<1>16. CASE UNCHANGED vars
  BY <1>16 DEF vars
<1> QED
  BY <1>1, <1>2, <1>3, <1>4, <1>5, <1>6, <1>7, <1>8, <1>9, <1>10, <1>11,
     <1>12, <1>13, <1>14, <1>15, <1>16 DEF Next

\* observe_conversation_changes misses no change.
THEOREM Observability == Spec => ChangesAreObservable
BY Invariance, NextObservable, PTL DEF Spec, ChangesAreObservable

-----------------------------------------------------------------------------
\* The steps that InboxFirstWriteWins and CursorsNeverRegress allow.
InboxStep == \A e \in Events : inbox[e] # None => inbox'[e] = inbox[e] \/ WipeLocalAccount
CursorStep == \A s \in Scopes : cursors'[s] >= cursors[s] \/ WipeLocalAccount

\* No method but the wipe overwrites an inbox row.
LEMMA NextInbox == IInv /\ [Next]_vars => [InboxStep]_vars
<1> SUFFICES ASSUME IInv, [Next]_vars PROVE InboxStep
  OBVIOUS
<1> USE DEF IInv, TypeOK, InboxStep, syncVars
<1>1. ASSUME NEW m \in MessageIds, NEW c \in Conversations, CreateMessage(m, c)
      PROVE  InboxStep
  BY <1>1 DEF CreateMessage
<1>2. ASSUME NEW m \in MessageIds, MarkUploadAccepted(m)
      PROVE  InboxStep
  BY <1>2 DEF MarkUploadAccepted
<1>3. ASSUME NEW m \in MessageIds, RetryMessage(m)
      PROVE  InboxStep
  BY <1>3 DEF RetryMessage
<1>4. CASE RetryMessageStatus
  BY <1>4 DEF RetryMessageStatus
<1>5. ASSUME NEW m \in MessageIds, CancelPendingMessage(m)
      PROVE  InboxStep
  BY <1>5 DEF CancelPendingMessage
<1>6. ASSUME NEW m \in MessageIds, NEW s \in ReceiptStatuses, ApplyReceipt(m, s)
      PROVE  InboxStep
  BY <1>6 DEF ApplyReceipt, AdvancesStatus
<1>7. ASSUME NEW m \in MessageIds, BackoffElapses(m)
      PROVE  InboxStep
  BY <1>7 DEF BackoffElapses
<1>8. ASSUME NEW c \in Conversations, CreateGroup(c)
      PROVE  InboxStep
  BY <1>8 DEF CreateGroup
<1>9. ASSUME NEW c \in Conversations, NEW d \in Devices, AddMember(c, d)
      PROVE  InboxStep
  BY <1>9 DEF AddMember
<1>10. ASSUME NEW c \in Conversations, NEW d \in Devices, RemoveMember(c, d)
       PROVE  InboxStep
  BY <1>10 DEF RemoveMember
<1>11. ASSUME NEW row \in EventRows, IngestServerEvent(row)
       PROVE  InboxStep
  BY <1>11 DEF IngestServerEvent, IngestRows, NewEvents
<1>12. ASSUME NEW batch \in Batches, IngestServerBatch(batch)
       PROVE  InboxStep
  BY <1>12 DEF IngestServerBatch, IngestRows, NewEvents
<1>13. ASSUME NEW s \in Scopes, NEW c \in U64, SetSyncCursor(s, c)
       PROVE  InboxStep
  BY <1>13 DEF SetSyncCursor
<1>14. CASE WipeLocalAccount
  BY <1>14 DEF WipeLocalAccount
<1>15. CASE CrashAndReopen
  BY <1>15 DEF CrashAndReopen
<1>16. CASE UNCHANGED vars
  BY <1>16 DEF vars
<1> QED
  BY <1>1, <1>2, <1>3, <1>4, <1>5, <1>6, <1>7, <1>8, <1>9, <1>10, <1>11,
     <1>12, <1>13, <1>14, <1>15, <1>16 DEF Next

\* No method but the wipe moves a sync cursor back: a cursor that passes the CHECK
\* was not changed by the cast.
LEMMA NextCursor == IInv /\ [Next]_vars => [CursorStep]_vars
<1> SUFFICES ASSUME IInv, [Next]_vars PROVE CursorStep
  OBVIOUS
<1> USE BoundsAssumption DEF IInv, TypeOK, CursorStep, syncVars
<1>1. ASSUME NEW m \in MessageIds, NEW c \in Conversations, CreateMessage(m, c)
      PROVE  CursorStep
  BY <1>1 DEF CreateMessage
<1>2. ASSUME NEW m \in MessageIds, MarkUploadAccepted(m)
      PROVE  CursorStep
  BY <1>2 DEF MarkUploadAccepted
<1>3. ASSUME NEW m \in MessageIds, RetryMessage(m)
      PROVE  CursorStep
  BY <1>3 DEF RetryMessage
<1>4. CASE RetryMessageStatus
  BY <1>4 DEF RetryMessageStatus
<1>5. ASSUME NEW m \in MessageIds, CancelPendingMessage(m)
      PROVE  CursorStep
  BY <1>5 DEF CancelPendingMessage
<1>6. ASSUME NEW m \in MessageIds, NEW s \in ReceiptStatuses, ApplyReceipt(m, s)
      PROVE  CursorStep
  BY <1>6 DEF ApplyReceipt, AdvancesStatus
<1>7. ASSUME NEW m \in MessageIds, BackoffElapses(m)
      PROVE  CursorStep
  BY <1>7 DEF BackoffElapses
<1>8. ASSUME NEW c \in Conversations, CreateGroup(c)
      PROVE  CursorStep
  BY <1>8 DEF CreateGroup
<1>9. ASSUME NEW c \in Conversations, NEW d \in Devices, AddMember(c, d)
      PROVE  CursorStep
  BY <1>9 DEF AddMember
<1>10. ASSUME NEW c \in Conversations, NEW d \in Devices, RemoveMember(c, d)
       PROVE  CursorStep
  BY <1>10 DEF RemoveMember
<1>11. ASSUME NEW row \in EventRows, IngestServerEvent(row)
       PROVE  CursorStep
  BY <1>11 DEF IngestServerEvent, IngestRows
<1>12. ASSUME NEW batch \in Batches, IngestServerBatch(batch)
       PROVE  CursorStep
  <2>1. cursors' = cursors
    BY <1>12, Zenon DEF IngestServerBatch, IngestRows
  <2> QED
    BY <2>1
<1>13. ASSUME NEW s \in Scopes, NEW c \in U64, SetSyncCursor(s, c)
       PROVE  CursorStep
  BY <1>13 DEF SetSyncCursor, AcceptsCursor, CheckedCursor, AsI64, U64
<1>14. CASE WipeLocalAccount
  BY <1>14 DEF WipeLocalAccount
<1>15. CASE CrashAndReopen
  BY <1>15 DEF CrashAndReopen
<1>16. CASE UNCHANGED vars
  BY <1>16 DEF vars
<1> QED
  BY <1>1, <1>2, <1>3, <1>4, <1>5, <1>6, <1>7, <1>8, <1>9, <1>10, <1>11,
     <1>12, <1>13, <1>14, <1>15, <1>16 DEF Next

\* A stored event keeps its first ciphertext.
THEOREM FirstWriteWins == Spec => InboxFirstWriteWins
BY Invariance, NextInbox, PTL DEF Spec, InboxFirstWriteWins, InboxStep

\* Sync cursors only move forward between wipes.
THEOREM CursorsMonotonic == Spec => CursorsNeverRegress
BY Invariance, NextCursor, PTL DEF Spec, CursorsNeverRegress, CursorStep

-----------------------------------------------------------------------------
(* The upload pipeline.                                                    *)

\* The service has only what was written, and acknowledges only what it has.
AcksAreOfStored ==
    /\ stored \subseteq issued
    /\ acks \subseteq stored

\* create_message leaves the message ReadyToUpload and the pipeline never moves it to
\* one of the statuses that no method of the client sets.
StatusesInUse ==
    \A m \in MessageIds :
        status[m] \in {NoRow, ReadyToUpload, RetryScheduled, ServerAccepted, Delivered,
                       Read, Cancelled}

\* A message that has left the outbox was withdrawn by the user or is at the service.
OnlyStoredLeaves ==
    \A m \in issued \ outbox : m \in stored \/ status[m] = Cancelled

PipeInv ==
    /\ IInv
    /\ AcksAreOfStored
    /\ StatusesInUse
    /\ OnlyStoredLeaves

-----------------------------------------------------------------------------
\* The pipeline starts with an empty store and an empty service.
LEMMA PipeInitInv == PipeInit => PipeInv
<1> SUFFICES ASSUME PipeInit PROVE PipeInv
  OBVIOUS
<1>1. IInv
  BY InitIInv DEF PipeInit
<1> QED
  BY <1>1 DEF PipeInit, Init, PipeInv, AcksAreOfStored, StatusesInUse,
     OnlyStoredLeaves

\* What the pipeline does to the store, some method of the store does.
LEMMA PipeStoreStep == [PipeNext]_pipeVars => [Next]_vars
<1> SUFFICES ASSUME [PipeNext]_pipeVars PROVE [Next]_vars
  OBVIOUS
<1>1. CASE Crash
  BY <1>1 DEF Crash, Next, CrashAndReopen, vars, messageVars, groupVars, syncVars
<1>2. CASE UNCHANGED pipeVars
  BY <1>2 DEF pipeVars
<1>3. CASE PipeNext /\ ~Crash
  BY <1>3, Zenon DEF PipeNext, UserCreates, UserCancels, Elapse, Upload, UploadFails,
     RetryRecorded, Acknowledged, Receipt, Next
<1> QED
  BY <1>1, <1>2, <1>3

\* Every step of the pipeline preserves the invariant.
LEMMA PipeNextInv == PipeInv /\ [PipeNext]_pipeVars => PipeInv'
<1> SUFFICES ASSUME PipeInv, [PipeNext]_pipeVars PROVE PipeInv'
  OBVIOUS
<1>0. IInv'
  BY PipeStoreStep, NextIInv DEF PipeInv
<1> USE <1>0
<1> USE DEF PipeInv, AcksAreOfStored, StatusesInUse, OnlyStoredLeaves, Idle
<1> USE DEF IInv, TypeOK, RowsWereIssued, SettledNotQueued, PendingInOutbox,
        RetryInProgressIsQueued, ReferentialIntegrity
<1>1. ASSUME NEW m \in MessageIds, NEW c \in Conversations, UserCreates(m, c)
      PROVE  PipeInv'
  BY <1>1 DEF UserCreates, CreateMessage, EnqueueUpload
<1>2. ASSUME NEW m \in MessageIds, UserCancels(m)
      PROVE  PipeInv'
  BY <1>2 DEF UserCancels, CancelPendingMessage, DropFromOutbox
<1>3. ASSUME NEW m \in MessageIds, Elapse(m)
      PROVE  PipeInv'
  BY <1>3 DEF Elapse, BackoffElapses
<1>4. ASSUME NEW m \in MessageIds, Upload(m)
      PROVE  PipeInv'
  BY <1>4 DEF Upload, PendingUploads, vars
<1>5. ASSUME NEW m \in MessageIds, UploadFails(m)
      PROVE  PipeInv'
  BY <1>5 DEF UploadFails, RetryMessage, PendingUploads
<1>6. ASSUME NEW m \in MessageIds, Acknowledged(m)
      PROVE  PipeInv'
  <2>1. CASE MarkUploadAccepted(m)
    BY <1>6, <2>1 DEF Acknowledged, MarkUploadAccepted, DropFromOutbox
  <2>2. CASE UNCHANGED vars
    BY <1>6, <2>2 DEF Acknowledged, vars
  <2> QED
    BY <1>6, <2>1, <2>2 DEF Acknowledged
<1>7. CASE RetryRecorded
  BY <1>7 DEF RetryRecorded, RetryMessageStatus
<1>8. ASSUME NEW m \in MessageIds, NEW s \in ReceiptStatuses, Receipt(m, s)
      PROVE  PipeInv'
  BY <1>8 DEF Receipt, ApplyReceipt, AdvancesStatus, ReceiptStatuses
<1>9. CASE Crash
  BY <1>9 DEF Crash, messageVars
<1>10. CASE UNCHANGED pipeVars
  BY <1>10 DEF pipeVars, vars
<1> HIDE DEF PipeInv
<1> QED
  BY <1>1, <1>2, <1>3, <1>4, <1>5, <1>6, <1>7, <1>8, <1>9, <1>10 DEF PipeNext

\* The invariant holds in every state of the pipeline.
THEOREM PipeInvariance == PipeSpec => []PipeInv
BY PipeInitInv, PipeNextInv, PTL DEF PipeSpec, PipeSafety

-----------------------------------------------------------------------------
\* The step that SettledDeliveryIsFinal allows.
DeliveryStep ==
    \A m \in MessageIds :
        status[m] \in ReceiptStatuses /\ m \notin outbox =>
            /\ status'[m] \in ReceiptStatuses
            /\ status'[m] >= status[m]
            /\ m \notin outbox'

\* Nothing in the pipeline takes back a delivery that has left the outbox.
LEMMA PipeDelivery == PipeInv /\ [PipeNext]_pipeVars => [DeliveryStep]_pipeVars
<1> SUFFICES ASSUME PipeInv, PipeNext PROVE DeliveryStep
  OBVIOUS
<1> USE DEF DeliveryStep, ReceiptStatuses, PipeInv, IInv, TypeOK, RowsWereIssued,
        RetryInProgressIsQueued
<1>1. ASSUME NEW m \in MessageIds, NEW c \in Conversations, UserCreates(m, c)
      PROVE  DeliveryStep
  BY <1>1 DEF UserCreates, CreateMessage, EnqueueUpload
<1>2. ASSUME NEW m \in MessageIds, UserCancels(m)
      PROVE  DeliveryStep
  BY <1>2 DEF UserCancels, CancelPendingMessage, DropFromOutbox, Cancellable
<1>3. ASSUME NEW m \in MessageIds, Elapse(m)
      PROVE  DeliveryStep
  BY <1>3 DEF Elapse, BackoffElapses
<1>4. ASSUME NEW m \in MessageIds, Upload(m)
      PROVE  DeliveryStep
  BY <1>4 DEF Upload, vars
<1>5. ASSUME NEW m \in MessageIds, UploadFails(m)
      PROVE  DeliveryStep
  BY <1>5 DEF UploadFails, RetryMessage
<1>6. ASSUME NEW m \in MessageIds, Acknowledged(m)
      PROVE  DeliveryStep
  <2>1. CASE MarkUploadAccepted(m)
    BY <2>1 DEF MarkUploadAccepted, DropFromOutbox, Uploadable
  <2>2. CASE UNCHANGED vars
    BY <2>2 DEF vars
  <2> QED
    BY <1>6, <2>1, <2>2 DEF Acknowledged
<1>7. CASE RetryRecorded
  BY <1>7 DEF RetryRecorded, RetryMessageStatus
<1>8. ASSUME NEW m \in MessageIds, NEW s \in ReceiptStatuses, Receipt(m, s)
      PROVE  DeliveryStep
  BY <1>8 DEF Receipt, ApplyReceipt, AdvancesStatus
<1>9. CASE Crash
  <2>1. status' = status /\ outbox' = outbox
    BY <1>9 DEF Crash, messageVars
  <2> QED
    BY <2>1
<1> HIDE DEF DeliveryStep
<1> QED
  BY <1>1, <1>2, <1>3, <1>4, <1>5, <1>6, <1>7, <1>8, <1>9 DEF PipeNext

\* A message reported delivered or read, and out of the outbox, stays so and never
\* goes from read back to delivered, whatever arrives late.
THEOREM DeliveryIsFinal == PipeSpec => SettledDeliveryIsFinal
BY PipeInvariance, PipeDelivery, PTL
   DEF PipeSpec, PipeSafety, SettledDeliveryIsFinal, DeliveryStep
-----------------------------------------------------------------------------
\* The phases of OfflineSend as the pipeline shows them.
phases == [m \in MessageIds |-> PhaseOf(m)]

\* Messages whose row, outbox row and copy at the service a step leaves alone are in
\* the phase they were in.
LEMMA SamePhase ==
    ASSUME NEW m \in MessageIds,
           m \in issued' <=> m \in issued,
           m \in outbox' <=> m \in outbox,
           m \in stored' <=> m \in stored,
           m \in outbox \/ (status'[m] = Cancelled <=> status[m] = Cancelled)
    PROVE  PhaseOf(m)' = PhaseOf(m)
BY DEF PhaseOf

\* Every step of the pipeline is a step of OfflineSend or does not show there.
LEMMA PipeRefines == PipeInv /\ [PipeNext]_pipeVars => [Abstract!Next]_phases
<1> SUFFICES ASSUME PipeInv, [PipeNext]_pipeVars PROVE [Abstract!Next]_phases
  OBVIOUS
<1> USE DEF PipeInv, AcksAreOfStored, StatusesInUse, OnlyStoredLeaves, Idle
<1> USE DEF IInv, TypeOK, RowsWereIssued, SettledNotQueued, PendingInOutbox,
        RetryInProgressIsQueued, ReferentialIntegrity
<1> DEFINE Same(n) == PhaseOf(n)' = PhaseOf(n)
<1>A. ASSUME \A n \in MessageIds : Same(n)
      PROVE  UNCHANGED phases
  BY <1>A DEF phases
<1>B. ASSUME NEW m \in MessageIds, NEW from, NEW to,
             PhaseOf(m) \in from, PhaseOf(m)' = to,
             \A n \in MessageIds \ {m} : Same(n)
      PROVE  Abstract!Moves(m, from, to)
  BY <1>B DEF Abstract!Moves
<1> HIDE DEF Same
<1>1. ASSUME NEW m \in MessageIds, NEW c \in Conversations, UserCreates(m, c)
      PROVE  Abstract!Next
  <2>1. PhaseOf(m) = "absent" /\ PhaseOf(m)' = "queued"
    BY <1>1 DEF UserCreates, CreateMessage, EnqueueUpload, PhaseOf
  <2>2. \A n \in MessageIds \ {m} : Same(n)
    BY <1>1, SamePhase DEF UserCreates, CreateMessage, EnqueueUpload, Same
  <2> QED
    BY <1>B, <2>1, <2>2 DEF Abstract!Next, Abstract!Write
<1>2. ASSUME NEW m \in MessageIds, UserCancels(m)
      PROVE  Abstract!Next
  <2>1. m \in outbox /\ m \in issued
    BY <1>2 DEF UserCancels, CancelPendingMessage, Cancellable
  <2>2. PhaseOf(m) \in {"queued", "committed"} /\ PhaseOf(m)' = "withdrawn"
    BY <1>2, <2>1 DEF UserCancels, CancelPendingMessage, DropFromOutbox, PhaseOf
  <2>3. \A n \in MessageIds \ {m} : Same(n)
    BY <1>2, SamePhase DEF UserCancels, CancelPendingMessage, DropFromOutbox, Same
  <2> QED
    BY <1>B, <2>2, <2>3 DEF Abstract!Next, Abstract!Withdraw
<1>3. ASSUME NEW m \in MessageIds, Elapse(m)
      PROVE  UNCHANGED phases
  BY <1>3, <1>A, SamePhase DEF Elapse, BackoffElapses, Same
<1>4. ASSUME NEW m \in MessageIds, m \in outbox,
             stored' \in {stored, stored \cup {m}},
             UNCHANGED <<status, outbox, issued>>
      PROVE  Abstract!Next \/ UNCHANGED phases
  <2>1. m \in issued
    BY <1>4
  <2>2. \A n \in MessageIds \ {m} : Same(n)
    BY <1>4, SamePhase DEF Same
  <2>3. CASE m \in stored \/ stored' = stored
    <3>1. Same(m)
      BY <1>4, <2>3, SamePhase DEF Same
    <3> QED
      BY <1>A, <2>2, <3>1
  <2>4. CASE m \notin stored /\ stored' = stored \cup {m}
    <3>1. PhaseOf(m) = "queued" /\ PhaseOf(m)' = "committed"
      BY <1>4, <2>1, <2>4 DEF PhaseOf
    <3> QED
      BY <1>B, <2>2, <3>1 DEF Abstract!Next, Abstract!Reach
  <2> QED
    BY <1>4, <2>3, <2>4
<1>5. ASSUME NEW m \in MessageIds, Upload(m) \/ UploadFails(m)
      PROVE  Abstract!Next \/ UNCHANGED phases
  BY <1>4, <1>5 DEF Upload, UploadFails, RetryMessage, PendingUploads, vars
<1>6. ASSUME NEW m \in MessageIds, Acknowledged(m)
      PROVE  Abstract!Next \/ UNCHANGED phases
  <2>1. m \in stored /\ m \in issued /\ stored' = stored
    BY <1>6 DEF Acknowledged
  <2>2. CASE MarkUploadAccepted(m) /\ m \in outbox
    <3>1. PhaseOf(m) = "committed" /\ PhaseOf(m)' = "settled"
      BY <2>1, <2>2 DEF MarkUploadAccepted, DropFromOutbox, PhaseOf
    <3>2. \A n \in MessageIds \ {m} : Same(n)
      BY <2>1, <2>2, SamePhase DEF MarkUploadAccepted, DropFromOutbox, Same
    <3> QED
      BY <1>B, <3>1, <3>2 DEF Abstract!Next, Abstract!Settle
  <2>3. CASE MarkUploadAccepted(m) /\ m \notin outbox
    <3>1. status' = status /\ outbox' = outbox /\ issued' = issued
      BY <2>3 DEF MarkUploadAccepted, DropFromOutbox, Uploadable
    <3> QED
      BY <1>A, <2>1, <3>1, SamePhase DEF Same
  <2>4. CASE UNCHANGED vars
    BY <1>A, <2>1, <2>4, SamePhase DEF Same, vars
  <2> QED
    BY <1>6, <2>2, <2>3, <2>4 DEF Acknowledged
<1>7. CASE RetryRecorded
  BY <1>7, <1>A, SamePhase DEF RetryRecorded, RetryMessageStatus, Same
<1>8. ASSUME NEW m \in MessageIds, NEW s \in ReceiptStatuses, Receipt(m, s)
      PROVE  UNCHANGED phases
  BY <1>8, <1>A, SamePhase
     DEF Receipt, ApplyReceipt, AdvancesStatus, ReceiptStatuses, Same
<1>9. CASE Crash
  BY <1>9, <1>A, SamePhase DEF Crash, messageVars, Same
<1>10. CASE UNCHANGED pipeVars
  BY <1>10, <1>A, SamePhase DEF pipeVars, vars, Same
<1> QED
  BY <1>1, <1>2, <1>3, <1>5, <1>6, <1>7, <1>8, <1>9, <1>10 DEF PipeNext

\* The client with its losses, retries and crashes does what OfflineSend promises: a
\* message leaves the outbox only when the service has it or the user withdrew it.
THEOREM ImplementsOfflineSafety == PipeSpec => Abstract!Safety
<1>1. PipeInit => Abstract!Init
  BY DEF PipeInit, Init, Abstract!Init, PhaseOf
<1> QED
  BY <1>1, PipeInvariance, PipeRefines, PTL DEF PipeSpec, PipeSafety,
     Abstract!Safety, phases
=============================================================================
