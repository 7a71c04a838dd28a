--------------------------- MODULE UploadPipeline ---------------------------
(***************************************************************************)
(* A message on its way from the outbox to the Delivery Service and back   *)
(* as acknowledgement and receipts: LocalStore composed with a network     *)
(* that loses requests and replies and with a service that stores an       *)
(* upload once (upload_event).  The driver is the native shell: it uploads *)
(* what get_pending_uploads offers, calls mark_upload_accepted for an      *)
(* acknowledgement and retry_message for a failure.  The shell, the        *)
(* network and the service are external; every change of the store is an   *)
(* action of LocalStore.                                                   *)
(***************************************************************************)
EXTENDS LocalStore

VARIABLES
    stored,         \* messages the service has committed
    acks            \* acknowledgements on their way to the device

pipeVars == <<vars, stored, acks>>

PipeInit == Init /\ stored = {} /\ acks = {}
-----------------------------------------------------------------------------
\* The user writes a message or withdraws one; the clock moves.
UserCreates(m, c) == CreateMessage(m, c) /\ UNCHANGED <<stored, acks>>
UserCancels(m) == CancelPendingMessage(m) /\ UNCHANGED <<stored, acks>>
Elapse(m) == BackoffElapses(m) /\ UNCHANGED <<stored, acks>>

\* The upload arrives; a repeated one is answered like the first.
Upload(m) ==
    /\ Idle
    /\ m \in PendingUploads
    /\ stored' = stored \cup {m}
    /\ acks' = acks \cup {m}
    /\ UNCHANGED vars

\* The request or the reply is lost; the shell schedules a retry.
UploadFails(m) ==
    /\ m \in PendingUploads
    /\ RetryMessage(m)
    /\ stored' \in {stored, stored \cup {m}}
    /\ UNCHANGED acks

RetryRecorded == RetryMessageStatus /\ UNCHANGED <<stored, acks>>

\* mark_upload_accepted refuses every status but these.
AcceptsAck(m) == status[m] \in Uploadable \cup {ServerAccepted}

\* An acknowledgement is handled; when the call fails nothing is written.  Two
\* uploads of one message have two acknowledgements, so one may remain.
Acknowledged(m) ==
    /\ Idle
    /\ m \in acks
    /\ acks' \in {acks, acks \ {m}}
    /\ \/ MarkUploadAccepted(m)
       \/ ~AcceptsAck(m) /\ UNCHANGED vars
    /\ UNCHANGED stored

\* A recipient of the stored message reports back through the service, on a path
\* of its own: the report may overtake the acknowledgement.
Receipt(m, s) ==
    /\ m \in stored
    /\ ApplyReceipt(m, s)
    /\ UNCHANGED <<stored, acks>>

\* The process dies; replies in flight die with its connections.
Crash ==
    /\ retrying # None \/ acks # {}
    /\ retrying' = None
    /\ acks' = {}
    /\ UNCHANGED <<messageVars, groupVars, syncVars, revision, stored>>

PipeNext ==
    \/ \E m \in MessageIds, c \in Conversations : UserCreates(m, c)
    \/ \E m \in MessageIds :
          \/ UserCancels(m) \/ Elapse(m)
          \/ Upload(m) \/ UploadFails(m) \/ Acknowledged(m)
    \/ RetryRecorded
    \/ \E m \in MessageIds, s \in ReceiptStatuses : Receipt(m, s)
    \/ Crash

PipeSafety == PipeInit /\ [][PipeNext]_pipeVars

\* The clock runs, an upload that is offered again and again gets through, a
\* reply that arrives again and again is handled, and a method that holds the
\* mutex finishes unless the process dies.
Fairness ==
    /\ \A m \in MessageIds :
          /\ WF_pipeVars(Elapse(m))
          /\ SF_pipeVars(Upload(m))
          /\ SF_pipeVars(Acknowledged(m))
    /\ WF_pipeVars(RetryRecorded)

PipeSpec == PipeSafety /\ Fairness
-----------------------------------------------------------------------------
\* Every queued message leaves the outbox or is known to have been delivered: the
\* only way to be stuck is a receipt that overtook the acknowledgement.
DrainsUnlessOvertaken ==
    \A m \in MessageIds :
        m \in outbox ~> m \notin outbox \/ status[m] \in ReceiptStatuses

\* Once the acknowledgement was handled, receipts, repeated acknowledgements and
\* late retries in any order never take a reported delivery or reading back.
SettledDeliveryIsFinal ==
    [][\A m \in MessageIds :
        status[m] \in ReceiptStatuses /\ m \notin outbox =>
            /\ status'[m] \in ReceiptStatuses
            /\ status'[m] >= status[m]
            /\ m \notin outbox']_pipeVars

\* How far a message has come, read off the outbox, its status and the service.
PhaseOf(m) ==
    CASE m \notin issued -> "absent"
      [] m \in outbox -> IF m \in stored THEN "committed" ELSE "queued"
      [] OTHER -> IF status[m] = Cancelled THEN "withdrawn" ELSE "settled"

Abstract == INSTANCE OfflineSend WITH phase <- [m \in MessageIds |-> PhaseOf(m)]

\* create_message, the uploads with their losses, retries and crashes, and
\* mark_upload_accepted together are an offline send: a message moves only from
\* queued to committed to settled, so none leaves the outbox before the service has
\* it unless the user withdrew it, a withdrawn or settled one stays so, and none
\* waits for ever.
ImplementsOfflineSend == Abstract!Spec
=============================================================================
