---------------------------- MODULE OfflineSend -----------------------------
(***************************************************************************)
(* What the offline-first client promises about a message, without tables, *)
(* network or retries: it waits, the service gets it, the client learns of *)
(* that and forgets the work.  The user may withdraw it until then.        *)
(***************************************************************************)
CONSTANT MessageIds

VARIABLE phase      \* how far each message has come

Phases == {"absent", "queued", "committed", "settled", "withdrawn"}

Init == phase = [m \in MessageIds |-> "absent"]

Moves(m, from, to) == phase[m] \in from /\ phase' = [phase EXCEPT ![m] = to]

\* create_message returns: the message waits in durable storage.
Write(m) == Moves(m, {"absent"}, "queued")

\* The Delivery Service has it; the client does not know yet.
Reach(m) == Moves(m, {"queued"}, "committed")

\* mark_upload_accepted: only what the service has is forgotten.
Settle(m) == Moves(m, {"committed"}, "settled")

\* cancel_pending_message: withdrawn here, though the service may have it.
Withdraw(m) == Moves(m, {"queued", "committed"}, "withdrawn")

Next == \E m \in MessageIds : Write(m) \/ Reach(m) \/ Settle(m) \/ Withdraw(m)

\* No message waits for ever.
Progress == \A m \in MessageIds : phase[m] = "queued" ~> phase[m] # "queued"

Safety == Init /\ [][Next]_phase

Spec == Safety /\ Progress
=============================================================================
