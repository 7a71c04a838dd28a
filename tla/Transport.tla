------------------------------ MODULE Transport -----------------------------
(***************************************************************************)
(* The client's transport manager, crates/messenger-transport/src/lib.rs:  *)
(* a queue of frames, a signed relay directory, and flush, which sends the *)
(* frames in order, each to the first relay that answers.                  *)
(*                                                                         *)
(* flush borrows the manager exclusively, so no other method runs while it *)
(* is suspended; but its future can be dropped at every await.  Each send  *)
(* is a step of its own.  flush is given the time once, so no cooldown     *)
(* ends while it runs.  Cooldowns are reduced to whether retry_after lies  *)
(* in the future; their length, the jitter and the byte counters are left  *)
(* out, and so are the answers, which flush returns to its caller only if  *)
(* it empties the queue.                                                   *)
(***************************************************************************)
EXTENDS Naturals, Sequences, FiniteSets, SequencesExt

CONSTANTS
    Frames,         \* client message ids of frames
    Endpoints,      \* relays
    Priority,       \* priority of each relay, smaller is tried first
    Directories,    \* directories clients come across
    Refused,        \* frames the core answers with an error, however often sent
    Reachable,      \* relays that are up, though any single send may fail
    None,           \* the absent value
    MaxEnqueues,    \* bound: frames enqueued
    MaxCancels      \* bound: flushes whose future is dropped

\* SignedRelayDirectory; whether signature and time window are good is one bit.
DirectoryRecord == [version : Nat, endpoints : SUBSET Endpoints, valid : BOOLEAN]

ASSUME PriorityAssumption == Priority \in [Endpoints -> Nat]
ASSUME DirectoriesAssumption == Directories \subseteq DirectoryRecord
ASSUME NoneAssumption == None \notin Endpoints
ASSUME BoundsAssumption == MaxEnqueues \in Nat /\ MaxCancels \in Nat

VARIABLES
    outbox,         \* queued frames
    directory,      \* the relay directory in use
    cooling,        \* relays whose retry_after lies in the future
    preferred,      \* preferred_endpoint
    flushing,       \* is a flush suspended at a send?
    tried,          \* relays the running flush is done with for this frame
    log,            \* frames in the order enqueue took them (history)
    answered,       \* frames in the order they were answered (history)
    failedNow,      \* failed sends per relay in the running flush (history)
    cancels         \* flushes cancelled so far

progress == <<flushing, tried, failedNow>>
history == <<log, answered>>
vars == <<outbox, directory, cooling, preferred, progress, history, cancels>>

Init ==
    /\ outbox = <<>>
    /\ directory \in {d \in Directories : d.valid}
    /\ cooling = {}
    /\ preferred = None
    /\ flushing = FALSE
    /\ tried = {}
    /\ log = <<>>
    /\ answered = <<>>
    /\ failedNow = [e \in Endpoints |-> 0]
    /\ cancels = 0

-----------------------------------------------------------------------------
(* Calls between flushes                                                   *)

NotQueued(f) == f \notin ToSet(outbox)

Enqueue(f) ==
    /\ ~flushing
    /\ Len(log) < MaxEnqueues
    /\ NotQueued(f)
    /\ outbox' = Append(outbox, f)
    /\ log' = Append(log, f)
    /\ UNCHANGED <<directory, cooling, preferred, progress, answered, cancels>>

\* verify: no lower version, inside its time window, signature good.
Verified(d) == d.version >= directory.version /\ d.valid

UpdateDirectory(d) ==
    /\ ~flushing
    /\ Verified(d)
    /\ directory' = d
    /\ UNCHANGED <<outbox, cooling, preferred, progress, history, cancels>>

NotifyNetworkChange ==
    /\ ~flushing
    /\ cooling' = {}
    /\ UNCHANGED <<outbox, directory, preferred, progress, history, cancels>>

\* The time given to the next flush is past e's retry_after.
CooldownElapses(e) ==
    /\ ~flushing
    /\ e \in cooling
    /\ cooling' = cooling \ {e}
    /\ UNCHANGED <<outbox, directory, preferred, progress, history, cancels>>

-----------------------------------------------------------------------------
(* flush                                                                   *)

\* The order in which flush tries relays: the preferred one, then by priority.
ByPriority(e1, e2) == Priority[e1] <= Priority[e2]
Before(e1, e2) ==
    e1 = preferred \/ (e2 # preferred /\ Priority[e1] <= Priority[e2])

FirstOnly == IF tried = {} THEN directory.endpoints ELSE {}
Untried == directory.endpoints \ tried

\* e is the relay the loop has reached.
Current(e) ==
    /\ flushing
    /\ e \in Untried
    /\ \A e2 \in Untried : Before(e, e2)

Ends ==
    /\ flushing' = FALSE
    /\ tried' = {}
    /\ failedNow' = [e \in Endpoints |-> 0]

FlushBegin ==
    /\ ~flushing
    /\ outbox # <<>>
    /\ flushing' = TRUE
    /\ UNCHANGED <<outbox, directory, cooling, preferred, tried, failedNow,
                   history, cancels>>

NeverSkips(e) == FALSE
Skips(e) == e \in cooling

FlushSkips(e) ==
    /\ Current(e)
    /\ Skips(e)
    /\ tried' = tried \cup {e}
    /\ UNCHANGED <<outbox, directory, cooling, preferred, flushing, failedNow,
                   history, cancels>>

\* WebSocket first, then HTTPS: one of them returns an answer within the timeout.
\* A relay closes the socket and answers 502 when the core refuses the frame, so a
\* refusal looks like a failing relay.
Answers(e, f) == e \in Reachable /\ f \notin Refused

\* The frame leaves the queue and the relay becomes the preferred one.  With an
\* empty queue flush returns, else it starts over with the next frame.
FlushSends(e) ==
    /\ Current(e)
    /\ ~Skips(e)
    /\ Answers(e, Head(outbox))
    /\ cooling' = cooling \ {e}
    /\ preferred' = e
    /\ outbox' = Tail(outbox)
    /\ answered' = Append(answered, Head(outbox))
    /\ IF Len(outbox) = 1
       THEN Ends
       ELSE tried' = {} /\ UNCHANGED <<flushing, failedNow>>
    /\ UNCHANGED <<directory, log, cancels>>

\* Both attempts fail: the relay cools down.
FlushFails(e) ==
    /\ Current(e)
    /\ ~Skips(e)
    /\ cooling' = cooling \cup {e}
    /\ tried' = tried \cup {e}
    /\ failedNow' = [failedNow EXCEPT ![e] = @ + 1]
    /\ UNCHANGED <<outbox, directory, preferred, flushing, history, cancels>>

DropsFrame == outbox' = Tail(outbox)
RetainsOutbox == UNCHANGED outbox

\* No relay took the frame.
FlushUnavailable ==
    /\ flushing
    /\ Untried = {}
    /\ RetainsOutbox
    /\ Ends
    /\ UNCHANGED <<directory, cooling, preferred, history, cancels>>

\* The caller drops the future while a send is awaited.
FlushCancelled ==
    /\ flushing
    /\ cancels < MaxCancels
    /\ cancels' = cancels + 1
    /\ Ends
    /\ UNCHANGED <<outbox, directory, cooling, preferred, history>>

FlushStep ==
    \/ \E e \in Endpoints : FlushSkips(e) \/ FlushSends(e) \/ FlushFails(e)
    \/ FlushUnavailable

Next ==
    \/ \E f \in Frames : Enqueue(f)
    \/ \E d \in Directories : UpdateDirectory(d)
    \/ NotifyNetworkChange
    \/ \E e \in Endpoints : CooldownElapses(e)
    \/ FlushBegin
    \/ FlushStep
    \/ FlushCancelled

(* The caller flushes while frames are queued, and again after a failure;  *)
(* a flush goes on by itself; time passes; and a relay that is up and is   *)
(* asked again and again answers at last.                                  *)
Fairness ==
    /\ WF_vars(FlushBegin)
    /\ WF_vars(FlushStep)
    /\ SF_vars(\E e \in Endpoints : FlushSends(e))
    /\ \A e \in Endpoints : SF_vars(CooldownElapses(e))

Spec == Init /\ [][Next]_vars /\ Fairness

-----------------------------------------------------------------------------
(* Properties                                                              *)

\* "never deletes pending work because an endpoint fails" (docs/TRANSPORTS.md): the
\* frames answered, followed by those still queued, are those enqueued, in order;
\* whatever fails, is cancelled or is reconfigured in between (flush, :318-379).
AnsweredThenQueued == answered \o outbox = log

\* A relay that has failed is not asked again by the same flush: a dead relay costs
\* a flush one failed send, however many frames are queued (flush, :332, :361-367).
FailsOncePerFlush == \A e \in Endpoints : failedNow[e] <= 1

\* Sticky recovery: flush leaves a relay that works for another one only when the
\* first is cooling down after a failure or has left the directory, not because a
\* relay of a better priority is back (flush, :321-328, :357).
LeavesOnlyFailedRelay ==
    [][preferred' # preferred /\ preferred \in directory.endpoints
           => preferred \in cooling]_vars

\* A frame that the core refuses is queued ahead of f, or is f itself.
Blocked(f) ==
    \E i, j \in DOMAIN outbox : outbox[i] \in Refused /\ i <= j /\ outbox[j] = f

\* Every queued frame is answered at last if the directories in use list a relay
\* that is up from some time on: relays that are down, cooldowns and a preferred
\* relay that has gone only delay it.  What stops it is a refused frame at the head,
\* which flush repeats for ever and never steps over (flush, :318-379).
QueueDrains ==
    <>[](directory.endpoints \cap Reachable # {})
        => \A f \in Frames : f \in ToSet(outbox) ~> f \notin ToSet(outbox) \/ Blocked(f)
=============================================================================
