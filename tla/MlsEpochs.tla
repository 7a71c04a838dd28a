----------------------------- MODULE MlsEpochs -------------------------------
(***************************************************************************)
(* One conversation as the CryptoEngines of its devices see it             *)
(* (crates/messenger-crypto/src/lib.rs), with the group log of the         *)
(* Delivery Service between them.                                          *)
(*                                                                         *)
(* The engine merges its own commit at once, before the shell uploads it,  *)
(* so two devices may commit out of the same epoch; the service takes both *)
(* commits.  What leaves the engine is uploaded in order or refused, and   *)
(* lost if the process dies first.  A device processes the log in order.   *)
(* It restarts from the last snapshot it exported, or from nothing: no     *)
(* snapshot can be exported before there is a conversation.  It then reads *)
(* the log from its beginning, or goes on where it was: the cursor of      *)
(* messenger-core survives, and no code ties it to the snapshot.           *)
(*                                                                         *)
(* OpenMLS is external.  It is modelled by what the engine relies on: a    *)
(* message opens only in the epoch it was made in (no past epochs are      *)
(* kept), not at its author, and once per ratchet generation, even if what *)
(* it opens to is refused; a commit covers the proposals its author holds  *)
(* and is refused by whoever does not hold them.  Fewer messages are sent  *)
(* per epoch than the 100 the ratchets tolerate out of order.  A device is *)
(* in a roster once: OpenMLS refuses a second leaf with the same signature *)
(* key, and a restart from nothing, which makes a new key, is taken not to *)
(* lead to a second leaf before the first is removed.                      *)
(***************************************************************************)
EXTENDS Naturals, Sequences, FiniteSets, SequencesExt

CONSTANTS
    Devices,
    Creator,        \* the device that creates the conversation
    Plans,          \* bounds: the calls each shell makes, in order, besides the ones
                    \* that answer to what it receives, and the number of
                    \* refused uploads and restarts
    None            \* no conversation, no snapshot

ASSUME CreatorAssumption == Creator \in Devices
ASSUME PlansAssumption ==
    Plans \subseteq [calls : [Devices -> Seq(STRING)], losses : Nat]

VARIABLES
    epochs,         \* every epoch there is: parent, roster, author, by self_update?
    group,          \* device: its MlsGroup, in memory and in the provider store
    packages,       \* device: key packages whose private keys the store has
    snapshot,       \* device: its last exported state
    outgoing,       \* device: what its engine has produced, to be uploaded
    log,            \* what the service has accepted
    next,           \* device: position in the log it processes next
    offered,        \* device: its key packages at the service, each handed out once
    entered,        \* <<device, epoch>>: who made, merged or joined it (history)
    restored,       \* devices that have restarted from a snapshot (history)
    lost,           \* what was produced and never uploaded (history)
    todo,           \* device: the calls its shell still makes
    losses          \* losses still to come

vars == <<epochs, group, packages, snapshot, outgoing, log, next, offered, entered,
          restored, lost, todo, losses>>

Init ==
    /\ epochs = <<>>
    /\ group = [d \in Devices |-> None]
    /\ packages = [d \in Devices |-> {}]
    /\ snapshot = [d \in Devices |-> None]
    /\ outgoing = [d \in Devices |-> <<>>]
    /\ log = <<>>
    /\ next = [d \in Devices |-> 1]
    /\ offered = [d \in Devices |-> {}]
    /\ entered = {}
    /\ restored = {}
    /\ lost = {}
    /\ \E plan \in Plans : todo = plan.calls /\ losses = plan.losses

Roster(e) == epochs[e].roster

Holds(d) == group[d] # None
Active(d) == Holds(d) /\ group[d].active

\* A device on entering an epoch: no proposals, ratchets at their start.
Entered(e) ==
    [epoch |-> e, active |-> TRUE, pending |-> {}, sent |-> [hs |-> 0, app |-> 0],
     seen |-> {}]

Call(d, name) ==
    /\ todo[d] # <<>>
    /\ Head(todo[d]) = name
    /\ todo' = [todo EXCEPT ![d] = Tail(@)]
    /\ UNCHANGED losses

Enters(d, e) == entered' = entered \cup {<<d, e>>}

\* Proposals and commits use one ratchet, texts another.
Ratchet(m) == IF m.kind = "text" THEN "app" ELSE "hs"
Key(m) == <<m.author, m.from, Ratchet(m), m.gen>>
-----------------------------------------------------------------------------
(* Conversations and key packages.                                         *)

CreateConversation(d) ==
    /\ d = Creator
    /\ epochs = <<>>
    /\ epochs' = <<[parent |-> 0, roster |-> {d}, by |-> d, update |-> FALSE]>>
    /\ group' = [group EXCEPT ![d] = Entered(1)]
    /\ Enters(d, 1)
    /\ UNCHANGED <<packages, snapshot, outgoing, log, next, offered, restored, lost, todo,
                   losses>>

\* The shell publishes what it generates; whoever adds the device fetches it.
GenerateKeyPackage(d) ==
    /\ Call(d, "package")
    /\ offered' = [offered EXCEPT ![d] = @ \cup {Len(todo[d])}]
    /\ packages' = [packages EXCEPT ![d] = @ \cup {Len(todo[d])}]
    /\ UNCHANGED <<epochs, group, snapshot, outgoing, log, next, entered, restored, lost>>

\* A welcome opens with the private key of the package it was made for.
CanOpen(d, w) == w.kind = "welcome" /\ w.for = d /\ w.package \in packages[d]

JoinConversationFromWelcome(d) ==
    /\ ~Holds(d)
    /\ \E n \in DOMAIN log :
        /\ CanOpen(d, log[n])
        /\ group' = [group EXCEPT ![d] = Entered(log[n].to)]
        /\ packages' = [packages EXCEPT ![d] = @ \ {log[n].package}]
        /\ Enters(d, log[n].to)
    /\ UNCHANGED <<epochs, snapshot, outgoing, log, next, offered, restored, lost, todo,
                   losses>>
-----------------------------------------------------------------------------
(* Commits and proposals.                                                  *)

Adds(changes) == {c.target : c \in {x \in changes : x.op = "add"}}
Removes(changes) == {c.target : c \in {x \in changes : x.op = "remove"}}

\* What OpenMLS accepts as a commit of d: nobody is added who is there, or twice,
\* nobody is removed who is not, and not d itself.
Valid(d, changes) ==
    /\ Adds(changes) \cap Roster(group[d].epoch) = {}
    /\ \A x, y \in changes : x.op = "add" /\ y.op = "add" /\ x.target = y.target => x = y
    /\ Removes(changes) \subseteq Roster(group[d].epoch) \ {d}

\* merge_pending_commit.
Unmerged(d, e) == [group[d] EXCEPT !.sent.hs = @ + 1]
Merged(d, e) == Entered(e)

\* add_members, remove_members or self_update, and merge_pending_commit: d is in the
\* new epoch before anybody else hears of it.  The commit covers d's proposals.
\* The welcome for the devices it adds is returned, or not.
Commit(d, own, welcomes) ==
    LET changes == own \cup {p.change : p \in group[d].pending}
        e == Len(epochs) + 1
        commit == [kind |-> "commit", author |-> d, from |-> group[d].epoch,
                   gen |-> group[d].sent.hs, to |-> e, refs |-> group[d].pending]
        welcome(c) == [kind |-> "welcome", for |-> c.target, package |-> c.package, to |-> e]
        added == {c \in changes : c.op = "add"}
    IN  /\ Active(d)
        /\ Valid(d, changes)
        /\ epochs' = Append(epochs,
                        [parent |-> group[d].epoch, by |-> d, update |-> own = {},
                         roster |-> (Roster(group[d].epoch) \cup Adds(changes))
                                        \ Removes(changes)])
        /\ group' = [group EXCEPT ![d] = Merged(d, e)]
        /\ Enters(d, Merged(d, e).epoch)
        /\ outgoing' = [outgoing EXCEPT ![d] =
                            @ \o <<commit>> \o
                            IF welcomes THEN SetToSeq({welcome(c) : c \in added}) ELSE <<>>]
        /\ UNCHANGED <<packages, snapshot, log, next, restored, lost>>

Added(t, n) == [op |-> "add", target |-> t, package |-> n]
Removed(t) == [op |-> "remove", target |-> t, package |-> 0]

FetchPackage(t, n) ==
    /\ n \in offered[t]
    /\ offered' = [offered EXCEPT ![t] = @ \ {n}]

CommitAddMembers(d) ==
    /\ Call(d, "add")
    /\ \E t \in Devices : \E n \in offered[t] :
            FetchPackage(t, n) /\ Commit(d, {Added(t, n)}, TRUE)

RemovalDropsWelcome(d) ==
    Call(d, "remove") /\ (\E t \in Devices : Commit(d, {Removed(t)}, FALSE)) /\ UNCHANGED offered
CommitRemoveMembers(d) ==
    Call(d, "remove") /\ (\E t \in Devices : Commit(d, {Removed(t)}, TRUE)) /\ UNCHANGED offered

\* self_update returns the commit alone.
SelfUpdate(d) ==
    /\ Call(d, "update")
    /\ Commit(d, {}, FALSE)
    /\ UNCHANGED offered

\* The proposal is kept by its author too.
Propose(d, change) ==
    LET p == [kind |-> "proposal", author |-> d, from |-> group[d].epoch,
              gen |-> group[d].sent.hs, change |-> change]
    IN  /\ Active(d)
        /\ Valid(d, {change})
        /\ group' = [group EXCEPT ![d].pending = @ \cup {p}, ![d].sent.hs = @ + 1]
        /\ outgoing' = [outgoing EXCEPT ![d] = Append(@, p)]
        /\ UNCHANGED <<epochs, packages, snapshot, log, next, entered, restored, lost>>

ProposeAddMembers(d) ==
    /\ Call(d, "propose")
    /\ \E t \in Devices : \E n \in offered[t] :
            FetchPackage(t, n) /\ Propose(d, Added(t, n))

ProposeRemoveMembers(d) ==
    /\ Call(d, "propose")
    /\ \E t \in Devices : Propose(d, Removed(t))
    /\ UNCHANGED offered

EncryptApplicationMessage(d) ==
    /\ Call(d, "text")
    /\ Active(d)
    /\ outgoing' = [outgoing EXCEPT ![d] =
                        Append(@, [kind |-> "text", author |-> d, from |-> group[d].epoch,
                                   gen |-> group[d].sent.app])]
    /\ group' = [group EXCEPT ![d].sent.app = @ + 1]
    /\ UNCHANGED <<epochs, packages, snapshot, log, next, offered, entered, restored, lost>>
-----------------------------------------------------------------------------
(* process_incoming_message.                                               *)

Opens(d, m) ==
    /\ m.kind # "welcome"
    /\ Active(d)
    /\ m.author # d
    /\ m.from = group[d].epoch
    /\ Key(m) \notin group[d].seen

\* The state of d after a message that opens.  A commit that lacks a proposal is
\* refused, but its generation is used up; one that removes d ends its part.
Keeps(d, e) == d \in Roster(e)

Processed(d, m) ==
    LET used == [group[d] EXCEPT !.seen = @ \cup {Key(m)}]
    IN  CASE m.kind = "text" -> used
          [] m.kind = "proposal" -> [used EXCEPT !.pending = @ \cup {m}]
          [] m.kind = "commit" /\ ~(m.refs \subseteq group[d].pending) -> used
          [] m.kind = "commit" /\ m.refs \subseteq group[d].pending ->
                IF Keeps(d, m.to) THEN Entered(m.to) ELSE [used EXCEPT !.active = FALSE]

ProcessIncomingMessage(d) ==
    /\ Holds(d)
    /\ next[d] <= Len(log)
    /\ next' = [next EXCEPT ![d] = @ + 1]
    /\ LET m == log[next[d]]
       IN  \/ /\ Opens(d, m)
              /\ group' = [group EXCEPT ![d] = Processed(d, m)]
              /\ Enters(d, Processed(d, m).epoch)
           \/ ~Opens(d, m) /\ UNCHANGED <<group, entered>>
    /\ UNCHANGED <<epochs, packages, snapshot, outgoing, log, offered, restored, lost,
                   todo, losses>>
-----------------------------------------------------------------------------
(* Snapshots, restarts and the way to the service.                         *)

\* Exports are left out once no restart can follow.
ExportConversationState(d) ==
    /\ Holds(d)
    /\ losses > 0
    /\ snapshot' = [snapshot EXCEPT ![d] = [group |-> group[d], packages |-> packages[d]]]
    /\ UNCHANGED <<epochs, group, packages, outgoing, log, next, offered, entered, restored,
                   lost, todo, losses>>

\* Where the shell reads the log from then: its beginning, or the cursor that
\* messenger-core has kept.
ReadsOn(d) == next' \in {[next EXCEPT ![d] = 1], next}

\* The process dies and starts again: initialize_crypto_store, and
\* import_conversation_state if there is a snapshot.  Whether the store has the
\* generations that were used for reading is up to OpenMLS.
Restart(d) ==
    /\ losses > 0
    /\ losses' = losses - 1
    /\ \/ /\ snapshot[d] = None
          /\ UNCHANGED restored
          /\ group' = [group EXCEPT ![d] = None]
          /\ packages' = [packages EXCEPT ![d] = {}]
       \/ /\ snapshot[d] # None
          /\ \E seen \in {{}, snapshot[d].group.seen} :
                group' = [group EXCEPT ![d] = [snapshot[d].group EXCEPT !.seen = seen]]
          /\ packages' = [packages EXCEPT ![d] = snapshot[d].packages]
          /\ restored' = restored \cup {d}
    /\ lost' = lost \cup ToSet(outgoing[d]) \cup
                {[kind |-> "package", for |-> d, package |-> n] :
                    n \in packages[d] \ packages'[d]}
    /\ outgoing' = [outgoing EXCEPT ![d] = <<>>]
    /\ ReadsOn(d)
    /\ UNCHANGED <<epochs, snapshot, log, offered, entered, todo>>

DestroyLocalConversationState(d) ==
    /\ Call(d, "destroy")
    /\ Holds(d)
    /\ group' = [group EXCEPT ![d] = None]
    /\ ReadsOn(d)
    /\ UNCHANGED <<epochs, packages, snapshot, outgoing, log, offered, entered, restored, lost>>

Upload(d) ==
    /\ outgoing[d] # <<>>
    /\ log' = Append(log, Head(outgoing[d]))
    /\ outgoing' = [outgoing EXCEPT ![d] = Tail(@)]
    /\ UNCHANGED <<epochs, group, packages, snapshot, next, offered, entered, restored, lost,
                   todo, losses>>

UploadRefused(d) ==
    /\ outgoing[d] # <<>>
    /\ losses > 0
    /\ losses' = losses - 1
    /\ lost' = lost \cup {Head(outgoing[d])}
    /\ outgoing' = [outgoing EXCEPT ![d] = Tail(@)]
    /\ UNCHANGED <<epochs, group, packages, snapshot, log, next, offered, entered, restored,
                   todo>>
-----------------------------------------------------------------------------
Next ==
    \E d \in Devices :
        \/ CreateConversation(d) \/ GenerateKeyPackage(d)
        \/ JoinConversationFromWelcome(d)
        \/ CommitAddMembers(d) \/ CommitRemoveMembers(d) \/ SelfUpdate(d)
        \/ ProposeAddMembers(d) \/ ProposeRemoveMembers(d)
        \/ EncryptApplicationMessage(d) \/ ProcessIncomingMessage(d)
        \/ ExportConversationState(d) \/ Restart(d) \/ DestroyLocalConversationState(d)
        \/ Upload(d) \/ UploadRefused(d)

(* Shells upload what the engine gives them and process what they receive. *)
Fairness ==
    \A d \in Devices : /\ WF_vars(Upload(d))
                       /\ WF_vars(ProcessIncomingMessage(d))

Spec == Init /\ [][Next]_vars /\ Fairness
-----------------------------------------------------------------------------
(* Properties.                                                             *)

\* d has made the commit that leads to e, or has merged it, or has joined there.
Took(d, e) == epochs[e].by = d \/ <<d, e>> \in entered

Siblings(e, f) == e # f /\ epochs[e].parent = epochs[f].parent

\* "Neither engine silently accepts the competing branch after merging its own": a
\* device follows at most one commit out of each epoch it is a member of, its own
\* or somebody else's, whatever is refused, destroyed, joined again or received
\* late.  So devices part only if two of them commit, unless one was restored from
\* a snapshot.
OneBranch ==
    \A e, f \in DOMAIN epochs : Siblings(e, f) =>
        \A d \in Roster(epochs[e].parent) \ restored : ~(Took(d, e) /\ Took(d, f))

\* A device that was added can join: its welcome is on the way or in its mailbox, made
\* for a key package it holds, unless the welcome or the package was lost, or the
\* package served to join by a competing commit of the same proposal.
\* Except for self_update, which adds the devices proposed and drops the welcome.
AddedCanJoin ==
    \A e \in 2 .. Len(epochs) : \A d \in Roster(e) \ Roster(epochs[e].parent) :
        \/ epochs[e].update
        \/ \E f \in DOMAIN epochs :
              <<d, f>> \in entered /\ epochs[f].parent = epochs[e].parent
        \/ \E w \in ToSet(log) \cup ToSet(outgoing[epochs[e].by]) : CanOpen(d, w) /\ w.to = e
        \/ \E x \in lost : x.kind \in {"package", "welcome"} /\ x.for = d

\* Two commits out of one epoch.
Forked == \E e, f \in DOMAIN epochs : Siblings(e, f)

\* A proposal or commit that its author has applied and nobody else will see.
HandshakeLost == \E m \in lost : m.kind \in {"proposal", "commit"}

\* Two proposals or commits under one generation: the second is refused as a replay.
Reused ==
    \E m1, m2 \in {m \in ToSet(log) : m.kind \in {"proposal", "commit"}} :
        m1 # m2 /\ Key(m1) = Key(m2)

\* d was restored to a state from before a proposal or commit it has sent.
Amnesiac(d) ==
    \E m \in ToSet(log) :
        /\ m.kind \in {"proposal", "commit"}
        /\ m.author = d /\ m.from = group[d].epoch /\ m.gen >= group[d].sent.hs

\* d has gone past a proposal or commit of its epoch that it has not processed: its
\* cursor was ahead of the state it was restored to or joined with.
Skipped(d) ==
    \E n \in 1 .. next[d] - 1 : log[n].kind \in {"proposal", "commit"} /\ Opens(d, log[n])

\* In the end all devices that take part are in one epoch, however uploads, processing
\* and restarts interleave, unless commits compete, a proposal or commit is lost
\* after its author applied it, or a restart takes a device back to before one that it
\* has sent, or has read and does not read again.
Converges ==
    <>[] \/ Forked \/ HandshakeLost \/ Reused
         \/ \A d, f \in {x \in Devices : Active(x)} :
                \/ group[d].epoch = group[f].epoch
                \/ Amnesiac(d) \/ Amnesiac(f) \/ Skipped(d) \/ Skipped(f)
=============================================================================
