----------------------------- MODULE MCFrontEnd ------------------------------
(***************************************************************************)
(* FrontEnd on a small instance: two devices and a pool of two             *)
(* connections.  One polls while the other uploads, and polls too or not;  *)
(* or both upload; or one fills the other's mailbox; or both ask for a key *)
(* package of one of them.  The device that polls and fetches may have two *)
(* handlers at work, one it has given up and one it waits for.             *)
(***************************************************************************)
EXTENDS FrontEnd

CONSTANTS d1, d2, h1, h2, h3, e1, e2, p1, w1, w2

MCSender == (h1 :> d1) @@ (h2 :> d1) @@ (h3 :> d2)

MCAudience == [e \in Events |-> {d1}]

MCAddressee == (p1 :> d2) @@ (w1 :> d1) @@ (w2 :> d1)

\* One frame holds an event or a welcome, not two of them.
MCSize == [i \in {e1, e2, p1, w1, w2} |-> 1]

Upload(e) == [op |-> "upload", event |-> e]
Poll(limit) == [op |-> "poll", limit |-> limit]
Fetch(d) == [op |-> "package", of |-> d]

FetchUpTo(limit) == [op |-> "welcomes", limit |-> limit]
Invite(w) == [op |-> "invite", item |-> w]
Publish(p) == [op |-> "publish", item |-> p]

\* How many faults there may be in each workload.
MCMaxFaults ==
    ((d1 :> {Poll(1)}) @@ (d2 :> {Upload(e1)})) :> 1 @@
    ((d1 :> {Poll(1)}) @@ (d2 :> {Poll(1), Upload(e1)})) :> 0 @@
    ((d1 :> {Poll(1), Upload(e1)}) @@ (d2 :> {Upload(e2)})) :> 0 @@
    ((d1 :> {Poll(2), Upload(e1)}) @@ (d2 :> {Upload(e2)})) :> 0 @@
    ((d1 :> {FetchUpTo(2)}) @@ (d2 :> {Invite(w1)})) :> 2 @@
    ((d1 :> {FetchUpTo(1), FetchUpTo(2)}) @@ (d2 :> {Invite(w1), Invite(w2)})) :> 0 @@
    ((d1 :> {Fetch(d2)}) @@ (d2 :> {Publish(p1), Fetch(d2)})) :> 1

MCWorkloads == DOMAIN MCMaxFaults
=============================================================================
