-------------------------- MODULE MlsEpochsProofs ---------------------------
(***************************************************************************)
(* The safety properties of MlsEpochs, for any devices, any plans and any  *)
(* number of losses.                                                       *)
(*                                                                         *)
(* Both depend on what happened long ago: a device may be restored from    *)
(* any snapshot and may receive any message that was ever made.  IInv      *)
(* therefore speaks of the snapshots as of the groups, of every message    *)
(* that was ever produced, uploaded or not, and of the way each device     *)
(* took through the epochs.                                                *)
(***************************************************************************)
EXTENDS MlsEpochs, FiniteSetTheorems, SequenceTheorems, TLAPS

\* Every message there ever was: nothing is ever taken away from this set.
Produced == ToSet(log) \cup lost \cup UNION {ToSet(outgoing[x]) : x \in Devices}

Changes == [op : {"add", "remove"}, target : Devices, package : Nat]
Texts == [kind : {"text"}, author : Devices, from : Nat, gen : Nat]
Proposals ==
    [kind : {"proposal"}, author : Devices, from : Nat, gen : Nat, change : Changes]
Commits ==
    [kind : {"commit"}, author : Devices, from : Nat, gen : Nat, to : Nat,
     refs : SUBSET Proposals]
Welcomes == [kind : {"welcome"}, for : Devices, package : Nat, to : Nat]
Messages == Texts \cup Proposals \cup Commits \cup Welcomes
LostPackages == [kind : {"package"}, for : Devices, package : Nat]

Epochs == [parent : Nat, roster : SUBSET Devices, by : Devices, update : BOOLEAN]
States ==
    [epoch : Nat, active : BOOLEAN, pending : SUBSET Proposals,
     sent : [hs : Nat, app : Nat], seen : SUBSET (Devices \X Nat \X {"hs", "app"} \X Nat)]

\* The types of the variables.
MlsTypeOK ==
    /\ epochs \in Seq(Epochs)
    /\ DOMAIN group = Devices
    /\ packages \in [Devices -> SUBSET Nat]
    /\ DOMAIN snapshot = Devices
    /\ \A d \in Devices : snapshot[d] # None => snapshot[d].packages \subseteq Nat
    /\ outgoing \in [Devices -> Seq(Messages)]
    /\ log \in Seq(Messages)
    /\ next \in [Devices -> Nat \ {0}]
    /\ offered \in [Devices -> SUBSET Nat]
    /\ lost \subseteq Messages \cup LostPackages
    /\ todo \in [Devices -> Seq(STRING)]

\* Every epoch but the first was made out of one.
EpochsHaveParents ==
    /\ Len(epochs) > 0 => epochs[1].parent = 0
    /\ \A e \in 2 .. Len(epochs) : epochs[e].parent \in 1 .. e - 1

\* What holds of a state g that d has or may be restored to, when es are the epochs
\* and ms the messages: d takes part only as a member, and its proposals are
\* messages of its epoch.
StateOf(d, g, es, ms) ==
    /\ g \in States
    /\ g.epoch \in 1 .. Len(es)
    /\ g.active => d \in es[g.epoch].roster
    /\ IsFiniteSet(g.pending)
    /\ \A p \in g.pending : p.from = g.epoch /\ p \in ms

StatesAreOfMembers ==
    \A d \in Devices :
        /\ group[d] # None => StateOf(d, group[d], epochs, Produced)
        /\ snapshot[d] # None => StateOf(d, snapshot[d].group, epochs, Produced)

\* What holds of a message when es are the epochs: a commit leads out of its epoch, and
\* a welcome goes to a device that is new.
Leads(m, es) ==
    /\ m.kind \in {"commit", "welcome"} => m.to \in 2 .. Len(es)
    /\ m.kind = "commit" => es[m.to].parent = m.from
    /\ m.kind = "welcome" => m.for \in es[m.to].roster \ es[es[m.to].parent].roster

MessagesLeadToEpochs == \A m \in Produced : Leads(m, epochs)

\* A commit invites nobody twice.
WelcomesAreSingle ==
    \A m1, m2 \in Produced :
        /\ m1.kind = "welcome" /\ m2.kind = "welcome"
        /\ m1.for = m2.for /\ m1.to = m2.to
        => m1 = m2

\* A message that uses key package n of t, and the epoch it is used in.
Uses(m, t, n) ==
    \/ m.kind = "proposal" /\ m.change = Added(t, n)
    \/ m.kind = "welcome" /\ m.for = t /\ m.package = n
Origin(m, es) == IF m.kind = "proposal" THEN m.from ELSE es[m.to].parent

\* The service hands out a key package once, and identifiers are not used again.
PackagesAreFetchedOnce ==
    \A t \in Devices :
        /\ \A n \in offered[t] : n > Len(todo[t])
        /\ \A m \in Produced, n \in Nat :
              Uses(m, t, n) => n \notin offered[t] /\ n > Len(todo[t])

\* So whatever uses a package uses it in one epoch.
PackagesHaveOneOrigin ==
    \A t \in Devices, n \in Nat : \A m1, m2 \in Produced :
        Uses(m1, t, n) /\ Uses(m2, t, n) => Origin(m1, epochs) = Origin(m2, epochs)

PackageLost(t) == \E x \in lost : x.kind = "package" /\ x.for = t
JoinedFrom(t, e, js, es) ==
    \E f \in 1 .. Len(es) : <<t, f>> \in js /\ es[f].parent = e

\* The private key of a package is kept until it serves to join.
PackagesAreKept ==
    \A t \in Devices, n \in Nat :
        /\ n \in offered[t] => n \in packages[t] \/ PackageLost(t)
        /\ \A m \in Produced : Uses(m, t, n) =>
              \/ n \in packages[t]
              \/ PackageLost(t)
              \/ JoinedFrom(t, Origin(m, epochs), entered, epochs)

\* Every commit but self_update invites whom it adds.
AddedAreInvited ==
    \A e \in 2 .. Len(epochs) : \A d \in Roster(e) \ Roster(epochs[e].parent) :
        \/ epochs[e].update
        \/ \E w \in ToSet(log) \cup ToSet(outgoing[epochs[e].by]) \cup lost :
               w.kind = "welcome" /\ w.for = d /\ w.to = e

\* Only epochs are entered, and the author of a commit enters the epoch it makes.
EpochsAreEntered ==
    /\ \A d, x : <<d, x>> \in entered => x \in 1 .. Len(epochs)
    /\ \A x \in 1 .. Len(epochs) : <<epochs[x].by, x>> \in entered

\* The way of a device that was never restored.  It enters an epoch from the one before,
\* if it is a member there, has gone no further than where it is, has used up the
\* welcomes to where it has been, and has entered one epoch at most out of each.
BranchOf(d) ==
    /\ \A x \in 2 .. Len(epochs) :
           <<d, x>> \in entered /\ d \in Roster(epochs[x].parent)
               => <<d, epochs[x].parent>> \in entered
    /\ group[d] # None => <<d, group[d].epoch>> \in entered
    /\ group[d] # None => \A x \in 2 .. Len(epochs) :
           <<d, x>> \in entered => epochs[x].parent # group[d].epoch
    /\ \A w \in Produced : w.kind = "welcome" /\ w.for = d /\ w.package \in packages[d]
           => <<d, w.to>> \notin entered
    /\ \A x, y \in 2 .. Len(epochs) : Siblings(x, y) /\ d \in Roster(epochs[x].parent)
           => ~(<<d, x>> \in entered /\ <<d, y>> \in entered)

DevicesFollowOneBranch ==
    /\ EpochsAreEntered
    /\ \A d \in Devices \ restored : BranchOf(d)

IInv ==
    /\ MlsTypeOK
    /\ EpochsHaveParents
    /\ StatesAreOfMembers
    /\ MessagesLeadToEpochs
    /\ WelcomesAreSingle
    /\ PackagesAreFetchedOnce
    /\ PackagesHaveOneOrigin
    /\ PackagesAreKept
    /\ AddedAreInvited
    /\ DevicesFollowOneBranch
-----------------------------------------------------------------------------
(* Sequences.                                                              *)

\* The elements of a sequence with one more.
LEMMA ToSetAppend ==
    ASSUME NEW S, NEW s \in Seq(S), NEW x \in S
    PROVE  Append(s, x) \in Seq(S) /\ ToSet(Append(s, x)) = ToSet(s) \cup {x}
<1>1. \A i \in 1 .. Len(s) : Append(s, x)[i] = s[i]
  OBVIOUS
<1>2. Append(s, x)[Len(s) + 1] = x /\ DOMAIN Append(s, x) = 1 .. Len(s) + 1
  OBVIOUS
<1> QED
  BY <1>1, <1>2 DEF ToSet

\* The elements of a sequence without its first.
LEMMA ToSetTail ==
    ASSUME NEW S, NEW s \in Seq(S), s # <<>>
    PROVE  /\ Head(s) \in S /\ Tail(s) \in Seq(S)
           /\ ToSet(s) = ToSet(Tail(s)) \cup {Head(s)}
<1>1. Head(s) = s[1] /\ Len(s) >= 1 /\ DOMAIN s = 1 .. Len(s)
  OBVIOUS
<1>2. DOMAIN Tail(s) = 1 .. Len(s) - 1 /\ \A i \in 1 .. Len(s) - 1 : Tail(s)[i] = s[i + 1]
  OBVIOUS
<1>3. \A i \in 2 .. Len(s) : s[i] = Tail(s)[i - 1] /\ i - 1 \in 1 .. Len(s) - 1
  BY <1>2
<1>4. ToSet(s) \subseteq ToSet(Tail(s)) \cup {Head(s)}
  <2> SUFFICES ASSUME NEW i \in 1 .. Len(s) PROVE s[i] \in ToSet(Tail(s)) \cup {Head(s)}
    BY <1>1 DEF ToSet
  <2>1. CASE i = 1
    BY <2>1, <1>1
  <2>2. CASE i # 1
    <3>1. i - 1 \in DOMAIN Tail(s) /\ s[i] = Tail(s)[i - 1]
      BY <2>2, <1>2, <1>3
    <3> QED
      BY <3>1 DEF ToSet
  <2> QED
    BY <2>1, <2>2
<1>5. \A i \in 1 .. Len(s) - 1 : Tail(s)[i] = s[i + 1] /\ i + 1 \in DOMAIN s
  BY <1>1, <1>2
<1>6. ToSet(Tail(s)) \subseteq ToSet(s)
  BY <1>2, <1>5 DEF ToSet
<1>7. Head(s) \in ToSet(s)
  BY <1>1 DEF ToSet
<1> QED
  BY <1>4, <1>6, <1>7

\* The elements of two sequences, one after the other.
LEMMA ToSetConcat ==
    ASSUME NEW S, NEW s \in Seq(S), NEW t \in Seq(S)
    PROVE  s \o t \in Seq(S) /\ ToSet(s \o t) = ToSet(s) \cup ToSet(t)
<1>1. /\ DOMAIN (s \o t) = 1 .. Len(s) + Len(t)
      /\ \A i \in 1 .. Len(s) : (s \o t)[i] = s[i]
      /\ \A i \in 1 .. Len(t) : (s \o t)[Len(s) + i] = t[i]
  OBVIOUS
<1>2. \A i \in 1 .. Len(s) + Len(t) :
        i \in 1 .. Len(s) \/ (i - Len(s) \in 1 .. Len(t) /\ (s \o t)[i] = t[i - Len(s)])
  BY <1>1
<1>3. ToSet(s \o t) \subseteq ToSet(s) \cup ToSet(t)
  BY <1>1, <1>2 DEF ToSet
<1>4. \A i \in 1 .. Len(s) : i \in DOMAIN (s \o t)
  BY <1>1
<1>5. \A i \in 1 .. Len(t) : Len(s) + i \in DOMAIN (s \o t)
  BY <1>1
<1>6. ToSet(s) \subseteq ToSet(s \o t)
  BY <1>1, <1>4 DEF ToSet
<1>7. ToSet(t) \subseteq ToSet(s \o t)
  <2> SUFFICES ASSUME NEW i \in 1 .. Len(t) PROVE t[i] \in ToSet(s \o t)
    BY DEF ToSet
  <2>1. (s \o t)[Len(s) + i] = t[i] /\ Len(s) + i \in DOMAIN (s \o t)
    BY <1>1, <1>5
  <2> QED
    BY <2>1 DEF ToSet
<1> QED
  BY <1>3, <1>6, <1>7

\* A finite set as a sequence has the elements of the set.
LEMMA SetToSeqElements ==
    ASSUME NEW S, IsFiniteSet(S)
    PROVE  SetToSeq(S) \in Seq(S) /\ ToSet(SetToSeq(S)) = S
<1> DEFINE n == Cardinality(S)
<1>1. n \in Nat
  BY FS_CardinalityType
<1>2. PICK f \in Bijection(1 .. n, S) : TRUE
  BY FS_CardinalityType DEF ExistsBijection
<1>3. f \in [1 .. n -> S] /\ IsInjective(f)
  BY <1>2 DEF Bijection, Injection, IsInjective
<1> DEFINE g == SetToSeq(S)
<1>4. g \in [1 .. n -> S] /\ IsInjective(g)
  BY <1>3 DEF SetToSeq
<1>5. g \in Seq(S)
  BY <1>1, <1>4
<1>6. \A y \in S : \E i \in 1 .. n : g[i] = y
  <2>1. IsFiniteSet(1 .. n) /\ Cardinality(1 .. n) = n
    BY <1>1, FS_Interval
  <2>2. g \in Injection(1 .. n, S)
    BY <1>4, Zenon DEF Injection
  <2>3. g \in Surjection(1 .. n, S)
    <3> HIDE DEF g
    <3> QED
      BY <2>1, <2>2, FS_Injection
  <2> QED
    BY <2>3 DEF Surjection
<1> QED
  BY <1>4, <1>5, <1>6 DEF ToSet

\* What a function takes a finite set to is finite.
LEMMA FiniteImage ==
    ASSUME NEW S, IsFiniteSet(S), NEW f, DOMAIN f = S
    PROVE  IsFiniteSet({f[x] : x \in S})
<1> DEFINE T == {f[x] : x \in S}
           h == [x \in S |-> f[x]]
<1>1. h \in Surjection(S, T)
  BY DEF Surjection
<1> QED
  <2> HIDE DEF h, T
  <2>1. IsFiniteSet(T)
    BY <1>1, FS_Surjection
  <2> QED
    BY <2>1 DEF T

-----------------------------------------------------------------------------
(* What most steps have in common.                                         *)

\* The epochs es, perhaps with more after them.
Extend(es, fs) ==
    /\ Len(es) \in Nat /\ Len(fs) \in Nat
    /\ Len(es) <= Len(fs)
    /\ \A e \in 1 .. Len(es) : fs[e] = es[e]

\* A state stays good when epochs and messages are added.
LEMMA StateKept ==
    ASSUME NEW d, NEW g, NEW es, NEW fs, NEW ms, NEW ns,
           StateOf(d, g, es, ms), Extend(es, fs), ms \subseteq ns
    PROVE  StateOf(d, g, fs, ns)
<1>1. g.epoch \in 1 .. Len(fs) /\ fs[g.epoch] = es[g.epoch]
  BY DEF StateOf, Extend
<1> QED
  BY <1>1 DEF StateOf

\* A device enters an epoch it is a member of.
LEMMA EnteredState ==
    ASSUME NEW d, NEW es, NEW ms, NEW e \in Nat, e \in 1 .. Len(es), d \in es[e].roster
    PROVE  StateOf(d, Entered(e), es, ms)
<1>1. Entered(e) \in States
  BY DEF Entered, States
<1>2. Entered(e).epoch = e /\ Entered(e).pending = {}
  BY DEF Entered
<1> QED
  BY <1>1, <1>2, FS_EmptySet DEF StateOf

\* A step that adds epochs and messages and changes the states of one device.
LEMMA StatesStep ==
    ASSUME MlsTypeOK, StatesAreOfMembers, Extend(epochs, epochs'), Produced \subseteq Produced',
           NEW d \in Devices,
           \A x \in Devices \ {d} : group'[x] = group[x] /\ snapshot'[x] = snapshot[x],
           \/ group'[d] = None
           \/ group'[d] = group[d]
           \/ StateOf(d, group'[d], epochs', Produced'),
           \/ snapshot'[d] = snapshot[d]
           \/ StateOf(d, snapshot'[d].group, epochs', Produced')
    PROVE  StatesAreOfMembers'
<1>1. ASSUME NEW x \in Devices, group[x] # None
      PROVE  StateOf(x, group[x], epochs', Produced')
  <2>1. StateOf(x, group[x], epochs, Produced)
    BY <1>1 DEF StatesAreOfMembers
  <2> QED
    BY <2>1, StateKept
<1>2. ASSUME NEW x \in Devices, snapshot[x] # None
      PROVE  StateOf(x, snapshot[x].group, epochs', Produced')
  <2>1. StateOf(x, snapshot[x].group, epochs, Produced)
    BY <1>2 DEF StatesAreOfMembers
  <2> QED
    BY <2>1, StateKept
<1>3. ASSUME NEW x \in Devices
      PROVE  /\ group'[x] # None => StateOf(x, group'[x], epochs', Produced')
             /\ snapshot'[x] # None => StateOf(x, snapshot'[x].group, epochs', Produced')
  BY <1>1, <1>2, Zenon
<1> QED
  BY <1>3, Zenon DEF StatesAreOfMembers

\* A step in which nobody offers a package, no private key goes but by a loss, and new
\* messages use packages that are fetched now or are used in the same epoch already.
LEMMA PackagesStep ==
    ASSUME IInv, Extend(epochs, epochs'), Produced \subseteq Produced',
           lost \subseteq lost', entered \subseteq entered',
           \A t \in Devices : Len(todo'[t]) \in Nat /\ Len(todo'[t]) <= Len(todo[t]),
           \A t \in Devices : offered'[t] \subseteq offered[t],
           \A t \in Devices : \A n \in packages[t] :
               n \in packages'[t] \/ PackageLost(t)',
           NEW o,
           \A m \in Produced' \ Produced, t \in Devices, n \in Nat :
               Uses(m, t, n) =>
                   /\ Origin(m, epochs') = o
                   /\ n \notin offered'[t]
                   /\ \/ n \in offered[t]
                      \/ \E k \in Produced : Uses(k, t, n) /\ Origin(k, epochs) = o
    PROVE  PackagesAreFetchedOnce' /\ PackagesHaveOneOrigin' /\ PackagesAreKept'
<1>1. \A t \in Devices : Len(todo[t]) \in Nat /\ offered[t] \subseteq Nat
  BY DEF IInv, MlsTypeOK
<1>2. ASSUME NEW m \in Produced, NEW t, NEW n, Uses(m, t, n)
      PROVE  Origin(m, epochs') = Origin(m, epochs)
  BY <1>2 DEF IInv, MessagesLeadToEpochs, Leads, Uses, Origin, Extend
<1>3. ASSUME NEW t \in Devices, PackageLost(t)
      PROVE  PackageLost(t)'
  BY <1>3 DEF PackageLost
<1>4. ASSUME NEW t \in Devices, NEW e, JoinedFrom(t, e, entered, epochs)
      PROVE  JoinedFrom(t, e, entered', epochs')
  BY <1>4 DEF JoinedFrom, Extend
<1>5. PackagesAreFetchedOnce'
  <2>1. \A t \in Devices : \A n \in offered'[t] : n > Len(todo'[t])
    BY <1>1 DEF IInv, PackagesAreFetchedOnce
  <2>2. ASSUME NEW t \in Devices, NEW m \in Produced', NEW n \in Nat, Uses(m, t, n)
        PROVE  n \notin offered'[t] /\ n > Len(todo'[t])
    <3>1. n \notin offered'[t] /\ n > Len(todo[t])
      BY <2>2 DEF IInv, PackagesAreFetchedOnce
    <3> QED
      BY <1>1, <3>1
  <2> QED
    BY <2>1, <2>2 DEF PackagesAreFetchedOnce
<1>6. PackagesHaveOneOrigin'
  <2>1. ASSUME NEW t \in Devices, NEW n \in Nat, NEW m \in Produced', Uses(m, t, n),
               NEW k \in Produced, Uses(k, t, n)
        PROVE  Origin(m, epochs') = Origin(k, epochs')
    <3>1. Origin(k, epochs') = Origin(k, epochs)
      BY <2>1, <1>2
    <3>2. CASE m \in Produced
      <4>1. Origin(m, epochs') = Origin(m, epochs)
        BY <2>1, <3>2, <1>2
      <4> QED
        BY <2>1, <3>1, <3>2, <4>1 DEF IInv, PackagesHaveOneOrigin
    <3>3. CASE m \notin Produced
      <4>1. n \notin offered[t]
        BY <2>1 DEF IInv, PackagesAreFetchedOnce
      <4>2. Origin(m, epochs') = o
        BY <2>1, <3>3
      <4>3. PICK j \in Produced : Uses(j, t, n) /\ Origin(j, epochs) = o
        BY <2>1, <3>3, <4>1
      <4>4. Origin(j, epochs) = Origin(k, epochs)
        BY <2>1, <4>3 DEF IInv, PackagesHaveOneOrigin
      <4> QED
        BY <3>1, <4>2, <4>3, <4>4
    <3> QED
      BY <3>2, <3>3
  <2>2. ASSUME NEW t \in Devices, NEW n \in Nat, NEW m \in Produced', Uses(m, t, n),
               NEW k \in Produced', Uses(k, t, n)
        PROVE  Origin(m, epochs') = Origin(k, epochs')
    BY <2>1, <2>2
  <2> QED
    BY <2>2 DEF PackagesHaveOneOrigin
<1>7. PackagesAreKept'
  <2>1. ASSUME NEW t \in Devices, NEW n \in Nat, n \in offered[t]
        PROVE  n \in packages'[t] \/ PackageLost(t)'
    BY <2>1, <1>3 DEF IInv, PackagesAreKept
  <2>2. ASSUME NEW t \in Devices, NEW n \in Nat, NEW m \in Produced, Uses(m, t, n)
        PROVE  \/ n \in packages'[t]
               \/ PackageLost(t)'
               \/ JoinedFrom(t, Origin(m, epochs), entered', epochs')
    <3>1. \/ n \in packages[t]
          \/ PackageLost(t)
          \/ JoinedFrom(t, Origin(m, epochs), entered, epochs)
      BY <2>2 DEF IInv, PackagesAreKept
    <3> QED
      BY <3>1, <1>3, <1>4
  <2>3. ASSUME NEW t \in Devices, NEW n \in Nat, NEW m \in Produced', Uses(m, t, n)
        PROVE  \/ n \in packages'[t]
               \/ PackageLost(t)'
               \/ JoinedFrom(t, Origin(m, epochs'), entered', epochs')
    <3>1. CASE m \in Produced
      BY <2>2, <2>3, <3>1, <1>2
    <3>2. CASE m \notin Produced /\ n \in offered[t]
      BY <2>1, <3>2
    <3>3. CASE m \notin Produced /\ n \notin offered[t]
      <4>1. Origin(m, epochs') = o
        BY <2>3, <3>3
      <4>2. PICK k \in Produced : Uses(k, t, n) /\ Origin(k, epochs) = o
        BY <2>3, <3>3
      <4> QED
        BY <2>2, <4>1, <4>2
    <3> QED
      BY <3>1, <3>2, <3>3
  <2> QED
    BY <2>1, <2>3 DEF PackagesAreKept
<1> QED
  BY <1>5, <1>6, <1>7

\* Messages still lead to epochs when epochs are added, and new welcomes to new ones.
LEMMA MessagesStep ==
    ASSUME IInv, Extend(epochs, epochs'),
           \A m \in Produced' \ Produced :
               Leads(m, epochs') /\ (m.kind = "welcome" => m.to > Len(epochs)),
           \A m1, m2 \in Produced' \ Produced :
               m1.kind = "welcome" /\ m2.kind = "welcome" /\ m1.for = m2.for => m1 = m2
    PROVE  MessagesLeadToEpochs' /\ WelcomesAreSingle'
<1>1. \A e \in 1 .. Len(epochs) : e \in 1 .. Len(epochs') /\ epochs'[e] = epochs[e]
  BY DEF Extend
<1>2. Len(epochs) \in Nat /\ Len(epochs') \in Nat /\ Len(epochs) <= Len(epochs')
  BY DEF Extend
<1>3. ASSUME NEW m \in Produced
      PROVE  Leads(m, epochs') /\ (m.kind = "welcome" => ~(m.to > Len(epochs)))
  <2>1. Leads(m, epochs)
    BY DEF IInv, MessagesLeadToEpochs
  <2>2. CASE m.kind \in {"commit", "welcome"}
    <3>1. m.to \in 2 .. Len(epochs) /\ m.to \in 2 .. Len(epochs')
      BY <1>2, <2>1, <2>2 DEF Leads
    <3>2. epochs[m.to].parent \in 1 .. m.to - 1
      BY <3>1 DEF IInv, EpochsHaveParents
    <3>3. /\ epochs'[m.to] = epochs[m.to]
          /\ epochs'[epochs[m.to].parent] = epochs[epochs[m.to].parent]
      BY <1>1, <1>2, <3>1, <3>2
    <3> QED
      BY <1>2, <2>1, <3>1, <3>3 DEF Leads
  <2> QED
    BY <2>1, <2>2 DEF Leads
<1>4. MessagesLeadToEpochs'
  BY <1>3 DEF MessagesLeadToEpochs
<1>5. WelcomesAreSingle'
  <2> SUFFICES ASSUME NEW m1 \in Produced', NEW m2 \in Produced',
                      m1.kind = "welcome", m2.kind = "welcome",
                      m1.for = m2.for, m1.to = m2.to
               PROVE  m1 = m2
    BY DEF WelcomesAreSingle
  <2>1. CASE m1 \in Produced /\ m2 \in Produced
    BY <2>1 DEF IInv, WelcomesAreSingle
  <2>2. CASE m1 \notin Produced /\ m2 \notin Produced
    BY <2>2
  <2>3. ~(m1 \in Produced /\ m2 \notin Produced) /\ ~(m1 \notin Produced /\ m2 \in Produced)
    BY <1>3
  <2> QED
    BY <2>1, <2>2, <2>3
<1> QED
  BY <1>4, <1>5

\* A step that leaves the way of y as it is: new welcomes lead to new epochs, and old
\* ones open with no new package.
Undisturbed(y) ==
    /\ \A x : <<y, x>> \in entered' <=> <<y, x>> \in entered
    /\ group'[y] # None => group[y] # None /\ group'[y].epoch = group[y].epoch
    /\ \A w \in Produced' : w.kind = "welcome" /\ w.for = y /\ w.package \in packages'[y] =>
          (w \in Produced /\ w.package \in packages[y]) \/ w.to > Len(epochs)

LEMMA UndisturbedBranch ==
    ASSUME IInv, Extend(epochs, epochs'), NEW y \in Devices, BranchOf(y), Undisturbed(y)
    PROVE  BranchOf(y)'
<1>1. Len(epochs) \in Nat /\ Len(epochs') \in Nat /\ Len(epochs) <= Len(epochs')
  BY DEF Extend
<1>2. ASSUME NEW x, <<y, x>> \in entered'
      PROVE  <<y, x>> \in entered /\ x \in 1 .. Len(epochs)
  BY <1>2 DEF Undisturbed, IInv, DevicesFollowOneBranch, EpochsAreEntered
<1>3. ASSUME NEW x \in 2 .. Len(epochs)
      PROVE  /\ epochs'[x] = epochs[x]
             /\ epochs'[epochs[x].parent] = epochs[epochs[x].parent]
  <2>1. epochs[x].parent \in 1 .. x - 1
    BY DEF IInv, EpochsHaveParents
  <2>2. x \in 1 .. Len(epochs) /\ epochs[x].parent \in 1 .. Len(epochs)
    BY <1>1, <2>1
  <2> QED
    BY <2>2 DEF Extend
<1>4. ASSUME NEW x \in 2 .. Len(epochs'), <<y, x>> \in entered'
      PROVE  /\ x \in 2 .. Len(epochs) /\ <<y, x>> \in entered
             /\ epochs'[x] = epochs[x]
             /\ epochs'[epochs[x].parent] = epochs[epochs[x].parent]
  <2>1. x \in 2 .. Len(epochs) /\ <<y, x>> \in entered
    BY <1>1, <1>2, <1>4
  <2> QED
    BY <1>3, <2>1
<1>5. ASSUME NEW x \in 2 .. Len(epochs'), <<y, x>> \in entered',
             y \in epochs'[epochs'[x].parent].roster
      PROVE  <<y, epochs'[x].parent>> \in entered'
  BY <1>4, <1>5 DEF BranchOf, Undisturbed, Roster
<1>6. group'[y] # None => <<y, group'[y].epoch>> \in entered'
  BY DEF BranchOf, Undisturbed
<1>7. ASSUME group'[y] # None, NEW x \in 2 .. Len(epochs'), <<y, x>> \in entered'
      PROVE  epochs'[x].parent # group'[y].epoch
  BY <1>4, <1>7 DEF BranchOf, Undisturbed
<1>8. ASSUME NEW w \in Produced', w.kind = "welcome", w.for = y, w.package \in packages'[y]
      PROVE  <<y, w.to>> \notin entered'
  BY <1>1, <1>2, <1>8 DEF BranchOf, Undisturbed
<1>9. ASSUME NEW x \in 2 .. Len(epochs'), NEW z \in 2 .. Len(epochs'), x # z,
             epochs'[x].parent = epochs'[z].parent, y \in epochs'[epochs'[x].parent].roster,
             <<y, x>> \in entered', <<y, z>> \in entered'
      PROVE  FALSE
  BY <1>4, <1>9 DEF BranchOf, Siblings, Roster
<1> QED
  BY <1>5, <1>6, <1>7, <1>8, <1>9 DEF BranchOf, Siblings, Roster

\* A device enters an epoch it has not been in, out of an epoch it has not left by
\* another, or as somebody new.
LEMMA EnteredBranch ==
    ASSUME IInv, EpochsHaveParents', Extend(epochs, epochs'), NEW d \in Devices, BranchOf(d),
           NEW e \in 1 .. Len(epochs'),
           \A x : <<d, x>> \in entered' <=> <<d, x>> \in entered \/ x = e,
           group'[d].epoch = e,
           <<d, e>> \notin entered,
           \A x \in 2 .. Len(epochs) : <<d, x>> \in entered => epochs[x].parent # e,
           e >= 2 /\ d \in epochs'[epochs'[e].parent].roster =>
               /\ <<d, epochs'[e].parent>> \in entered
               /\ \A x \in 2 .. Len(epochs) :
                      <<d, x>> \in entered => epochs[x].parent # epochs'[e].parent,
           \A w \in Produced' : w.kind = "welcome" /\ w.for = d /\ w.package \in packages'[d] =>
               w \in Produced /\ w.package \in packages[d] /\ w.to # e
    PROVE  BranchOf(d)'
<1>1. Len(epochs) \in Nat /\ Len(epochs') \in Nat /\ Len(epochs) <= Len(epochs')
  BY DEF Extend
<1>2. ASSUME NEW x \in 2 .. Len(epochs'), <<d, x>> \in entered
      PROVE  /\ x \in 2 .. Len(epochs)
             /\ epochs'[x] = epochs[x]
             /\ epochs'[epochs[x].parent] = epochs[epochs[x].parent]
  <2>1. x \in 2 .. Len(epochs)
    BY <1>1, <1>2 DEF IInv, DevicesFollowOneBranch, EpochsAreEntered
  <2>2. epochs[x].parent \in 1 .. x - 1
    BY <2>1 DEF IInv, EpochsHaveParents
  <2>3. x \in 1 .. Len(epochs) /\ epochs[x].parent \in 1 .. Len(epochs)
    BY <1>1, <2>1, <2>2
  <2> QED
    BY <2>1, <2>3 DEF Extend
<1>3. ASSUME NEW x \in 2 .. Len(epochs'), <<d, x>> \in entered',
             d \in epochs'[epochs'[x].parent].roster
      PROVE  <<d, epochs'[x].parent>> \in entered'
  <2>1. CASE x = e
    BY <1>3, <2>1
  <2>2. CASE x # e
    BY <1>2, <1>3, <2>2 DEF BranchOf, Roster
  <2> QED
    BY <2>1, <2>2
<1>4. <<d, group'[d].epoch>> \in entered'
  OBVIOUS
<1>5. ASSUME NEW x \in 2 .. Len(epochs'), <<d, x>> \in entered'
      PROVE  epochs'[x].parent # e
  <2>1. CASE x = e
    <3>1. epochs'[x].parent \in 1 .. x - 1
      BY DEF EpochsHaveParents
    <3> QED
      BY <2>1, <3>1
  <2>2. CASE x # e
    BY <1>2, <1>5, <2>2
  <2> QED
    BY <2>1, <2>2
<1>6. ASSUME NEW w \in Produced', w.kind = "welcome", w.for = d, w.package \in packages'[d]
      PROVE  <<d, w.to>> \notin entered'
  BY <1>6 DEF BranchOf
<1>7. ASSUME NEW x \in 2 .. Len(epochs'), NEW z \in 2 .. Len(epochs'), x # z,
             epochs'[x].parent = epochs'[z].parent, d \in epochs'[epochs'[x].parent].roster,
             <<d, x>> \in entered', <<d, z>> \in entered'
      PROVE  FALSE
  <2>1. CASE x = e
    BY <1>2, <1>7, <2>1
  <2>2. CASE z = e
    BY <1>2, <1>7, <2>2
  <2>3. CASE x # e /\ z # e
    BY <1>2, <1>7, <2>3 DEF BranchOf, Siblings, Roster
  <2> QED
    BY <2>1, <2>2, <2>3
<1> QED
  BY <1>3, <1>4, <1>5, <1>6, <1>7 DEF BranchOf, Siblings, Roster

\* A step that disturbs the way of one device at most.
LEMMA BranchStep ==
    ASSUME IInv, Extend(epochs, epochs'), EpochsAreEntered', restored \subseteq restored',
           NEW d \in Devices, d \in restored' \/ BranchOf(d)',
           \A y \in Devices \ {d} : Undisturbed(y)
    PROVE  DevicesFollowOneBranch'
<1>1. ASSUME NEW y \in Devices \ restored', y # d PROVE BranchOf(y)'
  <2>1. BranchOf(y)
    BY DEF IInv, DevicesFollowOneBranch
  <2> QED
    BY <1>1, <2>1, UndisturbedBranch
<1> QED
  BY <1>1 DEF DevicesFollowOneBranch

\* A step of d that makes no epochs and enters none.
LEMMA StayStep ==
    ASSUME IInv, UNCHANGED <<epochs, entered>>, restored \subseteq restored',
           NEW d \in Devices, d \in restored' \/ Undisturbed(d),
           \A y \in Devices \ {d} : group'[y] = group[y] /\ packages'[y] = packages[y],
           \A w \in Produced' : w.kind = "welcome" => w \in Produced
    PROVE  DevicesFollowOneBranch'
<1>1. Extend(epochs, epochs')
  BY DEF Extend, IInv, MlsTypeOK
<1>2. EpochsAreEntered'
  BY DEF IInv, DevicesFollowOneBranch, EpochsAreEntered
<1>3. \A y \in Devices \ {d} : Undisturbed(y)
  BY DEF Undisturbed
<1>4. d \in restored' \/ BranchOf(d)'
  <2>1. d \notin restored' => BranchOf(d)
    BY DEF IInv, DevicesFollowOneBranch
  <2> QED
    BY <1>1, <2>1, UndisturbedBranch
<1> QED
  BY <1>1, <1>2, <1>3, <1>4, BranchStep

\* The epochs stay as they are, and so do the invitations to them.
LEMMA SameEpochs ==
    ASSUME IInv, epochs' = epochs, lost \subseteq lost',
           \A x \in Devices :
               ToSet(log) \cup ToSet(outgoing[x])
                   \subseteq ToSet(log') \cup ToSet(outgoing'[x]) \cup lost'
    PROVE  EpochsHaveParents' /\ AddedAreInvited'
<1>1. EpochsHaveParents'
  BY DEF IInv, EpochsHaveParents
<1>2. \A e \in 1 .. Len(epochs) : epochs[e].by \in Devices
  <2>1. \A e \in 1 .. Len(epochs) : epochs[e] \in Epochs
    BY DEF IInv, MlsTypeOK
  <2> QED
    BY <2>1 DEF Epochs
<1>3. AddedAreInvited'
  <2> SUFFICES ASSUME NEW e \in 2 .. Len(epochs),
                      NEW d \in Roster(e) \ Roster(epochs[e].parent),
                      ~epochs[e].update
               PROVE  \E w \in ToSet(log') \cup ToSet(outgoing'[epochs[e].by]) \cup lost' :
                          w.kind = "welcome" /\ w.for = d /\ w.to = e
    BY DEF AddedAreInvited, Roster
  <2>1. PICK w \in ToSet(log) \cup ToSet(outgoing[epochs[e].by]) \cup lost :
            w.kind = "welcome" /\ w.for = d /\ w.to = e
    BY DEF IInv, AddedAreInvited
  <2>2. Len(epochs) \in Nat
    BY DEF IInv, MlsTypeOK
  <2>3. epochs[e].by \in Devices
    BY <1>2, <2>2
  <2>4. w \in ToSet(log') \cup ToSet(outgoing'[epochs[e].by]) \cup lost'
    BY <2>1, <2>3
  <2> QED
    BY <2>1, <2>4
<1> QED
  BY <1>1, <1>3

\* One device produces messages.
LEMMA Producing ==
    ASSUME MlsTypeOK, NEW d \in Devices, NEW new, UNCHANGED <<log, lost>>,
           \A x \in Devices \ {d} : outgoing'[x] = outgoing[x],
           ToSet(outgoing'[d]) = ToSet(outgoing[d]) \cup new
    PROVE  Produced' = Produced \cup new
<1>1. ASSUME NEW m \in Produced' PROVE m \in Produced \cup new
  BY DEF Produced
<1>2. ASSUME NEW m \in Produced \cup new PROVE m \in Produced'
  BY DEF Produced
<1> QED
  BY <1>1, <1>2

\* The shell makes its next call.
LEMMA CallStep ==
    ASSUME MlsTypeOK, NEW d \in Devices, NEW name, Call(d, name)
    PROVE  /\ todo' \in [Devices -> Seq(STRING)]
           /\ \A t \in Devices : Len(todo'[t]) \in Nat /\ Len(todo'[t]) <= Len(todo[t])
           /\ Len(todo[d]) \in Nat /\ Len(todo'[d]) < Len(todo[d])
<1>1. todo[d] \in Seq(STRING) /\ todo[d] # <<>>
  BY DEF MlsTypeOK, Call
<1>2. Tail(todo[d]) \in Seq(STRING) /\ Len(Tail(todo[d])) = Len(todo[d]) - 1
  BY <1>1, HeadTailProperties
<1>3. todo' = [todo EXCEPT ![d] = Tail(todo[d])]
  BY DEF Call
<1>4. \A t \in Devices : todo[t] \in Seq(STRING) /\ Len(todo[t]) \in Nat
  BY DEF MlsTypeOK
<1>5. todo' \in [Devices -> Seq(STRING)]
  BY <1>2, <1>3 DEF MlsTypeOK
<1>6. \A t \in Devices : todo'[t] = IF t = d THEN Tail(todo[d]) ELSE todo[t]
  BY <1>3 DEF MlsTypeOK
<1> QED
  BY <1>2, <1>4, <1>5, <1>6

-----------------------------------------------------------------------------
(* Each action preserves the invariant.                                    *)

\* The first epoch has its creator for a member.
LEMMA CreateConversationStep ==
    ASSUME IInv, NEW d \in Devices, CreateConversation(d)
    PROVE  IInv'
<1> DEFINE r == [parent |-> 0, roster |-> {d}, by |-> d, update |-> FALSE]
<1>1. /\ epochs = <<>> /\ epochs' = <<r>>
      /\ r \in Epochs
  BY DEF CreateConversation, Epochs
<1>2. /\ Extend(epochs, epochs')
      /\ epochs' \in Seq(Epochs) /\ Len(epochs') = 1 /\ d \in epochs'[1].roster
  BY <1>1 DEF Extend
<1>3. UNCHANGED <<packages, snapshot, outgoing, log, next, offered, restored, lost, todo>>
  BY DEF CreateConversation
<1>4. /\ group' = [group EXCEPT ![d] = Entered(1)]
      /\ entered' = entered \cup {<<d, 1>>}
  BY DEF CreateConversation, Enters
<1>5. Produced' = Produced
  BY <1>3 DEF Produced
<1>6. MlsTypeOK'
  BY <1>2, <1>3, <1>4 DEF IInv, MlsTypeOK
<1>7. EpochsHaveParents' /\ AddedAreInvited'
  BY <1>1, <1>2 DEF EpochsHaveParents, AddedAreInvited
<1>8. StatesAreOfMembers'
  <2>1. StateOf(d, Entered(1), epochs', Produced')
    BY <1>2, EnteredState
  <2>2. group'[d] = Entered(1) /\ \A x \in Devices \ {d} : group'[x] = group[x]
    BY <1>4 DEF IInv, MlsTypeOK
  <2> QED
    BY <1>2, <1>3, <1>5, <2>1, <2>2, StatesStep DEF IInv
<1>9. MessagesLeadToEpochs' /\ WelcomesAreSingle'
  BY <1>2, <1>3, <1>5, MessagesStep
<1>10. PackagesAreFetchedOnce' /\ PackagesHaveOneOrigin' /\ PackagesAreKept'
  BY <1>2, <1>3, <1>4, <1>5, PackagesStep DEF IInv, MlsTypeOK
<1>11. DevicesFollowOneBranch'
  <2>1. ASSUME NEW y, NEW x PROVE <<y, x>> \notin entered
    <3>1. Len(epochs) = 0
      BY <1>1
    <3>2. <<y, x>> \in entered => x \in 1 .. Len(epochs)
      BY DEF IInv, DevicesFollowOneBranch, EpochsAreEntered
    <3> QED
      BY <3>1, <3>2
  <2>2. /\ \A y, x : <<y, x>> \in entered' => y = d /\ x = 1
        /\ <<d, 1>> \in entered'
    BY <1>4, <2>1
  <2>3. epochs'[1].by = d /\ Len(epochs') = 1
    BY <1>1
  <2>4. EpochsAreEntered'
    BY <2>2, <2>3 DEF EpochsAreEntered
  <2>5. \A w \in Produced : w.kind # "welcome"
    BY <1>1 DEF IInv, MessagesLeadToEpochs, Leads
  <2>6. \A y \in Devices : group[y] = None
    BY <1>1 DEF IInv, StatesAreOfMembers, StateOf
  <2>7. group'[d].epoch = 1 /\ \A y \in Devices \ {d} : group'[y] = None
    BY <1>4, <2>6 DEF IInv, MlsTypeOK, Entered
  <2>8. ASSUME NEW y \in Devices PROVE BranchOf(y)'
    BY <1>5, <2>2, <2>3, <2>5, <2>7 DEF BranchOf
  <2> QED
    BY <2>4, <2>8 DEF DevicesFollowOneBranch
<1> QED
  BY <1>6, <1>7, <1>8, <1>9, <1>10, <1>11 DEF IInv

\* A new package has an identifier that nothing uses.
LEMMA GenerateKeyPackageStep ==
    ASSUME IInv, NEW d \in Devices, GenerateKeyPackage(d)
    PROVE  IInv'
<1> DEFINE new == Len(todo[d])
<1>1. /\ todo' \in [Devices -> Seq(STRING)]
      /\ \A t \in Devices : Len(todo'[t]) \in Nat /\ Len(todo'[t]) <= Len(todo[t])
      /\ new \in Nat /\ Len(todo'[d]) < new
  BY CallStep DEF IInv, GenerateKeyPackage
<1>2. UNCHANGED <<epochs, group, snapshot, outgoing, log, next, entered, restored, lost>>
  BY DEF GenerateKeyPackage
<1>3. /\ \A t \in Devices : offered'[t] = IF t = d THEN offered[t] \cup {new} ELSE offered[t]
      /\ \A t \in Devices : packages'[t] = IF t = d THEN packages[t] \cup {new} ELSE packages[t]
      /\ offered' \in [Devices -> SUBSET Nat]
      /\ packages' \in [Devices -> SUBSET Nat]
  BY <1>1 DEF GenerateKeyPackage, IInv, MlsTypeOK
<1> HIDE DEF new
<1>4. Produced' = Produced
  BY <1>2 DEF Produced
<1>5. MlsTypeOK'
  BY <1>1, <1>2, <1>3 DEF IInv, MlsTypeOK
<1>6. EpochsHaveParents' /\ AddedAreInvited' /\ MessagesLeadToEpochs' /\ WelcomesAreSingle'
  BY <1>2, <1>4 DEF IInv, EpochsHaveParents, AddedAreInvited, MessagesLeadToEpochs,
                    WelcomesAreSingle, Roster
<1>7. StatesAreOfMembers'
  BY <1>2, <1>4, Zenon DEF IInv, StatesAreOfMembers
<1>8. \A t \in Devices : Len(todo[t]) \in Nat
  BY DEF IInv, MlsTypeOK
<1>9. PackagesAreFetchedOnce'
  <2>1. ASSUME NEW t \in Devices, NEW n \in offered'[t]
        PROVE  n > Len(todo'[t])
    <3>1. CASE n \in offered[t]
      <4>1. n > Len(todo[t]) /\ n \in Nat
        BY <3>1 DEF IInv, MlsTypeOK, PackagesAreFetchedOnce
      <4> QED
        BY <4>1, <1>1, <1>8
    <3>2. CASE t = d /\ n = new
      BY <3>2, <1>1
    <3> QED
      BY <3>1, <3>2, <1>3
  <2>2. ASSUME NEW t \in Devices, NEW m \in Produced, NEW n \in Nat, Uses(m, t, n)
        PROVE  n \notin offered'[t] /\ n > Len(todo'[t])
    <3>1. n \notin offered[t] /\ n > Len(todo[t])
      BY <2>2 DEF IInv, PackagesAreFetchedOnce
    <3>2. n > Len(todo'[t])
      <4>1. /\ Len(todo[t]) \in Nat
            /\ Len(todo'[t]) \in Nat
            /\ Len(todo'[t]) <= Len(todo[t])
        BY <1>1, <1>8, Zenon
      <4> QED
        BY <3>1, <4>1
    <3>3. t = d => n # new
      <4>1. Len(todo[d]) \in Nat
        BY <1>8, Zenon
      <4> QED
        BY <3>1, <4>1 DEF new
    <3>4. n \notin offered'[t]
      BY <3>1, <3>3, <1>3
    <3> QED
      BY <3>2, <3>4
  <2> QED
    BY <2>1, <2>2, <1>4 DEF PackagesAreFetchedOnce
<1>10. PackagesHaveOneOrigin'
  BY <1>2, <1>4 DEF IInv, PackagesHaveOneOrigin
<1>11. PackagesAreKept'
  BY <1>2, <1>3, <1>4 DEF IInv, PackagesAreKept, PackageLost
<1>12. DevicesFollowOneBranch'
  <2>1. ASSUME NEW w \in Produced, w.kind = "welcome", w.for = d, w.package \in packages'[d]
        PROVE  w.package \in packages[d]
    <3>1. w.package \in Nat /\ Uses(w, d, w.package)
      BY <1>3, <2>1 DEF Uses
    <3>2. w.package > Len(todo[d])
      BY <2>1, <3>1 DEF IInv, PackagesAreFetchedOnce
    <3>3. Len(todo[d]) \in Nat
      BY <1>8
    <3>4. w.package # new
      BY <3>2, <3>3 DEF new
    <3> QED
      BY <1>3, <2>1, <3>4
  <2>2. Undisturbed(d)
    BY <1>2, <1>4, <2>1 DEF Undisturbed
  <2> QED
    BY <1>2, <1>3, <1>4, <2>2, StayStep
<1> QED
  BY <1>5, <1>6, <1>7, <1>9, <1>10, <1>11, <1>12 DEF IInv

\* Whoever joins was added, and leaves the package to the branch it joins.
LEMMA JoinStep ==
    ASSUME IInv, NEW d \in Devices, JoinConversationFromWelcome(d)
    PROVE  IInv'
<1>1. PICK i \in DOMAIN log :
        /\ CanOpen(d, log[i])
        /\ group' = [group EXCEPT ![d] = Entered(log[i].to)]
        /\ packages' = [packages EXCEPT ![d] = @ \ {log[i].package}]
        /\ entered' = entered \cup {<<d, log[i].to>>}
  BY DEF JoinConversationFromWelcome, Enters
<1> DEFINE w == log[i]
<1>2. UNCHANGED <<epochs, snapshot, outgoing, log, next, offered, restored, lost, todo>>
  BY DEF JoinConversationFromWelcome
<1>3. w \in Produced /\ w \in Messages
  BY DEF IInv, MlsTypeOK, Produced, ToSet
<1>4. w.kind = "welcome" /\ w.for = d /\ w.package \in packages[d] /\ w.package \in Nat
  BY <1>1 DEF CanOpen, IInv, MlsTypeOK
<1>5. /\ w.to \in 2 .. Len(epochs) /\ w.to \in 1 .. Len(epochs)
      /\ d \in epochs[w.to].roster \ epochs[epochs[w.to].parent].roster
  <2>1. Len(epochs) \in Nat
    BY DEF IInv, MlsTypeOK
  <2> QED
    BY <1>3, <1>4, <2>1 DEF IInv, MessagesLeadToEpochs, Leads
<1>6. /\ group'[d] = Entered(w.to)
      /\ \A x \in Devices \ {d} : group'[x] = group[x]
      /\ DOMAIN group' = Devices
  BY <1>1 DEF IInv, MlsTypeOK
<1>7. /\ packages' \in [Devices -> SUBSET Nat]
      /\ \A t \in Devices : packages'[t] = IF t = d THEN packages[t] \ {w.package} ELSE packages[t]
  BY <1>1 DEF IInv, MlsTypeOK
<1>8. entered' = entered \cup {<<d, w.to>>}
  BY <1>1
<1> HIDE DEF w
<1>9. Produced' = Produced
  BY <1>2 DEF Produced
<1>10. MlsTypeOK'
  BY <1>2, <1>6, <1>7 DEF IInv, MlsTypeOK
<1>11. EpochsHaveParents' /\ AddedAreInvited' /\ MessagesLeadToEpochs' /\ WelcomesAreSingle'
  BY <1>2, <1>9 DEF IInv, EpochsHaveParents, AddedAreInvited, MessagesLeadToEpochs,
                    WelcomesAreSingle, Roster
<1>12. StatesAreOfMembers'
  <2>1. Len(epochs) \in Nat
    BY DEF IInv, MlsTypeOK
  <2>2. StateOf(d, Entered(w.to), epochs', Produced')
    BY <1>2, <1>5, <2>1, EnteredState
  <2>3. Extend(epochs, epochs')
    BY <1>2, <2>1 DEF Extend
  <2> QED
    BY <1>2, <1>6, <1>9, <2>2, <2>3, StatesStep DEF IInv
<1>13. PackagesAreFetchedOnce' /\ PackagesHaveOneOrigin'
  BY <1>2, <1>9 DEF IInv, PackagesAreFetchedOnce, PackagesHaveOneOrigin
<1>14. Uses(w, d, w.package) /\ Origin(w, epochs) = epochs[w.to].parent
  BY <1>4 DEF Uses, Origin
<1>15. PackagesAreKept'
  <2>1. ASSUME NEW t \in Devices, NEW n \in Nat, n \in offered[t]
        PROVE  n \in packages'[t] \/ PackageLost(t)
    <3>1. t = d => n # w.package
      BY <2>1, <1>3, <1>14 DEF IInv, PackagesAreFetchedOnce
    <3>2. n \in packages[t] \/ PackageLost(t)
      BY <2>1 DEF IInv, PackagesAreKept
    <3> QED
      BY <3>1, <3>2, <1>7
  <2>2. ASSUME NEW t \in Devices, NEW n \in Nat, NEW m \in Produced, Uses(m, t, n)
        PROVE  \/ n \in packages'[t]
               \/ PackageLost(t)
               \/ JoinedFrom(t, Origin(m, epochs), entered', epochs)
    <3>1. CASE t = d /\ n = w.package
      <4>1. Origin(m, epochs) = epochs[w.to].parent
        BY <2>2, <3>1, <1>3, <1>4, <1>14 DEF IInv, PackagesHaveOneOrigin
      <4> QED
        BY <3>1, <4>1, <1>5, <1>8 DEF JoinedFrom
    <3>2. CASE ~(t = d /\ n = w.package)
      <4>1. \/ n \in packages[t]
            \/ PackageLost(t)
            \/ JoinedFrom(t, Origin(m, epochs), entered, epochs)
        BY <2>2 DEF IInv, PackagesAreKept
      <4> QED
        BY <3>2, <4>1, <1>7, <1>8 DEF JoinedFrom
    <3> QED
      BY <3>1, <3>2
  <2>3. \A t : PackageLost(t)' <=> PackageLost(t)
    BY <1>2 DEF PackageLost
  <2> QED
    BY <2>1, <2>2, <2>3, <1>2, <1>9 DEF PackagesAreKept
<1>16. DevicesFollowOneBranch'
  <2>1. Extend(epochs, epochs')
    BY <1>2 DEF Extend, IInv, MlsTypeOK
  <2>2. EpochsAreEntered'
    BY <1>2, <1>5, <1>8 DEF IInv, DevicesFollowOneBranch, EpochsAreEntered
  <2>3. \A y \in Devices \ {d} : Undisturbed(y)
    BY <1>6, <1>7, <1>8, <1>9 DEF Undisturbed
  <2>4. ASSUME d \notin restored PROVE BranchOf(d)'
    <3>1. BranchOf(d)
      BY <2>4 DEF IInv, DevicesFollowOneBranch
    <3>2. <<d, w.to>> \notin entered
      BY <1>3, <1>4, <3>1 DEF BranchOf
    <3>3. \A x \in 2 .. Len(epochs) : <<d, x>> \in entered => epochs[x].parent # w.to
      BY <1>5, <3>1, <3>2 DEF BranchOf, Roster
    <3>4. group'[d].epoch = w.to
      BY <1>6 DEF Entered
    <3>5. ASSUME NEW v \in Produced', v.kind = "welcome", v.for = d,
                 v.package \in packages'[d]
          PROVE  v \in Produced /\ v.package \in packages[d] /\ v.to # w.to
      <4>1. v # w
        BY <1>7, <3>5
      <4> QED
        BY <1>3, <1>4, <1>7, <1>9, <3>5, <4>1 DEF IInv, WelcomesAreSingle
    <3>6. \A x : <<d, x>> \in entered' <=> <<d, x>> \in entered \/ x = w.to
      BY <1>8
    <3> QED
      BY <1>2, <1>5, <1>11, <2>1, <3>1, <3>2, <3>3, <3>4, <3>5, <3>6, EnteredBranch
  <2> QED
    BY <1>2, <2>1, <2>2, <2>3, <2>4, BranchStep
<1> QED
  BY <1>10, <1>11, <1>12, <1>13, <1>15, <1>16 DEF IInv

\* What a commit makes of the roster: whom it adds it does not remove, and its author
\* stays.
LEMMA ValidChanges ==
    ASSUME NEW d, NEW changes, NEW old, d \in old,
           Adds(changes) \cap old = {}, Removes(changes) \subseteq old \ {d}
    PROVE  LET new == (old \cup Adds(changes)) \ Removes(changes)
           IN  /\ d \in new
               /\ Adds(changes) \subseteq new
               /\ new \ old \subseteq Adds(changes)
  OBVIOUS

\* A commit enters its epoch with its author, and invites whom it adds with packages
\* that it fetches or that its proposals have fetched in the same epoch.
LEMMA CommitStep ==
    ASSUME IInv, NEW d \in Devices, NEW own \in SUBSET Changes, IsFiniteSet(own),
           NEW welcomes \in BOOLEAN, Commit(d, own, welcomes), own = {} \/ welcomes,
           todo' \in [Devices -> Seq(STRING)],
           \A t \in Devices : Len(todo'[t]) \in Nat /\ Len(todo'[t]) <= Len(todo[t]),
           offered' \in [Devices -> SUBSET Nat],
           \A t \in Devices : offered'[t] \subseteq offered[t],
           \A c \in own : c.op = "add" =>
               c.package \in offered[c.target] /\ c.package \notin offered'[c.target]
    PROVE  IInv'
<1> DEFINE g == group[d]
           o == group[d].epoch
           changes == own \cup {p.change : p \in group[d].pending}
           e == Len(epochs) + 1
           commit == [kind |-> "commit", author |-> d, from |-> group[d].epoch,
                      gen |-> group[d].sent.hs, to |-> e, refs |-> group[d].pending]
           welcome(c) ==
               [kind |-> "welcome", for |-> c.target, package |-> c.package, to |-> e]
           added == {c \in changes : c.op = "add"}
           invited == {welcome(c) : c \in added}
           roster == (Roster(o) \cup Adds(changes)) \ Removes(changes)
           r == [parent |-> o, by |-> d, update |-> own = {}, roster |-> roster]
<1>1. /\ Active(d) /\ Valid(d, changes)
      /\ epochs' = Append(epochs, r)
      /\ group' = [group EXCEPT ![d] = Merged(d, e)]
      /\ outgoing' = [outgoing EXCEPT ![d] =
                          @ \o <<commit>> \o IF welcomes THEN SetToSeq(invited) ELSE <<>>]
      /\ entered' = entered \cup {<<d, Merged(d, e).epoch>>}
      /\ UNCHANGED <<packages, snapshot, log, next, restored, lost>>
  BY DEF Commit, Enters
<1>2. StateOf(d, g, epochs, Produced) /\ g.active
  BY <1>1 DEF Active, Holds, IInv, StatesAreOfMembers
<1>3. /\ Len(epochs) \in Nat /\ e \in Nat
      /\ o \in 1 .. Len(epochs) /\ o \in Nat
      /\ d \in Roster(o)
      /\ g \in States /\ g.pending \subseteq Proposals /\ IsFiniteSet(g.pending)
      /\ \A p \in g.pending : p.from = o /\ p \in Produced
  <2>1. Len(epochs) \in Nat
    BY DEF IInv, MlsTypeOK
  <2>2. g \in States /\ g.pending \subseteq Proposals
    BY <1>2 DEF StateOf, States
  <2> QED
    BY <1>2, <2>1, <2>2 DEF StateOf, Roster
<1>4. changes \in SUBSET Changes /\ added \in SUBSET Changes
  BY <1>3 DEF Proposals
<1>5. IsFiniteSet(invited)
  <2>1. IsFiniteSet({p.change : p \in g.pending})
    <3> DEFINE f == [p \in g.pending |-> p.change]
    <3>1. IsFiniteSet({f[p] : p \in g.pending})
      <4>1. DOMAIN f = g.pending
        OBVIOUS
      <4> HIDE DEF f
      <4> QED
        BY <1>3, <4>1, FiniteImage
    <3> QED
      BY <3>1
  <2>2. IsFiniteSet(changes)
    BY <2>1, FS_Union
  <2>3. IsFiniteSet(added)
    BY <2>2, FS_Subset
  <2> DEFINE f == [c \in added |-> welcome(c)]
  <2>4. IsFiniteSet({f[c] : c \in added})
    <3>1. DOMAIN f = added
      OBVIOUS
    <3> HIDE DEF f, added
    <3> QED
      BY <2>3, <3>1, FiniteImage
  <2>5. {f[c] : c \in added} = invited
    OBVIOUS
  <2> QED
    BY <2>4, <2>5
<1>6. invited \subseteq Welcomes
  BY <1>3, <1>4 DEF Changes, Welcomes
<1>7. commit \in Commits
  BY <1>3 DEF Commits, States
<1>8. /\ d \in roster
      /\ Adds(changes) \subseteq roster
      /\ roster \ Roster(o) \subseteq Adds(changes)
  <2>1. /\ Adds(changes) \cap Roster(o) = {}
        /\ Removes(changes) \subseteq Roster(o) \ {d}
    BY <1>1 DEF Valid
  <2> HIDE DEF changes
  <2> QED
    BY <1>3, <2>1, ValidChanges
<1>9. r \in Epochs /\ r.parent = o /\ r.by = d /\ r.roster = roster /\ (own = {} => r.update)
  <2>1. Roster(o) \subseteq Devices
    <3>1. epochs[o] \in Epochs
      BY <1>3 DEF IInv, MlsTypeOK
    <3> QED
      BY <3>1 DEF Epochs, Roster
  <2>2. Adds(changes) \subseteq Devices
    BY <1>4 DEF Adds, Changes
  <2>3. (own = {}) \in BOOLEAN
    OBVIOUS
  <2> HIDE DEF changes, o
  <2> QED
    BY <1>3, <2>1, <2>2, <2>3 DEF Epochs
<1> HIDE DEF r
<1>10. /\ epochs' \in Seq(Epochs) /\ Len(epochs') = e /\ epochs'[e] = r
       /\ \A i \in 1 .. Len(epochs) : epochs'[i] = epochs[i]
  BY <1>1, <1>9 DEF IInv, MlsTypeOK
<1>11. Extend(epochs, epochs')
  BY <1>3, <1>10 DEF Extend
<1> DEFINE new == {commit} \cup IF welcomes THEN invited ELSE {}
<1>12. /\ outgoing'[d] \in Seq(Messages)
       /\ ToSet(outgoing'[d]) = ToSet(outgoing[d]) \cup new
       /\ \A x \in Devices \ {d} : outgoing'[x] = outgoing[x]
       /\ outgoing' \in [Devices -> Seq(Messages)]
  <2> DEFINE tail == IF welcomes THEN SetToSeq(invited) ELSE <<>>
  <2>1. tail \in Seq(Messages) /\ ToSet(tail) = IF welcomes THEN invited ELSE {}
    <3>1. CASE welcomes
      <4>1. SetToSeq(invited) \in Seq(invited) /\ ToSet(SetToSeq(invited)) = invited
        <5> HIDE DEF invited
        <5> QED
          BY <1>5, SetToSeqElements
      <4>2. invited \subseteq Messages
        BY <1>6 DEF Messages
      <4> HIDE DEF invited
      <4>3. SetToSeq(invited) \in Seq(Messages)
        BY <4>1, <4>2
      <4> QED
        BY <3>1, <4>1, <4>3
    <3>2. CASE ~welcomes
      BY <3>2 DEF ToSet
    <3> QED
      BY <3>1, <3>2
  <2>2. <<commit>> \in Seq(Messages) /\ ToSet(<<commit>>) = {commit}
    <3>1. commit \in Messages
      BY <1>7 DEF Messages
    <3> HIDE DEF commit
    <3> QED
      BY <3>1 DEF ToSet
  <2>3. outgoing[d] \in Seq(Messages)
    BY DEF IInv, MlsTypeOK
  <2>4. outgoing' = [outgoing EXCEPT ![d] = outgoing[d] \o <<commit>> \o tail]
    BY <1>1
  <2> HIDE DEF commit, invited, tail
  <2>5. \A a, b \in Seq(Messages) :
           a \o b \in Seq(Messages) /\ ToSet(a \o b) = ToSet(a) \cup ToSet(b)
    BY ToSetConcat
  <2>6. /\ outgoing[d] \o <<commit>> \in Seq(Messages)
        /\ ToSet(outgoing[d] \o <<commit>>) = ToSet(outgoing[d]) \cup {commit}
    BY <2>5, <2>2, <2>3, Zenon
  <2>7. /\ (outgoing[d] \o <<commit>>) \o tail \in Seq(Messages)
        /\ ToSet((outgoing[d] \o <<commit>>) \o tail)
               = (ToSet(outgoing[d]) \cup {commit}) \cup ToSet(tail)
    BY <2>5, <2>1, <2>6, Zenon
  <2>8. outgoing'[d] = (outgoing[d] \o <<commit>>) \o tail
    BY <2>4 DEF IInv, MlsTypeOK
  <2>9. ToSet(outgoing'[d]) = ToSet(outgoing[d]) \cup new
    BY <2>1, <2>7, <2>8
  <2>10. \A x \in Devices \ {d} : outgoing'[x] = outgoing[x]
    BY <2>4 DEF IInv, MlsTypeOK
  <2>11. outgoing' \in [Devices -> Seq(Messages)]
    BY <2>4, <2>7 DEF IInv, MlsTypeOK
  <2> QED
    BY <2>7, <2>8, <2>9, <2>10, <2>11
<1>13. Produced' = Produced \cup new
  <2> HIDE DEF new
  <2> QED
    BY <1>1, <1>12, Producing DEF IInv
<1>14. MlsTypeOK'
  BY <1>1, <1>10, <1>12 DEF IInv, MlsTypeOK
<1>15. EpochsHaveParents'
  <2> HIDE DEF o, e
  <2>1. ASSUME NEW i \in 2 .. Len(epochs') PROVE epochs'[i].parent \in 1 .. i - 1
    <3>1. CASE i = e
      BY <3>1, <1>3, <1>9, <1>10 DEF e
    <3>2. CASE i # e
      <4>1. i \in 2 .. Len(epochs) /\ epochs'[i] = epochs[i]
        BY <3>2, <1>3, <1>10 DEF e
      <4> QED
        BY <4>1 DEF IInv, EpochsHaveParents
    <3> QED
      BY <3>1, <3>2
  <2>2. 1 \in 1 .. Len(epochs)
    BY <1>3
  <2>3. epochs'[1].parent = 0
    BY <1>3, <1>10, <2>2 DEF IInv, EpochsHaveParents
  <2> QED
    BY <2>1, <2>3 DEF EpochsHaveParents
<1>16. StatesAreOfMembers'
  <2>1. StateOf(d, Entered(e), epochs', Produced')
    <3>1. e \in Nat /\ e \in 1 .. Len(epochs')
      BY <1>3, <1>10
    <3> HIDE DEF e
    <3>2. d \in epochs'[e].roster
      BY <1>8, <1>9, <1>10, Zenon
    <3> QED
      BY <3>1, <3>2, EnteredState
  <2>2. group'[d] = Entered(e) /\ \A x \in Devices \ {d} : group'[x] = group[x]
    BY <1>1 DEF IInv, MlsTypeOK, Merged
  <2>3. snapshot' = snapshot
    BY <1>1
  <2> HIDE DEF e, new
  <2> QED
    BY <1>11, <1>13, <2>1, <2>2, <2>3, StatesStep DEF IInv
<1>17. \A w \in invited : \E c \in added : w = welcome(c) /\ c.target \in Adds(changes)
  BY DEF Adds
<1>18. /\ commit.kind = "commit"
       /\ \A w \in invited : w.kind = "welcome" /\ w.to = e /\ w.for \in roster \ Roster(o)
       /\ \A v, w \in invited : v.for = w.for => v = w
  <2>1. ASSUME NEW w \in invited
        PROVE  w.kind = "welcome" /\ w.to = e /\ w.for \in roster \ Roster(o)
    <3>1. PICK c \in added : w = welcome(c) /\ c.target \in Adds(changes)
      BY <1>17
    <3>2. w.kind = "welcome" /\ w.to = e /\ w.for = c.target
      BY <3>1
    <3>3. Adds(changes) \cap Roster(o) = {}
      BY <1>1 DEF Valid
    <3> HIDE DEF roster, changes, o
    <3> QED
      BY <3>1, <3>2, <3>3, <1>8
  <2>2. ASSUME NEW v \in invited, NEW w \in invited, v.for = w.for PROVE v = w
    <3>1. PICK b \in added : v = welcome(b)
      BY <2>2
    <3>2. PICK c \in added : w = welcome(c)
      BY <2>2
    <3>3. b.target = c.target
      BY <2>2, <3>1, <3>2
    <3>4. b = c
      BY <1>1, <3>3 DEF Valid
    <3> QED
      BY <3>1, <3>2, <3>4
  <2> QED
    BY <2>1, <2>2
<1>19. MessagesLeadToEpochs' /\ WelcomesAreSingle'
  <2>1. e \in 2 .. Len(epochs') /\ e > Len(epochs)
    BY <1>3, <1>10
  <2>2. epochs'[e].parent = o /\ epochs'[o] = epochs[o] /\ epochs'[e].roster = roster
    BY <1>3, <1>9, <1>10
  <2>3. commit.to = e /\ commit.from = o
    OBVIOUS
  <2>4. \A m \in new : m = commit \/ m \in invited
    OBVIOUS
  <2>5. ASSUME NEW m \in new
        PROVE  Leads(m, epochs') /\ (m.kind = "welcome" => m.to > Len(epochs))
    <3> HIDE DEF commit, invited, e, roster, o, new
    <3>1. CASE m = commit
      BY <1>18, <2>1, <2>2, <2>3, <3>1 DEF Leads
    <3>2. CASE m \in invited
      BY <1>18, <2>1, <2>2, <3>2 DEF Leads, Roster
    <3> QED
      BY <2>4, <3>1, <3>2
  <2>6. \A v, w \in new : v.kind = "welcome" /\ w.kind = "welcome" /\ v.for = w.for => v = w
    <3> HIDE DEF commit, invited, e, roster, o, new
    <3> QED
      BY <1>18, <2>4
  <2> HIDE DEF new
  <2> QED
    BY <1>11, <1>13, <2>5, <2>6, MessagesStep
<1>20. PackagesAreFetchedOnce' /\ PackagesHaveOneOrigin' /\ PackagesAreKept'
  <2>1. ASSUME NEW m \in new, NEW t \in Devices, NEW n \in Nat, Uses(m, t, n)
        PROVE  /\ Origin(m, epochs') = o
               /\ n \notin offered'[t]
               /\ \/ n \in offered[t]
                  \/ \E k \in Produced : Uses(k, t, n) /\ Origin(k, epochs) = o
    <3>1. m \in invited
      BY <2>1 DEF Uses
    <3>2. PICK c \in added : m = welcome(c)
      BY <3>1
    <3>3. m.kind = "welcome" /\ m.to = e /\ c.target = t /\ c.package = n
      BY <2>1, <3>2 DEF Uses
    <3>4. Origin(m, epochs') = o
      BY <3>3, <1>9, <1>10 DEF Origin
    <3>5. CASE c \in own
      BY <3>3, <3>4, <3>5
    <3>6. CASE c \notin own
      <4>1. PICK p \in g.pending : c = p.change
        BY <3>6
      <4>2. p \in Produced /\ p.from = o /\ p \in Proposals
        BY <1>3
      <4>3. c = Added(t, n)
        BY <3>3, <1>4 DEF Changes, Added
      <4>4. Uses(p, t, n) /\ Origin(p, epochs) = o
        BY <4>1, <4>2, <4>3 DEF Uses, Origin, Proposals
      <4>5. n \notin offered[t]
        BY <4>2, <4>4 DEF IInv, PackagesAreFetchedOnce
      <4> QED
        BY <3>4, <4>2, <4>4, <4>5
    <3> QED
      BY <3>5, <3>6
  <2>2. UNCHANGED <<packages, lost>> /\ entered \subseteq entered'
    BY <1>1
  <2> HIDE DEF new, o
  <2> QED
    BY <1>11, <1>13, <2>1, <2>2, PackagesStep
<1>21. AddedAreInvited'
  <2>1. ASSUME NEW i \in 2 .. Len(epochs'), NEW x \in epochs'[i].roster \ epochs'[epochs'[i].parent].roster,
               ~epochs'[i].update
        PROVE  \E w \in ToSet(log') \cup ToSet(outgoing'[epochs'[i].by]) \cup lost' :
                   w.kind = "welcome" /\ w.for = x /\ w.to = i
    <3>1. CASE i = e
      <4>1. x \in Adds(changes)
        BY <2>1, <3>1, <1>3, <1>8, <1>9, <1>10 DEF Roster
      <4>2. PICK c \in added : c.target = x
        BY <4>1 DEF Adds
      <4>3. welcomes
        BY <2>1, <3>1, <1>9, <1>10
      <4>4. welcome(c) \in ToSet(outgoing'[d])
        BY <4>2, <4>3, <1>12
      <4>5. epochs'[i].by = d
        BY <3>1, <1>9, <1>10
      <4>6. welcome(c).kind = "welcome" /\ welcome(c).for = x /\ welcome(c).to = i
        BY <4>2, <3>1
      <4> HIDE DEF welcome
      <4> QED
        BY <4>4, <4>5, <4>6
    <3>2. CASE i # e
      <4>1. i \in 2 .. Len(epochs) /\ epochs'[i] = epochs[i]
        BY <3>2, <1>3, <1>10
      <4>2. epochs[i].parent \in 1 .. Len(epochs)
        BY <4>1 DEF IInv, EpochsHaveParents
      <4>3. epochs'[epochs[i].parent] = epochs[epochs[i].parent]
        BY <4>2, <1>10
      <4>4. PICK w \in ToSet(log) \cup ToSet(outgoing[epochs[i].by]) \cup lost :
               w.kind = "welcome" /\ w.for = x /\ w.to = i
        BY <2>1, <4>1, <4>3 DEF IInv, AddedAreInvited, Roster
      <4>5. \A y \in Devices : ToSet(outgoing[y]) \subseteq ToSet(outgoing'[y])
        BY <1>12
      <4>6. epochs[i].by \in Devices
        <5>1. epochs[i] \in Epochs
          BY <4>1, <1>3 DEF IInv, MlsTypeOK
        <5> QED
          BY <5>1 DEF Epochs
      <4>7. log' = log /\ lost' = lost
        BY <1>1
      <4> QED
        BY <4>1, <4>4, <4>5, <4>6, <4>7
    <3> QED
      BY <3>1, <3>2
  <2> QED
    BY <2>1 DEF AddedAreInvited, Roster
<1>22. DevicesFollowOneBranch'
  <2>1. /\ e \in 2 .. Len(epochs') /\ e \in 1 .. Len(epochs') /\ e > Len(epochs)
        /\ Len(epochs') = Len(epochs) + 1
    BY <1>3, <1>10
  <2>2. /\ epochs'[e].parent = o /\ epochs'[e].by = d
        /\ \A x \in 1 .. Len(epochs) : epochs'[x] = epochs[x]
    BY <1>9, <1>10
  <2>3. /\ entered' = entered \cup {<<d, e>>}
        /\ group'[d].epoch = e
        /\ \A y \in Devices \ {d} : group'[y] = group[y]
        /\ UNCHANGED <<packages, restored>>
    BY <1>1 DEF IInv, MlsTypeOK, Merged, Entered
  <2>4. \A w \in Produced' : w.kind = "welcome" /\ w \notin Produced =>
            w.to = e /\ w.for \notin Roster(o)
    BY <1>13, <1>18
  <2>5. o \in 1 .. Len(epochs) /\ d \in Roster(o) /\ g = group[d] /\ g.epoch = o /\ g # None
    BY <1>1, <1>3 DEF Active, Holds
  <2> HIDE DEF e, o, g, new
  <2>6. EpochsAreEntered'
    BY <1>3, <2>1, <2>2, <2>3 DEF IInv, DevicesFollowOneBranch, EpochsAreEntered, e
  <2>7. \A y \in Devices \ {d} : Undisturbed(y)
    BY <2>1, <2>3, <2>4 DEF Undisturbed
  <2>8. ASSUME d \notin restored PROVE BranchOf(d)'
    <3>1. BranchOf(d)
      BY <2>8 DEF IInv, DevicesFollowOneBranch
    <3>2. <<d, e>> \notin entered
      BY <1>3, <2>1 DEF IInv, DevicesFollowOneBranch, EpochsAreEntered
    <3>3. \A x \in 2 .. Len(epochs) : epochs[x].parent # e
      <4> SUFFICES ASSUME NEW x \in 2 .. Len(epochs) PROVE epochs[x].parent # e
        OBVIOUS
      <4>1. epochs[x].parent \in 1 .. x - 1
        BY DEF IInv, EpochsHaveParents
      <4> QED
        BY <1>3, <2>1, <4>1
    <3>4. /\ <<d, o>> \in entered
          /\ \A x \in 2 .. Len(epochs) : <<d, x>> \in entered => epochs[x].parent # o
      BY <2>5, <3>1 DEF BranchOf
    <3>5. ASSUME NEW w \in Produced', w.kind = "welcome", w.for = d,
                 w.package \in packages'[d]
          PROVE  w \in Produced /\ w.package \in packages[d] /\ w.to # e
      <4>1. w \in Produced
        BY <2>4, <2>5, <3>5
      <4>2. w.to \in 2 .. Len(epochs)
        BY <3>5, <4>1 DEF IInv, MessagesLeadToEpochs, Leads
      <4> QED
        BY <1>3, <2>1, <2>3, <3>5, <4>1, <4>2
    <3>6. \A x : <<d, x>> \in entered' <=> <<d, x>> \in entered \/ x = e
      BY <2>3
    <3> QED
      BY <1>11, <1>15, <2>1, <2>2, <2>3, <3>1, <3>2, <3>3, <3>4, <3>5, <3>6, EnteredBranch
  <2> QED
    BY <1>11, <2>3, <2>6, <2>7, <2>8, BranchStep
<1> QED
  BY <1>14, <1>15, <1>16, <1>19, <1>20, <1>21, <1>22 DEF IInv

\* A package that is fetched is not offered again.
LEMMA FetchStep ==
    ASSUME IInv, NEW t \in Devices, NEW n \in offered[t], FetchPackage(t, n)
    PROVE  /\ n \in Nat
           /\ offered' \in [Devices -> SUBSET Nat]
           /\ \A x \in Devices : offered'[x] \subseteq offered[x]
           /\ n \notin offered'[t]
  BY DEF IInv, MlsTypeOK, FetchPackage

\* add_members fetches the packages it uses.
LEMMA CommitAddStep ==
    ASSUME IInv, NEW d \in Devices, CommitAddMembers(d)
    PROVE  IInv'
<1>1. PICK t \in Devices, n \in Nat :
        n \in offered[t] /\ FetchPackage(t, n) /\ Commit(d, {Added(t, n)}, TRUE)
  BY DEF CommitAddMembers, IInv, MlsTypeOK
<1>2. /\ n \in Nat
      /\ offered' \in [Devices -> SUBSET Nat]
      /\ \A x \in Devices : offered'[x] \subseteq offered[x]
      /\ n \notin offered'[t]
  BY <1>1, FetchStep
<1>3. /\ todo' \in [Devices -> Seq(STRING)]
      /\ \A x \in Devices : Len(todo'[x]) \in Nat /\ Len(todo'[x]) <= Len(todo[x])
  BY CallStep DEF CommitAddMembers, IInv
<1> DEFINE own == {Added(t, n)}
<1>4. own \in SUBSET Changes /\ IsFiniteSet(own)
  <2>1. Added(t, n) \in Changes
    BY <1>2 DEF Added, Changes
  <2> QED
    BY <2>1, FS_Singleton
<1>5. \A c \in own : c.package \in offered[c.target] /\ c.package \notin offered'[c.target]
  BY <1>1, <1>2 DEF Added
<1>6. Commit(d, own, TRUE)
  BY <1>1
<1> HIDE DEF own
<1> QED
  BY <1>2, <1>3, <1>4, <1>5, <1>6, CommitStep

\* remove_members uses none of its own.
LEMMA CommitRemoveStep ==
    ASSUME IInv, NEW d \in Devices, CommitRemoveMembers(d)
    PROVE  IInv'
<1>1. PICK t \in Devices : Commit(d, {Removed(t)}, TRUE)
  BY DEF CommitRemoveMembers
<1>2. /\ todo' \in [Devices -> Seq(STRING)]
      /\ \A x \in Devices : Len(todo'[x]) \in Nat /\ Len(todo'[x]) <= Len(todo[x])
  BY CallStep DEF CommitRemoveMembers, IInv
<1>3. /\ offered' \in [Devices -> SUBSET Nat]
      /\ \A x \in Devices : offered'[x] \subseteq offered[x]
  BY DEF CommitRemoveMembers, IInv, MlsTypeOK
<1> DEFINE own == {Removed(t)}
<1>4. own \in SUBSET Changes /\ IsFiniteSet(own)
  <2>1. Removed(t) \in Changes
    BY DEF Removed, Changes
  <2> QED
    BY <2>1, FS_Singleton
<1>5. \A c \in own : c.op # "add"
  BY DEF Removed
<1>6. Commit(d, own, TRUE)
  BY <1>1
<1> HIDE DEF own
<1> QED
  BY <1>2, <1>3, <1>4, <1>5, <1>6, CommitStep

\* self_update invites nobody.
LEMMA SelfUpdateStep ==
    ASSUME IInv, NEW d \in Devices, SelfUpdate(d)
    PROVE  IInv'
<1>1. /\ todo' \in [Devices -> Seq(STRING)]
      /\ \A x \in Devices : Len(todo'[x]) \in Nat /\ Len(todo'[x]) <= Len(todo[x])
  BY CallStep DEF SelfUpdate, IInv
<1>2. /\ offered' \in [Devices -> SUBSET Nat]
      /\ \A x \in Devices : offered'[x] \subseteq offered[x]
  BY DEF SelfUpdate, IInv, MlsTypeOK
<1> DEFINE own == {}
<1>3. Commit(d, own, FALSE) /\ IsFiniteSet(own) /\ own \in SUBSET Changes /\ own = {}
  BY FS_EmptySet DEF SelfUpdate
<1> HIDE DEF own
<1> QED
  BY <1>1, <1>2, <1>3, CommitStep

\* A message that leads to no epoch is added to those to be uploaded.
LEMMA SendStep ==
    ASSUME IInv, NEW d \in Devices, NEW m \in Texts \cup Proposals, NEW name, Call(d, name),
           outgoing' = [outgoing EXCEPT ![d] = Append(@, m)],
           offered' \in [Devices -> SUBSET Nat],
           \A t \in Devices : offered'[t] \subseteq offered[t],
           \A x \in Devices \ {d} : group'[x] = group[x], DOMAIN group' = Devices,
           StateOf(d, group'[d], epochs, Produced \cup {m}),
           group[d] # None, group'[d].epoch = group[d].epoch,
           \A t \in Devices, n \in Nat : Uses(m, t, n) =>
               n \in offered[t] /\ n \notin offered'[t],
           UNCHANGED <<epochs, packages, snapshot, log, next, entered, restored, lost>>
    PROVE  IInv'
<1>1. /\ todo' \in [Devices -> Seq(STRING)]
      /\ \A t \in Devices : Len(todo'[t]) \in Nat /\ Len(todo'[t]) <= Len(todo[t])
  BY CallStep DEF IInv
<1>2. outgoing[d] \in Seq(Messages) /\ m \in Messages
  BY DEF IInv, MlsTypeOK, Messages
<1>3. /\ Append(outgoing[d], m) \in Seq(Messages)
      /\ ToSet(Append(outgoing[d], m)) = ToSet(outgoing[d]) \cup {m}
  BY <1>2, ToSetAppend
<1>4. /\ outgoing'[d] = Append(outgoing[d], m)
      /\ \A x \in Devices \ {d} : outgoing'[x] = outgoing[x]
      /\ outgoing' \in [Devices -> Seq(Messages)]
  BY <1>3 DEF IInv, MlsTypeOK
<1>5. Produced' = Produced \cup {m}
  BY <1>3, <1>4, Producing DEF IInv
<1>6. Extend(epochs, epochs')
  BY DEF Extend, IInv, MlsTypeOK
<1>7. MlsTypeOK'
  BY <1>1, <1>4 DEF IInv, MlsTypeOK
<1>8. EpochsHaveParents' /\ AddedAreInvited'
  BY <1>3, <1>4, SameEpochs
<1>9. StatesAreOfMembers'
  BY <1>5, <1>6, StatesStep DEF IInv
<1>10. m.kind \in {"text", "proposal"}
  BY DEF Texts, Proposals
<1>11. MessagesLeadToEpochs' /\ WelcomesAreSingle'
  <2>1. \A k \in Produced' \ Produced : Leads(k, epochs') /\ k.kind # "welcome"
    BY <1>5, <1>10 DEF Leads
  <2> QED
    BY <1>6, <2>1, MessagesStep
<1>12. PackagesAreFetchedOnce' /\ PackagesHaveOneOrigin' /\ PackagesAreKept'
  <2> DEFINE o == Origin(m, epochs')
  <2>1. \A k \in Produced' \ Produced : k = m /\ Origin(k, epochs') = o
    BY <1>5
  <2>2. Produced \subseteq Produced'
    BY <1>5
  <2> HIDE DEF o
  <2> QED
    BY <1>1, <1>6, <2>1, <2>2, PackagesStep
<1>13. DevicesFollowOneBranch'
  <2>1. \A w \in Produced' : w.kind = "welcome" => w \in Produced
    BY <1>5, <1>10
  <2>2. Undisturbed(d)
    BY <2>1 DEF Undisturbed
  <2> QED
    BY <2>1, <2>2, StayStep
<1> QED
  BY <1>7, <1>8, <1>9, <1>11, <1>12, <1>13 DEF IInv

\* A proposal is kept by its author and uses a package it has fetched, if any.
LEMMA ProposeStep ==
    ASSUME IInv, NEW d \in Devices, NEW change \in Changes, NEW name, Call(d, name),
           Propose(d, change),
           offered' \in [Devices -> SUBSET Nat],
           \A t \in Devices : offered'[t] \subseteq offered[t],
           change.op = "add" => /\ change.package \in offered[change.target]
                                /\ change.package \notin offered'[change.target]
    PROVE  IInv'
<1> DEFINE g == group[d]
           p == [kind |-> "proposal", author |-> d, from |-> group[d].epoch,
                 gen |-> group[d].sent.hs, change |-> change]
<1>1. /\ Active(d)
      /\ group' = [group EXCEPT ![d].pending = @ \cup {p}, ![d].sent.hs = @ + 1]
      /\ outgoing' = [outgoing EXCEPT ![d] = Append(@, p)]
      /\ UNCHANGED <<epochs, packages, snapshot, log, next, entered, restored, lost>>
  BY DEF Propose
<1>2. StateOf(d, g, epochs, Produced) /\ g.active /\ g \in States
  BY <1>1 DEF Active, Holds, IInv, StatesAreOfMembers, StateOf
<1>3. p \in Proposals /\ p.from = g.epoch
  BY <1>2 DEF States, Proposals
<1>4. /\ group'[d] = [g EXCEPT !.pending = @ \cup {p}, !.sent.hs = @ + 1]
      /\ \A x \in Devices \ {d} : group'[x] = group[x]
      /\ DOMAIN group' = Devices
  BY <1>1 DEF IInv, MlsTypeOK
<1>5. \A t \in Devices, n \in Nat : Uses(p, t, n) => n \in offered[t] /\ n \notin offered'[t]
  BY DEF Uses, Added
<1> HIDE DEF p
<1>6. /\ group'[d] \in States
      /\ group'[d].epoch = g.epoch /\ (group'[d].active <=> g.active)
      /\ group'[d].pending = g.pending \cup {p}
  <2> DEFINE f == [g EXCEPT !.pending = @ \cup {p}]
  <2>1. /\ f \in States
        /\ f.epoch = g.epoch /\ f.active = g.active /\ f.pending = g.pending \cup {p}
    BY <1>2, <1>3 DEF States
  <2>2. group'[d] = [f EXCEPT !.sent.hs = @ + 1]
    BY <1>4
  <2> HIDE DEF f
  <2>3. /\ group'[d] \in States
        /\ group'[d].epoch = f.epoch /\ group'[d].active = f.active
        /\ group'[d].pending = f.pending
    BY <2>1, <2>2 DEF States
  <2> QED
    BY <2>1, <2>3
<1>7. IsFiniteSet(g.pending \cup {p})
  BY <1>2, FS_AddElement DEF StateOf
<1>8. StateOf(d, group'[d], epochs, Produced \cup {p})
  BY <1>2, <1>3, <1>6, <1>7 DEF StateOf
<1>9. group[d] # None
  BY <1>1 DEF Active, Holds
<1> QED
  BY <1>1, <1>3, <1>4, <1>5, <1>6, <1>8, <1>9, SendStep

\* A proposal to add a device fetches its package.
LEMMA ProposeAddStep ==
    ASSUME IInv, NEW d \in Devices, ProposeAddMembers(d)
    PROVE  IInv'
<1>1. PICK t \in Devices, n \in Nat :
        n \in offered[t] /\ FetchPackage(t, n) /\ Propose(d, Added(t, n))
  BY DEF ProposeAddMembers, IInv, MlsTypeOK
<1>2. /\ n \in Nat
      /\ offered' \in [Devices -> SUBSET Nat]
      /\ \A x \in Devices : offered'[x] \subseteq offered[x]
      /\ n \notin offered'[t]
  BY <1>1, FetchStep
<1>3. Added(t, n) \in Changes /\ Added(t, n).package = n /\ Added(t, n).target = t
  BY <1>2 DEF Added, Changes
<1>4. Call(d, "propose")
  BY DEF ProposeAddMembers
<1> QED
  BY <1>1, <1>2, <1>3, <1>4, ProposeStep

\* A proposal to remove a device uses none.
LEMMA ProposeRemoveStep ==
    ASSUME IInv, NEW d \in Devices, ProposeRemoveMembers(d)
    PROVE  IInv'
<1>1. PICK t \in Devices : Propose(d, Removed(t))
  BY DEF ProposeRemoveMembers
<1>2. /\ offered' \in [Devices -> SUBSET Nat]
      /\ \A x \in Devices : offered'[x] \subseteq offered[x]
  BY DEF ProposeRemoveMembers, IInv, MlsTypeOK
<1>3. Removed(t) \in Changes /\ Removed(t).op # "add"
  BY DEF Removed, Changes
<1>4. Call(d, "propose")
  BY DEF ProposeRemoveMembers
<1> QED
  BY <1>1, <1>2, <1>3, <1>4, ProposeStep

\* A text uses no package and leads to no epoch.
LEMMA EncryptStep ==
    ASSUME IInv, NEW d \in Devices, EncryptApplicationMessage(d)
    PROVE  IInv'
<1> DEFINE g == group[d]
           m == [kind |-> "text", author |-> d, from |-> group[d].epoch,
                 gen |-> group[d].sent.app]
<1>1. /\ Call(d, "text") /\ Active(d)
      /\ group' = [group EXCEPT ![d].sent.app = @ + 1]
      /\ outgoing' = [outgoing EXCEPT ![d] = Append(@, m)]
      /\ UNCHANGED <<epochs, packages, snapshot, log, next, offered, entered, restored, lost>>
  BY DEF EncryptApplicationMessage
<1>2. StateOf(d, g, epochs, Produced) /\ g \in States
  BY <1>1 DEF Active, Holds, IInv, StatesAreOfMembers, StateOf
<1>3. m \in Texts /\ \A t, n : ~Uses(m, t, n)
  BY <1>2 DEF States, Texts, Uses
<1>4. /\ group'[d] = [g EXCEPT !.sent.app = @ + 1]
      /\ \A x \in Devices \ {d} : group'[x] = group[x]
      /\ DOMAIN group' = Devices
  BY <1>1 DEF IInv, MlsTypeOK
<1>5. /\ group'[d] \in States
      /\ group'[d].epoch = g.epoch /\ (group'[d].active <=> g.active)
      /\ group'[d].pending = g.pending
  BY <1>2, <1>4 DEF States
<1> HIDE DEF m
<1>6. StateOf(d, group'[d], epochs, Produced \cup {m})
  BY <1>2, <1>5 DEF StateOf
<1>7. offered \in [Devices -> SUBSET Nat]
  BY DEF IInv, MlsTypeOK
<1>8. group[d] # None
  BY <1>1 DEF Active, Holds
<1> QED
  BY <1>1, <1>3, <1>4, <1>5, <1>6, <1>7, <1>8, SendStep

\* A step of one device that neither makes nor loses anything.
LEMMA LocalStep ==
    ASSUME IInv, MlsTypeOK', NEW d \in Devices,
           UNCHANGED <<epochs, packages, outgoing, log, offered, lost>>,
           entered \subseteq entered', DevicesFollowOneBranch',
           \A t \in Devices : Len(todo'[t]) \in Nat /\ Len(todo'[t]) <= Len(todo[t]),
           \A x \in Devices \ {d} : group'[x] = group[x] /\ snapshot'[x] = snapshot[x],
           \/ group'[d] = None
           \/ group'[d] = group[d]
           \/ StateOf(d, group'[d], epochs, Produced),
           \/ snapshot'[d] = snapshot[d]
           \/ StateOf(d, snapshot'[d].group, epochs, Produced)
    PROVE  IInv'
<1>1. Produced' = Produced
  BY DEF Produced
<1>2. Extend(epochs, epochs')
  BY DEF Extend, IInv, MlsTypeOK
<1>3. StatesAreOfMembers'
  BY <1>1, <1>2, StatesStep DEF IInv
<1>4. EpochsHaveParents' /\ AddedAreInvited'
  BY SameEpochs
<1>5. MessagesLeadToEpochs' /\ WelcomesAreSingle'
  BY <1>1, <1>2, MessagesStep
<1>6. PackagesAreFetchedOnce' /\ PackagesHaveOneOrigin' /\ PackagesAreKept'
  BY <1>1, <1>2, PackagesStep
<1> QED
  BY <1>3, <1>4, <1>5, <1>6 DEF IInv

\* The state after a message that opens is again a good one.
LEMMA ProcessedState ==
    ASSUME IInv, NEW d \in Devices, NEW m \in Messages, m \in Produced, Opens(d, m)
    PROVE  StateOf(d, Processed(d, m), epochs, Produced)
<1> DEFINE g == group[d]
           used == [g EXCEPT !.seen = @ \cup {Key(m)}]
<1>1. StateOf(d, g, epochs, Produced) /\ g \in States /\ m.from = g.epoch
  BY DEF Opens, Active, Holds, IInv, StatesAreOfMembers, StateOf
<1>2. m \in Texts \cup Proposals \cup Commits
  BY DEF Opens, Messages, Welcomes
<1>3. Key(m) \in Devices \X Nat \X {"hs", "app"} \X Nat
  BY <1>2 DEF Key, Ratchet, Texts, Proposals, Commits
<1>4. /\ used \in States
      /\ used.epoch = g.epoch /\ used.active = g.active /\ used.pending = g.pending
  BY <1>1, <1>3 DEF States
<1>5. StateOf(d, used, epochs, Produced)
  BY <1>1, <1>4 DEF StateOf
<1> HIDE DEF used
<1>6. CASE m.kind = "text"
  <2>1. Processed(d, m) = used
    BY <1>6 DEF Processed, used
  <2> QED
    BY <2>1, <1>5
<1>7. CASE m.kind = "proposal"
  <2> DEFINE f == [used EXCEPT !.pending = @ \cup {m}]
  <2>1. Processed(d, m) = f
    BY <1>7 DEF Processed, used
  <2>2. m \in Proposals
    BY <1>2, <1>7 DEF Texts, Commits
  <2>3. /\ f \in States
        /\ f.epoch = g.epoch /\ f.active = g.active /\ f.pending = g.pending \cup {m}
    BY <1>4, <2>2 DEF States
  <2>4. IsFiniteSet(g.pending \cup {m})
    BY <1>1, FS_AddElement DEF StateOf
  <2> HIDE DEF f
  <2>5. StateOf(d, f, epochs, Produced)
    BY <1>1, <2>3, <2>4 DEF StateOf
  <2> QED
    BY <2>1, <2>5
<1>8. CASE m.kind = "commit"
  <2>1. m.to \in 1 .. Len(epochs) /\ m.to \in Nat
    <3>1. Len(epochs) \in Nat
      BY DEF IInv, MlsTypeOK
    <3> QED
      BY <1>8, <3>1 DEF IInv, MessagesLeadToEpochs, Leads
  <2>2. CASE ~(m.refs \subseteq g.pending)
    <3>1. Processed(d, m) = used
      BY <1>8, <2>2 DEF Processed, used
    <3> QED
      BY <3>1, <1>5
  <2>3. CASE m.refs \subseteq g.pending /\ Keeps(d, m.to)
    <3>1. Processed(d, m) = Entered(m.to)
      BY <1>8, <2>3 DEF Processed
    <3>2. d \in epochs[m.to].roster
      BY <2>3 DEF Keeps, Roster
    <3> QED
      BY <3>1, <3>2, <2>1, EnteredState
  <2>4. CASE m.refs \subseteq g.pending /\ ~Keeps(d, m.to)
    <3> DEFINE f == [used EXCEPT !.active = FALSE]
    <3>1. Processed(d, m) = f
      BY <1>8, <2>4 DEF Processed, used
    <3>2. f \in States /\ f.epoch = g.epoch /\ f.pending = g.pending /\ ~f.active
      BY <1>4 DEF States
    <3> HIDE DEF f
    <3>3. StateOf(d, f, epochs, Produced)
      BY <1>1, <3>2 DEF StateOf
    <3> QED
      BY <3>1, <3>3
  <2> QED
    BY <2>2, <2>3, <2>4
<1> QED
  BY <1>2, <1>6, <1>7, <1>8 DEF Texts, Proposals, Commits

\* A message leaves the device where it is or takes it to the epoch of a commit.
LEMMA ProcessedEpoch ==
    ASSUME NEW d, NEW m \in Messages, group[d] \in States, m.kind # "welcome"
    PROVE  \/ Processed(d, m).epoch = group[d].epoch
           \/ m.kind = "commit" /\ Keeps(d, m.to) /\ Processed(d, m).epoch = m.to
<1> DEFINE used == [group[d] EXCEPT !.seen = @ \cup {Key(m)}]
<1>1. used.epoch = group[d].epoch /\ DOMAIN used = DOMAIN group[d]
  BY DEF States
<1>2. /\ [used EXCEPT !.pending = @ \cup {m}].epoch = used.epoch
      /\ [used EXCEPT !.active = FALSE].epoch = used.epoch
  BY <1>1 DEF States
<1>3. m.kind \in {"text", "proposal", "commit"}
  BY DEF Messages, Texts, Proposals, Commits, Welcomes
<1>4. CASE m.kind = "text"
  BY <1>1, <1>4 DEF Processed
<1>5. CASE m.kind = "proposal"
  BY <1>1, <1>2, <1>5 DEF Processed
<1>6. CASE m.kind = "commit" /\ ~(m.refs \subseteq group[d].pending)
  BY <1>1, <1>6 DEF Processed
<1>7. CASE m.kind = "commit" /\ m.refs \subseteq group[d].pending /\ Keeps(d, m.to)
  <2>1. Processed(d, m) = Entered(m.to)
    BY <1>7 DEF Processed
  <2> QED
    BY <1>7, <2>1 DEF Entered
<1>8. CASE m.kind = "commit" /\ m.refs \subseteq group[d].pending /\ ~Keeps(d, m.to)
  BY <1>1, <1>2, <1>8 DEF Processed
<1> QED
  BY <1>3, <1>4, <1>5, <1>6, <1>7, <1>8

\* Whoever takes up a commit leaves the epoch it was made in.
LEMMA ProcessedBranch ==
    ASSUME IInv, NEW d \in Devices, NEW m \in Messages, m \in Produced, Opens(d, m),
           StateOf(d, Processed(d, m), epochs, Produced),
           group'[d] = Processed(d, m), \A y \in Devices \ {d} : group'[y] = group[y],
           Enters(d, Processed(d, m).epoch),
           UNCHANGED <<epochs, packages, outgoing, log, lost, restored>>
    PROVE  DevicesFollowOneBranch'
<1> DEFINE e == Processed(d, m).epoch
<1>1. /\ group[d] # None /\ group[d] \in States /\ group[d].epoch \in 1 .. Len(epochs)
      /\ m.from = group[d].epoch /\ m.kind # "welcome" /\ d \in Roster(group[d].epoch)
  BY DEF Opens, Active, Holds, IInv, StatesAreOfMembers, StateOf, Roster
<1>2. \/ e = group[d].epoch
      \/ m.kind = "commit" /\ Keeps(d, m.to) /\ e = m.to
  BY <1>1, ProcessedEpoch
<1>3. e \in 1 .. Len(epochs)
  BY DEF StateOf
<1>4. entered' = entered \cup {<<d, e>>} /\ group'[d].epoch = e
  BY DEF Enters
<1> HIDE DEF e
<1>5. Produced' = Produced
  BY DEF Produced
<1>6. Extend(epochs, epochs')
  BY DEF Extend, IInv, MlsTypeOK
<1>7. EpochsAreEntered'
  BY <1>3, <1>4 DEF IInv, DevicesFollowOneBranch, EpochsAreEntered
<1>8. \A y \in Devices \ {d} : Undisturbed(y)
  BY <1>4, <1>5 DEF Undisturbed
<1>9. ASSUME d \notin restored PROVE BranchOf(d)'
  <2>1. BranchOf(d)
    BY <1>9 DEF IInv, DevicesFollowOneBranch
  <2>2. CASE e = group[d].epoch
    <3>1. <<d, e>> \in entered
      BY <1>1, <2>1, <2>2 DEF BranchOf
    <3>2. Undisturbed(d)
      BY <1>1, <1>4, <1>5, <2>2, <3>1 DEF Undisturbed
    <3> QED
      BY <1>6, <2>1, <3>2, UndisturbedBranch
  <2>3. CASE m.kind = "commit" /\ Keeps(d, m.to) /\ e = m.to
    <3>1. e \in 2 .. Len(epochs) /\ epochs[e].parent = group[d].epoch
      BY <1>1, <2>3 DEF IInv, MessagesLeadToEpochs, Leads
    <3>2. /\ <<d, group[d].epoch>> \in entered
          /\ \A x \in 2 .. Len(epochs) :
                 <<d, x>> \in entered => epochs[x].parent # group[d].epoch
      BY <1>1, <2>1 DEF BranchOf
    <3>3. <<d, e>> \notin entered
      BY <3>1, <3>2
    <3>4. \A x \in 2 .. Len(epochs) : <<d, x>> \in entered => epochs[x].parent # e
      BY <2>1, <2>3, <3>3 DEF BranchOf, Keeps
    <3>5. \A w \in Produced : w.kind = "welcome" /\ w.for = d => w.to # e
      BY <1>1, <3>1 DEF IInv, MessagesLeadToEpochs, Leads, Roster
    <3>6. \A x : <<d, x>> \in entered' <=> <<d, x>> \in entered \/ x = e
      BY <1>4
    <3>7. EpochsHaveParents'
      BY DEF IInv, EpochsHaveParents
    <3> QED
      BY <1>3, <1>4, <1>5, <1>6, <2>1, <3>1, <3>2, <3>3, <3>4, <3>5, <3>6, <3>7, EnteredBranch
  <2> QED
    BY <1>2, <2>2, <2>3
<1> QED
  BY <1>6, <1>7, <1>8, <1>9, BranchStep

\* What is received was produced.
LEMMA ProcessStep ==
    ASSUME IInv, NEW d \in Devices, ProcessIncomingMessage(d)
    PROVE  IInv'
<1> DEFINE m == log[next[d]]
<1>1. /\ next[d] <= Len(log)
      /\ next' = [next EXCEPT ![d] = @ + 1]
      /\ UNCHANGED <<epochs, packages, snapshot, outgoing, log, offered, restored, lost, todo>>
  BY DEF ProcessIncomingMessage
<1>2. next[d] \in DOMAIN log /\ next' \in [Devices -> Nat \ {0}]
  BY <1>1 DEF IInv, MlsTypeOK
<1>3. m \in Messages /\ m \in Produced
  BY <1>2 DEF IInv, MlsTypeOK, Produced, ToSet
<1>4. \A t \in Devices : Len(todo'[t]) \in Nat /\ Len(todo'[t]) <= Len(todo[t])
  BY <1>1 DEF IInv, MlsTypeOK
<1>5. CASE /\ Opens(d, m)
           /\ group' = [group EXCEPT ![d] = Processed(d, m)]
           /\ Enters(d, Processed(d, m).epoch)
  <2> HIDE DEF m
  <2>1. StateOf(d, Processed(d, m), epochs, Produced)
    BY <1>3, <1>5, ProcessedState
  <2>2. /\ group'[d] = Processed(d, m)
        /\ \A x \in Devices \ {d} : group'[x] = group[x]
        /\ DOMAIN group' = Devices
    BY <1>5 DEF IInv, MlsTypeOK
  <2>3. MlsTypeOK'
    BY <1>1, <1>2, <2>2 DEF IInv, MlsTypeOK
  <2>4. DevicesFollowOneBranch'
    BY <1>1, <1>3, <1>5, <2>1, <2>2, ProcessedBranch
  <2>5. entered \subseteq entered'
    BY <1>5 DEF Enters
  <2> QED
    BY <1>1, <1>4, <2>1, <2>2, <2>3, <2>4, <2>5, LocalStep
<1>6. CASE UNCHANGED <<group, entered>>
  <2>1. MlsTypeOK'
    BY <1>1, <1>2, <1>6 DEF IInv, MlsTypeOK
  <2>2. Produced' = Produced
    BY <1>1 DEF Produced
  <2>3. DevicesFollowOneBranch'
    <3>1. Undisturbed(d)
      BY <1>1, <1>6, <2>2 DEF Undisturbed
    <3> QED
      BY <1>1, <1>6, <2>2, <3>1, StayStep
  <2> QED
    BY <1>1, <1>4, <1>6, <2>1, <2>3, LocalStep
<1> QED
  BY <1>5, <1>6 DEF ProcessIncomingMessage

\* A snapshot is a state the device has.
LEMMA ExportStep ==
    ASSUME IInv, NEW d \in Devices, ExportConversationState(d)
    PROVE  IInv'
<1>1. /\ group[d] # None
      /\ snapshot' = [snapshot EXCEPT ![d] = [group |-> group[d], packages |-> packages[d]]]
      /\ UNCHANGED <<epochs, group, packages, outgoing, log, next, offered, entered, restored,
                     lost, todo>>
  BY DEF ExportConversationState, Holds
<1>2. /\ snapshot'[d].group = group[d] /\ snapshot'[d].packages = packages[d]
      /\ \A x \in Devices \ {d} : snapshot'[x] = snapshot[x]
      /\ DOMAIN snapshot' = Devices
  BY <1>1 DEF IInv, MlsTypeOK
<1>3. MlsTypeOK'
  BY <1>1, <1>2 DEF IInv, MlsTypeOK
<1>4. StateOf(d, snapshot'[d].group, epochs, Produced)
  BY <1>1, <1>2 DEF IInv, StatesAreOfMembers
<1>5. \A t \in Devices : Len(todo'[t]) \in Nat /\ Len(todo'[t]) <= Len(todo[t])
  BY <1>1 DEF IInv, MlsTypeOK
<1>6. DevicesFollowOneBranch'
  <2>1. Produced' = Produced
    BY <1>1 DEF Produced
  <2>2. Undisturbed(d)
    BY <1>1, <2>1 DEF Undisturbed
  <2> QED
    BY <1>1, <2>1, <2>2, StayStep
<1> QED
  BY <1>1, <1>2, <1>3, <1>4, <1>5, <1>6, LocalStep

\* What is destroyed is not replaced.
LEMMA DestroyStep ==
    ASSUME IInv, NEW d \in Devices, DestroyLocalConversationState(d)
    PROVE  IInv'
<1>1. /\ group' = [group EXCEPT ![d] = None]
      /\ next' = [next EXCEPT ![d] = 1] \/ next' = next
      /\ UNCHANGED <<epochs, packages, snapshot, outgoing, log, offered, entered, restored, lost>>
  BY DEF DestroyLocalConversationState, ReadsOn
<1>2. /\ todo' \in [Devices -> Seq(STRING)]
      /\ \A t \in Devices : Len(todo'[t]) \in Nat /\ Len(todo'[t]) <= Len(todo[t])
  BY CallStep DEF DestroyLocalConversationState, IInv
<1>3. /\ group'[d] = None
      /\ \A x \in Devices \ {d} : group'[x] = group[x]
      /\ DOMAIN group' = Devices
  BY <1>1 DEF IInv, MlsTypeOK
<1>4. MlsTypeOK'
  BY <1>1, <1>2, <1>3 DEF IInv, MlsTypeOK
<1>5. DevicesFollowOneBranch'
  <2>1. Produced' = Produced
    BY <1>1 DEF Produced
  <2>2. Undisturbed(d)
    BY <1>1, <1>3, <2>1 DEF Undisturbed
  <2> QED
    BY <1>1, <1>3, <2>1, <2>2, StayStep
<1> QED
  BY <1>1, <1>2, <1>3, <1>4, <1>5, LocalStep

\* A step that takes the first message of d out of those to be uploaded.
LEMMA LeavesStep ==
    ASSUME IInv, NEW d \in Devices, outgoing[d] # <<>>,
           outgoing' = [outgoing EXCEPT ![d] = Tail(@)],
           \/ log' = Append(log, Head(outgoing[d])) /\ lost' = lost
           \/ log' = log /\ lost' = lost \cup {Head(outgoing[d])},
           UNCHANGED <<epochs, group, packages, snapshot, next, offered, entered, restored, todo>>
    PROVE  IInv'
<1> DEFINE m == Head(outgoing[d])
<1>1. /\ m \in Messages /\ Tail(outgoing[d]) \in Seq(Messages)
      /\ ToSet(outgoing[d]) = ToSet(Tail(outgoing[d])) \cup {m}
  <2>1. outgoing[d] \in Seq(Messages)
    BY DEF IInv, MlsTypeOK
  <2> QED
    BY <2>1, ToSetTail
<1>2. /\ outgoing'[d] = Tail(outgoing[d])
      /\ \A x \in Devices \ {d} : outgoing'[x] = outgoing[x]
      /\ outgoing' \in [Devices -> Seq(Messages)]
  BY <1>1 DEF IInv, MlsTypeOK
<1> HIDE DEF m
<1>3. /\ log' \in Seq(Messages)
      /\ ToSet(log') \cup lost' = ToSet(log) \cup lost \cup {m}
      /\ lost \subseteq lost' /\ ToSet(log) \subseteq ToSet(log')
      /\ lost' \subseteq lost \cup {m}
  <2>1. Append(log, m) \in Seq(Messages) /\ ToSet(Append(log, m)) = ToSet(log) \cup {m}
    BY <1>1, ToSetAppend DEF IInv, MlsTypeOK
  <2>2. \/ log' = Append(log, m) /\ lost' = lost
        \/ log' = log /\ lost' = lost \cup {m}
    BY DEF m
  <2>3. log \in Seq(Messages)
    BY DEF IInv, MlsTypeOK
  <2> QED
    BY <2>1, <2>2, <2>3
<1>4. \A x \in Devices :
        ToSet(log') \cup ToSet(outgoing'[x]) \cup lost'
            = ToSet(log) \cup ToSet(outgoing[x]) \cup lost \cup {m}
  BY <1>1, <1>2, <1>3
<1>5. Produced' = Produced
  <2>1. m \in Produced
    BY <1>1 DEF Produced
  <2>2. ASSUME NEW k \in Produced' PROVE k \in Produced
    BY <2>1, <1>4 DEF Produced
  <2>3. ASSUME NEW k \in Produced PROVE k \in Produced'
    BY <1>3, <1>4 DEF Produced
  <2> QED
    BY <2>2, <2>3
<1>6. MlsTypeOK'
  BY <1>1, <1>2, <1>3 DEF IInv, MlsTypeOK
<1>7. Extend(epochs, epochs')
  BY DEF Extend, IInv, MlsTypeOK
<1>8. EpochsHaveParents' /\ AddedAreInvited'
  BY <1>3, <1>4, SameEpochs
<1>9. StatesAreOfMembers'
  BY <1>5, <1>7, StatesStep DEF IInv
<1>10. MessagesLeadToEpochs' /\ WelcomesAreSingle'
  BY <1>5, <1>7, MessagesStep
<1>11. PackagesAreFetchedOnce' /\ PackagesHaveOneOrigin' /\ PackagesAreKept'
  <2>1. \A t \in Devices : Len(todo'[t]) \in Nat /\ Len(todo'[t]) <= Len(todo[t])
    BY DEF IInv, MlsTypeOK
  <2> QED
    BY <1>3, <1>5, <1>7, <2>1, PackagesStep
<1>12. DevicesFollowOneBranch'
  <2>1. Undisturbed(d)
    BY <1>5 DEF Undisturbed
  <2> QED
    BY <1>5, <2>1, StayStep
<1> QED
  BY <1>6, <1>8, <1>9, <1>10, <1>11, <1>12 DEF IInv

\* A restart loses what was to be uploaded, and packages; what it restores is good.
LEMMA RestartStep ==
    ASSUME IInv, NEW d \in Devices, Restart(d)
    PROVE  IInv'
<1> DEFINE gone == {[kind |-> "package", for |-> d, package |-> n] :
                        n \in packages[d] \ packages'[d]}
<1>1. /\ lost' = lost \cup ToSet(outgoing[d]) \cup gone
      /\ outgoing' = [outgoing EXCEPT ![d] = <<>>]
      /\ next' = [next EXCEPT ![d] = 1] \/ next' = next
      /\ UNCHANGED <<epochs, snapshot, log, offered, entered, todo>>
  BY DEF Restart, ReadsOn
<1>2. /\ \A x \in Devices \ {d} : group'[x] = group[x] /\ packages'[x] = packages[x]
      /\ DOMAIN group' = Devices
      /\ packages' \in [Devices -> SUBSET Nat]
      /\ group'[d] = None \/ StateOf(d, group'[d], epochs, Produced)
      /\ restored \subseteq restored'
      /\ d \in restored' \/ (group'[d] = None /\ packages'[d] = {})
  <2>1. CASE snapshot[d] = None
    <3>1. /\ group' = [group EXCEPT ![d] = None] /\ packages' = [packages EXCEPT ![d] = {}]
          /\ restored' = restored
      BY <2>1 DEF Restart
    <3> QED
      BY <3>1 DEF IInv, MlsTypeOK
  <2>2. CASE snapshot[d] # None
    <3> DEFINE g == snapshot[d].group
    <3>1. PICK seen \in {{}, g.seen} : group' = [group EXCEPT ![d] = [g EXCEPT !.seen = seen]]
      BY <2>2 DEF Restart
    <3>2. /\ packages' = [packages EXCEPT ![d] = snapshot[d].packages]
          /\ restored' = restored \cup {d}
      BY <2>2 DEF Restart
    <3>3. StateOf(d, g, epochs, Produced) /\ g \in States /\ snapshot[d].packages \subseteq Nat
      BY <2>2 DEF IInv, StatesAreOfMembers, StateOf, MlsTypeOK
    <3> HIDE DEF g
    <3> DEFINE f == [g EXCEPT !.seen = seen]
    <3>4. /\ f \in States
          /\ f.epoch = g.epoch /\ f.active = g.active /\ f.pending = g.pending
      BY <3>1, <3>3 DEF States
    <3>5. StateOf(d, f, epochs, Produced)
      BY <3>3, <3>4 DEF StateOf
    <3> HIDE DEF f
    <3>6. /\ group'[d] = f
          /\ \A x \in Devices \ {d} : group'[x] = group[x]
          /\ DOMAIN group' = Devices
      BY <3>1 DEF IInv, MlsTypeOK, f
    <3>7. /\ \A x \in Devices \ {d} : packages'[x] = packages[x]
          /\ packages' \in [Devices -> SUBSET Nat]
      BY <3>2, <3>3 DEF IInv, MlsTypeOK
    <3> QED
      BY <3>2, <3>5, <3>6, <3>7
  <2> QED
    BY <2>1, <2>2
<1>3. \A k \in gone : k.kind = "package" /\ k.for = d /\ k \in LostPackages
  BY DEF LostPackages, IInv, MlsTypeOK
<1>4. \A n \in packages[d] \ packages'[d] : \E k \in gone : k.kind = "package" /\ k.for = d
  <2> SUFFICES ASSUME NEW n \in packages[d] \ packages'[d]
               PROVE  \E k \in gone : k.kind = "package" /\ k.for = d
    OBVIOUS
  <2>1. [kind |-> "package", for |-> d, package |-> n] \in gone
    OBVIOUS
  <2> QED
    BY <1>3, <2>1
<1> HIDE DEF gone
<1>5. /\ outgoing'[d] = <<>> /\ ToSet(outgoing'[d]) = {}
      /\ \A x \in Devices \ {d} : outgoing'[x] = outgoing[x]
      /\ outgoing' \in [Devices -> Seq(Messages)]
      /\ ToSet(outgoing[d]) \subseteq Messages
  BY <1>1 DEF IInv, MlsTypeOK, ToSet
<1>6. Produced' = Produced \cup gone
  <2>1. ASSUME NEW k \in Produced' PROVE k \in Produced \cup gone
    BY <1>1, <1>5 DEF Produced
  <2>2. ASSUME NEW k \in Produced \cup gone PROVE k \in Produced'
    <3>1. CASE k \in ToSet(log) \cup lost \cup gone
      BY <3>1, <1>1 DEF Produced
    <3>2. CASE k \in UNION {ToSet(outgoing[x]) : x \in Devices}
      <4>1. PICK x \in Devices : k \in ToSet(outgoing[x])
        BY <3>2
      <4> QED
        BY <4>1, <1>1, <1>5 DEF Produced
    <3> QED
      BY <2>2, <3>1, <3>2 DEF Produced
  <2> QED
    BY <2>1, <2>2
<1>7. MlsTypeOK'
  <2>1. next' \in [Devices -> Nat \ {0}]
    <3>1. next \in [Devices -> Nat \ {0}]
      BY DEF IInv, MlsTypeOK
    <3> QED
      BY <1>1, <3>1
  <2>2. lost' \subseteq Messages \cup LostPackages
    BY <1>1, <1>3, <1>5 DEF IInv, MlsTypeOK
  <2> QED
    BY <1>1, <1>2, <1>5, <2>1, <2>2 DEF IInv, MlsTypeOK
<1>8. Extend(epochs, epochs')
  BY <1>1 DEF Extend, IInv, MlsTypeOK
<1>9. EpochsHaveParents' /\ AddedAreInvited'
  BY <1>1, <1>5, SameEpochs
<1>10. StatesAreOfMembers'
  <2>1. group'[d] = None \/ StateOf(d, group'[d], epochs', Produced')
    BY <1>2, <1>6, <1>8, StateKept
  <2> QED
    BY <1>1, <1>2, <1>6, <1>8, <2>1, StatesStep DEF IInv
<1>11. MessagesLeadToEpochs' /\ WelcomesAreSingle'
  <2>1. \A k \in Produced' \ Produced : Leads(k, epochs') /\ k.kind # "welcome"
    BY <1>3, <1>6 DEF Leads
  <2> QED
    BY <1>8, <2>1, MessagesStep
<1>12. PackagesAreFetchedOnce' /\ PackagesHaveOneOrigin' /\ PackagesAreKept'
  <2>1. \A t \in Devices : Len(todo'[t]) \in Nat /\ Len(todo'[t]) <= Len(todo[t])
    BY <1>1 DEF IInv, MlsTypeOK
  <2>2. \A t \in Devices : \A n \in packages[t] : n \in packages'[t] \/ PackageLost(t)'
    BY <1>1, <1>2, <1>4 DEF PackageLost
  <2>3. \A k \in Produced' \ Produced : \A t, n : ~Uses(k, t, n)
    BY <1>3, <1>6 DEF Uses
  <2> QED
    BY <1>1, <1>6, <1>8, <2>1, <2>2, <2>3, PackagesStep
<1>13. DevicesFollowOneBranch'
  <2>1. \A w \in Produced' : w.kind = "welcome" => w \in Produced
    BY <1>3, <1>6
  <2>2. d \in restored' \/ Undisturbed(d)
    BY <1>1, <1>2 DEF Undisturbed
  <2> QED
    BY <1>1, <1>2, <2>1, <2>2, StayStep
<1> QED
  BY <1>7, <1>9, <1>10, <1>11, <1>12, <1>13 DEF IInv

-----------------------------------------------------------------------------
\* There is no conversation yet.
LEMMA InitIInv == Init => IInv
<1> SUFFICES ASSUME Init PROVE IInv
  OBVIOUS
<1>1. todo \in [Devices -> Seq(STRING)]
  BY PlansAssumption DEF Init
<1>2. \A x \in Devices : outgoing[x] = <<>>
  BY DEF Init
<1>3. ToSet(<<>>) = {}
  BY DEF ToSet
<1>4. Produced = {}
  BY <1>2, <1>3 DEF Init, Produced
<1>5. MlsTypeOK
  BY <1>1 DEF Init, MlsTypeOK
<1>6. EpochsHaveParents /\ StatesAreOfMembers /\ MessagesLeadToEpochs /\ WelcomesAreSingle
  BY <1>4 DEF Init, EpochsHaveParents, StatesAreOfMembers, MessagesLeadToEpochs,
              WelcomesAreSingle
<1>7. PackagesAreFetchedOnce /\ PackagesHaveOneOrigin /\ PackagesAreKept /\ AddedAreInvited
  BY <1>4 DEF Init, PackagesAreFetchedOnce, PackagesHaveOneOrigin, PackagesAreKept,
              AddedAreInvited
<1>8. DevicesFollowOneBranch
  <2>1. EpochsAreEntered
    BY DEF Init, EpochsAreEntered
  <2>2. \A d \in Devices : BranchOf(d)
    BY <1>4 DEF Init, BranchOf
  <2> QED
    BY <2>1, <2>2 DEF DevicesFollowOneBranch
<1> QED
  BY <1>5, <1>6, <1>7, <1>8 DEF IInv

\* Every step preserves the invariant.
LEMMA NextIInv == IInv /\ [Next]_vars => IInv'
<1> SUFFICES ASSUME IInv, [Next]_vars PROVE IInv'
  OBVIOUS
<1>1. ASSUME NEW d \in Devices, Upload(d) \/ UploadRefused(d) PROVE IInv'
  BY <1>1, LeavesStep DEF Upload, UploadRefused
<1>2. ASSUME UNCHANGED vars PROVE IInv'
  <2>1. Produced' = Produced
    BY <1>2 DEF vars, Produced
  <2>2. MlsTypeOK' /\ EpochsHaveParents' /\ MessagesLeadToEpochs' /\ WelcomesAreSingle'
    BY <1>2, <2>1 DEF vars, IInv, MlsTypeOK, EpochsHaveParents, MessagesLeadToEpochs,
                      WelcomesAreSingle, Roster
  <2>3. StatesAreOfMembers'
    BY <1>2, <2>1, Zenon DEF vars, IInv, StatesAreOfMembers
  <2>4. PackagesAreFetchedOnce' /\ PackagesHaveOneOrigin' /\ PackagesAreKept'
    BY <1>2, <2>1 DEF vars, IInv, PackagesAreFetchedOnce, PackagesHaveOneOrigin,
                      PackagesAreKept, PackageLost
  <2>5. AddedAreInvited'
    BY <1>2 DEF vars, IInv, AddedAreInvited, Roster
  <2>6. DevicesFollowOneBranch'
    <3>1. EpochsAreEntered'
      BY <1>2 DEF vars, IInv, DevicesFollowOneBranch, EpochsAreEntered
    <3>2. \A d \in Devices : Undisturbed(d)
      BY <1>2, <2>1 DEF vars, Undisturbed
    <3>3. Extend(epochs, epochs')
      BY <1>2 DEF vars, Extend, IInv, MlsTypeOK
    <3>4. restored' = restored
      BY <1>2 DEF vars
    <3>5. ASSUME NEW d \in Devices \ restored PROVE BranchOf(d)'
      BY <3>2, <3>3, UndisturbedBranch DEF IInv, DevicesFollowOneBranch
    <3> QED
      BY <3>1, <3>4, <3>5 DEF DevicesFollowOneBranch
  <2> QED
    BY <2>2, <2>3, <2>4, <2>5, <2>6 DEF IInv
<1> QED
  BY <1>1, <1>2, CreateConversationStep, GenerateKeyPackageStep, JoinStep, CommitAddStep,
     CommitRemoveStep, SelfUpdateStep, ProposeAddStep, ProposeRemoveStep, EncryptStep,
     ProcessStep, ExportStep, RestartStep, DestroyStep
  DEF Next

\* The invariant holds in every reachable state.
THEOREM Invariance == Spec => []IInv
  BY InitIInv, NextIInv, PTL DEF Spec

\* A device that was never restored from a snapshot follows at most one commit out of
\* each epoch it is a member of: merge_pending_commit and merge_staged_commit take it out
\* of the epoch, and nothing but import_conversation_state takes it back.
THEOREM NoDeviceForks == Spec => []OneBranch
<1>1. ASSUME IInv PROVE OneBranch
  <2> SUFFICES ASSUME NEW e \in DOMAIN epochs, NEW f \in DOMAIN epochs, Siblings(e, f),
                      NEW d \in Roster(epochs[e].parent) \ restored, Took(d, e), Took(d, f)
               PROVE  FALSE
    BY DEF OneBranch
  <2>1. DOMAIN epochs = 1 .. Len(epochs) /\ Len(epochs) \in Nat
    BY <1>1 DEF IInv, MlsTypeOK
  <2>2. e \in 2 .. Len(epochs) /\ f \in 2 .. Len(epochs)
    BY <1>1, <2>1 DEF IInv, EpochsHaveParents, Siblings
  <2>3. <<d, e>> \in entered /\ <<d, f>> \in entered
    BY <1>1, <2>1 DEF IInv, DevicesFollowOneBranch, EpochsAreEntered, Took
  <2>4. d \in Devices
    <3>1. epochs[e].parent \in 1 .. Len(epochs)
      BY <1>1, <2>1, <2>2 DEF IInv, EpochsHaveParents
    <3>2. epochs[epochs[e].parent] \in Epochs
      BY <1>1, <2>1, <3>1 DEF IInv, MlsTypeOK
    <3> QED
      BY <3>2 DEF Epochs, Roster
  <2>5. BranchOf(d)
    BY <1>1, <2>4 DEF IInv, DevicesFollowOneBranch
  <2> QED
    BY <2>2, <2>3, <2>5 DEF BranchOf
<1> QED
  BY <1>1, Invariance, PTL

\* A device that add_members or remove_members adds can join: its welcome opens with a
\* package it has, unless the one or the other was lost or the package has served.
THEOREM AddedDevicesCanJoin == Spec => []AddedCanJoin
<1>1. ASSUME IInv PROVE AddedCanJoin
  <2> SUFFICES ASSUME NEW e \in 2 .. Len(epochs),
                      NEW d \in Roster(e) \ Roster(epochs[e].parent),
                      ~epochs[e].update,
                      ~\E x \in lost : x.kind \in {"package", "welcome"} /\ x.for = d
               PROVE  \/ \E f \in DOMAIN epochs :
                           <<d, f>> \in entered /\ epochs[f].parent = epochs[e].parent
                      \/ \E w \in ToSet(log) \cup ToSet(outgoing[epochs[e].by]) :
                           CanOpen(d, w) /\ w.to = e
    BY DEF AddedCanJoin
  <2>1. PICK w \in ToSet(log) \cup ToSet(outgoing[epochs[e].by]) \cup lost :
            w.kind = "welcome" /\ w.for = d /\ w.to = e
    BY <1>1 DEF IInv, AddedAreInvited
  <2>2. w \in ToSet(log) \cup ToSet(outgoing[epochs[e].by])
    BY <2>1
  <2>3. DOMAIN epochs = 1 .. Len(epochs) /\ Len(epochs) \in Nat
    BY <1>1 DEF IInv, MlsTypeOK
  <2>4. epochs[e].by \in Devices /\ Roster(e) \subseteq Devices
    <3>1. epochs[e] \in Epochs
      BY <1>1, <2>3 DEF IInv, MlsTypeOK
    <3> QED
      BY <3>1 DEF Epochs, Roster
  <2>5. w \in Produced /\ w \in Messages
    BY <1>1, <2>2, <2>4 DEF Produced, IInv, MlsTypeOK, ToSet
  <2>6. w.package \in Nat
    BY <2>1, <2>5 DEF Messages, Texts, Proposals, Commits, Welcomes
  <2>7. Uses(w, d, w.package) /\ Origin(w, epochs) = epochs[e].parent
    BY <2>1 DEF Uses, Origin
  <2>8. \/ w.package \in packages[d]
        \/ PackageLost(d)
        \/ JoinedFrom(d, epochs[e].parent, entered, epochs)
    BY <1>1, <2>4, <2>5, <2>6, <2>7 DEF IInv, PackagesAreKept
  <2>9. ~PackageLost(d)
    BY DEF PackageLost
  <2>10. CASE w.package \in packages[d]
    BY <2>1, <2>2, <2>10 DEF CanOpen
  <2>11. CASE JoinedFrom(d, epochs[e].parent, entered, epochs)
    BY <2>3, <2>11 DEF JoinedFrom
  <2> QED
    BY <2>8, <2>9, <2>10, <2>11
<1> QED
  BY <1>1, Invariance, PTL
=============================================================================
