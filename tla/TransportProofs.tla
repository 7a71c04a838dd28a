--------------------------- MODULE TransportProofs ---------------------------
(***************************************************************************)
(* The client's two layers below the store: the queue that carries frames  *)
(* to relays (Transport) and the bytes a frame or an envelope is encoded   *)
(* to (FrameCodec).                                                        *)
(*                                                                         *)
(* Transport's safety properties, for any relays, any directories and any  *)
(* number of frames, rest on three facts about a running flush: there is a *)
(* frame to send, every relay it is done with for this frame is cooling    *)
(* down, and so is every relay that has failed in it, also after later     *)
(* frames got through.                                                     *)
(*                                                                         *)
(* FrameCodec's, for all values, inputs and limits, rest on one: what the  *)
(* decoder has consumed is what the encoder writes for the items decoded   *)
(* so far.  It follows for the head of an item from the four widths of an  *)
(* argument, for an item from its head, for an array from its five or six  *)
(* items.                                                                  *)
(***************************************************************************)
EXTENDS Transport, FrameCodec, SequenceTheorems, TLAPS

\* The types of the variables.
TransportTypeOK ==
    /\ outbox \in Seq(Frames)
    /\ directory \in Directories
    /\ cooling \subseteq Endpoints
    /\ preferred \in Endpoints \cup {None}
    /\ flushing \in BOOLEAN
    /\ tried \subseteq Endpoints
    /\ log \in Seq(Frames)
    /\ answered \in Seq(Frames)
    /\ failedNow \in [Endpoints -> Nat]

\* A flush that runs has a frame at the head of the queue.
FlushHasFrame == flushing => outbox # <<>>

\* A relay the flush has passed over or tried for this frame is cooling down.
TriedAreCooling == tried \subseteq cooling /\ (tried # {} => flushing)

\* A relay that has failed in the running flush is cooling down, and stays so.
FailedAreCooling ==
    \A e \in Endpoints : failedNow[e] # 0 => flushing /\ e \in cooling

IInv ==
    /\ TransportTypeOK
    /\ AnsweredThenQueued
    /\ FailsOncePerFlush
    /\ FlushHasFrame
    /\ TriedAreCooling
    /\ FailedAreCooling

-----------------------------------------------------------------------------
\* Moving the head of a queue to the end of a sequence in front of it does not
\* change the two together.
LEMMA MoveHead ==
    ASSUME NEW S, NEW s \in Seq(S), NEW t \in Seq(S), t # <<>>
    PROVE  Append(s, Head(t)) \o Tail(t) = s \o t
<1>1. /\ Head(t) \in S /\ Tail(t) \in Seq(S) /\ Len(Tail(t)) = Len(t) - 1
      /\ \A i \in 1 .. Len(Tail(t)) : Tail(t)[i] = t[i + 1]
  BY HeadTailProperties
<1>2. /\ Append(s, Head(t)) \in Seq(S)
      /\ Len(Append(s, Head(t))) = Len(s) + 1
      /\ \A i \in 1 .. Len(s) : Append(s, Head(t))[i] = s[i]
      /\ Append(s, Head(t))[Len(s) + 1] = Head(t)
  BY <1>1, AppendProperties
<1> DEFINE u == Append(s, Head(t)) \o Tail(t)
           v == s \o t
<1>3. u \in Seq(S) /\ v \in Seq(S)
  BY <1>1, <1>2, ConcatProperties
<1>4. Len(u) = Len(v)
  BY <1>1, <1>2, ConcatProperties
<1>5. \A i \in 1 .. Len(u) : u[i] = v[i]
  BY <1>1, <1>2, ConcatProperties
<1> QED
  BY <1>3, <1>4, <1>5, SeqEqual

\* Appending behind a queue appends behind the whole.
LEMMA AppendBehind ==
    ASSUME NEW S, NEW s \in Seq(S), NEW t \in Seq(S), NEW e \in S
    PROVE  s \o Append(t, e) = Append(s \o t, e)
<1> DEFINE u == s \o Append(t, e)
           v == Append(s \o t, e)
<1>1. /\ Append(t, e) \in Seq(S)
      /\ Len(Append(t, e)) = Len(t) + 1
      /\ \A i \in 1 .. Len(t) : Append(t, e)[i] = t[i]
      /\ Append(t, e)[Len(t) + 1] = e
  BY AppendProperties
<1>2. s \o t \in Seq(S) /\ Len(s \o t) = Len(s) + Len(t)
  BY ConcatProperties
<1>3. u \in Seq(S) /\ v \in Seq(S)
  BY <1>1, <1>2, ConcatProperties, AppendProperties
<1>4. Len(u) = Len(v)
  BY <1>1, <1>2, ConcatProperties, AppendProperties
<1>5. \A i \in 1 .. Len(u) : u[i] = v[i]
  BY <1>1, <1>2, ConcatProperties, AppendProperties
<1> QED
  BY <1>3, <1>4, <1>5, SeqEqual

-----------------------------------------------------------------------------
\* TransportManager::new: nothing queued, no relay cooling down.
LEMMA InitIInv == Init => IInv
<1> SUFFICES ASSUME Init PROVE IInv
  OBVIOUS
<1>1. TransportTypeOK
  <2>1. directory \in Directories
    BY Zenon DEF Init
  <2>2. failedNow \in [Endpoints -> Nat]
    BY DEF Init
  <2>3. outbox \in Seq(Frames) /\ log \in Seq(Frames) /\ answered \in Seq(Frames)
    BY EmptySeq DEF Init
  <2> QED
    BY <2>1, <2>2, <2>3, Zenon DEF Init, TransportTypeOK
<1>2. AnsweredThenQueued
  BY DEF Init, AnsweredThenQueued
<1>3. FailsOncePerFlush /\ FlushHasFrame /\ TriedAreCooling /\ FailedAreCooling
  BY DEF Init, FailsOncePerFlush, FlushHasFrame, TriedAreCooling, FailedAreCooling
<1> QED
  BY <1>1, <1>2, <1>3 DEF IInv

\* Every call, and every step of a flush, preserves the invariant.
LEMMA NextIInv == IInv /\ [Next]_vars => IInv'
<1> SUFFICES ASSUME IInv, [Next]_vars PROVE IInv'
  OBVIOUS
<1> USE DEF IInv, TransportTypeOK, FailsOncePerFlush, FlushHasFrame, TriedAreCooling,
        FailedAreCooling, progress, history
<1>1. ASSUME NEW f \in Frames, Enqueue(f)
      PROVE  IInv'
  <2>1. outbox' \in Seq(Frames) /\ log' \in Seq(Frames)
    BY <1>1, AppendProperties DEF Enqueue
  <2>2. AnsweredThenQueued'
    BY <1>1, AppendBehind DEF Enqueue, AnsweredThenQueued
  <2> QED
    BY <1>1, <2>1, <2>2 DEF Enqueue
<1>2. ASSUME NEW d \in Directories, UpdateDirectory(d)
      PROVE  IInv'
  BY <1>2 DEF UpdateDirectory, AnsweredThenQueued
<1>3. CASE NotifyNetworkChange
  BY <1>3 DEF NotifyNetworkChange, AnsweredThenQueued
<1>4. ASSUME NEW e \in Endpoints, CooldownElapses(e)
      PROVE  IInv'
  BY <1>4 DEF CooldownElapses, AnsweredThenQueued
<1>5. CASE FlushBegin
  <2>1. flushing' \in BOOLEAN
    BY <1>5, Zenon DEF FlushBegin
  <2> QED
    BY <1>5, <2>1 DEF FlushBegin, AnsweredThenQueued
<1>6. ASSUME NEW e \in Endpoints, FlushSkips(e)
      PROVE  IInv'
  BY <1>6 DEF FlushSkips, Skips, Current, AnsweredThenQueued
<1>7. ASSUME NEW e \in Endpoints, FlushSends(e)
      PROVE  IInv'
  <2>1. outbox # <<>>
    BY <1>7 DEF FlushSends, Current
  <2>2. /\ Head(outbox) \in Frames /\ Tail(outbox) \in Seq(Frames)
        /\ Len(Tail(outbox)) = Len(outbox) - 1
    BY <2>1, HeadTailProperties
  <2>3. outbox' \in Seq(Frames) /\ answered' \in Seq(Frames)
    BY <1>7, <2>2, AppendProperties DEF FlushSends
  <2>4. AnsweredThenQueued'
    BY <1>7, <2>1, MoveHead DEF FlushSends, AnsweredThenQueued
  <2>5. FlushHasFrame'
    <3>1. CASE Len(outbox) = 1
      BY <1>7, <3>1 DEF FlushSends, Ends
    <3>2. CASE Len(outbox) # 1
      <4>1. Len(outbox) # 0
        BY <2>1, EmptySeq
      <4>2. Len(Tail(outbox)) # 0
        BY <2>2, <3>2, <4>1, LenProperties
      <4> QED
        BY <1>7, <2>2, <4>2, EmptySeq DEF FlushSends
    <3> QED
      BY <3>1, <3>2
  <2> QED
    BY <1>7, <2>3, <2>4, <2>5 DEF FlushSends, Ends, Skips
<1>8. ASSUME NEW e \in Endpoints, FlushFails(e)
      PROVE  IInv'
  BY <1>8 DEF FlushFails, Skips, Current, AnsweredThenQueued
<1>9. CASE FlushUnavailable
  <2>1. flushing' \in BOOLEAN
    BY <1>9, Zenon DEF FlushUnavailable, Ends
  <2> QED
    BY <1>9, <2>1 DEF FlushUnavailable, RetainsOutbox, Ends, AnsweredThenQueued
<1>10. CASE FlushCancelled
  <2>1. flushing' \in BOOLEAN
    BY <1>10, Zenon DEF FlushCancelled, Ends
  <2> QED
    BY <1>10, <2>1 DEF FlushCancelled, Ends, AnsweredThenQueued
<1>11. CASE UNCHANGED vars
  BY <1>11 DEF vars, AnsweredThenQueued
<1> HIDE DEF IInv
<1> QED
  BY <1>1, <1>2, <1>3, <1>4, <1>5, <1>6, <1>7, <1>8, <1>9, <1>10, <1>11
     DEF Next, FlushStep

\* The invariant holds in every reachable state.
THEOREM Invariance == Spec => []IInv
BY InitIInv, NextIInv, PTL DEF Spec

-----------------------------------------------------------------------------
\* flush loses, repeats and reorders no frame, whatever fails or is dropped: the
\* frames answered followed by those queued are those enqueued.
THEOREM NoFrameLost == Spec => []AnsweredThenQueued
<1>1. IInv => AnsweredThenQueued
  BY DEF IInv
<1> QED
  BY <1>1, Invariance, PTL

\* flush asks a relay that has failed no second time.
THEOREM OneFailurePerFlush == Spec => []FailsOncePerFlush
<1>1. IInv => FailsOncePerFlush
  BY DEF IInv
<1> QED
  BY <1>1, Invariance, PTL

\* flush changes its preferred relay only when the old one is cooling down or has
\* left the directory.
THEOREM StickyRelay == Spec => LeavesOnlyFailedRelay
<1>1. IInv /\ [Next]_vars =>
        [preferred' # preferred /\ preferred \in directory.endpoints
            => preferred \in cooling]_vars
  <2> SUFFICES ASSUME IInv, Next, preferred' # preferred,
                      preferred \in directory.endpoints
               PROVE  preferred \in cooling
    BY DEF vars
  <2>1. PICK e \in Endpoints : FlushSends(e)
    BY DEF Next, FlushStep, Enqueue, UpdateDirectory, NotifyNetworkChange,
       CooldownElapses, FlushBegin, FlushSkips, FlushFails, FlushUnavailable,
       FlushCancelled
  <2>2. preferred \notin Untried
    BY <2>1 DEF FlushSends, Current, Before
  <2>3. preferred \in tried
    BY <2>2 DEF Untried
  <2> QED
    BY <2>3 DEF IInv, TriedAreCooling
<1> QED
  BY <1>1, Invariance, PTL DEF Spec, LeavesOnlyFailedRelay

-----------------------------------------------------------------------------
(* FrameCodec: bytes.                                                      *)

\* Byte strings.
Bytes == Seq(Byte)

\* The bytes x stand in the input behind position q.
At(q, x) == q + Len(x) <= Len(input) /\ \A j \in 1 .. Len(x) : input[q + j] = x[j]

\* A number below Huge is recovered from its four bytes.
LEMMA FourBytes ==
    ASSUME NEW n \in Nat, n < Huge
    PROVE  /\ 256 * (256 * (256 * ((n \div 16777216) % 256) + ((n \div 65536) % 256))
                         + ((n \div 256) % 256)) + (n % 256) = n
           /\ (n \div 16777216) % 256 < 64
  BY SMT DEF Huge

\* Two bytes are recovered from the number they make.
LEMMA FromTwoBytes ==
    ASSUME NEW b1 \in Byte, NEW b2 \in Byte, NEW n, n = 256 * b1 + b2
    PROVE  /\ n \in Nat /\ n < 65536
           /\ n \div 256 = b1 /\ n % 256 = b2
  BY SMT DEF Byte

\* Four bytes, the first below 64, are recovered from the number they make.
LEMMA FromFourBytes ==
    ASSUME NEW b1 \in Byte, NEW b2 \in Byte, NEW b3 \in Byte, NEW b4 \in Byte, NEW n,
           b1 < 64, n = 256 * (256 * (256 * b1 + b2) + b3) + b4
    PROVE  /\ n \in Nat /\ n < Huge
           /\ (n \div 16777216) % 256 = b1
           /\ (n \div 65536) % 256 = b2
           /\ (n \div 256) % 256 = b3
           /\ n % 256 = b4
<1> USE DEF Byte
<1>0. n \in Nat /\ n < Huge
  BY SMT DEF Huge
<1>1. n \div 16777216 = b1
  BY SMT
<1>2. n \div 65536 = 256 * b1 + b2
  BY SMT
<1>3. n \div 256 = 256 * (256 * b1 + b2) + b3
  BY SMT
<1>4. n % 256 = b4
  BY SMT
<1>5. b1 % 256 = b1
  BY SMT
<1>6. (256 * b1 + b2) % 256 = b2
  BY SMT
<1>7. (256 * (256 * b1 + b2) + b3) % 256 = b3
  <2>1. 256 * b1 + b2 \in Nat
    BY SMT
  <2>2. \A k \in Nat : (256 * k + b3) % 256 = b3
    BY SMT
  <2> QED
    BY <2>1, <2>2, SMT
<1> QED
  BY <1>0, <1>1, <1>2, <1>3, <1>4, <1>5, <1>6, <1>7, SMT

\* A first byte is the major type and the additional information.
LEMMA FirstByte ==
    ASSUME NEW m \in Nat, m <= 7, NEW a \in Nat, a <= 31
    PROVE  (32 * m + a) % 32 = a /\ (32 * m + a) \div 32 = m /\ 32 * m + a \in Byte
  BY SMT DEF Byte

\* Major type and additional information make up the first byte.
LEMMA FirstByteParts ==
    ASSUME NEW x \in Byte
    PROVE  /\ x \div 32 \in Nat /\ x \div 32 <= 7 /\ x % 32 \in Nat
           /\ x = 32 * (x \div 32) + (x % 32)
  BY SMT DEF Byte

\* A head is bytes.
LEMMA MajorIsBytes ==
    ASSUME NEW m \in Nat, m <= 7, NEW n \in Nat
    PROVE  Major(m, n) \in Bytes /\ Len(Major(m, n)) \in 1 .. 5
<1>1. 32 * m + 24 \in Byte /\ 32 * m + 25 \in Byte /\ 32 * m + 26 \in Byte
  BY SMT DEF Byte
<1>2. /\ (n \div 16777216) % 256 \in Byte /\ (n \div 65536) % 256 \in Byte
      /\ (n \div 256) % 256 \in Byte /\ n % 256 \in Byte
  BY SMT DEF Byte
<1>3. CASE n < 24
  <2>1. 32 * m + n \in Byte
    BY <1>3, SMT DEF Byte
  <2>2. Major(m, n) = <<32 * m + n>>
    BY <1>3, SMT DEF Major
  <2> QED
    BY <2>1, <2>2, SMT DEF Bytes
<1>4. CASE 24 <= n /\ n < 256
  <2>1. n \in Byte
    BY <1>4, SMT DEF Byte
  <2>2. Major(m, n) = <<32 * m + 24, n>>
    BY <1>4, SMT DEF Major
  <2> QED
    BY <2>1, <2>2, <1>1, SMT DEF Bytes
<1>5. CASE 256 <= n /\ n < 65536
  <2>1. n \div 256 \in Byte
    BY <1>5, SMT DEF Byte
  <2>2. Major(m, n) = <<32 * m + 25, n \div 256, n % 256>>
    BY <1>5, SMT DEF Major
  <2> QED
    BY <1>1, <1>2, <2>1, <2>2, SMT DEF Bytes
<1>6. CASE 65536 <= n
  <2>1. Major(m, n) = <<32 * m + 26, (n \div 16777216) % 256, (n \div 65536) % 256,
                        (n \div 256) % 256, n % 256>>
    BY <1>6, SMT DEF Major
  <2> QED
    BY <1>1, <1>2, <2>1, SMT DEF Bytes
<1> QED
  BY <1>3, <1>4, <1>5, <1>6, SMT

\* What stands at a position, for the four lengths of a head.
LEMMA AtOne ==
    ASSUME Len(input) \in Nat, NEW q \in Nat, NEW b0,
           At(q, <<b0>>)
    PROVE  /\ q + 1 <= Len(input)
           /\ input[q + 1] = b0
  BY SMT DEF At

\* One byte at a position.
LEMMA OneAt ==
    ASSUME Len(input) \in Nat, NEW q \in Nat, NEW b0, q + 1 <= Len(input),
           input[q + 1] = b0
    PROVE  At(q, <<b0>>) /\ Len(<<b0>>) = 1
  BY SMT DEF At

\* Two bytes at a position.
LEMMA TwoAt ==
    ASSUME Len(input) \in Nat, NEW q \in Nat, NEW b0, NEW b1, q + 2 <= Len(input),
           input[q + 1] = b0, input[q + 2] = b1
    PROVE  At(q, <<b0, b1>>) /\ Len(<<b0, b1>>) = 2
  BY SMT DEF At

\* Three bytes at a position.
LEMMA ThreeAt ==
    ASSUME Len(input) \in Nat, NEW q \in Nat, NEW b0, NEW b1, NEW b2, q + 3 <= Len(input),
           input[q + 1] = b0, input[q + 2] = b1, input[q + 3] = b2
    PROVE  At(q, <<b0, b1, b2>>) /\ Len(<<b0, b1, b2>>) = 3
  BY SMT DEF At

\* Five bytes at a position.
LEMMA FiveAt ==
    ASSUME Len(input) \in Nat, NEW q \in Nat, NEW b0, NEW b1, NEW b2, NEW b3, NEW b4, q + 5 <= Len(input),
           input[q + 1] = b0, input[q + 2] = b1, input[q + 3] = b2, input[q + 4] = b3, input[q + 5] = b4
    PROVE  At(q, <<b0, b1, b2, b3, b4>>) /\ Len(<<b0, b1, b2, b3, b4>>) = 5
  BY SMT DEF At

\* The forms of a head, with the bytes of its argument.
LEMMA MajorOne ==
    ASSUME NEW m \in Nat, NEW n \in Nat, n < 24
    PROVE  Major(m, n) = <<32 * m + n>>
  BY SMT DEF Major

\* A head of two bytes: Encoder::major's form for an argument of one byte.
LEMMA MajorTwo ==
    ASSUME NEW m \in Nat, NEW n \in Byte, Shortest(24, n)
    PROVE  Major(m, n) = <<32 * m + 24, n>>
<1>1. n \in Nat /\ 24 <= n /\ n < 256
  BY SMT DEF Byte, Shortest
<1> QED
  BY <1>1, SMT DEF Major

\* A head of three bytes: the form for an argument of two bytes.
LEMMA MajorThree ==
    ASSUME NEW m \in Nat, NEW b1 \in Byte, NEW b2 \in Byte, Shortest(25, 256 * b1 + b2)
    PROVE  Major(m, 256 * b1 + b2) = <<32 * m + 25, b1, b2>>
<1>0. PICK n \in Nat : n = 256 * b1 + b2
  BY SMT DEF Byte
<1>1. 256 <= n /\ n < 65536
  BY <1>0, SMT DEF Byte, Shortest
<1>2. Major(m, n) = <<32 * m + 25, n \div 256, n % 256>>
  BY <1>1, SMT DEF Major
<1> QED
  BY <1>0, <1>2, FromTwoBytes, SMT

\* A number of four bytes.
Quad(b1, b2, b3, b4) == 256 * (256 * (256 * b1 + b2) + b3) + b4

\* A head of five bytes: the form for an argument of four bytes.
LEMMA MajorFive ==
    ASSUME NEW m \in Nat, NEW b1 \in Byte, NEW b2 \in Byte, NEW b3 \in Byte, NEW b4 \in Byte,
           b1 < 64, Shortest(26, Quad(b1, b2, b3, b4))
    PROVE  Major(m, Quad(b1, b2, b3, b4)) = <<32 * m + 26, b1, b2, b3, b4>>
<1>0. PICK n \in Nat : n = Quad(b1, b2, b3, b4)
  BY SMT DEF Byte, Quad
<1>1. 65536 <= n
  BY <1>0, SMT DEF Shortest
<1>2. Major(m, n) = <<32 * m + 26, (n \div 16777216) % 256, (n \div 65536) % 256,
                      (n \div 256) % 256, n % 256>>
  BY <1>1, SMT DEF Major
<1>3. /\ (n \div 16777216) % 256 = b1 /\ (n \div 65536) % 256 = b2
      /\ (n \div 256) % 256 = b3 /\ n % 256 = b4
  BY <1>0, FromFourBytes, SMT DEF Quad
<1> QED
  BY <1>0, <1>2, <1>3, SMT

\* Additional information and major type of the byte behind a position.
InfoAt(q) == input[q + 1] % 32
MajorAt(q) == input[q + 1] \div 32

\* What Decoder::head answers when it finds a head, and when it does.
LEMMA HeadIs ==
    ASSUME NEW q \in Nat, Len(input) \in Nat, InfoAt(q) \in Nat, InfoAt(q) <= 26,
           Width(InfoAt(q)) \in Nat, q + 1 + Width(InfoAt(q)) <= Len(input),
           Shortest(InfoAt(q), Argument(InfoAt(q), q))
    PROVE  HeadAt(q) = [error |-> "none", major |-> MajorAt(q),
                        n |-> Argument(InfoAt(q), q), next |-> q + 1 + Width(InfoAt(q))]
<1>1. /\ q < Len(input) /\ ~(q >= Len(input)) /\ InfoAt(q) <= 26 /\ ~(InfoAt(q) > 26)
      /\ ~(q + 1 + Width(InfoAt(q)) > Len(input))
  BY SMT
<1> QED
  BY <1>1, Zenon DEF HeadAt, InfoAt, MajorAt

\* Where Decoder::head accepts, the argument is there and in the shortest form.
LEMMA HeadFound ==
    ASSUME NEW q \in Nat, input \in Bytes, HeadAt(q).error = "none"
    PROVE  /\ q < Len(input) /\ input[q + 1] \in Byte
           /\ InfoAt(q) \in Nat /\ InfoAt(q) <= 26
           /\ ~(q + 1 + Width(InfoAt(q)) > Len(input))
           /\ Shortest(InfoAt(q), Argument(InfoAt(q), q))
<1>0. Failed("Truncated").error # "none" /\ Failed("NonCanonical").error # "none"
  BY SMT DEF Failed
<1>1. q < Len(input)
  <2>1. SUFFICES ASSUME q >= Len(input), ~(q < Len(input)) PROVE FALSE
    BY SMT DEF Bytes
  <2>2. HeadAt(q) = Failed("Truncated")
    BY <2>1, Zenon DEF HeadAt
  <2> QED
    BY <2>2, <1>0, Zenon
<1>2. input[q + 1] \in Byte /\ ~(q >= Len(input))
  BY <1>1, SMT DEF Bytes
<1>3. InfoAt(q) \in Nat
  BY <1>2, FirstByteParts, Zenon DEF InfoAt
<1>4. InfoAt(q) <= 26
  <2>1. SUFFICES ASSUME InfoAt(q) > 26, ~(InfoAt(q) <= 26) PROVE FALSE
    BY <1>3, SMT
  <2>3. HeadAt(q) = Failed("NonCanonical")
    BY <2>1, <1>1, <1>2, Zenon DEF HeadAt, InfoAt
  <2> QED
    BY <2>3, <1>0, Zenon
<1>5. ~(InfoAt(q) > 26)
  BY <1>3, <1>4, SMT
<1>6. HeadAt(q) = IF q + 1 + Width(InfoAt(q)) > Len(input) THEN Failed("Truncated")
                  ELSE IF ~Shortest(InfoAt(q), Argument(InfoAt(q), q))
                  THEN Failed("NonCanonical")
                  ELSE [error |-> "none", major |-> MajorAt(q), n |-> Argument(InfoAt(q), q),
                        next |-> q + 1 + Width(InfoAt(q))]
  BY <1>1, <1>2, <1>4, <1>5, Zenon DEF HeadAt, InfoAt, MajorAt
<1>7. ~(q + 1 + Width(InfoAt(q)) > Len(input)) /\ Shortest(InfoAt(q), Argument(InfoAt(q), q))
  BY <1>0, <1>6, Zenon
<1> QED
  BY <1>1, <1>2, <1>3, <1>4, <1>7

\* The argument that Decoder::head reads, by additional information.
LEMMA Arguments ==
    ASSUME NEW q
    PROVE  /\ \A a \in Nat : a < 24 => Argument(a, q) = a /\ Width(a) = 0 /\ Shortest(a, a)
           /\ Argument(24, q) = input[q + 2] /\ Width(24) = 1
           /\ Argument(25, q) = 256 * input[q + 2] + input[q + 3] /\ Width(25) = 2
           /\ Width(26) = 4
           /\ input[q + 2] >= 64 => Argument(26, q) = Huge
           /\ ~(input[q + 2] >= 64) =>
                Argument(26, q) = 256 * (256 * (256 * input[q + 2] + input[q + 3]) + input[q + 4])
                                      + input[q + 5]
<1>1. /\ ~(24 < 24) /\ ~(25 < 24) /\ ~(26 < 24)
      /\ 24 # 25 /\ 24 # 26 /\ 25 # 26
      /\ \A a \in Nat : a < 24 => a # 24 /\ a # 25 /\ a # 26
  BY SMT
<1>2. \A a \in Nat : a < 24 => Argument(a, q) = a /\ Width(a) = 0
  BY <1>1, Zenon DEF Argument, Width
<1>8. \A a \in Nat : a < 24 => Shortest(a, a)
  BY SMT DEF Shortest
<1>3. Width(24) = 1 /\ Width(25) = 2 /\ Width(26) = 4
  BY <1>1, Zenon DEF Width
<1>4. Argument(24, q) = input[q + 2]
  BY <1>1, Zenon DEF Argument
<1>5. Argument(25, q) = 256 * input[q + 2] + input[q + 3]
  BY <1>1, Zenon DEF Argument
<1>6. input[q + 2] >= 64 => Argument(26, q) = Huge
  BY <1>1, Zenon DEF Argument
<1>7. ~(input[q + 2] >= 64) =>
                Argument(26, q) = 256 * (256 * (256 * input[q + 2] + input[q + 3]) + input[q + 4])
                                      + input[q + 5]
  BY <1>1, Zenon DEF Argument
<1> QED
  BY <1>2, <1>3, <1>4, <1>5, <1>6, <1>7, <1>8

\* Decoder::head gets back what Encoder::major wrote, at every width.
LEMMA HeadReads ==
    ASSUME input \in Bytes, NEW q \in Nat, NEW m \in Nat, m <= 7, NEW n \in Nat, n < Huge,
           At(q, Major(m, n))
    PROVE  HeadAt(q) = [error |-> "none", major |-> m, n |-> n,
                        next |-> q + Len(Major(m, n))]
<1>0. Len(input) \in Nat
  BY SMT DEF Bytes
<1>1. SUFFICES \E a \in Nat :
                 /\ a <= 26 /\ input[q + 1] = 32 * m + a
                 /\ Width(a) \in Nat /\ Len(Major(m, n)) = 1 + Width(a)
                 /\ q + 1 + Width(a) <= Len(input)
                 /\ Argument(a, q) = n /\ Shortest(a, n)
  <2>1. PICK a \in Nat :
                 /\ a <= 26 /\ input[q + 1] = 32 * m + a
                 /\ Width(a) \in Nat /\ Len(Major(m, n)) = 1 + Width(a)
                 /\ q + 1 + Width(a) <= Len(input)
                 /\ Argument(a, q) = n /\ Shortest(a, n)
    BY <1>1, Zenon
  <2>2. (32 * m + a) % 32 = a /\ (32 * m + a) \div 32 = m
    <3>1. a <= 31
      BY <2>1, SMT
    <3> QED
      BY <3>1, FirstByte, Zenon
  <2>3. InfoAt(q) = a /\ MajorAt(q) = m
    BY <2>1, <2>2, Zenon DEF InfoAt, MajorAt
  <2>4. HeadAt(q) = [error |-> "none", major |-> m, n |-> n, next |-> q + 1 + Width(a)]
    BY <1>0, <2>1, <2>3, HeadIs, Zenon
  <2>5. q + 1 + Width(a) = q + Len(Major(m, n))
    BY <2>1, SMT
  <2> QED
    BY <2>4, <2>5, Zenon
<1>2. CASE n < 24
  <2>1. Major(m, n) = <<32 * m + n>>
    BY <1>2, SMT DEF Major
  <2>2. input[q + 1] = 32 * m + n /\ q + 1 <= Len(input) /\ Len(Major(m, n)) = 1
    <3>1. At(q, <<32 * m + n>>) /\ Len(<<32 * m + n>>) = 1
      BY <2>1, SMT
    <3> QED
      BY <1>0, <2>1, <3>1, AtOne, Zenon
  <2>3. Width(n) = 0 /\ Argument(n, q) = n /\ Shortest(n, n)
    BY <1>2, Arguments, Zenon
  <2>4. n <= 26 /\ 0 \in Nat /\ 1 = 1 + 0 /\ q + 1 + 0 = q + 1
    BY <1>2, SMT
  <2> QED
    BY <2>2, <2>3, <2>4, Zenon
<1>3. CASE 24 <= n /\ n < 256
  <2>1. Major(m, n) = <<32 * m + 24, n>>
    BY <1>3, SMT DEF Major
  <2>2. /\ input[q + 1] = 32 * m + 24 /\ input[q + 2] = n /\ q + 2 <= Len(input)
        /\ Len(Major(m, n)) = 2
    <3>1. At(q, <<32 * m + 24, n>>) /\ Len(<<32 * m + 24, n>>) = 2
      BY <2>1, SMT
    <3>2. input[q + 1] = 32 * m + 24 /\ input[q + 2] = n /\ q + 2 <= Len(input)
      BY <1>0, <3>1, SMT DEF At
    <3> QED
      BY <2>1, <3>1, <3>2, Zenon
  <2>3. Width(24) = 1 /\ Argument(24, q) = n
    BY <2>2, Arguments, Zenon
  <2>4. 24 \in Nat /\ 24 <= 26 /\ 1 \in Nat /\ 2 = 1 + 1 /\ q + 1 + 1 = q + 2 /\ Shortest(24, n)
    BY <1>3, SMT DEF Shortest
  <2> QED
    BY <2>2, <2>3, <2>4, Zenon
<1>4. CASE 256 <= n /\ n < 65536
  <2>1. Major(m, n) = <<32 * m + 25, n \div 256, n % 256>>
    BY <1>4, SMT DEF Major
  <2>2. /\ input[q + 1] = 32 * m + 25 /\ q + 3 <= Len(input)
        /\ input[q + 2] = n \div 256 /\ input[q + 3] = n % 256
        /\ Len(Major(m, n)) = 3
    <3>1. /\ At(q, <<32 * m + 25, n \div 256, n % 256>>)
          /\ Len(<<32 * m + 25, n \div 256, n % 256>>) = 3
      BY <2>1, SMT
    <3>2. /\ input[q + 1] = 32 * m + 25 /\ q + 3 <= Len(input)
          /\ input[q + 2] = n \div 256 /\ input[q + 3] = n % 256
      BY <1>0, <3>1, SMT DEF At
    <3> QED
      BY <2>1, <3>1, <3>2, Zenon
  <2>3. 256 * (n \div 256) + (n % 256) = n
    BY <1>4, SMT
  <2>4. Width(25) = 2 /\ Argument(25, q) = n
    <3>1. Width(25) = 2 /\ Argument(25, q) = 256 * input[q + 2] + input[q + 3]
      BY Arguments, Zenon
    <3> QED
      BY <2>2, <2>3, <3>1, Zenon
  <2>5. 25 \in Nat /\ 25 <= 26 /\ 2 \in Nat /\ 3 = 1 + 2 /\ q + 1 + 2 = q + 3 /\ Shortest(25, n)
    BY <1>4, SMT DEF Shortest
  <2> QED
    BY <2>2, <2>4, <2>5, Zenon
<1>5. CASE 65536 <= n
  <2> DEFINE b1 == (n \div 16777216) % 256
             b2 == (n \div 65536) % 256
             b3 == (n \div 256) % 256
             b4 == n % 256
  <2>1. Major(m, n) = <<32 * m + 26, b1, b2, b3, b4>>
    BY <1>5, SMT DEF Major
  <2>3. 256 * (256 * (256 * b1 + b2) + b3) + b4 = n /\ ~(b1 >= 64)
    BY FourBytes, SMT
  <2> HIDE DEF b1, b2, b3, b4
  <2>2. /\ input[q + 1] = 32 * m + 26 /\ q + 5 <= Len(input)
        /\ input[q + 2] = b1 /\ input[q + 3] = b2 /\ input[q + 4] = b3 /\ input[q + 5] = b4
        /\ Len(Major(m, n)) = 5
    <3>1. At(q, <<32 * m + 26, b1, b2, b3, b4>>) /\ Len(<<32 * m + 26, b1, b2, b3, b4>>) = 5
      BY <2>1, SMT
    <3>2. /\ input[q + 1] = 32 * m + 26 /\ q + 5 <= Len(input)
          /\ input[q + 2] = b1 /\ input[q + 3] = b2 /\ input[q + 4] = b3 /\ input[q + 5] = b4
      BY <1>0, <3>1, SMT DEF At
    <3> QED
      BY <2>1, <3>1, <3>2, Zenon
  <2>4. Width(26) = 4 /\ Argument(26, q) = n
    <3>1. ~(input[q + 2] >= 64)
      BY <2>2, <2>3, Zenon
    <3>2. /\ Width(26) = 4
          /\ Argument(26, q) = 256 * (256 * (256 * input[q + 2] + input[q + 3]) + input[q + 4])
                                   + input[q + 5]
      BY <3>1, Arguments, Zenon
    <3> QED
      BY <2>2, <2>3, <3>2, Zenon
  <2>5. 26 \in Nat /\ 26 <= 26 /\ 4 \in Nat /\ 5 = 1 + 4 /\ q + 1 + 4 = q + 5 /\ Shortest(26, n)
    BY <1>5, SMT DEF Shortest
  <2> QED
    BY <2>2, <2>4, <2>5, Zenon
<1> QED
  BY <1>2, <1>3, <1>4, <1>5, SMT

\* Major type m and additional information a, with an argument in the shortest form.
HeadForm(q, m, a) ==
    /\ input[q + 1] = 32 * m + a
    /\ ~(q + 1 + Width(a) > Len(input))
    /\ Shortest(a, Argument(a, q))

\* A first byte and an argument in the shortest form are what Encoder::major writes.
LEMMA ShortestIsMajor ==
    ASSUME input \in Bytes, NEW q \in Nat, NEW m \in Nat, m <= 7, NEW a \in Nat, a <= 26,
           HeadForm(q, m, a)
    PROVE  /\ Argument(a, q) \in Nat
           /\ Width(a) \in Nat
           /\ Argument(a, q) < Huge => /\ At(q, Major(m, Argument(a, q)))
                                       /\ Len(Major(m, Argument(a, q))) = 1 + Width(a)
<1>0. Len(input) \in Nat /\ \A i \in 1 .. Len(input) : input[i] \in Byte
  BY SMT DEF Bytes
<1>h. /\ input[q + 1] = 32 * m + a
      /\ ~(q + 1 + Width(a) > Len(input))
      /\ Shortest(a, Argument(a, q))
  BY Zenon DEF HeadForm
<1>1. CASE a < 24
  <2>1. Argument(a, q) = a /\ Width(a) = 0
    BY <1>1, Arguments, Zenon
  <2>2. Major(m, a) = <<32 * m + a>>
    BY <1>1, MajorOne, Zenon
  <2>3. q + 1 <= Len(input)
    BY <1>0, <1>h, <2>1, SMT
  <2>4. At(q, Major(m, a)) /\ Len(Major(m, a)) = 1
    BY <1>0, <1>h, <2>2, <2>3, OneAt, Zenon
  <2>5. 0 \in Nat /\ 1 = 1 + 0
    BY SMT
  <2> QED
    BY <2>1, <2>4, <2>5, Zenon
<1>2. CASE a = 24
  <2>1. Argument(24, q) = input[q + 2] /\ Width(24) = 1
    BY Arguments, Zenon
  <2>2. q + 2 <= Len(input)
    BY <1>0, <1>h, <1>2, <2>1, SMT
  <2>3. PICK b \in Byte : input[q + 2] = b
    BY <1>0, <2>2, SMT
  <2>4. b \in Nat
    BY SMT DEF Byte
  <2>5. Major(m, b) = <<32 * m + 24, b>>
    <3>1. Shortest(24, b)
      BY <1>h, <1>2, <2>1, <2>3, Zenon
    <3> QED
      BY <3>1, MajorTwo, Zenon
  <2>6. At(q, Major(m, b)) /\ Len(Major(m, b)) = 2
    <3>1. input[q + 1] = 32 * m + 24
      BY <1>h, <1>2, Zenon
    <3>2. At(q, <<32 * m + 24, b>>) /\ Len(<<32 * m + 24, b>>) = 2
      BY <1>0, <2>2, <2>3, <3>1, TwoAt, Zenon
    <3> QED
      BY <2>5, <3>2, Zenon DEF Quad
  <2>7. 1 \in Nat /\ 2 = 1 + 1
    BY SMT
  <2> QED
    BY <1>2, <2>1, <2>3, <2>4, <2>6, <2>7, Zenon
<1>3. CASE a = 25
  <2>1. Argument(25, q) = 256 * input[q + 2] + input[q + 3] /\ Width(25) = 2
    BY Arguments, Zenon
  <2>2. q + 2 <= Len(input) /\ q + 3 <= Len(input)
    BY <1>0, <1>h, <1>3, <2>1, SMT
  <2>3. PICK b1 \in Byte, b2 \in Byte : input[q + 2] = b1 /\ input[q + 3] = b2
    BY <1>0, <2>2, SMT
  <2>4. PICK n \in Nat : n = 256 * b1 + b2
    BY SMT DEF Byte
  <2>7. Major(m, n) = <<32 * m + 25, b1, b2>>
    <3>1. Shortest(25, 256 * b1 + b2)
      BY <1>h, <1>3, <2>1, <2>3, Zenon
    <3>2. Major(m, 256 * b1 + b2) = <<32 * m + 25, b1, b2>>
      BY <3>1, MajorThree, Zenon
    <3> QED
      BY <2>4, <3>2, Zenon
  <2>8. At(q, Major(m, n)) /\ Len(Major(m, n)) = 3
    <3>1. input[q + 1] = 32 * m + 25
      BY <1>h, <1>3, Zenon
    <3>2. At(q, <<32 * m + 25, b1, b2>>) /\ Len(<<32 * m + 25, b1, b2>>) = 3
      BY <1>0, <2>2, <2>3, <3>1, ThreeAt, Zenon
    <3> QED
      BY <2>7, <3>2, Zenon
  <2>9. 2 \in Nat /\ 3 = 1 + 2
    BY SMT
  <2> QED
    BY <1>3, <2>1, <2>3, <2>4, <2>8, <2>9, Zenon
<1>4. CASE a = 26 /\ input[q + 2] >= 64
  <2>1. Argument(26, q) = Huge /\ Width(26) = 4
    BY <1>4, Arguments, Zenon
  <2>2. Huge \in Nat /\ 4 \in Nat /\ ~(Huge < Huge)
    BY SMT DEF Huge
  <2> QED
    BY <1>4, <2>1, <2>2, Zenon
<1>5. CASE a = 26 /\ ~(input[q + 2] >= 64)
  <2>1. /\ Argument(26, q) = 256 * (256 * (256 * input[q + 2] + input[q + 3]) + input[q + 4])
                                 + input[q + 5]
        /\ Width(26) = 4
    BY <1>5, Arguments, Zenon
  <2>2. q + 2 <= Len(input) /\ q + 3 <= Len(input) /\ q + 4 <= Len(input) /\ q + 5 <= Len(input)
    BY <1>0, <1>h, <1>5, <2>1, SMT
  <2>3. PICK b1 \in Byte, b2 \in Byte, b3 \in Byte, b4 \in Byte :
            input[q + 2] = b1 /\ input[q + 3] = b2 /\ input[q + 4] = b3 /\ input[q + 5] = b4
    BY <1>0, <2>2, SMT
  <2>4. b1 < 64
    <3>1. ~(b1 >= 64)
      BY <1>5, <2>3, Zenon
    <3> QED
      BY <3>1, SMT DEF Byte
  <2>5. PICK n \in Nat : n = 256 * (256 * (256 * b1 + b2) + b3) + b4
    BY SMT DEF Byte
  <2>6. Argument(26, q) = n
    BY <2>1, <2>3, <2>5, Zenon
  <2>7. Major(m, n) = <<32 * m + 26, b1, b2, b3, b4>>
    <3>1. Shortest(26, Quad(b1, b2, b3, b4))
      BY <1>h, <1>5, <2>5, <2>6, Zenon DEF Quad
    <3>2. Major(m, Quad(b1, b2, b3, b4)) = <<32 * m + 26, b1, b2, b3, b4>>
      BY <2>4, <3>1, MajorFive, SMT
    <3> QED
      BY <2>5, <3>2, Zenon DEF Quad
  <2>8. At(q, Major(m, n)) /\ Len(Major(m, n)) = 5
    <3>1. input[q + 1] = 32 * m + 26
      BY <1>h, <1>5, Zenon
    <3>2. At(q, <<32 * m + 26, b1, b2, b3, b4>>) /\ Len(<<32 * m + 26, b1, b2, b3, b4>>) = 5
      BY <1>0, <2>2, <2>3, <3>1, FiveAt, Zenon
    <3> QED
      BY <2>7, <3>2, Zenon
  <2>9. 4 \in Nat /\ 5 = 1 + 4
    BY SMT
  <2> QED
    BY <1>5, <2>1, <2>6, <2>8, <2>9, Zenon
<1> QED
  BY <1>1, <1>2, <1>3, <1>4, <1>5, SMT

\* Whatever Decoder::head accepts is what Encoder::major writes: one form per number.
LEMMA HeadCanonical ==
    ASSUME input \in Bytes, NEW q \in Nat, NEW h, h = HeadAt(q), h.error = "none"
    PROVE  /\ h.major \in Nat /\ h.n \in Nat
           /\ h.next \in Nat /\ q < h.next /\ h.next <= Len(input)
           /\ h.n < Huge => /\ At(q, Major(h.major, h.n))
                            /\ h.next = q + Len(Major(h.major, h.n))
<1>0. Len(input) \in Nat
  BY SMT DEF Bytes
<1> DEFINE x == input[q + 1]
           n == Argument(InfoAt(q), q)
           w == Width(InfoAt(q))
<1>1. /\ q < Len(input) /\ x \in Byte /\ InfoAt(q) \in Nat /\ InfoAt(q) <= 26
      /\ ~(q + 1 + w > Len(input)) /\ Shortest(InfoAt(q), n)
  BY HeadFound, Zenon
<1>2. MajorAt(q) \in Nat /\ MajorAt(q) <= 7 /\ x = 32 * MajorAt(q) + InfoAt(q)
  BY <1>1, FirstByteParts, Zenon DEF MajorAt, InfoAt
<1>3. /\ n \in Nat /\ w \in Nat
      /\ n < Huge => At(q, Major(MajorAt(q), n)) /\ Len(Major(MajorAt(q), n)) = 1 + w
  BY <1>1, <1>2, ShortestIsMajor, Zenon DEF HeadForm
<1>4. q + 1 + w <= Len(input) /\ q + 1 + w \in Nat /\ q < q + 1 + w /\ q + 1 + w = q + (1 + w)
  BY <1>0, <1>1, <1>3, SMT
<1>5. h = [error |-> "none", major |-> MajorAt(q), n |-> n, next |-> q + 1 + w]
  BY <1>0, <1>1, <1>3, <1>4, HeadIs, Zenon
<1> HIDE DEF n, w
<1>6. h.major = MajorAt(q) /\ h.n = n /\ h.next = q + 1 + w
  BY <1>5
<1> QED
  BY <1>2, <1>3, <1>4, <1>6, Zenon

\* What stands behind a position, in two parts.
LEMMA AtConcat ==
    ASSUME input \in Bytes, NEW q \in Nat, NEW x \in Bytes, NEW y \in Bytes
    PROVE  /\ x \o y \in Bytes /\ Len(x \o y) = Len(x) + Len(y)
           /\ At(q, x \o y) <=> At(q, x) /\ At(q + Len(x), y)
<1> USE DEF Bytes
<1>1. Len(input) \in Nat /\ Len(x) \in Nat /\ Len(y) \in Nat
  BY SMT
<1>2. x \o y \in Seq(Byte) /\ Len(x \o y) = Len(x) + Len(y)
  BY SMT
<1>3. /\ \A j \in 1 .. Len(x) : (x \o y)[j] = x[j]
      /\ \A j \in 1 .. Len(y) : (x \o y)[Len(x) + j] = y[j]
  BY SMT
<1>4. ASSUME At(q, x \o y) PROVE At(q, x) /\ At(q + Len(x), y)
  <2>1. At(q, x)
    BY <1>1, <1>2, <1>3, <1>4, SMT DEF At
  <2>2. q + Len(x) + Len(y) <= Len(input)
    BY <1>1, <1>2, <1>4, SMT DEF At
  <2>3. ASSUME NEW j \in 1 .. Len(y) PROVE input[q + Len(x) + j] = y[j]
    <3>1. Len(x) + j \in 1 .. Len(x) + Len(y) /\ q + (Len(x) + j) = q + Len(x) + j
      BY <1>1, SMT
    <3>2. input[q + (Len(x) + j)] = (x \o y)[Len(x) + j]
      BY <1>2, <1>4, <3>1 DEF At
    <3> QED
      BY <1>3, <3>1, <3>2
  <2> QED
    BY <2>1, <2>2, <2>3 DEF At
<1>5. ASSUME At(q, x), At(q + Len(x), y) PROVE At(q, x \o y)
  <2>1. q + (Len(x) + Len(y)) <= Len(input)
    BY <1>1, <1>5, SMT DEF At
  <2>2. ASSUME NEW j \in 1 .. Len(x) + Len(y) PROVE input[q + j] = (x \o y)[j]
    <3>1. CASE j <= Len(x)
      BY <1>1, <1>3, <1>5, <3>1, SMT DEF At
    <3>2. CASE j > Len(x)
      <4>1. PICK k \in 1 .. Len(y) : j = Len(x) + k
        <5>1. j - Len(x) \in 1 .. Len(y) /\ j = Len(x) + (j - Len(x))
          BY <1>1, <3>2, SMT
        <5> QED
          BY <5>1
      <4>2. q + j = q + Len(x) + k
        BY <1>1, <4>1, SMT
      <4>3. input[q + Len(x) + k] = y[k]
        BY <1>5 DEF At
      <4>4. (x \o y)[Len(x) + k] = y[k]
        BY <1>3
      <4> QED
        BY <4>1, <4>2, <4>3, <4>4
    <3> QED
      BY <1>1, <3>1, <3>2, SMT
  <2> QED
    BY <1>2, <2>1, <2>2 DEF At
<1> QED
  BY <1>2, <1>4, <1>5

\* The bytes behind a position are what stands there.
LEMMA AtSub ==
    ASSUME input \in Bytes, NEW q \in Nat, NEW n \in Nat, q + n <= Len(input)
    PROVE  /\ SubSeq(input, q + 1, q + n) \in Bytes
           /\ Len(SubSeq(input, q + 1, q + n)) = n
           /\ At(q, SubSeq(input, q + 1, q + n))
<1> USE DEF Bytes
<1>1. SubSeq(input, q + 1, q + n) \in Seq(Byte) /\ Len(SubSeq(input, q + 1, q + n)) = n
  BY SMT
<1>2. \A j \in 1 .. n : SubSeq(input, q + 1, q + n)[j] = input[q + j]
  BY SMT
<1> QED
  BY <1>1, <1>2, SMT DEF At

\* Bytes that stand behind a position are what Decoder::bytes cuts out there.
LEMMA AtIsSub ==
    ASSUME input \in Bytes, NEW q \in Nat, NEW x \in Bytes, At(q, x)
    PROVE  SubSeq(input, q + 1, q + Len(x)) = x
<1>1. Len(x) \in Nat /\ q + Len(x) <= Len(input) /\ \A j \in 1 .. Len(x) : input[q + j] = x[j]
  BY SMT DEF At, Bytes
<1>2. /\ SubSeq(input, q + 1, q + Len(x)) \in Seq(Byte)
      /\ Len(SubSeq(input, q + 1, q + Len(x))) = Len(x)
      /\ At(q, SubSeq(input, q + 1, q + Len(x)))
  BY <1>1, AtSub DEF Bytes
<1>3. \A j \in 1 .. Len(x) : SubSeq(input, q + 1, q + Len(x))[j] = x[j]
  BY <1>1, <1>2 DEF At
<1> QED
  BY <1>2, <1>3, SeqEqual DEF Bytes

\* What an item's value is, and that its head's argument is told apart from others.
Typed(item, v) == IF IsBytes(item) THEN v \in Bytes ELSE v \in Nat
Fits(item, v) == Typed(item, v) /\ (IF IsBytes(item) THEN Len(v) < Huge ELSE v < Huge)

\* The heads of integers, byte strings and arrays are bytes, at least one.
LEMMA MajorTypes ==
    ASSUME NEW n \in Nat
    PROVE  /\ Major(0, n) \in Bytes /\ Len(Major(0, n)) \in Nat /\ Len(Major(0, n)) > 0
           /\ Major(2, n) \in Bytes /\ Len(Major(2, n)) \in Nat /\ Len(Major(2, n)) > 0
           /\ Major(4, n) \in Bytes /\ Len(Major(4, n)) \in Nat /\ Len(Major(4, n)) > 0
<1>1. 0 \in Nat /\ 0 <= 7 /\ 2 \in Nat /\ 2 <= 7 /\ 4 \in Nat /\ 4 <= 7
  BY SMT
<1>2. \A k : k \in 1 .. 5 => k \in Nat /\ k > 0
  BY SMT
<1> QED
  BY <1>1, <1>2, MajorIsBytes, Zenon

\* An encoded item is bytes, at least one.
LEMMA ItemIsBytes ==
    ASSUME NEW item, NEW v, Typed(item, v)
    PROVE  /\ EncodeItem(item, v) \in Bytes
           /\ Len(EncodeItem(item, v)) \in Nat /\ Len(EncodeItem(item, v)) > 0
<1>1. CASE IsBytes(item)
  <2>1. v \in Bytes /\ EncodeItem(item, v) = Major(2, Len(v)) \o v
    BY <1>1, Zenon DEF Typed, EncodeItem
  <2>2. Len(v) \in Nat
    BY <2>1, SMT DEF Bytes
  <2>3. /\ Major(2, Len(v)) \in Bytes /\ Len(Major(2, Len(v))) \in Nat
        /\ Len(Major(2, Len(v))) > 0
    BY <2>2, MajorTypes, Zenon
  <2>4. /\ Major(2, Len(v)) \o v \in Bytes
        /\ Len(Major(2, Len(v)) \o v) = Len(Major(2, Len(v))) + Len(v)
    BY <2>1, <2>3, SMT DEF Bytes
  <2> QED
    BY <2>1, <2>2, <2>3, <2>4, SMT
<1>2. CASE ~IsBytes(item)
  <2>1. v \in Nat /\ EncodeItem(item, v) = Major(0, v)
    BY <1>2, Zenon DEF Typed, EncodeItem
  <2> QED
    BY <2>1, MajorTypes, Zenon
<1> QED
  BY <1>1, <1>2, Zenon

\* uint and bytes get back what the encoder wrote.
LEMMA ItemReads ==
    ASSUME input \in Bytes, NEW q \in Nat, NEW item, NEW v, Fits(item, v),
           At(q, EncodeItem(item, v))
    PROVE  ItemAt(item, q) = [error |-> "none", value |-> v,
                              next |-> q + Len(EncodeItem(item, v))]
<1>0. Len(input) \in Nat /\ 0 \in Nat /\ 0 <= 7 /\ 2 \in Nat /\ 2 <= 7
  BY SMT DEF Bytes
<1>1. CASE IsBytes(item)
  <2>1. v \in Bytes /\ Len(v) < Huge /\ EncodeItem(item, v) = Major(2, Len(v)) \o v
    BY <1>1, Zenon DEF Fits, Typed, EncodeItem
  <2>2. Len(v) \in Nat
    BY <2>1, SMT DEF Bytes
  <2> DEFINE l == Len(Major(2, Len(v)))
  <2>3. Major(2, Len(v)) \in Bytes /\ l \in Nat
    BY <2>2, MajorTypes, Zenon
  <2>4. /\ Len(EncodeItem(item, v)) = l + Len(v)
        /\ At(q, Major(2, Len(v))) /\ At(q + l, v)
    <3>1. /\ Len(Major(2, Len(v)) \o v) = l + Len(v)
          /\ At(q, Major(2, Len(v)) \o v) <=> At(q, Major(2, Len(v))) /\ At(q + l, v)
      BY <2>1, <2>3, AtConcat
    <3> QED
      BY <2>1, <3>1, Zenon
  <2>5. HeadAt(q) = [error |-> "none", major |-> 2, n |-> Len(v), next |-> q + l]
    BY <1>0, <2>1, <2>2, <2>4, HeadReads, Zenon
  <2> HIDE DEF l
  <2>6. /\ HeadAt(q).error = "none" /\ HeadAt(q).major = 2
        /\ HeadAt(q).n = Len(v) /\ HeadAt(q).next = q + l
    BY <2>5
  <2>7. q + l \in Nat /\ ~(q + l + Len(v) > Len(input)) /\ q + l + Len(v) = q + (l + Len(v))
    BY <1>0, <2>2, <2>3, <2>4, SMT DEF At
  <2>8. SubSeq(input, q + l + 1, q + l + Len(v)) = v
    BY <2>1, <2>4, <2>7, AtIsSub, Zenon
  <2>9. BytesAt(q) = [error |-> "none", value |-> v, next |-> q + (l + Len(v))]
    BY <2>6, <2>7, <2>8, Zenon DEF BytesAt
  <2> QED
    BY <1>1, <2>4, <2>9, Zenon DEF ItemAt
<1>2. CASE ~IsBytes(item)
  <2>1. v \in Nat /\ v < Huge /\ EncodeItem(item, v) = Major(0, v)
    BY <1>2, Zenon DEF Fits, Typed, EncodeItem
  <2> DEFINE l == Len(Major(0, v))
  <2>2. HeadAt(q) = [error |-> "none", major |-> 0, n |-> v, next |-> q + l]
    BY <1>0, <2>1, HeadReads, Zenon
  <2> HIDE DEF l
  <2>3. /\ HeadAt(q).error = "none" /\ HeadAt(q).major = 0
        /\ HeadAt(q).n = v /\ HeadAt(q).next = q + l
    BY <2>2
  <2>4. UintAt(q) = [error |-> "none", value |-> v, next |-> q + l]
    BY <2>3, Zenon DEF UintAt
  <2> QED
    BY <1>2, <2>1, <2>4, Zenon DEF ItemAt, l
<1> QED
  BY <1>1, <1>2, Zenon

\* Whatever uint and bytes accept is what the encoder writes for the value they return.
LEMMA ItemCanonical ==
    ASSUME input \in Bytes, NEW q \in Nat, NEW item, NEW x, x = ItemAt(item, q),
           x.error = "none"
    PROVE  /\ Typed(item, x.value)
           /\ IsBytes(item) => Len(x.value) <= Len(input)
           /\ x.next \in Nat /\ q < x.next /\ x.next <= Len(input)
           /\ Fits(item, x.value) => /\ At(q, EncodeItem(item, x.value))
                                     /\ x.next = q + Len(EncodeItem(item, x.value))
<1> DEFINE h == HeadAt(q)
<1>0. Len(input) \in Nat /\ Failed("Malformed").error # "none" /\ Failed("Truncated").error # "none"
  BY SMT DEF Bytes, Failed
<1>1. CASE IsBytes(item)
  <2>1. x = BytesAt(q)
    BY <1>1, Zenon DEF ItemAt
  <2>2. h.error = "none"
    <3>1. SUFFICES ASSUME h.error # "none" PROVE FALSE
      BY Zenon
    <3>2. x = h
      BY <2>1, <3>1, Zenon DEF BytesAt
    <3> QED
      BY <3>1, <3>2, Zenon
  <2>3. h.major = 2
    <3>1. SUFFICES ASSUME h.major # 2 PROVE FALSE
      BY Zenon
    <3>2. x = Failed("Malformed")
      BY <2>1, <2>2, <3>1, Zenon DEF BytesAt
    <3> QED
      BY <1>0, <3>2, Zenon
  <2>4. ~(h.next + h.n > Len(input))
    <3>1. SUFFICES ASSUME h.next + h.n > Len(input) PROVE FALSE
      BY Zenon
    <3>2. x = Failed("Truncated")
      BY <2>1, <2>2, <2>3, <3>1, Zenon DEF BytesAt
    <3> QED
      BY <1>0, <3>2, Zenon
  <2> DEFINE value == SubSeq(input, h.next + 1, h.next + h.n)
             next == h.next + h.n
  <2>5. x = [error |-> "none", value |-> value, next |-> next]
    BY <2>1, <2>2, <2>3, <2>4, Zenon DEF BytesAt
  <2>6. /\ h.n \in Nat /\ h.next \in Nat /\ q < h.next /\ h.next <= Len(input)
        /\ h.n < Huge => At(q, Major(2, h.n)) /\ h.next = q + Len(Major(2, h.n))
    BY <2>2, <2>3, HeadCanonical, Zenon
  <2>7. x.value = SubSeq(input, h.next + 1, h.next + h.n) /\ x.next = h.next + h.n
    <3> HIDE DEF value, next
    <3>1. x.value = value /\ x.next = next
      BY <2>5
    <3> QED
      BY <3>1, Zenon DEF value, next
  <2> HIDE DEF h, value, next
  <2>8. /\ h.next + h.n <= Len(input) /\ h.next + h.n \in Nat /\ q < h.next + h.n
        /\ h.n <= Len(input)
    BY <1>0, <2>4, <2>6, SMT
  <2>9. x.value \in Bytes /\ Len(x.value) = h.n /\ At(h.next, x.value)
    <3>1. /\ SubSeq(input, h.next + 1, h.next + h.n) \in Bytes
          /\ Len(SubSeq(input, h.next + 1, h.next + h.n)) = h.n
          /\ At(h.next, SubSeq(input, h.next + 1, h.next + h.n))
      BY <1>0, <2>6, <2>8, AtSub, Zenon
    <3> QED
      BY <2>7, <3>1, Zenon
  <2>10. ASSUME h.n < Huge
         PROVE  /\ At(q, EncodeItem(item, x.value))
                /\ x.next = q + Len(EncodeItem(item, x.value))
    <3>1. EncodeItem(item, x.value) = Major(2, h.n) \o x.value
      BY <1>1, <2>9, Zenon DEF EncodeItem
    <3>2. Major(2, h.n) \in Bytes /\ Len(Major(2, h.n)) \in Nat
      BY <2>6, MajorTypes, Zenon
    <3>3. /\ At(q, Major(2, h.n) \o x.value)
          /\ Len(Major(2, h.n) \o x.value) = Len(Major(2, h.n)) + h.n
      <4>1. /\ Len(Major(2, h.n) \o x.value) = Len(Major(2, h.n)) + Len(x.value)
            /\ At(q, Major(2, h.n) \o x.value)
                <=> At(q, Major(2, h.n)) /\ At(q + Len(Major(2, h.n)), x.value)
        BY <2>9, <3>2, AtConcat
      <4> QED
        BY <2>6, <2>9, <2>10, <4>1, Zenon
    <3>4. h.next + h.n = q + (Len(Major(2, h.n)) + h.n)
      BY <2>6, <2>10, <3>2, SMT
    <3> QED
      BY <2>7, <3>1, <3>3, <3>4, Zenon
  <2> QED
    BY <1>1, <2>7, <2>8, <2>9, <2>10, Zenon DEF Typed, Fits
<1>2. CASE ~IsBytes(item)
  <2>1. x = UintAt(q)
    BY <1>2, Zenon DEF ItemAt
  <2>2. h.error = "none"
    <3>1. SUFFICES ASSUME h.error # "none" PROVE FALSE
      BY Zenon
    <3>2. x = h
      BY <2>1, <3>1, Zenon DEF UintAt
    <3> QED
      BY <3>1, <3>2, Zenon
  <2>3. h.major = 0
    <3>1. SUFFICES ASSUME h.major # 0 PROVE FALSE
      BY Zenon
    <3>2. x = Failed("Malformed")
      BY <2>1, <2>2, <3>1, Zenon DEF UintAt
    <3> QED
      BY <1>0, <3>2, Zenon
  <2>4. x = [error |-> "none", value |-> h.n, next |-> h.next]
    BY <2>1, <2>2, <2>3, Zenon DEF UintAt
  <2>5. /\ h.n \in Nat /\ h.next \in Nat /\ q < h.next /\ h.next <= Len(input)
        /\ h.n < Huge => At(q, Major(0, h.n)) /\ h.next = q + Len(Major(0, h.n))
    BY <2>2, <2>3, HeadCanonical, Zenon
  <2> HIDE DEF h
  <2>6. x.value = h.n /\ x.next = h.next
    BY <2>4
  <2>7. EncodeItem(item, x.value) = Major(0, h.n)
    BY <1>2, <2>6, Zenon DEF EncodeItem
  <2> QED
    BY <1>2, <2>5, <2>6, <2>7, Zenon DEF Typed, Fits
<1> QED
  BY <1>1, <1>2, Zenon

Schemas == {"frame", "envelope"}
Size(s) == Len(Items[s])

\* The items of TransportFrame and ApplicationEnvelope in wire order.
LEMMA ItemLists ==
    /\ Size("frame") = 6 /\ Size("envelope") = 5
    /\ Items["frame"][1] = "tag" /\ Items["frame"][2] = "version" /\ Items["frame"][3] = "kind"
    /\ Items["frame"][4] = "client_message_id" /\ Items["frame"][5] = "ttl"
    /\ Items["frame"][6] = "body"
    /\ Items["envelope"][1] = "tag" /\ Items["envelope"][2] = "kind"
    /\ Items["envelope"][3] = "event_id" /\ Items["envelope"][4] = "conversation_id"
    /\ Items["envelope"][5] = "content"
    /\ DOMAIN Items["frame"] = 1 .. 6 /\ DOMAIN Items["envelope"] = 1 .. 5
  BY DEF Items, Size

\* The array's head and the encodings of its first k items.
Part(s, v, i) == EncodeItem(Items[s][i], v[i])
Prefix(s, v, k) ==
    CASE k = 0 -> Major(4, Len(Items[s]))
      [] k = 1 -> Major(4, Len(Items[s])) \o Part(s, v, 1)
      [] k = 2 -> Major(4, Len(Items[s])) \o Part(s, v, 1) \o Part(s, v, 2)
      [] k = 3 -> Major(4, Len(Items[s])) \o Part(s, v, 1) \o Part(s, v, 2) \o Part(s, v, 3)
      [] k = 4 -> Major(4, Len(Items[s])) \o Part(s, v, 1) \o Part(s, v, 2) \o Part(s, v, 3)
                      \o Part(s, v, 4)
      [] k = 5 -> Major(4, Len(Items[s])) \o Part(s, v, 1) \o Part(s, v, 2) \o Part(s, v, 3)
                      \o Part(s, v, 4) \o Part(s, v, 5)
      [] k = 6 -> Major(4, Len(Items[s])) \o Part(s, v, 1) \o Part(s, v, 2) \o Part(s, v, 3)
                      \o Part(s, v, 4) \o Part(s, v, 5) \o Part(s, v, 6)

\* The numbers of items differ.
LEMMA Digits ==
    /\ 0 # 1 /\ 0 # 2 /\ 0 # 3 /\ 0 # 4 /\ 0 # 5 /\ 0 # 6
    /\ 1 # 2 /\ 1 # 3 /\ 1 # 4 /\ 1 # 5 /\ 1 # 6
    /\ 2 # 3 /\ 2 # 4 /\ 2 # 5 /\ 2 # 6
    /\ 3 # 4 /\ 3 # 5 /\ 3 # 6 /\ 4 # 5 /\ 4 # 6 /\ 5 # 6
  BY SMT

\* The array's head comes first.
LEMMA PrefixNone ==
    ASSUME NEW s, NEW v
    PROVE  Prefix(s, v, 0) = Major(4, Size(s))
  BY Digits, Zenon DEF Prefix, Size

\* One more item is appended to what is encoded.
LEMMA PrefixStep ==
    ASSUME NEW s \in Schemas, NEW v, NEW k \in Nat, k < Size(s)
    PROVE  Prefix(s, v, k + 1) = Prefix(s, v, k) \o Part(s, v, k + 1)
<1>0. k = 0 \/ k = 1 \/ k = 2 \/ k = 3 \/ k = 4 \/ k = 5
  BY ItemLists, SMT DEF Schemas
<1>1. CASE k = 0
  <2>1. k + 1 = 1
    BY <1>1, SMT
  <2>2. Prefix(s, v, 1) = Prefix(s, v, 0) \o Part(s, v, 1)
    BY Digits, Zenon DEF Prefix
  <2> QED
    BY <1>1, <2>1, <2>2, Zenon
<1>2. CASE k = 1
  <2>1. k + 1 = 2
    BY <1>2, SMT
  <2>2. Prefix(s, v, 2) = Prefix(s, v, 1) \o Part(s, v, 2)
    BY Digits, Zenon DEF Prefix
  <2> QED
    BY <1>2, <2>1, <2>2, Zenon
<1>3. CASE k = 2
  <2>1. k + 1 = 3
    BY <1>3, SMT
  <2>2. Prefix(s, v, 3) = Prefix(s, v, 2) \o Part(s, v, 3)
    BY Digits, Zenon DEF Prefix
  <2> QED
    BY <1>3, <2>1, <2>2, Zenon
<1>4. CASE k = 3
  <2>1. k + 1 = 4
    BY <1>4, SMT
  <2>2. Prefix(s, v, 4) = Prefix(s, v, 3) \o Part(s, v, 4)
    BY Digits, Zenon DEF Prefix
  <2> QED
    BY <1>4, <2>1, <2>2, Zenon
<1>5. CASE k = 4
  <2>1. k + 1 = 5
    BY <1>5, SMT
  <2>2. Prefix(s, v, 5) = Prefix(s, v, 4) \o Part(s, v, 5)
    BY Digits, Zenon DEF Prefix
  <2> QED
    BY <1>5, <2>1, <2>2, Zenon
<1>6. CASE k = 5
  <2>1. k + 1 = 6
    BY <1>6, SMT
  <2>2. Prefix(s, v, 6) = Prefix(s, v, 5) \o Part(s, v, 6)
    BY Digits, Zenon DEF Prefix
  <2> QED
    BY <1>6, <2>1, <2>2, Zenon
<1> QED
  BY <1>0, <1>1, <1>2, <1>3, <1>4, <1>5, <1>6, Zenon

\* With all its items the array is what encode writes.
LEMMA PrefixAll ==
    ASSUME NEW s \in Schemas, NEW v
    PROVE  Prefix(s, v, Size(s)) = EncodeArray(s, v)
<1>1. "envelope" # "frame"
  BY SMT
<1>2. CASE s = "frame"
  <2>1. Size(s) = 6
    BY <1>2, ItemLists, Zenon
  <2> QED
    BY <1>2, <2>1, Digits, Zenon DEF EncodeArray, Prefix, Part
<1>3. CASE s = "envelope"
  <2>1. Size(s) = 5
    BY <1>3, ItemLists, Zenon
  <2> QED
    BY <1>1, <1>3, <2>1, Digits, Zenon DEF EncodeArray, Prefix, Part
<1> QED
  BY <1>2, <1>3, Zenon DEF Schemas

\* What is encoded depends on the items encoded only.
LEMMA PrefixAgrees ==
    ASSUME NEW s \in Schemas, NEW v, NEW w, NEW k \in Nat, k <= Size(s),
           \A i \in 1 .. k : v[i] = w[i]
    PROVE  Prefix(s, v, k) = Prefix(s, w, k)
<1>0. k = 0 \/ k = 1 \/ k = 2 \/ k = 3 \/ k = 4 \/ k = 5 \/ k = 6
  BY ItemLists, SMT DEF Schemas
<1>p. \A i \in 1 .. k : Part(s, v, i) = Part(s, w, i)
  BY Zenon DEF Part
<1>1. CASE k = 0
  BY <1>1, PrefixNone, Zenon
<1>2. CASE k = 1
  <2>1. 1 \in 1 .. k
    BY <1>2, SMT
  <2>2. /\ Part(s, v, 1) = Part(s, w, 1)
    BY <1>p, <2>1, Zenon
  <2> QED
    BY <1>2, <2>2, Digits, Zenon DEF Prefix
<1>3. CASE k = 2
  <2>1. 1 \in 1 .. k /\ 2 \in 1 .. k
    BY <1>3, SMT
  <2>2. /\ Part(s, v, 1) = Part(s, w, 1)
        /\ Part(s, v, 2) = Part(s, w, 2)
    BY <1>p, <2>1, Zenon
  <2> QED
    BY <1>3, <2>2, Digits, Zenon DEF Prefix
<1>4. CASE k = 3
  <2>1. 1 \in 1 .. k /\ 2 \in 1 .. k /\ 3 \in 1 .. k
    BY <1>4, SMT
  <2>2. /\ Part(s, v, 1) = Part(s, w, 1)
        /\ Part(s, v, 2) = Part(s, w, 2)
        /\ Part(s, v, 3) = Part(s, w, 3)
    BY <1>p, <2>1, Zenon
  <2> QED
    BY <1>4, <2>2, Digits, Zenon DEF Prefix
<1>5. CASE k = 4
  <2>1. 1 \in 1 .. k /\ 2 \in 1 .. k /\ 3 \in 1 .. k /\ 4 \in 1 .. k
    BY <1>5, SMT
  <2>2. /\ Part(s, v, 1) = Part(s, w, 1)
        /\ Part(s, v, 2) = Part(s, w, 2)
        /\ Part(s, v, 3) = Part(s, w, 3)
        /\ Part(s, v, 4) = Part(s, w, 4)
    BY <1>p, <2>1, Zenon
  <2> QED
    BY <1>5, <2>2, Digits, Zenon DEF Prefix
<1>6. CASE k = 5
  <2>1. 1 \in 1 .. k /\ 2 \in 1 .. k /\ 3 \in 1 .. k /\ 4 \in 1 .. k /\ 5 \in 1 .. k
    BY <1>6, SMT
  <2>2. /\ Part(s, v, 1) = Part(s, w, 1)
        /\ Part(s, v, 2) = Part(s, w, 2)
        /\ Part(s, v, 3) = Part(s, w, 3)
        /\ Part(s, v, 4) = Part(s, w, 4)
        /\ Part(s, v, 5) = Part(s, w, 5)
    BY <1>p, <2>1, Zenon
  <2> QED
    BY <1>6, <2>2, Digits, Zenon DEF Prefix
<1>7. CASE k = 6
  <2>1. 1 \in 1 .. k /\ 2 \in 1 .. k /\ 3 \in 1 .. k /\ 4 \in 1 .. k /\ 5 \in 1 .. k /\ 6 \in 1 .. k
    BY <1>7, SMT
  <2>2. /\ Part(s, v, 1) = Part(s, w, 1)
        /\ Part(s, v, 2) = Part(s, w, 2)
        /\ Part(s, v, 3) = Part(s, w, 3)
        /\ Part(s, v, 4) = Part(s, w, 4)
        /\ Part(s, v, 5) = Part(s, w, 5)
        /\ Part(s, v, 6) = Part(s, w, 6)
    BY <1>p, <2>1, Zenon
  <2> QED
    BY <1>7, <2>2, Digits, Zenon DEF Prefix
<1> QED
  BY <1>0, <1>1, <1>2, <1>3, <1>4, <1>5, <1>6, <1>7, Zenon

\* The encoder writes bytes.
LEMMA PrefixGrows ==
    ASSUME NEW s \in Schemas, NEW v, NEW k \in Nat, k < Size(s),
           Typed(Items[s][k + 1], v[k + 1]),
           Prefix(s, v, k) \in Bytes, Len(Prefix(s, v, k)) > 0
    PROVE  /\ Part(s, v, k + 1) \in Bytes
           /\ Prefix(s, v, k + 1) \in Bytes
           /\ Len(Prefix(s, v, k + 1)) = Len(Prefix(s, v, k)) + Len(Part(s, v, k + 1))
           /\ Len(Prefix(s, v, k + 1)) > 0
<1>1. Prefix(s, v, k + 1) = Prefix(s, v, k) \o Part(s, v, k + 1)
  BY PrefixStep
<1>2. Part(s, v, k + 1) \in Bytes /\ Len(Part(s, v, k + 1)) \in Nat
  BY ItemIsBytes, Zenon DEF Part
<1>3. Prefix(s, v, k) \o Part(s, v, k + 1) \in Bytes
  BY <1>2, SMT DEF Bytes
<1>4. /\ Len(Prefix(s, v, k)) \in Nat
      /\ Len(Prefix(s, v, k) \o Part(s, v, k + 1)) = Len(Prefix(s, v, k)) + Len(Part(s, v, k + 1))
  BY <1>2, SMT DEF Bytes
<1>5. Len(Prefix(s, v, k)) + Len(Part(s, v, k + 1)) > 0
  BY <1>2, <1>4, SMT
<1> QED
  BY <1>1, <1>2, <1>3, <1>4, <1>5, Zenon

\* So every part of an encoded array is bytes.
LEMMA PrefixIsBytes ==
    ASSUME NEW s \in Schemas, NEW v, \A i \in 1 .. Size(s) : Typed(Items[s][i], v[i])
    PROVE  \A k \in 0 .. Size(s) : Prefix(s, v, k) \in Bytes /\ Len(Prefix(s, v, k)) > 0
<1> DEFINE C(k) == Prefix(s, v, k) \in Bytes /\ Len(Prefix(s, v, k)) > 0
<1>0. Size(s) = 5 \/ Size(s) = 6
  BY ItemLists, Zenon DEF Schemas
<1>n. Size(s) \in Nat
  BY <1>0, SMT
<1>1. C(0)
  BY <1>n, PrefixNone, MajorTypes, Zenon
<1>s. ASSUME NEW k \in Nat, k < Size(s), C(k) PROVE C(k + 1)
  <2>1. k + 1 \in 1 .. Size(s)
    BY <1>n, <1>s, SMT
  <2> QED
    BY <1>s, <2>1, PrefixGrows, Zenon
<1> HIDE DEF C
<1>2. C(1)
  <2>1. 0 \in Nat /\ 0 < Size(s) /\ 0 + 1 = 1
    BY <1>0, SMT
  <2>2. C(0 + 1)
    BY <1>s, <1>1, <2>1, Zenon
  <2> QED
    BY <2>1, <2>2, Zenon
<1>3. C(2)
  <2>1. 1 \in Nat /\ 1 < Size(s) /\ 1 + 1 = 2
    BY <1>0, SMT
  <2>2. C(1 + 1)
    BY <1>s, <1>2, <2>1, Zenon
  <2> QED
    BY <2>1, <2>2, Zenon
<1>4. C(3)
  <2>1. 2 \in Nat /\ 2 < Size(s) /\ 2 + 1 = 3
    BY <1>0, SMT
  <2>2. C(2 + 1)
    BY <1>s, <1>3, <2>1, Zenon
  <2> QED
    BY <2>1, <2>2, Zenon
<1>5. C(4)
  <2>1. 3 \in Nat /\ 3 < Size(s) /\ 3 + 1 = 4
    BY <1>0, SMT
  <2>2. C(3 + 1)
    BY <1>s, <1>4, <2>1, Zenon
  <2> QED
    BY <2>1, <2>2, Zenon
<1>6. C(5)
  <2>1. 4 \in Nat /\ 4 < Size(s) /\ 4 + 1 = 5
    BY <1>0, SMT
  <2>2. C(4 + 1)
    BY <1>s, <1>5, <2>1, Zenon
  <2> QED
    BY <2>1, <2>2, Zenon
<1>7. Size(s) = 6 => C(6)
  <2>1. SUFFICES ASSUME Size(s) = 6 PROVE C(6)
    BY Zenon
  <2>2. 5 \in Nat /\ 5 < Size(s) /\ 5 + 1 = 6
    BY <2>1, SMT
  <2>3. C(5 + 1)
    BY <1>s, <1>6, <2>2, Zenon
  <2> QED
    BY <2>2, <2>3, Zenon
<1>8. ASSUME NEW k \in 0 .. Size(s) PROVE C(k)
  <2>1. k = 0 \/ k = 1 \/ k = 2 \/ k = 3 \/ k = 4 \/ k = 5 \/ (k = 6 /\ Size(s) = 6)
    BY <1>0, SMT
  <2> QED
    BY <1>1, <1>2, <1>3, <1>4, <1>5, <1>6, <1>7, <2>1, Zenon
<1> QED
  BY <1>8, Zenon DEF C

\* An encoded array stands in the input item by item.
LEMMA PrefixShrinks ==
    ASSUME input \in Bytes, NEW s \in Schemas, NEW v, NEW k \in Nat, k < Size(s),
           Prefix(s, v, k) \in Bytes, Part(s, v, k + 1) \in Bytes
    PROVE  At(0, Prefix(s, v, k + 1)) <=>
                At(0, Prefix(s, v, k)) /\ At(Len(Prefix(s, v, k)), Part(s, v, k + 1))
<1>1. 0 \in Nat /\ 0 + Len(Prefix(s, v, k)) = Len(Prefix(s, v, k))
  BY SMT DEF Bytes
<1>2. At(0, Prefix(s, v, k) \o Part(s, v, k + 1)) <=>
                At(0, Prefix(s, v, k)) /\ At(0 + Len(Prefix(s, v, k)), Part(s, v, k + 1))
  BY <1>1, AtConcat
<1>3. Prefix(s, v, k + 1) = Prefix(s, v, k) \o Part(s, v, k + 1)
  BY PrefixStep
<1> QED
  BY <1>1, <1>2, <1>3, Zenon

\* So every part of an encoded array stands at the front of the input.
LEMMA PrefixesStand ==
    ASSUME input \in Bytes, NEW s \in Schemas, NEW v,
           \A i \in 1 .. Size(s) : Typed(Items[s][i], v[i]), At(0, EncodeArray(s, v))
    PROVE  \A k \in 0 .. Size(s) : At(0, Prefix(s, v, k))
<1> DEFINE C(k) == At(0, Prefix(s, v, k))
<1>0. Size(s) = 5 \/ Size(s) = 6
  BY ItemLists, Zenon DEF Schemas
<1>n. Size(s) \in Nat
  BY <1>0, SMT
<1>a. C(Size(s))
  BY PrefixAll, Zenon
<1>b. \A k \in 0 .. Size(s) : Prefix(s, v, k) \in Bytes /\ Len(Prefix(s, v, k)) > 0
  BY PrefixIsBytes, Zenon
<1>s. ASSUME NEW k \in Nat, k < Size(s), C(k + 1) PROVE C(k)
  <2>1. k + 1 \in 1 .. Size(s) /\ k \in 0 .. Size(s)
    BY <1>n, <1>s, SMT
  <2>2. Prefix(s, v, k) \in Bytes /\ Part(s, v, k + 1) \in Bytes
    BY <1>b, <1>s, <2>1, PrefixGrows, Zenon
  <2> QED
    BY <1>s, <2>2, PrefixShrinks, Zenon
<1> HIDE DEF C
<1>6. C(5)
  <2>1. CASE Size(s) = 5
    BY <1>a, <2>1, Zenon
  <2>2. CASE Size(s) = 6
    <3>1. 5 \in Nat /\ 5 < Size(s) /\ 5 + 1 = Size(s)
      BY <2>2, SMT
    <3>2. C(5 + 1)
      BY <1>a, <3>1, Zenon
    <3> QED
      BY <1>s, <3>1, <3>2, Zenon
  <2> QED
    BY <1>0, <2>1, <2>2, Zenon
<1>5. C(4)
  <2>1. 4 \in Nat /\ 4 < Size(s) /\ 4 + 1 = 5
    BY <1>0, SMT
  <2>2. C(4 + 1)
    BY <1>6, <2>1, Zenon
  <2> QED
    BY <1>s, <2>1, <2>2, Zenon
<1>4. C(3)
  <2>1. 3 \in Nat /\ 3 < Size(s) /\ 3 + 1 = 4
    BY <1>0, SMT
  <2>2. C(3 + 1)
    BY <1>5, <2>1, Zenon
  <2> QED
    BY <1>s, <2>1, <2>2, Zenon
<1>3. C(2)
  <2>1. 2 \in Nat /\ 2 < Size(s) /\ 2 + 1 = 3
    BY <1>0, SMT
  <2>2. C(2 + 1)
    BY <1>4, <2>1, Zenon
  <2> QED
    BY <1>s, <2>1, <2>2, Zenon
<1>2. C(1)
  <2>1. 1 \in Nat /\ 1 < Size(s) /\ 1 + 1 = 2
    BY <1>0, SMT
  <2>2. C(1 + 1)
    BY <1>3, <2>1, Zenon
  <2> QED
    BY <1>s, <2>1, <2>2, Zenon
<1>1. C(0)
  <2>1. 0 \in Nat /\ 0 < Size(s) /\ 0 + 1 = 1
    BY <1>0, SMT
  <2>2. C(0 + 1)
    BY <1>2, <2>1, Zenon
  <2> QED
    BY <1>s, <2>1, <2>2, Zenon
<1>8. ASSUME NEW k \in 0 .. Size(s) PROVE C(k)
  <2>1. k = 0 \/ k = 1 \/ k = 2 \/ k = 3 \/ k = 4 \/ k = 5 \/ k = Size(s)
    BY <1>0, SMT
  <2> QED
    BY <1>1, <1>2, <1>3, <1>4, <1>5, <1>6, <1>a, <2>1, Zenon
<1> QED
  BY <1>8, Zenon DEF C

\* What decode lets pass.
LEMMA Judgements ==
    ASSUME NEW v
    PROVE  /\ Judged("tag", v) = "none" <=> v = Tag[schema]
           /\ Judged("version", v) = "none" <=> v = Version
           /\ Judged("kind", v) = "none" <=> v \in Kinds[schema]
           /\ Judged("client_message_id", v) = "none" <=> Len(v) = IdSize
           /\ Judged("event_id", v) = "none" <=> Len(v) = IdSize
           /\ Judged("conversation_id", v) = "none" <=> Len(v) = IdSize
           /\ Judged("ttl", v) = "none" <=> ~(v > MaxTtl)
           /\ Judged("content", v) = "none" <=> ~(Len(v) > MaxContent)
           /\ Judged("body", v) = "none"
<1>1. Judged("tag", v) = "none" <=> v = Tag[schema]
  BY Zenon DEF Judged, IsId
<1>2. Judged("version", v) = "none" <=> v = Version
  BY Zenon DEF Judged, IsId
<1>3. Judged("kind", v) = "none" <=> v \in Kinds[schema]
  BY Zenon DEF Judged, IsId
<1>4. /\ Judged("client_message_id", v) = "none" <=> Len(v) = IdSize
      /\ Judged("event_id", v) = "none" <=> Len(v) = IdSize
      /\ Judged("conversation_id", v) = "none" <=> Len(v) = IdSize
  BY Zenon DEF Judged, IsId
<1>5. Judged("ttl", v) = "none" <=> ~(v > MaxTtl)
  BY Zenon DEF Judged, IsId
<1>6. Judged("content", v) = "none" <=> ~(Len(v) > MaxContent)
  BY Zenon DEF Judged, IsId
<1>7. Judged("body", v) = "none"
  BY Zenon DEF Judged, IsId
<1> QED
  BY <1>1, <1>2, <1>3, <1>4, <1>5, <1>6, <1>7, Zenon

\* Only a frame has a body and a version, its second item.
LEMMA ItemNames ==
    ASSUME NEW s \in Schemas, NEW i \in 1 .. Size(s)
    PROVE  /\ Items[s][i] \in {"tag", "version", "kind", "client_message_id", "event_id",
                               "conversation_id", "ttl", "body", "content"}
           /\ Items[s][i] = "body" => s = "frame"
           /\ Items[s][i] = "version" => s = "frame" /\ i = 2
<1>1. CASE s = "frame"
  <2>1. i = 1 \/ i = 2 \/ i = 3 \/ i = 4 \/ i = 5 \/ i = 6
    BY <1>1, ItemLists, SMT
  <2> QED
    BY <1>1, <2>1, ItemLists, Zenon
<1>2. CASE s = "envelope"
  <2>1. i = 1 \/ i = 2 \/ i = 3 \/ i = 4 \/ i = 5
    BY <1>2, ItemLists, SMT
  <2> QED
    BY <1>2, <2>1, ItemLists, Zenon
<1> QED
  BY <1>1, <1>2, Zenon DEF Schemas

\* The items that are byte strings and those that are integers.
LEMMA BytesItems ==
    /\ IsBytes("client_message_id") /\ IsBytes("event_id") /\ IsBytes("conversation_id")
    /\ IsBytes("body") /\ IsBytes("content")
    /\ ~IsBytes("tag") /\ ~IsBytes("version") /\ ~IsBytes("kind") /\ ~IsBytes("ttl")
  BY Zenon DEF IsBytes, IsId

\* The size limits are numbers below Huge.
LEMMA Limits ==
    /\ Huge \in Nat
    /\ MaxFrameSize \in Nat /\ MaxFrameSize < Huge /\ MaxTtl \in Nat /\ MaxTtl < Huge
    /\ MaxContent \in Nat /\ MaxContent < Huge /\ IdSize \in Nat /\ IdSize < Huge
<1>1. Huge \in Nat
  BY SMT DEF Huge
<1> QED
  BY <1>1, LimitsAssumption, SMT

\* The limits keep every argument below Huge.
LEMMA JudgedFits ==
    ASSUME schema \in Schemas, Len(input) \in Nat, ~Oversized,
           NEW i \in 1 .. Size(schema), NEW v, Typed(Items[schema][i], v),
           IsBytes(Items[schema][i]) => Len(v) <= Len(input),
           Judged(Items[schema][i], v) = "none"
    PROVE  Fits(Items[schema][i], v)
<1> DEFINE item == Items[schema][i]
<1>0. /\ MaxFrameSize \in Nat /\ MaxFrameSize < Huge /\ MaxTtl \in Nat /\ MaxTtl < Huge
      /\ MaxContent \in Nat /\ MaxContent < Huge /\ IdSize \in Nat /\ IdSize < Huge
  BY Limits
<1>1. /\ item \in {"tag", "version", "kind", "client_message_id", "event_id",
                   "conversation_id", "ttl", "body", "content"}
      /\ item = "body" => schema = "frame"
  BY ItemNames, Zenon
<1>2. /\ item = "tag" => v < Huge
      /\ item = "version" => v < Huge
      /\ item = "kind" => v < Huge
  <2>1. Tag[schema] \in Nat /\ Tag[schema] < Huge
    BY SMT DEF Tag, Schemas, Huge
  <2>2. Version \in Nat /\ Version < Huge
    BY SMT DEF Version, Huge
  <2>3. \A x \in Kinds[schema] : x < Huge
    BY SMT DEF Kinds, Schemas, Huge
  <2> QED
    BY <2>1, <2>2, <2>3, Judgements, Zenon
<1>3. item = "ttl" => v < Huge
  <2>1. SUFFICES ASSUME item = "ttl" PROVE v < Huge
    BY Zenon
  <2>2. v \in Nat /\ ~(v > MaxTtl)
    BY <2>1, BytesItems, Judgements, Zenon DEF Typed
  <2>3. Huge \in Nat
    BY SMT DEF Huge
  <2> QED
    BY <1>0, <2>2, <2>3, SMT
<1>4. item \in {"client_message_id", "event_id", "conversation_id"} => Len(v) < Huge
  BY <1>0, Judgements, Zenon
<1>5. item = "content" => Len(v) < Huge
  <2>1. SUFFICES ASSUME item = "content" PROVE Len(v) < Huge
    BY Zenon
  <2>2. v \in Bytes /\ ~(Len(v) > MaxContent)
    BY <2>1, BytesItems, Judgements, Zenon DEF Typed
  <2>3. Huge \in Nat /\ Len(v) \in Nat
    BY <2>2, SMT DEF Huge, Bytes
  <2> QED
    BY <1>0, <2>2, <2>3, SMT
<1>6. item = "body" => Len(v) < Huge
  <2>1. SUFFICES ASSUME item = "body" PROVE Len(v) < Huge
    BY Zenon
  <2>2. v \in Bytes /\ Len(v) <= Len(input) /\ ~(Len(input) > MaxFrameSize)
    BY <1>1, <2>1, BytesItems, Zenon DEF Typed, Oversized
  <2>3. Huge \in Nat /\ Len(v) \in Nat
    BY <2>2, SMT DEF Huge, Bytes
  <2> QED
    BY <1>0, <2>2, <2>3, SMT
<1> QED
  BY <1>1, <1>2, <1>3, <1>4, <1>5, <1>6, BytesItems, Zenon DEF Fits

\* What the structs' types admit, item by item.
LEMMA Admissions ==
    ASSUME NEW s
    PROVE  /\ Admitted(s, "tag") = {Tag[s]}
           /\ Admitted(s, "version") = Word
           /\ Admitted(s, "kind") = Kinds[s]
           /\ Admitted(s, "ttl") = Nat
           /\ Admitted(s, "client_message_id") = [1 .. IdSize -> Byte]
           /\ Admitted(s, "event_id") = [1 .. IdSize -> Byte]
           /\ Admitted(s, "conversation_id") = [1 .. IdSize -> Byte]
           /\ Admitted(s, "body") = Bytes
           /\ Admitted(s, "content") = Bytes
<1>1. Admitted(s, "tag") = {Tag[s]}
  BY Zenon DEF Admitted, IsId
<1>2. Admitted(s, "version") = Word
  BY Zenon DEF Admitted, IsId
<1>3. Admitted(s, "kind") = Kinds[s]
  BY Zenon DEF Admitted, IsId
<1>4. Admitted(s, "ttl") = Nat
  BY Zenon DEF Admitted, IsId
<1>5. Admitted(s, "client_message_id") = [1 .. IdSize -> Byte]
  BY Zenon DEF Admitted, IsId
<1>6. Admitted(s, "event_id") = [1 .. IdSize -> Byte]
  BY Zenon DEF Admitted, IsId
<1>7. Admitted(s, "conversation_id") = [1 .. IdSize -> Byte]
  BY Zenon DEF Admitted, IsId
<1>8. Admitted(s, "body") = Bytes
  BY Zenon DEF Admitted, IsId, Bytes
<1>9. Admitted(s, "content") = Bytes
  BY Zenon DEF Admitted, IsId, Bytes
<1> QED
  BY <1>1, <1>2, <1>3, <1>4, <1>5, <1>6, <1>7, <1>8, <1>9, Zenon

\* Every value that the structs' types admit and encode does not refuse passes.
LEMMA AdmittedPasses ==
    ASSUME schema \in Schemas, NEW i \in 1 .. Size(schema), NEW v,
           v[i] \in Admitted(schema, Items[schema][i]), ~OutOfRange(schema, v),
           schema = "frame" => v[2] = Version
    PROVE  Judged(Items[schema][i], v[i]) = "none"
<1> DEFINE item == Items[schema][i]
<1>1. /\ item \in {"tag", "version", "kind", "client_message_id", "event_id",
                   "conversation_id", "ttl", "body", "content"}
      /\ item = "version" => schema = "frame" /\ i = 2
  BY ItemNames, Zenon
<1>2. i \in DOMAIN Items[schema]
  BY ItemLists, Zenon DEF Schemas
<1>3. /\ item = "tag" => v[i] = Tag[schema]
      /\ item = "kind" => v[i] \in Kinds[schema]
  BY Admissions, Zenon
<1>4. item \in {"client_message_id", "event_id", "conversation_id"} => Len(v[i]) = IdSize
  <2>1. SUFFICES ASSUME item \in {"client_message_id", "event_id", "conversation_id"}
                 PROVE  Len(v[i]) = IdSize
    BY Zenon
  <2>2. v[i] \in [1 .. IdSize -> Byte]
    BY <2>1, Admissions, Zenon
  <2>3. IdSize \in Nat
    BY Limits
  <2> QED
    BY <2>2, <2>3, SMT
<1>5. item = "ttl" => ~(v[i] > MaxTtl)
  BY <1>2, Zenon DEF OutOfRange
<1>6. item = "content" => ~(Len(v[i]) > MaxContent)
  BY <1>2, Zenon DEF OutOfRange
<1> QED
  BY <1>1, <1>3, <1>4, <1>5, <1>6, Judgements, Zenon

\* Every value that the structs' types admit is an integer or bytes, as its item is.
LEMMA AdmittedTypes ==
    ASSUME NEW s \in Schemas, NEW i \in 1 .. Size(s), NEW v, v \in Admitted(s, Items[s][i])
    PROVE  Typed(Items[s][i], v)
<1> DEFINE item == Items[s][i]
<1>1. item \in {"tag", "version", "kind", "client_message_id", "event_id",
                "conversation_id", "ttl", "body", "content"}
  BY ItemNames, Zenon
<1>2. item \in {"tag", "version", "kind", "ttl"} => v \in Nat
  <2>1. item = "tag" => v = Tag[s]
    BY Admissions, Zenon
  <2>2. item = "kind" => v \in Kinds[s]
    BY Admissions, Zenon
  <2>3. item = "ttl" => v \in Nat
    BY Admissions, Zenon
  <2>4. item = "version" => v \in Word
    BY Admissions, Zenon
  <2>6. \A x \in Word : x \in Nat
    BY SMT DEF Word
  <2>5. Tag[s] \in Nat /\ Kinds[s] \subseteq Nat
    BY SMT DEF Tag, Kinds, Schemas
  <2> QED
    BY <2>1, <2>2, <2>3, <2>4, <2>5, <2>6, Zenon
<1>3. item \in {"client_message_id", "event_id", "conversation_id"} => v \in Bytes
  <2>1. SUFFICES ASSUME item \in {"client_message_id", "event_id", "conversation_id"}
                 PROVE  v \in Bytes
    BY Zenon
  <2>2. v \in [1 .. IdSize -> Byte]
    BY <2>1, Admissions, Zenon
  <2>3. IdSize \in Nat
    BY Limits
  <2> QED
    BY <2>2, <2>3, SMT DEF Bytes
<1>4. item \in {"body", "content"} => v \in Bytes
  BY Admissions, Zenon
<1> QED
  BY <1>1, <1>2, <1>3, <1>4, BytesItems, Zenon DEF Typed

-----------------------------------------------------------------------------
(* The decoder.                                                            *)

Val == Nat \cup Bytes

CodecType ==
    /\ schema \in Schemas
    /\ input \in Bytes
    /\ p \in Nat
    /\ fields \in Seq(Val)
    /\ Len(fields) <= Size(schema)

\* What is consumed is what encode makes of the items decoded so far.
Consumed ==
    /\ p = 0 => fields = <<>>
    /\ p > 0 => /\ ~Oversized
                /\ Prefix(schema, fields, Len(fields)) \in Bytes
                /\ Len(Prefix(schema, fields, Len(fields))) = p
                /\ At(0, Prefix(schema, fields, Len(fields)))

Passed == \A i \in 1 .. Len(fields) : Judged(Items[schema][i], fields[i]) = "none"

Accepted == outcome = "ok" => p > 0 /\ p = Len(input) /\ Len(fields) = Size(schema)

\* The input was encoded from a value of this version.
Genuine == source # <<>> /\ (schema = "frame" => source[2] = Version)
GenuineInput ==
    Genuine => /\ ~Oversized
               /\ source \in Seq(Val) /\ Len(source) = Size(schema)
               /\ \A i \in 1 .. Size(schema) :
                    /\ Typed(Items[schema][i], source[i])
                    /\ Judged(Items[schema][i], source[i]) = "none"
               /\ input = EncodeArray(schema, source)

\* Its items are decoded one by one and none is refused.
Following ==
    Genuine => /\ outcome = "decoding" \/ outcome = "ok"
               /\ \A i \in 1 .. Len(fields) : fields[i] = source[i]

CodecInv == CodecType /\ Consumed /\ Passed /\ Accepted /\ GenuineInput /\ Following

\* The number of items of an array is small and not zero.
LEMMA SizeIs ==
    ASSUME NEW s \in Schemas
    PROVE  Size(s) \in Nat /\ Size(s) > 0 /\ Size(s) < Huge
<1>1. Size(s) = 5 \/ Size(s) = 6
  BY ItemLists, Zenon DEF Schemas
<1>2. Huge > 6 /\ Huge \in Nat
  BY SMT DEF Huge
<1> QED
  BY <1>1, <1>2, SMT

\* An item's value is an integer or bytes.
LEMMA TypedVal ==
    ASSUME NEW item, NEW v, Typed(item, v)
    PROVE  v \in Val
  BY Zenon DEF Typed, Val

\* The item that is due, what is found in its place, and the items with it.
Due == Items[schema][Len(fields) + 1]
Found == ItemAt(Due, p)
Longer == Append(fields, Found.value)

\* An accepted item extends what is consumed.
LEMMA NextItem ==
    ASSUME CodecInv, p > 0, Len(fields) < Size(schema),
           Found.error = "none", Judged(Due, Found.value) = "none"
    PROVE  /\ Longer \in Seq(Val) /\ Len(Longer) = Len(fields) + 1
           /\ Len(Longer) <= Size(schema)
           /\ Longer[Len(fields) + 1] = Found.value
           /\ \A i \in 1 .. Len(fields) : Longer[i] = fields[i]
           /\ Found.next \in Nat /\ Found.next > 0
           /\ Prefix(schema, Longer, Len(Longer)) \in Bytes
           /\ Len(Prefix(schema, Longer, Len(Longer))) = Found.next
           /\ At(0, Prefix(schema, Longer, Len(Longer)))
           /\ \A i \in 1 .. Len(Longer) : Judged(Items[schema][i], Longer[i]) = "none"
<1> DEFINE k == Len(fields)
           v == Found.value
           P == Prefix(schema, fields, k)
           R == Part(schema, Longer, k + 1)
           Q == Prefix(schema, Longer, k + 1)
<1>1. /\ schema \in Schemas /\ input \in Bytes /\ p \in Nat /\ fields \in Seq(Val)
      /\ ~Oversized /\ P \in Bytes /\ Len(P) = p /\ At(0, P)
      /\ \A i \in 1 .. k : Judged(Items[schema][i], fields[i]) = "none"
  BY Zenon DEF CodecInv, CodecType, Consumed, Passed
<1>2. k \in Nat /\ Len(input) \in Nat /\ Size(schema) \in Nat
  BY <1>1, SizeIs, SMT DEF Bytes
<1>3. k + 1 \in 1 .. Size(schema) /\ k <= Size(schema) /\ k + 1 <= Size(schema)
  BY <1>2, SMT
<1>4. /\ Typed(Due, v)
      /\ IsBytes(Due) => Len(v) <= Len(input)
      /\ Found.next \in Nat /\ p < Found.next
      /\ Fits(Due, v) => At(p, EncodeItem(Due, v)) /\ Found.next = p + Len(EncodeItem(Due, v))
  BY <1>1, ItemCanonical, Zenon DEF Found
<1>5. Fits(Due, v)
  BY <1>1, <1>2, <1>3, <1>4, JudgedFits, Zenon DEF Due
<1>6. v \in Val
  BY <1>4, TypedVal, Zenon
<1>8. /\ Longer \in Seq(Val) /\ Len(Longer) = k + 1
      /\ Longer[k + 1] = v /\ \A i \in 1 .. k : Longer[i] = fields[i]
  <2> HIDE DEF v
  <2>1. Longer = Append(fields, v)
    BY Zenon DEF Longer, v
  <2> QED
    BY <1>1, <1>6, <2>1, SMT
<1>9. Prefix(schema, Longer, k) = P
  BY <1>1, <1>2, <1>3, <1>8, PrefixAgrees, Zenon
<1>10. R = EncodeItem(Due, v)
  BY <1>8, Zenon DEF Part, Due
<1>11. Typed(Items[schema][k + 1], Longer[k + 1])
  BY <1>4, <1>8, Zenon DEF Due
<1>12. R \in Bytes /\ Q \in Bytes /\ Len(Q) = Len(P) + Len(R)
  <2>1. Prefix(schema, Longer, k) \in Bytes /\ Len(Prefix(schema, Longer, k)) > 0
    BY <1>1, <1>9, Zenon
  <2>2. R \in Bytes /\ Q \in Bytes /\ Len(Q) = Len(Prefix(schema, Longer, k)) + Len(R)
    BY <1>1, <1>2, <1>11, <2>1, PrefixGrows, Zenon
  <2> QED
    BY <1>9, <2>2, Zenon
<1>13. At(0, Q)
  <2>1. Prefix(schema, Longer, k) \in Bytes /\ At(0, Prefix(schema, Longer, k))
    BY <1>1, <1>9, Zenon
  <2>2. At(Len(Prefix(schema, Longer, k)), R)
    BY <1>1, <1>4, <1>5, <1>9, <1>10, Zenon
  <2> QED
    BY <1>1, <1>2, <1>12, <2>1, <2>2, PrefixShrinks, Zenon
<1>14. Len(Q) = Found.next
  BY <1>1, <1>4, <1>5, <1>10, <1>12, Zenon
<1>15. Found.next > 0
  BY <1>1, <1>4, SMT
<1>16. ASSUME NEW i \in 1 .. k + 1 PROVE Judged(Items[schema][i], Longer[i]) = "none"
  <2>1. i \in 1 .. k \/ i = k + 1
    BY <1>2, SMT
  <2> QED
    BY <1>1, <1>8, <2>1, Zenon DEF Due
<1> QED
  BY <1>3, <1>4, <1>8, <1>12, <1>13, <1>14, <1>15, <1>16, Zenon

\* The array's head, the next item and the end of an encoded value are what was encoded.
LEMMA GenuineHead ==
    ASSUME CodecInv, Genuine
    PROVE  /\ ~Oversized
           /\ HeadAt(0).error = "none" /\ HeadAt(0).major = 4 /\ HeadAt(0).n = Size(schema)
<1>1. schema \in Schemas /\ input \in Bytes
  BY Zenon DEF CodecInv, CodecType
<1>2. /\ ~Oversized
      /\ \A i \in 1 .. Size(schema) : Typed(Items[schema][i], source[i])
      /\ input = EncodeArray(schema, source)
  BY Zenon DEF CodecInv, GenuineInput
<1>3. At(0, input)
  BY <1>1, SMT DEF At, Bytes
<1>4. \A k \in 0 .. Size(schema) : At(0, Prefix(schema, source, k))
  BY <1>1, <1>2, <1>3, PrefixesStand, Zenon
<1>5. 0 \in 0 .. Size(schema) /\ 0 \in Nat /\ 4 \in Nat /\ 4 <= 7
  BY <1>1, SizeIs, SMT
<1>6. At(0, Major(4, Size(schema)))
  BY <1>4, <1>5, PrefixNone, Zenon
<1> DEFINE next == 0 + Len(Major(4, Size(schema)))
           n == Size(schema)
<1>7. HeadAt(0) = [error |-> "none", major |-> 4, n |-> n, next |-> next]
  BY <1>1, <1>5, <1>6, SizeIs, HeadReads, Zenon
<1> HIDE DEF next, n
<1>8. HeadAt(0).error = "none" /\ HeadAt(0).major = 4 /\ HeadAt(0).n = n
  BY <1>7
<1> QED
  BY <1>2, <1>8, Zenon DEF n

\* In the input encoded from a value the next item to decode is the value's next item.
LEMMA GenuinePosition ==
    ASSUME CodecInv, Genuine, p > 0
    PROVE  /\ p = Len(Prefix(schema, source, Len(fields)))
           /\ Len(fields) < Size(schema) => At(p, Part(schema, source, Len(fields) + 1))
<1> DEFINE k == Len(fields)
<1>1. /\ schema \in Schemas /\ input \in Bytes /\ fields \in Seq(Val) /\ k <= Size(schema)
      /\ Len(Prefix(schema, fields, k)) = p
      /\ \A i \in 1 .. k : fields[i] = source[i]
      /\ \A i \in 1 .. Size(schema) : Typed(Items[schema][i], source[i])
      /\ input = EncodeArray(schema, source)
  BY Zenon DEF CodecInv, CodecType, Consumed, GenuineInput, Following
<1>2. k \in Nat /\ Size(schema) \in Nat /\ k \in 0 .. Size(schema)
  BY <1>1, SizeIs, SMT
<1>3. Prefix(schema, source, k) = Prefix(schema, fields, k)
  BY <1>1, <1>2, PrefixAgrees, Zenon
<1>4. p = Len(Prefix(schema, source, k))
  BY <1>1, <1>3, Zenon
<1>5. ASSUME k < Size(schema) PROVE At(p, Part(schema, source, k + 1))
  <2>1. At(0, input)
    BY <1>1, SMT DEF At, Bytes
  <2>2. \A i \in 0 .. Size(schema) : At(0, Prefix(schema, source, i))
    BY <1>1, <2>1, PrefixesStand, Zenon
  <2>3. \A i \in 0 .. Size(schema) :
            Prefix(schema, source, i) \in Bytes /\ Len(Prefix(schema, source, i)) > 0
    BY <1>1, PrefixIsBytes, Zenon
  <2>4. k + 1 \in 0 .. Size(schema) /\ k + 1 \in 1 .. Size(schema)
    BY <1>2, <1>5, SMT
  <2>5. Part(schema, source, k + 1) \in Bytes
    BY <1>1, <1>2, <1>5, <2>3, <2>4, PrefixGrows, Zenon
  <2> QED
    BY <1>1, <1>2, <1>4, <1>5, <2>2, <2>3, <2>4, <2>5, PrefixShrinks, Zenon
<1> QED
  BY <1>4, <1>5, Zenon

\* It is decoded to what it was encoded from, and passes.
LEMMA GenuineItem ==
    ASSUME CodecInv, Genuine, p > 0, Len(fields) < Size(schema)
    PROVE  /\ Found.error = "none" /\ Found.value = source[Len(fields) + 1]
           /\ Judged(Due, Found.value) = "none"
<1> DEFINE k == Len(fields)
           v == source[k + 1]
<1>1. /\ schema \in Schemas /\ input \in Bytes /\ p \in Nat /\ fields \in Seq(Val)
      /\ ~Oversized
      /\ \A i \in 1 .. Size(schema) : /\ Typed(Items[schema][i], source[i])
                                      /\ Judged(Items[schema][i], source[i]) = "none"
  BY Zenon DEF CodecInv, CodecType, GenuineInput
<1>2. k \in Nat /\ Size(schema) \in Nat /\ Len(input) \in Nat
  BY <1>1, SizeIs, SMT DEF Bytes
<1>3. k + 1 \in 1 .. Size(schema)
  BY <1>2, SMT
<1>4. Typed(Due, v) /\ Judged(Due, v) = "none"
  BY <1>1, <1>3, Zenon DEF Due
<1> HIDE DEF v
<1>5. At(p, EncodeItem(Due, v))
  BY GenuinePosition, Zenon DEF Part, Due, v
<1>6. ASSUME IsBytes(Due) PROVE Len(v) <= Len(input)
  <2>1. v \in Bytes /\ EncodeItem(Due, v) = Major(2, Len(v)) \o v
    BY <1>4, <1>6, Zenon DEF Typed, EncodeItem
  <2>2. Len(v) \in Nat
    BY <2>1, SMT DEF Bytes
  <2>3. Major(2, Len(v)) \in Bytes /\ Len(Major(2, Len(v))) \in Nat
    BY <2>2, MajorTypes, Zenon
  <2>4. Len(EncodeItem(Due, v)) = Len(Major(2, Len(v))) + Len(v)
    BY <2>1, <2>3, SMT DEF Bytes
  <2>5. p + Len(EncodeItem(Due, v)) <= Len(input)
    BY <1>5, Zenon DEF At
  <2> QED
    BY <1>1, <1>2, <2>2, <2>3, <2>4, <2>5, SMT
<1>7. Fits(Due, v)
  BY <1>1, <1>2, <1>3, <1>4, <1>6, JudgedFits, Zenon DEF Due
<1> DEFINE next == p + Len(EncodeItem(Due, v))
<1>8. Found = [error |-> "none", value |-> v, next |-> next]
  BY <1>1, <1>5, <1>7, ItemReads, Zenon DEF Found
<1> HIDE DEF next
<1>9. Found.error = "none" /\ Found.value = v
  BY <1>8
<1> QED
  BY <1>4, <1>9, Zenon DEF v

\* Before decoding starts nothing is consumed, and an encoded input is admissible.
LEMMA CodecStarts == CodecInit => CodecInv
<1> SUFFICES ASSUME CodecInit PROVE CodecInv
  BY Zenon
<1>1. p = 0 /\ fields = <<>> /\ outcome = "decoding"
  BY Zenon DEF CodecInit
<1>2. ASSUME schema \in Schemas, input \in Bytes, GenuineInput PROVE CodecInv
  <2>1. fields \in Seq(Val) /\ Len(fields) = 0 /\ 0 \in Nat /\ ~(0 > 0) /\ 1 .. 0 = {}
    BY <1>1, SMT
  <2>2. 0 <= Size(schema)
    BY <1>2, SizeIs, SMT
  <2>3. CodecType
    BY <1>1, <1>2, <2>1, <2>2, Zenon DEF CodecType
  <2>4. Consumed /\ Accepted
    BY <1>1, <2>1, Zenon DEF Consumed, Accepted
  <2>5. Passed /\ Following
    BY <1>1, <2>1, Zenon DEF Passed, Following
  <2> QED
    BY <1>2, <2>3, <2>4, <2>5, Zenon DEF CodecInv
<1>3. CASE \E v \in Values :
            /\ schema = v.schema
            /\ source = v.fields
            /\ input = Encode(schema, source)
            /\ input # <<>>
  <2>1. PICK v \in Values : schema = v.schema /\ source = v.fields
    BY <1>3, Zenon
  <2>2. /\ schema \in Schemas
        /\ source = [i \in DOMAIN Items[schema] |-> source[i]]
        /\ \A i \in DOMAIN Items[schema] : source[i] \in Admitted(schema, Items[schema][i])
    BY <2>1, ValuesAssumption, Zenon DEF Schemas
  <2>3. DOMAIN Items[schema] = 1 .. Size(schema) /\ Size(schema) \in Nat
    BY <2>2, ItemLists, SizeIs, Zenon DEF Schemas
  <2>4. \A i \in 1 .. Size(schema) : Typed(Items[schema][i], source[i])
    BY <2>2, <2>3, AdmittedTypes, Zenon
  <2>5. \A i \in 1 .. Size(schema) : source[i] \in Val
    BY <2>4, TypedVal, Zenon
  <2>6. source \in Seq(Val) /\ Len(source) = Size(schema)
    <3>1. source = [i \in 1 .. Size(schema) |-> source[i]]
      BY <2>2, <2>3, Zenon
    <3>2. source \in [1 .. Size(schema) -> Val]
      BY <2>5, <3>1, Zenon
    <3> QED
      BY <2>3, <3>2, SMT
  <2>7. /\ input = EncodeArray(schema, source)
        /\ ~OutOfRange(schema, source)
        /\ ~(schema = "frame" /\ Len(EncodeArray(schema, source)) > MaxFrameSize)
    BY <1>3, Zenon DEF Encode
  <2>8. ~Oversized
    BY <2>7, Zenon DEF Oversized
  <2>9. input \in Bytes
    <3>1. Size(schema) \in 0 .. Size(schema)
      BY <2>3, SMT
    <3> QED
      BY <2>2, <2>4, <2>7, <3>1, PrefixIsBytes, PrefixAll, Zenon
  <2>10. Genuine => \A i \in 1 .. Size(schema) : Judged(Items[schema][i], source[i]) = "none"
    BY <2>2, <2>3, <2>7, AdmittedPasses, Zenon DEF Genuine
  <2>11. GenuineInput
    BY <2>4, <2>6, <2>7, <2>8, <2>10, Zenon DEF GenuineInput
  <2> QED
    BY <1>2, <2>2, <2>9, <2>11, Zenon
<1>4. CASE \E x \in Forgeries : schema = x.schema /\ input = x.bytes /\ source = <<>>
  <2>1. schema \in Schemas /\ input \in Bytes
    BY <1>4, ForgeriesAssumption, Zenon DEF Schemas, Bytes
  <2>2. GenuineInput
    BY <1>4, Zenon DEF GenuineInput, Genuine
  <2> QED
    BY <1>2, <2>1, <2>2, Zenon
<1> QED
  BY <1>3, <1>4, Zenon DEF CodecInit

\* What is said of the input stays true while it is decoded.
LEMMA SameInput ==
    ASSUME UNCHANGED <<schema, input, source>>
    PROVE  /\ Oversized' <=> Oversized
           /\ Genuine' <=> Genuine
           /\ \A q, x : At(q, x)' <=> At(q, x)
           /\ \A item, v : Judged(item, v)' = Judged(item, v)
           /\ GenuineInput' <=> GenuineInput
<1>0. schema' = schema /\ input' = input /\ source' = source
  BY Zenon
<1>1. Oversized' <=> Oversized
  BY <1>0, Zenon DEF Oversized
<1>2. Genuine' <=> Genuine
  BY <1>0, Zenon DEF Genuine
<1>3. \A q, x : At(q, x)' <=> At(q, x)
  BY <1>0, Zenon DEF At
<1>4. \A item, v : Judged(item, v)' = Judged(item, v)
  BY <1>0, SMT DEF Judged
<1>5. GenuineInput' <=> GenuineInput
  BY <1>0, <1>1, <1>2, <1>4, Zenon DEF GenuineInput
<1> QED
  BY <1>1, <1>2, <1>3, <1>4, <1>5, Zenon

\* A refusal keeps the invariant where the input was not encoded.
LEMMA FailKeeps ==
    ASSUME CodecInv, NEW e, Fail(e), e # "ok", ~Genuine
    PROVE  CodecInv'
<1>1. UNCHANGED <<schema, input, source>> /\ p' = p /\ fields' = fields /\ outcome' = e
  BY Zenon DEF Fail
<1>2. schema' = schema /\ input' = input
  BY <1>1, Zenon
<1>3. CodecType'
  BY <1>1, <1>2, Zenon DEF CodecInv, CodecType
<1>4. Consumed'
  BY <1>1, <1>2, SameInput, Zenon DEF CodecInv, Consumed
<1>5. Passed'
  BY <1>1, <1>2, SameInput, Zenon DEF CodecInv, Passed
<1>6. Accepted'
  BY <1>1, Zenon DEF Accepted
<1>7. GenuineInput' /\ Following'
  BY <1>1, SameInput, Zenon DEF CodecInv, Following
<1> QED
  BY <1>3, <1>4, <1>5, <1>6, <1>7, Zenon DEF CodecInv

\* No error is taken for success.
LEMMA HeadErrors ==
    ASSUME input \in Bytes, NEW q \in Nat
    PROVE  HeadAt(q).error # "ok"
<1>0. Failed("Truncated").error # "ok" /\ Failed("NonCanonical").error # "ok"
  BY SMT DEF Failed
<1>1. CASE q >= Len(input)
  <2>1. ~(q < Len(input))
    BY <1>1, SMT DEF Bytes
  <2>2. HeadAt(q) = Failed("Truncated")
    BY <1>1, <2>1, Zenon DEF HeadAt
  <2> QED
    BY <1>0, <2>2, Zenon
<1>2. CASE q < Len(input)
  <2>1. input[q + 1] \in Byte /\ ~(q >= Len(input))
    BY <1>2, SMT DEF Bytes
  <2>2. InfoAt(q) \in Nat
    BY <2>1, FirstByteParts, Zenon DEF InfoAt
  <2>3. CASE InfoAt(q) > 26
    <3>1. ~(InfoAt(q) <= 26)
      BY <2>2, <2>3, SMT
    <3>2. HeadAt(q) = Failed("NonCanonical")
      BY <1>2, <2>1, <2>3, <3>1, Zenon DEF HeadAt, InfoAt
    <3> QED
      BY <1>0, <3>2, Zenon
  <2>4. CASE ~(InfoAt(q) > 26)
    <3>1. InfoAt(q) <= 26
      BY <2>2, <2>4, SMT
    <3> DEFINE n == Argument(InfoAt(q), q)
               next == q + 1 + Width(InfoAt(q))
    <3>2. HeadAt(q) = IF q + 1 + Width(InfoAt(q)) > Len(input) THEN Failed("Truncated")
                      ELSE IF ~Shortest(InfoAt(q), Argument(InfoAt(q), q))
                      THEN Failed("NonCanonical")
                      ELSE [error |-> "none", major |-> MajorAt(q), n |-> n, next |-> next]
      BY <1>2, <2>1, <2>4, <3>1, Zenon DEF HeadAt, InfoAt, MajorAt
    <3> HIDE DEF n, next
    <3>3. [error |-> "none", major |-> MajorAt(q), n |-> n, next |-> next].error # "ok"
      BY SMT
    <3> QED
      BY <1>0, <3>2, <3>3, Zenon
  <2> QED
    BY <2>3, <2>4, Zenon
<1> QED
  BY <1>1, <1>2, SMT DEF Bytes

\* Neither uint nor bytes fail with success.
LEMMA ItemErrors ==
    ASSUME input \in Bytes, NEW q \in Nat, NEW item
    PROVE  ItemAt(item, q).error # "ok"
<1> DEFINE h == HeadAt(q)
           value == SubSeq(input, h.next + 1, h.next + h.n)
           next == h.next + h.n
<1>0. /\ Failed("Truncated").error # "ok" /\ Failed("Malformed").error # "ok"
      /\ \A x, y : [error |-> "none", value |-> x, next |-> y].error # "ok"
  BY SMT DEF Failed
<1>1. h.error # "ok"
  BY HeadErrors, Zenon
<1>2. \/ BytesAt(q) = h \/ BytesAt(q) = Failed("Malformed") \/ BytesAt(q) = Failed("Truncated")
      \/ BytesAt(q) = [error |-> "none", value |-> value, next |-> next]
  BY Zenon DEF BytesAt
<1>3. \/ UintAt(q) = h \/ UintAt(q) = Failed("Malformed")
      \/ UintAt(q) = [error |-> "none", value |-> h.n, next |-> h.next]
  BY Zenon DEF UintAt
<1> HIDE DEF h, value, next
<1>4. BytesAt(q).error # "ok"
  BY <1>0, <1>1, <1>2, Zenon
<1>5. UintAt(q).error # "ok"
  BY <1>0, <1>1, <1>3, Zenon
<1> QED
  BY <1>4, <1>5, Zenon DEF ItemAt

\* Nor does the judgement of a value.
LEMMA JudgedErrors ==
    ASSUME NEW item, NEW v
    PROVE  Judged(item, v) # "ok"
  BY SMT DEF Judged

\* Decoding the array's head keeps the invariant.
LEMMA DecodeArrayKeeps ==
    ASSUME CodecInv, DecodeArray
    PROVE  CodecInv'
<1> DEFINE h == HeadAt(0)
<1>0. /\ schema \in Schemas /\ input \in Bytes /\ fields = <<>> /\ outcome = "decoding" /\ p = 0
      /\ 0 \in Nat
  BY Zenon DEF CodecInv, CodecType, Consumed, DecodeArray
<1>1. CASE Oversized /\ Fail("TooLarge")
  <2>1. ~Genuine
    BY <1>1, Zenon DEF CodecInv, GenuineInput
  <2> QED
    BY <1>1, <2>1, FailKeeps, Zenon
<1>2. CASE h.error # "none" /\ Fail(h.error)
  BY <1>0, <1>2, GenuineHead, HeadErrors, FailKeeps, Zenon
<1>3. CASE <<h.major, h.n>> # <<4, Len(Items[schema])>> /\ Fail("Malformed")
  <2>1. ~Genuine
    BY <1>3, GenuineHead, Zenon DEF Size
  <2> QED
    BY <1>3, <2>1, FailKeeps, Zenon
<1>4. CASE /\ ~Oversized /\ h.error = "none"
           /\ <<h.major, h.n>> = <<4, Len(Items[schema])>>
           /\ p' = h.next
           /\ UNCHANGED <<schema, input, source, fields, outcome>>
  <2>0. /\ UNCHANGED <<schema, input, source>>
        /\ schema' = schema /\ input' = input /\ fields' = fields /\ outcome' = outcome
    BY <1>4, Zenon
  <2>1. h.major = 4 /\ h.n = Size(schema)
    BY <1>4 DEF Size
  <2>2. Size(schema) \in Nat /\ Size(schema) < Huge
    BY <1>0, SizeIs, Zenon
  <2> DEFINE M == Major(4, Size(schema))
  <2>3. /\ h.next \in Nat /\ 0 < h.next /\ At(0, M) /\ h.next = 0 + Len(M)
    BY <1>0, <1>4, <2>1, <2>2, HeadCanonical, Zenon
  <2>4. M \in Bytes /\ Len(M) \in Nat
    BY <2>2, MajorTypes, Zenon
  <2> HIDE DEF h, M
  <2>5. h.next = Len(M) /\ ~(h.next = 0) /\ h.next > 0
    BY <2>3, <2>4, SMT
  <2>6. Len(fields) = 0
    BY <1>0, SMT
  <2>7. Prefix(schema, fields, Len(fields)) = M
    BY <2>6, PrefixNone, Zenon DEF M
  <2>8. p' = h.next
    BY <1>4, Zenon DEF h
  <2>9. CodecType'
    BY <2>0, <2>3, <2>8, Zenon DEF CodecInv, CodecType
  <2>10. Consumed'
    BY <1>4, <2>0, <2>3, <2>4, <2>5, <2>7, <2>8, SameInput, Zenon DEF Consumed
  <2>11. Passed'
    BY <2>0, SameInput, Zenon DEF CodecInv, Passed
  <2>12. Accepted'
    BY <1>0, <2>0, Zenon DEF Accepted
  <2>13. GenuineInput' /\ Following'
    BY <2>0, SameInput, Zenon DEF CodecInv, Following
  <2> QED
    BY <2>9, <2>10, <2>11, <2>12, <2>13, Zenon DEF CodecInv
<1> QED
  BY <1>1, <1>2, <1>3, <1>4, Zenon DEF DecodeArray

\* Decoding an item keeps the invariant.
LEMMA DecodeItemKeeps ==
    ASSUME CodecInv, DecodeItem
    PROVE  CodecInv'
<1>0. /\ input \in Bytes /\ p \in Nat /\ p > 0 /\ Len(fields) < Size(schema)
      /\ outcome = "decoding"
  BY Zenon DEF CodecInv, CodecType, DecodeItem, Size
<1>1. CASE Found.error # "none" /\ Fail(Found.error)
  <2>1. ~Genuine
    BY <1>0, <1>1, GenuineItem, Zenon
  <2>2. Found.error # "ok"
    BY <1>0, ItemErrors, Zenon DEF Found
  <2> QED
    BY <1>1, <2>1, <2>2, FailKeeps, Zenon
<1>2. CASE Judged(Due, Found.value) # "none" /\ Fail(Judged(Due, Found.value))
  <2>1. ~Genuine
    BY <1>0, <1>2, GenuineItem, Zenon
  <2> QED
    BY <1>2, <2>1, JudgedErrors, FailKeeps, Zenon
<1>3. CASE /\ Found.error = "none" /\ Judged(Due, Found.value) = "none"
           /\ fields' = Longer
           /\ p' = Found.next
           /\ UNCHANGED <<schema, input, source, outcome>>
  <2>0. /\ UNCHANGED <<schema, input, source>> /\ source' = source
        /\ schema' = schema /\ input' = input /\ outcome' = outcome
    BY <1>3, Zenon
  <2>1. /\ Longer \in Seq(Val) /\ Len(Longer) = Len(fields) + 1
        /\ Len(Longer) <= Size(schema)
        /\ Longer[Len(fields) + 1] = Found.value
        /\ \A i \in 1 .. Len(fields) : Longer[i] = fields[i]
        /\ Found.next \in Nat /\ Found.next > 0
        /\ Prefix(schema, Longer, Len(Longer)) \in Bytes
        /\ Len(Prefix(schema, Longer, Len(Longer))) = Found.next
        /\ At(0, Prefix(schema, Longer, Len(Longer)))
        /\ \A i \in 1 .. Len(Longer) : Judged(Items[schema][i], Longer[i]) = "none"
    BY <1>0, <1>3, NextItem, Zenon
  <2>2. CodecType'
    BY <1>3, <2>0, <2>1, Zenon DEF CodecInv, CodecType
  <2>3. Consumed'
    <3>1. ~Oversized /\ ~(Found.next = 0)
      <4>1. ~(Found.next = 0)
        BY <2>1, SMT
      <4> QED
        BY <1>0, <4>1, Zenon DEF CodecInv, Consumed
    <3> QED
      BY <1>3, <2>0, <2>1, <3>1, SameInput, Zenon DEF Consumed
  <2>4. Passed'
    <3>1. SUFFICES ASSUME NEW i \in 1 .. Len(Longer)
                   PROVE  Judged(Items[schema][i], fields[i])' = "none"
      BY <1>3, Zenon DEF Passed
    <3>2. PICK item, v :
              item = Items[schema][i] /\ v = Longer[i] /\ Judged(item, v) = "none"
      BY <2>1, Zenon
    <3>3. Judged(item, v)' = "none"
      BY <2>0, <3>2, SameInput, Zenon
    <3>4. Items[schema'][i] = item /\ fields'[i] = v
      BY <1>3, <2>0, <3>2, Zenon
    <3> QED
      BY <3>3, <3>4, Zenon
  <2>5. Accepted'
    BY <1>0, <2>0, Zenon DEF Accepted
  <2>6. Following'
    <3>1. SUFFICES ASSUME Genuine
                   PROVE  \A i \in 1 .. Len(Longer) : Longer[i] = source[i]
      BY <1>0, <1>3, <2>0, SameInput, Zenon DEF Following
    <3>2. Found.value = source[Len(fields) + 1]
      BY <1>0, <3>1, GenuineItem, Zenon
    <3>3. \A i \in 1 .. Len(fields) : fields[i] = source[i]
      BY <3>1, Zenon DEF CodecInv, Following
    <3>4. Len(fields) \in Nat
      BY SMT DEF CodecInv, CodecType
    <3>5. \A i \in 1 .. Len(fields) + 1 : i \in 1 .. Len(fields) \/ i = Len(fields) + 1
      BY <3>4, SMT
    <3> QED
      BY <2>1, <3>2, <3>3, <3>5, Zenon
  <2>7. GenuineInput'
    BY <2>0, SameInput, Zenon DEF CodecInv
  <2> QED
    BY <2>2, <2>3, <2>4, <2>5, <2>6, <2>7, Zenon DEF CodecInv
<1> QED
  BY <1>1, <1>2, <1>3, Zenon DEF DecodeItem, Due, Found, Longer

\* Decoder::finish keeps the invariant: it finds no bytes left in an encoded input.
LEMMA FinishKeeps ==
    ASSUME CodecInv, Finish
    PROVE  CodecInv'
<1>0. /\ UNCHANGED <<schema, input, source>> /\ schema' = schema /\ input' = input
      /\ p' = p /\ fields' = fields
      /\ Len(fields) = Size(schema)
      /\ outcome' = IF p = Len(input) THEN "ok" ELSE "TrailingBytes"
  BY Zenon DEF Finish, Size
<1>1. schema \in Schemas /\ p \in Nat
  BY Zenon DEF CodecInv, CodecType
<1>2. p > 0
  <2>1. SUFFICES ASSUME p = 0 PROVE FALSE
    BY <1>1, SMT
  <2>2. fields = <<>>
    BY <2>1, Zenon DEF CodecInv, Consumed
  <2>3. Len(fields) = 0
    BY <2>2, SMT
  <2>4. Size(schema) \in Nat /\ Size(schema) > 0
    BY <1>1, SizeIs, Zenon
  <2> QED
    BY <1>0, <2>3, <2>4, SMT
<1>3. ASSUME Genuine PROVE p = Len(input)
  BY <1>0, <1>1, <1>2, <1>3, GenuinePosition, PrefixAll, Zenon DEF CodecInv, GenuineInput
<1>4. CodecType'
  BY <1>0, Zenon DEF CodecInv, CodecType
<1>5. Consumed'
  BY <1>0, SameInput, Zenon DEF CodecInv, Consumed
<1>6. Passed'
  BY <1>0, SameInput, Zenon DEF CodecInv, Passed
<1>7. Accepted'
  <2>1. outcome' = "ok" => p = Len(input)
    BY <1>0, Zenon
  <2> QED
    BY <1>0, <1>2, <2>1, Zenon DEF Accepted
<1>8. GenuineInput'
  BY <1>0, SameInput, Zenon DEF CodecInv
<1>9. Following'
  <2>1. SUFFICES ASSUME Genuine
                 PROVE  outcome' = "ok" /\ \A i \in 1 .. Len(fields) : fields[i] = source[i]
    BY <1>0, SameInput, Zenon DEF Following
  <2> QED
    BY <1>0, <1>3, <2>1, Zenon DEF CodecInv, Following
<1> QED
  BY <1>4, <1>5, <1>6, <1>7, <1>8, <1>9, Zenon DEF CodecInv

\* Every step of decode keeps the invariant.
LEMMA CodecSteps == CodecInv /\ [CodecNext]_codecVars => CodecInv'
<1> SUFFICES ASSUME CodecInv, [CodecNext]_codecVars PROVE CodecInv'
  BY Zenon
<1>1. CASE UNCHANGED codecVars
  <2>1. /\ UNCHANGED <<schema, input, source>> /\ schema' = schema /\ input' = input
        /\ p' = p /\ fields' = fields /\ outcome' = outcome /\ source' = source
    BY <1>1, Zenon DEF codecVars
  <2>2. CodecType' /\ Accepted'
    BY <2>1, Zenon DEF CodecInv, CodecType, Accepted
  <2>3. Consumed'
    BY <2>1, SameInput, Zenon DEF CodecInv, Consumed
  <2>4. Passed'
    BY <2>1, SameInput, Zenon DEF CodecInv, Passed
  <2>5. GenuineInput' /\ Following'
    BY <2>1, SameInput, Zenon DEF CodecInv, Following
  <2> QED
    BY <2>2, <2>3, <2>4, <2>5, Zenon DEF CodecInv
<1> QED
  BY <1>1, DecodeArrayKeeps, DecodeItemKeeps, FinishKeeps, Zenon DEF CodecNext

\* What decode has consumed at any time is what encode writes for the array's head and
\* the items decoded so far, and an input that encode wrote is followed item by item.
THEOREM CodecInvariance == CodecSpec => []CodecInv
  BY CodecStarts, CodecSteps, PTL DEF CodecSpec

\* Determinism of the wire format: an input that decode accepts is, byte for byte, what
\* encode writes for the value it was decoded to.  So two different inputs never decode
\* to the same frame or envelope, whatever bytes arrive and whatever the limits are.
THEOREM OneEncoding == CodecSpec => []AcceptsOnlyItsEncoding
<1>1. CodecInv => AcceptsOnlyItsEncoding
  <2>1. SUFFICES ASSUME CodecInv, outcome = "ok" PROVE Encode(schema, fields) = input
    BY Zenon DEF AcceptsOnlyItsEncoding
  <2>2. /\ schema \in Schemas /\ input \in Bytes /\ Len(fields) = Size(schema)
        /\ p > 0 /\ p = Len(input) /\ ~Oversized
        /\ Prefix(schema, fields, Len(fields)) \in Bytes
        /\ Len(Prefix(schema, fields, Len(fields))) = p
        /\ At(0, Prefix(schema, fields, Len(fields)))
        /\ \A i \in 1 .. Len(fields) : Judged(Items[schema][i], fields[i]) = "none"
    BY <2>1, Zenon DEF CodecInv, CodecType, Consumed, Passed, Accepted
  <2> DEFINE E == EncodeArray(schema, fields)
  <2>3. E \in Bytes /\ Len(E) = Len(input) /\ At(0, E)
    BY <2>2, PrefixAll, Zenon
  <2> HIDE DEF E
  <2>4. \A i \in 1 .. Len(E) : E[i] = input[i]
    BY <2>2, <2>3, SMT DEF At, Bytes
  <2>5. E = input
    BY <2>2, <2>3, <2>4, SeqEqual, Zenon DEF Bytes
  <2>6. ~(schema = "frame" /\ Len(E) > MaxFrameSize)
    BY <2>2, <2>5, Zenon DEF Oversized
  <2>7. ~OutOfRange(schema, fields)
    <3>1. DOMAIN Items[schema] = 1 .. Size(schema)
      BY <2>2, ItemLists, Zenon DEF Schemas
    <3> QED
      BY <2>2, <3>1, Judgements, Zenon DEF OutOfRange
  <2> QED
    BY <2>5, <2>6, <2>7, Zenon DEF Encode, E
<1> QED
  BY <1>1, CodecInvariance, PTL

\* Round trip: whatever encode writes for a value of this version, decode accepts and
\* decodes to that value, for all identifiers, kinds, lifetimes and bodies within the
\* limits.
THEOREM DecodesWhatWasEncoded == CodecSpec => []RoundTrip
<1>1. CodecInv => RoundTrip
  <2>1. SUFFICES ASSUME CodecInv, Genuine, outcome # "decoding"
                 PROVE  outcome = "ok" /\ fields = source
    BY Zenon DEF RoundTrip, Genuine
  <2>2. /\ outcome = "ok" /\ fields \in Seq(Val) /\ source \in Seq(Val)
        /\ Len(fields) = Size(schema) /\ Len(source) = Size(schema)
        /\ \A i \in 1 .. Len(fields) : fields[i] = source[i]
    BY <2>1, Zenon DEF CodecInv, CodecType, Accepted, GenuineInput, Following
  <2>3. Len(fields) = Len(source)
    BY <2>2, Zenon
  <2> QED
    BY <2>2, <2>3, SeqEqual, Zenon
<1> QED
  BY <1>1, CodecInvariance, PTL
=============================================================================
