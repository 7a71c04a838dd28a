----------------------------- MODULE FrameCodec ------------------------------
(***************************************************************************)
(* The wire format of crates/messenger-protocol/src/lib.rs: arrays, byte   *)
(* strings and unsigned integers of canonical CBOR, each a head (major     *)
(* type and argument in 0, 1, 2 or 4 further bytes) followed by content,   *)
(* and the two arrays made of them, TransportFrame and                     *)
(* ApplicationEnvelope.                                                    *)
(*                                                                         *)
(* The encoder is an operator.  The decoder is a machine that takes one    *)
(* item of the array per step and stops at the first error.  Bytes,        *)
(* arguments and the widths of heads are those of the code; lengths and    *)
(* limits are parameters.                                                  *)
(***************************************************************************)
EXTENDS Naturals, Sequences, SequencesExt

CONSTANTS
    MaxFrameSize,   \* MAX_FRAME_SIZE
    MaxTtl,         \* MAX_TTL_SECONDS
    MaxContent,     \* MAX_ENCRYPTED_TEXT_EVENT_SIZE
    IdSize,         \* length of Id, 16
    Values,         \* values that are encoded
    Forgeries       \* bound: inputs that are decoded besides the encoded values

VARIABLES
    schema,         \* "frame" or "envelope"
    input,          \* bytes to decode
    source,         \* the items the input was encoded from, or <<>>
    p,              \* position: bytes consumed
    fields,         \* items decoded so far
    outcome         \* "decoding", "ok" or an error

codecVars == <<schema, input, source, p, fields, outcome>>

\* The items of each array, in order.  A value is the sequence of its items' values.
Items == [frame    |-> <<"tag", "version", "kind", "client_message_id", "ttl", "body">>,
          envelope |-> <<"tag", "kind", "event_id", "conversation_id", "content">>]
Tag == [frame |-> 1, envelope |-> 2]
Kinds == [frame |-> 1 .. 17, envelope |-> 1 .. 11]
Version == 1

IsId(item) == item \in {"client_message_id", "event_id", "conversation_id"}
IsBytes(item) == IsId(item) \/ item \in {"body", "content"}

Byte == 0 .. 255
Word == 0 .. 65535

\* What the types of the two structs admit.
Admitted(s, item) ==
    CASE item = "tag" -> {Tag[s]}
      [] item = "version" -> Word
      [] item = "kind" -> Kinds[s]
      [] item = "ttl" -> Nat
      [] IsId(item) -> [1 .. IdSize -> Byte]
      [] item \in {"body", "content"} -> Seq(Byte)

\* Bound: arguments from 2^30 on, past every limit, are not told apart.
Huge == 1073741824

ASSUME LimitsAssumption == {MaxFrameSize, MaxTtl, MaxContent, IdSize} \subseteq 0 .. Huge - 1
ASSUME ValuesAssumption ==
    \A v \in Values :
        /\ v.schema \in {"frame", "envelope"}
        /\ v.fields = [i \in DOMAIN Items[v.schema] |-> v.fields[i]]
        /\ \A i \in DOMAIN Items[v.schema] :
                v.fields[i] \in Admitted(v.schema, Items[v.schema][i])
ASSUME ForgeriesAssumption ==
    \A x \in Forgeries : x.schema \in {"frame", "envelope"} /\ x.bytes \in Seq(Byte)
-----------------------------------------------------------------------------
(* Encoder.                                                                *)

\* A head: major type m and argument n, big-endian.
MajorUpTo24(m, n) ==
    CASE n <= 24 -> <<32 * m + n>>
      [] 24 < n /\ n < 256 -> <<32 * m + 24, n>>
      [] 256 <= n /\ n < 65536 -> <<32 * m + 25, n \div 256, n % 256>>
      [] OTHER -> <<32 * m + 26, (n \div 16777216) % 256, (n \div 65536) % 256,
                    (n \div 256) % 256, n % 256>>
Major(m, n) ==
    CASE n < 24 -> <<32 * m + n>>
      [] 24 <= n /\ n < 256 -> <<32 * m + 24, n>>
      [] 256 <= n /\ n < 65536 -> <<32 * m + 25, n \div 256, n % 256>>
      [] OTHER -> <<32 * m + 26, (n \div 16777216) % 256, (n \div 65536) % 256,
                    (n \div 256) % 256, n % 256>>

EncodeItem(item, value) ==
    IF IsBytes(item) THEN Major(2, Len(value)) \o value ELSE Major(0, value)

EncodeArray(s, v) ==
    LET item(i) == EncodeItem(Items[s][i], v[i])
        five == Major(4, Len(Items[s])) \o item(1) \o item(2) \o item(3) \o item(4) \o item(5)
    IN  IF s = "frame" THEN five \o item(6) ELSE five

OutOfRange(s, v) ==
    \E i \in DOMAIN Items[s] :
        \/ Items[s][i] = "ttl" /\ v[i] > MaxTtl
        \/ Items[s][i] = "content" /\ Len(v[i]) > MaxContent

\* The bytes of v, or none where encode answers with an error.
Encode(s, v) ==
    IF \/ OutOfRange(s, v)
       \/ s = "frame" /\ Len(EncodeArray(s, v)) > MaxFrameSize
    THEN <<>>
    ELSE EncodeArray(s, v)
-----------------------------------------------------------------------------
(* Decoder.                                                                *)

\* Bytes of argument behind a first byte with additional information a.
Width(a) == CASE a < 24 -> 0 [] a = 24 -> 1 [] a = 25 -> 2 [] a = 26 -> 4

\* The argument of a head is in the shortest form.
ShortestBut255(a, n) == (a = 24 => n >= 24) /\ (a = 25 => n >= 255) /\ (a = 26 => n >= 65536)
Shortest(a, n) == (a = 24 => n >= 24) /\ (a = 25 => n >= 256) /\ (a = 26 => n >= 65536)

\* The argument of the head at position q.
Argument(a, q) ==
    CASE a < 24 -> a
      [] a = 24 -> input[q + 2]
      [] a = 25 -> 256 * input[q + 2] + input[q + 3]
      [] a = 26 -> IF input[q + 2] >= 64 THEN Huge
                   ELSE 256 * (256 * (256 * input[q + 2] + input[q + 3]) + input[q + 4])
                            + input[q + 5]

Failed(e) == [error |-> e]

\* Decoder::head at position q: major type, argument and where it ends.
HeadAt(q) ==
    LET a == input[q + 1] % 32
        n == Argument(a, q)
    IN  CASE q >= Len(input) -> Failed("Truncated")
          [] q < Len(input) /\ a > 26 -> Failed("NonCanonical")
          [] q < Len(input) /\ a <= 26 ->
                IF q + 1 + Width(a) > Len(input) THEN Failed("Truncated")
                ELSE IF ~Shortest(a, n) THEN Failed("NonCanonical")
                ELSE [error |-> "none", major |-> input[q + 1] \div 32, n |-> n,
                      next |-> q + 1 + Width(a)]

\* uint, bytes and id: the value of an item and where it ends.
UintAt(q) ==
    LET h == HeadAt(q)
    IN  CASE h.error # "none" -> h
          [] h.error = "none" /\ h.major # 0 -> Failed("Malformed")
          [] h.error = "none" /\ h.major = 0 -> [error |-> "none", value |-> h.n, next |-> h.next]

BytesAt(q) ==
    LET h == HeadAt(q)
    IN  CASE h.error # "none" -> h
          [] h.error = "none" /\ h.major # 2 -> Failed("Malformed")
          [] h.error = "none" /\ h.major = 2 ->
                IF h.next + h.n > Len(input) THEN Failed("Truncated")
                ELSE [error |-> "none", value |-> SubSeq(input, h.next + 1, h.next + h.n),
                      next |-> h.next + h.n]

ItemAt(item, q) == IF IsBytes(item) THEN BytesAt(q) ELSE UintAt(q)

\* What decode says of an item's value: "none" or an error.
Judged(item, value) ==
    CASE item = "tag" /\ value # Tag[schema] -> "Malformed"
      [] item = "version" /\ value # Version -> "UnsupportedVersion"
      [] item = "kind" /\ value \notin Kinds[schema] -> "UnknownType"
      [] IsId(item) /\ Len(value) # IdSize -> "FieldOutOfRange"
      [] item = "ttl" /\ value > MaxTtl -> "FieldOutOfRange"
      [] item = "content" /\ Len(value) > MaxContent -> "TooLarge"
      [] OTHER -> "none"

CodecInit ==
    /\ \/ \E v \in Values :
            /\ schema = v.schema
            /\ source = v.fields
            /\ input = Encode(schema, source)
            /\ input # <<>>
       \/ \E x \in Forgeries : schema = x.schema /\ input = x.bytes /\ source = <<>>
    /\ p = 0
    /\ fields = <<>>
    /\ outcome = "decoding"

Fail(e) == outcome' = e /\ UNCHANGED <<schema, input, source, p, fields>>

\* Only a frame's size is limited as a whole.
Oversized == schema = "frame" /\ Len(input) > MaxFrameSize

DecodeArray ==
    /\ outcome = "decoding" /\ p = 0
    /\ LET h == HeadAt(0)
       IN  \/ Oversized /\ Fail("TooLarge")
           \/ ~Oversized /\ h.error # "none" /\ Fail(h.error)
           \/ /\ ~Oversized /\ h.error = "none"
              /\ <<h.major, h.n>> # <<4, Len(Items[schema])>>
              /\ Fail("Malformed")
           \/ /\ ~Oversized /\ h.error = "none"
              /\ <<h.major, h.n>> = <<4, Len(Items[schema])>>
              /\ p' = h.next
              /\ UNCHANGED <<schema, input, source, fields, outcome>>

DecodeItem ==
    /\ outcome = "decoding" /\ p > 0
    /\ Len(fields) < Len(Items[schema])
    /\ LET item == Items[schema][Len(fields) + 1]
           x == ItemAt(item, p)
       IN  \/ x.error # "none" /\ Fail(x.error)
           \/ x.error = "none" /\ Judged(item, x.value) # "none" /\ Fail(Judged(item, x.value))
           \/ /\ x.error = "none" /\ Judged(item, x.value) = "none"
              /\ fields' = Append(fields, x.value)
              /\ p' = x.next
              /\ UNCHANGED <<schema, input, source, outcome>>

Finish ==
    /\ outcome = "decoding"
    /\ Len(fields) = Len(Items[schema])
    /\ outcome' = IF p = Len(input) THEN "ok" ELSE "TrailingBytes"
    /\ UNCHANGED <<schema, input, source, p, fields>>

CodecNext == DecodeArray \/ DecodeItem \/ Finish

CodecSpec == CodecInit /\ [][CodecNext]_codecVars /\ WF_codecVars(CodecNext)
-----------------------------------------------------------------------------
(* Properties.                                                             *)

\* "This makes the byte representation deterministic" (docs/PROTOCOL_BUDGETS.md): what is
\* accepted is what encode makes of the value it was decoded to, so that no two
\* inputs decode to the same value, and any accepted frame can be sent on.
AcceptsOnlyItsEncoding == outcome = "ok" => Encode(schema, fields) = input

\* Whatever encode produces for this version decodes to what it was made of, at every
\* width of a head and up to the size limits.
RoundTrip ==
    source # <<>> /\ (schema = "frame" => source[2] = Version)
        => outcome = "decoding" \/ (outcome = "ok" /\ fields = source)
=============================================================================
