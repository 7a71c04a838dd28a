---------------------------- MODULE MCFrameCodec -----------------------------
(***************************************************************************)
(* FrameCodec with the numbers at which heads change their width, and      *)
(* bodies up to the size limit.  Forged inputs are encoded values with the *)
(* head of one item rewritten in another form or with another major type,  *)
(* with items missing, repeated or of the wrong size, cut off or with a    *)
(* byte too many.                                                          *)
(***************************************************************************)
EXTENDS FrameCodec, FiniteSets

Bytes(n) == [i \in 1 .. n |-> 7]

Frame(version, kind, id, ttl, body) ==
    [schema |-> "frame", fields |-> <<1, version, kind, Bytes(id), ttl, Bytes(body)>>]
Envelope(kind, content) ==
    [schema |-> "envelope", fields |-> <<2, kind, Bytes(2), Bytes(2), Bytes(content)>>]

MCValues ==
    {Frame(version, kind, 2, ttl, body) :
        version \in 1 .. 2, kind \in {1, 17},
        ttl \in {0, 23, 24, 255, 256, 65535, 65536, MaxTtl, MaxTtl + 1},
        body \in {0, 23, 24, 255, 256, 257}} \cup
    {Envelope(kind, content) : kind \in {1, 11}, content \in {0, 23, 24, 255, 256, 257}}

\* Head i of a value, the array's being the first, written with additional
\* information a, or with major type m.
Samples == {Frame(1, 14, 2, 0, 3), Frame(1, 6, 2, 255, 30), Frame(1, 8, 2, 65535, 200),
            Envelope(1, 3), Envelope(4, 255)}

HeadOf(v, i) ==
    IF i = 1 THEN [m |-> 4, n |-> Len(Items[v.schema]), rest |-> <<>>]
    ELSE LET value == v.fields[i - 1]
         IN  IF IsBytes(Items[v.schema][i - 1])
             THEN [m |-> 2, n |-> Len(value), rest |-> value]
             ELSE [m |-> 0, n |-> value, rest |-> <<>>]

Joined(parts) == FoldLeft(LAMBDA out, x : out \o x, <<>>, parts)

Rewritten(v, i, head) ==
    [schema |-> v.schema,
     bytes |-> Joined([j \in 1 .. Len(Items[v.schema]) + 1 |->
                    (IF j = i THEN head ELSE Major(HeadOf(v, j).m, HeadOf(v, j).n))
                        \o HeadOf(v, j).rest])]

BigEndian(n, width) == [i \in 1 .. width |-> (n \div 256 ^ (width - i)) % 256]

Forms(h) ==
    {<<32 * h.m + a>> \o BigEndian(h.n, w) : a \in {24, 25, 26, 27, 31}, w \in {0, 1, 2, 4}}
    \cup {Major(m, h.n) : m \in 0 .. 7} \cup {Major(h.m, n) : n \in {0, 1, 2, 18, h.n + 1}}
    \cup {<<32 * h.m + 26, 255, 0, 0, 0>>}

Cut(v, n) == [schema |-> v.schema, bytes |-> SubSeq(Encode(v.schema, v.fields), 1, n)]
Long(v) == [schema |-> v.schema, bytes |-> Append(Encode(v.schema, v.fields), 0)]
Crossed(v) == [schema |-> IF v.schema = "frame" THEN "envelope" ELSE "frame",
               bytes |-> Encode(v.schema, v.fields)]
Unchecked(v) == [schema |-> v.schema, bytes |-> EncodeArray(v.schema, v.fields)]

MCForgeries ==
    UNION {{Rewritten(v, i, head) : head \in Forms(HeadOf(v, i))} :
                v \in Samples, i \in 1 .. 6} \cup
    {Cut(v, n) : v \in Samples, n \in 0 .. 12} \cup
    {Long(v) : v \in MCValues} \cup {Crossed(v) : v \in Samples} \cup
    {Unchecked(v) : v \in MCValues \cup {Frame(1, 18, 2, 0, 0), Frame(1, 1, 3, 0, 0)}}
=============================================================================
