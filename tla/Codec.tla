------------------------------- MODULE Codec -------------------------------
(***************************************************************************)
(* The byte codec of neqo-common, Encoder and Decoder, and what QPACK adds *)
(* to it: integers behind a prefix and the Huffman code.  A buffer is a    *)
(* sequence of bytes 0..255; a decoder is the part of its buffer that is   *)
(* not read yet, so that an operation returns what it read together with   *)
(* the rest, or None where the code returns None and leaves the decoder    *)
(* alone.                                                                  *)
(*                                                                         *)
(* Integers stop at 2^30 - 1, the largest that a variable-length integer   *)
(* of four bytes holds: TLC's integers have 32 bits.  The form of eight    *)
(* bytes is decoded, but only values below that bound are written.         *)
(***************************************************************************)
EXTENDS Integers, FiniteSets, Sequences, SequencesExt

\* What an operation of the decoder returns: the value and the rest, or
\* nothing.
Read(v, rest) == [ok |-> TRUE, v |-> v, rest |-> rest]

None == [ok |-> FALSE]

\* The largest integer of the model; MAX_VARINT is 2^62 - 1 in the code.
MAX_VARINT == 2^30 - 1

First(d, n) == SubSeq(d, 1, n)
After(d, n) == SubSeq(d, n + 1, Len(d))

-----------------------------------------------------------------------------
(* The decoder.                                                            *)

\* Decoder::decode and the bound of Decoder::skip.
decode(d, n) == IF Len(d) < n THEN None ELSE Read(First(d, n), After(d, n))

BigEndian(bytes) == FoldLeft(LAMBDA v, b: v * 256 + b, 0, bytes)

\* Decoder::decode_n, and decode_uint for the size of its type.
decode_uint(d, n) ==
    IF Len(d) < n THEN None ELSE Read(BigEndian(First(d, n)), After(d, n))

\* The number of bytes a first byte announces: 1, 2, 4 or 8.
VarintBytes(b) == 2^(b \div 64)

decode_varint(d) ==
    IF d = <<>> \/ Len(d) < VarintBytes(d[1])
    THEN None
    ELSE LET n == VarintBytes(d[1])
         IN Read(BigEndian(<<d[1] % 64>> \o SubSeq(d, 2, n)), After(d, n))

\* Decoder::decode_checked, the length read before it.
decode_checked(r) == IF ~r.ok THEN None ELSE decode(r.rest, r.v)

decode_vec(d, n) == decode_checked(decode_uint(d, n))

decode_vvec(d) == decode_checked(decode_varint(d))

\* Decoder::skip_while: how many of the leading bytes are b.
skip_while(d, b) ==
    LET other == {i \in DOMAIN d : d[i] # b}
    IN IF other = {} THEN Len(d) ELSE Min(other) - 1

\* n integers in a row, as the closure dv of the frame decoders reads them.
RECURSIVE Varints(_, _)
Varints(d, n) ==
    IF n = 0 THEN Read(<<>>, d)
    ELSE LET r == decode_varint(d)
         IN IF ~r.ok THEN None
            ELSE LET s == Varints(r.rest, n - 1)
                 IN IF ~s.ok THEN None ELSE Read(<<r.v>> \o s.v, s.rest)

-----------------------------------------------------------------------------
(* The encoder: each operation is the bytes it appends.                    *)

encode_uint(n, v) == [i \in 1..n |-> (v \div 256^(n - i)) % 256]

varint_len(v) == IF v < 2^6 THEN 1 ELSE IF v < 2^14 THEN 2 ELSE 4

\* The length bits are set in the first of the bytes.
encode_varint(v) ==
    LET n == varint_len(v)
        bits == [i \in {1, 2, 4} |-> IF i = 1 THEN 0 ELSE IF i = 2 THEN 64 ELSE 128]
        bytes == encode_uint(n, v)
    IN <<bytes[1] + bits[n]>> \o Tail(bytes)

vvec_len(n) == varint_len(n) + n

encode_vec(n, v) == encode_uint(n, Len(v)) \o v

encode_vvec(v) == encode_varint(Len(v)) \o v

(***************************************************************************)
(* Encoder::encode_vvec_with: the contents are written behind one byte     *)
(* kept for the length.  A longer length has its high bytes written behind *)
(* the contents and rotated to the front.                                  *)
(***************************************************************************)
Rotate(s, n) == SubSeq(s, Len(s) - n + 1, Len(s)) \o SubSeq(s, 1, Len(s) - n)

encode_vvec_with(v) ==
    LET n == varint_len(Len(v))
        low == <<Len(v) % 256>> \o v
        high == IF n = 2 THEN encode_uint(1, Len(v) \div 256 + 64)
                ELSE encode_uint(3, Len(v) \div 256 + 2^23)
    IN IF n = 1 THEN low ELSE Rotate(low \o high, n - 1)

\* Encoder::pad_to for a buffer s.
pad_to(s, n, b) == s \o [i \in 1..(IF n > Len(s) THEN n - Len(s) ELSE 0) |-> b]

\* Encoder::reserve with overwrite: the bytes at a place are replaced.
overwrite(s, at, bytes) ==
    SubSeq(s, 1, at) \o bytes \o SubSeq(s, at + Len(bytes) + 1, Len(s))
-----------------------------------------------------------------------------
(* QPACK's integers behind a prefix, its Huffman code and its literals     *)
(* (neqo-qpack), with the whole of the buffer there.                       *)

\* HUFFMAN_TABLE: the symbols by the length of their code, in two halves; 256
\* is the end of a string.  The codes of the table are the canonical ones.
HuffmanAscii(len) ==
    CASE len = 5 -> {97, 99, 101, 105, 111, 115, 116} \union (48..50)
      [] len = 6 -> {32, 37, 61, 65, 95, 98, 100, 112, 114, 117} \union (45..47) \union (51..57)
                    \union (102..104) \union (108..110)
      [] len = 7 -> {58, 89, 106, 107, 113} \union (66..87) \union (118..122)
      [] len = 8 -> {38, 42, 44, 59, 88, 90}
      [] len = 10 -> {33, 34, 40, 41, 63}
      [] len = 11 -> {39, 43, 124}
      [] len = 12 -> {35, 62}
      [] len = 13 -> {0, 36, 64, 91, 93, 126}
      [] len = 14 -> {94, 125}
      [] len = 15 -> {60, 96, 123}
      [] len = 19 -> {92}
      [] len = 23 -> {1}
      [] len = 24 -> {9}
      [] len = 28 -> {11, 12, 127} \union (2..8) \union (14..21) \union (23..31)
      [] len = 30 -> {10, 13, 22}
      [] OTHER -> {}

HuffmanOther(len) ==
    CASE len = 19 -> {195, 208}
      [] len = 20 -> {128, 130, 131, 162, 184, 194, 224, 226}
      [] len = 21 -> {153, 161, 167, 172, 176, 177, 179, 209, 216, 217, 227, 229, 230}
      [] len = 22 -> {129, 136, 146, 154, 156, 160, 163, 164, 169, 170, 173, 178, 181, 189, 190,
                    196, 198, 228, 232, 233} \union (132..134) \union (185..187)
      [] len = 23 -> {135, 143, 147, 155, 157, 158, 165, 166, 168, 174, 175, 180, 182, 183, 188,
                    191, 197, 231, 239} \union (137..141) \union (149..152)
      [] len = 24 -> {142, 144, 145, 148, 159, 171, 206, 215, 225, 236, 237}
      [] len = 25 -> {199, 207, 234, 235}
      [] len = 26 -> {192, 193, 205, 210, 213, 218, 219, 238, 240, 242, 243, 255} \union
                    (200..202)
      [] len = 27 -> {203, 204, 211, 212, 214, 241} \union (221..223) \union (244..248) \union
                    (250..254)
      [] len = 28 -> {220, 249}
      [] len = 30 -> {256}
      [] OTHER -> {}

HUFFMAN_TABLE == [len \in 5..30 |-> HuffmanAscii(len) \union HuffmanOther(len)]

HuffmanLen == [c \in 0..256 |-> CHOOSE len \in 5..30 : c \in HUFFMAN_TABLE[len]]

\* The first code of a length follows the last one of the length before.
HuffmanFirst[len \in 5..30] ==
    IF len = 5 THEN 0 ELSE 2 * (HuffmanFirst[len - 1] + Cardinality(HUFFMAN_TABLE[len - 1]))

HuffmanBits ==
    [c \in 0..256 |->
        LET len == HuffmanLen[c]
            code == HuffmanFirst[len] + Cardinality({d \in HUFFMAN_TABLE[len] : d < c})
        IN [i \in 1..len |-> (code \div 2^(len - i)) % 2]]

BitsOf(bytes) == [i \in 1..(8 * Len(bytes)) |->
                    (bytes[((i - 1) \div 8) + 1] \div 2^(7 - ((i - 1) % 8))) % 2]

\* huffman::encode: code after code, the last byte filled with ones.
huffman_encode(s) ==
    LET bits == FlattenSeq([i \in DOMAIN s |-> HuffmanBits[s[i]]])
        At(i) == IF i > Len(bits) THEN 1 ELSE bits[i]
    IN [k \in 1..((Len(bits) + 7) \div 8) |->
            FoldLeft(LAMBDA v, i : 2 * v + At(8 * (k - 1) + i), 0, [i \in 1..8 |-> i])]

\* A variant that takes any number of ones for padding.
AnyPadding(bits) == \A i \in DOMAIN bits : bits[i] = 1

\* BitReader::verify_ending.
verify_ending(bits) == Len(bits) < 8 /\ \A i \in DOMAIN bits : bits[i] = 1

\* huffman::decode: decode_character walks down the tree of the codes, to the
\* leaf whose code comes next; an end of string is an error.
RECURSIVE DecodeCharacters(_, _)
decode_character(bits, out, leaf) ==
    IF leaf = {} THEN IF verify_ending(bits) THEN Read(out, <<>>) ELSE None
    ELSE IF 256 \in leaf THEN None
    ELSE DecodeCharacters(After(bits, HuffmanLen[Min(leaf)]), out \o SetToSeq(leaf))

DecodeCharacters(bits, out) ==
    decode_character(bits, out, {c \in 0..256 : IsPrefix(HuffmanBits[c], bits)})

huffman_decode(bytes) == DecodeCharacters(BitsOf(bytes), <<>>)

\* Prefix: the first bits of a byte, how many, and the mask they are read with.
Prefix(bits, len) == [bits |-> bits, len |-> len]

\* Encoder::encode_prefixed_encoded_int.
RECURSIVE IntTail(_)
IntTail(v) == IF v < 128 THEN <<v>> ELSE <<128 + (v % 128)>> \o IntTail(v \div 128)

encode_prefixed_encoded_int(prefix, v) ==
    LET max == 2^(8 - prefix.len) - 1
    IN IF v < max THEN <<prefix.bits + v>> ELSE <<prefix.bits + max>> \o IntTail(v - max)

\* Encoder::encode_literal: the bit in front of the length is Huffman's.
encode_literal(use_huffman, prefix, s) ==
    LET real_prefix == Prefix(prefix.bits + (IF use_huffman THEN 2^(7 - prefix.len) ELSE 0), prefix.len + 1)
        coded == IF use_huffman THEN huffman_encode(s) ELSE s
    IN encode_prefixed_encoded_int(real_prefix, Len(coded)) \o coded

\* ReceiverBufferWrapper::read_prefixed_int: the bytes up to the first below
\* 128, the n-th.
IntRest(d, max, n) ==
    Read(max + FoldRight(LAMBDA b, v : (b % 128) + 128 * v, SubSeq(d, 2, n), 0), After(d, n))

read_prefixed_int(d, prefix) ==
    IF d = <<>> THEN None
    ELSE IF d[1] % 2^(8 - prefix) < 2^(8 - prefix) - 1 THEN Read(d[1] % 2^(8 - prefix), Tail(d))
    ELSE IF \A i \in 2..Len(d) : d[i] >= 128 THEN None
    ELSE IntRest(d, 2^(8 - prefix) - 1, Min({i \in 2..Len(d) : d[i] < 128}))

\* LiteralReader::MAX_LEN.
MAX_LEN == 384 * 1024

\* ReceiverBufferWrapper::read_literal_from_buffer.
Decoded(plain, rest) == IF plain.ok THEN Read(plain.v, rest) ELSE None

LiteralBody(use_huffman, n) ==
    IF ~n.ok \/ n.v > MAX_LEN \/ Len(n.rest) < n.v THEN None
    ELSE Decoded(IF use_huffman THEN huffman_decode(First(n.rest, n.v)) ELSE Read(First(n.rest, n.v), <<>>),
                 After(n.rest, n.v))

HuffmanBit(d, prefix) == (d[1] \div 2^(7 - prefix)) % 2 = 1

read_literal_from_buffer(d, prefix) ==
    IF d = <<>> THEN None ELSE LiteralBody(HuffmanBit(d, prefix), read_prefixed_int(d, prefix + 1))
=============================================================================
