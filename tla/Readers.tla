------------------------------- MODULE Readers -------------------------------
(***************************************************************************)
(* The readers that take structures off a stream as its bytes arrive:      *)
(* FrameReader (neqo-http3 frames/) for HTTP/3 frames, WebTransport frames *)
(* and capsules, NewStreamHeadReader for the head of a stream, and the     *)
(* readers of QPACK instructions (neqo-qpack), all of which keep a state   *)
(* between calls, built on the incremental decoders of neqo-common.        *)
(*                                                                         *)
(* The bytes of a stream arrive in pieces of any size, with the end of the *)
(* stream at the last of them or behind it, and the reader is called any   *)
(* time.  The reference is what the whole of the bytes that arrived means, *)
(* read in one go.                                                         *)
(***************************************************************************)
EXTENDS Codec, FiniteSets

\* streams: [kind, role, bytes, of]; kind is the reader's, of the
\* instructions or frames that were encoded into the bytes, or <<>>
CONSTANT Inputs

VARIABLES
    stream,     \* the stream being read
    given,      \* how many of its bytes arrived
    fin,        \* whether its end arrived
    taken,      \* how many bytes were read
    reader,     \* the state of the reader
    out,        \* what the reader returned, in order
    skip,       \* bytes of a DATA frame, for the message to read
    err,        \* the error the reader failed with, or "none"
    idle        \* nothing arrived since the reader asked for more

vars == <<stream, given, fin, taken, reader, out, skip, err, idle>>

-----------------------------------------------------------------------------
(* The incremental decoders.                                               *)

\* IncrementalDecoderUint: remaining is -1 for None.
NewUint == [v |-> 0, remaining |-> -1]

uint_min_remaining(u) == IF u.remaining < 0 THEN 1 ELSE u.remaining

\* A variant that shifts by what is missing and not by what there is.
UintShiftsAll(u, bytes) ==
    IF u.remaining < 0
    THEN [v |-> bytes[1] % 64, remaining |-> VarintBytes(bytes[1]) - 1]
    ELSE [v |-> u.v * 256^u.remaining + BigEndian(bytes), remaining |-> u.remaining - Len(bytes)]

uint_consume(u, bytes) ==
    IF u.remaining < 0
    THEN [v |-> bytes[1] % 64, remaining |-> VarintBytes(bytes[1]) - 1]
    ELSE [v |-> u.v * 256^Len(bytes) + BigEndian(bytes), remaining |-> u.remaining - Len(bytes)]

\* The decoder of a buffer, and the one that ignores what it reads.
buffer_consume(b, bytes) ==
    [v |-> b.v \o bytes, remaining |-> b.remaining - Len(bytes)]

-----------------------------------------------------------------------------
(* Frames: what each of the three decoders makes of a payload.             *)

DATA == 0
HEADERS == 1
SETTINGS == 4
GOAWAY == 7
PRIORITY_UPDATE_REQUEST == 984832
PushTypes == {3, 5, 13, 984833}
RESERVED == {2, 6, 8, 9}
CLOSE_SESSION == 10307

\* A limit of 4096 bytes for other frames, and of 384 kB for HEADERS.
max_frame_data(kind, t) ==
    CASE kind = "http" /\ t \in {GOAWAY, 3, 13} -> 8
      [] kind = "http" /\ t \in {SETTINGS, PRIORITY_UPDATE_REQUEST, 984833} -> 4096
      [] kind = "http" /\ t \in {HEADERS, 5} -> 384 * 1024
      [] kind = "webtransport" /\ t = CLOSE_SESSION -> 1028
      [] kind = "capsule" /\ t = 0 -> 65535
      [] OTHER -> MAX_VARINT

is_known_type(kind, t) ==
    CASE kind = "http" -> t \in {DATA, HEADERS, SETTINGS, GOAWAY, PRIORITY_UPDATE_REQUEST} \union PushTypes
      [] kind = "webtransport" -> t = CLOSE_SESSION
      [] kind = "capsule" -> t = 0
      [] kind = "connect-udp" -> FALSE

frame_type_allowed(kind, t) == kind = "http" => t \notin RESERVED

\* HSettings::decode_frame_contents.  A repeated setting is kept, and the
\* first one counts; the two identifiers of datagrams are one setting.
ReservedSettings == {2, 3, 4, 5}
Names == [s \in {6, 1, 7, 51, 16765559, 727725890, 8} |->
            CASE s = 6 -> "MaxHeaderListSize" [] s = 1 -> "MaxTableCapacity"
              [] s = 7 -> "BlockedStreams" [] s = 727725890 -> "EnableWebTransport"
              [] s \in {51, 16765559} -> "EnableH3Datagram" [] s = 8 -> "EnableConnect"]

RECURSIVE Settings(_, _)
OneSetting(t, v, got) ==
    IF t.ok /\ t.v \in ReservedSettings THEN [ok |-> FALSE, e |-> "HttpSettings"]
    ELSE IF ~t.ok \/ ~v.ok THEN [ok |-> FALSE, e |-> "HttpFrame"]
    ELSE IF t.v \notin DOMAIN Names THEN Settings(v.rest, got)
    ELSE IF t.v \in {51, 16765559, 727725890, 8} /\ v.v > 1 THEN [ok |-> FALSE, e |-> "HttpSettings"]
    ELSE Settings(v.rest, IF Names[t.v] = "EnableH3Datagram" /\ \E i \in DOMAIN got : got[i][1] = Names[t.v]
                          THEN got ELSE Append(got, <<Names[t.v], v.v>>))

SettingOf(t, got) == OneSetting(t, IF t.ok THEN decode_varint(t.rest) ELSE None, got)
Settings(d, got) == IF d = <<>> THEN [ok |-> TRUE, v |-> got] ELSE SettingOf(decode_varint(d), got)

\* HSettings::encode_frame_contents.
encode_settings(ss) ==
    LET Code(s) == CHOOSE c \in DOMAIN Names : Names[c] = s /\ c # 16765559
        One(s) == IF s[1] \in {"EnableH3Datagram", "EnableConnect"} /\ s[2] # 1 THEN <<>>
                  ELSE (IF s[1] = "EnableH3Datagram" THEN encode_varint(16765559) \o <<1>> ELSE <<>>)
                       \o encode_varint(Code(s[1])) \o encode_varint(s[2])
    IN encode_vvec_with(FlattenSeq([i \in DOMAIN ss |-> One(ss[i])]))

\* HFrame::encode.  A frame is its type and its fields; of a DATA frame only
\* the length is written, and what is behind it is the caller's.  The types
\* of push are never written; those of greasing are random.
encode_hframe(f) ==
    encode_varint(f[1]) \o
    CASE f[1] = DATA -> encode_varint(f[2])
      [] f[1] = SETTINGS -> encode_settings(f[2])
      [] f[1] \in {GOAWAY, PRIORITY_UPDATE_REQUEST} -> encode_vvec(encode_varint(f[2]) \o f[3])
      [] OTHER -> encode_vvec(f[2])

Got(f) == [ok |-> TRUE, none |-> FALSE, v |-> f]
Nothing == [ok |-> TRUE, none |-> TRUE]
Failed(e) == [ok |-> FALSE, e |-> e]

\* An integer, and what is behind it.
VarintFrame(t, n) ==
    IF ~n.ok \/ (t = GOAWAY /\ n.rest # <<>>) THEN Failed("HttpFrame") ELSE Got(<<t, n.v, n.rest>>)

SettingsFrame(s) == IF s.ok THEN Got(<<SETTINGS, s.v>>) ELSE Failed(s.e)

\* HFrame::decode, WebTransportFrame::decode and Capsule::decode on a
\* payload.  Parsing a priority is external, as is UTF-8.
DecodePayload(kind, t, payload) ==
    CASE ~is_known_type(kind, t) -> Nothing
      [] kind = "http" /\ t = SETTINGS -> SettingsFrame(Settings(payload, <<>>))
      [] kind = "http" /\ t \in {GOAWAY, PRIORITY_UPDATE_REQUEST} -> VarintFrame(t, decode_varint(payload))
      [] kind = "http" /\ t \in PushTypes -> Got(<<t>>)
      [] kind = "webtransport" /\ Len(payload) < 4 -> Failed("HttpMessage")
      [] OTHER -> Got(<<t, payload>>)

\* The call of decode when only the length is known.
DecodeLength(kind, t, len) ==
    IF kind = "http" /\ t = DATA THEN Got(<<DATA, len>>)
    ELSE IF len = 0 THEN DecodePayload(kind, t, <<>>)
    ELSE Nothing

-----------------------------------------------------------------------------
(* FrameReader.                                                            *)

NewFrameReader == [st |-> "GetType", u |-> NewUint, t |-> 0]

\* FrameReader::new_with_type, for a request stream whose first type was
\* read with the head.
new_with_type(t) == [st |-> "GetLength", u |-> NewUint, t |-> t]

frame_min_remaining(r) ==
    IF r.st \in {"GetType", "GetLength"} THEN uint_min_remaining(r.u) ELSE r.u.remaining

decoding_in_progress(r) == r.st # "GetType" \/ r.u.remaining >= 0

\* Each of these returns the reader, with what it put out.
Step(r, res) == [r |-> r, res |-> res]

frame_type_decoded(kind, r, t) ==
    IF ~frame_type_allowed(kind, t) THEN Step(r, Failed("HttpFrameUnexpected"))
    ELSE Step(new_with_type(t), Nothing)

\* A frame whose length is known, with what decode makes of that.
LengthKnown(kind, r, len, f) ==
    IF ~f.ok THEN Step(r, f)
    ELSE IF ~f.none THEN Step(NewFrameReader, f)
    ELSE IF is_known_type(kind, r.t)
    THEN IF len > max_frame_data(kind, r.t) THEN Step(r, Failed("HttpExcessiveLoad"))
         ELSE Step([r EXCEPT !.st = "GetData", !.u = [v |-> <<>>, remaining |-> len]], Nothing)
    ELSE IF len = 0 THEN Step(NewFrameReader, Nothing)
    ELSE Step([r EXCEPT !.st = "Ignore", !.u = [v |-> <<>>, remaining |-> len]], Nothing)

frame_length_decoded(kind, r, len) == LengthKnown(kind, r, len, DecodeLength(kind, r.t, len))

frame_data_decoded(r, f) == Step(IF f.ok THEN NewFrameReader ELSE r, f)

IntConsumed(kind, r, int) ==
    IF int.remaining > 0 THEN Step([r EXCEPT !.u = int], Nothing)
    ELSE IF r.st = "GetType" THEN frame_type_decoded(kind, r, int.v)
    ELSE frame_length_decoded(kind, r, int.v)

BufferConsumed(kind, r, buf) ==
    IF buf.remaining > 0 THEN Step([r EXCEPT !.u = buf], Nothing)
    ELSE IF r.st = "GetData" THEN frame_data_decoded(r, DecodePayload(kind, r.t, buf.v))
    ELSE Step(NewFrameReader, Nothing)

frame_consume(kind, r, bytes) ==
    IF r.st \in {"GetType", "GetLength"} THEN IntConsumed(kind, r, uint_consume(r.u, bytes))
    ELSE BufferConsumed(kind, r, buffer_consume(r.u, bytes))

\* Connection::stream_recv for at most n bytes, at position p.
Avail(p) == given - p
Take(p, n) == SubSeq(stream.bytes, p + 1, p + (IF n < Avail(p) THEN n ELSE Avail(p)))
AtEnd(p) == fin /\ p = Len(stream.bytes)

\* What a call of a reader comes to: its state, the bytes it has read, what
\* it returns.
Ret(r, p, res, end) == [r |-> r, p |-> p, res |-> res, end |-> end]

RECURSIVE frame_receive(_, _)
FrameRound(s, q, dry) ==
    IF ~s.res.ok THEN Ret(s.r, q, s.res, FALSE)
    ELSE IF ~s.res.none THEN Ret(s.r, q, s.res, AtEnd(q))
    ELSE IF AtEnd(q)
    THEN Ret(s.r, q, IF decoding_in_progress(s.r) THEN Failed("HttpFrame") ELSE Nothing, TRUE)
    ELSE IF dry THEN Ret(s.r, q, Nothing, FALSE)
    ELSE frame_receive(s.r, q)

FrameBytes(r, p, bytes) ==
    FrameRound(IF bytes = <<>> THEN Step(r, Nothing) ELSE frame_consume(stream.kind, r, bytes),
               p + Len(bytes), bytes = <<>>)

frame_receive(r, p) == FrameBytes(r, p, Take(p, frame_min_remaining(r)))

-----------------------------------------------------------------------------
(* NewStreamHeadReader.                                                    *)

WEBTRANSPORT_UNI_STREAM == 84
WEBTRANSPORT_STREAM == 65

\* NewStreamType::final_stream_type; a stream's kind is its direction here.
final_stream_type(t) ==
    CASE stream.kind = "uni" /\ t = 0 -> Got(<<"Control">>)
      [] stream.kind = "uni" /\ t = 2 -> Got(<<"Decoder">>)
      [] stream.kind = "uni" /\ t = 3 -> Got(<<"Encoder">>)
      [] stream.kind = "uni" /\ t = WEBTRANSPORT_UNI_STREAM -> Nothing
      [] stream.kind = "bidi" /\ t = WEBTRANSPORT_STREAM -> Nothing
      [] stream.kind = "uni" /\ t = 1 -> Failed(IF stream.role = "client" THEN "HttpId" ELSE "HttpStreamCreation")
      [] stream.kind = "bidi" /\ stream.role = "server" ->
            IF ~frame_type_allowed("http", t) THEN Failed("HttpFrameUnexpected")
            ELSE IF is_known_type("http", t) /\ t # HEADERS THEN Failed("HttpFrame")
            ELSE Got(<<"Http", t>>)
      [] stream.kind = "bidi" /\ stream.role = "client" -> Failed("HttpStreamCreation")
      [] OTHER -> Got(<<"Unknown">>)

map_stream_fin(f) ==
    IF f.none THEN Failed("HttpStreamCreation")
    ELSE CASE f.v[1] \in {"Control", "Encoder", "Decoder"} -> Failed("HttpClosedCriticalStream")
           [] f.v[1] = "Http" -> Failed("HttpFrame")
           [] OTHER -> f

NewHeadReader == [st |-> "ReadType", u |-> NewUint, t |-> 0]

\* NewStreamHeadReader::read and get_type.
RECURSIVE head_receive(_, _)
HeadDone(r) == [r EXCEPT !.st = "Done"]

HeadTyped(r, q, f) ==
    IF ~f.ok THEN Ret(HeadDone(r), q, f, AtEnd(q))
    ELSE IF AtEnd(q) THEN Ret(HeadDone(r), q, map_stream_fin(f), TRUE)
    ELSE IF f.none THEN head_receive([r EXCEPT !.st = "ReadId", !.u = NewUint], q)
    ELSE Ret(HeadDone(r), q, f, FALSE)

HeadConsumed(r, q, u) ==
    IF u.remaining > 0
    THEN IF AtEnd(q) THEN Ret(HeadDone(r), q, Failed("HttpStreamCreation"), TRUE)
         ELSE head_receive([r EXCEPT !.u = u], q)
    ELSE IF r.st = "ReadId"
    THEN Ret(HeadDone(r), q, IF AtEnd(q) THEN Failed("HttpGeneralProtocol") ELSE Got(<<"WebTransport", u.v>>), AtEnd(q))
    ELSE HeadTyped(r, q, final_stream_type(u.v))

HeadBytes(r, p, bytes) ==
    IF bytes = <<>>
    THEN IF AtEnd(p) THEN Ret(HeadDone(r), p, Failed("HttpStreamCreation"), TRUE) ELSE Ret(r, p, Nothing, FALSE)
    ELSE HeadConsumed(r, p + Len(bytes), uint_consume(r.u, bytes))

head_receive(r, p) == HeadBytes(r, p, Take(p, uint_min_remaining(r.u)))

-----------------------------------------------------------------------------
(* QPACK: integers behind a prefix, literals, instructions.                *)

\* IntReader::new: the bits behind the prefix; all of them set mean more.
IntReader(b, prefix) ==
    LET mask == 2^(8 - prefix)
    IN [v |-> b % mask, cnt |-> 0, done |-> b % mask < mask - 1]

\* One round of IntReader::read.  Integers that pass 64 bits are refused by
\* the code; those of the model stay below 31.
int_read(i, b) ==
    [v |-> i.v + (b % 128) * 2^i.cnt, cnt |-> i.cnt + 7, done |-> b < 128]

\* LiteralReader::new_with_first_byte; the bit in front of the length says
\* whether the literal is Huffman coded.
LiteralReader(b, prefix) ==
    [st |-> "ReadLength", i |-> IntReader(b, prefix + 1),
     huffman |-> (b \div 2^(7 - prefix)) % 2 = 1, lit |-> <<>>]
FreshLiteral == [st |-> "ReadHuffman", i |-> IntReader(0, 1), huffman |-> FALSE, lit |-> <<>>]

\* The instructions: the prefix of each, and its integer or its literals.
EncoderInstruction(b) ==
    CASE b >= 192 -> "InsertWithNameRefStatic"
      [] b >= 128 /\ b < 192 -> "InsertWithNameRefDynamic"
      [] b >= 64 /\ b < 128 -> "InsertWithNameLiteral"
      [] b >= 32 /\ b < 64 -> "Capacity"
      [] b < 32 -> "Duplicate"

DecoderInstruction(b) ==
    CASE b >= 128 -> "HeaderAck" [] b >= 64 /\ b < 128 -> "StreamCancellation"
      [] b < 64 -> "InsertCountIncrement"

IntPrefix(name) ==
    CASE name \in {"Capacity", "Duplicate"} -> 3
      [] name = "HeaderAck" -> 1
      [] OTHER -> 2

\* DecoderInstruction::marshal and EncoderInstruction::marshal; the encoder
\* of the code writes two of its five instructions, its tests the others.
marshal(kind, i, use_huffman) ==
    LET First_(name) == CHOOSE b \in {0, 32, 64, 128, 192} :
            name = IF kind = "encoder" THEN EncoderInstruction(b) ELSE DecoderInstruction(b)
        plain == Prefix(0, 0)
    IN IF i[1] = "InsertWithNameLiteral"
       THEN encode_literal(use_huffman, Prefix(64, 2), i[2]) \o encode_literal(use_huffman, plain, i[3])
       ELSE encode_prefixed_encoded_int(Prefix(First_(i[1]), IntPrefix(i[1])), i[2])
                \o (IF Len(i) = 3 THEN encode_literal(use_huffman, plain, i[3]) ELSE <<>>)

NewInstruction == [st |-> "ReadInstruction", name |-> "", i |-> IntReader(0, 1),
                   l |-> FreshLiteral, args |-> <<>>]

\* decode_instruction_type, and the first state of the other reader.
decode_instruction_type(b) ==
    LET name == IF stream.kind = "encoder" THEN EncoderInstruction(b) ELSE DecoderInstruction(b)
    IN IF name = "InsertWithNameLiteral"
       THEN [NewInstruction EXCEPT !.st = "ReadFirstLiteral", !.name = name, !.l = LiteralReader(b, 2)]
       ELSE [NewInstruction EXCEPT !.st = "ReadFirstInt", !.name = name,
                                   !.i = IntReader(b, IntPrefix(name))]

Complete(r) == Got(<<r.name>> \o r.args)

\* An integer or a literal of an instruction is complete.
IntDone(r, v) ==
    LET r1 == [r EXCEPT !.args = Append(@, v)]
    IN IF r.name \in {"InsertWithNameRefStatic", "InsertWithNameRefDynamic"}
       THEN Step([r1 EXCEPT !.st = "ReadFirstLiteral", !.l = FreshLiteral], Nothing)
       ELSE Step(NewInstruction, Complete(r1))

LiteralDone(r, v) ==
    LET r1 == [r EXCEPT !.args = Append(@, v)]
    IN IF r.st = "ReadFirstLiteral" /\ r.name = "InsertWithNameLiteral"
       THEN Step([r1 EXCEPT !.st = "ReadSecondLiteral", !.l = FreshLiteral], Nothing)
       ELSE Step(NewInstruction, Complete(r1))

LiteralRead(r, plain) == IF plain.ok THEN LiteralDone(r, plain.v) ELSE Step(r, Failed("HuffmanDecompression"))

\* read_instructions.  A reader that meets the end of its stream fails,
\* whatever it has read with it.
RECURSIVE instruction_receive(_, _)
ReadsLiteral(r) == r.st \in {"ReadFirstLiteral", "ReadSecondLiteral"}
InBody(r) == ReadsLiteral(r) /\ r.l.st = "ReadLiteral"
IntReady(r) == \/ r.st = "ReadFirstInt" /\ r.i.done
               \/ ReadsLiteral(r) /\ r.l.st = "ReadLength" /\ r.l.i.done

\* An integer is complete: that of the instruction, or the length of a
\* literal.
IntegerStep(r) ==
    IF r.st = "ReadFirstInt" THEN IntDone(r, r.i.v)
    ELSE IF r.l.i.v > MAX_LEN THEN Step(r, Failed("Decoding"))
    ELSE Step([r EXCEPT !.l.st = "ReadLiteral"], Nothing)

ByteStep(r, b) ==
    CASE r.st = "ReadInstruction" -> Step(decode_instruction_type(b), Nothing)
      [] r.st = "ReadFirstInt" -> Step([r EXCEPT !.i = int_read(r.i, b)], Nothing)
      [] ReadsLiteral(r) /\ r.l.st = "ReadHuffman" -> Step([r EXCEPT !.l = LiteralReader(b, 0)], Nothing)
      [] ReadsLiteral(r) /\ r.l.st = "ReadLength" -> Step([r EXCEPT !.l.i = int_read(r.l.i, b)], Nothing)

InstructionStep(s, q) ==
    IF s.res.ok /\ s.res.none THEN instruction_receive(s.r, q) ELSE Ret(s.r, q, s.res, FALSE)

BodyBytes(r, body, q) ==
    IF Len(body) < r.l.i.v THEN Ret([r EXCEPT !.l.lit = body], q, Nothing, FALSE)
    ELSE InstructionStep(LiteralRead(r, IF r.l.huffman THEN huffman_decode(body) ELSE Read(body, <<>>)), q)

InstructionBytes(r, bytes, q) ==
    IF AtEnd(q) THEN Ret(r, q, Failed("ClosedCriticalStream"), TRUE)
    ELSE IF InBody(r) THEN BodyBytes(r, r.l.lit \o bytes, q)
    ELSE IF bytes = <<>> THEN Ret(r, q, Nothing, FALSE)
    ELSE InstructionStep(ByteStep(r, bytes[1]), q)

InstructionRead(r, p, bytes) == InstructionBytes(r, bytes, p + Len(bytes))

instruction_receive(r, p) ==
    IF IntReady(r) THEN InstructionStep(IntegerStep(r), p)
    ELSE InstructionRead(r, p, Take(p, IF InBody(r) THEN r.l.i.v - Len(r.l.lit) ELSE 1))

-----------------------------------------------------------------------------
(* What a connection is closed with when a reader fails.                    *)

\* Error of neqo-http3: those for the peer, and those for the application.
PeerErrors == {"HttpNone", "HttpGeneralProtocol", "HttpGeneralProtocolStream", "HttpInternal", "HttpStreamCreation",
    "HttpClosedCriticalStream", "HttpFrameUnexpected", "HttpFrame", "HttpExcessiveLoad", "HttpId", "HttpSettings",
    "HttpMissingSettings", "HttpRequestRejected", "HttpRequestCancelled", "HttpRequestIncomplete", "HttpConnect",
    "HttpVersionFallback", "HttpMessage", "Qpack"}
InternalErrors == {"AlreadyClosed", "AlreadyInitialized", "Fatal", "FlowControlLimit", "HttpGoaway", "Internal",
    "InvalidHeader", "InvalidInput", "InvalidRequestTarget", "InvalidResumptionToken", "InvalidState", "InvalidStreamId",
    "NotEnoughData", "StreamLimit", "Transport", "TransportStreamDoesNotExist", "Unavailable", "Unexpected"}
\* Error of neqo-qpack, in the same two groups.
QpackErrors == {"Decompression", "EncoderStream", "DecoderStream", "ClosedCriticalStream", "Internal"}
InternalQpackErrors == {"NeedMoreData", "HeaderLookup", "HuffmanDecompression", "BadUtf8", "ChangeCapacity",
    "DynamicTableFull", "IncrementAck", "IntegerOverflow", "WrongStreamCount", "Decoding", "EncoderStreamBlocked",
    "Transport", "Qlog"}

qpack_code(e) ==
    CASE e = "Decompression" -> 512 [] e = "EncoderStream" -> 513 [] e = "DecoderStream" -> 514
      [] e = "ClosedCriticalStream" -> 260 [] OTHER -> 3

\* Error::code; q is the error of QPACK that a "Qpack" carries.
code(e, q) ==
    CASE e = "HttpNone" -> 256 [] e = "HttpInternal" -> 258
      [] e \in {"HttpGeneralProtocol", "HttpGeneralProtocolStream", "InvalidHeader"} -> 257
      [] e = "HttpStreamCreation" -> 259 [] e = "HttpClosedCriticalStream" -> 260
      [] e = "HttpFrameUnexpected" -> 261 [] e = "HttpFrame" -> 262 [] e = "HttpExcessiveLoad" -> 263
      [] e = "HttpId" -> 264 [] e = "HttpSettings" -> 265 [] e = "HttpMissingSettings" -> 266
      [] e = "HttpRequestRejected" -> 267 [] e = "HttpRequestCancelled" -> 268 [] e = "HttpRequestIncomplete" -> 269
      [] e = "HttpMessage" -> 270 [] e = "HttpConnect" -> 271 [] e = "HttpVersionFallback" -> 272
      [] e = "Qpack" -> qpack_code(q)
      [] e \in InternalErrors \ {"InvalidHeader"} -> 3

\* stream_reset_error: an error that ends the stream and not the connection.
stream_reset_error(e) == e \in {"HttpGeneralProtocolStream", "InvalidHeader"}

\* map_error of the QPACK encoder, which reads the decoder's stream, and of
\* the decoder.
map_error(kind, e) ==
    IF e \in {"ClosedCriticalStream", "Internal"} THEN e
    ELSE IF kind = "encoder" THEN "EncoderStream" ELSE "DecoderStream"

\* From<QpackError>: the error of a reader, as one of HTTP/3.
FromQpack(q) == IF q = "ClosedCriticalStream" THEN <<"HttpClosedCriticalStream", q>> ELSE <<"Qpack", q>>
HttpError(kind, e) == IF kind \in {"encoder", "decoder"} THEN FromQpack(map_error(kind, e)) ELSE <<e, "none">>

-----------------------------------------------------------------------------
FrameKinds == {"http", "webtransport", "capsule", "connect-udp"}
HeadKinds == {"uni", "bidi"}
InstructionKinds == {"encoder", "decoder"}

Init ==
    /\ stream \in Inputs
    /\ given = 0 /\ fin = FALSE /\ taken = 0 /\ out = <<>> /\ skip = 0
    /\ err = "none" /\ idle = TRUE
    /\ reader = IF stream.kind \in FrameKinds THEN NewFrameReader
                ELSE IF stream.kind \in HeadKinds THEN NewHeadReader ELSE NewInstruction

\* A piece of the stream arrives, the last one perhaps with the end.
Arrive ==
    /\ ~fin
    /\ given' \in given..Len(stream.bytes)
    /\ fin' \in IF given' = Len(stream.bytes) THEN BOOLEAN ELSE {FALSE}
    /\ given' # given \/ fin'
    /\ idle' = FALSE
    /\ UNCHANGED <<stream, taken, reader, out, skip, err>>

Finished == err # "none" \/ reader.st = "Done" \/ (fin /\ idle)

\* The reader is called.
Receive ==
    /\ ~idle /\ ~Finished /\ skip = 0
    /\ \E c \in {IF stream.kind \in FrameKinds THEN frame_receive(reader, taken)
                 ELSE IF stream.kind \in HeadKinds THEN head_receive(reader, taken)
                 ELSE instruction_receive(reader, taken)} :
        /\ reader' = c.r /\ taken' = c.p
        /\ err' = IF c.res.ok THEN err ELSE c.res.e
        /\ out' = IF c.res.ok /\ ~c.res.none THEN Append(out, c.res.v) ELSE out
        /\ skip' = IF c.res.ok /\ ~c.res.none /\ stream.kind = "http" /\ c.res.v[1] = DATA
                   THEN c.res.v[2] ELSE 0
        /\ idle' = (c.end \/ (c.res.ok /\ c.res.none))
    /\ UNCHANGED <<stream, given, fin>>

\* The message reads the payload of a DATA frame, as much as there is.
ReadData ==
    /\ skip > 0 /\ Avail(taken) > 0
    /\ LET n == Len(Take(taken, skip))
       IN taken' = taken + n /\ skip' = skip - n
    /\ UNCHANGED <<stream, given, fin, reader, out, err, idle>>

Next == Arrive \/ Receive \/ ReadData

Spec == Init /\ [][Next]_vars

-----------------------------------------------------------------------------
(* The reference: what the bytes that arrived mean, read in one go.        *)

Means(o, e) == [out |-> o, err |-> e]

RECURSIVE AllFrames(_, _)
WithRest(i, rest) == Means(<<i>> \o rest.out, rest.err)
Cut(end) == Means(<<>>, IF end THEN "HttpFrame" ELSE "none")

FrameMeans(f, rest, end) ==
    IF ~f.ok THEN Means(<<>>, f.e)
    ELSE IF f.none THEN AllFrames(rest, end) ELSE WithRest(f.v, AllFrames(rest, end))

FrameLength(t, len, end) ==
    IF ~len.ok THEN Cut(end)
    ELSE IF stream.kind = "http" /\ t = DATA
    THEN WithRest(<<DATA, len.v>>, AllFrames(After(len.rest, IF len.v < Len(len.rest) THEN len.v ELSE Len(len.rest)), end))
    ELSE IF is_known_type(stream.kind, t) /\ len.v > max_frame_data(stream.kind, t) THEN Means(<<>>, "HttpExcessiveLoad")
    ELSE IF Len(len.rest) < len.v THEN Cut(end)
    ELSE FrameMeans(DecodePayload(stream.kind, t, First(len.rest, len.v)), After(len.rest, len.v), end)

FrameType(t, end) ==
    IF ~t.ok THEN Cut(end)
    ELSE IF ~frame_type_allowed(stream.kind, t.v) THEN Means(<<>>, "HttpFrameUnexpected")
    ELSE FrameLength(t.v, decode_varint(t.rest), end)

AllFrames(d, end) == IF d = <<>> THEN Means(<<>>, "none") ELSE FrameType(decode_varint(d), end)

\* A literal, or the error in it; too long is an error that does not wait.
LiteralError(n) == IF ~n.ok THEN "none" ELSE IF n.v > MAX_LEN THEN "Decoding"
                   ELSE IF Len(n.rest) < n.v THEN "none" ELSE "HuffmanDecompression"

OrError(x, e) == IF x.ok THEN x ELSE [ok |-> FALSE, e |-> e]
Literal(d, prefix) ==
    OrError(read_literal_from_buffer(d, prefix), LiteralError(read_prefixed_int(d, prefix + 1)))

RECURSIVE AllInstructions(_)
SecondArgument(name, a, b) ==
    IF b.ok THEN WithRest(<<name, a.v, b.v>>, AllInstructions(b.rest)) ELSE Means(<<>>, b.e)

FirstArgument(name, a) ==
    IF ~a.ok THEN Means(<<>>, a.e)
    ELSE IF name \in {"InsertWithNameLiteral", "InsertWithNameRefStatic", "InsertWithNameRefDynamic"}
    THEN SecondArgument(name, a, Literal(a.rest, 0))
    ELSE WithRest(<<name, a.v>>, AllInstructions(a.rest))

Instruction(name, d) ==
    FirstArgument(name, IF name = "InsertWithNameLiteral" THEN Literal(d, 2)
                        ELSE OrError(read_prefixed_int(d, IntPrefix(name)), "none"))

AllInstructions(d) ==
    IF d = <<>> THEN Means(<<>>, "none")
    ELSE Instruction(IF stream.kind = "encoder" THEN EncoderInstruction(d[1]) ELSE DecoderInstruction(d[1]), d)

\* The head of a stream: one integer, or two.  An end in the head, and one
\* right behind a type whose stream may not end there, is an error.
Head_(d) ==
    LET t == decode_varint(d)
        f == final_stream_type(t.v)
        id == decode_varint(t.rest)
    IN IF ~t.ok THEN Means(<<>>, IF fin THEN "HttpStreamCreation" ELSE "none")
       ELSE IF ~f.ok THEN Means(<<>>, f.e)
       ELSE IF ~f.none THEN Means(<<f.v>>, "none")
       ELSE IF id.ok THEN Means(<< <<"WebTransport", id.v>> >>, "none")
       ELSE Means(<<>>, IF fin THEN "HttpStreamCreation" ELSE "none")

Arrived == First(stream.bytes, given)

Meaning ==
    IF stream.kind \in FrameKinds THEN AllFrames(Arrived, fin)
    ELSE IF stream.kind \in HeadKinds THEN Head_(Arrived)
    ELSE AllInstructions(Arrived)

(***************************************************************************)
(* However the bytes of a stream are cut into pieces, and whenever its     *)
(* reader is called, the frames or instructions it returns are the first   *)
(* of those that the bytes mean, and it fails only if they are wrong; once *)
(* it asks for more it has returned all of them and noticed every error.   *)
(* Instructions that were marshalled, and frames that were encoded, come   *)
(* out as they went in.                                                    *)
(* This is what FrameReader::receive, read_instructions and the            *)
(* incremental decoders keep their states for.                             *)
(***************************************************************************)
PiecesDoNotMatter ==
    stream.kind \notin HeadKinds =>
        LET m == Meaning
            ended == fin /\ stream.kind \in InstructionKinds
        IN /\ IsPrefix(out, m.out)
           /\ err # "none" => err = m.err \/ (ended /\ err = "ClosedCriticalStream")
           /\ idle /\ skip = 0 => err # "none" \/ (out = m.out /\ m.err = "none")
           /\ stream.of # <<>> => IsPrefix(out, stream.of)
           /\ stream.of # <<>> /\ idle /\ given = Len(stream.bytes) /\ ~fin => out = stream.of

(***************************************************************************)
(* A reader that fails closes the connection, with a code that says what   *)
(* was wrong and never with the one of the errors that are internal: the   *)
(* readers of QPACK fail with errors that only map_error gives a name the  *)
(* peer knows.                                                             *)
(***************************************************************************)
ErrorIsNamed ==
    err # "none" =>
        /\ err \in PeerErrors \union InternalErrors \union QpackErrors \union InternalQpackErrors
        /\ code(HttpError(stream.kind, err)[1], HttpError(stream.kind, err)[2]) # 3
        /\ ~stream_reset_error(HttpError(stream.kind, err)[1])

(***************************************************************************)
(* The type of a stream is recognised by its head, and nothing behind the  *)
(* head is read: the bytes taken are those of the integers.  When the end  *)
(* of the stream comes with the head of a critical or a request stream,    *)
(* the stream fails as it would on reading that end later.                 *)
(***************************************************************************)
HeadIsRead ==
    stream.kind \in HeadKinds =>
        LET m == Meaning
        IN /\ err = "none" => IsPrefix(out, m.out)
           /\ err # "none" /\ m.err = "none" =>
                /\ fin /\ given = Len(stream.bytes) /\ taken = given
                /\ err = IF m.out[1][1] = "Http" THEN "HttpFrame" ELSE "HttpClosedCriticalStream"
           /\ m.err # "none" => err \in {"none", m.err}
           /\ idle => err # "none" \/ (out = m.out /\ m.err = "none")
           /\ out # <<>> =>
                \E n \in 1..2 : Varints(stream.bytes, n).ok
                    /\ taken = Len(stream.bytes) - Len(Varints(stream.bytes, n).rest)
=============================================================================
