-------------------------------- MODULE Wire --------------------------------
(***************************************************************************)
(* Packets on the wire: frame.rs, packet/mod.rs, and the code of the       *)
(* connection that assembles a datagram from packets and a batch from      *)
(* datagrams (build_packet_header, output_dgram_on_path,                   *)
(* output_dgram_batch_on_path).                                            *)
(*                                                                         *)
(* A datagram is the bytes that the packet builder wrote.  Packet          *)
(* protection is external: encrypting appends the bytes of a tag, Seal,    *)
(* and decrypting succeeds exactly on a packet that ends in one.  The mask *)
(* of header protection is applied twice on the way and is left out, as    *)
(* are the bits that scramble sets at random and no decoder looks at.      *)
(***************************************************************************)
EXTENDS Codec, FiniteSets

CONSTANTS
    Setups,     \* connections: [role, scone, mtu, version, token, pn, la, acks,
                \* and what they close with: "nothing", "transport", "application"]
    MaxFrames,  \* bound: frames asked for in a packet
    Requests,   \* the frames there are to write
    Samples,    \* frames that arrive from a peer
    MaxBatch,   \* datagrams in a batch
    FamilyMax   \* address_family_max_mtu

VARIABLES
    setup,      \* the connection: its role, scone_enabled(), the limit of
                \* the send profile, its version, the token of an Initial, the
                \* next packet number and the largest one acknowledged; the
                \* ranges to acknowledge and the closing frame when it closes
    buf,        \* the encoder: the datagram so far
    pkt,        \* the packet being built, None between packets
    space,      \* the packet number space the loop has come to
    initial,    \* initial_sent
    padding,    \* needs_padding
    sent,       \* what went into the datagram, packet by packet
    phase,      \* "build"; or "done", the datagram is complete; or the kind
                \* of a stateless packet
    batch,      \* the sizes of the batch's datagrams
    sample      \* a frame of a peer, and how much of it there is; or what a
                \* stateless packet is about

vars == <<setup, buf, pkt, space, initial, padding, sent, phase, batch, sample>>

role == setup.role
scone == setup.scone
mtu == setup.mtu

-----------------------------------------------------------------------------
(* Frames.  A frame is its type, its integers and its bytes.               *)

Frame(t, vs, data) == [t |-> t, vs |-> vs, data |-> data]

StreamTypes == 8..15
AckTypes == {2, 3}
MAX_STREAMS_LIMIT == 2^28
MAX_ACK_RANGE_COUNT == 32 * 1024
CidMaxLen == 20

Bit(n, b) == (n \div b) % 2 = 1

\* The integers behind the type, for each type but ACK and PADDING.
Integers_(t) ==
    CASE t \in {1, 7, 26, 27, 30, 48, 49} -> 0
      [] t \in {6, 16, 18, 19, 20, 22, 23, 25, 29} -> 1
      [] t \in {5, 17, 21, 24, 28} -> 2
      [] t \in {4, 175} -> 3
      [] t = 36 -> 4
      [] t \in StreamTypes -> IF Bit(t, 4) THEN 2 ELSE 1

FrameTypes == (0..30) \union {36, 48, 49, 175}

\* The bytes behind the integers.
DecodeData(t, d) ==
    CASE t \in {6, 7, 28, 29, 49} \/ (t \in StreamTypes /\ Bit(t, 2)) -> decode_vvec(d)
      [] t = 48 \/ (t \in StreamTypes /\ ~Bit(t, 2)) -> Read(d, <<>>)
      [] t \in {26, 27} -> decode(d, 8)
      [] t = 175 -> decode(d, 1)
      [] t = 24 -> LET cid == decode_vec(d, 1)
                       srt == IF cid.ok THEN decode(cid.rest, 16) ELSE None
                   IN IF srt.ok THEN Read(cid.v \o srt.v, srt.rest) ELSE None
      [] OTHER -> Read(<<>>, d)

\* The checks of each type on what it read.
Valid(t, vs, data) ==
    /\ t = 36 => vs[4] <= vs[3]
    /\ t \in {18, 19, 22, 23} => vs[1] <= MAX_STREAMS_LIMIT
    /\ t = 6 => vs[1] + Len(data) <= MAX_VARINT
    /\ t \in StreamTypes /\ Bit(t, 4) => vs[2] + Len(data) <= MAX_VARINT
    /\ t = 7 => data # <<>>
    /\ t = 24 => vs[2] <= vs[1] /\ Len(data) - 16 \in 1..CidMaxLen
    /\ t = 175 => vs[2] # 0 /\ data[1] \in {0, 1}

\* decode_ack: the ranges, and the counts of ACK_ECN.
decode_ack(t, d) ==
    LET head == Varints(d, 4)
        n == 2 * head.v[3] + (IF t = 3 THEN 3 ELSE 0)
        rest == Varints(head.rest, n)
    IN IF ~head.ok \/ head.v[3] >= MAX_ACK_RANGE_COUNT \/ ~rest.ok THEN None
       ELSE Read(Frame(t, head.v \o rest.v, <<>>), rest.rest)

BodyOf(t, ints, data) ==
    IF ~data.ok \/ ~Valid(t, ints, data.v) THEN None ELSE Read(Frame(t, ints, data.v), data.rest)

IntsRead(t, ints) == IF ints.ok THEN BodyOf(t, ints.v, DecodeData(t, ints.rest)) ELSE None

decode_body(t, d) == IntsRead(t, Varints(d, Integers_(t)))

\* Frame::decode.  The kinds of error are not told apart.
Padding(d, n) == Read(Frame(0, <<1 + n>>, <<>>), After(d, n))

FrameOf(t, n) ==
    IF ~t.ok \/ varint_len(t.v) # n - Len(t.rest) \/ t.v \notin FrameTypes THEN None
    ELSE IF t.v = 0 THEN Padding(t.rest, skip_while(t.rest, 0))
    ELSE IF t.v \in AckTypes THEN decode_ack(t.v, t.rest)
    ELSE decode_body(t.v, t.rest)

DecodeFrame(d) == FrameOf(decode_varint(d), Len(d))

\* What encode_frame writes for a frame, whoever writes it.
RECURSIVE EncodeAll(_)
EncodeAll(vs) == IF vs = <<>> THEN <<>> ELSE encode_varint(vs[1]) \o EncodeAll(Tail(vs))

EncodeFrame(f) ==
    LET ints == EncodeAll(<<f.t>> \o f.vs)
        n == Len(f.data)
    IN CASE f.t = 0 -> [i \in 1..f.vs[1] |-> 0]
         [] f.t \in {6, 7, 28, 29, 49} -> ints \o encode_vvec(f.data)
         [] f.t \in StreamTypes /\ Bit(f.t, 2) -> ints \o encode_vvec(f.data)
         [] f.t = 24 -> ints \o encode_vec(1, First(f.data, n - 16)) \o After(f.data, n - 16)
         [] OTHER -> ints \o f.data

\* Frame::stream_type.
stream_type(fin, nonzero_offset, fill) ==
    8 + (IF fin THEN 1 ELSE 0) + (IF fill THEN 0 ELSE 2) + (IF nonzero_offset THEN 4 ELSE 0)

ack_eliciting(f) == f.t \notin {0, 2, 3, 28, 29}

\* All the frames of a packet; None when one of them is refused.
RECURSIVE DecodeFrames(_)
FramesFrom(f, more) == IF more.ok THEN Read(<<f>> \o more.v, <<>>) ELSE None

FrameThen(f) == IF f.ok THEN FramesFrom(f.v, DecodeFrames(f.rest)) ELSE None

DecodeFrames(d) == IF d = <<>> THEN Read(<<>>, d) ELSE FrameThen(DecodeFrame(d))

-----------------------------------------------------------------------------
(* Ranges of an ACK frame, newest first, each as <<smallest, largest>>.    *)

\* Frame::decode_ack_frame on the pairs of a gap and a length.
AckStep(s, r) ==
    LET cur == s.cur - r[1] - 1
    IN IF ~s.ok \/ s.cur < r[1] + 1 \/ cur < r[2] THEN [s EXCEPT !.ok = FALSE]
       ELSE [ok |-> TRUE,
             cur |-> IF cur > r[2] + 1 THEN cur - (r[2] + 1) ELSE cur - r[2],
             out |-> Append(s.out, <<cur - r[2], cur>>)]

decode_ack_frame(largest, first, pairs) ==
    IF largest < first \/ (pairs # <<>> /\ largest < first + 1)
    THEN [ok |-> FALSE, cur |-> 0, out |-> <<>>]
    ELSE FoldLeft(AckStep,
                  [ok |-> TRUE, cur |-> largest - first - 1,
                   out |-> << <<largest - first, largest>> >>],
                  pairs)

\* The pairs of a decoded ACK frame.
Pairs(f) == [i \in 1..f.vs[3] |-> <<f.vs[3 + 2 * i], f.vs[4 + 2 * i]>>]

AckedBy(f) == decode_ack_frame(f.vs[1], f.vs[4], Pairs(f))

(***************************************************************************)
(* RecvdPackets::write_frame with encode_ack_fixed and encode_ack_ranges,  *)
(* for the ranges that need an ACK.  A further range is written when the   *)
(* space left holds the longest that a range could be.                     *)
(***************************************************************************)

\* A variant that takes one off a gap instead of two.
AckPairsOff(ranges) ==
    [i \in 1..Len(ranges) - 1 |->
        <<ranges[i][1] - ranges[i + 1][2] - 1, ranges[i + 1][2] - ranges[i + 1][1]>>]

AckPairs(ranges) ==
    [i \in 1..Len(ranges) - 1 |->
        <<ranges[i][1] - ranges[i + 1][2] - 2, ranges[i + 1][2] - ranges[i + 1][1]>>]

ASSUMED_ACK_RANGE_LEN == 16
RANGE_FRAME_SPACE == 512
MAX_EXTRA_ACK_RANGES == 63

\* How many of the pairs are written into so much space.
Fitting(pairs, space_left) ==
    LET budget == IF space_left < RANGE_FRAME_SPACE THEN space_left ELSE RANGE_FRAME_SPACE
        size(n) == Len(EncodeAll(FlattenSeq(SubSeq(pairs, 1, n))))
    IN CHOOSE n \in 0..Len(pairs) :
        /\ \A m \in 0..n - 1 : size(m) + ASSUMED_ACK_RANGE_LEN <= budget
        /\ n = Len(pairs) \/ n = MAX_EXTRA_ACK_RANGES \/ size(n) + ASSUMED_ACK_RANGE_LEN > budget

AckFrame(ranges, remaining) ==
    LET first == <<ranges[1][2], 0, 0, ranges[1][2] - ranges[1][1]>>
        fixed == 1 + Len(EncodeAll(first))
        pairs == AckPairs(ranges)
        n == Fitting(pairs, remaining - fixed)
    IN IF remaining < fixed THEN None
       ELSE Read(Frame(2, [first EXCEPT ![3] = n] \o FlattenSeq(SubSeq(pairs, 1, n)), <<>>), <<>>)

-----------------------------------------------------------------------------
(* The packet builder.                                                     *)

Tag == [i \in 1..16 |-> 256]
Expansion == 16
SAMPLE_OFFSET == 4
SAMPLE_SIZE == 16
MAX_PACKET_NUMBER_LEN == 4
LONG_PACKET_LENGTH_LEN == 2
MINIMUM_FRAME_SIZE == 2

Version1 == <<0, 0, 0, 1>>
Version2 == <<107, 51, 67, 207>>
Scone == {<<111, 125, 192, 253>>, <<239, 125, 192, 253>>}
Versions == {Version1, Version2}

dcid == <<7, 7>>
scid == <<9>>

TypeNumber == [Initial |-> 0, ZeroRtt |-> 1, Handshake |-> 2, Retry |-> 3]

\* Type::to_byte and Type::from_byte: version 2 counts from one.
to_byte(t, v) == (TypeNumber[t] + (IF v = Version2 THEN 1 ELSE 0)) % 4
from_byte(n, v) == CHOOSE t \in DOMAIN TypeNumber : to_byte(t, v) = n

Remaining(b, p) == IF p.limit > Len(b) THEN p.limit - Len(b) ELSE 0
is_full(b, p) == p.limit < Len(b) + MINIMUM_FRAME_SIZE

\* Builder::short and Builder::long: the header, if there is space for it.
LongHeader(t, v) ==
    <<192 + 16 * to_byte(t, v)>> \o v \o encode_vec(1, dcid) \o encode_vec(1, scid)

HeaderFits(b, t, limit) ==
    limit > Len(b)
        /\ (IF t = "Short" THEN 5 + Len(dcid) ELSE 11 + Len(dcid) + Len(scid)) < limit - Len(b)

StartHeader(b, t, v, limit) ==
    LET fits == HeaderFits(b, t, limit)
    IN [b |-> IF ~fits THEN b
              ELSE b \o (IF t = "Short" THEN <<64>> \o dcid ELSE LongHeader(t, v)),
        p |-> [t |-> t, v |-> v, token |-> <<>>, start |-> Len(b), pn_at |-> 0, len_at |-> 0,
               end |-> Len(b), pn |-> 0, w |-> 0, la |-> -1, frames |-> <<>>,
               limit |-> IF fits THEN limit ELSE 0]]

\* Builder::initial_token.
initial_token(s, token) ==
    IF vvec_len(Len(token)) < Remaining(s.b, s.p)
    THEN [b |-> s.b \o encode_vvec(token), p |-> [s.p EXCEPT !.token = token]]
    ELSE [s EXCEPT !.p.limit = 0]

\* A variant without the doubling.
PnLenNotDoubled(pn, la) ==
    LET range == IF la < 0 THEN pn + 1 ELSE pn - la
    IN CHOOSE n \in 1..4 : range < 256^n /\ (n = 1 \/ range >= 256^(n - 1))

\* The bytes of the packet number: those of twice the distance to the
\* largest one acknowledged.
pn_len(pn, la) ==
    LET range == IF la < 0 THEN pn + 1 ELSE 2 * (pn - la)
    IN CHOOSE n \in 1..4 : range < 256^n /\ (n = 1 \/ range >= 256^(n - 1))

\* Builder::pn.
put_pn(s, pn, la) ==
    LET long == s.p.t # "Short"
        need == MAX_PACKET_NUMBER_LEN + (IF long THEN LONG_PACKET_LENGTH_LEN ELSE 0)
        w == pn_len(pn, la)
        b == s.b \o (IF long THEN <<0, 0>> ELSE <<>>)
        at == Len(b)
    IN IF Remaining(s.b, s.p) < need THEN [s EXCEPT !.p.limit = 0]
       ELSE [b |-> overwrite(b \o encode_uint(w, pn % 256^w), s.p.start,
                             <<b[s.p.start + 1] + w - 1>>),
             p |-> [s.p EXCEPT !.pn = pn, !.w = w, !.la = la, !.pn_at = at, !.end = at + w,
                               !.len_at = IF long THEN Len(s.b) ELSE 0]]

\* Connection::build_packet_header.
build_packet_header(b, t, limit) ==
    LET s == StartHeader(b, t, setup.version, limit)
        s1 == IF t = "Initial" /\ Remaining(s.b, s.p) > 0 THEN initial_token(s, setup.token) ELSE s
    IN put_pn(s1, setup.pn, setup.la)

\* Builder::pad_before: padding so that len more bytes reach the limit.
pad_before(b, p, len) ==
    IF padding /\ p.t = "Short" /\ len < Remaining(b, p) THEN pad_to(b, p.limit - len, 0) ELSE b

\* A run of PADDING that pad_before wrote is one frame to the decoder.
PaddedFrames(b, b2, p) ==
    IF Len(b2) = Len(b) THEN p.frames
    ELSE Append(p.frames, Frame(0, <<Len(b2) - Len(b)>>, <<>>))

-----------------------------------------------------------------------------
(* The writers of frames: what each leaves of the builder.                 *)

Wrote(b, p, f) == [b |-> b \o EncodeFrame(f), p |-> [p EXCEPT !.frames = Append(@, f)]]

\* Builder::write_varint_frame.
write_varint_frame(b, p, f) ==
    IF Remaining(b, p) >= Len(EncodeFrame(f)) THEN Wrote(b, p, f) ELSE [b |-> b, p |-> p]

\* SendStream::length_and_fill.
length_and_fill(n, room) ==
    LET length == IF room - 1 < n THEN (IF room = 0 THEN 0 ELSE room - 1) ELSE n
    IN IF n >= room THEN <<room, TRUE>>
       ELSE <<n, n + varint_len(length) + MINIMUM_FRAME_SIZE > room>>

\* SendStream::write_stream_frame, for n bytes that are ready at an offset.
write_stream_frame(b, p, id, offset, n, last) ==
    LET overhead == 1 + varint_len(id) + (IF offset > 0 THEN varint_len(offset) ELSE 0)
        lf == length_and_fill(n, Remaining(b, p) - overhead)
        fin == last /\ lf[1] = n
        b2 == IF lf[2] THEN pad_before(b, p, overhead + lf[1]) ELSE b
        f == Frame(stream_type(fin, offset > 0, lf[2]),
                   <<id>> \o (IF offset > 0 THEN <<offset>> ELSE <<>>),
                   [i \in 1..lf[1] |-> i % 3])
        done == Wrote(b2, [p EXCEPT !.frames = PaddedFrames(b, b2, p)], f)
    IN IF overhead > Remaining(b, p) \/ (lf[1] = 0 /\ ~fin) THEN [b |-> b, p |-> p]
       ELSE IF lf[2] THEN [done EXCEPT !.p.limit = Len(done.b)] ELSE done

\* write_chunk of CryptoStreams::write_frame.
write_chunk(b, p, offset, n) ==
    LET header == 1 + varint_len(offset) + 1
        room == Remaining(b, p)
        l1 == IF n < room - header THEN n ELSE room - header
        h2 == header + varint_len(l1) - 1
        l2 == IF n < room - h2 THEN n ELSE room - h2
    IN IF room < header + 1 THEN [b |-> b, p |-> p]
       ELSE Wrote(b, p, Frame(6, <<offset>>, [i \in 1..l2 |-> 1 + (i % 3)]))

write_ack(b, p, ranges) ==
    LET f == AckFrame(ranges, Remaining(b, p))
    IN IF f.ok THEN Wrote(b, p, f.v) ELSE [b |-> b, p |-> p]

-----------------------------------------------------------------------------
(* The errors of the transport, and the frame that closes a connection.    *)

Errors == {"None", "Internal", "ConnectionRefused", "FlowControl", "StreamLimit", "StreamState",
    "FinalSize", "FrameEncoding", "TransportParameter", "ProtocolViolation", "InvalidToken",
    "Application", "CryptoBufferExceeded", "Crypto", "Qlog", "CryptoAlert", "EchRetry",
    "AckedUnsentPacket", "ConnectionIdLimitExceeded", "ConnectionIdsExhausted", "ConnectionState",
    "Decrypt", "DisabledVersion", "IdleTimeout", "IntegerOverflow", "InvalidInput",
    "InvalidMigration", "InvalidPacket", "InvalidResumptionToken", "InvalidRetry",
    "InvalidStreamId", "KeysDiscarded", "KeysExhausted", "KeysPending", "KeyUpdateBlocked",
    "NoAvailablePath", "NoMoreData", "NotAvailable", "NotConnected", "PacketNumberOverlap",
    "PeerApplication", "Peer", "StatelessReset", "TooManyPtos", "TooMuchData",
    "UnexpectedMessage", "UnknownConnectionId", "UnknownFrameType", "VersionNegotiation",
    "WrongRole", "UnknownTransportParameter"}

\* Error::code; alert is the number that CryptoAlert holds.
code(e, alert) ==
    CASE e \in {"None", "IdleTimeout", "Peer", "PeerApplication"} -> 0
      [] e = "ConnectionRefused" -> 2
      [] e = "FlowControl" -> 3
      [] e = "StreamLimit" -> 4
      [] e = "StreamState" -> 5
      [] e = "FinalSize" -> 6
      [] e = "FrameEncoding" -> 7
      [] e = "TransportParameter" -> 8
      [] e = "ProtocolViolation" -> 10
      [] e = "InvalidToken" -> 11
      [] e = "Application" -> 12
      [] e = "CryptoBufferExceeded" -> 13
      [] e = "KeysExhausted" -> 15
      [] e \in {"NoAvailablePath", "TooManyPtos"} -> 16
      [] e = "CryptoAlert" -> 256 + alert
      [] e = "EchRetry" -> 256 + 121
      [] e = "VersionNegotiation" -> 21496
      [] OTHER -> 1

\* ClosingFrame: with which kind of reason, the error or the application's
\* number, the frame it is about and the length of the phrase.
ClosingFrame(kind, error, n, frame_type, phrase) ==
    [kind |-> kind, error |-> error, n |-> n, frame_type |-> frame_type, phrase |-> phrase]

Closings(kind) ==
    CASE kind = "nothing" -> {None}
      [] kind = "transport" ->
            {ClosingFrame("Transport", e, 42, 6, IF e = "Internal" THEN 300 ELSE 0) : e \in Errors}
      [] kind = "application" -> {ClosingFrame("Application", "", n, 0, 300) : n \in {0, 70}}

\* ClosingFrame::sanitize.
sanitize(c) == IF c.kind = "Application" THEN ClosingFrame("Transport", "Application", 0, 0, 0) ELSE c

MIN_LENGTH == 1 + 8 + 8 + 2 + 8

\* ClosingFrame::write_frame.
write_close(b, p, c) ==
    LET available == IF Remaining(b, p) < 256 THEN Remaining(b, p) ELSE 256
        n == IF available < vvec_len(c.phrase) THEN available - 2 ELSE c.phrase
        reason == [i \in 1..n |-> i % 3]
    IN IF Remaining(b, p) < MIN_LENGTH THEN [b |-> b, p |-> p]
       ELSE Wrote(b, p, IF c.kind = "Transport"
                        THEN Frame(28, <<code(c.error, c.n), c.frame_type>>, reason)
                        ELSE Frame(29, <<c.n>>, reason))

USEFUL_ACK_LEN == 50

\* A variant that says the application's reason at every level.
WriteAnyClose(b, p) == write_close(b, p, setup.closing)

\* Connection::write_closing_frames.
write_closing_frames(b, p) ==
    LET a == IF setup.acks # <<>> /\ Remaining(b, p) > MIN_LENGTH + USEFUL_ACK_LEN
             THEN write_ack(b, [p EXCEPT !.limit = @ - MIN_LENGTH], setup.acks)
             ELSE [b |-> b, p |-> p]
    IN write_close(a.b, [a.p EXCEPT !.limit = p.limit],
                   IF p.t \in {"Short", "ZeroRtt"} THEN setup.closing ELSE sanitize(setup.closing))

\* Frame::is_allowed.
is_allowed(f, t) ==
    CASE f.t \in {0, 1} -> TRUE
      [] f.t \in {2, 3, 6, 28} -> t # "ZeroRtt"
      [] f.t \in {7, 27, 29, 30} -> t = "Short"
      [] OTHER -> t \in {"ZeroRtt", "Short"}

\* A request is served by the writer of its kind.
Serve(b, p, r) ==
    CASE r.kind = "varints" -> write_varint_frame(b, p, r.frame)
      [] r.kind = "stream" -> write_stream_frame(b, p, 4, r.offset, r.n, r.fin)
      [] r.kind = "crypto" -> write_chunk(b, p, r.offset, r.n)
      [] r.kind = "ack" -> write_ack(b, p, r.ranges)

Allowed(t, r) ==
    /\ r.kind \in {"varints", "stream"} => t \in {"Short", "ZeroRtt"}
    /\ r.kind = "crypto" => t \in {"Initial", "Handshake"}
    /\ r.kind = "ack" => t # "ZeroRtt"

\* Builder::build with pad_for_crypto and write_len: the bytes that padding
\* for the sample adds are PADDING frames to the decoder.
Built(b, p) ==
    LET b1 == pad_to(b, p.pn_at + MAX_PACKET_NUMBER_LEN, 0)
        len == Len(b1) - (p.len_at + LONG_PACKET_LENGTH_LEN) + Expansion
        b2 == IF p.t = "Short" THEN b1
              ELSE overwrite(b1, p.len_at, <<64 + (len \div 256), len % 256>>)
    IN [b |-> b2 \o Tag, frames |-> PaddedFrames(b, b1, p)]

-----------------------------------------------------------------------------
(* Reading a datagram.                                                     *)

\* Public::decode_pn: the number closest to the one expected.
decode_pn(expected, n, w) ==
    LET window == 256^w
        candidate == (expected \div window) * window + n
    IN IF candidate + window \div 2 <= expected THEN candidate + window
       ELSE IF candidate > expected + window \div 2 /\ candidate >= window
       THEN candidate - window
       ELSE candidate

\* Public::decode_long behind the connection IDs: a token, and the packet's
\* end.
LongBody(token, body) ==
    IF body.ok THEN Read([token |-> token.v, body |-> body.v], body.rest) ELSE None

LongToken(token) == IF token.ok THEN LongBody(token, decode_vvec(token.rest)) ELSE None

decode_long(t, d) ==
    IF t = "Retry"
    THEN IF Len(d) <= Expansion THEN None
         ELSE Read([token |-> First(d, Len(d) - Expansion), body |-> <<>>], <<>>)
    ELSE \* a length and so many bytes, which is what decode_vvec reads
         LongToken(IF t = "Initial" THEN decode_vvec(d) ELSE Read(<<>>, d))

(***************************************************************************)
(* Public::decode_inner: a packet and the datagram behind it.  A SCONE     *)
(* packet in front is taken off once.                                      *)
(***************************************************************************)
Public(t, v, token, body) == [t |-> t, v |-> v, token |-> token, body |-> body]

RECURSIVE decode_inner(_, _)
DecodedLong(t, v, long) ==
    IF long.ok THEN Read(Public(t, v, long.v.token, long.v.body), long.rest) ELSE None

LongPacket(first, v, dst, src, inner) ==
    IF ~src.ok THEN None
    ELSE IF v = <<0, 0, 0, 0>> THEN Read(Public("VersionNegotiation", <<>>, <<>>, src.rest), <<>>)
    ELSE IF v \in Scone THEN (IF inner THEN None ELSE decode_inner(src.rest, TRUE))
    ELSE IF v \notin Versions THEN Read(Public("OtherVersion", v, <<>>, <<>>), <<>>)
    ELSE IF Len(dst) > CidMaxLen \/ Len(src.v) > CidMaxLen THEN None
    ELSE DecodedLong(from_byte((first \div 16) % 4, v), v,
                     decode_long(from_byte((first \div 16) % 4, v), src.rest))

LongCids(first, v, dst, inner) ==
    IF dst.ok THEN LongPacket(first, v, dst.v, decode_vec(dst.rest, 1), inner) ELSE None

LongVersion(first, ver, inner) ==
    IF ver.ok THEN LongCids(first, ver.v, decode_vec(ver.rest, 1), inner) ELSE None

decode_inner(d, inner) ==
    IF d = <<>> THEN None
    ELSE IF d[1] >= 128 THEN LongVersion(d[1], decode(After(d, 1), 4), inner)
    ELSE IF Len(d) - 1 - Len(dcid) < SAMPLE_OFFSET + SAMPLE_SIZE THEN None
    ELSE Read(Public("Short", <<>>, <<>>, After(d, 1 + Len(dcid))), <<>>)

\* Public::decrypt_header and decrypt: None for what is not protected.
Decrypted(q, w, frames, expected) ==
    Read([t |-> q.t, v |-> q.v, token |-> q.token,
          pn |-> decode_pn(expected, BigEndian(First(q.body, w)), w),
          frames |-> IF frames.ok THEN frames.v ELSE << >>], <<>>)

decrypt(first, q, expected) ==
    IF \/ Len(q.body) < SAMPLE_OFFSET + SAMPLE_SIZE
       \/ \E i \in DOMAIN q.body : (q.body[i] = 256) # (i > Len(q.body) - Expansion)
    THEN None
    ELSE Decrypted(q, (first % 4) + 1,
                   DecodeFrames(SubSeq(q.body, (first % 4) + 2, Len(q.body) - Expansion)), expected)

\* The packets a receiver takes out of a datagram, as it expects numbers.
RECURSIVE ReadDatagram(_, _)
PacketRead(p, rest, expected) == IF p.ok THEN <<p.v>> \o ReadDatagram(rest, expected) ELSE <<>>

PacketAt(first, q, expected) ==
    IF ~q.ok \/ q.v.t \notin {"Initial", "ZeroRtt", "Handshake", "Short"} THEN <<>>
    ELSE PacketRead(decrypt(first, q.v, Head(expected)), q.rest, Tail(expected))

ReadDatagram(d, expected) ==
    IF d = <<>> \/ expected = <<>> THEN <<>> ELSE PacketAt(d[1], decode_inner(d, FALSE), expected)

-----------------------------------------------------------------------------
(* Version negotiation and Retry packets.                                  *)

\* Builder::retry: the tag behind the token is the external part.
retry(v, token) == LongHeader("Retry", v) \o token \o Tag

\* Builder::version_negotiation, with a greased version that cannot be the
\* client's: a client's version is four bytes.
version_negotiation(client, versions, g) ==
    LET grease == <<g * 16 + 10, g * 16 + 10, g * 16 + 10,
                    16 * (((client[4] + 16) % 256) \div 16) + 10>>
    IN <<128>> \o <<0, 0, 0, 0>> \o encode_vec(1, dcid) \o encode_vec(1, scid)
       \o FlattenSeq(versions) \o grease

\* Public::supported_versions.
supported_versions(q) == [i \in 1..Len(q.body) \div 4 |-> SubSeq(q.body, 4 * i - 3, 4 * i)]

-----------------------------------------------------------------------------
Idle == pkt = None /\ sample = None

\* The packets of each space; the client has 0-RTT keys or 1-RTT keys.
Spaces == <<{"Initial"}, {"Handshake"}, {"Short"} \union (IF role = "client" THEN {"ZeroRtt"} ELSE {})>>

SCONE_INDICATION == <<200, 19>>

Init ==
    /\ \E s \in Setups : \E c \in Closings(s.closing) : setup = [s EXCEPT !.closing = c]
    /\ buf = <<>> /\ pkt = None /\ space = 0 /\ initial = FALSE /\ padding = FALSE
    /\ sent = <<>> /\ phase = "build" /\ batch = <<>> /\ sample = None

\* The loop over the spaces opens a packet, or gives up for want of space.
Open ==
    /\ Idle /\ phase = "build" /\ space < 3
    /\ \E i \in space + 1..3 : \E t \in Spaces[i] :
        LET reserved == IF t = "Initial" /\ scone THEN Len(SCONE_INDICATION) ELSE 0
            s == build_packet_header(buf, t, mtu - reserved - Expansion)
        IN /\ space' = IF is_full(s.b, s.p) THEN 3 ELSE i
           /\ buf' = IF is_full(s.b, s.p) THEN buf ELSE s.b
           /\ pkt' = IF is_full(s.b, s.p) THEN None ELSE Read(s.p, <<>>)
    /\ UNCHANGED <<setup, initial, padding, sent, phase, batch, sample>>

\* The frames of a connection that closes.
WriteClosing ==
    /\ pkt.ok /\ setup.closing # None /\ pkt.v.frames = <<>>
    /\ LET s == write_closing_frames(buf, pkt.v)
       IN /\ s.b # buf
          /\ buf' = s.b /\ pkt' = Read(s.p, <<>>)
    /\ UNCHANGED <<setup, space, initial, padding, sent, phase, batch, sample>>

Write(r) ==
    /\ pkt.ok /\ setup.closing = None /\ Len(pkt.v.frames) < MaxFrames /\ Allowed(pkt.v.t, r)
    /\ LET s == Serve(buf, pkt.v, r)
       IN /\ s.b # buf
          /\ buf' = s.b /\ pkt' = Read(s.p, <<>>)
    /\ UNCHANGED <<setup, space, initial, padding, sent, phase, batch, sample>>

\* The packet is built, or dropped when no frame was written.
Close ==
    /\ pkt.ok
    /\ LET p == pkt.v
           eliciting == \E i \in DOMAIN p.frames : ack_eliciting(p.frames[i])
           b1 == IF eliciting \/ initial THEN pad_before(buf, p, 0) ELSE buf
           p1 == [p EXCEPT !.frames = PaddedFrames(buf, b1, p)]
           done == Built(b1, p1)
           deferred == p.t = "Initial" /\ (role = "client" \/ eliciting)
       IN IF Len(buf) = p.end
          THEN /\ buf' = First(buf, p.start)
               /\ UNCHANGED <<initial, padding, sent>>
          ELSE /\ buf' = done.b
               /\ sent' = Append(sent, [t |-> p.t, v |-> IF p.t = "Short" THEN <<>> ELSE p.v,
                                        token |-> p.token, pn |-> p.pn, la |-> p.la, w |-> p.w,
                                        limit |-> p.limit, len |-> Len(b1), frames |-> done.frames])
               /\ initial' = (initial \/ deferred)
               /\ padding' = IF p.t = "Short" THEN FALSE
                             ELSE IF deferred THEN TRUE
                             ELSE padding /\ ~(role = "client" /\ ~initial)
    /\ pkt' = None
    /\ UNCHANGED <<setup, space, phase, batch, sample>>

pad_initial(b) ==
    IF ~scone THEN pad_to(b, mtu, 0)
    ELSE IF mtu - Len(b) >= Len(SCONE_INDICATION)
    THEN pad_to(b, mtu - Len(SCONE_INDICATION) + 1, SCONE_INDICATION[1]) \o Tail(SCONE_INDICATION)
    ELSE pad_to(b, mtu, SCONE_INDICATION[1])

\* The datagram is complete: pad_initial, and its place in the batch.
Finish ==
    /\ Idle /\ phase = "build" /\ buf # <<>>
    /\ buf' = IF initial /\ padding THEN pad_initial(buf) ELSE buf
    /\ batch' = Append(batch, Len(buf'))
    /\ phase' = "done"
    /\ UNCHANGED <<setup, pkt, space, initial, padding, sent, sample>>

SumSizes(s) == FoldLeft(LAMBDA a, b: a + b, 0, s)

\* A variant that goes on behind a smaller datagram.
MoreAnyway(sizes) == Len(sizes) < MaxBatch /\ FamilyMax - SumSizes(sizes) >= mtu

\* The loop of output_dgram_batch_on_path goes on to another datagram.
MoreInBatch(sizes) ==
    /\ Len(sizes) < MaxBatch
    /\ sizes[1] >= mtu
    /\ FamilyMax - SumSizes(sizes) >= mtu
    /\ sizes[Len(sizes)] >= sizes[1]

NextDatagram ==
    /\ Idle /\ phase = "done" /\ MoreInBatch(batch)
    /\ buf' = <<>> /\ space' = 0 /\ initial' = FALSE /\ padding' = FALSE
    /\ sent' = <<>> /\ phase' = "build"
    /\ UNCHANGED <<setup, pkt, batch, sample>>

\* A server answers an unknown version, or asks for a token.
Stateless ==
    /\ Idle /\ phase = "build" /\ buf = <<>> /\ batch = <<>> /\ role = "server" /\ setup.closing = None
    /\ \/ \E client \in {<<10, 10, 10, 10>>, <<26, 26, 26, 26>>, <<10, 10, 10, 250>>}, g \in {0, 1, 15} :
            /\ buf' = version_negotiation(client, <<Version2, Version1>>, g)
            /\ sample' = Read(client, <<>>) /\ phase' = "version negotiation"
       \/ /\ buf' = retry(setup.version, setup.token) /\ sample' = Read(setup.token, <<>>)
          /\ phase' = "retry"
    /\ UNCHANGED <<setup, pkt, space, initial, padding, sent, batch>>

\* A frame arrives, or the first n bytes of one.
ReadSample ==
    /\ Idle /\ phase = "build" /\ buf = <<>> /\ batch = <<>> /\ setup.closing = None
    /\ \E f \in Samples : \E n \in 0..Len(EncodeFrame(f)) :
        sample' = Read(f, First(EncodeFrame(f), n))
    /\ UNCHANGED <<setup, buf, pkt, space, initial, padding, sent, phase, batch>>

Next == Open \/ Close \/ Finish \/ NextDatagram \/ Stateless \/ ReadSample \/ WriteClosing
        \/ \E r \in Requests : Write(r)

Spec == Init /\ [][Next]_vars

-----------------------------------------------------------------------------
(* Properties.                                                             *)

Content(p) ==
    [t |-> p.t, v |-> p.v, token |-> p.token, pn |-> p.pn, frames |-> p.frames]

(***************************************************************************)
(* A receiver reads from a complete datagram exactly the packets that were *)
(* put into it, in order, with their tokens, packet numbers and frames,    *)
(* whichever number it expects, and whatever padding is behind them.  This *)
(* is the agreement of the builder's offsets, lengths and reservations     *)
(* with Public::decode and Frame::decode.                                  *)
(***************************************************************************)
DatagramRoundTrip ==
    phase = "done" =>
        \A i \in DOMAIN sent :
            \A e \in (sent[i].la + 1)..(sent[i].pn + 1) :
                (e - sent[i].la < 3 \/ sent[i].pn - e < 3) =>
                    LET seen == ReadDatagram(buf, [j \in DOMAIN sent |->
                                    IF j = i THEN e ELSE sent[j].pn])
                    IN /\ Len(seen) = Len(sent)
                       /\ seen[i] = Content(sent[i])

\* What a client makes of a Version Negotiation packet, and of a Retry.
Offered(q, client) ==
    /\ q.ok /\ q.v.t = "VersionNegotiation"
    /\ SubSeq(supported_versions(q.v), 1, 2) = <<Version2, Version1>>
    /\ Len(supported_versions(q.v)) = 3
    /\ supported_versions(q.v)[3] \notin {client} \union Versions

Retried(q, token) ==
    IF token = <<>> THEN ~q.ok
    ELSE q.ok /\ q.v.t = "Retry" /\ q.v.v = setup.version /\ q.v.token = token

(***************************************************************************)
(* A client reads from a Version Negotiation packet the server's versions  *)
(* and one more that is not its own, even when its own looks like a        *)
(* greased one; and from a Retry packet the token, unless it is empty.     *)
(***************************************************************************)
StatelessRoundTrip ==
    /\ phase = "version negotiation" => Offered(decode_inner(buf, FALSE), sample.v)
    /\ phase = "retry" => Retried(decode_inner(buf, FALSE), sample.v)

(***************************************************************************)
(* No packet passes its limit, which is what build asserts, no datagram    *)
(* passes what the send profile allows, and a batch for segmentation       *)
(* offload has datagrams of one size, of which only the last is smaller.   *)
(***************************************************************************)
SizesHold ==
    /\ \A i \in DOMAIN sent : sent[i].len <= sent[i].limit \/ sent[i].limit = 0
    /\ Len(buf) <= mtu
    /\ \A i \in 1..Len(batch) - 1 : batch[i] = batch[1]
    /\ batch # <<>> => batch[Len(batch)] <= batch[1] /\ SumSizes(batch) <= FamilyMax

(***************************************************************************)
(* A peer's frame is read as it was written and nothing is left of it; of  *)
(* a frame that is cut short, nothing is read but the beginning of the     *)
(* data of one that runs to the end of its packet.                         *)
(***************************************************************************)
CutFramesRefused ==
    phase = "build" /\ sample.ok =>
        LET whole == EncodeFrame(sample.v)
            seen == DecodeFrame(sample.rest)
            open == sample.v.t \in {0, 48} \/ (sample.v.t \in StreamTypes /\ ~Bit(sample.v.t, 2))
        IN IF sample.rest = whole
           THEN seen = Read(sample.v, <<>>)
           ELSE seen.ok => /\ open /\ seen.v.t = sample.v.t
                           /\ seen.v.t # 0 => seen.v.vs = sample.v.vs
                                              /\ IsPrefix(seen.v.data, sample.v.data)

\* An ACK frame tells the peer about the ranges it was written from: the
\* first of them, in their order, as many as there was space for.
AcksDecoded(ranges, f) ==
    LET seen == AckedBy(f) IN seen.ok /\ IsPrefix(seen.out, ranges)

(***************************************************************************)
(* The encoder and the decoder of ACK ranges agree: every ACK frame that   *)
(* was put into a packet is decoded to the newest of the ranges it was     *)
(* written from.                                                           *)
(***************************************************************************)
AckRangesRoundTrip ==
    \A i \in DOMAIN sent : \A j \in DOMAIN sent[i].frames :
        sent[i].frames[j].t \in AckTypes =>
            \E r \in {q.ranges : q \in {x \in Requests : x.kind = "ack"}} \union {setup.acks} :
                AcksDecoded(r, sent[i].frames[j])

(***************************************************************************)
(* Every packet of a connection that closes tells the peer so: it holds a  *)
(* CONNECTION_CLOSE with the code of the error, or the application's own   *)
(* code where that may be sent and APPLICATION_ERROR in its place where it *)
(* may not.  And every frame of a packet is one that a receiver allows     *)
(* there: is_allowed, sanitize and the spaces of the writers agree.  In    *)
(* 0-RTT packets they do not: see the README.                              *)
(***************************************************************************)
CloseIsSaid ==
    \A i \in DOMAIN sent : sent[i].t # "ZeroRtt" \/ setup.closing = None =>
        /\ \A j \in DOMAIN sent[i].frames : is_allowed(sent[i].frames[j], sent[i].t)
        /\ setup.closing # None =>
            \E j \in DOMAIN sent[i].frames :
                LET f == sent[i].frames[j]
                    own == setup.closing.kind = "Transport"
                IN /\ f.t \in {28, 29}
                   /\ f.vs[1] = IF own THEN code(setup.closing.error, 42)
                                ELSE IF sent[i].t = "Short" THEN setup.closing.n ELSE 12
                   /\ Len(f.data) <= 254
=============================================================================
