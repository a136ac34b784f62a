--------------------------- MODULE CryptoStreams ---------------------------
(***************************************************************************)
(* The streams of CRYPTO frames (CryptoStreams in crypto.rs): how a        *)
(* ClientHello is cut at its server name and its pieces are written out of *)
(* order, how frames are acknowledged, lost, resent ahead of the probe     *)
(* timeout and put together again at the peer, and how streams go away     *)
(* with their packet number spaces.                                        *)
(*                                                                         *)
(* One endpoint, the client, sends in its Initial and Handshake spaces to  *)
(* its peer.  The bytes of a stream are tracked as the sets of offsets     *)
(* that were sent and acknowledged (TxBuffer), and received                *)
(* (RxStreamOrderer); RangeTracker and RxStreamOrderer model how.          *)
(***************************************************************************)
EXTENDS Codec

CONSTANTS
    Setups,       \* what is sent: [hello, finished, slicing, limit, used]
    FixedFields,  \* bytes before the session ID in a hello; 37 in the code
    BUFFER_LIMIT, \* CryptoStreams::BUFFER_LIMIT
    MaxPackets,   \* bound: packets sent
    Losses        \* bound: packets declared lost

VARIABLES
    setup,        \* the member of Setups
    mine, peers,  \* which streams there are: the variants of CryptoStreams
    tx,           \* per space: [data, sent, acked]
    rx,           \* per space, at the peer: [have, retired], and error
    packets,      \* packets that are under way or unaccounted for:
                  \* [space, frames, outstanding, arrived, fresh]
    sent,         \* packets sent
    early_resend_used,
    losses

vars == <<setup, mine, peers, tx, rx, packets, sent, early_resend_used, losses>>

Spaces == {"Initial", "Handshake", "ApplicationData"}

\* CryptoStreams::get: the streams that a variant has.
get(variant, space) ==
    space \in CASE variant = "Initial" -> Spaces
                [] variant = "Handshake" -> {"Handshake", "ApplicationData"}
                [] variant = "ApplicationData" -> {"ApplicationData"}

-----------------------------------------------------------------------------
(* find_sni: the offsets of the server name in the bytes of a ClientHello. *)

skip(r, n) == IF r.ok THEN decode(r.rest, n) ELSE None
skip_vec(r, n) == IF r.ok THEN decode_vec(r.rest, n) ELSE None

\* The extension that starts with the server name's length.
NameAt(buf, sni_len, r) ==
    IF ~r.ok \/ (sni_len.v - 3) > Len(r.rest) THEN None
    ELSE Read([start |-> Len(buf) - Len(r.rest), end |-> Len(buf) - Len(r.rest) + sni_len.v - 3], <<>>)

ServerName(buf, sni_len) ==
    IF ~sni_len.ok \/ sni_len.v < 3 THEN None ELSE NameAt(buf, sni_len, decode(sni_len.rest, 3))

RECURSIVE Extensions(_, _)
NextExtension(buf, r) == IF r.ok THEN Extensions(buf, r.rest) ELSE None

Extensions(buf, d) ==
    IF Len(d) < 4 THEN None
    ELSE IF BigEndian(First(d, 2)) = 0 THEN ServerName(buf, decode_uint(After(d, 4), 2))
    ELSE NextExtension(buf, decode(After(d, 4), BigEndian(SubSeq(d, 3, 4))))

find_sni(buf) ==
    IF buf = <<>> \/ buf[1] # 1 THEN None
    ELSE NextExtension(buf,
            skip(skip_vec(skip_vec(skip_vec(decode(Tail(buf), FixedFields), 1), 2), 1), 2))

-----------------------------------------------------------------------------
(* write_frame.                                                            *)

Chunk(offset, length) == [offset |-> offset, length |-> length]
Offsets(c) == c.offset .. (c.offset + c.length - 1)

\* write_chunk: what of a chunk fits into the bytes that remain, first with
\* one byte for the length, then with as many as that length takes.
Fits(c, room, header_len) ==
    Chunk(c.offset, Min({c.length,
        room - (header_len + varint_len(Min({c.length, room - header_len})) - 1)}))

write_chunk(c, room) ==
    LET header_len == 1 + varint_len(c.offset) + 1
    IN IF room < header_len + 1 THEN None ELSE Read(Fits(c, room, header_len), <<>>)

FrameLen(c) == 1 + varint_len(c.offset) + varint_len(c.length) + c.length

limit_chunks(left, right, limit) ==
    IF left.length + right.length <= limit THEN <<left, right>>
    ELSE IF left.length <= limit
    THEN LET right_len == right.length + left.length - limit
         IN <<left, Chunk(right.offset + right_len, right.length - right_len)>>
    ELSE IF right.length <= limit THEN <<Chunk(left.offset, limit - right.length), right>>
    ELSE <<Chunk(left.offset, limit \div 2), Chunk(right.offset, limit \div 2)>>

\* The two chunks of data with a server name, the right one first.
DivCeil(a, b) == (a + b - 1) \div b

Sliced(n, sni) ==
    LET mid == sni.start + ((sni.end - sni.start) \div 2)
    IN limit_chunks(Chunk(0, mid), Chunk(mid, n - mid), n \div DivCeil(n, setup.limit))

\* TxBuffer::next_bytes: the first bytes that are to be sent.
Unsent(t) == (0..(Len(t.data) - 1)) \ (t.sent \union t.acked)

NextFrom(t, start) ==
    Chunk(start, Min({e \in start..Len(t.data) : e \notin Unsent(t)}) - start)

next_bytes(t) == IF Unsent(t) = {} THEN None ELSE Read(NextFrom(t, Min(Unsent(t))), <<>>)

mark_as_sent(t, c) == [t EXCEPT !.sent = @ \union Offsets(c)]

\* A packet in the making: the stream and the frames written to it.
RECURSIVE WriteMore(_, _, _)
Written(t, c) == IF c.ok THEN mark_as_sent(t, c.v) ELSE t
Listed(c) == IF c.ok THEN <<c.v>> ELSE <<>>
Used(c) == IF c.ok THEN FrameLen(c.v) ELSE 0

\* A variant that sends all of what was to be sent, whatever was written.
WroteAll(t, frames, room, right, left) ==
    IF ~right.ok /\ ~left.ok THEN [t |-> t, frames |-> frames]
    ELSE [t |-> [t EXCEPT !.sent = 0..(Len(t.data) - 1)], frames |-> frames \o Listed(right) \o Listed(left)]

Wrote(t, frames, room, right, left) ==
    IF ~right.ok /\ ~left.ok THEN [t |-> t, frames |-> frames]
    ELSE IF right.ok /\ left.ok
    THEN [t |-> Written(Written(t, right), left), frames |-> frames \o <<right.v, left.v>>]
    ELSE WriteMore(Written(Written(t, right), left), frames \o Listed(right) \o Listed(left),
                   room - Used(right) - Used(left))

WriteRight(t, frames, room, left, right) ==
    Wrote(t, frames, room, right, write_chunk(left, room - Used(right)))

WriteSliced(t, frames, room, chunks) ==
    WriteRight(t, frames, room, chunks[1], write_chunk(chunks[2], room))

WriteNext(t, frames, room, c, sni) ==
    IF setup.slicing /\ sni.ok
    THEN WriteSliced(t, frames, room, Sliced(c.length, sni.v))
    ELSE Wrote(t, frames, room, write_chunk(c, room), None)

WriteAt(t, frames, room, c) ==
    WriteNext(t, frames, room, c, IF c.offset = 0 THEN find_sni(First(t.data, c.length)) ELSE None)

WriteMore(t, frames, room) ==
    IF Unsent(t) = {} THEN [t |-> t, frames |-> frames]
    ELSE WriteAt(t, frames, room, next_bytes(t).v)

write_frame(t, room) == WriteMore(t, <<>>, room)

-----------------------------------------------------------------------------
(* The streams that receive.                                               *)

\* What is received and in order.
Ready(have) == CHOOSE n \in 0..Cardinality(have) : n \notin have /\ (0..(n - 1)) \subseteq have

\* RxStreamOrderer::received is what it has counted beyond what was read.
Buffered(r) == Cardinality({o \in r.have : o >= r.retired})

inbound_frame(r, c) ==
    IF c.length > 0 /\ c.offset > r.retired + BUFFER_LIMIT THEN [r EXCEPT !.error = TRUE]
    ELSE LET with == [r EXCEPT !.have = @ \union Offsets(c)]
         IN IF Buffered(with) > BUFFER_LIMIT THEN [with EXCEPT !.error = TRUE] ELSE with

\* Frame::Crypto of input_frame: what is in order goes to TLS.
read_to_end(r) == IF r.error THEN r ELSE [r EXCEPT !.retired = Ready(r.have)]
Input(r, c) == IF r.error THEN r ELSE read_to_end(inbound_frame(r, c))

-----------------------------------------------------------------------------
Stream(data) == [data |-> data, sent |-> {}, acked |-> {}]
Empty == [have |-> {}, retired |-> 0, error |-> FALSE]

Init ==
    /\ setup \in Setups
    /\ mine = "Initial" /\ peers = "Initial"
    /\ tx = [s \in Spaces |-> Stream(IF s = "Initial" THEN setup.hello ELSE <<>>)]
    /\ rx = [s \in Spaces |-> Empty]
    /\ packets = <<>> /\ sent = 0 /\ early_resend_used = FALSE /\ losses = 0

\* The peer has all that was sent in a space.
Complete(space) == rx[space].retired = Len(tx[space].data)

\* Crypto::buffer_records: TLS, which has the peer's answer to its hello,
\* sends its last message, in the Handshake space.
Finish ==
    /\ Complete("Initial") /\ tx["Handshake"].data = <<>>
    /\ tx' = [tx EXCEPT !["Handshake"].data = setup.finished]
    /\ UNCHANGED <<setup, mine, peers, rx, packets, sent, early_resend_used, losses>>

\* Crypto::discard.  The client discards Initial with its first Handshake
\* packet, the peer with the first that arrives.
discard(variant, space) ==
    CASE space = "Initial" -> IF variant = "Initial" THEN "Handshake" ELSE variant
      [] space = "Handshake" -> IF variant = "Handshake" THEN "ApplicationData" ELSE variant

\* A packet is filled, behind what its header and other frames use.
Send ==
    /\ sent < MaxPackets /\ sent' = sent + 1
    /\ \E space \in {"Initial", "Handshake"} :
        /\ get(mine, space) /\ Unsent(tx[space]) # {}
        /\ \E u \in setup.used : \E w \in {write_frame(tx[space], setup.limit - u)} :
            /\ w.frames # <<>>
            /\ tx' = [tx EXCEPT ![space] = w.t]
            /\ packets' = Append(packets, [space |-> space, frames |-> w.frames, outstanding |-> TRUE,
                                arrived |-> FALSE, fresh |-> losses = 0 /\ ~early_resend_used])
        /\ mine' = IF space = "Handshake" THEN discard(mine, "Initial") ELSE mine
    /\ UNCHANGED <<setup, peers, rx, early_resend_used, losses>>

\* The i-th packet is p from now on, or of no more interest.
Update(i, p) ==
    packets' = IF p.outstanding \/ ~p.arrived THEN [packets EXCEPT ![i] = p] ELSE RemoveAt(packets, i)

\* A packet arrives; the keys of its space may be gone.
Arrive ==
    \E i \in DOMAIN packets : LET p == packets[i] IN
        /\ ~p.arrived /\ get(peers, p.space)
        /\ Update(i, [p EXCEPT !.arrived = TRUE])
        /\ rx' = [rx EXCEPT ![p.space] = FoldLeft(Input, @, p.frames)]
        /\ peers' = IF p.space = "Handshake" THEN discard(peers, "Initial") ELSE peers
        /\ UNCHANGED <<setup, mine, tx, sent, early_resend_used, losses>>

mark_as_acked(t, c) == [t EXCEPT !.acked = @ \union Offsets(c), !.sent = @ \ Offsets(c)]

mark_as_lost(t, c) == [t EXCEPT !.sent = @ \ Offsets(c)]

\* CryptoStreams::acked and lost, for the tokens of a packet.  A packet that
\* is declared lost may yet arrive.
Acked ==
    \E i \in DOMAIN packets : LET p == packets[i] IN
        /\ p.outstanding /\ p.arrived
        /\ Update(i, [p EXCEPT !.outstanding = FALSE])
        /\ tx' = IF get(mine, p.space) THEN [tx EXCEPT ![p.space] = FoldLeft(mark_as_acked, @, p.frames)] ELSE tx
        /\ UNCHANGED <<setup, mine, peers, rx, sent, early_resend_used, losses>>

Lost ==
    \E i \in DOMAIN packets : LET p == packets[i] IN
        /\ p.outstanding /\ losses < Losses
        /\ Update(i, [p EXCEPT !.outstanding = FALSE])
        /\ losses' = losses + 1
        /\ tx' = IF get(mine, p.space) THEN [tx EXCEPT ![p.space] = FoldLeft(mark_as_lost, @, p.frames)] ELSE tx
        /\ UNCHANGED <<setup, mine, peers, rx, sent, early_resend_used>>

\* Crypto::resend_unacked_early: what was sent in both spaces is sent again,
\* once, when the peer seems to miss it.
resend_unacked(space) ==
    IF get(mine, space) THEN [tx[space] EXCEPT !.sent = {}] ELSE tx[space]

ResendEarly ==
    /\ ~early_resend_used
    /\ tx' = [s \in Spaces |-> IF s = "ApplicationData" THEN tx[s] ELSE resend_unacked(s)]
    /\ early_resend_used' = (\E s \in {"Initial", "Handshake"} : get(mine, s) /\ tx[s].sent # {})
    /\ early_resend_used'
    /\ UNCHANGED <<setup, mine, peers, rx, packets, sent, losses>>

\* The handshake is confirmed.
DiscardHandshake ==
    /\ mine = "Handshake" /\ Complete("Handshake") /\ tx["Handshake"].data # <<>>
    /\ mine' = discard(mine, "Handshake")
    /\ UNCHANGED <<setup, peers, tx, rx, packets, sent, early_resend_used, losses>>

Next == Finish \/ Send \/ Arrive \/ Acked \/ Lost \/ ResendEarly \/ DiscardHandshake

Spec == Init /\ [][Next]_vars

-----------------------------------------------------------------------------
(* Properties.                                                             *)

\* The frames of packets whose fate is open.
InFlight(space) ==
    UNION {UNION {Offsets(c) : c \in Range(packets[i].frames)} :
           i \in {j \in DOMAIN packets : packets[j].outstanding /\ packets[j].space = space}}

(***************************************************************************)
(* No byte of the handshake is forgotten: while a stream is there, each is *)
(* still to be sent, or in a packet whose fate is open, or was             *)
(* acknowledged and then the peer has it, whatever the order in which the  *)
(* pieces of a cut hello were written, lost, resent and acknowledged, and  *)
(* whatever part of them fit; the peer never refuses what is sent so.      *)
(***************************************************************************)
HelloIsWhole ==
    /\ \A space \in {"Initial", "Handshake"} : get(mine, space) =>
        /\ tx[space].sent \subseteq InFlight(space)
        /\ tx[space].acked \subseteq rx[space].have
    /\ \A space \in Spaces : ~rx[space].error

(***************************************************************************)
(* With SNI slicing, no frame of a ClientHello's first transmission has    *)
(* the whole server name.                                                  *)
(***************************************************************************)
NameIsCut ==
    setup.slicing => \E sni \in {find_sni(setup.hello)} : sni.ok /\ sni.v.end - sni.v.start > 1 =>
        \A i \in DOMAIN packets : packets[i].fresh /\ packets[i].space = "Initial" =>
            \A c \in Range(packets[i].frames) : ~((sni.v.start..(sni.v.end - 1)) \subseteq Offsets(c))
=============================================================================
