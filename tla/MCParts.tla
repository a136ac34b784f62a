------------------------------ MODULE MCParts ------------------------------
(***************************************************************************)
(* Components that run on their own, for model checking.  A behaviour is   *)
(* one of a single part.  The parts share the variables v1 .. v14: those   *)
(* of a part stand for the variables of its module, in the order in which  *)
(* that module declares them, and the rest keep the value 0.               *)
(***************************************************************************)
EXTENDS Integers, Sequences, SequencesExt

CONSTANT Parts

VARIABLES part, v1, v2, v3, v4, v5, v6, v7, v8, v9, v10, v11, v12, v13, v14

vars == <<part, v1, v2, v3, v4, v5, v6, v7, v8, v9, v10, v11, v12, v13, v14>>

After13 == <<v14>>
After12 == <<v13, After13>>
After11 == <<v12, After12>>
After10 == <<v11, After11>>
After9 == <<v10, After10>>
After8 == <<v9, After9>>
After6 == <<v7, v8, After8>>
After4 == <<v5, v6, After6>>

Unused13 == v14 = 0
Unused12 == v13 = 0 /\ Unused13
Unused11 == v12 = 0 /\ Unused12
Unused10 == v11 = 0 /\ Unused11
Unused9 == v10 = 0 /\ Unused10
Unused8 == v9 = 0 /\ Unused9
Unused6 == v7 = 0 /\ v8 = 0 /\ Unused8
Unused4 == v5 = 0 /\ v6 = 0 /\ Unused6

Roles == {"client", "server"}
Repeat(n, x) == [i \in 1..n |-> x]
UpTo(n) == [i \in 1..n |-> i]

-----------------------------------------------------------------------------
(* The tables a connection keeps its streams in.                           *)

Stream(t, i) == [by |-> "client", type |-> t, index |-> i]
PerType(b, u) == [bidi |-> b, uni |-> u]

\* One bidirectional stream that either end may reset or stop.
BidiStream == INSTANCE Streams WITH
    snd <- v1, rcv <- v2, has_ended <- v3, local <- v4, remote <- v5, net <- v6, arrived <- v7,
    zero_rtt <- v8, error <- v9,
    Ids <- {Stream("bidi", 0)}, Window <- PerType(1, 1), Raised <- PerType(1, 1),
    Resumes <- FALSE, Commits <- {}, Stops <- Roles, Resets <- Roles

\* The same, and the client commits to a prefix.
Committed == INSTANCE Streams WITH
    snd <- v1, rcv <- v2, has_ended <- v3, local <- v4, remote <- v5, net <- v6, arrived <- v7,
    zero_rtt <- v8, error <- v9,
    Ids <- {Stream("bidi", 0)}, Window <- PerType(1, 1), Raised <- PerType(1, 1),
    Resumes <- FALSE, Commits <- {"client"}, Stops <- {"client"}, Resets <- Roles

\* Two unidirectional streams; the client resumes, and room for the second one
\* comes from a raised limit or from the end of the first.
Uni == INSTANCE Streams WITH
    snd <- v1, rcv <- v2, has_ended <- v3, local <- v4, remote <- v5, net <- v6, arrived <- v7,
    zero_rtt <- v8, error <- v9,
    Ids <- {Stream("uni", 0), Stream("uni", 1)}, Window <- PerType(1, 1), Raised <- PerType(1, 2),
    Resumes <- TRUE, Commits <- {}, Stops <- Roles, Resets <- {}

\* The application changes what the scheduler knows of two streams.
Calls == INSTANCE SendStreams WITH
    map <- v1, attr <- v2, data <- v3, queues <- v4, panicked <- v5, waited <- v6,
    Streams <- 1..2, Orders <- {1}, Groups <- {1}, Setters <- {"fairness", "sendorder", "sendgroup"},
    Fair <- {}, InitialOrder <- [s \in 1..2 |-> 0], InitialGroup <- [s \in 1..2 |-> 0],
    MaxData <- 2, Space <- 3, MaxWait <- 0, Ends <- TRUE

\* Three fair streams that compete for packets.
Turns == INSTANCE SendStreams WITH
    map <- v1, attr <- v2, data <- v3, queues <- v4, panicked <- v5, waited <- v6,
    Streams <- 1..3, Orders <- {1}, Groups <- {1}, Setters <- {"sendorder"},
    Fair <- 1..3, InitialOrder <- [s \in 1..3 |-> 0], InitialGroup <- [s \in 1..3 |-> 0],
    MaxData <- 2, Space <- 3, MaxWait <- 4, Ends <- TRUE

\* The same in two groups, when each stream can fill a packet.
TwoGroups == INSTANCE SendStreams WITH
    map <- v1, attr <- v2, data <- v3, queues <- v4, panicked <- v5, waited <- v6,
    Streams <- 1..3, Orders <- {1}, Groups <- {1}, Setters <- {},
    Fair <- 1..3, InitialOrder <- [s \in 1..3 |-> s \div 3],
    InitialGroup <- [s \in 1..3 |-> IF s = 1 THEN 0 ELSE 1],
    MaxData <- 2, Space <- 2, MaxWait <- 4, Ends <- TRUE

-----------------------------------------------------------------------------
(* The handshake.                                                          *)

\* Authentication by certificate, and an amplification limit of what was
\* received, so that a flight of two datagrams waits for the client.
Plain == [hello |-> 1, finished |-> 2, resumed |-> FALSE, factor |-> 1, data |-> {}, closers |-> {},
          losses |-> 0, early |-> 0, closes |-> 0, transit |-> 2]

Handshakes ==
    {[Plain EXCEPT !.losses = 2, !.transit = 9],
     \* A ClientHello that needs two datagrams.
     [Plain EXCEPT !.hello = 3, !.resumed = TRUE],
     \* Resumption, and application data before the handshake is complete.
     [Plain EXCEPT !.resumed = TRUE, !.factor = 3, !.data = Roles, !.losses = 1],
     \* A flight of two datagrams and data behind it, in any order.
     [Plain EXCEPT !.finished = 3, !.resumed = TRUE, !.factor = 3, !.data = {"server"}, !.transit = 3],
     \* A timer fires while datagrams are in transit.
     [Plain EXCEPT !.finished = 1, !.resumed = TRUE, !.early = 1, !.losses = 1],
     \* Either application closes; both do, or one of them twice.
     [Plain EXCEPT !.closers = Roles, !.closes = 1, !.losses = 1],
     [Plain EXCEPT !.closers = Roles, !.closes = 2]}

Connection == INSTANCE Handshake WITH
    setup <- v1, c <- v2, net <- v3, losses <- v4, early <- v5, closes <- v6,
    ServerHello <- 1, ClientFinished <- 1, Mtu <- 2, Capacity <- 2, MaxNumber <- 8, Setups <- Handshakes

-----------------------------------------------------------------------------
(* HTTP/3: messages on several streams, the connections of a client and a  *)
(* server, a WebTransport session, and a message that is written.          *)

Field(name, value) == [name |-> name, value |-> value, len |-> 1]
PerStream(a, b, c) == <<a, b, c>>
Remember(capacity, blocked) == {[capacity |-> capacity, blocked |-> blocked]}
FieldA == <<Field(1, 1)>>
FieldB == <<Field(2, 1)>>

\* One entry fits, and one stream may be blocked: its index is sent modulo 2.
Messaging == [capacity |-> 33, blocked |-> 1, remembered |-> {}, max_table_size |-> 99, tracked |-> 3,
              rooms |-> {3}, static |-> {}, remote |-> {}, kinds |-> {"final"},
         lists |-> PerStream({FieldA, FieldB}, {FieldA, FieldB}, {FieldA}), frames |-> PerStream(1, 1, 0),
         data |-> {}, resets |-> {}, stops |-> {}, buffers |-> {2}]
S1 == [Messaging EXCEPT !.frames = PerStream(1, 1, 1), !.lists = PerStream({FieldA}, {FieldB}, {FieldA}), !.blocked = 2, !.tracked = 2]
S2 == [Messaging EXCEPT !.frames = PerStream(2, 1, 0), !.lists = PerStream({FieldA, FieldB}, {FieldB}, {}), !.kinds = {"interim", "final", "trailers"}]
S3 == [Messaging EXCEPT !.frames = PerStream(1, 1, 0), !.resets = {1}, !.stops = {1, 2}, !.lists = PerStream({FieldA}, {FieldB}, {}), !.remote = {1}]
S4 == [Messaging EXCEPT !.frames = PerStream(4, 0, 0), !.data = {0, 2}, !.kinds = {"final", "trailers"}, !.lists = PerStream({FieldA}, {}, {}), !.buffers = {1, 3}, !.stops = {1}]
S5 == [Messaging EXCEPT !.remembered = Remember(0, 0), !.rooms = {0, 1, 2, 3}]
S6 == [Messaging EXCEPT !.lists = PerStream({<<Field(1, 1), Field(1, 2), Field(2, 1)>>}, {<<Field(3, 1), Field(1, 2)>>}, {}), !.capacity = 66, !.static = {Field(3, 3)}]

Messages == INSTANCE Http3Messages WITH
    setup <- v1, enc <- v2, dec <- v3, estream <- v4, dstream <- v5, settings_state <- v6, error <- v7,
    sm <- v8, wire <- v9, stopped <- v10, rx <- v11, rm <- v12, events <- v13, reading <- v14,
    Streams <- {1, 2, 3}, Setups <- {S1, S2, S3, S4, S5, S6}

Offer(table, blocked, connect, wt) ==
    [table |-> table, blocked |-> blocked, connect |-> connect, wt |-> wt, dgram |-> 0]
Full == Offer(1, 1, 1, 1)

\* A client without a ticket, and one request.
First == [resume |-> FALSE, old |-> Offer(0, 0, 0, 0), new |-> Full, closes |-> FALSE, requests |-> {0},
          connects |-> {}, goaways |-> 0, events |-> 1, cancels |-> {"client", "server"}, priority |-> TRUE]
Resumed == [First EXCEPT !.resume = TRUE, !.old = Full]
AllConnections == {
    [First EXCEPT !.requests = {0, 4}, !.goaways = 1, !.cancels = {}, !.priority = FALSE],
    [First EXCEPT !.goaways = 2, !.cancels = {}],
    [First EXCEPT !.connects = {0}, !.goaways = 1],
    [First EXCEPT !.closes = TRUE, !.cancels = {}],
    [Resumed EXCEPT !.goaways = 1, !.events = 2],
    [Resumed EXCEPT !.old = Offer(0, 1, 0, 0), !.new = Offer(1, 2, 1, 1)],
    [Resumed EXCEPT !.new = Offer(1, 1, 1, 0), !.events = 2]}

Http3 == INSTANCE Http3Connection WITH
    setup <- v1, tp <- v2, h <- v3, wire <- v4, rx <- v5, stop <- v6, half <- v7, ended <- v8, evq <- v9,
    app <- v10, processed <- v11, goaways <- v12, error <- v13,
    Requests <- {0, 4}, Unis <- {-1}, Setups <- AllConnections, StopOvertakes <- FALSE

Session(opens, resets, stops, blocks, cancels) ==
    [opens |-> opens, resets |-> resets, stops |-> stops, blocks |-> blocks, cancels |-> cancels,
     kind |-> "webtransport", quic |-> TRUE, datagrams |-> 0]
Sends(kind, quic, datagrams, blocks, cancels) ==
    [Session({}, {}, {}, blocks, cancels) EXCEPT !.kind = kind, !.quic = quic, !.datagrams = datagrams]
WebTransport == INSTANCE ExtendedConnect WITH
    setup <- v1, e <- v2, ctl <- v3, cstop <- v4, w <- v5, stop <- v6,
    Subs <- {"u", "b"}, Bidi <- {"b"}, Owner <- [u |-> "client", b |-> "server"],
    Held <- 1, Room <- 3, Capsules <- [small |-> 1, large |-> 3],
    Setups <- {Session({"server"}, Roles, Roles, {}, Roles),
               Session({"client"}, {"client"}, {"server"}, {"client"}, Roles),
               Session({"server"}, {"server"}, {"client"}, {"server"}, {"client"}),
               Sends("webtransport", TRUE, 2, {"client"}, {"server"}),
               Sends("connect-udp", TRUE, 1, {"server"}, {"client"}),
               Sends("connect-udp", FALSE, 3, {"server"}, {})}

Message(role, credit, limit, grants, writes, frames, options) ==
    [role |-> role, credit |-> credit, limit |-> limit, grants |-> grants, writes |-> writes, head |-> 2,
     frames |-> frames, commits |-> "commits" \in options, capsules |-> "capsules" \in options,
     stops |-> "stops" \in options]
\* A stream that is short of credit, and credit around each change of the length of a length.
Writer == INSTANCE SendMessage WITH
    setup <- v1, m <- v2, pending <- v3, writable <- v4, told <- v5, waiting <- v6, accepted <- v7,
    committed <- v8,
    Setups <- {Message("client", 0, 8, {1, 2}, {1, 3}, 3, {"commits"}),
               Message("server", 1, 8, {1, 3}, {2}, 3, {"stops"}),
               Message("server", 3, 10, {1, 3}, {1, 3}, 3, {"capsules"})}
              \cup {Message("server", c, c + 3, {1}, {100}, 2, {}) : c \in 66 .. 72}
              \cup {Message("client", c, c + 3, {3}, {20000}, 2, {}) : c \in 16387 .. 16393}
              \cup {Message("client", c, c, {2}, {2^30 + 2^29}, 2, {}) :
                          c \in {2^30 - 1, 2^30, 2^30 + 1, 2^30 + 2, 2^30 + 5, 2^30 + 10, 2^30 + 11}}

Told(n, options, arrivals, credits, stops) ==
    [streams |-> 1 .. n, arrivals |-> arrivals, credits |-> credits, stops |-> stops,
     zero_rtt |-> "zero_rtt" \in options, goaway |-> "goaway" \in options,
     creatable |-> "creatable" \in options, closes |-> "closes" \in options]
Events == INSTANCE ClientEvents WITH
    setup <- v1, conn <- v2, t <- v3, q <- v4, http <- v5, h <- v6, app <- v7, phase <- v8,
    Setups <- {Told(1, {"closes"}, 2, 1, 2), Told(1, {"closes", "zero_rtt"}, 1, 1, 0),
               Told(1, {"closes", "goaway", "creatable"}, 1, 0, 1), Told(2, {"goaway"}, 0, 0, 0)}

-----------------------------------------------------------------------------
(* Packets, frames, parameters and other forms of bytes.                   *)

V1 == <<0, 0, 0, 1>>
V2 == <<107, 51, 67, 207>>

Frame(t, vs, data) == [t |-> t, vs |-> vs, data |-> data]
InStream(offset, n) == [kind |-> "stream", offset |-> offset, n |-> n, fin |-> TRUE]
InCrypto(offset, n) == [kind |-> "crypto", offset |-> offset, n |-> n]
Ack(ranges) == [kind |-> "ack", ranges |-> ranges]
Requests == {[kind |-> "varints", frame |-> Frame(16, <<70>>, <<>>)],
    InStream(0, 3), InStream(70, 25), InStream(0, 200), InCrypto(0, 2), InCrypto(70, 90),
    Ack(<< <<3, 3>> >>), Ack(<< <<80, 90>>, <<5, 6>>, <<0, 3>> >>)}
\* A frame of every type.
Samples == {Frame(0, <<3>>, <<>>), Frame(1, <<>>, <<>>), Frame(2, <<9, 70, 1, 2, 1, 1>>, <<>>),
    Frame(3, <<9, 70, 0, 2, 1, 2, 70>>, <<>>), Frame(4, <<4, 9, 70>>, <<>>), Frame(5, <<4, 9>>, <<>>),
    Frame(6, <<70>>, UpTo(3)), Frame(7, <<>>, UpTo(2)), Frame(10, <<4>>, UpTo(3)),
    Frame(12, <<4, 70>>, UpTo(3)), Frame(15, <<4, 70>>, UpTo(3)), Frame(16, <<70>>, <<>>),
    Frame(17, <<4, 70>>, <<>>), Frame(18, <<70>>, <<>>), Frame(20, <<70>>, <<>>),
    Frame(21, <<4, 70>>, <<>>), Frame(23, <<70>>, <<>>), Frame(24, <<2, 1>>, UpTo(18)),
    Frame(25, <<70>>, <<>>), Frame(26, <<>>, UpTo(8)), Frame(28, <<70, 6>>, UpTo(2)),
    Frame(29, <<70>>, UpTo(2)), Frame(30, <<>>, <<>>), Frame(36, <<4, 1, 70, 3>>, <<>>),
    Frame(48, <<>>, UpTo(2)), Frame(49, <<>>, UpTo(2)), Frame(175, <<1, 2, 70>>, <<1>>)}
Sender(role, scone, mtu, version, token, pn, la) ==
    [role |-> role, scone |-> scone, mtu |-> mtu, version |-> version, token |-> token, pn |-> pn, la |-> la,
     acks |-> <<>>, closing |-> "nothing"]
Closer(role, closing, acks) ==
    [Sender(role, FALSE, 1200, V1, <<>>, 3, 1) EXCEPT !.acks = acks, !.closing = closing]
Packets == INSTANCE Wire WITH
    setup <- v1, buf <- v2, pkt <- v3, space <- v4, initial <- v5, padding <- v6, sent <- v7,
    phase <- v8, batch <- v9, sample <- v10,
    Requests <- Requests, Samples <- Samples, MaxFrames <- 2, MaxBatch <- 2, FamilyMax <- 2000,
    Setups <- {Sender("client", FALSE, 60, V1, <<>>, 0, -1), Sender("client", TRUE, 100, V2, UpTo(3), 130, 3),
               Sender("server", FALSE, 100, V1, <<>>, 300, 170), Sender("client", TRUE, 59, V1, UpTo(5), 66000, 255),
               Sender("server", TRUE, 70, V2, <<5>>, 128, 0),
               Closer("server", "transport", <<>>), Closer("client", "application", << <<3, 3>> >>)}

Config(v, g, r, d, m, z) ==
    [initial |-> v, all |-> <<V2, V1>>, disable_migration |-> FALSE, grease |-> g, scone |-> g,
     reliable_stream_reset |-> r, max_data |-> d, max_stream_data |-> 70, max_streams |-> m,
     idle_timeout |-> 30000, datagram_size |-> z,
     preferred_address |-> IF g THEN << <<1, 2, 3, 4, 5, 6>>, <<>> >> ELSE <<>>]
NoParameters == [x \in {} |-> 0]
Only(k, v) == [x \in {k} |-> v]
From(role, bytes, means) == [role |-> role, bytes |-> bytes, means |-> means]
\* Parameters that this code does not write: repeated, unknown, out of range,
\* of the wrong role or length.
Foreign == {
    From("client", <<1, 1, 9, 1, 1, 9>>, NoParameters),
    From("client", <<1, 1, 9, 64, 99, 2, 1, 1>>, Only("IdleTimeout", [kind |-> "integer", n |-> 9])),
    From("server", <<0, 1, 9>>, NoParameters),
    From("client", <<0, 1, 9>>, Only("OriginalDestinationConnectionId", [kind |-> "bytes", b |-> <<9>>])),
    From("client", <<2, 2, 9, 9>>, NoParameters),
    From("client", <<10, 1, 21>>, NoParameters),
    From("client", <<14, 1, 1>>, NoParameters),
    From("client", <<12, 1, 1>>, NoParameters),
    From("client", <<1, 2, 9, 9>>, NoParameters),
    From("client", <<4, 2, 64, 9>>, Only("InitialMaxData", [kind |-> "integer", n |-> 9])),
    From("client", <<17, 6, 0, 0, 0, 1, 0, 0>>, NoParameters),
    From("client", <<13, 42>> \o Repeat(24, 0) \o <<1, 3>> \o Repeat(16, 0), NoParameters),
    From("client", <<13, 42, 1, 2, 3, 4, 0, 0>> \o Repeat(18, 0) \o <<1, 3>> \o Repeat(16, 0), NoParameters),
    From("client", <<13, 41, 1, 2, 3, 4, 0, 1>> \o Repeat(18, 0) \o <<0>> \o Repeat(16, 0), NoParameters)}
Parameters == INSTANCE TransportParams WITH
    config <- v1, ticket <- v2, issued <- v3, client <- v4, result <- v5, seen <- v6,
    Foreign <- Foreign,
    Configs <- {Config(v, g, r, 70, m, z) : v \in {V1, V2}, g \in BOOLEAN, r \in {TRUE}, m \in {5, 16}, z \in {0, 1200}}
               \union {Config(V1, TRUE, r, d, 16, 0) : r \in BOOLEAN, d \in {0, 70}}

Encoding == INSTANCE Readers WITH
    stream <- v1, given <- v2, fin <- v3, taken <- v4, reader <- v5, out <- v6, skip <- v7, err <- v8, idle <- v9,
    Inputs <- {}
Arriving(kind, role, bytes) == [kind |-> kind, role |-> role, bytes |-> bytes, of |-> <<>>]
Http(bytes) == Arriving("http", "client", bytes)
Instructions(kind, is, huffman) ==
    [kind |-> kind, role |-> "client", of |-> is,
     bytes |-> FlattenSeq([i \in DOMAIN is |-> Encoding!marshal(kind, is[i], huffman)])]
ToDecoder == << <<"Capacity", 31>>, <<"InsertWithNameLiteral", <<97, 0>>, <<>> >>,
    <<"InsertWithNameRefStatic", 63, <<10, 97>> >>, <<"InsertWithNameRefDynamic", 1, <<48>> >>, <<"Duplicate", 300>> >>
ToEncoder == << <<"HeaderAck", 127>>, <<"StreamCancellation", 62>>, <<"InsertCountIncrement", 20000>> >>
Settings == << <<"MaxTableCapacity", 100>>, <<"EnableH3Datagram", 1>>, <<"EnableConnect", 0>> >>
\* Frames, with one of a random type in front of them, and a payload behind
\* a DATA frame.
Encoded(f) == Encoding!encode_hframe(f) \o (IF f[1] = 0 THEN Repeat(f[2], 5) ELSE <<>>)
Frames(fs) == [Http(Encoding!encode_hframe(<<33, <<7>> >>) \o FlattenSeq([i \in DOMAIN fs |-> Encoded(fs[i])])) EXCEPT !.of = fs]
Inputs == {
    Instructions("encoder", ToDecoder, TRUE), Instructions("encoder", ToDecoder, FALSE),
    Instructions("decoder", ToEncoder, FALSE),
    Frames(<< <<0, 2>>, <<984832, 64, <<117>> >> >>), Frames(<< <<1, <<9>> >>, <<7, 70, <<>> >> >>),
    Frames(<< <<4, << <<"EnableH3Datagram", 1>>, <<"EnableConnect", 1>> >> >> >>),
    Arriving("encoder", "client", <<226, 129, 0>>), Arriving("encoder", "client", <<98, 24, 0>>),
    Arriving("encoder", "client", <<63, 69, 2>>), Arriving("encoder", "client", <<255, 0, 2, 1, 1, 128, 129, 1, 7>>),
    Arriving("encoder", "client", <<98, 1, 1, 127, 0, 1, 1, 1>>), Arriving("encoder", "client", <<67, 1, 2, 3, 0, 31, 128, 1>>),
    Arriving("encoder", "client", <<95, 255, 255, 255, 1>>), Arriving("decoder", "client", <<255, 128, 1, 68, 127, 3, 5>>),
    Http(<<1, 2, 5, 6, 0, 3, 9, 9, 9, 64, 7, 1, 4>>), Http(Encoding!encode_hframe(<<4, Settings>>)),
    Http(<<4, 2, 6, 64>>), Http(<<4, 2, 2, 1>>), Http(<<4, 2, 8, 2>>), Http(<<33, 0, 64, 33, 2, 1, 1, 1, 0>>),
    Http(<<7, 0>>), Http(<<7, 2, 1, 1>>), Http(<<7, 9, 1>>), Http(<<8, 0>>), Http(<<5, 1, 1>>),
    Http(<<128, 15, 7, 0, 2, 64, 70>>), Http(<<0, 2, 1>>),
    Arriving("webtransport", "client", <<104, 67, 5, 0, 0, 0, 1, 97, 33, 1, 1>>),
    Arriving("webtransport", "client", <<104, 67, 3, 0, 0, 0>>),
    Arriving("capsule", "client", <<0, 2, 1, 1, 5, 1, 9, 0, 0>>), Arriving("connect-udp", "client", <<0, 2, 1, 1, 0, 0>>),
    Arriving("uni", "client", <<0, 4>>), Arriving("uni", "client", <<64, 84, 64, 70, 1>>), Arriving("uni", "server", <<1, 1>>),
    Arriving("uni", "client", <<33>>), Arriving("uni", "client", <<2>>), Arriving("uni", "server", <<64, 3>>),
    Arriving("uni", "client", <<128, 0, 0, 84, 4, 1>>),
    Arriving("bidi", "server", <<1, 0>>), Arriving("bidi", "server", <<1>>), Arriving("bidi", "server", <<7, 1>>),
    Arriving("bidi", "server", <<2, 1>>), Arriving("bidi", "client", <<64, 65, 4, 1>>), Arriving("bidi", "client", <<1, 1>>),
    Arriving("bidi", "server", <<64, 65>>)}
Pieces == INSTANCE Readers WITH
    stream <- v1, given <- v2, fin <- v3, taken <- v4, reader <- v5, out <- v6, skip <- v7, err <- v8, idle <- v9,
    Inputs <- Inputs

Coding(part_, huffman, entries) == [part |-> part_, use_huffman |-> huffman, max_entries |-> entries]
H(name, value) == [name |-> name, value |-> value]
Sections == INSTANCE FieldSections WITH
    setup <- v1, inserts <- v2, received <- v3, enc <- v4, fields <- v5, section <- v6, got <- v7,
    coded <- v8, message <- v9,
    Setups <- {Coding("sections", FALSE, 2), Coding("sections", TRUE, 1), Coding("huffman", TRUE, 1),
               Coding("Request", FALSE, 1), Coding("Response", FALSE, 1)},
    Strings <- {<<97, 10>>}, StaticRefs <- {62, 63}, MaxInserts <- 6, MaxFields <- 2,
    Bytes <- {0, 7, 31, 63, 127, 195, 224, 240, 254, 255}, MaxCoded <- 3, MaxHeaders <- 6,
    Headers <- {H(":method", "GET"), H(":method", "CONNECT"), H(":scheme", "https"), H(":scheme", "http"),
                H(":authority", "a"), H(":path", "/"), H(":protocol", "webtransport"), H(":protocol", "connect-udp"),
                H(":status", "100"), H(":status", "101"), H(":status", "none"), H("te", "trailers"), H("te", "other"),
                H("upgrade", "x"), H("regular", "illegal"), H(":unknown", "x")}

\* A ClientHello with a server name of the given length, and other extensions.
Hello(before, name, after) ==
    <<1, 9, 0, 0, 0, 0, 0, 0>> \o before \o <<0, 0, 0, 3 + name, 0, name + 3, 0, 0, name>> \o Repeat(name, 7) \o after
Extension(n) == <<0, 9, 0, n>> \o Repeat(n, 5)
Slices(hello, slicing, limit, used) ==
    [hello |-> hello, finished |-> <<1, 2>>, slicing |-> slicing, limit |-> limit, used |-> used]
Crypto == INSTANCE CryptoStreams WITH
    setup <- v1, mine <- v2, peers <- v3, tx <- v4, rx <- v5, packets <- v6, sent <- v7,
    early_resend_used <- v8, losses <- v9,
    FixedFields <- 1, BUFFER_LIMIT <- 64, MaxPackets <- 4, Losses <- 1,
    Setups <- {Slices(Hello(<<>>, 4, <<>>), TRUE, 40, {4}), Slices(Hello(<<>>, 4, Extension(6)), TRUE, 20, {3}),
               Slices(Hello(Extension(8), 4, <<>>), TRUE, 22, {4, 12}), Slices(Hello(<<>>, 6, Extension(4)), TRUE, 18, {2, 11}),
               Slices(Hello(Extension(2), 2, Extension(4)), FALSE, 24, {4})}

-----------------------------------------------------------------------------
(* Before and after a handshake, and the controllers of the window.        *)

Attempt(initial, all, server, validation, token, hello, expires) ==
    [initial |-> initial, all |-> all, server |-> server, validation |-> validation, token |-> token,
     hello |-> hello, expires |-> expires]
Versions == INSTANCE Negotiation WITH
    setup <- v1, client <- v2, conns <- v3, saved <- v4, validation <- v5, expired <- v6, net <- v7,
    cids <- v8, panicked <- v9, budget <- v10,
    Losses <- 0, Repeats <- 1, Timers <- 1, Batch <- 2,
    Setups <- {Attempt("v1", <<"v2", "v1">>, <<"v2", "v1", "d29">>, <<"Never">>, "none", 2, FALSE),
               Attempt("v1", <<"v2", "v1">>, <<"v1", "v2">>, <<"Always">>, "good", 2, TRUE),
               Attempt("v1", <<"v1">>, <<"v2", "v1">>, <<"NoToken", "Never">>, "bad", 1, FALSE),
               Attempt("d29", <<"d29", "v1", "v2">>, <<"v2", "v1">>, <<"Never">>, "none", 1, FALSE),
               Attempt("v1", <<"v2", "v1">>, <<"d29">>, <<"Never">>, "none", 1, FALSE)}

Resumption == INSTANCE Tokens WITH
    tokens <- v1, sent <- v2, frames <- v3, arriving <- v4, seen <- v5, pending <- v6, old <- v7,
    tickets <- v8, timer <- v9, released <- v10, now <- v11, losses <- v12,
    Tickets <- 3, MaxNewToken <- 2, MaxSavedTokens <- 3, Wait <- 1, MaxTime <- 3, Losses <- 1

ZeroRtt == INSTANCE EarlyData WITH
    setup <- v1, client <- v2, server <- v3, net <- v4,
    Setups <- [accept : BOOLEAN, hello : 1..2, items : {2}], MaxPn <- 2, Repeats <- 1

SampleRtts(k) == CASE k = "search" -> {7, 9} [] k \in {"classic", "reno"} -> {10} [] OTHER -> {10, 15, 16}
TimeSteps(k) == CASE k = "search" -> {4} [] k = "classic" -> {2} [] OTHER -> {}
CcBounds(k) == CASE k = "search" -> [pn |-> 6, time |-> 20, losses |-> 0]
                 [] k \in {"classic", "reno"} -> [pn |-> 5, time |-> 4, losses |-> 2]
                 [] OTHER -> [pn |-> 6, time |-> 0, losses |-> 1]
Controller == INSTANCE CcAlgorithms WITH
    ss <- v1, cubic <- v2, cc <- v3, undo <- v4, maybe_lost <- v5, limited <- v6, flight <- v7,
    next <- v8, now <- v9, losses <- v10,
    Kinds <- {"classic", "reno", "hystart", "threshold", "search"}, Mtu <- 10, InitialPkts <- 3, PACING_BURST_SIZE <- 2,
    N_RTT_SAMPLE <- 2, CSS_ROUNDS <- 2, CSS_GROWTH_DIVISOR <- 4, MIN_RTT_THRESH <- 4, MAX_RTT_THRESH <- 16,
    W <- 2, EXTRA_BINS <- 4, WINDOW_SIZE_FACTOR <- 70, THRESH <- 26,
    Rtts <- SampleRtts, Steps <- TimeSteps, Bounds <- CcBounds

-----------------------------------------------------------------------------
(* The programs, and the simulator of the tests.                           *)

Sockets == INSTANCE UdpLoop WITH
    role <- v1, pc <- v2, ret <- v3, cur <- v4, os <- v5, arrived <- v6, fed <- v7, endpoint <- v8,
    hand <- v9, wire <- v10, dropped <- v11, timeout <- v12, now <- v13,
    Roles <- Roles, NumSockets <- 2, NumBufs <- 2, MaxArrived <- 1, MaxOut <- 2, MaxTime <- 1,
    Bursts <- {<<0>>, <<2, 2, 1>>},
    Batches <- {[segments |-> 1, source |-> 2, dscp |-> <<"Le">>, ecn |-> "Ect0"],
                [segments |-> 2, source |-> 1, dscp |-> <<"Af", 4, 1>>, ecn |-> "NotEct"]}

Never == -1
NoCodel == [above |-> Never, dropping |-> FALSE, count |-> 0, last |-> 0, next |-> Never]
Client(ecn) == [kind |-> "client", goals |-> {"ReachState"}, remaining |-> 5,
    c |-> [buf |-> <<0>>, flight |-> {}, timer |-> 0, unread |-> 0, ecn |-> ecn]]
Server == [kind |-> "server", goals |-> {"ReachState"}, remaining |-> 5,
    c |-> [buf |-> <<>>, got |-> {}, unread |-> 0]]
Delay(n) == [kind |-> "delay", delay |-> n, queue |-> <<>>]
RandomDelay(S) == [kind |-> "random", range |-> S, queue |-> {}]
Drop == [kind |-> "drop"]
Mtu(n) == [kind |-> "mtu", mtu |-> n]
TailDrop(rate, capacity, aqm, delay) ==
    [kind |-> "taildrop", rate |-> rate, capacity |-> capacity, aqm |-> aqm, delay |-> delay,
     used |-> 0, queue |-> <<>>, next |-> Never, sub |-> 0, exact |-> Never, link |-> <<>>, sent |-> FALSE,
     received |-> 0, dropped |-> 0, delivered |-> 0, codel |-> NoCodel]
Network == INSTANCE Simulator WITH
    nodes <- v1, state <- v2, i <- v3, dgram <- v4, now <- v5, phase <- v6, drops <- v7, failed <- v8,
    Items <- 5, Window <- 4, Rto <- 20, Idle <- 60, OneSecond <- 10, Sub <- 4,
    CODEL_TARGET <- 2, CODEL_INTERVAL <- 4, CODEL_FAST_RESTART_WINDOW <- 16, Drops <- 2,
    Rings <- {<<Client("ect0"), TailDrop(7, 6, a, 1), Drop, Server, Delay(2)>> : a \in {"none", "codel", "red"}}
       \union {<<Client("none"), TailDrop(7, 6, "codel", 1), Server, Drop, Delay(2)>>,
               <<Client("ect0"), RandomDelay(1..2), Mtu(2), Server, Drop, TailDrop(2, 3, "codel", 0)>>}

Request(method, body, size, zeroes) == [method |-> method, body |-> body, size |-> size, zeroes |-> zeroes]
NoRequest == Request("none", 0, 0, FALSE)
Of(a, b) == [c \in {"a", "b"} |-> IF c = "a" THEN a ELSE b]
\* Two clients, of which one at a time is sent a response in several pieces.
Served == INSTANCE HttpServer WITH
    requests <- v1, phase <- v2, todo <- v3, transport <- v4, peer <- v5, out <- v6, handlers <- v7,
    events <- v8, posts <- v9, remaining_data <- v10, reports <- v11, faults <- v12,
    Conns <- {"a", "b"}, Streams <- 1..2, MAX_EVENT_DATA_SIZE <- 2, STREAM_IO_BUFFER_SIZE <- 2, Room <- 2, Faults <- 1,
    Setups <- {Of(<<Request("GET", 0, 3, FALSE), Request("POST", 3, 3, TRUE)>>, <<NoRequest, NoRequest>>),
               Of(<<Request("404", 0, 0, FALSE), NoRequest>>, <<Request("CONNECT", 0, 0, TRUE), Request("GET", 1, 0, TRUE)>>),
               Of(<<Request("GET", 0, 1, FALSE), NoRequest>>, <<Request("POST", 1, 1, FALSE), NoRequest>>)}

Run(qns_test, test, resume, us, concurrency, limit, size, accept) ==
    [qns_test |-> qns_test, test |-> test, resume |-> resume, urls |-> us, concurrency |-> concurrency,
     upload_size |-> 3, limit |-> limit, size |-> size, accept |-> accept]
\* Paths, the second below the first.
P1 == <<1>>
P2 == <<1, 2>>
P3 == <<2>>
Fetching == INSTANCE Fetch WITH
    setup <- v1, urls <- v2, first <- v3, token <- v4, handler <- v5, conn <- v6, net <- v7, server <- v8,
    files <- v9, fetched <- v10, phase <- v11,
    Room <- 1, MaxPartial <- 8,
    Setups <- {Run("none", "none", TRUE, <<P1, P3, P1>>, 2, 2, 1, FALSE),
               Run("http3", "none", FALSE, <<P1, P3>>, 1, 2, 0, FALSE),
               Run("bench", "none", FALSE, <<P1>>, 1, 1, 1, FALSE),
               Run("keyupdate", "none", FALSE, <<P1, P2>>, 2, 1, 2, FALSE),
               Run("zerortt", "none", FALSE, <<P1, P2, P3>>, 2, 2, 1, TRUE),
               Run("resumption", "none", FALSE, <<P1, P2, P3>>, 2, 1, 1, FALSE),
               Run("multiconnect", "none", FALSE, <<P1, P2>>, 1, 1, 1, FALSE)}

-----------------------------------------------------------------------------
(* The tables of streams, and SendStreams. *)
TablesInit ==
    /\ part \in Parts
    /\ \/ part = "bidi" /\ BidiStream!SInit /\ Unused9
       \/ part = "committed" /\ Committed!SInit /\ Unused9
       \/ part = "uni" /\ Uni!SInit /\ Unused9
       \/ part = "calls" /\ Calls!CInit /\ Unused6
       \/ part = "turns" /\ Turns!CInit /\ Unused6
       \/ part = "groups" /\ TwoGroups!CInit /\ Unused6

TablesNext ==
    /\ UNCHANGED part
    /\ \/ part = "bidi" /\ BidiStream!SNext /\ UNCHANGED After9
       \/ part = "committed" /\ Committed!SNext /\ UNCHANGED After9
       \/ part = "uni" /\ Uni!SNext /\ UNCHANGED After9
       \/ part = "calls" /\ Calls!CNext /\ UNCHANGED After6
       \/ part = "turns" /\ Turns!CNext /\ UNCHANGED After6
       \/ part = "groups" /\ TwoGroups!CNext /\ UNCHANGED After6

TablesSpec == TablesInit /\ [][TablesNext]_vars

(* HTTP/3. *)
HttpInit ==
    /\ part \in Parts
    /\ \/ part = "messages" /\ Messages!Init
       \/ part = "http" /\ Http3!Init /\ Unused13
       \/ part = "session" /\ WebTransport!Init /\ Unused6
       \/ part = "writer" /\ Writer!Init /\ Unused8
       \/ part = "events" /\ Events!Init /\ Unused8

HttpNext ==
    /\ UNCHANGED part
    /\ \/ part = "messages" /\ Messages!Next
       \/ part = "http" /\ Http3!Next /\ UNCHANGED After13
       \/ part = "session" /\ WebTransport!Next /\ UNCHANGED After6
       \/ part = "writer" /\ Writer!Next /\ UNCHANGED After8
       \/ part = "events" /\ Events!Next /\ UNCHANGED After8

HttpSpec == HttpInit /\ [][HttpNext]_vars

(* What the ends write for each other to read. *)
WireInit ==
    /\ part \in Parts
    /\ \/ part = "packets" /\ Packets!Init /\ Unused10
       \/ part = "parameters" /\ Parameters!Init /\ Unused6
       \/ part = "pieces" /\ Pieces!Init /\ Unused9
       \/ part = "sections" /\ Sections!Init /\ Unused9
       \/ part = "crypto" /\ Crypto!Init /\ Unused9
       \/ part = "versions" /\ Versions!Init /\ Unused10
       \/ part = "resumption" /\ Resumption!Init /\ Unused12
       \/ part = "early" /\ ZeroRtt!Init /\ Unused4

WireNext ==
    /\ UNCHANGED part
    /\ \/ part = "packets" /\ Packets!Next /\ UNCHANGED After10
       \/ part = "parameters" /\ Parameters!Next /\ UNCHANGED After6
       \/ part = "pieces" /\ Pieces!Next /\ UNCHANGED After9
       \/ part = "sections" /\ Sections!Next /\ UNCHANGED After9
       \/ part = "crypto" /\ Crypto!Next /\ UNCHANGED After9
       \/ part = "versions" /\ Versions!Next /\ UNCHANGED After10
       \/ part = "resumption" /\ Resumption!Next /\ UNCHANGED After12
       \/ part = "early" /\ ZeroRtt!Next /\ UNCHANGED After4

WireSpec == WireInit /\ [][WireNext]_vars

(* The programs around the library, and the algorithms of congestion control. *)
ProgramsInit ==
    /\ part \in Parts
    /\ \/ part = "window" /\ Controller!Init /\ Unused10
       \/ part = "sockets" /\ Sockets!Init /\ Unused13
       \/ part = "network" /\ Network!Init /\ Unused8
       \/ part = "served" /\ Served!Init /\ Unused12
       \/ part = "fetching" /\ Fetching!Init /\ Unused11

ProgramsNext ==
    /\ UNCHANGED part
    /\ \/ part = "window" /\ Controller!Next /\ UNCHANGED After10
       \/ part = "sockets" /\ Sockets!Next /\ UNCHANGED After13
       \/ part = "network" /\ Network!Next /\ UNCHANGED After8
       \/ part = "served" /\ Served!Next /\ UNCHANGED After12
       \/ part = "fetching" /\ Fetching!Next /\ UNCHANGED After11

ProgramsSpec == ProgramsInit /\ [][ProgramsNext]_vars

\* The handshake has a run, and fairness, of its own.
ConnectionSpec ==
    /\ part = "connection" /\ Connection!Init /\ Unused6
    /\ [][Connection!Next /\ UNCHANGED <<part, After6>>]_vars
    /\ Connection!Fairness

-----------------------------------------------------------------------------
BidiParts == {"bidi", "committed"}
TurnParts == {"turns", "groups"}

(* Streams: neither end meets an error, credit for streams is given back   *)
(* exactly for those that were forgotten, and what has ended is forgotten. *)
StreamsKept ==
    /\ part \in BidiParts => BidiStream!NoStreamError /\ BidiStream!CreditForForgotten /\ BidiStream!NothingLeftBehind
    /\ part = "uni" => Uni!NoStreamError /\ Uni!CreditForForgotten /\ Uni!NothingLeftBehind

(* SendStreams: the queues hold each stream once and where it belongs, no  *)
(* stream of a bucket is passed over again and again, a higher sendOrder   *)
(* goes first, and a packet has no room left that a stream could fill.     *)
StreamsScheduled ==
    /\ [](/\ part = "calls" => Calls!QueuesExact
          /\ part \in TurnParts => Turns!QueuesExact /\ Turns!StreamsTakeTurns)
    /\ [][/\ part = "calls" => Calls!HigherOrderFirst /\ Calls!PacketIsFilled
          /\ part \in TurnParts => Turns!HigherOrderFirst
          /\ part = "turns" => Turns!PacketIsFilled
          /\ part = "groups" => TwoGroups!PacketIsFilled]_vars

(* See SendStreams. *)
GroupsTakeTurns == part = "groups" => TwoGroups!GroupsTakeTurns

(* Handshake: keys outlive their use, an end that is confirmed knows that  *)
(* the other is complete, and no datagram stays saved.                     *)
HandshakeSafe ==
    /\ Connection!KeysOutliveTheirUse /\ Connection!ConfirmedTogether /\ Connection!NothingLeftSaved
(* Handshake: the handshake completes, and a connection that closes ends.  *)
ConnectionProgresses == Connection!HandshakeCompletes /\ Connection!ClosingEnds

(* Http3Messages: no message fails, the references of both QPACK tables    *)
(* are exact and the tables agree, and a stream that is blocked on one is  *)
(* released and the application told of it.  SendMessage: what is written  *)
(* is whole frames.  ClientEvents: what arrived is told.                   *)
MessagesArrive ==
    /\ part = "messages" => /\ Messages!NoError /\ Messages!ReferencesExact /\ Messages!TablesAgree
                            /\ Messages!BlockedAreReleased /\ Messages!AppIsTold
    /\ part = "writer" => Writer!FramesAreWhole
    /\ part = "events" => Events!ArrivalsAreTold
(* Http3Connection: the ends meet no error, each request ends in a         *)
(* response, an error or a refusal that can be retried, and what it used   *)
(* is released.                                                            *)
RequestsAccountedFor ==
    part = "http" => /\ Http3!NoConnectionError /\ Http3!RequestsAccountedFor
                           /\ Http3!HandlersAreReleased
(* ExtendedConnect: a session that ends takes its streams with it, and the *)
(* application knows of its streams and is told of its end.  SendMessage:  *)
(* one that waits for room to write is told of it.  ClientEvents: what     *)
(* ends is told, and nothing of it is told later.                          *)
EndIsTold ==
    /\ part = "session" => /\ WebTransport!StreamsAreCanceled /\ WebTransport!AppKnowsStreams
                           /\ WebTransport!EndIsTold
                           /\ WebTransport!DatagramsCounted /\ WebTransport!CapsulesResume
    /\ part = "writer" => Writer!WriterIsTold
    /\ part = "events" => Events!NothingAfterTheEnd /\ Events!EndsAreTold

(* Wire: what one end writes the other reads, within the size it was given.*)
PacketsRoundTrip ==
    part = "packets" =>
        /\ Packets!DatagramRoundTrip /\ Packets!SizesHold /\ Packets!CutFramesRefused
        /\ Packets!AckRangesRoundTrip /\ Packets!StatelessRoundTrip /\ Packets!CloseIsSaid
(* TransportParams: accepted 0-RTT exceeds no limit, and parameters are    *)
(* read as they were meant.                                                *)
PromisesKept == part = "parameters" => Parameters!PromisesKept /\ Parameters!ParametersRoundTrip
(* Readers: it does not matter in which pieces a stream arrives, and what  *)
(* is wrong in it closes the connection with a code that says so.          *)
PiecesDoNotMatter == part = "pieces" => Pieces!PiecesDoNotMatter /\ Pieces!HeadIsRead /\ Pieces!ErrorIsNamed
(* FieldSections: fields are read as they were written.                    *)
SectionsRoundTrip ==
    part = "sections" => Sections!SectionRoundTrip /\ Sections!HuffmanExact /\ Sections!MessagesWellFormed
(* CryptoStreams: the ClientHello arrives whole, its name in two packets.  *)
HelloIsWhole == part = "crypto" => Crypto!HelloIsWhole /\ Crypto!NameIsCut
(* Negotiation: honest ends agree on the version both prefer.              *)
VersionAgreed ==
    part = "versions" => Versions!HonestNeverFails /\ Versions!VersionAgreed /\ Versions!AcceptedAreRead
(* Tokens and EarlyData: a token is released once and in time, early data  *)
(* counts once, and no packet number is used twice with a key.             *)
ResumptionSound ==
    /\ part = "resumption" => Resumption!TokensExactlyOnce /\ Resumption!TicketsAreTimed
    /\ part = "early" => ZeroRtt!EarlyDataMeansOnce /\ ZeroRtt!NumbersFresh
(* CcAlgorithms: rounds and bins are those of the packets, a spurious      *)
(* reduction is undone whole, and conservative slow start is slower.       *)
WindowFollows ==
    /\ [](part = "window" => Controller!RoundsAreCounted /\ Controller!BinsHold /\ Controller!UndoIsWhole)
    /\ [][part = "window" => Controller!GrowsSlower]_vars

(* UdpLoop: the loop sleeps only when nothing is left to do, and datagrams *)
(* pass through it once and in order.                                      *)
LoopIsLive == part = "sockets" => Sockets!SleepsSafely /\ Sockets!DatagramsOnceInOrder
(* Simulator: nodes run at the time they asked for, and the link keeps to  *)
(* its rate and loses nothing silently.                                    *)
SimulationIsExact == part = "network" => Network!TimeIsExact /\ Network!LinkIsHonest
(* HttpServer: a response is the one that was asked for, and none is left. *)
RequestsAnswered == part = "served" => Served!OwnResponse /\ Served!NothingForgotten
(* Fetch: every URL is fetched once into its file, and the client ends.    *)
EveryUrlFetched == part = "fetching" => Fetching!EveryUrlFetched /\ Fetching!NoStall /\ Fetching!TestsAgree
=============================================================================
