-------------------------------- MODULE Fetch --------------------------------
(***************************************************************************)
(* neqo-client fetching URLs (neqo-bin client/mod.rs, client/http3.rs and  *)
(* client/http09.rs), and the server of neqo-server for HTTP/0.9           *)
(* (server/http09.rs).                                                     *)
(*                                                                         *)
(* The transport, and the server for HTTP/3, are external: see HttpServer. *)
(* Requests and responses arrive in pieces.  A client that resumes sends   *)
(* requests in 0-RTT, which the server accepts or rejects.                 *)
(***************************************************************************)
EXTENDS Integers, Sequences, SequencesExt, FiniteSets, FiniteSetsExt

CONSTANTS
    Setups,      \* [qns_test, test, resume, urls, concurrency, upload_size, limit, size, accept]:
                 \* options of the client, and the server's streams, files and 0-RTT
    Room,        \* what may be sent ahead of the reader
    MaxPartial   \* what is kept of a request that is not complete: 4096

VARIABLES
    setup,
    urls, first, token,     \* of client()
    handler,                \* [queue, handled, streams, all_paths, token, needs_key_update]
    conn,                   \* [state, zrtt, events, next, limit, ticket]
    net,                    \* the streams of the connection, by number
    server,                 \* [events, write_state, read_state] of HTTP/0.9
    files,                  \* what was written to each output file
    fetched,                \* the responses that were read to the end: [url, body]
    phase

vars == <<setup, urls, first, token, handler, conn, net, server, files, fetched, phase>>

h3 == setup.args.shared.alpn = "h3"
Upload == setup.args.method = "POST"
Path(u) == setup.args.urls[u]
Without(f, x) == [y \in DOMAIN f \ {x} |-> f[y]]
With(f, x, v) == [y \in DOMAIN f \cup {x} |-> IF y = x THEN v ELSE f[y]]
None == -1
Event(k, s, f) == [kind |-> k, stream |-> s, fin |-> f]
Plain(k) == Event(k, None, FALSE)
PushUnique(q, e) == IF e \in ToSet(q) THEN q ELSE Append(q, e)

\* The bytes of a request for HTTP/0.9, "GET /", the path and the end of the line.
GET == 0
EOL == 9
Request(path) == <<GET>> \o path \o <<EOL>>

-----------------------------------------------------------------------------
(* The command lines of client and server, as far as they decide what is   *)
(* fetched and over what: the defaults, and what a test of the interop     *)
(* runner changes.  "none" is an option that is not given.                 *)

QuicParameters == [quic_version |-> <<>>, max_streams_bidi |-> 16, no_pacing |-> FALSE, no_pmtud |-> FALSE,
                   no_sni_slicing |-> FALSE]
SharedArgs == [alpn |-> "h3", qns_test |-> "none", ciphers |-> {}, quic_parameters |-> QuicParameters]
Args == [shared |-> SharedArgs, urls |-> <<>>, method |-> "GET", download_in_series |-> FALSE, concurrency |-> 100,
         resume |-> FALSE, key_update |-> FALSE, test |-> "none", upload_size |-> 100]

\* Args::new(), for the benchmarks.
new(n, url, upload_size) ==
    [Args EXCEPT !.urls = [j \in 1 .. n |-> url], !.method = IF upload_size = 0 THEN "GET" ELSE "POST",
                 !.upload_size = upload_size]

\* The arguments of a setup.
Command(s) ==
    IF s.qns_test = "bench" THEN [new(Len(s.urls), s.urls[1], s.upload_size) EXCEPT !.concurrency = s.concurrency]
    ELSE [Args EXCEPT !.shared.qns_test = s.qns_test, !.test = s.test, !.resume = s.resume, !.urls = s.urls,
                      !.concurrency = s.concurrency, !.upload_size = s.upload_size]

\* Version::all(), best first; QuicParameters::get(): the version to start with, and all of them.
\* A first version that is listed again has the place of the second entry.
AllVersions == <<"v2", "v1", "d29">>
get(q, alpn) ==
    IF q.quic_version = <<>>
    THEN [initial |-> CASE alpn \in {"h3", "hq-interop"} -> "v1" [] alpn \in {"h3-29", "hq-29"} -> "d29" [] OTHER -> "v1",
          all |-> AllVersions]
    ELSE LET first_ == Head(q.quic_version)
             rest == Tail(q.quic_version)
         IN  [initial |-> first_, all |-> IF first_ \in ToSet(rest) THEN rest ELSE q.quic_version]

\* Args::update_for_tests(), of the client: <<>> when it exits with 127.
ForTest(a, test) ==
    CASE test = "http3" ->
            IF a.test \notin {"none", "upload"} THEN <<>>
            ELSE <<[a EXCEPT !.shared.quic_parameters.no_sni_slicing = FALSE, !.shared.alpn = "h3",
                             !.method = IF a.test = "upload" THEN "POST" ELSE @]>>
      [] test \in {"handshake", "transfer", "retry", "ecn"} -> <<a>>
      [] test \in {"resumption", "zerortt"} ->
            IF Len(a.urls) < 2 THEN <<>>
            ELSE <<[a EXCEPT !.resume = TRUE,
                             !.shared.quic_parameters = IF test = "resumption" THEN @
                                 ELSE [@ EXCEPT !.no_sni_slicing = FALSE, !.no_pmtud = TRUE, !.no_pacing = TRUE]]>>
      [] test = "multiconnect" -> <<[a EXCEPT !.download_in_series = TRUE]>>
      [] test = "chacha20" -> <<[a EXCEPT !.shared.ciphers = {"TLS_CHACHA20_POLY1305_SHA256"}]>>
      [] test = "keyupdate" -> <<[a EXCEPT !.key_update = TRUE]>>
      [] test = "v2" -> <<[a EXCEPT !.shared.quic_parameters.no_sni_slicing = FALSE,
                                    !.shared.quic_parameters.quic_version = <<>>]>>
      [] OTHER -> <<>>
update_for_tests(a) ==
    IF a.shared.qns_test = "none" THEN <<a>>
    ELSE IF a.key_update \/ a.resume THEN <<>>
    ELSE ForTest([a EXCEPT !.shared.quic_parameters.quic_version = <<"v1">>, !.shared.alpn = "hq-interop",
                           !.shared.quic_parameters.no_sni_slicing = TRUE],
                 a.shared.qns_test)

\* Args of the server, and its update_for_tests(); `preferred' is whether it has a preferred address.
ServerArgs == [shared |-> SharedArgs, retry |-> FALSE, preferred |-> FALSE]
ServerForTest(a, test) ==
    CASE test = "http3" -> <<[a EXCEPT !.shared.alpn = "h3"]>>
      [] test = "zerortt" -> <<[a EXCEPT !.shared.quic_parameters.max_streams_bidi = 100]>>
      [] test \in {"handshake", "transfer", "resumption", "multiconnect", "v2", "ecn"} -> <<a>>
      [] test = "connectionmigration" -> IF a.preferred THEN <<a>> ELSE <<>>
      [] test = "chacha20" -> <<[a EXCEPT !.shared.ciphers = {"TLS_CHACHA20_POLY1305_SHA256"}]>>
      [] test = "retry" -> <<[a EXCEPT !.retry = TRUE]>>
      [] OTHER -> <<>>
server_update_for_tests(a) ==
    IF a.shared.qns_test = "none" THEN <<a>>
    ELSE ServerForTest([a EXCEPT !.shared.alpn = "hq-interop",
                                 !.shared.quic_parameters.quic_version =
                                     IF @ = <<>> /\ a.shared.qns_test # "v2" THEN <<"v1">> ELSE @],
                       a.shared.qns_test)

-----------------------------------------------------------------------------
(* The handler of a connection: UrlHandler in http3.rs, Handler in          *)
(* http09.rs.  [h, c, n, f, g] are the handler, the connection, its        *)
(* streams, the files and what was fetched.                                *)

NewHandler(queue) ==
    [queue |-> queue, handled |-> <<>>, streams |-> <<>>, all_paths |-> {}, token |-> FALSE,
     needs_key_update |-> setup.args.key_update]

\* stream_create(), fetch(): not without keys, nor past the limit.
MayCreate(c) == (c.zrtt \/ c.state \in {"Connected", "Confirmed"}) /\ c.next < c.limit

\* get_output_file(): a file is written for one URL only.
get_output_file(h, u) == IF Path(u) \in h.all_paths THEN None ELSE u

\* fetch(), stream_create() and stream_send(): a stream that begins with the request.  The
\* header of HTTP/3 is one unit.
NewStream(u) ==
    [data |-> IF h3 THEN <<GET>> ELSE Request(Path(u)), fin |-> ~Upload, got |-> 0, gfin |-> FALSE, taken |-> 0,
     resp |-> <<>>, rfin |-> FALSE, header |-> FALSE, seen |-> 0, sfin |-> FALSE, read |-> 0]

\* next_url(), download_next(): the first URL of the queue, on a new stream.
next_url(a) ==
    LET u == Head(a.h.queue)
        s == a.c.next
        file == get_output_file(a.h, u)
    IN  [a EXCEPT !.h.queue = Tail(@), !.h.handled = Append(@, u), !.h.all_paths = @ \cup {Path(u)},
                  !.h.streams = With(@, s, [url |-> u, file |-> file, left |-> setup.args.upload_size]),
                  !.c.next = @ + 1,
                  !.c.events = IF Upload THEN PushUnique(@, Event("DataWritable", s, FALSE)) ELSE @,
                  !.n = With(@, s, NewStream(u)),
                  !.f = IF Upload \/ file = None THEN @ ELSE With(@, Path(u), <<>>)]

\* process_urls(), download_urls(): as long as there are URLs, and streams for them.
MayStart(a) ==
    /\ a.h.queue # <<>> /\ Cardinality(DOMAIN a.h.streams) < setup.args.concurrency
    /\ ~a.h.needs_key_update /\ MayCreate(a.c)
process_urls(a) == FoldLeft(LAMBDA x, u : IF MayStart(x) THEN next_url(x) ELSE x, a, a.h.queue)

\* Variant: what was rejected is not asked for again.
ReinitForgets(h) == [h EXCEPT !.streams = <<>>, !.all_paths = {}]

\* reinit(): what was asked for in 0-RTT is asked for again, in another order with HTTP/0.9.
reinit(h) ==
    [h EXCEPT !.queue = (IF h3 THEN h.handled ELSE Reverse(h.handled)) \o @,
              !.handled = <<>>, !.streams = <<>>, !.all_paths = {}]

\* on_stream_fin(), and the end of read(): another URL may take the place of the stream.
on_stream_fin(a, s) ==
    process_urls([a EXCEPT !.h.streams = Without(@, s),
                           !.g = IF s \in DOMAIN a.h.streams
                                 THEN Append(@, [url |-> a.h.streams[s].url, body |-> a.n[s].resp]) ELSE @])

\* What was received goes to the file.  An upload takes each read for a number: one that
\* reads nothing is not.
ReadAll(a, s) ==
    IF s \notin DOMAIN a.h.streams THEN a
    ELSE LET n == a.n[s]
             st == a.h.streams[s]
             b == [a EXCEPT !.n[s].read = n.seen,
                            !.f = IF Upload \/ st.file = None THEN @
                                  ELSE [@ EXCEPT ![Path(st.url)] = @ \o SubSeq(n.resp, n.read + 1, n.seen)]]
         IN  IF Upload /\ (n.read = n.seen \/ ~n.sfin) THEN [b EXCEPT !.failed = TRUE]
             ELSE IF n.sfin THEN on_stream_fin(b, s) ELSE b

\* UploadStreamHandler::process_data_writable(): as much as there is room for.
process_data_writable(a, s) ==
    IF s \notin DOMAIN a.h.streams THEN a
    ELSE LET k == Min({a.h.streams[s].left, Room - (Len(a.n[s].data) - a.n[s].got)})
         IN  [a EXCEPT !.h.streams[s].left = @ - k, !.n[s].data = @ \o [i \in 1 .. k |-> GET],
                       !.n[s].fin = (a.h.streams[s].left = k)]

\* One event in handle() of http3.rs.
Handle3(a, e) ==
    CASE e.kind = "HeaderReady" -> IF e.fin THEN on_stream_fin(a, e.stream) ELSE a
      [] e.kind = "Readable" -> ReadAll(a, e.stream)
      [] e.kind = "DataWritable" -> process_data_writable(a, e.stream)
      [] e.kind \in {"Connected", "Creatable"} -> process_urls(a)
      [] e.kind = "ZeroRttRejected" -> process_urls([a EXCEPT !.h = reinit(@)])
      [] e.kind = "ResumptionToken" -> [a EXCEPT !.h.token = TRUE]
      [] OTHER -> a

\* handle() of http09.rs: before anything is asked for, keys are updated if they have to be.
UpdateKeys(a) ==
    IF a.h.needs_key_update /\ a.c.state = "Confirmed"
    THEN process_urls([a EXCEPT !.h.needs_key_update = FALSE]) ELSE a
Handle09(a, e) ==
    CASE e.kind = "Readable" -> ReadAll(a, e.stream)
      [] e.kind \in {"WaitInitial", "Handshaking", "Connected", "Creatable"} -> process_urls(a)
      [] e.kind = "ZeroRttRejected" -> process_urls([a EXCEPT !.h = reinit(@)])
      [] e.kind = "ResumptionToken" -> [a EXCEPT !.h.token = TRUE]
      [] OTHER -> a

\* handle(), an event at a time: nothing is received until all are handled.
Handle ==
    /\ phase \in {"run", "handle"} /\ conn.events # <<>>
    /\ LET e == Head(conn.events)
           a == [h |-> handler, c |-> [conn EXCEPT !.events = Tail(@)], n |-> net, f |-> files,
                 g |-> fetched, failed |-> FALSE]
       IN  \E b \in {IF h3 THEN Handle3(a, e) ELSE Handle09(UpdateKeys(a), e)} :
              /\ handler' = b.h /\ conn' = b.c /\ net' = b.n /\ files' = b.f /\ fetched' = b.g
              /\ phase' = CASE b.failed -> "failed" [] b.c.events # <<>> -> "handle" [] OTHER -> "run"
    /\ UNCHANGED <<setup, urls, first, token, server>>

\* done(), and the end of handle() of http09.rs.
done == handler.streams = <<>> /\ handler.queue = <<>>

-----------------------------------------------------------------------------
(* client().                                                               *)

NewConn(resumed) ==
    [state |-> "Init", zrtt |-> resumed, events |-> IF resumed THEN <<Plain("Creatable")>> ELSE <<>>,
     next |-> 0, limit |-> IF resumed THEN setup.limit ELSE 0, ticket |-> "none"]

\* One URL, to get a token, or each on a connection of its own; otherwise all of them.
ToRequest(us, f) == IF (setup.args.resume /\ f) \/ setup.args.download_in_series THEN <<Head(us)>> ELSE us

\* client() stops when it is to resume and has one URL only.
Init ==
    /\ \E s \in Setups :
          \E a \in ToSet(update_for_tests(Command(s))) :
              /\ a.resume => Len(a.urls) >= 2
              /\ setup = [args |-> a, limit |-> s.limit, size |-> s.size, accept |-> s.accept]
    /\ urls = [i \in 1 .. Len(setup.args.urls) |-> i] /\ first = TRUE /\ token = FALSE
    /\ handler = NewHandler(<<>>) /\ conn = NewConn(FALSE) /\ net = <<>>
    /\ server = [events |-> <<>>, write_state |-> <<>>, read_state |-> <<>>]
    /\ files = <<>> /\ fetched = <<>> /\ phase = "next"

\* A connection for the next URLs, with the token of the one before.
Connect ==
    /\ phase = "next" /\ urls # <<>>
    /\ handler' = NewHandler(ToRequest(urls, first))
    /\ urls' = SubSeq(urls, Len(ToRequest(urls, first)) + 1, Len(urls))
    /\ first' = FALSE /\ token' = FALSE /\ conn' = NewConn(token) /\ net' = <<>> /\ phase' = "run"
    /\ server' = [server EXCEPT !.events = <<>>]
    /\ UNCHANGED <<setup, files, fetched>>

End == phase = "next" /\ urls = <<>> /\ phase' = "end"
       /\ UNCHANGED <<setup, urls, first, token, handler, conn, net, server, files, fetched>>

\* transfer() ends and closes the connection.  The token is the one of the event, or the one
\* there is.
Finish ==
    /\ phase = "run" /\ conn.events = <<>> /\ done
    /\ token' = (handler.token \/ (setup.args.resume /\ conn.ticket = "held"))
    /\ phase' = "next"
    /\ UNCHANGED <<setup, urls, first, handler, conn, net, server, files, fetched>>

-----------------------------------------------------------------------------
(* The server for HTTP/0.9.  [srv, n] are its state and the streams.       *)

NewRequest == [writable |-> FALSE, data_to_send |-> <<>>]
Body(path) == [i \in 1 .. setup.size |-> path]
Space(n) == Room - (Len(n.resp) - n.seen)

\* stream_writable(): what there is room for is sent; the state goes when all of it is.
stream_writable(b, s) ==
    IF s \notin DOMAIN b.srv.write_state THEN b
    ELSE IF b.srv.write_state[s].data_to_send = <<>> THEN [b EXCEPT !.srv.write_state[s].writable = TRUE]
    ELSE LET body == b.srv.write_state[s].data_to_send[1]
             k == Min({Len(body), Len(b.n[s].resp) + Space(b.n[s])})
             c == [b EXCEPT !.n[s].resp = SubSeq(body, 1, k)]
         IN  IF k = Len(body) THEN [c EXCEPT !.n[s].rfin = TRUE, !.srv.write_state = Without(@, s)]
             ELSE [c EXCEPT !.srv.write_state[s].writable = FALSE]

\* parse_path(), of a request that may have been cut.
parse_path(buf) == SelectSeq(Tail(buf), LAMBDA x : x # EOL)

\* What was read of a request before.
Saved(srv, s) == IF s \in DOMAIN srv.read_state THEN srv.read_state[s] ELSE <<>>

\* Reading what has arrived; the response is taken from a request that is complete.
Answer(b, s, buf) ==
    LET c == [b EXCEPT !.srv.write_state = With(@, s, [writable |-> s \in DOMAIN @ /\ @[s].writable,
                                                       data_to_send |-> <<Body(parse_path(buf))>>])]
    IN  IF c.srv.write_state[s].writable THEN stream_writable(c, s) ELSE c

Read(b, s) ==
    [b EXCEPT !.n[s].taken = b.n[s].got, !.srv.read_state = Without(@, s)]
Taken(b, s) == Saved(b.srv, s) \o SubSeq(b.n[s].data, b.n[s].taken + 1, b.n[s].got)

\* Variant: a request is taken for complete when something of it has come.
StreamReadableEarly(b, s) == Answer(Read(b, s), s, Taken(b, s))

\* stream_readable(): a request that has not ended is kept.
stream_readable(b, s) ==
    IF b.n[s].gfin THEN Answer(Read(b, s), s, Taken(b, s))
    ELSE IF b.n[s].taken = b.n[s].got THEN b
    ELSE IF Len(Taken(b, s)) < MaxPartial
    THEN [Read(b, s) EXCEPT !.srv.read_state = With(@, s, Taken(b, s))]
    ELSE Read(b, s)

\* process_events().
Serve(b, e) ==
    CASE e.kind = "NewStream" ->
            [b EXCEPT !.srv.write_state = IF e.stream \in DOMAIN @ THEN @ ELSE With(@, e.stream, NewRequest)]
      [] e.kind = "Readable" -> stream_readable(b, e.stream)
      [] e.kind = "Writable" -> stream_writable(b, e.stream)

ProcessEvents ==
    /\ phase = "run" /\ server.events # <<>>
    /\ \E b \in {FoldLeft(Serve, [srv |-> [server EXCEPT !.events = <<>>], n |-> net], server.events)} :
          server' = b.srv /\ net' = b.n
    /\ UNCHANGED <<setup, urls, first, token, handler, conn, files, fetched, phase>>

-----------------------------------------------------------------------------
(* The transport and the HTTP/3 server: external.                          *)

Advance(s1, s2) == phase = "run" /\ conn.state = s1 /\ conn' = [conn EXCEPT !.state = s2, !.events = Append(@, Plain(s2))]
Others == UNCHANGED <<setup, urls, first, token, handler, files, fetched, phase>>

Starts == (Advance("Init", "WaitInitial") \/ Advance("WaitInitial", "Handshaking") \/ Advance("Connected", "Confirmed"))
          /\ UNCHANGED <<net, server>> /\ Others

\* The parameters of the peer allow streams; 0-RTT ends.
Connected ==
    /\ phase = "run" /\ conn.state = "Handshaking" /\ (conn.zrtt => setup.accept)
    /\ conn' = [conn EXCEPT !.state = "Connected", !.zrtt = FALSE, !.limit = Max({@, setup.limit}),
                            !.events = @ \o <<Plain("Creatable"), Plain("Connected")>>]
    /\ UNCHANGED <<net, server>> /\ Others

\* The streams of 0-RTT are gone, and so are the events.
Rejected ==
    /\ phase = "run" /\ conn.state = "Handshaking" /\ conn.zrtt /\ ~setup.accept
    /\ conn' = [conn EXCEPT !.zrtt = FALSE, !.next = 0, !.limit = 0, !.events = <<Plain("ZeroRttRejected")>>]
    /\ net' = <<>>
    /\ UNCHANGED server /\ Others

Ticket ==
    /\ phase = "run" /\ setup.args.resume /\ conn.state \in {"Connected", "Confirmed"} /\ conn.ticket # "told"
    /\ conn' = [conn EXCEPT !.ticket = IF @ = "none" THEN "held" ELSE "told",
                            !.events = IF conn.ticket = "none" THEN @ ELSE Append(@, Plain("ResumptionToken"))]
    /\ UNCHANGED <<net, server>> /\ Others

\* A stream that has ended makes room for another.
Credit ==
    /\ phase = "run" /\ conn.state \in {"Connected", "Confirmed"}
    /\ conn.limit < setup.limit + Cardinality({s \in DOMAIN net : net[s].sfin})
    /\ conn' = [conn EXCEPT !.limit = @ + 1, !.events = PushUnique(@, Plain("Creatable"))]
    /\ UNCHANGED <<net, server>> /\ Others

\* Some more of a request arrives.  A stream opens those before it.
Opened(s) == {t \in DOMAIN net : net[t].got = 0 /\ ~net[t].gfin /\ t <= s
                 /\ \A u \in DOMAIN net : u > t => net[u].got = 0 /\ ~net[u].gfin}
NewEvents(s) ==
    IF Opened(s) = {} THEN <<>>
    ELSE FlattenSeq([i \in 1 .. Cardinality(Opened(s)) |->
            LET t == Min(Opened(s)) + i - 1 IN <<Event("NewStream", t, FALSE), Event("Writable", t, FALSE)>>])
RequestArrives ==
    /\ phase = "run" /\ conn.state # "Init" /\ (conn.zrtt => setup.accept)
    /\ \E s \in DOMAIN net, j \in 0 .. Room + Len(Request(<<1, 1>>)), f \in BOOLEAN :
          /\ j >= net[s].got /\ j <= Len(net[s].data) /\ ~net[s].gfin
          /\ f => net[s].fin /\ j = Len(net[s].data)
          /\ j > net[s].got \/ f
          /\ net' = [net EXCEPT ![s].got = j, ![s].gfin = f]
          /\ server' = IF h3 THEN server
                       ELSE [server EXCEPT !.events = PushUnique(@ \o NewEvents(s), Event("Readable", s, FALSE))]
          /\ conn' = IF Upload /\ ~net[s].fin
                     THEN [conn EXCEPT !.events = PushUnique(@, Event("DataWritable", s, FALSE))] ELSE conn
    /\ Others

\* The HTTP/3 server answers a request that is complete.
Answers3 ==
    /\ phase = "run" /\ h3
    /\ \E s \in DOMAIN net :
          /\ net[s].gfin /\ ~net[s].rfin
          /\ LET body == Body(Path(handler.streams[s].url))
                 k == Min({Len(body), Len(net[s].resp) + Space(net[s])})
             IN  net' = [net EXCEPT ![s].resp = SubSeq(body, 1, k), ![s].rfin = (k = Len(body))]
          /\ net' # net
    /\ UNCHANGED <<conn, server>> /\ Others

\* Some more of a response arrives.
ResponseArrives ==
    /\ phase = "run"
    /\ \E s \in DOMAIN net, j \in 0 .. setup.size, f \in BOOLEAN :
          LET n == net[s]
          IN  /\ n.seen <= j /\ j <= Len(n.resp) /\ ~n.sfin /\ (f => n.rfin /\ j = Len(n.resp))
              /\ n.resp # <<>> \/ n.rfin
              /\ j > n.seen \/ f \/ (h3 /\ ~n.header)
              /\ net' = [net EXCEPT ![s].seen = j, ![s].sfin = f, ![s].header = TRUE]
              /\ conn' = [conn EXCEPT !.events =
                            LET e == IF h3 /\ ~n.header
                                     THEN Append(@, Event("HeaderReady", s, f /\ j = 0)) ELSE @
                            IN  IF j > n.seen \/ (f /\ (n.header \/ ~h3)) THEN PushUnique(e, Event("Readable", s, FALSE)) ELSE e]
              /\ server' = IF ~h3 /\ Space(n) = 0 /\ j > n.seen
                           THEN [server EXCEPT !.events = PushUnique(@, Event("Writable", s, FALSE))] ELSE server
    /\ Others

Network == Starts \/ Connected \/ Rejected \/ Ticket \/ Credit \/ RequestArrives \/ Answers3 \/ ResponseArrives

Next == Connect \/ Handle \/ Finish \/ End \/ ProcessEvents \/ Network

-----------------------------------------------------------------------------
\* When the client ends it has fetched every URL once, whatever was rejected, limited or cut
\* on the way, each response is the one for that URL, and the file of a path holds it.
EveryUrlFetched ==
    /\ \A i \in DOMAIN fetched : fetched[i].body = Body(Path(fetched[i].url))
    /\ \A i, j \in DOMAIN fetched : fetched[i].url = fetched[j].url => i = j
    /\ phase = "end" =>
          /\ {fetched[i].url : i \in DOMAIN fetched} = DOMAIN setup.args.urls
          /\ ~Upload => \A u \in DOMAIN setup.args.urls : files[Path(u)] = Body(Path(u))

\* When nothing is to be handled, sent or received any more, the client has come to its end:
\* no URL waits for an event that was used up before there was a stream for it.
Quiet ==
    /\ conn.state = "Confirmed" /\ conn.events = <<>> /\ server.events = <<>>
    /\ conn.limit = setup.limit + Cardinality({s \in DOMAIN net : net[s].sfin})
    /\ \A s \in DOMAIN net :
          /\ net[s].got = Len(net[s].data) /\ net[s].gfin = net[s].fin
          /\ net[s].seen = Len(net[s].resp) /\ net[s].sfin = net[s].rfin
          /\ h3 => net[s].gfin = net[s].rfin
NoStall == phase = "run" /\ Quiet => done

\* A client and a server that run the same test of the interop runner speak the same protocol
\* with the same ciphers, and agree on version 2 in the test of it and on version 1 in the others.
Tests == {"http3", "handshake", "transfer", "retry", "ecn", "resumption", "zerortt", "multiconnect", "chacha20",
          "keyupdate", "v2", "connectionmigration", "versionnegotiation"}
TestsAgree ==
    phase = "next" /\ first =>
        \A t \in Tests :
            \A c \in ToSet(update_for_tests([Args EXCEPT !.shared.qns_test = t, !.urls = <<1, 2>>])),
               s \in ToSet(server_update_for_tests([ServerArgs EXCEPT !.shared.qns_test = t])) :
                LET cv == get(c.shared.quic_parameters, c.shared.alpn)
                    sv == get(s.shared.quic_parameters, s.shared.alpn)
                    common == SelectSeq(sv.all, LAMBDA v : v \in ToSet(cv.all))
                IN  /\ c.shared.alpn = s.shared.alpn /\ c.shared.ciphers = s.shared.ciphers
                    /\ cv.initial \in ToSet(sv.all)
                    /\ Head(common) = IF t = "v2" THEN "v2" ELSE "v1"
=============================================================================
