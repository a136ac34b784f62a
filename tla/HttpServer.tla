----------------------------- MODULE HttpServer -----------------------------
(***************************************************************************)
(* An HTTP/3 server: Http3Server (neqo-http3 server.rs) with the handler   *)
(* of each connection (connection_server.rs), the events of a connection   *)
(* (server_connection_events.rs) and of the server (server_events.rs), and *)
(* the application neqo-server puts on top (neqo-bin server/http3.rs).     *)
(*                                                                         *)
(* The server's turn is that of its Runner: it handles its events, then    *)
(* processes, and waits for input when no events are left.  The transport  *)
(* and the peers are external.  A peer sends a request of one unit for the *)
(* header and one for each byte of the body, in any pieces; it gives room  *)
(* for the response, and may reset a stream, stop it, break the protocol,  *)
(* or close.                                                               *)
(***************************************************************************)
EXTENDS Integers, Sequences, SequencesExt, FiniteSets, FiniteSetsExt

CONSTANTS
    Conns, Streams,     \* connections; streams each has
    Setups,             \* [Conns -> [Streams -> [method, body, size, zeroes]]]; method "none" for no request
    MAX_EVENT_DATA_SIZE,
    STREAM_IO_BUFFER_SIZE,
    Room,               \* what a peer lets the server send ahead
    Faults              \* bound: resets, errors and timeouts

VARIABLES
    requests,   \* what the peers ask for
    phase,      \* what the Runner is at
    todo,       \* connections process_http3() has yet to visit
    transport,  \* [state, events] of each connection
    peer,       \* [sent, fin] of each stream: units that arrived
    out,        \* [room, bytes, fin, dead] of each stream: what was sent of a response
    handlers,   \* http3_handlers: a handler, or NoHandler
    events,     \* Http3ServerEvents
    posts, remaining_data,
    reports,    \* how often the statistics of a connection were reported
    faults

vars == <<requests, phase, todo, transport, peer, out, handlers, events, posts, remaining_data, reports, faults>>

Nobody == 0
StreamEvent(k, s) == [kind |-> k, stream |-> s, n |-> 0, fin |-> FALSE]
StateChange(st) == StreamEvent(st, Nobody)
Of(c, e) == [kind |-> e.kind, conn |-> c, stream |-> e.stream, n |-> e.n, fin |-> e.fin]
PushUnique(q, e) == IF e \in ToSet(q) THEN q ELSE Append(q, e)

Asked(c, s) == requests[c][s].method # "none"

-----------------------------------------------------------------------------
(* The handler of a connection.                                            *)

\* recv: the state of RecvMessage, which read units; send: that of SendMessage; header:
\* not yet flushed.
NoStream == [recv |-> "none", read |-> 0, send |-> "none", header |-> FALSE]
NewHandler ==
    [state |-> "Initializing", events |-> <<>>, needs_processing |-> FALSE,
     pending |-> {}, streams |-> [s \in Streams |-> NoStream]]
NoHandler == [NewHandler EXCEPT !.state = "removed"]

\* remove_events_for_stream_id().
remove_events(q, s) == SelectSeq(q, LAMBDA e : ~(e.stream = s /\ e.kind \in {"Headers", "DataReadable"}))

\* RecvMessage::receive(), with the events it makes, when sent units and maybe the end arrived.
receive(h, s, sent, fin) ==
    LET st == h.streams[s]
        Is(state, more) == [h EXCEPT !.streams[s].recv = state, !.streams[s].read = Max({@, 1}), !.events = @ \o more]
        Header(f) == [StreamEvent("Headers", s) EXCEPT !.fin = f]
        first == IF st.recv = "wait" THEN <<Header(FALSE)>> ELSE <<>>
        left == sent - Max({st.read, 1})
    IN  CASE st.recv = "wait" /\ sent = 1 /\ fin -> Is("none", <<Header(TRUE)>>)
          [] left = 0 /\ ~fin -> Is("data", first)
          [] OTHER -> Is(IF left = 0 THEN "pending" ELSE "data", Append(first, StreamEvent("DataReadable", s)))

\* handle_stream_readable(): the first bytes tell that it is a request.
handle_stream_readable(h, s, sent, fin) ==
    CASE h.streams[s].recv = "new" ->
            receive([h EXCEPT !.streams[s].recv = "wait", !.streams[s].send = "WaitingForHeaders"], s, sent, fin)
      [] h.streams[s].recv = "data" -> receive(h, s, sent, fin)
      [] OTHER -> h

\* close_recv() and close_send() after the peer gave up.
handle_stream_reset(h, s) ==
    IF h.streams[s].recv \in {"none", "new"} THEN [h EXCEPT !.streams[s].recv = "none"]
    ELSE [h EXCEPT !.streams[s].recv = "none",
                   !.events = Append(remove_events(@, s), StreamEvent("StreamReset", s))]
handle_stream_stop_sending(h, s) ==
    IF h.streams[s].send = "none" THEN h
    ELSE [h EXCEPT !.streams[s].send = "none", !.streams[s].header = FALSE,
                   !.events = IF h.streams[s].send = "Done" THEN @ ELSE Append(@, StreamEvent("StreamStopSending", s))]

\* handle_state_change(), where a change is reported.
handle_state_change(h, st) ==
    LET to == CASE st = "Connected" -> "Connected"
                [] st \in {"Closing", "Draining"} -> IF h.state \in {"Closing", "Closed"} THEN h.state ELSE "Closing"
                [] OTHER -> "Closed"
    IN  IF to = h.state THEN h ELSE [h EXCEPT !.state = to, !.events = Append(@, StateChange(to))]

\* SendMessage::stream_writable().
stream_writable(h, s) ==
    IF h.streams[s].send \notin {"none", "Done"} /\ ~h.streams[s].header
    THEN [h EXCEPT !.events = Append(@, StreamEvent("DataWritable", s))] ELSE h

\* One event in check_connection_events().
HandleEvent(h, e, sent, fin) ==
    CASE e.kind = "NewStream" -> [h EXCEPT !.streams[e.stream].recv = "new"]
      [] e.kind = "Readable" -> handle_stream_readable(h, e.stream, sent, fin)
      [] e.kind = "Writable" -> stream_writable(h, e.stream)
      [] e.kind = "Reset" -> handle_stream_reset(h, e.stream)
      [] e.kind = "StopSending" -> handle_stream_stop_sending(h, e.stream)
      [] OTHER -> handle_state_change(h, e.kind)

\* SendMessage::send() in send_non_control_streams(): the header leaves when there is room.
send(h, s, o) ==
    LET flushed == h.streams[s].header /\ o.room > 0
        left == h.streams[s].header /\ o.room = 0
        done == h.streams[s].send = "Done"
    IN  [handler |->
            [h EXCEPT !.streams[s] =
                            IF ~left /\ done THEN [@ EXCEPT !.header = FALSE, !.send = "none"]
                            ELSE [@ EXCEPT !.header = left],
                      !.pending = IF left THEN @ ELSE @ \ {s},
                      !.events = IF left \/ done THEN @ ELSE Append(@, StreamEvent("DataWritable", s))],
         out |-> [o EXCEPT !.room = IF flushed THEN @ - 1 ELSE @, !.fin = @ \/ (~left /\ done)]]

-----------------------------------------------------------------------------
(* SendData (neqo-bin).                                                    *)

\* bytes of zeroes come from a buffer that is used over and over.
SendData(c, s, total, zeroes) ==
    [conn |-> c, stream |-> s, len |-> IF zeroes THEN STREAM_IO_BUFFER_SIZE ELSE total,
     zeroes |-> zeroes, offset |-> 0, remaining |-> total]
Byte(d, i) == [conn |-> d.conn, stream |-> d.stream, at |-> IF d.zeroes THEN 0 ELSE i]

slice(d) == Min({d.len, d.offset + d.remaining}) - d.offset

\* Variant: each piece is the first one.
PieceAgain(a) ==
    LET n == Min({slice(a.data), a.room})
    IN  [data |-> [a.data EXCEPT !.remaining = @ - n], room |-> a.room - n,
         bytes |-> a.bytes \o [i \in 1 .. n |-> Byte(a.data, a.data.offset + i)]]

\* One round of the loop in send(): as much of the slice as there is room for.
Piece(a) ==
    LET n == Min({slice(a.data), a.room})
    IN  [data |-> [a.data EXCEPT !.remaining = @ - n, !.offset = (@ + n) % a.data.len],
         room |-> a.room - n,
         bytes |-> a.bytes \o [i \in 1 .. n |-> Byte(a.data, a.data.offset + i)]]

\* send(): pieces until nothing is left or the stream takes no more.
SendPieces(d, room) ==
    FoldLeft(LAMBDA a, i : IF a.room = 0 \/ a.data.remaining = 0 THEN a ELSE Piece(a),
             [data |-> d, room |-> room, bytes |-> <<>>], [i \in 1 .. room |-> i])

-----------------------------------------------------------------------------
(* What the application may call: StreamHandler (server_events.rs) and     *)
(* Http3ServerHandler (connection_server.rs).  A result has the handler    *)
(* and the stream out after the call.                                      *)

Call(h, o, ok) == [handler |-> h, out |-> o, ok |-> ok]

\* send_headers(): the header waits in a buffer.
send_headers(h, o, s) ==
    IF h.streams[s].send # "WaitingForHeaders" THEN Call(h, o, FALSE)
    ELSE Call([h EXCEPT !.streams[s].send = "WaitingForData", !.streams[s].header = TRUE,
                        !.pending = @ \cup {s}, !.needs_processing = TRUE], o, TRUE)

\* stream_close_send().
stream_close_send(h, o, s) ==
    IF h.streams[s].send = "none" THEN Call(h, o, FALSE)
    ELSE IF h.streams[s].header
    THEN Call([h EXCEPT !.streams[s].send = "Done", !.pending = @ \cup {s}, !.needs_processing = TRUE], o, TRUE)
    ELSE Call([h EXCEPT !.streams[s].send = "none", !.needs_processing = TRUE], [o EXCEPT !.fin = TRUE], TRUE)

\* stream_reset_send() and stream_stop_sending(), together cancel_fetch().
stream_reset_send(h, o, s) ==
    Call([h EXCEPT !.streams[s].send = "none", !.streams[s].header = FALSE, !.needs_processing = TRUE],
         [o EXCEPT !.dead = TRUE], TRUE)
cancel_fetch(h, o, s) ==
    LET k == stream_reset_send(h, o, s)
    IN  [k EXCEPT !.handler.streams[s].recv = "none", !.handler.events = remove_events(@, s)]

\* send_response_body() of the application, with what remains.
send_response_body(h, o, s, d) ==
    LET room == IF h.streams[s].header THEN o.room - 1 ELSE o.room
        sent == SendPieces(d, Max({room, 0}))
        k == Call([h EXCEPT !.streams[s].header = @ /\ room < 0,
                            !.pending = IF sent.bytes = <<>> THEN @ ELSE @ \cup {s}, !.needs_processing = TRUE],
                  [o EXCEPT !.room = IF room < 0 THEN 0 ELSE sent.room, !.bytes = @ \o sent.bytes], TRUE)
    IN  CASE d.remaining = 0 -> [call |-> stream_close_send(h, o, s), rest |-> d]
          [] d.remaining # 0 /\ h.streams[s].send # "WaitingForData" ->
                [call |-> stream_reset_send(h, o, s), rest |-> [d EXCEPT !.remaining = 0]]
          [] OTHER -> [call |-> IF sent.data.remaining = 0 THEN stream_close_send(k.handler, k.out, s) ELSE k,
                       rest |-> sent.data]

\* send_response().
send_response(h, o, s, d) ==
    LET k == send_headers(h, o, s)
    IN  IF ~k.ok THEN [call |-> stream_reset_send(h, o, s), rest |-> [d EXCEPT !.remaining = 0]]
        ELSE send_response_body(k.handler, k.out, s, d)

-----------------------------------------------------------------------------
Init ==
    /\ requests \in Setups
    /\ phase = "idle" /\ todo = {}
    /\ transport = [c \in Conns |-> [state |-> "Connected", events |-> <<StateChange("Connected")>>]]
    /\ peer = [c \in Conns |-> [s \in Streams |-> [sent |-> 0, fin |-> FALSE]]]
    /\ out = [c \in Conns |-> [s \in Streams |-> [room |-> Room, bytes |-> <<>>, fin |-> FALSE, dead |-> FALSE]]]
    /\ handlers = [c \in Conns |-> NoHandler]
    /\ events = <<>> /\ posts = <<>> /\ remaining_data = <<>>
    /\ reports = [c \in Conns |-> 0] /\ faults = 0

\* Variant: what the application did is not looked at.
ShouldIfEvents(h) == h.state # "removed" /\ h.events # <<>>

\* Server: the connections that have events, or whose handler has work.
should_be_processed(h) ==
    h.state # "removed" /\ (h.needs_processing \/ h.pending # {} \/ h.events # <<>>)
process_http3 ==
    /\ phase \in {"process", "input"}
    /\ phase' = IF phase = "input" THEN "input http3" ELSE "http3"
    /\ todo' = {c \in Conns : \/ transport[c].state # "gone" /\ transport[c].events # <<>>
                              \/ should_be_processed(handlers[c])}
    /\ handlers' = [c \in Conns |-> [handlers[c] EXCEPT !.needs_processing = FALSE]]
    /\ UNCHANGED <<requests, transport, peer, out, events, posts, remaining_data, reports, faults>>

\* Http3ServerHandler::close().
close(h) == [NewHandler EXCEPT !.state = "Closed", !.events = Append(h.events, StateChange("Closed"))]

\* check_connection_events(): all events of the transport, up to one that is an error.
check_connection_events(c, h) ==
    LET evs == transport[c].events
        bad == {i \in 1 .. Len(evs) : evs[i].kind = "Error"}
        good == IF bad = {} THEN evs ELSE SubSeq(evs, 1, Min(bad) - 1)
        one(a, e) == IF e.stream = Nobody THEN HandleEvent(a, e, 0, FALSE)
                     ELSE HandleEvent(a, e, peer[c][e.stream].sent, peer[c][e.stream].fin)
        after == FoldLeft(one, h, good)
    IN  IF bad = {} THEN after ELSE close(after)

\* process_sending(), over the streams that have something to send.
process_sending(h, os) ==
    FoldSet(LAMBDA s, a :
                IF a.handler.streams[s].send = "none" THEN [a EXCEPT !.handler.pending = @ \ {s}]
                ELSE LET k == send(a.handler, s, a.out[s])
                     IN  [handler |-> k.handler, out |-> [a.out EXCEPT ![s] = k.out]],
            [handler |-> h, out |-> os], h.pending)

\* prepare_data(): what there is, in events of a bounded size.
prepare_data(s, units, fin) ==
    LET full == units \div MAX_EVENT_DATA_SIZE
        rest == units % MAX_EVENT_DATA_SIZE
        Data(n, f) == [kind |-> "Data", stream |-> s, n |-> n, fin |-> f]
    IN  [k \in 1 .. full |-> Data(MAX_EVENT_DATA_SIZE, fin /\ rest = 0 /\ k = full)]
        \o (IF rest > 0 \/ (units = 0 /\ fin) THEN <<Data(rest, fin)>> ELSE <<>>)

\* One event of a handler in process_events(): it becomes one of the server, or its data does.
Translate(c, a, e) ==
    LET s == e.stream
        p == peer[c][s]
    IN  IF e.kind # "DataReadable" THEN [a EXCEPT !.events = Append(@, Of(c, e))]
        ELSE IF a.handler.streams[s].recv = "none" THEN a
        ELSE [a EXCEPT !.handler.streams[s].read = p.sent,
                       !.handler.streams[s].recv = IF p.fin THEN "none" ELSE "data",
                       !.events = @ \o LET ds == prepare_data(s, p.sent - a.handler.streams[s].read, p.fin)
                                       IN  [i \in DOMAIN ds |-> Of(c, ds[i])]]

\* process_events(): what arrived, then what can be sent, then the events of the handler.
process_events(c) ==
    /\ phase \in {"http3", "input http3"} /\ c \in todo
    /\ \E h0 \in {IF handlers[c].state = "removed" THEN NewHandler ELSE handlers[c]} :
       \E h1 \in {IF h0.state = "Closed" THEN h0 ELSE check_connection_events(c, h0)} :
       \E k \in {IF h1.state = "Connected" THEN process_sending(h1, out[c]) ELSE [handler |-> h1, out |-> out[c]]} :
       \E a \in {FoldLeft(LAMBDA x, e : Translate(c, x, e),
                          [handler |-> [k.handler EXCEPT !.events = <<>>], events |-> events], k.handler.events)} :
          /\ handlers' = [handlers EXCEPT ![c] = IF h1.state = "Closed" THEN NoHandler ELSE a.handler]
          /\ events' = a.events
          /\ out' = [out EXCEPT ![c] = k.out]
          /\ transport' = [transport EXCEPT ![c] =
                 IF h1.state = "Closed" /\ @.state = "Connected"
                 THEN [state |-> "Closing", events |-> <<StateChange("Closing")>>]
                 ELSE [@ EXCEPT !.events = <<>>]]
    /\ todo' = todo \ {c}
    /\ UNCHANGED <<requests, phase, peer, posts, remaining_data, reports, faults>>

\* The end of Http3Server::process_multiple(): timers fire in the transport; a datagram is
\* returned and the Runner calls again, or closed connections are forgotten.
Forget(h, st) == IF st = "Closed" THEN NoHandler ELSE h
process_multiple ==
    /\ phase \in {"http3", "input http3"} /\ todo = {}
    /\ \E expired \in SUBSET {c \in Conns : transport[c].state \in {"Closing", "Draining"} /\ transport[c].events = <<>>},
          datagram \in BOOLEAN :
       \E ts \in {[c \in Conns |-> IF c \in expired THEN [state |-> "Closed", events |-> <<StateChange("Closed")>>]
                                   ELSE transport[c]]} :
       \E closed \in {{c \in Conns : ts[c].state = "Closed" /\ handlers[c].state # "removed"}} :
          IF datagram
          THEN /\ transport' = ts /\ UNCHANGED <<handlers, events>>
               /\ phase' = IF phase = "http3" THEN "process" ELSE "input"
          ELSE /\ transport' = [c \in Conns |-> IF ts[c].state = "Closed" THEN [state |-> "gone", events |-> <<>>] ELSE ts[c]]
               /\ handlers' = [c \in Conns |-> Forget(handlers[c], ts[c].state)]
               /\ events' = events \o [i \in 1 .. Cardinality(closed) |-> Of(SetToSeq(closed)[i], StateChange("Closed"))]
               /\ phase' = IF phase = "input http3" \/ events' # <<>> THEN "app" ELSE "idle"
    /\ UNCHANGED <<requests, todo, peer, out, posts, remaining_data, reports, faults>>

-----------------------------------------------------------------------------
(* The application.                                                        *)

Without(f, x) == [y \in DOMAIN f \ {x} |-> f[y]]
With(f, x, v) == [y \in DOMAIN f \cup {x} |-> IF y = x THEN v ELSE f[y]]
Response(c, s) == SendData(c, s, requests[c][s].size, requests[c][s].zeroes)

\* Where the application keeps what remains of a response.
Key(c, s) == s

\* A response is sent, as far as there is room; the rest is kept.
Respond(c, s, r, kept) ==
    /\ handlers' = [handlers EXCEPT ![c] = r.call.handler]
    /\ out' = [out EXCEPT ![c][s] = r.call.out]
    /\ remaining_data' = IF r.rest.remaining = 0 THEN kept ELSE With(kept, Key(c, s), r.rest)

\* Http3ServerEvent::Headers.
OnHeaders(c, s) ==
    LET m == requests[c][s].method
        Done(k) == [call |-> k, rest |-> [Response(c, s) EXCEPT !.remaining = 0]]
        h == handlers[c]
        o == out[c][s]
    IN  IF m = "POST"
        THEN posts' = With(posts, <<c, s>>, 0) /\ UNCHANGED <<handlers, out, remaining_data>>
        ELSE /\ Respond(c, s,
                        CASE m = "CONNECT" -> Done(cancel_fetch(h, o, s))
                          [] m = "404" -> Done(LET k == send_headers(h, o, s)
                                               IN IF k.ok THEN stream_close_send(k.handler, k.out, s)
                                                  ELSE stream_reset_send(h, o, s))
                          [] OTHER -> send_response(h, o, s, Response(c, s)), remaining_data)
             /\ UNCHANGED posts

\* Http3ServerEvent::Data.
OnData(c, s, n, fin) ==
    IF <<c, s>> \notin DOMAIN posts THEN UNCHANGED <<handlers, out, posts, remaining_data>>
    ELSE IF ~fin THEN posts' = [posts EXCEPT ![<<c, s>>] = @ + n] /\ UNCHANGED <<handlers, out, remaining_data>>
    ELSE posts' = Without(posts, <<c, s>>)
         /\ Respond(c, s, send_response(handlers[c], out[c][s], s, Response(c, s)), remaining_data)

\* Http3ServerEvent::DataWritable.
OnWritable(c, s) ==
    IF <<c, s>> \in DOMAIN posts \/ Key(c, s) \notin DOMAIN remaining_data
    THEN UNCHANGED <<handlers, out, remaining_data>>
    ELSE Respond(c, s, send_response_body(handlers[c], out[c][s], s, remaining_data[Key(c, s)]),
                 Without(remaining_data, Key(c, s)))

\* HttpServer::process_events() of neqo-server, one event at a time.
ProcessEvents ==
    /\ phase = "app"
    /\ IF events = <<>>
       THEN phase' = "process" /\ UNCHANGED <<events, handlers, out, posts, remaining_data, reports>>
       ELSE LET e == Head(events)
            IN  /\ events' = Tail(events) /\ UNCHANGED phase
                /\ CASE e.kind = "Headers" -> OnHeaders(e.conn, e.stream) /\ UNCHANGED reports
                     [] e.kind = "Data" -> OnData(e.conn, e.stream, e.n, e.fin) /\ UNCHANGED reports
                     [] e.kind = "DataWritable" -> OnWritable(e.conn, e.stream) /\ UNCHANGED <<posts, reports>>
                     [] e.kind = "Closing" -> /\ reports' = [reports EXCEPT ![e.conn] = @ + 1]
                                              /\ UNCHANGED <<handlers, out, posts, remaining_data>>
                     [] OTHER -> UNCHANGED <<handlers, out, posts, remaining_data, reports>>
    /\ UNCHANGED <<requests, todo, transport, peer, faults>>

-----------------------------------------------------------------------------
(* The peers.                                                              *)

Push(c, e) == transport' = [transport EXCEPT ![c].events = PushUnique(@, e)]
Alive(c) == phase = "idle" /\ transport[c].state = "Connected"
Fault == faults < Faults /\ faults' = faults + 1
OnlyTransport == UNCHANGED <<requests, phase, todo, handlers, events, posts, remaining_data, reports>>

\* More of a request, with its end or before it.
PeerSends(c, s) ==
    /\ Alive(c) /\ Asked(c, s) /\ ~peer[c][s].fin /\ ~out[c][s].dead
    /\ \E n \in peer[c][s].sent .. requests[c][s].body + 1, fin \in BOOLEAN :
          /\ fin => n = requests[c][s].body + 1
          /\ n > peer[c][s].sent \/ fin
          /\ peer' = [peer EXCEPT ![c][s] = [sent |-> n, fin |-> fin]]
    /\ transport' = [transport EXCEPT ![c].events =
            PushUnique(IF peer[c][s].sent = 0 THEN Append(@, StreamEvent("NewStream", s)) ELSE @, StreamEvent("Readable", s))]
    /\ UNCHANGED <<out, faults>> /\ OnlyTransport

\* Room for more of the response, told only when there was none.
PeerReads(c, s) ==
    /\ Alive(c) /\ out[c][s].room = 0 /\ ~out[c][s].fin
    /\ out' = [out EXCEPT ![c][s].room = Room]
    /\ Push(c, StreamEvent("Writable", s))
    /\ UNCHANGED <<peer, faults>> /\ OnlyTransport

\* The peer gives up on a request, or does not want the response.
PeerResets(c, s) ==
    /\ Alive(c) /\ peer[c][s].sent > 0 /\ ~peer[c][s].fin /\ ~out[c][s].dead /\ Fault
    /\ out' = [out EXCEPT ![c][s].dead = TRUE]
    /\ transport' = [transport EXCEPT ![c].events =
            Append(SelectSeq(@, LAMBDA e : e # StreamEvent("Readable", s)), StreamEvent("Reset", s))]
    /\ UNCHANGED peer /\ OnlyTransport
PeerStops(c, s) ==
    /\ Alive(c) /\ peer[c][s].sent > 0 /\ ~out[c][s].fin /\ ~out[c][s].dead /\ Fault
    /\ out' = [out EXCEPT ![c][s].dead = TRUE]
    /\ transport' = [transport EXCEPT ![c].events =
            Append(SelectSeq(@, LAMBDA e : e # StreamEvent("Writable", s)), StreamEvent("StopSending", s))]
    /\ UNCHANGED peer /\ OnlyTransport

\* The peer closes, breaks the protocol, or is not heard of.
PeerLeaves(c) ==
    /\ Alive(c) /\ Fault
    /\ \/ transport' = [transport EXCEPT ![c] = [state |-> "Draining", events |-> Append(@.events, StateChange("Draining"))]]
       \/ transport' = [transport EXCEPT ![c].events = Append(@, StateChange("Error"))]
       \/ transport' = [transport EXCEPT ![c] = [state |-> "Closed", events |-> <<StateChange("Closed")>>]]
    /\ UNCHANGED <<peer, out>> /\ OnlyTransport

\* The Runner reads what arrived, or a timeout fires.
Wake ==
    /\ phase = "idle"
    /\ \E c \in Conns : transport[c].events # <<>> \/ transport[c].state \in {"Closing", "Draining", "Closed"}
    /\ phase' = "input"
    /\ UNCHANGED <<requests, todo, transport, peer, out, handlers, events, posts, remaining_data, reports, faults>>

Next ==
    \/ process_http3 \/ process_multiple \/ ProcessEvents \/ Wake
    \/ \E c \in Conns : process_events(c) \/ PeerLeaves(c)
    \/ \E c \in Conns, s \in Streams : PeerSends(c, s) \/ PeerReads(c, s) \/ PeerResets(c, s) \/ PeerStops(c, s)

Spec == Init /\ [][Next]_vars

-----------------------------------------------------------------------------
\* What a request asks for.
Whole(c, s) == LET d == Response(c, s) IN [i \in 1 .. d.remaining |-> Byte(d, i)]

(* What the server sent on a stream is the beginning of the response to the   *)
(* request on that stream, in order, and all of it when the stream was ended: *)
(* the responses of several requests and connections, each sent in pieces as  *)
(* DataWritable events come, are not mixed up (remaining_data and             *)
(* send_response_body() in neqo-bin server/http3.rs).                         *)
OwnResponse ==
    \A c \in Conns, s \in Streams :
        LET o == out[c][s]
        IN  /\ IsPrefix(o.bytes, Whole(c, s))
            /\ o.fin => o.bytes = IF requests[c][s].method = "404" THEN <<>> ELSE Whole(c, s)

(* When the server waits, nothing arrived and no peer withholds room, every   *)
(* request that arrived in full was answered in full, unless its stream or    *)
(* its connection failed: no call of the application on a handler and no      *)
(* event of a stream is forgotten (needs_processing, should_be_processed()    *)
(* and streams_with_pending_data).  A connection that closed was reported     *)
(* once, also when its handler was removed before the transport told of it    *)
(* ("Callers report each connection once").                                   *)
Quiet == phase = "idle" /\ \A c \in Conns : transport[c].events = <<>>
NothingForgotten ==
    /\ \A c \in Conns : reports[c] <= 1
    /\ Quiet => \A c \in Conns :
          /\ transport[c].state \in {"Closing", "Draining"} => reports[c] = 1
          /\ transport[c].state = "gone" => handlers[c] = NoHandler
          /\ transport[c].state = "Connected" => \A s \in Streams :
                peer[c][s].fin /\ ~out[c][s].dead /\ out[c][s].room > 0 => out[c][s].fin
=============================================================================
