---------------------------- MODULE ClientEvents ----------------------------
(***************************************************************************)
(* How an HTTP/3 client's application learns what happens: the transport   *)
(* queues its events (ConnectionEvents, events.rs), Http3Client takes them *)
(* off, one by one, and queues events of its own (Http3ClientEvents,       *)
(* client_events.rs), which the application takes when it likes.  What is  *)
(* queued may be overtaken: a stream is reset, stopped, finished or        *)
(* canceled, 0-RTT is rejected, the connection closes.  Each of these      *)
(* removes some of what is queued.  Of a stream, what matters here is how  *)
(* far its two halves are and whether there is something to read.          *)
(***************************************************************************)
EXTENDS Integers, Sequences, SequencesExt

\* streams, and whether there is 0-RTT, a GOAWAY, a MAX_STREAMS, an end of the connection;
\* bounds: arrivals, credits, stops for a stream.
CONSTANT Setups

VARIABLES
    setup,
    conn,           \* the transport's state
    t,              \* its streams, by stream
    q,              \* its events
    http,           \* the state of the Http3Connection, and its handlers
    h,              \* the events for the application
    app,            \* what it knows, and did
    phase           \* whose turn it is: a call that lets the transport work ends with
                    \* check_connection_events(), which takes all there is

vars == <<setup, conn, t, q, http, h, app, phase>>

Streams == setup.streams
Ev(type, s) == [type |-> type, s |-> s]
Of(s, types) == [type : types, s : {s}]
StateChange(state) == Ev(state, 0)
Queued(queue, e) == Contains(queue, e)

\* The queue that all of them are made of.
push(queue, e) == Append(queue, e)
push_unique(queue, e) == IF Queued(queue, e) THEN queue ELSE push(queue, e)
remove_matching(queue, events) == SelectSeq(queue, LAMBDA e : e \notin events)

-----------------------------------------------------------------------------
(* ConnectionEvents *)

recv_stream_readable(queue, s) == push_unique(queue, Ev("RecvStreamReadable", s))
recv_stream_reset(queue, s) ==
    push_unique(remove_matching(queue, Of(s, {"RecvStreamReadable"})), Ev("RecvStreamReset", s))
send_stream_writable(queue, s) == push_unique(queue, Ev("SendStreamWritable", s))
send_stream_stop_sending(queue, s) ==
    push_unique(remove_matching(queue, Of(s, {"SendStreamWritable"})), Ev("SendStreamStopSending", s))
send_stream_complete(queue, s) ==
    push(remove_matching(queue, Of(s, {"SendStreamWritable", "SendStreamStopSending", "SendStreamComplete"})),
         Ev("SendStreamComplete", s))
send_stream_creatable(queue) == push_unique(queue, Ev("SendStreamCreatable", 0))
recv_stream_complete(queue, s) == remove_matching(queue, Of(s, {"RecvStreamReadable"}))
connection_state_change(queue, state) ==
    push_unique(IF state \in {"Closing", "Closed"} THEN <<>> ELSE queue, StateChange(state))
client_0rtt_rejected(queue) == push(<<>>, Ev("ZeroRttRejected", 0))

-----------------------------------------------------------------------------
(* Http3ClientEvents *)

data_readable(queue, s) == push(queue, Ev("DataReadable", s))
header_ready(queue, s) == push(queue, Ev("HeaderReady", s))
data_writable(queue, s) == push(queue, Ev("DataWritable", s))

remove_recv_stream_events(queue, s, keep_header_ready) ==
    remove_matching(queue, Of(s, {"DataReadable", "Reset"} \cup (IF keep_header_ready THEN {} ELSE {"HeaderReady"})))
remove_send_stream_events(queue, s) == remove_matching(queue, Of(s, {"DataWritable", "StopSending"}))

\* Variant: a reset takes the headers with it.
RecvClosedDropsHeaders(queue, s, close_type) ==
    LET rest == remove_recv_stream_events(queue, s, FALSE)
    IN  IF close_type = "ResetApp" THEN rest ELSE push(rest, Ev("Reset", s))
recv_closed(queue, s, close_type) ==
    LET rest == remove_recv_stream_events(queue, s, close_type = "ResetRemote")
    IN  IF close_type = "ResetApp" THEN rest ELSE push(rest, Ev("Reset", s))

\* Variant: what is queued for the stream stays.
SendClosedKeeps(queue, s, close_type) ==
    IF close_type = "ResetRemote" THEN push(queue, Ev("StopSending", s)) ELSE queue
send_closed(queue, s, close_type) ==
    LET rest == remove_send_stream_events(queue, s)
    IN  IF close_type = "ResetRemote" THEN push(rest, Ev("StopSending", s)) ELSE rest

new_requests_creatable(queue) == push(queue, Ev("RequestsCreatable", 0))
zero_rtt_rejected(queue) == push(queue, Ev("ZeroRttRejected", 0))
goaway_received(queue) == push(remove_matching(queue, {Ev("RequestsCreatable", 0)}), Ev("GoawayReceived", 0))

\* Variant: what was queued before stays.
StateChangeKeeps(queue, state) == push(queue, StateChange(state))
http_state_change(queue, state) ==
    push(CASE state \in {"Closing", "Closed"} -> <<>>
           [] state = "Connected" -> remove_matching(queue, {StateChange("ZeroRtt")})
           [] OTHER -> queue, StateChange(state))

-----------------------------------------------------------------------------
NoStream == [recv |-> "None", ready |-> FALSE, send |-> "None", arrivals |-> 0, credits |-> 0, stops |-> 0]
NewStream == [NoStream EXCEPT !.recv = "Recv", !.send = "Send"]
Cleared == [s \in Streams |-> NoStream]

Init ==
    /\ setup \in Setups
    /\ conn = "Handshaking" /\ t = Cleared /\ q = <<>>
    /\ http = [state |-> IF setup.zero_rtt THEN "ZeroRtt" ELSE "Initializing",
               recv |-> {}, send |-> {}, head |-> {}]
    /\ h = IF setup.zero_rtt THEN http_state_change(<<>>, "ZeroRtt") ELSE <<>>
    /\ app = [state |-> "Initializing", made |-> {}, head |-> {}, reading |-> {}, reset |-> {},
              stopped |-> {}, canceled |-> {}, closed |-> {}]
    /\ phase = "app"

(* The transport *)

Works == phase \in {"app", "transport"} /\ phase' = "transport"

Recv(s) == t[s].recv \in {"Recv", "SizeKnown"}

\* An event only if there was nothing to read before.
inbound_stream_frame(s, fin) ==
    /\ Works
    /\ conn = "Connected" /\ t[s].recv = "Recv" /\ t[s].arrivals < setup.arrivals
    /\ t' = [t EXCEPT ![s].ready = TRUE, ![s].recv = IF fin THEN "SizeKnown" ELSE @, ![s].arrivals = @ + 1]
    /\ q' = IF t[s].ready THEN q ELSE recv_stream_readable(q, s)
    /\ UNCHANGED <<setup, conn, http, h, app>>

finish_reset(s) ==
    /\ Works
    /\ conn = "Connected" /\ t[s].recv = "Recv"
    /\ t' = [t EXCEPT ![s].recv = "Reset", ![s].ready = FALSE]
    /\ q' = recv_stream_reset(q, s)
    /\ UNCHANGED <<setup, conn, http, h, app>>

\* The frame may be a retransmission: the event comes before the stream is looked at.
StopSending(s) ==
    /\ Works
    /\ conn = "Connected" /\ s \in app.made /\ t[s].stops < setup.stops
    /\ q' = send_stream_stop_sending(q, s)
    /\ t' = [t EXCEPT ![s].stops = @ + 1, ![s].send = IF @ \in {"Send", "DataSent"} THEN "ResetSent" ELSE @]
    /\ UNCHANGED <<setup, conn, http, h, app>>

Credit(s) ==
    /\ Works
    /\ conn = "Connected" /\ t[s].send = "Send" /\ t[s].credits < setup.credits
    /\ t' = [t EXCEPT ![s].credits = @ + 1]
    /\ q' = send_stream_writable(q, s)
    /\ UNCHANGED <<setup, conn, http, h, app>>

mark_as_acked(s) ==
    /\ Works
    /\ conn = "Connected" /\ t[s].send = "DataSent"
    /\ t' = [t EXCEPT ![s].send = "DataRecvd"]
    /\ q' = send_stream_complete(q, s)
    /\ UNCHANGED <<setup, conn, http, h, app>>

MaxStreams ==
    /\ Works
    /\ conn = "Connected" /\ setup.creatable /\ ~Queued(h, Ev("RequestsCreatable", 0))
    /\ q' = send_stream_creatable(q)
    /\ UNCHANGED <<setup, conn, t, http, h, app>>

Order == [Handshaking |-> 0, Connected |-> 1, Closing |-> 2, Draining |-> 3, Closed |-> 4]
IsClosed(state) == Order[state] > 1
set_state(state) ==
    /\ conn' = state
    /\ t' = IF IsClosed(state) THEN Cleared ELSE t
    /\ q' = connection_state_change(q, state)
Moves(state) ==
    /\ Works /\ Order[state] > Order[conn] /\ (IsClosed(state) => setup.closes)
    /\ set_state(state)
    /\ UNCHANGED <<setup, http, h, app>>

\* Before the connection is established.
Rejected ==
    /\ Works
    /\ conn = "Handshaking" /\ setup.zero_rtt /\ http.state = "ZeroRtt" /\ ~Queued(q, Ev("ZeroRttRejected", 0))
    /\ t' = Cleared /\ q' = client_0rtt_rejected(q)
    /\ UNCHANGED <<setup, conn, http, h, app>>

-----------------------------------------------------------------------------
(* Http3Client: check_connection_events() *)

handle_state_change(state) ==
    LET new == IF state \in {"Closing", "Draining"} THEN "Closing" ELSE state
        known == http.state = "Closed" \/ new = http.state
    IN  IF known THEN UNCHANGED <<http, h>>
        ELSE /\ http' = [http EXCEPT !.state = new]
             /\ h' = http_state_change(h, new)

\* RecvMessage: the headers, and then that there is data.
handle_stream_readable(s) ==
    IF s \in http.recv /\ s \in http.head
    THEN h' = data_readable(h, s) /\ q' = Tail(q) /\ UNCHANGED <<t, http>>
    ELSE IF s \in http.recv /\ Recv(s)
    THEN \E more \in BOOLEAN :
            LET over == ~more /\ t[s].recv = "SizeKnown"
            IN  /\ t' = [t EXCEPT ![s].ready = more, ![s].recv = IF over THEN "Read" ELSE @]
                /\ q' = IF over THEN recv_stream_complete(Tail(q), s) ELSE Tail(q)
                /\ http' = [http EXCEPT !.head = @ \cup {s}, !.recv = IF over THEN @ \ {s} ELSE @]
                /\ h' = IF more THEN data_readable(header_ready(h, s), s) ELSE header_ready(h, s)
    ELSE q' = Tail(q) /\ UNCHANGED <<t, http, h>>

HandleEvent ==
    /\ q # <<>> /\ http.state # "Closed"
    /\ LET e == Head(q)
           s == e.s
       IN  CASE e.type = "RecvStreamReadable" ->
                    handle_stream_readable(s)
             [] e.type = "RecvStreamReset" ->
                    /\ q' = Tail(q) /\ UNCHANGED t
                    /\ http' = [http EXCEPT !.recv = @ \ {s}]
                    /\ h' = IF s \in http.recv THEN recv_closed(h, s, "ResetRemote") ELSE h
             [] e.type = "SendStreamWritable" ->
                    /\ q' = Tail(q) /\ UNCHANGED <<t, http>>
                    /\ h' = IF s \in http.send THEN data_writable(h, s) ELSE h
             [] e.type = "SendStreamStopSending" ->
                    /\ q' = Tail(q) /\ UNCHANGED t
                    /\ http' = [http EXCEPT !.send = @ \ {s}]
                    /\ h' = IF s \in http.send THEN send_closed(h, s, "ResetRemote") ELSE h
             [] e.type = "SendStreamCreatable" ->
                    q' = Tail(q) /\ h' = new_requests_creatable(h) /\ UNCHANGED <<t, http>>
             [] e.type = "ZeroRttRejected" ->
                    /\ q' = Tail(q) /\ UNCHANGED t
                    /\ http' = [http EXCEPT !.state = "Initializing", !.recv = {}, !.send = {}, !.head = {}]
                    /\ h' = zero_rtt_rejected(h)
             [] e.type = "SendStreamComplete" -> q' = Tail(q) /\ UNCHANGED <<t, http, h>>
             [] OTHER -> q' = Tail(q) /\ UNCHANGED t /\ handle_state_change(e.type)
    /\ phase' = IF q' = <<>> THEN "app" ELSE "http"
    /\ UNCHANGED <<setup, conn, app>>

\* Streams from id on are refused.
handle_goaway(id) ==
    /\ Works /\ setup.goaway /\ http.state = "Connected" /\ conn = "Connected"
    /\ LET sends == SetToSeq({s \in http.send : s >= id})
           recvs == SetToSeq({s \in http.recv : s >= id})
       IN  h' = goaway_received(FoldLeft(LAMBDA x, s : recv_closed(x, s, "ResetRemote"),
                    FoldLeft(LAMBDA x, s : send_closed(x, s, "ResetRemote"), h, sends), recvs))
    /\ http' = [http EXCEPT !.state = "GoingAway", !.send = {s \in @ : s < id}, !.recv = {s \in @ : s < id}]
    /\ UNCHANGED <<setup, conn, t, q, app>>

-----------------------------------------------------------------------------
(* The application *)

Calls == phase = "app" /\ UNCHANGED <<setup, phase>>

\* With the events taken: a rejection of 0-RTT that still waits would be taken to be
\* about the new request.
fetch(s) ==
    /\ Calls /\ ~Queued(h, Ev("ZeroRttRejected", 0))
    /\ s \notin app.made /\ http.state \in {"ZeroRtt", "Connected"} /\ ~IsClosed(conn)
    /\ t' = [t EXCEPT ![s] = NewStream]
    /\ q' = send_stream_writable(q, s)
    /\ http' = [http EXCEPT !.recv = @ \cup {s}, !.send = @ \cup {s}]
    /\ app' = [app EXCEPT !.made = @ \cup {s}]
    /\ UNCHANGED <<conn, h>>

\* A stream that was finished or refused is not known anymore.
cancel_fetch(s) ==
    /\ Calls /\ s \in app.made /\ s \in http.send \cup http.recv
    /\ h' = LET closed == IF s \in http.send THEN send_closed(h, s, "ResetApp") ELSE h
            IN  IF s \in http.recv THEN recv_closed(closed, s, "ResetApp") ELSE closed
    /\ t' = [t EXCEPT ![s].send = IF s \in http.send /\ @ \in {"Send", "DataSent"} THEN "ResetSent" ELSE @,
                      ![s].recv = IF s \in http.recv /\ Recv(s) THEN "AbortReading" ELSE @,
                      ![s].ready = @ /\ s \notin http.recv]
    /\ http' = [http EXCEPT !.send = @ \ {s}, !.recv = @ \ {s}]
    /\ app' = [app EXCEPT !.canceled = IF s \in http.recv THEN @ \cup {s} ELSE @,
                          !.closed = IF s \in http.send THEN @ \cup {s} ELSE @]
    /\ UNCHANGED <<conn, q>>

stream_close_send(s) ==
    /\ Calls /\ s \in app.made /\ s \in http.send
    /\ h' = send_closed(h, s, "Done")
    /\ t' = [t EXCEPT ![s].send = IF @ = "Send" THEN "DataSent" ELSE @]
    /\ http' = [http EXCEPT !.send = @ \ {s}]
    /\ app' = [app EXCEPT !.closed = @ \cup {s}]
    /\ UNCHANGED <<conn, q>>

\* Until there is no more.
read_data(s) ==
    /\ Calls /\ s \in app.reading
    /\ LET over == s \in http.recv /\ t[s].recv = "SizeKnown"
       IN  /\ t' = [t EXCEPT ![s].ready = @ /\ s \notin http.recv, ![s].recv = IF over THEN "Read" ELSE @]
           /\ q' = IF over THEN recv_stream_complete(q, s) ELSE q
           /\ http' = [http EXCEPT !.recv = IF over THEN @ \ {s} ELSE @]
    /\ app' = [app EXCEPT !.reading = @ \ {s}]
    /\ UNCHANGED <<conn, h>>

close ==
    /\ Calls /\ setup.closes /\ http.state \notin {"Closing", "Closed"}
    /\ ~IsClosed(conn) /\ set_state("Closing")
    /\ http' = [http EXCEPT !.state = "Closing"]
    /\ h' = http_state_change(h, "Closing")
    /\ UNCHANGED app

next_event ==
    /\ Calls /\ h # <<>>
    /\ LET e == Head(h)
           s == e.s
       IN  app' = CASE e.type = "HeaderReady" -> [app EXCEPT !.head = @ \cup {s}]
                    [] e.type = "DataReadable" -> [app EXCEPT !.reading = @ \cup {s}]
                    [] e.type = "Reset" -> [app EXCEPT !.reset = @ \cup {s}, !.reading = @ \ {s}]
                    [] e.type = "StopSending" -> [app EXCEPT !.stopped = @ \cup {s}]
                    [] e.type \in {"DataWritable", "RequestsCreatable"} -> app
                    [] e.type = "GoawayReceived" -> [app EXCEPT !.state = "GoingAway"]
                    [] e.type = "ZeroRttRejected" -> [app EXCEPT !.state = "Initializing", !.made = {}, !.closed = {}, !.canceled = {}]
                    [] OTHER -> [app EXCEPT !.state = e.type]
    /\ h' = Tail(h)
    /\ UNCHANGED <<conn, t, q, http>>

Next ==
    \/ \E s \in Streams :
          \/ \E fin \in BOOLEAN : inbound_stream_frame(s, fin)
          \/ finish_reset(s) \/ StopSending(s) \/ Credit(s) \/ mark_as_acked(s)
          \/ fetch(s) \/ cancel_fetch(s) \/ stream_close_send(s) \/ read_data(s)
    \/ \E state \in DOMAIN Order : Moves(state)
    \/ MaxStreams \/ Rejected \/ HandleEvent \/ close \/ next_event
    \/ \E id \in 1 .. 3 : handle_goaway(id)

Spec == Init /\ [][Next]_vars

-----------------------------------------------------------------------------
(* No event comes after the event, or the call of the application, that    *)
(* ends what it is about, and nothing from before remains once the         *)
(* connection closes: recv_closed(), send_closed() and                     *)
(* connection_state_change() remove it from the queue.                     *)
NothingAfterTheEnd ==
    /\ \A i \in DOMAIN h :
          LET s == h[i].s
              Before(type) == Queued(SubSeq(h, 1, i - 1), Ev(type, s))
          IN  /\ h[i].type \in {"HeaderReady", "DataReadable", "Reset"} =>
                    s \notin app.reset \cup app.canceled /\ ~Before("Reset")
              /\ h[i].type \in {"DataWritable", "StopSending"} =>
                    s \notin app.stopped \cup app.closed /\ ~Before("StopSending")
    /\ \A i \in DOMAIN h : h[i].type = "Closing" => i = 1
    /\ app.state = "Closing" => h \in {<<>>, <<StateChange("Closed")>>}

(* What ends is told: while the connection is open, a stream that the peer *)
(* reset or stopped is one that the application ended itself, or was told  *)
(* of, or an event is on its way through the queues.  With no event left,  *)
(* the application knows the state of the connection.                      *)
EndsAreTold ==
    /\ http.state \notin {"Closing", "Closed"} /\ ~IsClosed(conn) =>
          \A s \in Streams :
              /\ t[s].recv = "Reset" =>
                    s \in app.reset \cup app.canceled \/ Queued(q, Ev("RecvStreamReset", s)) \/ Queued(h, Ev("Reset", s))
              /\ t[s].send = "ResetSent" =>
                    s \in app.stopped \cup app.closed \/ Queued(q, Ev("SendStreamStopSending", s))
                    \/ Queued(h, Ev("StopSending", s))
    /\ h = <<>> => app.state = http.state
    /\ q = <<>> => CASE conn = "Handshaking" -> http.state \in {"Initializing", "ZeroRtt"}
                     [] conn = "Connected" -> http.state \in {"Connected", "GoingAway"}
                     [] conn = "Closed" -> http.state = "Closed"
                     [] OTHER -> http.state = "Closing"

(* What arrived is not forgotten: headers that were decoded, and so exist  *)
(* only in an event, reach the application unless it cancels the request,  *)
(* even if the stream is reset after them; and while there is something to *)
(* read, the application is reading or an event is on its way.             *)
ArrivalsAreTold ==
    http.state \notin {"Closing", "Closed"} /\ ~IsClosed(conn) =>
        \A s \in Streams \ app.canceled :
            /\ s \in http.head => s \in app.head \/ Queued(h, Ev("HeaderReady", s))
            /\ s \in http.recv /\ t[s].ready =>
                  s \in app.reading \/ Queued(q, Ev("RecvStreamReadable", s)) \/ Queued(h, Ev("DataReadable", s))
=============================================================================
