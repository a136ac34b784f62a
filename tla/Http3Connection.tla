--------------------------- MODULE Http3Connection ---------------------------
(***************************************************************************)
(* The HTTP/3 connections of a client and a server over one QUIC           *)
(* connection (neqo-http3/src/connection.rs, connection_client.rs and      *)
(* connection_server.rs): set up with or without 0-RTT, SETTINGS, the      *)
(* tables of stream handlers, requests, cancellation, GOAWAY and close.    *)
(* Streams are delivered in any relative order.  The transport's events    *)
(* wait in a queue, and the application acts when it is drained.           *)
(* What is on the streams of a request is abstracted to its first and its  *)
(* last bytes; Http3Messages has the rest.                                 *)
(***************************************************************************)
EXTENDS Integers, Sequences, FiniteSets, SequencesExt

CONSTANTS
    Requests,               \* ids of the client's bidirectional streams: 0, 4, ...
    Unis,                   \* the control and QPACK streams, see below
    Setups,                 \* see setup
    StopOvertakes           \* whether STOP_SENDING may overtake the request

VARIABLES
    setup,                  \* resume with a ticket of a server with settings old, now new; what the
                            \* applications do; bounds on GOAWAY frames and on events that wait
    tp,                     \* the states of the two transports
    h,                      \* the two Http3Connections
    wire, rx,               \* per sender, per receiver: what is on each stream
    stop,                   \* STOP_SENDING frames on their way to each end
    half,                   \* the receiving halves of streams: new, open or aborted
    ended,                  \* sending halves that have a FIN or a reset
    evq,                    \* events of the two transports
    app,                    \* what the client's application knows of each request
    processed, goaways,     \* what the server's application did
    error                   \* connection errors

vars == <<setup, tp, h, wire, rx, stop, half, ended, evq, app, processed, goaways, error>>

Roles == {"client", "server"}
Peer(r) == IF r = "client" THEN "server" ELSE "client"
Control == -1
Streams == Requests \cup Unis

(* Frames and other things on a stream; id is for GOAWAY and PRIORITY_UPDATE. *)
Item(f, id) == [frame |-> f, id |-> id]
Ev(type, s) == [type |-> type, s |-> s]
StateChange(state) == Ev(state, 0)

Idle == [state |-> "Initializing", goaway |-> 0, settings |-> "NotReceived",
         created |-> FALSE, heads |-> {}, critical |-> {}, send |-> {}, recv |-> {}]
IsLocal(r, s) == r = "client" /\ s \in Requests
NewHalves(r) == [s \in Streams |-> IF IsLocal(r, s) THEN "open" ELSE "new"]
Empty == [r \in Roles |-> [s \in Streams |-> <<>>]]

-----------------------------------------------------------------------------
(* The settings in a ticket are compared with those of the server that    *)
(* gets it back (HttpZeroRttChecker); connect is not among the former.     *)
SavedBeforeWebTransport == {"table", "blocked", "dgram"}      \* mutant of Saved
Saved == {"table", "blocked", "wt", "dgram"}
Accepts(u) == u.resume /\ \A st \in Saved : u.old[st] <= u.new[st]

(* handle_settings when the settings of the ticket were in use. *)
Settings0RttError(u) ==
    IF \E st \in DOMAIN u.old : u.old[st] > u.new[st] THEN "HttpSettings"
    ELSE IF u.old["table"] # 0 /\ u.old["table"] # u.new["table"] THEN "Qpack"
    ELSE "none"

(* The control and the QPACK streams, with SETTINGS on the first. *)
InitializeHttp3(w) ==
    [s \in Streams |-> IF s \notin Unis THEN w[s]
                       ELSE <<Item("type", 0)>> \o IF s = Control THEN <<Item("settings", 0)>> ELSE <<>>]

Init ==
    /\ setup \in Setups
    /\ tp = [r \in Roles |-> "Init"]
    /\ h = [client |-> IF setup.resume
                       THEN [Idle EXCEPT !.state = "ZeroRtt", !.settings = "ZeroRtt", !.created = TRUE]
                       ELSE Idle,
            server |-> Idle]
    /\ wire = [Empty EXCEPT !["client"] = IF setup.resume THEN InitializeHttp3(@) ELSE @]
    /\ rx = Empty
    /\ stop = [r \in Roles |-> {}] /\ ended = [r \in Roles |-> {}]
    /\ half = [r \in Roles |-> NewHalves(r)]
    /\ evq = [r \in Roles |-> <<>>]
    /\ app = [s \in Requests |-> "none"]
    /\ processed = {} /\ goaways = <<>>
    /\ error = [r \in Roles |-> "none"]

Active(r) == h[r].state \in {"ZeroRtt", "Connected", "GoingAway"}

-----------------------------------------------------------------------------
(* The transport (external): the handshake, delivery, and close.  A step   *)
(* of one end commutes with those of the other, which reads only what was  *)
(* put on the wire: an end with events is left to handle them.             *)
Turn(r) == evq[Peer(r)] = <<>>

ServerHandshaking ==
    /\ Turn("server") /\ tp["server"] = "Init"
    /\ tp' = [tp EXCEPT !["server"] = "Handshaking"]
    /\ evq' = [evq EXCEPT !["server"] = Append(@, StateChange("Handshaking"))]
    /\ UNCHANGED <<setup, h, wire, rx, stop, half, ended, app, processed, goaways, error>>

(* Rejection of 0-RTT clears the events, and the streams. *)
ClientConnected ==
    /\ Turn("client") /\ tp["client"] = "Init" /\ tp["server"] = "Handshaking"
    /\ tp' = [tp EXCEPT !["client"] = "Connected"]
    /\ IF setup.resume /\ ~Accepts(setup)
       THEN /\ evq' = [evq EXCEPT !["client"] = <<Ev("ZeroRttRejected", 0), StateChange("Connected")>>]
            /\ wire' = [wire EXCEPT !["client"] = [s \in Streams |-> <<>>]]
            /\ half' = [half EXCEPT !["client"] = NewHalves("client")]
            /\ ended' = [ended EXCEPT !["client"] = {}] /\ stop' = [stop EXCEPT !["server"] = {}]
       ELSE /\ evq' = [evq EXCEPT !["client"] = Append(@, StateChange("Connected"))]
            /\ UNCHANGED <<wire, half, ended, stop>>
    /\ UNCHANGED <<setup, h, rx, app, processed, goaways, error>>

ServerConnected ==
    /\ Turn("server") /\ tp["server"] = "Handshaking" /\ tp["client"] = "Connected"
    /\ tp' = [tp EXCEPT !["server"] = "Connected"]
    /\ evq' = [evq EXCEPT !["server"] = Append(@, StateChange("Connected"))]
    /\ UNCHANGED <<setup, h, wire, rx, stop, half, ended, app, processed, goaways, error>>

(* 0-RTT packets reach a server that takes them before the handshake ends. *)
Reachable(r) ==
    \/ tp[r] = "Connected"
    \/ r = "server" /\ tp = [client |-> "Init", server |-> "Handshaking"] /\ Accepts(setup)

PushUnique(q, e) == IF Contains(q, e) THEN q ELSE Append(q, e)
WithNewStream(r, s) == IF half[r][s] = "new" THEN Append(evq[r], Ev("NewStream", s)) ELSE evq[r]
NotReadable(q, s) == SelectSeq(q, LAMBDA e : e # Ev("Readable", s))

(* The first n items of a stream arrive. *)
Arrive(r, s, n) ==
    /\ Turn(r) /\ Reachable(r) /\ Len(evq[r]) < setup.events
    /\ wire' = [wire EXCEPT ![Peer(r)][s] = SubSeq(@, n + 1, Len(@))]
    /\ IF half[r][s] = "aborted" THEN UNCHANGED <<rx, evq, half>>
       ELSE IF wire[Peer(r)][s][n].frame = "reset"
       THEN /\ rx' = [rx EXCEPT ![r][s] = <<>>]
            /\ half' = [half EXCEPT ![r][s] = "aborted"]
            /\ evq' = [evq EXCEPT ![r] = PushUnique(NotReadable(WithNewStream(r, s), s), Ev("Reset", s))]
       ELSE /\ rx' = [rx EXCEPT ![r][s] = @ \o SubSeq(wire[Peer(r)][s], 1, n)]
            /\ half' = [half EXCEPT ![r][s] = "open"]
            /\ evq' = [evq EXCEPT ![r] = PushUnique(WithNewStream(r, s), Ev("Readable", s))]
    /\ UNCHANGED <<setup, tp, h, stop, ended, app, processed, goaways, error>>

(* The event comes first; a sending half that is not done with is reset. *)
ArriveStopSending(r, s) ==
    /\ Turn(r) /\ Reachable(r) /\ Len(evq[r]) < setup.events
    /\ s \in stop[r] /\ (half[r][s] = "new" => StopOvertakes)
    /\ stop' = [stop EXCEPT ![r] = @ \ {s}]
    /\ half' = [half EXCEPT ![r][s] = IF @ = "new" THEN "open" ELSE @]
    /\ evq' = [evq EXCEPT ![r] = PushUnique(@, Ev("StopSending", s))
                                 \o IF half[r][s] = "new" THEN <<Ev("NewStream", s)>> ELSE <<>>]
    /\ IF s \notin ended[r] \/ (wire[r][s] # <<>> /\ Last(wire[r][s]).frame # "reset")
       THEN /\ wire' = [wire EXCEPT ![r][s] = Append(@, Item("reset", 0))]
            /\ ended' = [ended EXCEPT ![r] = @ \cup {s}]
       ELSE UNCHANGED <<wire, ended>>
    /\ UNCHANGED <<setup, tp, h, rx, app, processed, goaways, error>>

(* The peer closed, and then time passes. *)
TransportDraining(r) ==
    /\ Turn(r) /\ tp[r] = "Connected" /\ tp[Peer(r)] \in {"Closing", "Closed"}
    /\ tp' = [tp EXCEPT ![r] = "Draining"]
    /\ evq' = [evq EXCEPT ![r] = Append(@, StateChange("Draining"))]
    /\ UNCHANGED <<setup, h, wire, rx, stop, half, ended, app, processed, goaways, error>>

TransportClosed(r) ==
    /\ Turn(r) /\ tp[r] \in {"Closing", "Draining"}
    /\ tp' = [tp EXCEPT ![r] = "Closed"]
    /\ evq' = [evq EXCEPT ![r] = <<StateChange("Closed")>>]
    /\ UNCHANGED <<setup, h, wire, rx, stop, half, ended, app, processed, goaways, error>>

-----------------------------------------------------------------------------
(* The tables of handlers.  A CONNECT has its two handlers removed together. *)
Tied(r, s) == r = "client" /\ s \in setup.connects
RemoveRecv(r, c, s) ==
    [c EXCEPT !.recv = @ \ {s}, !.heads = @ \ {s}, !.send = IF Tied(r, s) /\ s \in c.recv THEN @ \ {s} ELSE @]
RemoveSend(r, c, s) ==
    [c EXCEPT !.send = @ \ {s}, !.recv = IF Tied(r, s) /\ s \in c.send THEN @ \ {s} ELSE @]

(* What the client's application hears of the requests in a set. *)
Tell(r, a, told, what) ==
    [s \in Requests |-> IF r = "client" /\ s \in told /\ a[s] = "open" THEN what ELSE a[s]]

(* A step of the connection's state c and of what the application knows. *)
Acc(c, a, e) == [c |-> c, app |-> a, error |-> e]

HandleSettings(x) ==
    LET e == CASE x.c.settings = "NotReceived" -> "none"
               [] x.c.settings = "ZeroRtt" -> Settings0RttError(setup)
               [] x.c.settings = "Received" -> "HttpFrameUnexpected"
    IN Acc(IF e = "none" THEN [x.c EXCEPT !.settings = "Received"] ELSE x.c, x.app, e)

(* Mutant of IdGte: the first stream of those is left. *)
IdGteStrict(set, id) == {s \in set : s > id}

(* Requests from the stream id on are reset; the transport is not told. *)
IdGte(set, id) == {s \in set : s >= id}

HandleGoaway(x, id) ==
    IF x.c.state = "GoingAway" /\ id > x.c.goaway THEN Acc(x.c, x.app, "HttpGoaway")
    ELSE IF x.c.state \notin {"Connected", "GoingAway"} THEN Acc(x.c, x.app, "unreachable")
    ELSE Acc([x.c EXCEPT !.state = "GoingAway", !.goaway = id,
                         !.send = @ \ IdGte(@, id), !.recv = @ \ IdGte(@, id)],
             Tell("client", x.app, IdGte(x.c.recv, id), "rejected"), "none")

ControlFrame(r, x, f) ==
    IF x.error # "none" THEN x
    ELSE IF f.frame = "settings" THEN HandleSettings(x)
    ELSE IF x.c.settings # "Received" THEN Acc(x.c, x.app, "HttpMissingSettings")
    ELSE IF f.frame = "goaway" /\ r = "client" THEN HandleGoaway(x, f.id)
    ELSE IF f.frame = "priority" /\ r = "server" THEN x
    ELSE Acc(x.c, x.app, "HttpFrameUnexpected")

ReceiveControl(r, c, items) == FoldLeft(LAMBDA x, f : ControlFrame(r, x, f), Acc(c, app, "none"), items)

(* A stream whose type is known: one of the three, or a request. *)
HandleNewStream(c, s) ==
    IF s \in Unis THEN [c EXCEPT !.heads = @ \ {s}, !.critical = @ \cup {s}]
    ELSE [c EXCEPT !.heads = @ \ {s}, !.send = @ \cup {s}, !.recv = @ \cup {s}]

(* A unidirectional stream: its type, then the frames of the control stream. *)
ReadUni(r, c, s, items) ==
    LET typed == s \in c.heads /\ items # <<>>
    IN IF typed /\ s \in c.critical THEN Acc(c, app, "HttpStreamCreation")
       ELSE IF typed THEN ReceiveControl(r, HandleNewStream(c, s), Tail(items))
       ELSE ReceiveControl(r, c, items)

(* A request at the server, or a response at the client, up to its end. *)
ReadRequest(r, c, s, items) ==
    LET c1 == IF s \in c.heads THEN HandleNewStream(c, s) ELSE c
        fin == items # <<>> /\ Last(items).frame = "fin"
    IN Acc(IF fin THEN RemoveRecv(r, c1, s) ELSE c1,
           IF fin THEN Tell(r, app, c1.recv \cap {s}, "answered") ELSE app, "none")

HandleReadable(r, c, s) ==
    IF s \in c.heads \cup c.critical \cup c.recv
    THEN IF s \in Unis THEN ReadUni(r, c, s, rx[r][s]) ELSE ReadRequest(r, c, s, rx[r][s])
    ELSE Acc(c, app, "none")

(* Mutant of HandleReset: a stream that is reset before its type is known stays. *)
HandleResetKeepsHead(r, c, s) ==
    Acc([RemoveRecv(r, c, s) EXCEPT !.heads = c.heads], Tell(r, app, c.recv \cap {s}, "reset"), "none")

HandleReset(r, c, s) ==
    IF s \in c.critical THEN Acc(c, app, "HttpClosedCriticalStream")
    ELSE Acc(RemoveRecv(r, c, s), Tell(r, app, c.recv \cap {s}, "reset"), "none")

HandleStopSending(r, c, s) ==
    IF s \in Unis THEN Acc(c, app, "HttpClosedCriticalStream")
    ELSE Acc(RemoveSend(r, c, s),
             IF Tied(r, s) THEN Tell(r, app, c.send \cap {s}, "reset") ELSE app, "none")

AddNewStream(c, s) == [c EXCEPT !.heads = @ \cup {s}]

HandleZeroRttRejected == Idle

StateAfter(r, c, e) ==
    CASE e = "Handshaking" /\ Accepts(setup) -> "ZeroRtt"
      [] e = "Connected" -> "Connected"
      [] e = "Draining" /\ c.state \notin {"Closing", "Closed"} -> "Closing"
      [] e = "Closed" -> "Closed"
      [] OTHER -> c.state

(* Entering ZeroRtt at the server, or Connected from Initializing, creates the streams. *)
Initializes(c, e) ==
    \/ e = "Handshaking" /\ Accepts(setup)
    \/ e = "Connected" /\ c.state = "Initializing"

HandleStateChange(r, c, e) ==
    Acc([c EXCEPT !.state = StateAfter(r, c, e), !.created = @ \/ Initializes(c, e)], app, "none")

Handle(r, c, e) ==
    CASE e.type = "NewStream" -> Acc(AddNewStream(c, e.s), app, "none")
      [] e.type = "Readable" -> HandleReadable(r, c, e.s)
      [] e.type = "Reset" -> HandleReset(r, c, e.s)
      [] e.type = "StopSending" -> HandleStopSending(r, c, e.s)
      [] e.type = "ZeroRttRejected" -> Acc(HandleZeroRttRejected, [s \in Requests |-> "none"], "none")
      [] OTHER -> HandleStateChange(r, c, e.type)

(* The application, or an error, closes the connection. *)
CloseOf(c) == [c EXCEPT !.state = "Closing", !.heads = {}, !.critical = {}, !.send = {}, !.recv = {}]

HandleEvent(r) ==
    /\ evq[r] # <<>> /\ h[r].state # "Closed"
    /\ \E e \in {Head(evq[r])} : \E x \in {Handle(r, h[r], e)} :
        /\ error' = [error EXCEPT ![r] = x.error]
        /\ app' = x.app
        /\ rx' = IF e.type = "Readable" THEN [rx EXCEPT ![r][e.s] = <<>>] ELSE rx
        /\ IF x.error = "none"
           THEN /\ h' = [h EXCEPT ![r] = x.c]
                /\ evq' = [evq EXCEPT ![r] = Tail(@)]
                /\ wire' = IF Initializes(h[r], e.type)
                           THEN [wire EXCEPT ![r] = InitializeHttp3(@)] ELSE wire
                /\ UNCHANGED tp
           ELSE /\ h' = [h EXCEPT ![r] = CloseOf(x.c)]
                /\ tp' = [tp EXCEPT ![r] = "Closing"]
                /\ evq' = [evq EXCEPT ![r] = <<>>] /\ UNCHANGED wire
    /\ UNCHANGED <<setup, stop, half, ended, processed, goaways>>

-----------------------------------------------------------------------------
(* The applications; each acts once its end has handled the events. *)
Drained(r) == evq[r] = <<>> /\ Turn(r)
Send(r, s, f) == wire' = [wire EXCEPT ![r][s] = Append(@, Item(f, 0))]
SendControl(r, f, id) == wire' = [wire EXCEPT ![r][Control] = Append(@, Item(f, id))]

RequestWithStream(c, s) == [c EXCEPT !.send = @ \cup {s}, !.recv = @ \cup {s}]
Fetch(s) ==
    /\ Drained("client") /\ h["client"].state \in {"ZeroRtt", "Connected"}
    /\ s \in setup.requests /\ app[s] = "none" /\ \A t \in Requests : t < s => app[t] # "none"
    /\ h' = [h EXCEPT !["client"] = RequestWithStream(@, s)]
    /\ app' = [app EXCEPT ![s] = "open"]
    /\ Send("client", s, "headers")
    /\ UNCHANGED <<setup, tp, rx, stop, half, ended, evq, processed, goaways, error>>

(* The end of a request, or the answer to one.  An answer for which the    *)
(* transport has no stream any more is an error of the connection, which   *)
(* process_sending meets.                                                  *)
StreamCloseSend(r, s) ==
    /\ Drained(r) /\ Active(r) /\ s \in h[r].send
    /\ r = "server" => s \in processed
    /\ IF r = "server" /\ s \in ended[r]
       THEN /\ h' = [h EXCEPT ![r] = CloseOf(@)] /\ tp' = [tp EXCEPT ![r] = "Closing"]
            /\ error' = [error EXCEPT ![r] = "Transport"]
            /\ UNCHANGED <<app, ended, wire>>
       ELSE /\ h' = [h EXCEPT ![r] = RemoveSend(r, @, s)]
            /\ app' = IF Tied(r, s) THEN Tell(r, app, {s}, "closed") ELSE app
            /\ ended' = [ended EXCEPT ![r] = @ \cup {s}]
            /\ Send(r, s, "fin")
            /\ UNCHANGED <<tp, error>>
    /\ UNCHANGED <<setup, rx, stop, half, evq, processed, goaways>>

CancelFetch(r, s) ==
    /\ r \in setup.cancels /\ Drained(r) /\ Active(r) /\ s \in h[r].send \cup h[r].recv
    /\ r = "server" => s \notin h[r].heads
    /\ h' = [h EXCEPT ![r] = RemoveSend(r, RemoveRecv(r, @, s), s)]
    /\ app' = Tell(r, app, {s}, "cancelled")
    /\ IF s \in h[r].send
       THEN wire' = [wire EXCEPT ![r][s] = Append(@, Item("reset", 0))] /\ ended' = [ended EXCEPT ![r] = @ \cup {s}]
       ELSE UNCHANGED <<wire, ended>>
    /\ IF s \in h[r].recv
       THEN half' = [half EXCEPT ![r][s] = "aborted"] /\ stop' = [stop EXCEPT ![Peer(r)] = @ \cup {s}]
       ELSE UNCHANGED <<half, stop>>
    /\ UNCHANGED <<setup, tp, rx, evq, processed, goaways, error>>

(* An update of the priority of a request, when the last one has been taken. *)
PriorityUpdate(s) ==
    /\ setup.priority /\ Drained("client") /\ Active("client") /\ s \in h["client"].recv \ setup.connects
    /\ \A f \in Range(wire["client"][Control]) \cup Range(rx["server"][Control]) : f.frame # "priority"
    /\ SendControl("client", "priority", s)
    /\ UNCHANGED <<setup, tp, h, rx, stop, half, ended, evq, app, processed, goaways, error>>

(* The server's application takes up a request it has not said it will refuse. *)
Process(s) ==
    /\ Drained("server") /\ Active("server") /\ s \in h["server"].send \ processed
    /\ goaways # <<>> => s < Last(goaways)
    /\ processed' = processed \cup {s}
    /\ UNCHANGED <<setup, tp, h, wire, rx, stop, half, ended, evq, app, goaways, error>>

SendGoaway(id) ==
    /\ Drained("server") /\ Active("server") /\ Len(goaways) < setup.goaways
    /\ \A s \in processed : s < id
    /\ goaways # <<>> => id <= Last(goaways)
    /\ goaways' = Append(goaways, id)
    /\ SendControl("server", "goaway", id)
    /\ UNCHANGED <<setup, tp, h, rx, stop, half, ended, evq, app, processed, error>>

Close(r) ==
    /\ setup.closes /\ Drained(r) /\ tp[r] = "Connected"
    /\ h' = [h EXCEPT ![r] = CloseOf(@)]
    /\ tp' = [tp EXCEPT ![r] = "Closing"]
    /\ UNCHANGED <<setup, wire, rx, stop, half, ended, evq, app, processed, goaways, error>>

-----------------------------------------------------------------------------
Next ==
    \/ ServerHandshaking \/ ClientConnected \/ ServerConnected
    \/ \E r \in Roles, s \in Streams :
          \/ \E n \in 1 .. Len(wire[Peer(r)][s]) : Arrive(r, s, n)
          \/ ArriveStopSending(r, s)
    \/ \E r \in Roles : TransportDraining(r) \/ TransportClosed(r) \/ HandleEvent(r) \/ Close(r)
    \/ \E r \in Roles, s \in Requests : StreamCloseSend(r, s) \/ CancelFetch(r, s)
    \/ \E s \in Requests : Fetch(s) \/ PriorityUpdate(s) \/ Process(s) \/ SendGoaway(s)

Spec == Init /\ [][Next]_vars

-----------------------------------------------------------------------------
(* Two ends that keep the protocol never close the connection on each      *)
(* other, however streams overtake each other: SETTINGS come before what   *)
(* needs them, in every combination of 0-RTT and of changed settings       *)
(* (handle_control_frame, handle_settings, handle_goaway).                 *)
NoConnectionError == \A r \in Roles : error[r] = "none"

(* While the connection lives, a request is in the client's tables exactly *)
(* as long as its application waits for it: cancellation, resets, GOAWAY   *)
(* and the rejection of 0-RTT all tell it.  What GOAWAY is said to have    *)
(* rejected, the server has not processed (handle_goaway, id_gte,          *)
(* handle_zero_rtt_rejected, cancel_fetch).                                *)
RequestsAccountedFor ==
    h["client"].state \in {"Initializing", "ZeroRtt", "Connected", "GoingAway"} => \A s \in Requests :
        /\ app[s] = "open" <=> s \in h["client"].recv
        /\ s \in h["client"].send => app[s] # "none"
        /\ app[s] = "rejected" => s \notin processed
        /\ h["client"].state = "GoingAway" /\ app[s] = "open" => s < h["client"].goaway

(* Handlers do not outlive a request: when everything has arrived and been *)
(* handled, the server holds one only for a half that the client has not   *)
(* closed (remove_recv_stream, remove_send_stream).                        *)
Quiet == \A r \in Roles : Drained(r) /\ tp[r] = "Connected" /\ stop[r] = {} /\ \A s \in Streams : wire[r][s] = <<>>
HandlersAreReleased ==
    Quiet => \A s \in Requests \ setup.connects : app[s] # "rejected" =>
        /\ s \in h["server"].recv \cup h["server"].heads => s \in h["client"].send
        /\ s \in h["server"].send => s \in h["client"].recv
=============================================================================
