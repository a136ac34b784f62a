--------------------------- MODULE ExtendedConnect ---------------------------
(***************************************************************************)
(* A WebTransport or connect-udp session of neqo-http3 between a client    *)
(* and a server (webtransport.rs, connect_udp.rs, connection.rs and        *)
(* features/extended_connect): the extended CONNECT exchange, the          *)
(* session's streams, which are delivered in any order and may come before *)
(* the answer, its datagrams, which go in QUIC datagrams or, for           *)
(* connect-udp with a peer that has none, in capsules on the session's own *)
(* stream, and its end by a capsule, a reset or STOP_SENDING.  HTTP/3 runs *)
(* after every datagram.                                                   *)
(***************************************************************************)
EXTENDS Integers, Sequences, FiniteSets, SequencesExt

CONSTANTS
    Subs,                   \* streams of the session
    Owner, Bidi,            \* who opens each, and which are bidirectional
    Held,                   \* datagrams that a queue has room for
    Room,                   \* flow control credit of the session's own stream, in units
    Capsules,               \* the sizes of the capsules an application sends, by name
    Setups                  \* what applications do: see setup

VARIABLES
    setup,                  \* opens, resets, stops, blocks, cancels: sets of ends;
                            \* kind, quic (QUIC datagrams), datagrams (how many each sends)
    e,                      \* the two ends, see New
    ctl,                    \* what each end sent on the stream of the session
    cstop,                  \* ends to which a STOP_SENDING for it is under way
    w,                      \* what each end sent on the session's streams
    stop                    \* STOP_SENDING frames on their way to each end

vars == <<setup, e, ctl, cstop, w, stop>>

Roles == {"client", "server"}
Peer(r) == IF r = "client" THEN "server" ELSE "client"

(* The session's queue in QuicDatagrams: whether there is one, what it     *)
(* holds, and what became of datagrams since the session last asked.       *)
NoQueue == [made |-> FALSE, held |-> 0, sent |-> 0, expired |-> 0, too_big |-> 0]

(* An end: the state of its Session (Gone when the session's handlers are  *)
(* removed), the session's sets of streams, the handlers in send_streams   *)
(* and recv_streams, halves that the transport has closed, and what the    *)
(* application was told; then its datagrams: those the application sent,   *)
(* what the session counted, those under way to it and those it got, and,  *)
(* for capsules, the credit, the low watermark of the writable event,      *)
(* datagram_capsule_blocked, and the size for which the application waits; *)
(* and the statistics that the application got when it closed the session. *)
New == [state |-> "None", local |-> FALSE,
        reg_send |-> {}, reg_recv |-> {}, pending |-> {}, send |-> {}, recv |-> {},
        ended |-> {}, aborted |-> {}, created |-> {}, wrote |-> {}, unread |-> [x \in Subs |-> <<>>],
        told |-> {}, readable |-> {}, app_send |-> {}, app_recv |-> {},
        started |-> 0, end |-> 0,
        offered |-> 0, queue |-> NoQueue, stats |-> [sent |-> 0, expired |-> 0, dropped |-> 0],
        air |-> 0, got |-> 0,
        space |-> Room, low |-> 1, blocked |-> FALSE, waits |-> 0, final |-> <<>>]

Init ==
    /\ setup \in Setups
    /\ e = [r \in Roles |-> New]
    /\ ctl = [r \in Roles |-> <<>>] /\ cstop = {}
    /\ w = [r \in Roles |-> [x \in Subs |-> <<>>]]
    /\ stop = [r \in Roles |-> {}]


-----------------------------------------------------------------------------
(* An end goes to state n, and its transport resets and stops streams. *)
StepOn(wire, r, n, resets, stops) ==
    /\ e' = [e EXCEPT ![r] = [n EXCEPT !.ended = @ \cup resets, !.aborted = @ \cup stops]]
    /\ w' = [wire EXCEPT ![r] = [x \in Subs |-> IF x \in resets \ n.ended THEN Append(@[x], "reset") ELSE @[x]]]
    /\ stop' = [stop EXCEPT ![Peer(r)] = @ \cup (stops \ n.aborted)]

Step(r, n, resets, stops) == StepOn(w, r, n, resets, stops)

(* What a session leaves to its protocol: whether it has streams, keeps    *)
(* statistics, ends with a capsule, and may send datagrams as capsules.    *)
Protocol ==
    [webtransport |-> [add_stream |-> TRUE, stats |-> TRUE, close_frame |-> TRUE,
                       datagram_capsule_support |-> FALSE],
     udp |-> [add_stream |-> FALSE, stats |-> FALSE, close_frame |-> FALSE,
              datagram_capsule_support |-> TRUE]]

protocol == IF setup.kind = "webtransport" THEN Protocol.webtransport ELSE Protocol.udp

(* Session statistics, of a protocol that keeps them. *)
record(n, sent, expired, dropped) ==
    IF ~protocol.stats THEN n
    ELSE [n EXCEPT !.stats = [sent |-> @.sent + sent, expired |-> @.expired + expired,
                              dropped |-> @.dropped + dropped]]

(* Mutant of drop_queued_datagrams: what was sent since the last report is not counted. *)
drop_queued_uncounted(n) ==
    [record(n, 0, n.queue.expired, n.queue.too_big + n.queue.held) EXCEPT !.queue = NoQueue]

drop_queued_datagrams(n) ==
    [record(n, n.queue.sent, n.queue.expired, n.queue.too_big + n.queue.held) EXCEPT !.queue = NoQueue]

closing_state(n) == n.state \in {"FinPending", "Gone"}

(* The queue goes when the session starts to close. *)
enter_closing(n) == IF closing_state(n) THEN n ELSE drop_queued_datagrams(n)

(* Mutant of RemoveExtendedConnect: streams that wait for the session to start are forgotten. *)
RemoveExtendedConnectActive(n) ==
    [n EXCEPT !.state = "Gone", !.reg_send = {}, !.reg_recv = {},
              !.send = @ \ (n.reg_send \ n.pending), !.app_send = @ \ (n.reg_send \ n.pending),
              !.recv = @ \ (n.reg_recv \ n.pending), !.app_recv = @ \ (n.reg_recv \ n.pending)]

(* The session and the streams in its sets, of whose end the application hears. *)
RemoveExtendedConnect(n) ==
    [drop_queued_datagrams(n) EXCEPT !.state = "Gone", !.reg_send = {}, !.reg_recv = {},
              !.send = @ \ n.reg_send, !.app_send = @ \ n.reg_send,
              !.recv = @ \ n.reg_recv, !.app_recv = @ \ n.reg_recv]

End(r, n) == Step(r, RemoveExtendedConnect(n), n.reg_send, n.reg_recv)

(* Session::close, by a reset or STOP_SENDING of the peer. *)
TellEnd(n) == [n EXCEPT !.end = @ + 1]
(* Mutant of CloseRemote: only an active session tells. *)
CloseRemoteActive(n) == IF n.state = "Active" THEN TellEnd(n) ELSE n
CloseRemote(n) == IF n.state = "FinPending" THEN n ELSE TellEnd(n)

(* Mutant of SessionStart: only the stream is announced, not that it has data. *)
SessionStartQuietly(n) ==
    [n EXCEPT !.state = "Active", !.started = @ + 1, !.pending = {},
              !.told = @ \cup n.pending,
              !.app_recv = @ \cup (n.pending \cap n.recv), !.app_send = @ \cup (n.pending \cap n.send)]

(* Streams that came before the session started are announced, and that they have data. *)
SessionStart(n) ==
    [n EXCEPT !.state = "Active", !.started = @ + 1, !.pending = {},
              !.told = @ \cup n.pending, !.readable = @ \cup n.pending,
              !.app_recv = @ \cup (n.pending \cap n.recv), !.app_send = @ \cup (n.pending \cap n.send)]

-----------------------------------------------------------------------------
(* Sessions begin: what the client asks for, and what the server's         *)
(* application answers.  WebTransport needs QUIC datagrams; connect-udp    *)
(* limits its queue, which makes it.                                       *)
NewSession(n) == [n EXCEPT !.state = "Negotiating"]

NewWithHttpStreams(n) == [n EXCEPT !.state = "Active", !.started = 1]

(* Mutant of set_max_buffered_datagrams: a session that closes is given its queue again. *)
set_max_buffered_always(n) == [n EXCEPT !.queue.made = TRUE]

set_max_buffered_datagrams(n) == IF closing_state(n) THEN n ELSE [n EXCEPT !.queue.made = TRUE]

extended_connect_create_session(n) ==
    /\ e' = [e EXCEPT !["client"] = n]
    /\ ctl' = [ctl EXCEPT !["client"] = Append(@, "request")]

webtransport_create_session ==
    setup.kind = "webtransport" /\ setup.quic /\ extended_connect_create_session(NewSession(e["client"]))

connect_udp_create_session ==
    /\ setup.kind = "connect-udp"
    /\ extended_connect_create_session(set_max_buffered_datagrams(NewSession(e["client"])))

CreateSession ==
    /\ e["client"].state = "None"
    /\ webtransport_create_session \/ connect_udp_create_session
    /\ UNCHANGED <<setup, cstop, w, stop>>

extended_connect_session_accept(n, answer) ==
    IF answer = "200" THEN NewWithHttpStreams(n) ELSE [n EXCEPT !.state = "Rejected"]

connect_udp_session_accept(n, answer) ==
    IF answer = "200" THEN set_max_buffered_datagrams(extended_connect_session_accept(n, answer))
    ELSE extended_connect_session_accept(n, answer)

Respond(answer) ==
    /\ e["server"].state = "Requested"
    /\ e' = [e EXCEPT !["server"] = IF setup.kind = "connect-udp" THEN connect_udp_session_accept(@, answer)
                                    ELSE extended_connect_session_accept(@, answer)]
    /\ ctl' = [ctl EXCEPT !["server"] = Append(@, answer)]
    /\ UNCHANGED <<setup, cstop, w, stop>>

(* close_session: a capsule (WebTransport) and the FIN, which flow control may hold up. *)
close_session(n) == [enter_closing(n) EXCEPT !.local = TRUE]

(* Mutant of webtransport_close_session: the statistics are read first. *)
webtransport_close_early(n) == [close_session(n) EXCEPT !.final = <<n.stats>>]

(* A WebTransport application gets the statistics, read after closing. *)
webtransport_close_session(n) == [close_session(n) EXCEPT !.final = <<close_session(n).stats>>]

CloseSession(r) ==
    LET n == IF protocol.stats THEN webtransport_close_session(e[r]) ELSE close_session(e[r]) IN
    /\ e[r].state \in {"Negotiating", "Active"}
    /\ \/ /\ ctl' = [ctl EXCEPT ![r] = Append(@, "close")]
          /\ End(r, n)
       \/ /\ r \in setup.blocks
          /\ Step(r, [n EXCEPT !.state = "FinPending"], {}, {})
          /\ UNCHANGED ctl
    /\ UNCHANGED <<setup, cstop>>

Flush(r) ==
    /\ e[r].state = "FinPending"
    /\ ctl' = [ctl EXCEPT ![r] = Append(@, "close")]
    /\ End(r, e[r])
    /\ UNCHANGED <<setup, cstop>>

CancelSession(r) ==
    /\ r \in setup.cancels /\ e[r].state \in {"Negotiating", "Active", "FinPending", "Requested"}
    /\ ctl' = [ctl EXCEPT ![r] = Append(@, "reset")]
    /\ cstop' = cstop \cup {Peer(r)}
    /\ End(r, [e[r] EXCEPT !.local = TRUE])
    /\ UNCHANGED setup

(* A datagram, in a QUIC datagram or a capsule. *)
new_datagram(n) == [n EXCEPT !.got = @ + 1]

(* A capsule ends a WebTransport session; connect-udp takes those with datagrams. *)
read_control_stream(n) == TellEnd(enter_closing(n))

DatagramCapsule(n) == new_datagram(n)

(* What the peer sent on the session's stream is read. *)
Receive(r, item) ==
    LET n == e[r] IN
    CASE n.state = "None" /\ item = "request" -> Step(r, [n EXCEPT !.state = "Requested"], {}, {})
      [] n.state = "Negotiating" /\ item = "200" -> Step(r, SessionStart(n), {}, {})
      [] n.state = "Negotiating" /\ item = "403" -> End(r, TellEnd(n))
      [] n.state \in {"Negotiating", "Active"} /\ item = "reset" -> End(r, CloseRemote(n))
      [] n.state = "FinPending" /\ item = "reset" -> End(r, n)
      [] n.state \in {"Active", "FinPending"} /\ item = "close" -> End(r, read_control_stream(n))
      [] n.state \in {"Active", "FinPending"} /\ item \in DOMAIN Capsules -> Step(r, DatagramCapsule(n), {}, {})
      [] n.state \in {"Requested", "Rejected"} /\ item \in {"close", "reset"} ->
             Step(r, [n EXCEPT !.state = "Gone"], {}, {})
      [] OTHER -> Step(r, n, {}, {})

ControlArrives(r) ==
    /\ ctl[Peer(r)] # <<>>
    /\ ctl' = [ctl EXCEPT ![Peer(r)] = Tail(@)]
    /\ Receive(r, Head(ctl[Peer(r)]))
    /\ UNCHANGED <<setup, cstop>>

ControlStopped(r) ==
    /\ r \in cstop /\ cstop' = cstop \ {r}
    /\ IF e[r].state \in {"Negotiating", "Active", "FinPending"} THEN End(r, CloseRemote(e[r]))
       ELSE Step(r, e[r], {}, {})
    /\ UNCHANGED <<setup, ctl>>

-----------------------------------------------------------------------------
(* The streams of the session.  The preface of a unidirectional one goes   *)
(* out with its first data; an application that opens a stream writes to   *)
(* it before it closes it.                                                 *)
add_streams(n, send, recv) == [n EXCEPT !.send = @ \cup send, !.recv = @ \cup recv]

CreateStream(r, x) ==
    LET recv == IF x \in Bidi THEN {x} ELSE {} IN
    /\ r \in setup.opens /\ Owner[x] = r /\ e[r].state = "Active" /\ protocol.add_stream
    /\ x \notin e[r].created
    /\ e' = [e EXCEPT ![r] = [add_streams(@, {x}, recv) EXCEPT
                 !.created = @ \cup {x}, !.reg_send = @ \cup {x}, !.app_send = @ \cup {x},
                 !.reg_recv = @ \cup recv, !.app_recv = @ \cup recv]]
    /\ w' = [w EXCEPT ![r][x] = IF x \in Bidi THEN <<"preface">> ELSE <<>>]
    /\ UNCHANGED <<setup, ctl, cstop, stop>>

SendData(r, x) ==
    /\ x \in (e[r].send \cap e[r].app_send) \ e[r].wrote
    /\ e' = [e EXCEPT ![r].wrote = @ \cup {x}]
    /\ w' = [w EXCEPT ![r][x] = @ \o IF x \in Bidi THEN <<"data">> ELSE <<"preface", "data">>]
    /\ UNCHANGED <<setup, ctl, cstop, stop>>

CloseStream(r, x) ==
    /\ x \in e[r].send \cap e[r].app_send \cap e[r].wrote
    /\ e' = [e EXCEPT ![r].send = @ \ {x}, ![r].app_send = @ \ {x}, ![r].reg_send = @ \ {x}, ![r].ended = @ \cup {x}]
    /\ w' = [w EXCEPT ![r][x] = Append(@, "fin")]
    /\ UNCHANGED <<setup, ctl, cstop, stop>>

ResetStream(r, x) ==
    /\ r \in setup.resets /\ x \in e[r].send \cap e[r].app_send
    /\ Step(r, [e[r] EXCEPT !.send = @ \ {x}, !.app_send = @ \ {x}, !.reg_send = @ \ {x}], {x}, {})
    /\ UNCHANGED <<setup, ctl, cstop>>

StopStream(r, x) ==
    /\ r \in setup.stops /\ x \in e[r].recv \cap e[r].app_recv
    /\ Step(r, [e[r] EXCEPT !.recv = @ \ {x}, !.app_recv = @ \ {x}, !.reg_recv = @ \ {x}], {}, {x})
    /\ UNCHANGED <<setup, ctl, cstop>>

(* read_data, when the application has been told to. *)
ReadData(r, x) ==
    /\ x \in e[r].recv \cap e[r].app_recv \cap e[r].readable /\ e[r].unread[x] # <<>>
    /\ e' = [e EXCEPT ![r] =
          IF Last(@.unread[x]) = "fin"
          THEN [@ EXCEPT !.recv = @ \ {x}, !.app_recv = @ \ {x}, !.reg_recv = @ \ {x}, !.aborted = @ \cup {x},
                         !.unread[x] = <<>>, !.readable = @ \ {x}]
          ELSE [@ EXCEPT !.unread[x] = <<>>, !.readable = @ \ {x}]]
    /\ UNCHANGED <<setup, ctl, cstop, w, stop>>

(* A stream of the peer gets its handlers; a session that is over does not *)
(* take it into its sets, one that negotiates keeps it from the application. *)
CreateStreamRemote(n, r, x) ==
    LET open == n.state \in {"Negotiating", "Active"}
        send == IF x \in Bidi THEN {x} ELSE {}
        active == n.state = "Active"
    IN [add_streams(n, send, {x}) EXCEPT
                 !.reg_recv = IF open THEN @ \cup {x} ELSE @, !.reg_send = IF open THEN @ \cup send ELSE @,
                 !.pending = IF n.state = "Negotiating" THEN @ \cup {x} ELSE @,
                 !.told = IF active THEN @ \cup {x} ELSE @, !.readable = IF active THEN @ \cup {x} ELSE @,
                 !.app_recv = IF active THEN @ \cup {x} ELSE @, !.app_send = IF active THEN @ \cup send ELSE @]

ReceiveData(n, x, item) ==
    [n EXCEPT !.unread[x] = Append(@, item),
              !.readable = IF x \in n.recv /\ n.state = "Active" THEN @ \cup {x} ELSE @]

ReceiveReset(n, x) ==
    [n EXCEPT !.unread[x] = <<>>, !.aborted = @ \cup {x}, !.readable = @ \ {x},
              !.recv = @ \ {x}, !.app_recv = @ \ {x}, !.reg_recv = @ \ {x}]

(* A stream for a session that there is none of is stopped. *)
Arrives(r, x) ==
    /\ w[Peer(r)][x] # <<>>
    /\ LET item == Head(w[Peer(r)][x])
           n == e[r]
           rest == [w EXCEPT ![Peer(r)][x] = Tail(@)]
       IN CASE x \in n.aborted -> StepOn(rest, r, n, {}, {})
            [] x \notin n.aborted /\ item = "preface" ->
                  IF n.state \in {"Negotiating", "Active", "FinPending"}
                  THEN StepOn(rest, r, CreateStreamRemote(n, r, x), {}, {})
                  ELSE StepOn(rest, r, n, {}, {x})
            [] x \notin n.aborted /\ item = "reset" -> StepOn(rest, r, ReceiveReset(n, x), {}, {})
            [] x \notin n.aborted /\ item \in {"data", "fin"} -> StepOn(rest, r, ReceiveData(n, x, item), {}, {})
    /\ UNCHANGED <<setup, ctl, cstop>>

Stopped(r, x) ==
    /\ x \in stop[r]
    /\ e' = [e EXCEPT ![r].send = @ \ {x}, ![r].app_send = @ \ {x}, ![r].reg_send = @ \ {x}, ![r].ended = @ \cup {x}]
    /\ w' = [w EXCEPT ![r][x] = IF x \in e[r].ended THEN @ ELSE Append(@, "reset")]
    /\ stop' = [stop EXCEPT ![r] = @ \ {x}]
    /\ UNCHANGED <<setup, ctl, cstop>>

-----------------------------------------------------------------------------
(* Datagrams.  The transport's queue is that of Datagrams; here, what is   *)
(* in it may be sent, may be too big for the path, or may expire.          *)
validate_extended_connect_session(n) == n.state = "Active"

enqueue_datagram(n) ==
    IF n.queue.held < Held THEN [n EXCEPT !.queue.made = TRUE, !.queue.held = @ + 1]
    ELSE record([n EXCEPT !.queue.made = TRUE], 0, 0, 1)

(* The transport's writable event, and what the session makes of it. *)
stream_writable(n) == IF n.blocked THEN [n EXCEPT !.blocked = FALSE, !.waits = 0] ELSE n

(* Mutant of set_low_watermark: the event is left as it was. *)
set_low_never(n, low) == n

set_low_watermark(n, low) == [n EXCEPT !.low = low]

maybe_emit_writable_event(n, previous_limit) ==
    IF n.low < previous_limit \/ n.space < n.low THEN n ELSE stream_writable(n)

(* Without room, the application is told to wait for the event. *)
write_datagram_capsule(n, size) ==
    IF n.space < size THEN [set_low_watermark(n, size) EXCEPT !.blocked = TRUE, !.waits = size]
    ELSE [set_low_watermark(n, 1) EXCEPT !.space = @ - size, !.offered = @ + 1]

SendDatagram(r) ==
    /\ validate_extended_connect_session(e[r]) /\ setup.quic /\ e[r].offered < setup.datagrams
    /\ e' = [e EXCEPT ![r] = enqueue_datagram([@ EXCEPT !.offered = @ + 1])]
    /\ UNCHANGED <<setup, ctl, cstop, w, stop>>

SendCapsule(r, c) ==
    /\ validate_extended_connect_session(e[r]) /\ ~setup.quic /\ protocol.datagram_capsule_support
    /\ e[r].offered < setup.datagrams
    /\ e[r].waits = 0
    /\ e' = [e EXCEPT ![r] = write_datagram_capsule(@, Capsules[c])]
    /\ ctl' = IF e[r].space < Capsules[c] THEN ctl ELSE [ctl EXCEPT ![r] = Append(@, c)]
    /\ UNCHANGED <<setup, cstop, w, stop>>

(* The peer has read from the session's stream and gives credit for it. *)
Credit(r) ==
    LET unread == FoldSeq(LAMBDA c, sum : sum + IF c \in DOMAIN Capsules THEN Capsules[c] ELSE 0, 0, ctl[r])
    IN  /\ e[r].space + unread < Room /\ e[r].state \in {"Active", "FinPending"}
        /\ e' = [e EXCEPT ![r] = maybe_emit_writable_event([@ EXCEPT !.space = @ + 1], @.space)]
        /\ UNCHANGED <<setup, ctl, cstop, w, stop>>

(* The next packet takes a datagram, or drops it. *)
WriteDatagram(r, fits) ==
    /\ e[r].queue.held > 0
    /\ e' = IF fits THEN [e EXCEPT ![r].queue = [@ EXCEPT !.held = @ - 1, !.sent = @ + 1],
                                   ![Peer(r)].air = @ + 1]
             ELSE [e EXCEPT ![r].queue = [@ EXCEPT !.held = @ - 1, !.too_big = @ + 1]]
    /\ UNCHANGED <<setup, ctl, cstop, w, stop>>

ExpireDatagram(r) ==
    /\ e[r].queue.held > 0
    /\ e' = [e EXCEPT ![r].queue = [@ EXCEPT !.held = @ - 1, !.expired = @ + 1]]
    /\ UNCHANGED <<setup, ctl, cstop, w, stop>>

(* What became of datagrams is taken into the statistics, as HTTP/3 runs   *)
(* (of active sessions) and when the application shortens their age.       *)
expire_datagram_queues(n) ==
    IF n.state # "Active" THEN n
    ELSE [record(n, n.queue.sent, n.queue.expired, n.queue.too_big)
             EXCEPT !.queue = [@ EXCEPT !.sent = 0, !.expired = 0, !.too_big = 0]]

set_datagram_max_age(n, late) ==
    IF closing_state(n) THEN n
    ELSE [record(n, 0, n.queue.expired + late, 0)
             EXCEPT !.queue = [@ EXCEPT !.made = TRUE, !.held = @ - late, !.expired = 0]]

Report(r) ==
    /\ e' = [e EXCEPT ![r] = expire_datagram_queues(@)]
    /\ UNCHANGED <<setup, ctl, cstop, w, stop>>

Configure(r) ==
    /\ setup.datagrams > 0
    /\ e[r].state \in {"Negotiating", "Active", "FinPending"}
    /\ \/ e' = [e EXCEPT ![r] = set_max_buffered_datagrams(@)]
       \/ \E late \in 0 .. e[r].queue.held : e' = [e EXCEPT ![r] = set_datagram_max_age(@, late)]
    /\ UNCHANGED <<setup, ctl, cstop, w, stop>>

(* A QUIC datagram arrives, unless it was lost.  Only an active session takes it. *)
datagram(n) == IF n.state = "Active" THEN new_datagram(n) ELSE n

DatagramArrives(r, lost) ==
    /\ e[r].air > 0
    /\ e' = [e EXCEPT ![r] = [IF lost THEN @ ELSE datagram(@) EXCEPT !.air = @ - 1]]
    /\ UNCHANGED <<setup, ctl, cstop, w, stop>>

-----------------------------------------------------------------------------
(* The calls of applications.  On the way to the session they pass the     *)
(* objects that the applications hold: a client's Http3Client, a server's  *)
(* ServerSession and the handler behind it, and Http3Connection at both    *)
(* ends.  Calls that only ask, and those about the order of streams, which *)
(* belong to SendStreams, change nothing here.                             *)
Handler(r) ==
    \/ r = "client" /\ CreateSession
    \/ r = "server" /\ \E answer \in {"200", "403"} : Respond(answer)
    \/ CloseSession(r)
    \/ SendDatagram(r)

ClientSession ==
    /\ setup.kind = "webtransport"
    /\ Handler("client") \/ Configure("client") \/ \E x \in Subs : CreateStream("client", x)

ServerHandler == Handler("server") \/ Configure("server") \/ \E x \in Subs : CreateStream("server", x)

ServerSession == setup.kind = "webtransport" /\ ServerHandler

UdpHandler(r) == Handler(r) \/ \E c \in DOMAIN Capsules : SendCapsule(r, c)

UdpClientSession == setup.kind = "connect-udp" /\ UdpHandler("client")

UdpServerSession == setup.kind = "connect-udp" /\ UdpHandler("server")

Next ==
    \/ ClientSession \/ ServerSession \/ UdpClientSession \/ UdpServerSession
    \/ \E r \in Roles : \/ Flush(r) \/ CancelSession(r)
                        \/ ControlArrives(r) \/ ControlStopped(r)
                        \/ Credit(r) \/ ExpireDatagram(r) \/ Report(r)
                        \/ \E outcome \in BOOLEAN : WriteDatagram(r, outcome) \/ DatagramArrives(r, outcome)
    \/ \E r \in Roles, x \in Subs :
          \/ SendData(r, x) \/ CloseStream(r, x) \/ ResetStream(r, x)
          \/ StopStream(r, x) \/ ReadData(r, x) \/ Arrives(r, x) \/ Stopped(r, x)

Spec == Init /\ [][Next]_vars

-----------------------------------------------------------------------------
(* Streams "will be canceled if the session is closed" (connection.rs): an *)
(* end whose session is gone has no handler for any of its streams, and    *)
(* its application does not take any of them for open                      *)
(* (remove_extended_connect).                                              *)
StreamsAreCanceled ==
    \A r \in Roles : e[r].state = "Gone" =>
        e[r].send \cup e[r].recv \cup e[r].app_send \cup e[r].app_recv = {}

(* With the session active, the application knows of every stream the peer *)
(* opened, before or after it started, and of every one that has something *)
(* to read (add_stream, session_start, WebTransportRecvStream::receive).   *)
AppKnowsStreams ==
    \A r \in Roles : e[r].state = "Active" =>
        /\ \A x \in e[r].recv : Owner[x] # r => x \in e[r].told
        /\ \A x \in e[r].recv : e[r].unread[x] # <<>> => x \in e[r].readable

(* An application that did not end the session itself hears of its end,    *)
(* once, however the peer ended it (Session::close, read_control_stream).  *)
EndIsTold ==
    \A r \in Roles :
        /\ e[r].end <= 1 /\ e[r].started <= 1
        /\ e[r].state = "Gone" /\ ~e[r].local /\ (r = "client" \/ e[r].started = 1) => e[r].end = 1

(* Each datagram that a WebTransport application sent is counted once, as  *)
(* sent, expired or dropped, or will be, and those that arrive are among   *)
(* the sent; a session that is gone has its counts complete and leaves no  *)
(* queue in the transport, however it ended and whatever was configured    *)
(* late (drop_queued_datagrams, enter_state, expire_datagram_queues).  The *)
(* statistics that closing returns are complete, too.                      *)
DatagramsCounted ==
    \A r \in Roles :
        LET n == e[r] IN
        /\ closing_state(n) => n.queue = NoQueue
        /\ setup.kind = "webtransport" =>
              /\ n.offered = n.stats.sent + n.stats.expired + n.stats.dropped
                                + n.queue.held + n.queue.sent + n.queue.expired + n.queue.too_big
              /\ n.final # <<>> => n.offered = n.final[1].sent + n.final[1].expired + n.final[1].dropped
              /\ n.got + n.air <= e[Peer(r)].stats.sent + e[Peer(r)].queue.sent

(* An application that a full stream made wait with a capsule is woken     *)
(* when there is room for it: it never waits with the room there           *)
(* (write_datagram_capsule, stream_writable).                              *)
CapsulesResume ==
    \A r \in Roles : e[r].state = "Active" /\ e[r].waits > 0 => e[r].blocked /\ e[r].space < e[r].waits
=============================================================================
