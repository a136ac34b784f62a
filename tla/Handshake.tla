------------------------------ MODULE Handshake ------------------------------
(***************************************************************************)
(* Two connections, a client and a server, from the first Initial packet   *)
(* to the confirmed handshake and through closing: connection/mod.rs with  *)
(* state.rs, saved.rs and the keys and CRYPTO streams of crypto.rs.        *)
(* The network between them delays, reorders and loses datagrams.          *)
(*                                                                         *)
(* TLS is external: a flight is a number of chunks in a packet number      *)
(* space, and having read all of the peer's flight moves the handshake on. *)
(* Time is external too: a timer may fire once nothing is in transit, and  *)
(* a bounded number of times before that.                                  *)
(***************************************************************************)
EXTENDS Integers, Sequences, FiniteSets, FiniteSetsExt, SequencesExt

CONSTANTS
    ServerHello, ClientFinished,  \* chunks of a flight
    Mtu,                \* chunks in a full datagram
    Capacity,           \* SavedDatagrams::CAPACITY
    MaxNumber,          \* bound: packets for which probe timeouts go on
    Setups              \* what differs between runs of the system:
                        \*   hello, finished: chunks of the ClientHello and of the server's
                        \*     Handshake flight
                        \*   resumed: there is no certificate to authenticate
                        \*   factor: what may be sent for what was received on a path that is
                        \*     not valid
                        \*   data: the ends whose application sends as soon as it can
                        \*   closers: the ends whose application may close
                        \*   losses, early, closes, transit: bounds, the last one on the
                        \*     datagrams in transit to one end

VARIABLES
    setup,              \* one of Setups
    c,                  \* the two connections
    net,                \* datagrams in transit
    losses, early,      \* datagrams lost; timers that fired early
    closes              \* calls of close()

vars == <<setup, c, net, losses, early, closes>>

Ends == {"client", "server"}
Peer(e) == IF e = "client" THEN "server" ELSE "client"
Spaces == <<"I", "H", "A">>
Space == Range(Spaces)
CryptoSpaces == {"I", "H"}

Order == <<"Init", "WaitInitial", "WaitVersion", "Handshaking", "Connected", "Confirmed",
           "Closing", "Draining", "Closed">>
Rank(s) == CHOOSE i \in DOMAIN Order : Order[i] = s
connected(w) == w.state \in {"Connected", "Confirmed"}
\* Variant: nothing ends the draining period.
closingOnly(w) == w.state = "Closing"
closing(w) == w.state \in {"Closing", "Draining"}
closed(w) == w.state \in {"Closing", "Draining", "Closed"}
has_version(w) == w.keys \cap {"H", "Aw"} # {}

\* The value v, computed once however often it is used.
Value(v) == CHOOSE x \in {v} : TRUE

\* set_state() only moves forward.
set_state(w, s) == IF Rank(s) > Rank(w.state) THEN [w EXCEPT !.state = s] ELSE w

\* Chunks 1 .. n; what of a set of chunks can be read in order.
Flight(role, s) == CASE role = "client" /\ s = "I" -> setup.hello
                     [] role = "server" /\ s = "I" -> ServerHello
                     [] role = "server" /\ s = "H" -> setup.finished
                     [] role = "client" /\ s = "H" -> ClientFinished
Prefix(set) == Max({n \in 0 .. Cardinality(set) : 1 .. n \subseteq set})

New(role) ==
    [role |-> role, state |-> "Init",
     keys |-> {},                              \* "I", "H", "Aw" (app_write), "Ar" (app_read)
     pend |-> [s \in Space |-> IF s = "A" /\ role \in setup.data THEN {1} ELSE {}],
     out |-> [s \in Space |-> {}],             \* CRYPTO or stream data to send, sent and not
     in |-> [s \in Space |-> {}],              \* acknowledged, and received
     auth |-> FALSE,                           \* TLS waits for authenticated()
     complete |-> FALSE,
     got |-> [s \in Space |-> {}], due |-> {}, \* AckTracker: packets received, spaces to acknowledge
     sent |-> {}, next |-> [s \in Space |-> 0],
     largest |-> [s \in Space |-> -1],         \* largest_acked
     base |-> <<>>,                            \* spaces by last_ack_eliciting, oldest first
     pto |-> 0, probe |-> {},                  \* PtoState: packets left, spaces to probe
     sig |-> "Idle",                           \* StateSignaling; CloseSent(None) is "DrainSent"
     untracked |-> FALSE, resent |-> FALSE,    \* received_untracked, early_resend_used
     valid |-> role = "client", credit |-> 0,  \* the path, and what it may still send
     saved |-> [s \in {"H", "A"} |-> <<>>], available |-> "none"]

-----------------------------------------------------------------------------
(* Keys and CRYPTO streams *)

\* Spaces with an armed PTO: pto_base_time().
Based(w, s) == \E i \in DOMAIN w.base : s \in w.base[i]
Outstanding(w, s) == \E p \in w.sent : p.space = s /\ p.eliciting /\ ~p.lost
\* Variant: only for packets that are outstanding.
ArmedOutstanding(w, s) == Outstanding(w, s)
Armed(w, s) == Based(w, s) /\ (s # "A" \/ Outstanding(w, s))
Drop(base, set) == SelectSeq([i \in DOMAIN base |-> base[i] \ set], LAMBDA g : g # {})

\* discard_keys(): the CRYPTO stream, loss recovery and acknowledgments go too.
discard_keys(w, s) ==
    IF s \notin w.keys THEN w
    ELSE [w EXCEPT !.keys = @ \ {s},
                   !.pend[s] = {}, !.out[s] = {},
                   !.sent = {p \in @ : p.space # s},
                   !.base = Drop(@, {s}),
                   !.pto = 0, !.probe = {},
                   !.due = @ \ {s}]

\* StateSignaling: HANDSHAKE_DONE and CONNECTION_CLOSE frames that are to be sent.
handshake_done(w) == IF w.sig = "Idle" THEN [w EXCEPT !.sig = "HandshakeDone"] ELSE w
write_done(w) == w.sig = "HandshakeDone"
signal_close(w) == [w EXCEPT !.sig = "Closing"]
drain(w) == [w EXCEPT !.sig = "Draining"]
close_frame(w) == [w EXCEPT !.sig = IF @ = "Closing" THEN "CloseSent" ELSE "DrainSent"]
send_close(w) == IF w.sig = "CloseSent" THEN [w EXCEPT !.sig = "Closing"] ELSE w

\* Queue what was sent and is not acknowledged for sending again.
resend_unacked(w, s) ==
    IF s \in CryptoSpaces THEN [w EXCEPT !.pend[s] = @ \cup w.out[s], !.out[s] = {}] ELSE w

resend_unacked_early(w) ==
    IF w.resent THEN w
    ELSE [resend_unacked(resend_unacked(w, "I"), "H") EXCEPT
             !.resent = \E s \in CryptoSpaces : w.out[s] # {}]

make_available(w, s) == IF w.saved[s] = <<>> THEN w ELSE [w EXCEPT !.available = s]

\* set_connected(): TLS is complete.
set_connected(w) ==
    LET up == [w EXCEPT !.complete = TRUE, !.auth = FALSE,
                        !.keys = @ \cup {"Aw", "Ar"},
                        !.valid = TRUE,
                        !.pend["H"] = IF w.role = "client" THEN 1 .. ClientFinished ELSE @]
    IN  IF w.role = "client" THEN make_available(set_state(up, "Connected"), "A")
        ELSE handshake_done(make_available(set_state(up, "Confirmed"), "A"))

set_handshake_keys(w) == [w EXCEPT !.keys = @ \cup {"H"}]
maybe_install_application_write_key(w) == [w EXCEPT !.keys = @ \cup {"Aw"}]
install_handshake_keys(w) == make_available(set_handshake_keys(w), "H")

\* handshake(), after CRYPTO data was read: what TLS makes of a complete flight.
handshake(w, s) ==
    IF Prefix(w.in[s]) < Flight(Peer(w.role), s) THEN w
    ELSE CASE w.role = "client" /\ s = "I" ->
                install_handshake_keys(w)
           [] w.role = "client" /\ s = "H" ->
                IF setup.resumed THEN set_connected(w) ELSE [w EXCEPT !.auth = TRUE]
           [] w.role = "server" /\ s = "I" ->
                [maybe_install_application_write_key(install_handshake_keys(w)) EXCEPT
                    !.pend["I"] = 1 .. ServerHello, !.pend["H"] = 1 .. setup.finished]
           [] w.role = "server" /\ s = "H" -> set_connected(w)

-----------------------------------------------------------------------------
(* Frames: a packet has at most one of each kind, in this order. *)

\* handle_ack()
Ack(w, p) ==
    LET newly == {q \in w.sent : q.space = p.space /\ q.number \in p.ack}
        data == UNION {q.data : q \in newly}
    IN  IF newly = {} THEN w
        ELSE [w EXCEPT !.sent = @ \ newly, !.pto = 0, !.probe = {},
                       !.largest[p.space] = Max({@} \cup {q.number : q \in newly}),
                       !.out[p.space] = @ \ data, !.pend[p.space] = @ \ data]

\* CRYPTO frames, and STREAM frames in the application data space.
Data(w, p) ==
    LET s == p.space
        w1 == [w EXCEPT !.in[s] = @ \cup p.data]
    IN  IF p.data = {} \/ s = "A" THEN w1
        ELSE IF Prefix(w1.in[s]) > Prefix(w.in[s]) THEN handshake(w1, s)
        ELSE IF p.data \subseteq w.in[s] /\ s = "I" THEN resend_unacked_early(w1)
        ELSE w1

Ping(w, p) ==
    IF p.ping THEN [resend_unacked(w, p.space) EXCEPT !.due = @ \cup {p.space}] ELSE w

\* HANDSHAKE_DONE at the client; only packets of a connected client can carry it.
HandshakeDone(w, p) == IF p.done THEN discard_keys(set_state(w, "Confirmed"), "H") ELSE w

ConnectionClose(w, p) ==
    IF p.close THEN set_state(drain(w), "Draining") ELSE w

\* process_packet(): the frames, and the acknowledgment if the space still exists.
process_packet(w, p) ==
    [ConnectionClose(HandshakeDone(Ping(Data(Ack(w, p), p), p), p), p) EXCEPT
        !.got[p.space] = @ \cup {p.number},
        !.due = @ \cup IF p.eliciting THEN {p.space} ELSE {}]

\* Variant: the client takes a 1-RTT packet for a confirmation.
postprocessConfirms(w, p) ==
    LET w1 == IF w.state = "WaitInitial" THEN set_state(w, "Handshaking") ELSE w
    IN  [set_state(w1, IF w.role = "client" /\ p.space = "A" THEN "Confirmed" ELSE w1.state)
            EXCEPT !.valid = TRUE]
\* postprocess_packet()
postprocess_packet(w, p) ==
    LET w1 == IF w.state \in {"WaitInitial", "WaitVersion"}
              THEN set_state(w, IF has_version(w) THEN "Handshaking" ELSE "WaitVersion") ELSE w
    IN  [w1 EXCEPT !.valid = @ \/ (~connected(w1) /\ w.role = "server" /\ (p.space = "H" \/ p.cid))]

\* handle_keys_discarded()
handle_keys_discarded(w, s) ==
    LET w1 == [w EXCEPT !.untracked = @ \/ (w.role = "client" /\ s = "I")]
    IN  IF w.role = "server" /\ s = "H" /\ w.state = "Confirmed" THEN handshake_done(w1) ELSE w1

-----------------------------------------------------------------------------
(* Datagrams that arrive *)

ReadKey(s) == IF s = "A" THEN "Ar" ELSE s
rx_pending(w, s) == \/ s = "H" /\ "H" \notin w.keys /\ "I" \in w.keys
                    \/ s = "A" /\ "Ar" \notin w.keys

is_either_full(w) == \E s \in {"H", "A"} : Len(w.saved[s]) = Capacity
save(w, s, rest) ==
    IF Len(w.saved[s]) < Capacity THEN [w EXCEPT !.saved[s] = Append(@, rest)] ELSE w

\* preprocess_packet(): the connection after it, and whether to go on with the packet.
preprocess_packet(w, p, first) ==
    CASE w.state = "Init" ->
           IF w.role = "server" /\ p.space = "I"
           THEN [w |-> set_state([w EXCEPT !.keys = {"I"}], "WaitInitial"), go |-> TRUE]
           ELSE [w |-> w, go |-> FALSE]
      [] w.state = "WaitInitial" ->
           [w |-> IF w.role = "client" /\ p.space # "I" /\ first /\ ~is_either_full(w)
                  THEN resend_unacked_early(w) ELSE w,
            go |-> TRUE]
      [] w.state = "Closing" ->
           [w |-> send_close(w), go |-> FALSE]
      [] w.state \in {"Draining", "Closed"} -> [w |-> w, go |-> FALSE]
      [] OTHER -> [w |-> IF w.role = "server" /\ p.space = "H" THEN discard_keys(w, "I") ELSE w,
                   go |-> TRUE]

\* A packet that can be decrypted, whose keys are not there yet, or no more; rest
\* is the datagram from this packet on.
Decrypt(w, p, rest) ==
    IF ReadKey(p.space) \in w.keys
    THEN [w |-> IF p.number \in w.got[p.space] THEN w
                ELSE postprocess_packet(process_packet(w, p), p), stop |-> FALSE]
    ELSE IF rx_pending(w, p.space) THEN [w |-> save(w, p.space, rest), stop |-> TRUE]
    ELSE [w |-> handle_keys_discarded(w, p.space), stop |-> FALSE]

\* One packet of input_path()'s loop, the i-th of pkts; a = [w, stop].
InputPacket(a, pkts, i) ==
    LET pre == Value(preprocess_packet(a.w, pkts[i], i = 1))
    IN  IF a.stop THEN a
        ELSE IF pre.go THEN Decrypt(pre.w, pkts[i], SubSeq(pkts, i, Len(pkts)))
        ELSE [w |-> pre.w, stop |-> TRUE]

Chunks(pkts) == FoldLeft(LAMBDA n, p : n + Cardinality(p.data), 0, pkts)
input(w, pkts, size) ==
    LET w1 == IF w.valid THEN w ELSE [w EXCEPT !.credit = @ + setup.factor * size]
    IN  FoldLeftDomain(LAMBDA a, i : Value(InputPacket(a, pkts, i)), [w |-> w1, stop |-> FALSE], pkts).w

\* process_saved(): the datagrams that became readable, and those that this made readable.
TakeSaved(w) ==
    IF w.available = "none" THEN w
    ELSE FoldLeft(LAMBDA v, pkts : input(v, pkts, Chunks(pkts)),
                  [w EXCEPT !.saved[w.available] = <<>>, !.available = "none"], w.saved[w.available])
\* Variant: what became readable in the meantime is left.
process_savedOnce(w) == TakeSaved(w)
process_saved(w) == TakeSaved(TakeSaved(w))

-----------------------------------------------------------------------------
(* Datagrams that are sent *)

Lowest(n, set) == {k \in set : Cardinality({j \in set : j < k}) < n}
WriteKey(s) == IF s = "A" THEN "Aw" ELSE s

\* write_frames() and maybe_probe(): the packet for one space, perhaps empty.
write_frames(w, s, room, ack_only, probe) ==
    LET ack == IF s \in w.due THEN w.got[s] ELSE {}
        data == IF ack_only THEN {} ELSE Lowest(room, w.pend[s])
        done == s = "A" /\ write_done(w) /\ ~ack_only
        written == data # {} \/ done
        untracked == w.untracked /\ ~connected(w) /\ ack = {}
        ping == ~ack_only /\ ~written /\ (untracked \/ s \in probe)
    IN  [space |-> s, number |-> w.next[s], cid |-> w.state # "WaitInitial", ack |-> ack,
         data |-> data, ping |-> ping, done |-> done, close |-> FALSE, eliciting |-> written \/ ping]

\* write_closing_frames()
write_closing_frames(w, s) ==
    [space |-> s, number |-> w.next[s], cid |-> w.state # "WaitInitial", ack |-> w.got[s],
     data |-> {}, ping |-> FALSE, done |-> FALSE, close |-> TRUE, eliciting |-> FALSE]

Empty(p) == p.ack = {} /\ ~p.eliciting /\ ~p.close

\* Variant: the server discards Handshake keys with its first Handshake packet.
BuiltDiscards(w, p) ==
    discard_keys([w EXCEPT !.next[p.space] = @ + 1, !.due = @ \ {p.space},
                           !.pend[p.space] = @ \ p.data, !.out[p.space] = @ \cup p.data],
                 IF w.role = "client" THEN "I" ELSE p.space)
\* The packet is built: what it takes from the queues, and the keys it makes obsolete.
Built(w, p) ==
    LET s == p.space
        w1 == [w EXCEPT !.next[s] = @ + 1,
                        !.due = @ \ (IF p.ack # {} THEN {s} ELSE {}),
                        !.sig = IF p.done THEN "Idle" ELSE @,
                        !.pend[s] = @ \ p.data, !.out[s] = @ \cup p.data]
    IN  IF s = "H" /\ w.role = "client" THEN discard_keys(w1, "I")
        ELSE IF s = "H" /\ w.state = "Confirmed" THEN discard_keys(w1, "H")
        ELSE w1

\* on_packet_sent() for the packets of a datagram whose spaces still exist.
on_packet_sent(w, pkts) ==
    LET kept == {p \in Range(pkts) : WriteKey(p.space) \in w.keys}
        baseline == {p.space : p \in {q \in kept : q.eliciting \/ (q.space # "A" /\ ~Based(w, q.space))}}
    IN  [w EXCEPT !.sent = @ \cup {[space |-> p.space, number |-> p.number, data |-> p.data,
                                    ack |-> p.ack # {}, done |-> p.done, eliciting |-> p.eliciting,
                                    pto |-> FALSE, lost |-> FALSE] : p \in kept},
                  !.base = IF baseline = {} THEN @ ELSE Append(Drop(@, baseline), baseline),
                  !.probe = @ \ ({p.space : p \in Range(pkts)} \ {"A"})]

\* The packet p, if it is not empty, in the datagram a = [w, pkts, stop].
AddBuilt(a, p, w) ==
    [w |-> w, pkts |-> Append(a.pkts, p),
     stop |-> p.space = "I" /\ w.role = "client" /\ w.pend["I"] # {}]
AddPacket(a, p) == IF Empty(p) THEN a ELSE AddBuilt(a, p, Value(Built(a.w, p)))

\* The packet for one space, if the space has keys and the datagram has room.
AddSpace(a, s, limit, probe, signal) ==
    LET room == limit - Chunks(a.pkts)
        ack_only == limit = 0
    IN  IF a.stop \/ WriteKey(s) \notin a.w.keys THEN a
        ELSE IF a.pkts # <<>> /\ room = 0 /\ ~ack_only THEN [a EXCEPT !.stop = TRUE]
        ELSE IF signal THEN AddPacket(a, write_closing_frames(a.w, s))
        ELSE AddPacket(IF ack_only THEN a ELSE [a EXCEPT !.w.untracked = FALSE],
                       Value(write_frames(a.w, s, room, ack_only, probe)))

\* The datagram has left: on_packet_sent(), and what the path may still send.
Leaves(w, pkts, limit) ==
    LET padded == pkts # <<>> /\ pkts[1].space = "I" /\ (w.role = "client" \/ pkts[1].eliciting)
        size == IF padded THEN limit ELSE Chunks(pkts)
    IN  [w |-> [w EXCEPT !.credit = IF w.valid THEN 0 ELSE @ - size], pkts |-> pkts, size |-> size]
Datagram(a, limit) == Leaves(Value(on_packet_sent(a.w, a.pkts)), a.pkts, limit)

\* output_dgram_on_path(): one datagram, and the connection after it.
output_dgram(w, signal) ==
    LET limit == IF w.pto > 0 \/ w.valid THEN Mtu ELSE Max({0, Min({Mtu, w.credit})})
        probe == IF w.pto > 0 THEN w.probe ELSE {}
        add(a, s) == Value(AddSpace(a, s, limit, probe, signal))
    IN  Datagram(FoldLeft(add, [w |-> [w EXCEPT !.pto = Max({0, @ - 1})], pkts |-> <<>>, stop |-> FALSE],
                          Spaces), limit)

\* client_start()
client_start(w) == [w EXCEPT !.state = "WaitInitial", !.keys = {"I"}, !.pend["I"] = 1 .. setup.hello]

\* process_output(), once its timers have run.
output(w) ==
    IF \/ w.role = "server" /\ w.state \in {"Init", "WaitInitial"}
       \/ closed(w) /\ w.sig \notin {"Closing", "Draining"}
    THEN [w |-> w, pkts |-> <<>>, size |-> 0]
    ELSE output_dgram(CASE w.state = "Init" -> client_start(w)
                        [] closed(w) -> close_frame(w)
                        [] OTHER -> w,
                      closed(w))

-----------------------------------------------------------------------------
(* Timers *)

\* handle_lost_packets(), for packets that are lost or probed for.
handle_lost_packets(w, ps) ==
    LET data(s) == UNION {p.data : p \in {q \in ps : q.space = s}} \cap w.out[s]
        w1 == [w EXCEPT !.pend = [s \in Space |-> @[s] \cup data(s)],
                        !.out = [s \in Space |-> @[s] \ data(s)],
                        !.due = @ \cup ({p.space : p \in {q \in ps : q.ack}} \ {"A"})]
    IN  IF \E p \in ps : p.done THEN handshake_done(w1) ELSE w1

\* The loss timer: what was sent before a packet that was acknowledged.
Late(w, s) == {p \in w.sent : p.space = s /\ ~p.lost /\ p.number < w.largest[s]}
detect_lost_packets(w, s) ==
    handle_lost_packets(
        [w EXCEPT !.sent = (@ \ Late(w, s)) \cup {[p EXCEPT !.lost = TRUE] : p \in Late(w, s)}],
        Late(w, s))

\* Loss recovery's confirmed(): Handshake is discarded.
confirmed(w) == w.complete /\ "H" \notin w.keys
\* earliest_pto() and pto_possible(): the spaces whose timer wakes the connection.
Waking(w) == {s \in IF confirmed(w) THEN {"A"} ELSE CryptoSpaces :
                 Armed(w, s) /\ (w.valid \/ w.credit >= Mtu)}
has_handshake_keys(w) == w.keys \cap {"H", "Aw"} # {}

\* maybe_fire_pto(), for the spaces whose timer has expired.
maybe_fire_pto(w, expired) ==
    LET again == expired \cup (IF "H" \in expired THEN {"I"} ELSE {})
        ps == {p \in w.sent : p.space \in again /\ ~p.pto /\ ~p.lost}
        prime == /\ "I" \in expired /\ has_handshake_keys(w)
                 /\ w.largest["I"] # -1 /\ w.largest["H"] = -1
                 /\ ~Based(w, "H")
    IN  handle_lost_packets(
           [w EXCEPT !.sent = (@ \ ps) \cup {[p EXCEPT !.pto = TRUE] : p \in ps},
                     !.pto = 2, !.probe = @ \cup {s \in Space : Armed(w, s)},
                     !.base = IF prime THEN Append(@, {"H"}) ELSE @], ps)

-----------------------------------------------------------------------------
(* The system *)

Init == /\ setup \in Setups
        /\ c = [e \in Ends |-> New(e)]
        /\ net = {} /\ losses = 0 /\ early = 0 /\ closes = 0

Transmit(e, r) ==
    /\ c' = [c EXCEPT ![e] = r.w]
    /\ net' = IF r.pkts = <<>> THEN net
              ELSE net \cup {[to |-> Peer(e), pkts |-> r.pkts, size |-> r.size]}

\* Bounds on what is in transit, and on answers to a peer that is closing too.
Room(e) == /\ Cardinality({d \in net : d.to # e}) < setup.transit
           /\ closed(c[e]) => \A s \in Space : c[e].next[s] < MaxNumber
Ready(e) == Room(e) /\ output(c[e]).w # c[e]

\* process_output() with no timer due.
Output(e) ==
    /\ Room(e)
    /\ \E r \in {output(c[e])} : r.w # c[e] /\ Transmit(e, r)
    /\ UNCHANGED <<setup, losses, early, closes>>

\* process_input()
Deliver(d) ==
    /\ c' = [c EXCEPT ![d.to] = process_saved(input(@, d.pkts, d.size))]
    /\ net' = net \ {d}
    /\ UNCHANGED <<setup, losses, early, closes>>

Lose(d) ==
    /\ losses < setup.losses /\ losses' = losses + 1
    /\ net' = net \ {d}
    /\ UNCHANGED <<setup, c, early, closes>>

\* Nothing is in transit, nothing can be sent, and the application is not busy.
Quiet == net = {} /\ ~c["client"].auth /\ \A e \in Ends : ~Ready(e)
\* A timer that is due only when datagrams would have arrived, or one that is early.
Due(late) == IF late THEN Quiet /\ UNCHANGED early
             ELSE early < setup.early /\ early' = early + 1

open(w) == w.state \notin {"Init", "Closing", "Draining", "Closed"}
               /\ ~(w.role = "server" /\ w.state = "WaitInitial")

\* process_output() when the timer of the spaces that sent first, n of them, has expired.
Pto(e, late) ==
    \E n \in DOMAIN c[e].base :
        LET expired == {s \in UNION {c[e].base[i] : i \in 1 .. n} : Armed(c[e], s)}
        IN  /\ open(c[e]) /\ Waking(c[e]) \cap expired # {}
            /\ \A s \in Space : c[e].next[s] < MaxNumber
            /\ Due(late) /\ Room(e)
            /\ \E r \in {output(maybe_fire_pto(c[e], expired))} : Transmit(e, r)
            /\ UNCHANGED <<setup, losses, closes>>

LossTimer(e, late) ==
    \E s \in Space :
        /\ open(c[e]) /\ Late(c[e], s) # {}
        /\ Due(late)
        /\ c' = [c EXCEPT ![e] = detect_lost_packets(@, s)]
        /\ UNCHANGED <<setup, net, losses, closes>>

\* authenticated(), called once the application was asked.
authenticated ==
    /\ c["client"].auth
    /\ c' = [c EXCEPT !["client"] = process_saved(set_connected(@))]
    /\ UNCHANGED <<setup, net, losses, early, closes>>

\* close(): a server without a first packet has no path.
close(e) ==
    /\ e \in setup.closers /\ closes < setup.closes /\ closes' = closes + 1
    /\ c' = [c EXCEPT ![e] = IF e = "server" /\ @.state = "Init" THEN set_state(@, "Closed")
                             ELSE set_state(signal_close(@), "Closing")]
    /\ UNCHANGED <<setup, net, losses, early>>

\* process_timer() at the end of the closing period.
ClosingTimer(e, late) ==
    /\ closing(c[e])
    /\ Due(late)
    /\ c' = [c EXCEPT ![e] = set_state(@, "Closed")]
    /\ UNCHANGED <<setup, net, losses, closes>>

\* The idle timeout, when the peer has gone.
IdleTimer(e) ==
    /\ open(c[e]) /\ closed(c[Peer(e)])
    /\ Due(TRUE)
    /\ c' = [c EXCEPT ![e] = set_state(@, "Closed")]
    /\ UNCHANGED <<setup, net, losses, closes>>

Next ==
    \/ \E e \in Ends, late \in BOOLEAN : Pto(e, late) \/ LossTimer(e, late) \/ ClosingTimer(e, late)
    \/ \E e \in Ends : Output(e) \/ close(e) \/ IdleTimer(e)
    \/ \E d \in net : Deliver(d) \/ Lose(d)
    \/ authenticated

Spec == Init /\ [][Next]_vars

\* The system does not stop while a datagram is in transit, a connection has
\* something to send, the application is asked to authenticate, or a timer runs.
Busy == \/ net # {} \/ c["client"].auth
        \/ \E e \in Ends :
              \/ Ready(e)
              \/ open(c[e]) /\ Waking(c[e]) # {} /\ \A s \in Space : c[e].next[s] < MaxNumber
              \/ open(c[e]) /\ \E s \in Space : Late(c[e], s) # {}
              \/ closing(c[e])
              \/ open(c[e]) /\ closed(c[Peer(e)])
Fairness == []<>~Busy \/ []<><<TRUE>>_vars
LiveSpec == Spec /\ Fairness

-----------------------------------------------------------------------------
(* Properties *)

Discarded(e, s) == s \notin c[e].keys /\ c[e].next[s] > 0
Arrived(e, s) == c[e].in[s] = 1 .. Flight(Peer(e), s)

\* Keys go only when nobody needs them: once an end has discarded the keys of a
\* space, both ends hold all of the other's CRYPTO data in that space, and
\* Initial goes before Handshake (crypto.rs panics on any other order).
KeysOutliveTheirUse ==
    \A e \in Ends :
        /\ \A s \in CryptoSpaces : Discarded(e, s) => \A f \in Ends : Arrived(f, s)
        /\ Discarded(e, "H") => Discarded(e, "I")

\* A client that regards the handshake as confirmed, or has dropped its Handshake
\* keys, has a server that completed it; and a server only completes with a client
\* that did.
ConfirmedTogether ==
    /\ (c["client"].state = "Confirmed" \/ Discarded("client", "H")) => c["server"].complete
    /\ c["server"].complete => c["client"].complete

\* Datagrams that wait for keys are not forgotten: once the keys are there, what
\* was saved for them has been processed (SavedDatagrams, process_saved).
NothingLeftSaved ==
    \A e \in Ends : /\ c[e].available = "none"
                    /\ \A s \in {"H", "A"} :
                          c[e].saved[s] # <<>> /\ ~closed(c[e]) => ReadKey(s) \notin c[e].keys

\* Losses, reordering, probe timeouts and the amplification limit never leave the
\* two ends waiting for each other: unless one closes, both confirm the handshake
\* and receive what the other's application sent as early as it could.
HandshakeCompletes ==
    <>(\/ \E e \in Ends : closed(c[e])
       \/ \A e \in Ends : /\ c[e].state = "Confirmed"
                          /\ Peer(e) \in setup.data => 1 \in c[e].in["A"])

\* Closing ends: once either application closes, both ends are closed and silent,
\* or the server never heard of the connection.
ClosingEnds ==
    (\E e \in Ends : closed(c[e])) ~>
        /\ net = {}
        /\ \A e \in Ends : \/ c[e].state = "Closed"
                           \/ e = "server" /\ c[e].state = "Init"
=============================================================================
