----------------------------- MODULE EarlyData -----------------------------
(***************************************************************************)
(* 0-RTT: the keys of the application data space in crypto.rs, what        *)
(* connection/mod.rs does with early data while the handshake goes on, and *)
(* how both ends leave 0-RTT behind.  The client resumes; the server takes *)
(* its early data or does not.                                             *)
(*                                                                         *)
(* The network may deliver what was sent any number of times, or never; a  *)
(* datagram that an end would save until it has keys is one that arrives   *)
(* again.  TLS is external: a ClientHello in one or two packets is         *)
(* answered with a ServerHello and the rest of the server's flight.        *)
(***************************************************************************)
EXTENDS Integers, FiniteSets, FiniteSetsExt

CONSTANTS
    Setups,     \* [accept, hello, items]: whether the server takes 0-RTT, the packets of the
                \* ClientHello, and what the application writes
    MaxPn,      \* bound: packet numbers
    Repeats     \* bound: packets with a ServerHello

VARIABLES setup,
    client, server,     \* the two connections
    net                 \* all that was sent

vars == <<setup, client, server, net>>

None == -1

-----------------------------------------------------------------------------
(* Keys.  `zero` and `write` hold the next packet number of 0-RTT and 1-RTT *)
(* keys, None if there are no keys; `read` is the least number to accept.   *)

\* Variant: the application data keys start from zero.
WriteFromZero(w) == [w EXCEPT !.write = 0, !.zero = None]

\* CryptoStates::set_application_write_key().  Only a client has 0-RTT keys to write.
set_application_write_key(w) ==
    [w EXCEPT !.write = IF w.zero # None /\ w.role = "client" THEN w.zero ELSE 0, !.zero = None]

\* CryptoStates::set_application_read_key(): 0-RTT keys are kept for a while.
set_application_read_key(w) ==
    [w EXCEPT !.read = IF w.zero # None /\ w.role = "server" THEN w.zero ELSE 0,
              !.expires = w.zero # None]

\* CryptoStates::discard_0rtt_keys(), with its assertion.
discard_0rtt_keys(w) == [w EXCEPT !.zero = None, !.panicked = @ \/ w.read # None]

\* Crypto::enable_0rtt() and CryptoStates::set_0rtt_keys().
enable_0rtt(w, able) == IF able THEN [w EXCEPT !.zero = 0] ELSE w

\* CryptoStates::select_tx_mut(): the keys for application data.
select_tx(w) == IF w.write # None THEN "Short" ELSE IF w.zero # None THEN "ZeroRtt" ELSE "none"
next_pn(w) == IF w.write # None THEN w.write ELSE w.zero
\* CryptoDxState::used() on packets that are sent.
sent_one(w) == IF w.write # None THEN [w EXCEPT !.write = @ + 1] ELSE [w EXCEPT !.zero = @ + 1]

-----------------------------------------------------------------------------
(* The client.  An item is stream data; `gen` tells what the application   *)
(* wrote before it heard of a rejection from what it wrote afterwards.      *)

Items(gen) == {<<gen, i>> : i \in 1 .. setup.items}

\* Connection::enable_resumption() and client_start().
NewClient ==
    enable_0rtt([role |-> "client", state |-> "WaitInitial", zrtt |-> "Sending",
                 zero |-> None, write |-> None, read |-> None, expires |-> FALSE, panicked |-> FALSE,
                 initial |-> TRUE,      \* has Initial keys
                 got |-> {},            \* Initial packets received
                 hello |-> FALSE,       \* has the ServerHello, and so Handshake keys
                 gen |-> 0, pend |-> Items(0), track |-> {}, largest |-> FALSE, acked |-> {}],
                TRUE)

\* Loss::drop_0rtt(), and what is lost is to be sent again.
resend_0rtt(c) ==
    IF c.largest THEN c
    ELSE [c EXCEPT !.pend = @ \cup {p.item : p \in c.track}, !.track = {}]

\* Variant: the streams are kept.
RejectedKeepsStreams(c) ==
    IF c.zrtt # "Sending" THEN c
    ELSE [discard_0rtt_keys(resend_0rtt(c)) EXCEPT !.gen = 1]

\* client_0rtt_rejected(): Streams::zero_rtt_rejected() forgets all streams, and the
\* application is told to start over.
client_0rtt_rejected(c) ==
    IF c.zrtt # "Sending" THEN c
    ELSE [discard_0rtt_keys(resend_0rtt(c)) EXCEPT !.pend = {}, !.track = {}, !.gen = 1]

\* Crypto::install_application_keys().
install_application_keys(w) ==
    set_application_read_key(IF w.write = None THEN set_application_write_key(w) ELSE w)

\* set_connected(): "Setting application keys has to occur after 0-RTT rejection."
ClientConnected(c, accepted) ==
    [install_application_keys(IF accepted THEN c ELSE client_0rtt_rejected(c)) EXCEPT
        !.zrtt = IF accepted THEN "AcceptedClient" ELSE "Rejected", !.state = "Connected"]

\* An Initial packet with the ServerHello; a duplicate says that the client's was lost.
ClientInitial(c, p) ==
    IF ~c.initial \/ p.n \in c.got THEN c
    ELSE IF c.hello THEN resend_0rtt([c EXCEPT !.got = @ \cup {p.n}])
    ELSE [c EXCEPT !.got = @ \cup {p.n}, !.hello = TRUE, !.state = "Handshaking"]

\* The rest of the server's flight.  Without the ServerHello, it hints that the Initial was lost.
ClientHandshake(c, p) ==
    CASE c.state = "WaitInitial" -> resend_0rtt(c)
      [] c.state = "Handshaking" -> ClientConnected(c, p.accepted)
      [] OTHER -> c

\* handle_ack(): packets that are not tracked are not looked at.
ClientAck(c, pn) ==
    IF c.read = None THEN (IF c.state = "WaitInitial" THEN resend_0rtt(c) ELSE c)
    ELSE LET now == {q \in c.track : q.pn = pn}
         IN  [c EXCEPT !.track = @ \ now, !.largest = @ \/ now # {},
                       !.acked = @ \cup {q.item : q \in now},
                       !.pend = @ \ {q.item : q \in now}]

ClientInput(c, p) ==
    CASE p.type = "Initial" -> ClientInitial(c, p)
      [] p.type = "Handshake" -> ClientHandshake(c, p)

-----------------------------------------------------------------------------
(* The server. *)

NewServer ==
    [role |-> "server", state |-> "None", zrtt |-> "Init",
     zero |-> None, write |-> None, read |-> None, expires |-> FALSE, panicked |-> FALSE,
     got |-> {},        \* CRYPTO data of the ClientHello
     pns |-> {},        \* application data packets received
     data |-> {},       \* what the application got
     refused |-> FALSE] \* a packet with an acceptable number was refused

\* The ClientHello is complete: install_keys(), and then postprocess_packet().
ServerKeys(s) ==
    [enable_0rtt(set_application_write_key(s), setup.accept) EXCEPT
        !.zrtt = IF setup.accept THEN "AcceptedServer" ELSE "Rejected", !.state = "Handshaking"]

ServerInitial(s, p) ==
    LET t == [s EXCEPT !.got = @ \cup {p.n}]
    IN  IF s.state \notin {"None", "WaitVersion"} THEN s
        ELSE IF Cardinality(t.got) < setup.hello THEN [t EXCEPT !.state = "WaitVersion"]
        ELSE ServerKeys(t)

\* The client's Finished: set_connected().
ServerFinished(s) ==
    IF s.state # "Handshaking" THEN s
    ELSE [install_application_keys(s) EXCEPT !.state = "Confirmed"]

Deliver(s, p) == IF p.pn \in s.pns THEN s ELSE [s EXCEPT !.pns = @ \cup {p.pn}, !.data = @ \cup {p.item}]

\* 0-RTT packets of no connection are dropped, and so are those there are no keys for.
ServerZeroRtt(s, p) ==
    IF s.state = "None" \/ s.zero = None THEN s
    ELSE Deliver([s EXCEPT !.zero = Max({@, p.pn + 1})], p)

\* 1-RTT packets.  CryptoDxState::used() refuses numbers that belong to earlier keys.
ServerShort(s, p) ==
    IF s.read = None THEN s
    ELSE IF p.pn < s.read THEN [s EXCEPT !.refused = TRUE]
    ELSE Deliver(s, p)

ServerInput(s, p) ==
    CASE p.type = "Initial" -> ServerInitial(s, p)
      [] p.type = "Handshake" -> ServerFinished(s)
      [] p.type = "ZeroRtt" -> ServerZeroRtt(s, p)
      [] p.type = "Short" -> ServerShort(s, p)

-----------------------------------------------------------------------------
(* The system. *)

Init ==
    /\ setup \in Setups
    /\ client = NewClient /\ server = NewServer
    /\ net = {[to |-> "server", type |-> "Initial", n |-> i] : i \in 1 .. setup.hello}

\* output(): application data, in 0-RTT or 1-RTT packets.
ClientSends ==
    \E item \in client.pend :
        /\ select_tx(client) # "none" /\ next_pn(client) <= MaxPn
        /\ LET p == [to |-> "server", type |-> select_tx(client), pn |-> next_pn(client), item |-> item]
           IN  /\ net' = net \cup {p}
               /\ client' = [sent_one(client) EXCEPT !.pend = @ \ {item}, !.track = @ \cup {[pn |-> p.pn, item |-> item]}]
        /\ UNCHANGED <<setup, server>>

\* output(): the Finished, with which a client discards Initial keys.
ClientFinishes ==
    /\ client.state = "Connected" /\ client.initial
    /\ client' = [client EXCEPT !.initial = FALSE]
    /\ net' = net \cup {[to |-> "server", type |-> "Handshake"]}
    /\ UNCHANGED <<setup, server>>

\* A packet is declared lost, or a probe timeout sends its data again.
ClientLoses ==
    \E p \in client.track :
        /\ client' = [client EXCEPT !.pend = @ \cup {p.item}, !.track = @ \ {p}]
        /\ UNCHANGED <<setup, server, net>>

\* The application writes again what was rejected.
ApplicationRestarts ==
    /\ client.gen = 1 /\ client.state = "Connected" /\ client.pend = {} /\ client.track = {} /\ client.acked = {}
    /\ client' = [client EXCEPT !.pend = Items(1)]
    /\ UNCHANGED <<setup, server, net>>

ClientReceives ==
    \E p \in net :
        /\ p.to = "client"
        /\ client' = ClientInput(client, p)
        /\ UNCHANGED <<setup, server, net>>

ServerReceives ==
    \E p \in net :
        /\ p.to = "server"
        /\ server' = ServerInput(server, p)
        /\ UNCHANGED <<setup, client, net>>

\* output() at the server: its flight, which it may send more than once.
ServerSends ==
    \E n \in 1 .. Repeats :
        /\ server.state = "Handshaking"
        /\ net' = net \cup {[to |-> "client", type |-> "Initial", n |-> n],
                            [to |-> "client", type |-> "Handshake", accepted |-> setup.accept]}
        /\ UNCHANGED <<setup, client, server>>

\* output() at the server: acknowledgments.  Each arrives, at any time, or does not.
ServerAcks ==
    \E pn \in server.pns :
        /\ select_tx(server) = "Short"
        /\ client' = ClientAck(client, pn)
        /\ UNCHANGED <<setup, server, net>>

\* check_key_update(): 0-RTT keys go when their time has come.
ServerExpires ==
    /\ server.expires
    /\ server' = [server EXCEPT !.expires = FALSE, !.zero = None]
    /\ UNCHANGED <<setup, client, net>>

Next == \/ ClientSends \/ ClientFinishes \/ ClientLoses \/ ApplicationRestarts \/ ClientReceives
        \/ ServerReceives \/ ServerSends \/ ServerAcks \/ ServerExpires

-----------------------------------------------------------------------------
(* What the server's application gets is what the client's application     *)
(* last wrote: nothing of rejected early data comes through, what was      *)
(* taken as early data is never rejected later, and what the client takes  *)
(* for acknowledged has arrived.  client_0rtt_rejected() and enable_0rtt() *)
(* are on two ends, with packets of both epochs between them.              *)
EarlyDataMeansOnce ==
    /\ client.acked \subseteq server.data
    /\ client.gen = 1 => server.data \subseteq Items(1)
    /\ client.zrtt = "AcceptedClient" => server.data \subseteq Items(0)
    /\ client.state = "Connected" => client.acked \cup client.pend \cup {p.item : p \in client.track}
                                        \in {Items(client.gen), {}}

(* No two packets under the same keys have the same number, the numbers of *)
(* accepted 0-RTT packets are not used again in 1-RTT, the server refuses  *)
(* no packet for its number, and no assertion of crypto.rs fails.          *)
NumbersFresh ==
    /\ \A p, q \in {r \in net : r.type \in {"ZeroRtt", "Short"} /\ r.to = "server"} :
          p.pn = q.pn /\ (p.type = q.type \/ client.zrtt = "AcceptedClient") => p = q
    /\ ~server.refused /\ ~client.panicked /\ ~server.panicked
=============================================================================
