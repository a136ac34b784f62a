----------------------------- MODULE Negotiation -----------------------------
(***************************************************************************)
(* A client reaches a server: server.rs, the policy of addr_valid.rs, and  *)
(* the parts of connection/mod.rs, tparams.rs and version.rs that settle   *)
(* the version and the connection IDs.  The server may answer with a       *)
(* Version Negotiation packet or a Retry; either makes the client start    *)
(* again.  Datagrams are lost, repeated and reordered.                     *)
(*                                                                         *)
(* Cryptography is abstracted to the connection ID that the keys of an     *)
(* Initial packet are derived from; all of the server's Handshake flight   *)
(* is in one datagram with its ServerHello.                                *)
(***************************************************************************)
EXTENDS Naturals, Sequences, FiniteSets, SequencesExt, FiniteSetsExt

CONSTANTS
    Setups,         \* what differs between runs of the system:
                    \*   initial, all: the client's version::Config
                    \*   server: the server's versions
                    \*   validation: the server's ValidateAddress, then what it is set to
                    \*   token: the client's token from NEW_TOKEN, "none", "good" or "bad"
                    \*   hello: chunks of the ClientHello, one in each datagram
    Losses, Repeats, Timers,    \* bounds: datagrams lost and repeated, timers that fire
    Batch           \* bound: datagrams given to the server in one call

VARIABLES setup,
    client,         \* the client's Connection
    conns, saved,   \* Server::connections and saved_datagrams
    validation,     \* what is left of setup.validation
    expired,        \* Retry tokens made before this many cids are no longer good
    net,            \* datagrams in transit
    cids,           \* connection IDs made so far
    panicked,       \* an assertion failed
    budget          \* losses, repeats and timers left

vars == <<setup, client, conns, saved, validation, expired, net, cids, panicked, budget>>

-----------------------------------------------------------------------------
(* version.rs *)

is_compatible(v, w) == v = w \/ {v, w} = {"v1", "v2"}
Pick(seq, Test(_)) == LET good == SelectSeq(seq, Test) IN IF good = <<>> THEN "none" ELSE good[1]
preferred(all, set) == Pick(all, LAMBDA v : v \in set)

preferred_compatible(all, initial, set) ==
    Pick(all, LAMBDA v : v \in set /\ is_compatible(initial, v))

Compatible(all, v) == {w \in Range(all) : is_compatible(v, w)}
init(initials, versions, cid) == [v \in DOMAIN initials |-> IF v \in versions THEN cid ELSE initials[v]]
NoInitials == [v \in {"v1", "v2", "d29"} |-> 0]

-----------------------------------------------------------------------------
(* The client *)

\* new_client(): `version` is tried, and `initial` what the configuration says.
new_client(version, initial, n) ==
    [state |-> "WaitInitial", error |-> "none", version |-> version, initial |-> initial,
     tps |-> version,           \* versions.initial() of the transport parameter handler
     odcid |-> n + 1, scid |-> n + 2, dcid |-> n + 1,
     remote |-> 0,              \* remote_initial_source_cid
     retry |-> 0, token |-> "none", made |-> 0,
     initials |-> init(NoInitials, Compatible(setup.all, version), n + 1)]

Fail(c, e) == [c EXCEPT !.state = "Closed", !.error = e]

\* What the client has to send: the ClientHello, or its Finished.
Initials(c) ==
    {[to |-> "server", type |-> "Initial", version |-> c.version, dcid |-> c.dcid, scid |-> c.scid,
      key |-> c.initials[c.version], token |-> c.token, made |-> c.made, odcid |-> c.odcid,
      chunk |-> i, current |-> c.tps, other |-> Compatible(setup.all, c.tps)] : i \in 1 .. setup.hello}
Flight(c) ==
    CASE c.state \in {"WaitInitial", "WaitVersion"} -> Initials(c)
      [] c.state = "Connected" ->
           {[to |-> "server", type |-> "Handshake", version |-> c.version, dcid |-> c.dcid, scid |-> c.scid]}
      [] OTHER -> {}

\* version_negotiation(): a new connection replaces this one.
version_negotiation(c, versions, n) ==
    IF preferred(setup.all, versions) = "none" THEN Fail(c, "VersionNegotiation")
    ELSE [new_client(preferred(setup.all, versions), c.initial, n) EXCEPT
             !.error = IF preferred(setup.all, versions) = c.version THEN "assert" ELSE "none"]

VnIgnored(c, d) == c.version \in d.versions \/ d.scid # c.odcid \/ c.retry # 0

\* The tag of a Retry is computed over the connection ID it answers.
is_valid_retry(d, odcid) == d.odcid = odcid

\* Variant: the keys are not changed.
RetryKeepsKeys(c, d) ==
    IF c.retry # 0 \/ ~is_valid_retry(d, c.odcid) \/ d.scid = c.odcid THEN c
    ELSE [c EXCEPT !.dcid = d.scid, !.retry = d.scid, !.token = "retry", !.made = d.made]

\* handle_retry().  The keys are those of versions compatible with the configured one.
handle_retry(c, d) ==
    IF c.retry # 0 \/ ~is_valid_retry(d, c.odcid) \/ d.scid = c.odcid THEN c
    ELSE [c EXCEPT !.dcid = d.scid, !.retry = d.scid, !.token = "retry", !.made = d.made,
                   !.initials = init(@, Compatible(setup.all, c.initial), d.scid)]

\* start_handshake() and the state after it, on the first packet that is read.
start_handshake(c, d, next) ==
    [c EXCEPT !.state = next,
              !.remote = IF c.state = "WaitInitial" THEN d.scid ELSE @,
              !.dcid = IF c.state = "WaitInitial" THEN d.scid ELSE @]

\* process_tps(): what the server says in its transport parameters has to match.
validate_cids(c, tp) == tp.iscid = c.remote /\ tp.odcid = c.odcid /\ tp.rscid = c.retry
\* Variant: only an upgrade is expected.
ValidateUpgrade(c, tp) == tp.current = c.version /\ is_compatible(c.initial, c.version)

validate_versions(c, tp) ==
    /\ tp.current = c.version
    /\ \/ is_compatible(c.initial, c.version)
       \/ is_compatible(preferred(setup.all, tp.other \cup {tp.current}), c.version)

set_connected(c, tp) ==
    IF ~is_compatible(c.tps, tp.current) \/ tp.current \notin Range(setup.all) THEN Fail(c, "TransportParameter")
    ELSE IF ~validate_cids(c, tp) THEN Fail(c, "ProtocolViolation")
    ELSE IF ~validate_versions(c, tp) THEN Fail(c, "VersionNegotiation")
    ELSE [c EXCEPT !.state = "Connected"]

\* The server's ServerHello: compatible_upgrade(), and the rest of the handshake.
handshake(c, d) ==
    set_connected(start_handshake([c EXCEPT !.version = d.version], d, "Handshaking"), d.tp)

CanRead(c, d) ==
    /\ c.initials[d.version] = d.key
    /\ c.state \in {"WaitInitial", "WaitVersion"}
    /\ c.state = "WaitVersion" => d.dcid = c.scid

\* preprocess_packet() and what follows it, in the client.
ClientInput(c, d, n) ==
    CASE d.type = "VN" /\ c.state = "WaitInitial" ->
           IF VnIgnored(c, d) THEN c ELSE version_negotiation(c, d.versions, n)
      [] d.type = "Retry" /\ c.state = "WaitInitial" -> handle_retry(c, d)
      [] d.type = "Ack" /\ CanRead(c, d) -> start_handshake(c, d, "WaitVersion")
      [] d.type = "Hello" /\ CanRead(c, d) -> handshake(c, d)
      [] OTHER -> c

-----------------------------------------------------------------------------
(* The server *)

Valid(s, cid) == cid = s.cid \/ (s.state \in {"WaitVersion", "Handshaking"} /\ cid = s.odcid)

\* The server's side of TransportParametersHandler::compatible_upgrade().
SelectVersion(s, d) ==
    IF d.current # s.tps THEN "none" ELSE preferred_compatible(setup.server, s.tps, d.other)

init_server(s, v) == IF s.initials[v] # 0 THEN s.initials ELSE init(s.initials, {v}, s.odcid)

\* An Initial packet: a ClientHello that is complete decides the version.
ServerInitial(s, d) ==
    IF s.initials[d.version] # d.key THEN s
    ELSE LET in == s.in \cup {d.chunk}
             got == [s EXCEPT !.in = in, !.pend = @ \cup {"Ack"},
                              !.remote = IF s.state = "WaitInitial" THEN d.scid ELSE @,
                              !.state = IF s.state = "WaitInitial" THEN "WaitVersion" ELSE @]
             v == SelectVersion(s, d)
         IN  IF s.state = "Handshaking" \/ Cardinality(in) < setup.hello THEN got
             ELSE IF v = "none" THEN Fail(got, "TransportParameter")
             ELSE [got EXCEPT !.version = v, !.initials = init_server(s, v), !.state = "Handshaking",
                              !.iscid = d.scid, !.pend = {"Hello"}]

\* A Handshake packet: Initial keys go, the handshake completes, and the client's
\* transport parameters are validated.
ServerHandshake(s, d) ==
    IF s.state # "Handshaking" \/ d.dcid # s.cid THEN s
    ELSE IF s.remote # s.iscid THEN Fail(s, "ProtocolViolation")
    ELSE [s EXCEPT !.state = "Confirmed", !.initials = NoInitials, !.pend = {}]

ServerInput(s, d) ==
    CASE d.type = "Initial" /\ s.state \in {"WaitInitial", "WaitVersion", "Handshaking"} -> ServerInitial(s, d)
      [] d.type = "Handshake" -> ServerHandshake(s, d)
      [] OTHER -> s

new_server(d, n) ==
    [state |-> "WaitInitial", error |-> "none", version |-> d.version, tps |-> d.version,
     odcid |-> d.dcid, cid |-> n + 1, remote |-> 0, iscid |-> 0, tpOdcid |-> d.dcid, rscid |-> 0,
     in |-> {}, pend |-> {}, initials |-> init(NoInitials, {d.version}, d.dcid)]

set_retry_cids(s, odcid, d) == [s EXCEPT !.tpOdcid = odcid, !.rscid = d.dcid, !.remote = d.scid]

\* Variant: set_retry_cids() is not called.
SetupForgets(d, odcid, n) == new_server(d, n)

\* setup_connection(), after a Retry when the token says so.
setup_connection(d, odcid, n) ==
    IF odcid = 0 THEN new_server(d, n) ELSE set_retry_cids(new_server(d, n), odcid, d)

\* AddressValidation::validate().
Good(d) == d.token = "good" \/ (d.token = "retry" /\ d.made >= expired)
validate(d) ==
    CASE d.token = "none" -> IF Head(validation) = "Never" THEN "Pass" ELSE "Validate"
      [] d.token = "retry" -> IF Good(d) THEN "ValidRetry" ELSE "Invalid"
      [] Good(d) -> IF Head(validation) = "Always" THEN "Validate" ELSE "Pass"
      [] OTHER -> IF Head(validation) = "Never" THEN "Pass" ELSE "Validate"

Hello(s) ==
    [to |-> "client", type |-> "Hello", version |-> s.version, dcid |-> s.remote, scid |-> s.cid,
     key |-> s.odcid, tp |-> [current |-> s.version, other |-> Range(setup.server), odcid |-> s.tpOdcid,
                              rscid |-> s.rscid, iscid |-> s.cid]]
Ack(s) == [to |-> "client", type |-> "Ack", version |-> s.version, dcid |-> s.remote, scid |-> s.cid,
           key |-> s.odcid]
\* Connection::output().
ServerOutput(s) == IF "Hello" \in s.pend THEN Hello(s) ELSE Ack(s)

\* accept_connection().
Accept(w, d, odcid) ==
    LET s == ServerInput(setup_connection(d, odcid, w.cids), d)
    IN  [w EXCEPT !.conns = Append(@, [s EXCEPT !.pend = {}]), !.cids = @ + 1,
                  !.out = IF s.pend = {} THEN {} ELSE {ServerOutput(s)}]

\* What a Retry token is sealed with: the client's connection ID, and when it was made.
generate_token(d, n) == [odcid |-> d.dcid, made |-> n]
Retry(d, cid, token) ==
    [to |-> "client", type |-> "Retry", version |-> d.version, dcid |-> d.scid, scid |-> cid,
     odcid |-> token.odcid, made |-> token.made]

handle_initial(w, d) ==
    CASE validate(d) = "Invalid" -> w
      [] validate(d) = "Pass" -> Accept(w, d, 0)
      [] validate(d) = "ValidRetry" -> Accept(w, d, d.odcid)
      [] validate(d) = "Validate" ->
           [w EXCEPT !.cids = @ + 1,
                     !.out = {Retry(d, w.cids + 1, generate_token(d, w.cids + 1))}]

Owner(w, d) == SelectInSeq(w.conns, LAMBDA s : Valid(s, d.dcid))
\* One datagram of process_input().
ProcessOne(w, d) ==
    IF Owner(w, d) > 0 THEN [w EXCEPT !.conns[Owner(w, d)] = ServerInput(@, d)]
    ELSE IF d.type # "Initial" THEN w
    ELSE IF d.version \notin Range(setup.server)
    THEN [w EXCEPT !.out = {[to |-> "client", type |-> "VN", dcid |-> d.scid, scid |-> d.dcid,
                             versions |-> Range(setup.server)]}]
    ELSE handle_initial(w, d)

\* process_multiple_input(): what is left once there is output is saved.
Take(w, d) == IF w.out # {} THEN [w EXCEPT !.saved = Append(@, d)] ELSE ProcessOne(w, d)
process_multiple_input(dgrams) ==
    FoldLeft(Take, [conns |-> conns, saved |-> <<>>, cids |-> cids, out |-> {}, panicked |-> panicked],
             saved \o dgrams)

\* process_next_output(): the first connection that has something to send, "Always
\* process all inbound datagrams first".
process_next_output(w) ==
    LET i == SelectInSeq(w.conns, LAMBDA s : s.pend # {})
        u == [w EXCEPT !.panicked = @ \/ w.saved # <<>>]
    IN  IF i = 0 THEN u ELSE [u EXCEPT !.out = @ \cup {ServerOutput(w.conns[i])}, !.conns[i].pend = {}]

\* process_multiple().  Closed connections go once there is nothing to send.
CleanUp(w) == IF w.out # {} THEN w ELSE [w EXCEPT !.conns = SelectSeq(@, LAMBDA s : s.state # "Closed")]
\* Variant: there is output whatever the input led to.
ProcessAlways(w) == CleanUp(process_next_output(w))

process_multiple(w) == IF w.out # {} THEN w ELSE CleanUp(process_next_output(w))

-----------------------------------------------------------------------------
(* The system *)

Init ==
    /\ setup \in Setups
    /\ client = [new_client(setup.initial, setup.initial, 0) EXCEPT !.token = setup.token]
    /\ net = Flight(client)
    /\ conns = <<>> /\ saved = <<>> /\ cids = 2 /\ expired = 0 /\ panicked = FALSE
    /\ validation = setup.validation
    /\ budget = [losses |-> Losses, repeats |-> Repeats, timers |-> Timers]

\* Datagrams that arrive, all for good unless one is repeated, and what is sent in answer.
Exchange(set, answer) ==
    \/ net' = (net \ set) \cup answer /\ UNCHANGED budget
    \/ \E d \in set :
          /\ budget.repeats > 0
          /\ net' = (net \ (set \ {d})) \cup answer
          /\ budget' = [budget EXCEPT !.repeats = @ - 1]

\* Connection::process(): a client that starts again or goes on sends at once.
ClientReceives ==
    \E d \in net : \E c \in {ClientInput(client, d, cids)} :
        /\ d.to = "client"
        /\ Exchange({d}, IF \/ c.odcid # client.odcid \/ c.retry # client.retry
                            \/ c.state # client.state /\ c.state = "Connected"
                         THEN Flight(c) ELSE {})
        /\ client' = c
        /\ cids' = IF c.odcid # client.odcid THEN cids + 2 ELSE cids
        /\ UNCHANGED <<setup, conns, saved, validation, expired, panicked>>

ClientTimer ==
    /\ Flight(client) \ net # {}
    /\ budget.timers > 0
    /\ budget' = [budget EXCEPT !.timers = @ - 1]
    /\ net' = net \cup Flight(client)
    /\ UNCHANGED <<setup, client, conns, saved, validation, expired, cids, panicked>>

\* Server::process_multiple() with up to Batch datagrams.
Batches == {<<>>} \cup {<<d>> : d \in {x \in net : x.to = "server"}}
             \cup {b \in {x \in net : x.to = "server"} \X {x \in net : x.to = "server"} :
                      Batch > 1 /\ b[1] # b[2]}
ServerProcesses ==
    \E dgrams \in Batches : \E w \in {process_multiple_input(dgrams)} : \E o \in {process_multiple(w)} :
        /\ dgrams # <<>> \/ saved # <<>> \/ \E i \in DOMAIN conns : conns[i].pend # {}
        /\ Exchange(Range(dgrams), o.out)
        /\ conns' = o.conns /\ saved' = o.saved /\ cids' = o.cids /\ panicked' = o.panicked
        /\ UNCHANGED <<setup, client, validation, expired>>

ServerTimer ==
    \E i \in DOMAIN conns :
        /\ conns[i].state = "Handshaking" /\ conns[i].pend = {} /\ budget.timers > 0
        /\ budget' = [budget EXCEPT !.timers = @ - 1]
        /\ conns' = [conns EXCEPT ![i].pend = {"Hello"}]
        /\ UNCHANGED <<setup, client, saved, validation, expired, net, cids, panicked>>

SetValidation ==
    /\ Len(validation) > 1
    /\ validation' = Tail(validation)
    /\ UNCHANGED <<setup, client, conns, saved, expired, net, cids, panicked, budget>>

\* The tokens made so far are too old.
Expire ==
    /\ setup.expires /\ expired = 0 /\ client.retry # 0
    /\ expired' = cids + 1
    /\ UNCHANGED <<setup, client, conns, saved, validation, net, cids, panicked, budget>>

Lose ==
    \E d \in net :
        /\ budget.losses > 0
        /\ budget' = [budget EXCEPT !.losses = @ - 1]
        /\ net' = net \ {d}
        /\ UNCHANGED <<setup, client, conns, saved, validation, expired, cids, panicked>>

Next == \/ ClientReceives \/ ClientTimer \/ ServerProcesses \/ ServerTimer
        \/ SetValidation \/ Expire \/ Lose

-----------------------------------------------------------------------------
(* A client and a server that share a version never give up: nothing that  *)
(* was lost, repeated or delayed makes validate_cids(), validate_versions()*)
(* or the transport parameter handler fail, and no assertion of server.rs  *)
(* or version_negotiation() does.                                          *)
HonestNeverFails ==
    /\ ~panicked
    /\ \A i \in DOMAIN conns : conns[i].error = "none"
    /\ \/ client.error = "none"
       \/ client.error = "VersionNegotiation" /\ Range(setup.all) \cap Range(setup.server) = {}

\* The version that the client and the server should settle on.
Tried == IF setup.initial \in Range(setup.server) THEN setup.initial
         ELSE Pick(setup.all, LAMBDA v : v \in Range(setup.server))
Settled == Pick(setup.server, LAMBDA v : v \in Range(setup.all) /\ is_compatible(Tried, v))

(* The two ends of a connection that is up agree on its version, which is  *)
(* the one the server likes best of those the client can be upgraded to    *)
(* from the first version that both know.                                  *)
VersionAgreed ==
    /\ client.state = "Connected" =>
          \E i \in DOMAIN conns : /\ conns[i].cid = client.dcid
                                  /\ {conns[i].version, client.version} = {Settled}
    /\ \A i \in DOMAIN conns :
          conns[i].state = "Confirmed" => client.state = "Connected" /\ client.dcid = conns[i].cid

(* A connection that the server accepts could read the packet it was       *)
(* accepted for.  One that could not stays in WaitInitial: no packet       *)
(* reaches it and no timer ends it.                                        *)
AcceptedAreRead == \A i \in DOMAIN conns : conns[i].state # "WaitInitial"
==============================================================================
