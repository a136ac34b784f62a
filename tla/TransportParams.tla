--------------------------- MODULE TransportParams ---------------------------
(***************************************************************************)
(* Transport parameters (tparams.rs, create_transport_parameter of         *)
(* connection/params.rs): what an endpoint offers, how the other side      *)
(* reads it, and whether a server whose configuration has changed since    *)
(* it issued a ticket can accept the 0-RTT data of a client that still     *)
(* works with the parameters it remembers.                                 *)
(***************************************************************************)
EXTENDS Codec, FiniteSets

CONSTANTS
    Configs,    \* configurations of a server (ConnectionParameters)
    Foreign     \* encodings of parameters that a peer may send

VARIABLES
    config,     \* the server's configuration
    ticket,     \* the 0-RTT token of the ticket, None before there is one
    issued,     \* the parameters that were in effect for the ticket
    client,     \* what the resuming client works with, None when not resuming
    result,     \* what the server made of the ticket
    seen        \* what was read of a peer's parameters

vars == <<config, ticket, issued, client, result, seen>>

-----------------------------------------------------------------------------
(* Parameters.  Those that are set are the domain of a function.           *)

\* The identifiers.  That of MinAckDelay is larger than TLC's integers.
Declared == <<
    <<"OriginalDestinationConnectionId", 0>>, <<"IdleTimeout", 1>>,
    <<"StatelessResetToken", 2>>, <<"MaxUdpPayloadSize", 3>>, <<"InitialMaxData", 4>>,
    <<"InitialMaxStreamDataBidiLocal", 5>>, <<"InitialMaxStreamDataBidiRemote", 6>>,
    <<"InitialMaxStreamDataUni", 7>>, <<"InitialMaxStreamsBidi", 8>>,
    <<"InitialMaxStreamsUni", 9>>, <<"AckDelayExponent", 10>>, <<"MaxAckDelay", 11>>,
    <<"DisableMigration", 12>>, <<"PreferredAddress", 13>>,
    <<"ActiveConnectionIdLimit", 14>>, <<"InitialSourceConnectionId", 15>>,
    <<"RetrySourceConnectionId", 16>>, <<"VersionInformation", 17>>,
    <<"ResetStreamAt", 29>>, <<"Scone", 8606>>, <<"GreaseQuicBit", 10930>>,
    <<"MinAckDelay", MAX_VARINT>>, <<"MaxDatagramFrameSize", 32>>>>

Ids == {Declared[i][1] : i \in DOMAIN Declared}
Id == [k \in Ids |-> Declared[CHOOSE i \in DOMAIN Declared : Declared[i][1] = k][2]]

Integer(n) == [kind |-> "integer", n |-> n]
Bytes(b) == [kind |-> "bytes", b |-> b]
Empty == [kind |-> "empty"]
Address(v4, v6, cid, srt) == [kind |-> "address", v4 |-> v4, v6 |-> v6, cid |-> cid, srt |-> srt]
VersionList(current, other) == [kind |-> "versions", current |-> current, other |-> other]

Unset == [x \in {} |-> Empty]
set(tps, k, v) == [x \in DOMAIN tps \union {k} |-> IF x = k THEN v ELSE tps[x]]
remove(tps, k) == [x \in DOMAIN tps \ {k} |-> tps[x]]

ZeroByDefault ==
    {"IdleTimeout", "InitialMaxData", "InitialMaxStreamDataBidiLocal",
     "InitialMaxStreamDataBidiRemote", "InitialMaxStreamDataUni", "InitialMaxStreamsBidi",
     "InitialMaxStreamsUni", "MinAckDelay", "MaxDatagramFrameSize"}

IntegerIds ==
    ZeroByDefault \union
        {"MaxUdpPayloadSize", "AckDelayExponent", "MaxAckDelay", "ActiveConnectionIdLimit"}

integer_default(k) ==
    CASE k \in ZeroByDefault -> 0
      [] k = "MaxUdpPayloadSize" -> 65527
      [] k = "AckDelayExponent" -> 3
      [] k = "MaxAckDelay" -> 25
      [] k = "ActiveConnectionIdLimit" -> 2

get_integer(tps, k) == IF k \in DOMAIN tps THEN tps[k].n ELSE integer_default(k)

set_integer(tps, k, n) ==
    IF n = integer_default(k) THEN remove(tps, k) ELSE set(tps, k, Integer(n))

set_empty(tps, k, on) == IF on THEN set(tps, k, Empty) ELSE tps

\* TransportParameters::set_versions: a greased version, then those the
\* configuration has, of a client the compatible ones.
Grease == <<26, 42, 58, 74>>
is_compatible(a, b) == a = b \/ {a, b} = {<<0, 0, 0, 1>>, <<107, 51, 67, 207>>}
set_versions(tps, role, c) ==
    set(tps, "VersionInformation",
        VersionList(c.initial,
                    <<Grease>> \o (IF role = "server" THEN c.all
                                   ELSE SelectSeq(c.all, LAMBDA v : is_compatible(c.initial, v)))))

\* ConnectionParameters as they are when nothing is configured; only those that
\* are told to the peer.  The versions are Version2 and Version1.
ConnectionParameters ==
    [initial |-> <<0, 0, 0, 1>>, all |-> << <<107, 51, 67, 207>>, <<0, 0, 0, 1>> >>,
     max_data |-> 2 * 1024 * 1024, max_stream_data |-> 1024 * 1024, max_streams |-> 100,
     idle_timeout |-> 30000, datagram_size |-> 65535, preferred_address |-> <<>>,
     grease |-> TRUE, disable_migration |-> FALSE, scone |-> FALSE, reliable_stream_reset |-> TRUE]

\* ConnectionParameters::create_transport_parameter.  The durations are
\* constants of the code: DEFAULT_LOCAL_ACK_DELAY and GRANULARITY.
IntegersOf(c) ==
    << <<"ActiveConnectionIdLimit", 8>>, <<"MaxAckDelay", 20>>, <<"MinAckDelay", 1000>>,
       <<"InitialMaxData", c.max_data>>, <<"InitialMaxStreamDataBidiLocal", c.max_stream_data>>,
       <<"InitialMaxStreamDataBidiRemote", c.max_stream_data>>, <<"InitialMaxStreamDataUni", c.max_stream_data>>,
       <<"InitialMaxStreamsBidi", c.max_streams>>, <<"InitialMaxStreamsUni", c.max_streams>>,
       <<"IdleTimeout", c.idle_timeout>>, <<"MaxDatagramFrameSize", c.datagram_size>> >>
FlagsOf(c) ==
    << <<"DisableMigration", c.disable_migration>>, <<"GreaseQuicBit", c.grease>>,
       <<"Scone", c.scone>>, <<"ResetStreamAt", c.reliable_stream_reset>> >>
WithAddress(tps, role, a) ==
    IF a = <<>> \/ role = "client" THEN tps
    ELSE set(tps, "PreferredAddress", Address(a[1], a[2], <<3>>, [i \in 1..16 |-> 4]))
create_transport_parameter(role, c) ==
    WithAddress(FoldLeft(LAMBDA tps, e : set_integer(tps, e[1], e[2]),
                         FoldLeft(LAMBDA tps, e : set_empty(tps, e[1], e[2]), set_versions(Unset, role, c), FlagsOf(c)),
                         IntegersOf(c)),
                role, c.preferred_address)

-----------------------------------------------------------------------------
(* Encoding and decoding.                                                  *)

Zeros(n) == [i \in 1..n |-> 0]

\* TransportParameter::encode.
encode(k, v) ==
    encode_varint(Id[k]) \o
        CASE v.kind = "bytes" -> encode_vvec(v.b)
          [] v.kind = "integer" -> encode_vvec_with(encode_varint(v.n))
          [] v.kind = "empty" -> encode_varint(0)
          [] v.kind = "address" ->
                encode_vvec_with((IF v.v4 = <<>> THEN Zeros(6) ELSE v.v4)
                                 \o (IF v.v6 = <<>> THEN Zeros(18) ELSE v.v6)
                                 \o encode_vec(1, v.cid) \o v.srt)
          [] v.kind = "versions" -> encode_vvec_with(v.current \o FlattenSeq(v.other))

\* TransportParameters::encode_filtered, in the order of the declaration.
encode_filtered(tps, keep) ==
    LET ks == SelectSeq(Declared, LAMBDA d : d[1] \in DOMAIN tps \intersect keep)
    IN FlattenSeq([i \in DOMAIN ks |-> encode(ks[i][1], tps[ks[i][1]])])

retain_all == Ids
filter_ch_outer ==
    {"OriginalDestinationConnectionId", "StatelessResetToken", "InitialSourceConnectionId",
     "RetrySourceConnectionId", "VersionInformation", "AckDelayExponent", "MaxAckDelay",
     "MaxUdpPayloadSize"}

\* An address and a port are both zero or both not.
DecodeAddress(b) ==
    LET n == Len(b) - 2
        no_ip == First(b, n) = Zeros(n)
        no_port == After(b, n) = Zeros(2)
    IN IF no_ip # no_port THEN None ELSE Read(IF no_port THEN <<>> ELSE b, <<>>)

decode_preferred_address(d) ==
    LET v4 == DecodeAddress(First(d, 6))
        v6 == DecodeAddress(SubSeq(d, 7, 24))
        cid == decode_vec(After(d, 24), 1)
        srt == IF cid.ok THEN decode(cid.rest, 16) ELSE None
    IN IF \/ Len(d) < 24 \/ ~v4.ok \/ ~v6.ok \/ (v4.v = <<>> /\ v6.v = <<>>)
          \/ ~srt.ok \/ Len(cid.v) \notin 1..20
       THEN None
       ELSE Read(Address(v4.v, v6.v, cid.v, srt.v), srt.rest)

\* Bytes that are left over are for the caller to refuse.
decode_versions(d) ==
    LET n == Len(d) \div 4
        vs == [i \in 1..n |-> SubSeq(d, 4 * i - 3, 4 * i)]
    IN IF n = 0 \/ \E i \in 1..n : vs[i] = Zeros(4) THEN None
       ELSE Read(VersionList(vs[1], Tail(vs)), After(d, 4 * n))

\* The values an integer may have.
InRange(k, n) ==
    CASE k = "MaxAckDelay" -> n < 2^14
      [] k \in {"InitialMaxStreamsBidi", "InitialMaxStreamsUni"} -> n <= 2^28
      [] k = "MaxUdpPayloadSize" -> n >= 1200
      [] k = "AckDelayExponent" -> n <= 20
      [] k = "ActiveConnectionIdLimit" -> n >= 2
      [] k = "MinAckDelay" -> n < 2^24
      [] OTHER -> TRUE

ServerOnly ==
    {"OriginalDestinationConnectionId", "RetrySourceConnectionId", "StatelessResetToken",
     "PreferredAddress"}

decode_value(role, k, d) ==
    CASE k \in ServerOnly /\ role = "server" -> None
      [] k = "StatelessResetToken" /\ Len(d) # 16 -> None
      [] k = "PreferredAddress" -> decode_preferred_address(d)
      [] k = "VersionInformation" -> decode_versions(d)
      [] k \in IntegerIds ->
            LET n == decode_varint(d)
            IN IF n.ok /\ InRange(k, n.v) THEN Read(Integer(n.v), n.rest) ELSE None
      [] k \in {"DisableMigration", "GreaseQuicBit", "Scone", "ResetStreamAt"} -> Read(Empty, d)
      [] OTHER -> Read(Bytes(d), <<>>)

\* TransportParameters::decode.  An unknown parameter is skipped, and one
\* that was there before is refused.
RECURSIVE DecodeFrom(_, _, _)
OfValue(role, k, v, rest, tps) ==
    IF ~v.ok \/ v.rest # <<>> \/ k \in DOMAIN tps THEN None ELSE DecodeFrom(role, rest, set(tps, k, v.v))
OfContent(role, ks, content, tps) ==
    IF ~content.ok THEN None
    ELSE IF ks = {} THEN DecodeFrom(role, content.rest, tps)
    ELSE LET k == CHOOSE x \in ks : TRUE
         IN OfValue(role, k, decode_value(role, k, content.v), content.rest, tps)
Identified(role, id, tps) ==
    IF id.ok THEN OfContent(role, {k \in Ids : Id[k] = id.v}, decode_vvec(id.rest), tps) ELSE None
DecodeFrom(role, d, tps) ==
    IF d = <<>> THEN Read(tps, <<>>) ELSE Identified(role, decode_varint(d), tps)

decode_all(role, d) == DecodeFrom(role, d, Unset)

-----------------------------------------------------------------------------
(* 0-RTT.                                                                  *)

NotFor0Rtt ==
    {"OriginalDestinationConnectionId", "InitialSourceConnectionId", "RetrySourceConnectionId",
     "StatelessResetToken", "IdleTimeout", "AckDelayExponent", "MaxAckDelay",
     "ActiveConnectionIdLimit", "PreferredAddress", "Scone"}

\* A variant that takes a parameter which is gone for one that is the same.
OkIfGone(now, remembered) ==
    \A k \in DOMAIN remembered \ NotFor0Rtt :
        k \in DOMAIN now =>
            CASE remembered[k].kind = "integer" -> now[k].n >= remembered[k].n
              [] OTHER -> TRUE

ok_for_0rtt(now, remembered) ==
    \A k \in DOMAIN remembered \ NotFor0Rtt :
        /\ k \in DOMAIN now
        /\ CASE remembered[k].kind = "integer" ->
                    IF k = "MinAckDelay" THEN now[k].n <= remembered[k].n
                    ELSE now[k].n >= remembered[k].n
             [] remembered[k].kind = "empty" -> TRUE
             [] remembered[k].kind = "versions" -> now[k].current = remembered[k].current
             [] OTHER -> FALSE

\* TpZeroRttChecker::check; the application's checker accepts.
check(now, token) ==
    LET tps == decode_vvec(token)
        remembered == IF tps.ok THEN decode_all("client", tps.v) ELSE None
    IN IF token = <<>> THEN "reject"
       ELSE IF ~remembered.ok THEN "fail"
       ELSE IF ok_for_0rtt(now, remembered.v) THEN "accept"
       ELSE "reject"

-----------------------------------------------------------------------------
local == create_transport_parameter("server", config)

Init ==
    /\ config \in Configs \union {ConnectionParameters} /\ ticket = None /\ issued = Unset /\ client = None
    /\ result = "none" /\ seen = None

\* A ticket carries the parameters of the server, and the client keeps them.
Issue ==
    /\ ~ticket.ok /\ ~seen.ok
    /\ ticket' = Read(encode_vvec_with(encode_filtered(local, retain_all)), <<>>)
    /\ issued' = local
    /\ UNCHANGED <<config, client, result, seen>>

Reconfigure ==
    /\ ticket.ok /\ ~client.ok
    /\ config' \in Configs \ {config}
    /\ UNCHANGED <<ticket, issued, client, result, seen>>

\* The client resumes with what it read in the handshake of the ticket, and
\* the server checks the token.
Resume ==
    /\ ticket.ok /\ ~client.ok
    /\ client' = decode_all("client", decode_vvec(ticket.v).v)
    /\ result' = check(local, ticket.v)
    /\ UNCHANGED <<config, ticket, issued, seen>>

\* A client's parameters arrive in a ClientHello, inner or outer, or a
\* peer's that this code would not have written.
Hello ==
    /\ ~seen.ok /\ ~ticket.ok
    /\ \E outer \in BOOLEAN :
        LET mine == create_transport_parameter("client", config)
            keep == IF outer THEN filter_ch_outer ELSE retain_all
        IN seen' = Read([sent |-> [k \in DOMAIN mine \intersect keep |-> mine[k]],
                         read |-> decode_all("server", encode_filtered(mine, keep))], <<>>)
    /\ UNCHANGED <<config, ticket, issued, client, result>>

Strange ==
    /\ ~seen.ok /\ ~ticket.ok
    /\ \E f \in Foreign :
        seen' = Read([sent |-> f.means, read |-> decode_all(f.role, f.bytes)], <<>>)
    /\ UNCHANGED <<config, ticket, issued, client, result>>

Next == Issue \/ Reconfigure \/ Resume \/ Hello \/ Strange

Spec == Init /\ [][Next]_vars

-----------------------------------------------------------------------------
(* Properties.                                                             *)

Limits == IntegerIds \ NotFor0Rtt

(***************************************************************************)
(* When the server accepts 0-RTT, every limit the client works with, set   *)
(* or by default, is one the server still grants, and every feature it may *)
(* use is one the server still has (ok_for_0rtt: "any value that is        *)
(* currently in effect is greater than or equal to the promised value").   *)
(* A server whose configuration is the same accepts.                       *)
(***************************************************************************)
PromisesKept ==
    client.ok =>
        /\ result = "accept" =>
            /\ \A k \in Limits \ {"MinAckDelay"} :
                get_integer(client.v, k) <= get_integer(local, k)
            /\ \A k \in {"ResetStreamAt", "GreaseQuicBit", "DisableMigration"} :
                k \in DOMAIN client.v => k \in DOMAIN local
        /\ issued = local => result = "accept"

(***************************************************************************)
(* What is read of the parameters is what was set: for those of this       *)
(* code's two roles, for those that the outer ClientHello keeps, and for   *)
(* the ticket; what another implementation may send is read as it is       *)
(* meant, or refused.                                                      *)
(***************************************************************************)
ParametersRoundTrip ==
    /\ client.ok => client.v = issued
    /\ seen.ok => (IF seen.v.sent = Unset THEN ~seen.v.read.ok
                   ELSE seen.v.read = Read(seen.v.sent, <<>>))
=============================================================================
