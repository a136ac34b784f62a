---------------------------- MODULE LossRecovery ----------------------------
(***************************************************************************)
(* recovery::Loss (recovery/mod.rs, recovery/sent.rs): tracking of sent    *)
(* packets in the packet number spaces, loss detection, probe timeouts,    *)
(* and what the congestion controller of the primary path is told.  Time   *)
(* is a counter; the RTT estimate is abstracted to the two delays that     *)
(* are computed from it, new values of which come with every sample.       *)
(***************************************************************************)
EXTENDS Congestion

CONSTANTS
    Live, Paths,             \* the spaces that exist initially, the paths
    PACKET_THRESHOLD, MAX_PTO_PACKET_COUNT,
    Rtts,                    \* the values of [loss_delay, pto]
    Kinds,                   \* the kinds of packets that are sent
    Signals,                 \* what an ACK may signal: nothing, ECN-CE, the end of slow start
    Rebinds,                 \* whether the peer's address may change
    MaxPackets,              \* bound: packets sent in each space
    MaxTime, MaxPtos         \* bounds: time, consecutive PTOs

VARIABLES
    now,
    spaces,          \* LossRecoverySpaces; a dropped one is <<>>
    next_pn,         \* the next packet number of each space
    pto_state, confirmed_time,
    cc, rtt,         \* of each path
    primary,         \* the primary path
    lost_count,      \* stats.lost
    acked, released, \* packets acknowledged, and packets whose frames were given back
    rebound          \* the primary path changed without Loss::migrate()

vars == <<now, spaces, next_pn, pto_state, confirmed_time, cc, rtt, primary, lost_count,
          acked, released, rebound>>

Spaces == {"Initial", "Handshake", "App"}
Dropped == <<>>
NoPto == <<>>
Exists(s) == spaces[s] # Dropped
confirmed == confirmed_time # None

\* Something for each space, and steps for the spaces in order.
PerSpace(Op(_)) == [Initial |-> Op("Initial"), Handshake |-> Op("Handshake"), App |-> Op("App")]
InOrder(Step(_, _), w) ==
    LET initial == Step(w, "Initial")
        handshake == Step(initial, "Handshake")
    IN  Step(handshake, "App")

-----------------------------------------------------------------------------
(* Packets and packet number spaces. *)

Kind == [data  |-> [ack_eliciting |-> TRUE,  padded |-> FALSE, pmtud_probe |-> FALSE, len |-> Mtu],
         small |-> [ack_eliciting |-> TRUE,  padded |-> FALSE, pmtud_probe |-> FALSE, len |-> 1],
         ack   |-> [ack_eliciting |-> FALSE, padded |-> FALSE, pmtud_probe |-> FALSE, len |-> 1],
         padded |-> [ack_eliciting |-> FALSE, padded |-> TRUE, pmtud_probe |-> FALSE, len |-> 1],
         probe |-> [ack_eliciting |-> TRUE,  padded |-> FALSE, pmtud_probe |-> TRUE,  len |-> Mtu]]

Packet(kind, pn, path) ==
    [pn |-> pn, ack_eliciting |-> Kind[kind].ack_eliciting, padded |-> Kind[kind].padded,
     pmtud_probe |-> Kind[kind].pmtud_probe, len |-> Kind[kind].len, time_sent |-> now,
     primary |-> path = primary, lost |-> None, pto |-> FALSE]

NewSpace == [largest_acked |-> None, largest_acked_sent |-> None, last_ack_eliciting |-> None,
             outstanding |-> 0, sent |-> <<>>, first_ooo |-> None]

Eliciting(p) == p.ack_eliciting
Elicits(packets) == Len(SelectSeq(packets, Eliciting))
Numbers(packets) == {p.pn : p \in ToSet(packets)}

\* Packets::track()
track(sent, p) == Append(sent, p)

\* Variant: a packet with nothing but ACK frames counts as outstanding.
SpaceSentAll(sp, s, p) == [sp EXCEPT !.sent = Append(@, p), !.outstanding = @ + 1, !.last_ack_eliciting = p.time_sent]
\* LossRecoverySpace::on_packet_sent()
SpaceSent(sp, s, p) ==
    [sp EXCEPT !.sent = track(@, p),
               !.outstanding = @ + (IF p.ack_eliciting THEN 1 ELSE 0),
               !.last_ack_eliciting = IF p.ack_eliciting \/ (s # "App" /\ @ = None) THEN p.time_sent ELSE @]

\* Variant: without the special case of handshakes.
pto_base_outstanding(sp, s) == IF sp.outstanding > 0 THEN sp.last_ack_eliciting ELSE None
pto_base_time(sp, s) == IF sp.outstanding > 0 \/ s # "App" THEN sp.last_ack_eliciting ELSE None

\* Variant: old packets are removed whether they were declared lost or not.
remove_old(sp, cd) ==
    LET Kept(p) == p.time_sent + cd > now
    IN  [sp EXCEPT !.sent = SelectSeq(@, Kept), !.outstanding = Elicits(SelectSeq(sp.sent, Kept))]
\* A packet that was declared lost long ago is no longer tracked.
expired(p, cd) == is_lost(p) /\ p.lost + cd <= now
remove_outstanding(sp, count) == [sp EXCEPT !.outstanding = @ - count]

\* remove_old_lost() and Packets::remove_expired()
remove_old_lost(sp, cd) ==
    LET Expired(p) == expired(p, cd)
        Kept(p) == ~Expired(p)
    IN  remove_outstanding([sp EXCEPT !.sent = SelectSeq(@, Kept)], Elicits(SelectSeq(sp.sent, Expired)))

\* take_ranges(): the tracked packets that the ranges of an ACK frame cover.
take_ranges(sent, pns) == LET IsAcked(p) == p.pn \in pns IN SelectSeq(sent, IsAcked)

\* remove_acked(): they are no longer tracked.
remove_acked(sp, pns) ==
    LET Remains(p) == p.pn \notin pns
    IN  remove_outstanding([sp EXCEPT !.sent = SelectSeq(@, Remains)], Elicits(take_ranges(sp.sent, pns)))

declare_lost(p) == IF is_lost(p) THEN p ELSE [p EXCEPT !.lost = now]

\* detect_lost_packets(): [sp, lost].  The walk stops at the first packet that is
\* neither old enough nor far enough behind the largest acknowledged.
detect_lost_packets(space, loss_delay, cd) ==
    LET sp == remove_old_lost(space, cd)
        Late(p) == p.time_sent + loss_delay <= now \/ sp.largest_acked >= p.pn + PACKET_THRESHOLD
        waiting == {i \in DOMAIN sp.sent : sp.sent[i].pn < sp.largest_acked /\ ~Late(sp.sent[i])}
        Stops(i) == sp.sent[i].pn >= sp.largest_acked \/ ~Late(sp.sent[i])
        end == Min({i \in DOMAIN sp.sent : Stops(i)} \cup {Len(sp.sent) + 1})
        New(p) == ~is_lost(p)
        newly == SelectSeq(SubSeq(sp.sent, 1, end - 1), New)
    IN  [sp |-> [sp EXCEPT !.first_ooo = IF end \in waiting THEN sp.sent[end].time_sent ELSE None,
                           !.sent = [i \in DOMAIN @ |-> IF i < end THEN declare_lost(@[i]) ELSE @[i]]],
         lost |-> newly]

-----------------------------------------------------------------------------
(* Timers. *)

\* pto_period(): exponential backoff.
pto_period_inner(r, count) == r.pto * 2 ^ count
pto_period(r, state) == pto_period_inner(r, IF state = NoPto THEN 0 ELSE state.count)

\* pto_time() of a space, None when the timer is not armed.
pto_time(sp, s, r, state) ==
    LET base == IF sp = Dropped THEN None ELSE pto_base_time(sp, s)
    IN  IF base = None THEN None ELSE base + pto_period(r, state)

Earliest(times) == LET set == times \ {None} IN IF set = {} THEN None ELSE Min(set)

earliest_loss_time ==
    LET first == Earliest({spaces[s].first_ooo : s \in {s \in Spaces : Exists(s)}})
    IN  IF first = None THEN None ELSE first + rtt[primary].loss_delay

earliest_pto ==
    Earliest({pto_time(spaces[s], s, rtt[primary], pto_state) :
                 s \in (IF confirmed THEN {"App"} ELSE {"Initial", "Handshake"})})

next_timeout == Earliest({earliest_loss_time, earliest_pto})

Before(s, t) == t = "App" \/ (t = "Handshake" /\ s = "Initial")

\* PtoState::new(), PtoState::pto() and fire_pto()
new_pto_state(s, probes) == [space |-> s, count |-> 1, packets |-> MAX_PTO_PACKET_COUNT, probe |-> probes]
pto_again(state, s, probes) ==
    [space |-> IF Before(s, state.space) THEN s ELSE state.space, count |-> state.count + 1,
     packets |-> MAX_PTO_PACKET_COUNT, probe |-> state.probe \cup probes]
fire_pto(state, s, probes) ==
    IF state = NoPto THEN new_pto_state(s, probes) ELSE pto_again(state, s, probes)

pto_sent(state, s) ==
    IF state # NoPto /\ state.packets < MAX_PTO_PACKET_COUNT /\ s # "App"
    THEN [state EXCEPT !.probe = @ \ {s}] ELSE state

-----------------------------------------------------------------------------
(* Sending: send_profile() and on_packet_sent(). *)

\* SendProfile: the spaces to probe and whether only ACK frames fit.
SendProfile(probe, ack_only) == [probe |-> probe, ack_only |-> ack_only]
new_limited(limit) == SendProfile({}, limit < Mtu)
new_paced == SendProfile({}, TRUE)
new_pto(probe) == SendProfile(probe, FALSE)

\* The profiles the sender may be given and the PTO state after: probes that are
\* left to send come first.  Pacing is the pacer's choice.
PtoProfile(state) == <<[state EXCEPT !.packets = @ - 1], new_pto(state.probe)>>
send_profile(path) ==
    LET limit == cwnd_avail(cc[path])
    IN  IF pto_state # NoPto /\ pto_state.packets > 0 THEN {PtoProfile(pto_state)}
        ELSE {pto_state} \X (IF limit > Mtu
                             THEN {new_limited(limit)} \cup {new_paced : b \in {b \in {cc[path].bif} : b > 0}}
                             ELSE IF cc[path].current.phase = "RecoveryStart" THEN {new_pto(Spaces)}
                             ELSE {new_limited(limit)})

\* Loss::on_packet_sent() for one packet of a datagram, w = [spaces, state, c].
on_packet_sent(w, s, kind, path) ==
    LET p == Packet(kind, next_pn[s], path)
    IN  [spaces |-> [w.spaces EXCEPT ![s] = SpaceSent(@, s, p)],
         state |-> pto_sent(w.state, s),
         c |-> cc_on_packet_sent(w.c, p)]

\* The packets of a datagram: at most one for each space.  An Initial packet is
\* recorded last, when its padding is known.
Datagrams == [Live -> Kinds \cup {"none"}]
Holds(d, s) == s \in Live /\ d[s] # "none"

\* The frames of a probe elicit an acknowledgment, in every space with keys: a
\* space that was used has them.  Datagrams with an Initial packet are padded.
Permitted(d, profile, path) ==
    /\ \E s \in Live : d[s] # "none"
    /\ Exists("Initial") /\ next_pn["Initial"] = 0 => Holds(d, "Initial")
    /\ \A s \in Live : d[s] # "none" => Exists(s) /\ next_pn[s] < MaxPackets[s]
    /\ (\E s \in Live : d[s] = "padded") => Holds(d, "Initial")
    /\ profile.ack_only => \A s \in Live : d[s] \in {"none", "ack"}
    /\ path = primary => \A s \in profile.probe :
           Exists(s) /\ next_pn[s] > 0 => d[s] # "none" /\ Kind[d[s]].ack_eliciting
    /\ InOrder(LAMBDA n, s : IF Holds(d, s) THEN n + Kind[d[s]].len ELSE n, 0) <= Mtu

Output(path, d) ==
    \E sending \in send_profile(path) :
        LET Put(v, s) == IF Holds(d, s) THEN on_packet_sent(v, s, d[s], path) ELSE v
            v0 == [spaces |-> spaces, state |-> sending[1], c |-> cc[path]]
            v1 == Put(v0, "Handshake")
            v2 == Put(v1, "App")
            w == Put(v2, "Initial")
        IN  /\ Permitted(d, sending[2], path)
            /\ spaces' = w.spaces /\ pto_state' = w.state
            /\ cc' = [cc EXCEPT ![path] = w.c]
            /\ next_pn' = [s \in Spaces |-> IF Holds(d, s) THEN next_pn[s] + 1 ELSE next_pn[s]]
            /\ UNCHANGED <<now, confirmed_time, rtt, primary, lost_count, acked, released, rebound>>

-----------------------------------------------------------------------------
(* Acknowledgment and loss. *)

\* RttEstimate::update(): new delays.
Sampled(r, new) ==
    [loss_delay |-> new.loss_delay, pto |-> new.pto,
     first_sample |-> IF r.first_sample = None THEN now ELSE r.first_sample]

\* rtt_sample()
rtt_sample(r, send_time, new) == IF now >= send_time THEN Sampled(r, new) ELSE r

LargestAckedSent(s) == IF Exists(s) THEN spaces[s].largest_acked_sent ELSE None
LostOn(c, s, lost, r, prev_acked_sent) ==
    cc_on_packets_lost(c, s, lost, r.first_sample, prev_acked_sent, r.pto, next_pn[s])

\* on_ack_received(): an ACK frame that covers the tracked packets pns.
on_ack_received(s, pns, new, signal) ==
    pns # {} /\
    LET sp == spaces[s]
        pkts == take_ranges(sp.sent, pns)
        largest == Last(pkts)
        advances == largest.pn > sp.largest_acked
        r == IF advances /\ Elicits(pkts) > 0 /\ largest.primary
             THEN rtt_sample(rtt[primary], largest.time_sent, new) ELSE rtt[primary]
        sp1 == [remove_acked(sp, pns) EXCEPT !.largest_acked = IF advances THEN largest.pn ELSE @,
                                             !.largest_acked_sent = IF advances THEN largest.time_sent ELSE @]
    IN  \E d \in {detect_lost_packets(sp1, r.loss_delay, pto_period(r, pto_state))} :
        LET c1 == LostOn(cc[primary], s, d.lost, r, sp.largest_acked_sent)
            c2 == IF signal = "ce" THEN on_congestion_event(c1, largest, TRUE, next_pn[s]) ELSE c1
        IN
        /\ spaces' = [spaces EXCEPT ![s] = d.sp]
        /\ rtt' = [rtt EXCEPT ![primary] = r]
        /\ cc' = [cc EXCEPT ![primary] = cc_on_packets_acked(c2, s, pkts, now, r.pto, signal = "exit")]
        /\ pto_state' = NoPto
        /\ lost_count' = lost_count - Len(SelectSeq(pkts, is_lost)) + Len(d.lost)
        /\ acked' = [acked EXCEPT ![s] = @ \cup pns]
        /\ released' = [released EXCEPT ![s] = @ \cup Numbers(d.lost)]
        /\ UNCHANGED <<now, next_pn, confirmed_time, primary, rebound>>

\* Loss detection in one space, for timeout().
DetectIn(s) ==
    IF Exists(s) THEN detect_lost_packets(spaces[s], rtt[primary].loss_delay, pto_period(rtt[primary], pto_state))
    ELSE [sp |-> Dropped, lost |-> <<>>]

\* Packet::pto() succeeds once, and never for a packet that was declared lost.
may_pto(p) == ~p.pto /\ ~is_lost(p)

\* The packets of one space a PTO releases, w = [spaces, size, out]: as many as
\* fit two datagrams.  The packet that did not fit was marked all the same.
PtoPackets(w, s) ==
    LET sent == w.spaces[s].sent
        Fresh(i) == may_pto(sent[i])
        fresh == SelectSeq([i \in DOMAIN sent |-> i], Fresh)
        Size(k) == w.size + Length([j \in 1 .. k |-> sent[fresh[j]]])
        fits == {k \in DOMAIN fresh : Size(k) <= MAX_PTO_PACKET_COUNT * Mtu}
        taken == {fresh[k] : k \in fits}
        examined == Min({Cardinality(fits) + 1, Len(fresh)})
        marked == {fresh[k] : k \in 1 .. examined}
    IN  IF w.spaces[s] = Dropped THEN w
        ELSE [spaces |-> [w.spaces EXCEPT ![s].sent =
                             [i \in DOMAIN @ |-> [@[i] EXCEPT !.pto = @ \/ i \in marked]]],
              size |-> Size(examined),
              out |-> [w.out EXCEPT ![s] = @ \cup {sent[i].pn : i \in taken}]]

\* maybe_prime_handshake_pto()
Primed(sps, state, has_handshake_keys) ==
    IF /\ has_handshake_keys /\ state.space = "Initial"
       /\ sps["Initial"] # Dropped /\ sps["Initial"].largest_acked # None
       /\ sps["Handshake"] # Dropped
       /\ sps["Handshake"].last_ack_eliciting = None /\ sps["Handshake"].largest_acked = None
    THEN [sps EXCEPT !["Handshake"].last_ack_eliciting = now] ELSE sps

\* maybe_fire_pto(): [spaces, state, out]
maybe_fire_pto(sps, has_handshake_keys) ==
    LET Time(s) == pto_time(sps[s], s, rtt[primary], pto_state)
        armed == {s \in Spaces : Time(s) # None}
        due == {s \in armed : Time(s) <= now}
        retransmit == due \cup (IF "Handshake" \in due THEN {"Initial"} ELSE {})
        first == CHOOSE s \in due : \A u \in due : u = s \/ Before(s, u)
        w == InOrder(LAMBDA v, s : IF s \in retransmit THEN PtoPackets(v, s) ELSE v,
                     [spaces |-> sps, size |-> 0, out |-> [s \in Spaces |-> {}]])
        state == fire_pto(pto_state, first, armed)
    IN  IF due = {} THEN [spaces |-> sps, state |-> pto_state, out |-> [s \in Spaces |-> {}]]
        ELSE [spaces |-> IF first = "Initial" THEN Primed(w.spaces, state, has_handshake_keys) ELSE w.spaces,
              state |-> state, out |-> w.out]

timeout(has_handshake_keys) ==
    \E d \in {PerSpace(DetectIn)} :
    \E f \in {maybe_fire_pto(PerSpace(LAMBDA s : d[s].sp), has_handshake_keys)} :
        /\ next_pn["Handshake"] > 0 => has_handshake_keys
        /\ f.state # NoPto => f.state.count <= MaxPtos
        /\ spaces' = f.spaces /\ pto_state' = f.state
        /\ cc' = [cc EXCEPT ![primary] =
                     InOrder(LAMBDA c, s : LostOn(c, s, d[s].lost, rtt[primary], LargestAckedSent(s)), @)]
        /\ lost_count' = InOrder(LAMBDA n, s : n + Len(d[s].lost), lost_count)
        /\ released' = [s \in Spaces |-> released[s] \cup Numbers(d[s].lost) \cup f.out[s]]
        /\ UNCHANGED <<now, next_pn, confirmed_time, rtt, primary, acked, rebound>>

-----------------------------------------------------------------------------
(* Packets that are forgotten together: Retry, rejected 0-RTT, and keys that *)
(* are discarded.                                                            *)

Outstanding(s) == IF Exists(s) THEN Length(SelectSeq(spaces[s].sent, cc_outstanding)) ELSE 0

\* The bytes that discard() asserts are in flight.
Covered(set) == InOrder(LAMBDA n, s : IF s \in set THEN n + Outstanding(s) ELSE n, 0) <= cc[primary].bif

\* Path::discard_packet() for all packets of the spaces of set.
discard_packets(set, new) ==
    LET pkts == InOrder(LAMBDA q, s : IF s \in set THEN q \o spaces[s].sent ELSE q, <<>>)
        r == rtt[primary]
    IN  /\ Covered(set)
        /\ cc' = [cc EXCEPT ![primary] = cc_discard(@, pkts)]
        /\ rtt' = IF pkts # <<>> /\ r.first_sample = None THEN [rtt EXCEPT ![primary] = Sampled(r, new)]
                  ELSE rtt

\* remove_ignored()
Ignored(sp) == [sp EXCEPT !.sent = <<>>, !.outstanding = 0]
Flushed(set) == released' = [s \in Spaces |-> IF s \in set THEN released[s] \cup Numbers(spaces[s].sent)
                                             ELSE released[s]]

\* A Retry comes before anything else from the server.
retry(new) ==
    /\ Live = Spaces /\ \A s \in Spaces : Exists(s) /\ spaces[s].largest_acked = None
    /\ next_pn["Handshake"] = 0
    /\ discard_packets(Spaces, new)
    /\ spaces' = [s \in Spaces |-> Ignored(spaces[s])]
    /\ pto_state' = NoPto
    /\ Flushed(Spaces)
    /\ UNCHANGED <<now, next_pn, confirmed_time, primary, lost_count, acked, rebound>>

drop_0rtt(new) ==
    /\ Exists("Handshake") /\ spaces["App"].largest_acked = None
    /\ discard_packets({"App"}, new)
    /\ spaces' = [spaces EXCEPT !["App"] = Ignored(@)]
    /\ Flushed({"App"})
    /\ UNCHANGED <<now, next_pn, pto_state, confirmed_time, primary, lost_count, acked, rebound>>

\* LossRecoverySpaces::drop_space()
drop_space(s) == s # "App" /\ Exists(s) /\ spaces' = [spaces EXCEPT ![s] = Dropped]

\* discard(): Initial goes when Handshake packets are sent or arrive, Handshake
\* when the handshake is confirmed; then the PTO of App may be overdue.
discard(s, new) ==
    LET late == pto_time(spaces["App"], "App", rtt'[primary], NoPto)
    IN  /\ drop_space(s)
        /\ next_pn["Handshake"] > 0 /\ (s = "Handshake" => ~Exists("Initial"))
        /\ discard_packets({s}, new)
        /\ pto_state' = IF s = "Handshake" /\ late # None /\ late < now
                        THEN fire_pto(NoPto, "App", {"App"}) ELSE NoPto
        /\ confirmed_time' = IF s = "Handshake" THEN now ELSE confirmed_time
        /\ UNCHANGED <<now, next_pn, primary, lost_count, acked, released, rebound>>

-----------------------------------------------------------------------------
(* A new primary path. *)

\* Paths::select_primary(): the old path forgets its bytes in flight.
select_primary(path) ==
    /\ path # primary /\ primary' = path
    /\ cc' = [cc EXCEPT ![primary] = discard_in_flight(@)]

\* Variant: packets stay on the primary path.
StaysOnPath(sp) == sp
OffPath(sp) == IF sp = Dropped THEN sp
               ELSE [sp EXCEPT !.sent = [i \in DOMAIN @ |-> [@[i] EXCEPT !.primary = FALSE]]]

\* Connection::migrate(): a client that is confirmed moves, and Loss::migrate().
migrate(path) ==
    /\ confirmed
    /\ select_primary(path)
    /\ spaces' = [s \in Spaces |-> OffPath(spaces[s])]
    /\ UNCHANGED <<now, next_pn, pto_state, confirmed_time, rtt, lost_count, acked, released, rebound>>

\* Connection::handle_migration(): a server follows its client to a new path, and
\* Paths::process_timeout() falls back to another path when the primary fails.
Rebind(path) ==
    /\ Rebinds /\ ~Exists("Initial")
    /\ select_primary(path)
    /\ rebound' = TRUE
    /\ UNCHANGED <<now, spaces, next_pn, pto_state, confirmed_time, rtt, lost_count, acked, released>>

Tick == /\ now < MaxTime /\ now' = now + 1
        /\ UNCHANGED <<spaces, next_pn, pto_state, confirmed_time, cc, rtt, primary, lost_count,
                       acked, released, rebound>>

\* RttEstimate::new()
NewRtt(r) == [loss_delay |-> r.loss_delay, pto |-> r.pto, first_sample |-> None]

Init ==
    /\ now = 0
    /\ spaces = [s \in Spaces |-> IF s \in Live THEN NewSpace ELSE Dropped]
    /\ next_pn = [s \in Spaces |-> 0] /\ pto_state = NoPto
    /\ confirmed_time = IF "Handshake" \in Live THEN None ELSE 0
    /\ cc = [p \in Paths |-> NewController]
    /\ \E r \in Rtts : rtt = [p \in Paths |-> NewRtt(r)]
    /\ primary = 1 /\ lost_count = 0 /\ rebound = FALSE
    /\ acked = [s \in Spaces |-> {}] /\ released = [s \in Spaces |-> {}]

Next ==
    \/ Tick
    \/ \E path \in Paths, d \in Datagrams : Output(path, d)
    \/ \E s \in Spaces : Exists(s) /\ \E pns \in SUBSET Numbers(spaces[s].sent) :
          \E new \in Rtts, signal \in Signals : on_ack_received(s, pns, new, signal)
    \/ \E keys \in BOOLEAN : timeout(keys)
    \/ \E new \in Rtts : retry(new) \/ drop_0rtt(new) \/ discard("Initial", new) \/ discard("Handshake", new)
    \/ \E path \in Paths : migrate(path) \/ Rebind(path)

Spec == Init /\ [][Next]_vars

-----------------------------------------------------------------------------
(* Properties *)

Tracked(s) == IF Exists(s) THEN spaces[s].sent ELSE <<>>
InFlight == InOrder(LAMBDA n, s : n + Outstanding(s), 0)

\* The counters never leave their range (lost is decremented for every late
\* acknowledgment), and the congestion window is at least two datagrams.
TypeOK ==
    /\ lost_count \in Nat
    /\ \A p \in Paths : cc[p].bif \in Nat /\ cc[p].current.cwnd >= cwnd_min
    /\ pto_state # NoPto => pto_state.space \in Spaces /\ pto_state.packets \in 0 .. MAX_PTO_PACKET_COUNT

\* in_flight_outstanding, from which the PTO timer is armed, is the number of
\* ack-eliciting packets that are tracked; packets are sorted, and the ones that
\* were declared lost come first, the earliest declared foremost, which is what
\* remove_expired's binary search presupposes.
TrackingConsistent ==
    \A s \in Spaces :
        LET sent == Tracked(s)
        IN  /\ Exists(s) => spaces[s].outstanding = Elicits(sent)
            /\ \A i, j \in DOMAIN sent : i < j =>
                  /\ sent[i].pn < sent[j].pn
                  /\ is_lost(sent[j]) => is_lost(sent[i]) /\ sent[i].lost <= sent[j].lost

\* bytes_in_flight is what the packets in flight add up to: congestion control
\* never reserves room for packets that are gone, nor forgets one that is not.
BytesAccounted ==
    /\ cc[primary].bif <= InFlight
    /\ ~rebound => cc[primary].bif = InFlight
    /\ \A p \in Paths : p # primary => cc[p].bif = 0

\* A packet stops being tracked only when it was acknowledged, when its frames
\* were given back to be sent again, or with the keys of its space.
NothingLost ==
    \A s \in Spaces : Exists(s) =>
        0 .. (next_pn[s] - 1) = Numbers(Tracked(s)) \cup acked[s] \cup released[s]

\* While anything that needs an acknowledgment is in flight a timer is armed,
\* whichever spaces are left and however far the handshake is.
TimerArmed == (\E s \in Spaces : Exists(s) /\ spaces[s].outstanding > 0) => next_timeout # None

\* The window is reduced once for all packets sent before the last reduction.
OneReduction ==
    \A p \in Paths : cc'[p].current.event > cc[p].current.event =>
                        cc'[p].current.event >= cc[p].current.cut
=============================================================================
