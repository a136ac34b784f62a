----------------------------- MODULE Congestion -----------------------------
(***************************************************************************)
(* ClassicCongestionController (cc/classic_cc.rs) with NewReno's window     *)
(* adjustment: bytes in flight, the congestion window, recovery periods,   *)
(* persistent congestion and the undoing of spurious congestion events.    *)
(* One record per path; every operation maps a record to the next one.     *)
(***************************************************************************)
EXTENDS Integers, FiniteSets, FiniteSetsExt, SequencesExt

CONSTANTS
    Mtu,                 \* max_datagram_size(), in units of length
    InitialCwnd,         \* cwnd_initial()
    PACING_BURST_SIZE,
    PERSISTENT_CONG_THRESH,
    SpuriousRecovery     \* the spurious_recovery parameter

None == -1
SatSub(a, b) == IF a >= b THEN a - b ELSE 0
cwnd_min == 2 * Mtu

\* What the controller asks of a packet (recovery/sent.rs).
is_lost(p) == p.lost # None
cc_in_flight(p) == (p.ack_eliciting \/ p.padded) /\ p.primary
cc_outstanding(p) == cc_in_flight(p) /\ ~is_lost(p)
Length(packets) ==
    LET sum[i \in 0 .. Len(packets)] == IF i = 0 THEN 0 ELSE sum[i - 1] + packets[i].len
    IN  sum[Len(packets)]

\* State, which `stored` keeps a copy of.  event and cut only serve a property:
\* the packet that caused the last congestion event and the first packet number
\* that was unused then.
NewState == [phase |-> "SlowStart", cwnd |-> InitialCwnd, acked_bytes |-> 0, ssthresh |-> None,
             recovery_start |-> None, event |-> None, cut |-> 0]

NewController == [bif |-> 0, current |-> NewState, stored |-> <<>>, maybe_lost |-> {},
                  first_app_limited |-> None]

-----------------------------------------------------------------------------

Transient(s) == s.phase \in {"RecoveryStart", "PersistentCongestion"}
InRecovery(s) == s.phase \in {"RecoveryStart", "Recovery"}

\* Phase::update()
Settled(s, pn) ==
    IF Transient(s)
    THEN [s EXCEPT !.recovery_start = pn,
                   !.phase = IF @ = "RecoveryStart" THEN "Recovery" ELSE "SlowStart"]
    ELSE s

\* Variant: a reduction that no packet was sent after does not count.
after_recovery_point(s, p) == s.recovery_start = None \/ p.pn >= s.recovery_start
after_recovery_start(s, p) == ~Transient(s) /\ (s.recovery_start = None \/ p.pn >= s.recovery_start)

app_limited(bif, s) ==
    /\ bif < s.cwnd
    /\ IF s.phase = "SlowStart" THEN bif < s.cwnd \div 2
       ELSE bif + Mtu * PACING_BURST_SIZE < s.cwnd

cwnd_avail(c) == SatSub(c.current.cwnd, c.bif)

cc_on_packet_sent(c, p) ==
    LET s == Settled(c.current, p.pn)
        bif == c.bif + p.len
    IN  IF ~cc_in_flight(p) THEN [c EXCEPT !.current = s]
        ELSE [c EXCEPT !.current = s, !.bif = bif,
                       !.first_app_limited = IF app_limited(bif, s) THEN @ ELSE p.pn + 1]

\* on_congestion_event() with NewReno::reduce_cwnd; next is the first unused
\* packet number.
on_congestion_event(c, p, ecn, next) ==
    LET cwnd == Max({c.current.cwnd \div 2, cwnd_min})
    IN  IF ~after_recovery_start(c.current, p) THEN c
        ELSE [c EXCEPT !.stored = IF ecn THEN @ ELSE <<c.current>>,
                       !.current = [@ EXCEPT !.phase = "RecoveryStart", !.cwnd = cwnd, !.ssthresh = cwnd,
                                             !.acked_bytes = @ \div 2, !.event = p.pn, !.cut = next]]

\* The lost packets that follow each other without a gap between i and j.
Contiguous(lost, i, j) == \A k \in i .. (j - 1) : lost[k + 1].pn = lost[k].pn + 1

\* detect_persistent_congestion(): two packets sent more than the period apart
\* with nothing between them that was not lost.
persistent_congestion(lost, first_sample, prev_acked_sent, pto) ==
    LET from == Max({first_sample, prev_acked_sent})
        Counts(p) == p.ack_eliciting /\ p.primary /\ p.time_sent >= from
    IN  /\ first_sample # None
        /\ \E i, j \in DOMAIN lost :
              /\ i < j /\ Counts(lost[i]) /\ Counts(lost[j]) /\ Contiguous(lost, i, j)
              /\ lost[j].time_sent - lost[i].time_sent > PERSISTENT_CONG_THRESH * pto

detect_persistent_congestion(c, lost, first_sample, prev_acked_sent, pto) ==
    IF ~persistent_congestion(lost, first_sample, prev_acked_sent, pto) THEN c
    ELSE [c EXCEPT !.current.cwnd = cwnd_min, !.current.acked_bytes = 0,
                   !.current.phase = "PersistentCongestion"]

cc_on_packets_lost(c, space, lost, first_sample, prev_acked_sent, pto, next) ==
    LET in_flight == SelectSeq(lost, cc_in_flight)
        IsData(p) == ~p.pmtud_probe
        reacting == SelectSeq(in_flight, IsData)
        gone == [c EXCEPT !.bif = SatSub(@, Length(in_flight)),
                          !.maybe_lost = @ \cup {[space |-> space, pn |-> p.pn, time_sent |-> p.time_sent] :
                                                    p \in ToSet(reacting)}]
    IN  IF lost = <<>> THEN c
        ELSE IF reacting = <<>> THEN gone
        ELSE detect_persistent_congestion(on_congestion_event(gone, Last(reacting), FALSE, next),
                                          SelectSeq(lost, IsData), first_sample, prev_acked_sent, pto)

-----------------------------------------------------------------------------

on_spurious_congestion_event(c) ==
    IF c.stored = <<>> THEN c
    ELSE [c EXCEPT !.stored = <<>>,
                   !.current = IF SpuriousRecovery /\ c.stored[1].cwnd > @.cwnd THEN c.stored[1] ELSE @]

\* cleanup_maybe_lost_packets() and detect_spurious_congestion_event().
detect_spurious(c, space, acked, now, pto) ==
    LET recent == {m \in c.maybe_lost : now - m.time_sent <= 2 * pto}
        left == {m \in recent : ~\E p \in ToSet(acked) : m.space = space /\ m.pn = p.pn}
        after == [c EXCEPT !.maybe_lost = left]
    IN  IF recent # {} /\ left = {} THEN on_spurious_congestion_event(after) ELSE after

\* Slow start up to ssthresh; a heuristic may end it at the present window.
SlowStart(s, new_acked, exit) ==
    IF s.ssthresh # None /\ s.cwnd >= s.ssthresh THEN s
    ELSE IF exit THEN [s EXCEPT !.ssthresh = s.cwnd, !.phase = "CongestionAvoidance"]
    ELSE IF s.ssthresh # None /\ s.cwnd + new_acked >= s.ssthresh
    THEN [s EXCEPT !.cwnd = s.ssthresh, !.phase = "CongestionAvoidance"]
    ELSE [s EXCEPT !.cwnd = @ + new_acked]

\* Congestion avoidance; NewReno's bytes_for_cwnd_increase is the window.
Avoidance(s, new_acked) ==
    LET acked == Min({s.acked_bytes, s.cwnd}) + new_acked
    IN  IF s.ssthresh = None \/ s.cwnd < s.ssthresh THEN s
        ELSE [s EXCEPT !.acked_bytes = acked % s.cwnd, !.cwnd = @ + (acked \div s.cwnd) * Mtu]

cc_on_packets_acked(c, space, acked, now, pto, exit) ==
    LET c1 == detect_spurious(c, space, acked, now, pto)
        outstanding == SelectSeq(acked, cc_outstanding)
        After(p) == after_recovery_start(c1.current, p)
        counted == SelectSeq(outstanding, After)
        new_acked == Length(counted)
        utilised == \E p \in ToSet(outstanding) : p.pn < c1.first_app_limited
        s == IF counted # <<>> /\ InRecovery(c1.current)
             THEN [c1.current EXCEPT !.phase = "CongestionAvoidance"] ELSE c1.current
    IN  [c1 EXCEPT !.bif = SatSub(@, Length(outstanding)),
                   !.current = IF utilised THEN Avoidance(SlowStart(s, new_acked, exit), new_acked) ELSE s]

\* discard() of several packets; it asserts that their bytes are in flight.
cc_discard(c, packets) == [c EXCEPT !.bif = @ - Length(SelectSeq(packets, cc_outstanding))]

discard_in_flight(c) == [c EXCEPT !.bif = 0]
=============================================================================
