---------------------------- MODULE CcAlgorithms ----------------------------
(***************************************************************************)
(* The algorithms a ClassicCongestionController is put together from       *)
(* (neqo-transport cc/): how slow start ends, with HyStart++ (hystart.rs)  *)
(* or SEARCH (search.rs) or not before a loss, and how the window moves    *)
(* afterwards, with CUBIC (cubic.rs) or NewReno (new_reno.rs).  The        *)
(* controller around them is the one of module Congestion, reduced to one  *)
(* packet number space and to packets of one size; here the numbers are    *)
(* what matters.                                                           *)
(*                                                                         *)
(* Time is in seconds for CUBIC; the floating point of the code is integer *)
(* arithmetic that drops fractions of a byte, and of a second for K.       *)
(***************************************************************************)
EXTENDS Integers, Sequences, FiniteSets, FiniteSetsExt, SequencesExt

CONSTANTS
    Kinds,              \* slow start algorithms: "classic", "hystart", "threshold" (HyStart
                        \* with the baseline of EntryThreshold), "search", with CUBIC; and
                        \* "reno", the classic one with NewReno
    Mtu, InitialPkts,
    PACING_BURST_SIZE,
    N_RTT_SAMPLE, CSS_ROUNDS, CSS_GROWTH_DIVISOR, MIN_RTT_THRESH, MAX_RTT_THRESH,
    W, EXTRA_BINS, WINDOW_SIZE_FACTOR, THRESH,
    Rtts(_),            \* the round-trip times that are measured, by algorithm
    Steps(_),           \* by how much time may pass at once
    Bounds(_)           \* [pn, time, losses]: how far a behaviour goes, by algorithm

VARIABLES
    ss,         \* the slow start algorithm
    cubic,      \* Cubic: current and stored
    cc,         \* State of the controller
    undo,       \* its copy, as a sequence of at most one
    maybe_lost, \* packets that were declared lost
    limited,    \* first_app_limited
    flight,     \* packet numbers in flight, in order
    next, now, losses

vars == <<ss, cubic, cc, undo, maybe_lost, limited, flight, next, now, losses>>

None == -1
SCALE == 100
MIN_RTT_DIVISOR == 8
cwnd_min == 2 * Mtu
SatSub(a, b) == IF a > b THEN a - b ELSE 0
Between(a, x, b) == IF x < a THEN a ELSE IF x > b THEN b ELSE x

-----------------------------------------------------------------------------
(* HyStart++.  A step returns [s, exit].                                   *)

\* log only serves a property: the rounds that ended since CSS was entered.
NewHyStart(kind) ==
    [kind |-> kind, last |-> None, current |-> None, samples |-> 0, window_end |-> None,
     baseline |-> None, css_rounds |-> 0, log |-> <<>>]

in_css(s) == s.baseline # None
enough_samples(s) == s.samples >= N_RTT_SAMPLE

hystart_on_packet_sent(s, pn) ==
    [s EXCEPT !.window_end = IF @ = None THEN pn ELSE @]

collect_rtt_sample(s, rtt) ==
    [s EXCEPT !.current = IF @ = None THEN rtt ELSE Min({@, rtt}), !.samples = @ + 1]

start_next_round(s) ==
    [s EXCEPT !.window_end = None, !.last = s.current, !.current = None, !.samples = 0]

rtt_thresh(last) == Max({MIN_RTT_THRESH, Min({last \div MIN_RTT_DIVISOR, MAX_RTT_THRESH})})

\* A variant that counts on from the rounds of an earlier stay in CSS.
CssResumed(s) ==
    IF /\ ~in_css(s) /\ enough_samples(s) /\ s.last # None
       /\ s.current >= s.last + rtt_thresh(s.last)
    THEN [s EXCEPT !.samples = 0, !.log = <<>>,
                   !.baseline = IF s.kind = "threshold" THEN s.last + rtt_thresh(s.last) ELSE s.current]
    ELSE IF in_css(s) /\ enough_samples(s) /\ s.current < s.baseline
    THEN [s EXCEPT !.baseline = None, !.log = <<>>]
    ELSE s

\* Entering conservative slow start, and leaving it as spurious.
Css(s) ==
    IF /\ ~in_css(s) /\ enough_samples(s) /\ s.last # None
       /\ s.current >= s.last + rtt_thresh(s.last)
    THEN [s EXCEPT !.samples = 0, !.log = <<>>,
                   !.baseline = IF s.kind = "threshold" THEN s.last + rtt_thresh(s.last) ELSE s.current]
    ELSE IF in_css(s) /\ enough_samples(s) /\ s.current < s.baseline
    THEN [s EXCEPT !.baseline = None, !.css_rounds = 0, !.log = <<>>]
    ELSE s

hystart_on_packets_acked(s, rtt, largest) ==
    LET s1 == Css(collect_rtt_sample(s, rtt))
        s2 == start_next_round(s1)
        round == [end |-> s1.window_end, acked |-> largest, min |-> s1.current, n |-> s1.samples]
        s3 == [s2 EXCEPT !.css_rounds = @ + 1, !.log = Append(@, round)]
    IN IF s1.window_end = None \/ largest < s1.window_end THEN [s |-> s1, exit |-> FALSE]
       ELSE IF ~in_css(s2) THEN [s |-> s2, exit |-> FALSE]
       ELSE [s |-> s3, exit |-> s3.css_rounds >= CSS_ROUNDS]

-----------------------------------------------------------------------------
(* SEARCH.                                                                 *)

NUM_ACKED_BINS == W + 1
NUM_SENT_BINS == NUM_ACKED_BINS + EXTRA_BINS

\* hist only serves a property: the counters at the end of every bin.
NewSearch ==
    [kind |-> "search", acked_bins |-> [i \in 0..NUM_ACKED_BINS - 1 |-> 0],
     sent_bins |-> [i \in 0..NUM_SENT_BINS - 1 |-> 0], idx |-> None, bin_end |-> None,
     bin_duration |-> 0, acked |-> 0, sent |-> 0, hist |-> <<>>]

search_reset(s) == [s EXCEPT !.idx = None, !.acked = 0, !.sent = 0]

initialize(s, rtt) ==
    LET d == ((rtt * WINDOW_SIZE_FACTOR) \div SCALE) \div W
    IN [s EXCEPT !.bin_duration = d, !.bin_end = now + d, !.idx = 0,
                 !.acked_bins[0] = s.acked, !.sent_bins[0] = s.sent,
                 !.hist = <<[acked |-> s.acked, sent |-> s.sent]>>]

\* Bins that were skipped take the value of the one before them.
update_bins(s) ==
    LET passed == SatSub(now, s.bin_end) \div s.bin_duration + 1
        to == s.idx + passed
        Bins(bins, size, count) ==
            [b \in 0..size - 1 |->
                IF b = to % size THEN count
                ELSE IF \E i \in (s.idx + 1)..(to - 1) : b = i % size THEN bins[s.idx % size]
                ELSE bins[b]]
    IN IF passed > W THEN search_reset(s)
       ELSE [s EXCEPT !.idx = to, !.bin_end = @ + s.bin_duration * passed,
                      !.acked_bins = Bins(@, NUM_ACKED_BINS, s.acked),
                      !.sent_bins = Bins(@, NUM_SENT_BINS, s.sent),
                      !.hist = @ \o [i \in 1..passed - 1 |-> Last(s.hist)]
                                 \o <<[acked |-> s.acked, sent |-> s.sent]>>]

\* The index one round-trip time ago, and the fraction of a bin left over.
calc_prev_idx(s, rtt, idx) ==
    <<SatSub(idx, rtt \div s.bin_duration),
      ((rtt % s.bin_duration) * SCALE) \div s.bin_duration>>

compute_delv(s, old, new) ==
    SatSub(s.acked_bins[new % NUM_ACKED_BINS], s.acked_bins[old % NUM_ACKED_BINS])

compute_sent(s, old, new, fraction) ==
    LET low == SatSub(s.sent_bins[(new - 1) % NUM_SENT_BINS], s.sent_bins[(old - 1) % NUM_SENT_BINS])
        high == SatSub(s.sent_bins[new % NUM_SENT_BINS], s.sent_bins[old % NUM_SENT_BINS])
    IN (low * fraction + high * (SCALE - fraction)) \div SCALE

Outcome(prev_sent, curr_delv) ==
    IF prev_sent = 0 THEN "ZeroSent"
    ELSE IF (SatSub(prev_sent, curr_delv) * SCALE) \div prev_sent < THRESH THEN "Continue"
    ELSE "Exit"

\* A variant that looks back one bin too far.
EvaluateFurther(s, rtt) ==
    LET p == calc_prev_idx(s, rtt, s.idx)
    IN IF p[1] <= W THEN "WarmingUp"
       ELSE IF s.idx - p[1] > EXTRA_BINS THEN "RttInflated"
       ELSE Outcome(compute_sent(s, p[1] - W, p[1], p[2]), compute_delv(s, s.idx - W, s.idx))

evaluate(s, rtt) ==
    LET p == calc_prev_idx(s, rtt, s.idx)
    IN IF p[1] <= W THEN "WarmingUp"
       ELSE IF s.idx - p[1] >= EXTRA_BINS THEN "RttInflated"
       ELSE Outcome(compute_sent(s, p[1] - W, p[1], p[2]), compute_delv(s, s.idx - W, s.idx))

search_on_packets_acked(s, rtt) ==
    LET s1 == IF s.idx = None THEN initialize(s, rtt) ELSE s
        s2 == update_bins(s1)
    IN IF now <= s1.bin_end THEN [s |-> s1, exit |-> FALSE]
       ELSE IF s2.idx = None THEN [s |-> s2, exit |-> FALSE]
       ELSE [s |-> s2, exit |-> evaluate(s2, rtt) = "Exit"]

-----------------------------------------------------------------------------
(* The slow start algorithm, whichever it is.                              *)

SlowStart(kind) ==
    CASE kind = "search" -> NewSearch
      [] kind \in {"hystart", "threshold"} -> NewHyStart(kind)
      [] kind \in {"classic", "reno"} -> [kind |-> kind]
HyStarts == {"hystart", "threshold"}

ss_on_packet_sent(s, pn) ==
    IF s.kind = "search" THEN [s EXCEPT !.sent = @ + Mtu]
    ELSE IF s.kind \in HyStarts THEN hystart_on_packet_sent(s, pn) ELSE s

record_acked_bytes(s, n) == IF s.kind = "search" THEN [s EXCEPT !.acked = @ + n] ELSE s

ss_on_packets_acked(s, rtt, largest) ==
    IF s.kind = "search" THEN search_on_packets_acked(s, rtt)
    ELSE IF s.kind \in HyStarts THEN hystart_on_packets_acked(s, rtt, largest)
    ELSE [s |-> s, exit |-> FALSE]

\* The limit on a single acknowledgment is for senders that do not pace.
calc_cwnd_increase(s, new_acked) ==
    IF s.kind \in HyStarts /\ in_css(s) THEN new_acked \div CSS_GROWTH_DIVISOR ELSE new_acked

ss_reset(s) ==
    IF s.kind = "search" THEN search_reset(s)
    ELSE IF s.kind \in HyStarts THEN NewHyStart(s.kind) ELSE s

-----------------------------------------------------------------------------
(* CUBIC.  reno is reno_acked_bytes in ninths, for ALPHA is 9/17.          *)

\* event only serves a property: the congestion event the state is from.
NewCubic == [w_est |-> 0, k |-> 0, w_max |-> None, t_epoch |-> None, reno |-> 0, event |-> 0]

\* C is 2/5.
calc_k(w_max, cwnd) ==
    Max({n \in 0..60 : n * n * n * 2 * Mtu <= 5 * (w_max - cwnd)})

w_cubic(q, t) == ((2 * Mtu * (t - q.k) * (t - q.k) * (t - q.k)) \div 5) + q.w_max

start_epoch(q, cwnd, new_acked) ==
    LET below == q.w_max # None /\ q.w_max > cwnd
    IN [q EXCEPT !.t_epoch = now, !.reno = 9 * new_acked, !.w_est = cwnd,
                 !.k = IF below THEN calc_k(q.w_max, cwnd) ELSE 0,
                 !.w_max = IF below THEN @ ELSE cwnd]

\* A variant without the bounds on the target.
TargetUnbounded(q, cwnd, t) == Max({w_cubic(q, t), q.w_est, cwnd})

\* The window after the next round trip, of the cubic function or of Reno.
Target(q, cwnd, t) ==
    Max({Between(cwnd, w_cubic(q, t), (cwnd * 3) \div 2), q.w_est})

RenoIncrease(q, cwnd) ==
    LET n == q.reno \div (17 * cwnd)
    IN [q EXCEPT !.w_est = @ + n * Mtu, !.reno = @ - n * 17 * cwnd]

\* bytes_for_cwnd_increase: returns [q, bytes].
bytes_for_cwnd_increase(q, cwnd, new_acked, min_rtt) ==
    LET q1 == IF q.t_epoch = None THEN start_epoch(q, cwnd, new_acked)
              ELSE [q EXCEPT !.reno = @ + 9 * new_acked]
        q2 == RenoIncrease(q1, cwnd)
        target == Target(q2, cwnd, (now - q1.t_epoch) + min_rtt)
    IN [q |-> q2, bytes |-> (Mtu * cwnd) \div Max({target - cwnd, 1})]

\* reduce_cwnd: the state; the factors are 85 for ECN and 70 otherwise.
reduce_cwnd(q, cwnd) ==
    [q EXCEPT !.t_epoch = None, !.event = losses + 1,
              !.w_max = IF @ # None /\ cwnd + Mtu < @ THEN (cwnd * 85) \div 100 ELSE cwnd]

on_app_limited(q) == [q EXCEPT !.t_epoch = None]
save_undo_state(q) == [q EXCEPT !.stored = <<q.current>>]
restore_undo_state(q) == [current |-> q.stored[1], stored |-> <<>>]

(* NewReno has no state. *)
reno_bytes_for_cwnd_increase(cwnd) == cwnd
reno_reduce_cwnd(bytes) == bytes \div 2

(* The adjustment of the window, whichever it is. *)
BytesForIncrease(q, cwnd, new_acked, min_rtt) ==
    IF ss.kind = "reno" THEN [q |-> q, bytes |-> reno_bytes_for_cwnd_increase(cwnd)]
    ELSE bytes_for_cwnd_increase(q, cwnd, new_acked, min_rtt)

-----------------------------------------------------------------------------
(* The controller.                                                         *)

Init ==
    /\ \E kind \in Kinds : ss = SlowStart(kind)
    /\ cubic = [current |-> NewCubic, stored |-> <<>>]
    /\ cc = [phase |-> "SlowStart", cwnd |-> InitialPkts * Mtu, acked_bytes |-> 0,
             ssthresh |-> None, recovery_start |-> None, event |-> 0]
    /\ undo = <<>> /\ maybe_lost = {} /\ limited = None /\ flight = <<>>
    /\ next = 0 /\ now = 0 /\ losses = 0

set_phase(c, phase) == [c EXCEPT !.phase = phase]

bif == Mtu * Len(flight)
Transient == cc.phase \in {"RecoveryStart", "PersistentCongestion"}
after_recovery_start(pn) == ~Transient /\ (cc.recovery_start = None \/ pn >= cc.recovery_start)

app_limited(b, c) ==
    /\ b < c.cwnd
    /\ IF c.phase = "SlowStart" THEN b < c.cwnd \div 2 ELSE b + Mtu * PACING_BURST_SIZE < c.cwnd

\* on_packet_sent
Send ==
    /\ next < Bounds(ss.kind).pn
    /\ bif < cc.cwnd \/ cc.phase = "RecoveryStart"
    /\ \E c \in {IF ~Transient THEN cc
                 ELSE [cc EXCEPT !.recovery_start = next,
                                 !.phase = IF @ = "RecoveryStart" THEN "Recovery" ELSE "SlowStart"]} :
        /\ cc' = c
        /\ ss' = IF c.phase = "SlowStart" THEN ss_on_packet_sent(ss, next) ELSE ss
        /\ limited' = IF app_limited(bif + Mtu, c) THEN limited ELSE next + 1
    /\ flight' = Append(flight, next)
    /\ next' = next + 1
    /\ UNCHANGED <<cubic, undo, maybe_lost, now, losses>>

\* A variant that takes back the window and not what CUBIC knows.
RestoreWindow(kept, acked) ==
    LET left == kept \ acked
        back == kept # {} /\ left = {} /\ undo # <<>>
        undone == back /\ undo[1].cwnd > cc.cwnd
    IN [maybe_lost |-> left, undo |-> IF back THEN <<>> ELSE undo,
        cc |-> IF undone THEN undo[1] ELSE cc, cubic |-> cubic]

\* detect_spurious_congestion_event and on_spurious_congestion_event, with
\* recovery enabled.
detect_spurious(kept, acked) ==
    LET left == kept \ acked
        back == kept # {} /\ left = {} /\ undo # <<>>
        undone == back /\ undo[1].cwnd > cc.cwnd
    IN [maybe_lost |-> left, undo |-> IF back THEN <<>> ELSE undo,
        cc |-> IF undone THEN undo[1] ELSE cc,
        cubic |-> IF undone /\ ss.kind # "reno" THEN restore_undo_state(cubic) ELSE cubic]

\* The slow start part of on_packets_acked: <<controller, algorithm>>.
GrowSlowly(c, s, rtt, largest, new_acked) ==
    LET r == ss_on_packets_acked(s, rtt, largest)
        cwnd == c.cwnd + calc_cwnd_increase(r.s, new_acked)
    IN IF c.ssthresh # None /\ c.cwnd >= c.ssthresh THEN <<c, s>>
       ELSE IF r.exit THEN <<set_phase([c EXCEPT !.ssthresh = c.cwnd], "CongestionAvoidance"), r.s>>
       ELSE IF c.ssthresh # None /\ cwnd >= c.ssthresh
       THEN <<set_phase([c EXCEPT !.cwnd = c.ssthresh], "CongestionAvoidance"), r.s>>
       ELSE <<[c EXCEPT !.cwnd = cwnd], r.s>>

\* The congestion avoidance part: <<controller, CUBIC>>.
Avoid(c, q, new_acked, rtt) ==
    LET b == BytesForIncrease(q, c.cwnd, new_acked, rtt)
        acked == Min({c.acked_bytes, b.bytes}) + new_acked
    IN IF c.ssthresh = None \/ c.cwnd < c.ssthresh THEN <<c, q>>
       ELSE <<[c EXCEPT !.acked_bytes = acked % b.bytes, !.cwnd = @ + (acked \div b.bytes) * Mtu], b.q>>

\* on_packets_acked, for the first n packets in flight and late ones that
\* were declared lost; kept are the lost ones that
\* cleanup_maybe_lost_packets does not find too old.
OnPacketsAcked(n, late, kept, rtt) ==
    LET acked == SubSeq(flight, 1, n)
        before == detect_spurious(kept, late)
        After(pn) == before.cc.phase \notin {"RecoveryStart", "PersistentCongestion"}
                        /\ (before.cc.recovery_start = None \/ pn >= before.cc.recovery_start)
        new_acked == Mtu * Len(SelectSeq(acked, After))
        c == IF new_acked > 0 /\ before.cc.phase \in {"RecoveryStart", "Recovery"}
             THEN set_phase(before.cc, "CongestionAvoidance") ELSE before.cc
        s == IF c.phase = "SlowStart" THEN record_acked_bytes(ss, new_acked) ELSE ss
        busy == \E i \in DOMAIN acked : acked[i] < limited
        largest == Max(ToSet(acked) \union late)
    IN /\ maybe_lost' = before.maybe_lost /\ undo' = before.undo
       /\ flight' = SubSeq(flight, n + 1, Len(flight))
       /\ IF ~busy
          THEN /\ cc' = c /\ ss' = s
               /\ cubic' = [before.cubic EXCEPT !.current = on_app_limited(@)]
          ELSE \E g \in {GrowSlowly(c, s, rtt, largest, new_acked)} :
               \E a \in {Avoid(g[1], before.cubic.current, new_acked, 1)} :
                    cc' = a[1] /\ ss' = g[2] /\ cubic' = [before.cubic EXCEPT !.current = a[2]]

Ack ==
    /\ \E n \in 0..Len(flight), late \in {{}, maybe_lost}, kept \in {{}, maybe_lost},
          rtt \in Rtts(ss.kind) :
        /\ n > 0 \/ late # {}
        /\ OnPacketsAcked(n, late, kept, rtt)
    /\ UNCHANGED <<limited, next, now, losses>>

\* on_congestion_event: the loss of the packet pn, or a mark on it.
Reduced(pn, ecn) ==
    LET Less(bytes) == IF ss.kind = "reno" THEN reno_reduce_cwnd(bytes)
                       ELSE (bytes * (IF ecn THEN 85 ELSE 70)) \div 100
        cwnd == Max({Less(cc.cwnd), cwnd_min})
        kept == IF ecn THEN cubic ELSE save_undo_state(cubic)
    IN IF ~after_recovery_start(pn) THEN [cc |-> cc, cubic |-> cubic, undo |-> undo]
       ELSE [cc |-> set_phase([cc EXCEPT !.cwnd = cwnd, !.ssthresh = cwnd, !.acked_bytes = Less(@),
                                         !.event = losses + 1], "RecoveryStart"),
             cubic |-> IF ss.kind = "reno" THEN cubic
                       ELSE [kept EXCEPT !.current = reduce_cwnd(@, cc.cwnd)],
             undo |-> IF ecn THEN undo ELSE <<cc>>]

\* on_packets_lost: the first n packets in flight, perhaps so far apart that
\* the congestion is persistent.
Lose ==
    /\ losses < Bounds(ss.kind).losses /\ losses' = losses + 1
    /\ \E n \in 1..Len(flight), persistent \in BOOLEAN :
        /\ persistent => n > 1
        /\ \E r \in {Reduced(flight[n], FALSE)} :
            /\ cc' = IF persistent
                     THEN set_phase([r.cc EXCEPT !.cwnd = cwnd_min, !.acked_bytes = 0],
                                    "PersistentCongestion")
                     ELSE r.cc
            /\ cubic' = r.cubic /\ undo' = r.undo
        /\ ss' = IF persistent THEN ss_reset(ss) ELSE ss
        /\ maybe_lost' = maybe_lost \union ToSet(SubSeq(flight, 1, n))
        /\ flight' = SubSeq(flight, n + 1, Len(flight))
    /\ UNCHANGED <<limited, next, now>>

\* on_ecn_ce_received, for a packet that was sent some time ago.
Mark ==
    /\ losses < Bounds(ss.kind).losses /\ losses' = losses + 1
    /\ next > 0
    /\ \E r \in {Reduced(next - 1, TRUE)} :
        cc' = r.cc /\ cubic' = r.cubic /\ undo' = r.undo
    /\ UNCHANGED <<ss, maybe_lost, limited, flight, next, now>>

Pass ==
    /\ \E d \in Steps(ss.kind) : now + d <= Bounds(ss.kind).time /\ now' = now + d
    /\ UNCHANGED <<ss, cubic, cc, undo, maybe_lost, limited, flight, next, losses>>

Next == Send \/ Ack \/ Lose \/ Mark \/ Pass

Spec == Init /\ [][Next]_vars

-----------------------------------------------------------------------------
(***************************************************************************)
(* HyStart++ ends slow start only after CSS_ROUNDS rounds of conservative  *)
(* slow start in a row, each of which lasted a round trip: a packet sent   *)
(* in it was acknowledged in it.  In none of them did enough samples show  *)
(* the delay below the baseline.  This is what window_end, css_round_count *)
(* and the two resets of on_packets_acked are for.                         *)
(***************************************************************************)
RoundsAreCounted ==
    ss.kind \in HyStarts =>
        /\ ss.css_rounds = Len(ss.log)
        /\ \A i \in DOMAIN ss.log :
            /\ ss.log[i].end <= ss.log[i].acked
            /\ i > 1 => ss.log[i - 1].acked < ss.log[i].end
            /\ ss.log[i].n >= N_RTT_SAMPLE => ss.log[i].min >= ss.baseline

(***************************************************************************)
(* What SEARCH finds in its two circular arrays is what was sent and       *)
(* acknowledged by the end of those bins since it was initialized, for     *)
(* every round-trip time that evaluate accepts: no bin it reads has been   *)
(* overwritten or is left over from before a reset.                        *)
(***************************************************************************)
BinsHold ==
    ss.kind = "search" /\ ss.idx # None =>
        \A rtt \in Rtts("search") :
            LET p == calc_prev_idx(ss, rtt, ss.idx)
                At(i) == ss.hist[i + 1]
                Sent(old, new) == SatSub(At(new).sent, At(old).sent)
                sent == (Sent(p[1] - W - 1, p[1] - 1) * p[2] + Sent(p[1] - W, p[1]) * (SCALE - p[2])) \div SCALE
                delv == SatSub(At(ss.idx).acked, At(ss.idx - W).acked)
            IN evaluate(ss, rtt) \notin {"WarmingUp", "RttInflated"} =>
                /\ compute_sent(ss, p[1] - W, p[1], p[2]) = sent
                /\ compute_delv(ss, ss.idx - W, ss.idx) = delv

(***************************************************************************)
(* The window and what CUBIC knows belong together: both are what the same *)
(* congestion event made them, also after an event was found to be         *)
(* spurious and both were taken back (save_undo_state and                  *)
(* restore_undo_state, beside the controller's own copy).                  *)
(***************************************************************************)
UndoIsWhole ==
    ss.kind # "reno" =>
    /\ cc.event = cubic.current.event
    /\ undo # <<>> => cubic.stored # <<>> /\ cubic.stored[1].event = undo[1].event

(***************************************************************************)
(* In congestion avoidance the window grows by no more than half of        *)
(* what is acknowledged, and a datagram for the credit it had: "CUBIC's    *)
(* congestion window increase rate is non-decreasing and is less than the  *)
(* increase rate of slow start" (cubic.rs).                                *)
(***************************************************************************)
GrowsSlower ==
    cc.ssthresh # None /\ cc.cwnd >= cc.ssthresh /\ cc'.event = cc.event /\ cc'.cwnd > cc.cwnd =>
        cc'.cwnd - cc.cwnd <= ((Len(flight) - Len(flight')) * Mtu) \div 2 + Mtu
=============================================================================
