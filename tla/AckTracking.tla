----------------------------- MODULE AckTracking -----------------------------
(***************************************************************************)
(* RecvdPackets (tracking.rs): which packets of a space have arrived, for  *)
(* the detection of duplicates and for ACK frames.  Ranges are kept newest *)
(* first and only so many of them; a range stops being reported once the   *)
(* peer has acknowledged an ACK frame that covered it.                     *)
(*                                                                         *)
(* FlexibleAckRate (ackrate.rs): how often an endpoint asks its peer to    *)
(* acknowledge, with ACK_FREQUENCY frames of which the peer follows the    *)
(* newest (RecvdPackets::ack_freq).  Rates are the packets and the delay   *)
(* of AckRate::new; which of them is the target follows the congestion     *)
(* window and the RTT.                                                     *)
(***************************************************************************)
EXTENDS Integers, FiniteSetsExt, SequencesExt

CONSTANTS
    MAX_TRACKED_RANGES,
    MaxNumber,            \* bound: the packet numbers are 0 .. MaxNumber
    Frequencies,          \* ACK_FREQUENCY: <<seqno, tolerance, ignore_order>>
    MaxFrames,            \* bound: ACK frames under way
    Rates, InitialRate,
    MaxRequests           \* bound: ACK_FREQUENCY frames

VARIABLES
    ranges, min_tracked,
    ack_time,             \* "none", "delayed" or "due"
    unacknowledged,       \* unacknowledged_count
    frequency,
    frames,               \* the ACK frames in packets that are under way
    received, confirmed,  \* packets that arrived, and that the peer knows did
    rate,                 \* FlexibleAckRate
    peer,                 \* the rate that the peer follows, and the frame that asked for it
    requests, answers     \* ACK_FREQUENCY frames, and their acknowledgments, under way

avars == <<ranges, min_tracked, ack_time, unacknowledged, frequency, frames, received, confirmed>>
fvars == <<rate, peer, requests, answers>>

Pns(r) == r.smallest .. r.largest
PacketRange(smallest, largest) == [smallest |-> smallest, largest |-> largest, ack_needed |-> TRUE]

AInit == /\ ranges = <<>> /\ min_tracked = 0 /\ ack_time = "none" /\ unacknowledged = 0
         /\ frequency \in {<<0, 1, FALSE>>, <<0, 0, FALSE>>} /\ frames = <<>> /\ received = {} /\ confirmed = {}

-----------------------------------------------------------------------------

\* RecvdPackets::add(): extend a range at either end, merge two, or insert.
add(rs, pn) ==
    LET above == {i \in DOMAIN rs : rs[i].smallest > pn}
        n == Max({0} \cup above)
        joins_above == n > 0 /\ rs[n].smallest = pn + 1
        joins_below == n < Len(rs) /\ rs[n + 1].largest + 1 = pn
    IN  IF joins_above /\ joins_below
        THEN RemoveAt([rs EXCEPT ![n + 1] = PacketRange(@.smallest, rs[n].largest)], n)
        ELSE IF joins_above THEN [rs EXCEPT ![n] = PacketRange(pn, @.largest)]
        ELSE IF joins_below THEN [rs EXCEPT ![n + 1] = PacketRange(@.smallest, pn)]
        ELSE InsertAt(rs, n + 1, PacketRange(pn, pn))

\* is_duplicate()
is_duplicate(pn) == pn < min_tracked \/ \E i \in DOMAIN ranges : pn \in Pns(ranges[i])

next_in_order == IF ranges = <<>> THEN 0 ELSE ranges[1].largest + 1

\* Variant: off by one.
TrimmedBelow(rs) == IF Len(rs) > MAX_TRACKED_RANGES THEN Last(rs).largest ELSE min_tracked
\* trim_ranges(): the oldest range goes, and all below it count as received.
TrimmedTo(rs) == IF Len(rs) > MAX_TRACKED_RANGES THEN Last(rs).largest + 1 ELSE min_tracked
trim_ranges(rs) == IF Len(rs) > MAX_TRACKED_RANGES THEN Front(rs) ELSE rs

\* set_received() for a packet that is no duplicate; a PING asks for an immediate
\* acknowledgment first.
set_received(pn, ack_eliciting, ping) ==
    LET added == add(ranges, pn)
        count == unacknowledged + 1
        immediate == (pn # next_in_order /\ ~frequency[3]) \/ count > frequency[2]
    IN  /\ ~is_duplicate(pn) /\ (ping => ack_eliciting)
        /\ ranges' = trim_ranges(added) /\ min_tracked' = TrimmedTo(added)
        /\ unacknowledged' = IF ack_eliciting THEN count ELSE unacknowledged
        /\ ack_time' = IF ~ack_eliciting THEN ack_time
                       ELSE IF immediate \/ ping THEN "due"
                       ELSE IF ack_time = "none" THEN "delayed" ELSE ack_time
        /\ received' = received \cup {pn}
        /\ UNCHANGED <<frequency, frames, confirmed>>

ack_freq(f) == /\ f[1] >= frequency[1] /\ f # frequency /\ frequency' = f
               /\ UNCHANGED <<ranges, min_tracked, ack_time, unacknowledged, frames, received, confirmed>>

DelayElapses == /\ ack_time = "delayed" /\ ack_time' = "due"
                /\ UNCHANGED <<ranges, min_tracked, unacknowledged, frequency, frames, received, confirmed>>

\* write_frame(): the newest ranges that need it, as many as fit, at least one: down
\* to the one at last.  It is time when the delay has passed, or a round trip since
\* the last ACK.
write_frame(last) ==
    /\ ack_time # "none" /\ ranges[last].ack_needed /\ Len(frames) < MaxFrames
    /\ frames' = Append(frames, {ranges[i] : i \in {k \in 1 .. last : ranges[k].ack_needed}})
    /\ ack_time' = "none" /\ unacknowledged' = 0
    /\ UNCHANGED <<ranges, min_tracked, frequency, received, confirmed>>

\* Variant: any overlap counts.
ClearedByOverlap(r, other) == other.smallest <= r.largest /\ other.largest >= r.smallest
\* PacketRange::acknowledged()
Cleared(r, other) == other.smallest <= r.smallest /\ other.largest >= r.largest

\* acknowledged(): the packet with an ACK frame was acknowledged; otherwise, when
\* it is lost, nothing happens.
acknowledged(frame) ==
    [i \in DOMAIN ranges |->
        LET hit == {r \in frame : r.largest >= ranges[i].smallest /\
                                   \A j \in 1 .. (i - 1) : ranges[j].smallest > r.largest}
        IN  [ranges[i] EXCEPT !.ack_needed = @ /\ \A r \in hit : ~Cleared(ranges[i], r)]]

FrameAcked(i) ==
    /\ ranges' = acknowledged(frames[i])
    /\ frames' = RemoveAt(frames, i)
    /\ confirmed' = confirmed \cup UNION {Pns(r) : r \in frames[i]}
    /\ UNCHANGED <<min_tracked, ack_time, unacknowledged, frequency, received>>

FrameLost(i) ==
    /\ frames' = RemoveAt(frames, i)
    /\ UNCHANGED <<ranges, min_tracked, ack_time, unacknowledged, frequency, received, confirmed>>

ANext ==
    \/ \E pn \in 0 .. MaxNumber, ae, ping \in BOOLEAN : set_received(pn, ae, ping)
    \/ \E f \in Frequencies : ack_freq(f)
    \/ DelayElapses
    \/ \E last \in DOMAIN ranges : write_frame(last)
    \/ \E i \in DOMAIN frames : FrameAcked(i) \/ FrameLost(i)

ASpec == AInit /\ [][ANext]_avars

-----------------------------------------------------------------------------
(* The rate of acknowledgments *)

FInit ==
    /\ \E target \in Rates : rate = [current |-> InitialRate, target |-> target,
                                     next_frame_seqno |-> 0, frame_outstanding |-> FALSE]
    /\ peer = [rate |-> InitialRate, seqno |-> 0]
    /\ requests = {} /\ answers = {}

NeedsUpdate(current, target) ==
    LET delta == target.delay \div 4 IN
    \/ current.packets # target.packets
    \/ target.delay + delta < current.delay
    \/ target.delay > current.delay + delta

\* Variant: a frame is sent whenever the rates differ.
WriteFrequencyAgain ==
    /\ NeedsUpdate(rate.current, rate.target) /\ rate.next_frame_seqno < MaxRequests
    /\ rate' = [rate EXCEPT !.frame_outstanding = TRUE, !.next_frame_seqno = @ + 1]
    /\ requests' = requests \cup {[seqno |-> rate.next_frame_seqno, rate |-> rate.target]}
    /\ UNCHANGED <<peer, answers>>
\* FlexibleAckRate::write_frames()
WriteFrequency ==
    /\ ~rate.frame_outstanding /\ NeedsUpdate(rate.current, rate.target)
    /\ rate.next_frame_seqno < MaxRequests
    /\ rate' = [rate EXCEPT !.frame_outstanding = TRUE, !.next_frame_seqno = @ + 1]
    /\ requests' = requests \cup {[seqno |-> rate.next_frame_seqno, rate |-> rate.target]}
    /\ UNCHANGED <<peer, answers>>

update(target) ==
    /\ rate' = [rate EXCEPT !.target = target]
    /\ UNCHANGED <<peer, requests, answers>>

FrequencyAcked(frame) ==
    /\ rate' = [rate EXCEPT !.frame_outstanding = FALSE, !.current = frame.rate]
    /\ answers' = answers \ {frame}
    /\ UNCHANGED <<peer, requests>>

FrequencyLost(frame) ==
    /\ rate' = [rate EXCEPT !.frame_outstanding = FALSE]
    /\ requests' = requests \ {frame}
    /\ UNCHANGED <<peer, answers>>

\* Frames that come out of order are acknowledged, and ignored.
Follow(frame) ==
    /\ peer' = IF frame.seqno >= peer.seqno THEN [rate |-> frame.rate, seqno |-> frame.seqno] ELSE peer
    /\ requests' = requests \ {frame} /\ answers' = answers \cup {frame}
    /\ UNCHANGED rate

FNext ==
    \/ WriteFrequency
    \/ \E target \in Rates : update(target)
    \/ \E frame \in requests : Follow(frame) \/ FrequencyLost(frame)
    \/ \E frame \in answers : FrequencyAcked(frame)

FSpec == FInit /\ [][FNext]_fvars

-----------------------------------------------------------------------------
(* Properties *)

\* Ranges are newest first with a gap between any two (an ACK frame cannot say
\* otherwise), and no more of them than the limit.
RangesCanonical ==
    /\ Len(ranges) <= MAX_TRACKED_RANGES
    /\ \A i \in DOMAIN ranges : ranges[i].smallest <= ranges[i].largest
    /\ \A i \in 2 .. Len(ranges) : ranges[i - 1].smallest >= ranges[i].largest + 2

\* No packet is processed twice, however much was trimmed, and none is taken for a
\* duplicate unless numbers below it and beyond the limit were given up.
DuplicatesExact ==
    /\ \A pn \in received : is_duplicate(pn)
    /\ \A pn \in 0 .. MaxNumber : pn >= min_tracked => (is_duplicate(pn) <=> pn \in received)

\* A range that is no longer reported is known to the peer, all of it: every packet
\* in it was in an ACK frame whose packet the peer acknowledged.
AcksReachThePeer ==
    \A i \in DOMAIN ranges : ~ranges[i].ack_needed => Pns(ranges[i]) \subseteq confirmed

\* The endpoint knows the rate its peer follows: the current one, or the one asked
\* for while a frame is outstanding (write_frames, frame_acked and frame_lost of
\* FlexibleAckRate).  Frames are declared lost here only if they are; see the README
\* for those that are not.
RateIsKnown ==
    IF rate.frame_outstanding
    THEN peer.rate \in {rate.current} \cup {frame.rate : frame \in answers}
    ELSE peer.rate = rate.current
=============================================================================
