---------------------------- MODULE FlowControl ----------------------------
(***************************************************************************)
(* One flow-controlled resource of a QUIC connection, from both ends:      *)
(* SenderFlowControl on the endpoint that uses the credit and              *)
(* ReceiverFlowControl on the endpoint that grants it (fc.rs), with the    *)
(* MAX_* and *_BLOCKED frames between them carried by packets that may be  *)
(* lost, delayed, reordered, or declared lost although they arrive.        *)
(*                                                                         *)
(* subject is the instantiation of the two generic types:                  *)
(*   "conn"    bytes of the connection  (MAX_DATA, DATA_BLOCKED)           *)
(*   "stream"  bytes of one stream      (MAX_STREAM_DATA, ..._BLOCKED)     *)
(*   "streams" number of streams        (MAX_STREAMS, STREAMS_BLOCKED)     *)
(***************************************************************************)
EXTENDS Integers, FiniteSets, TLAPS

CONSTANTS
    InitialWindow,   \* the transport parameter both ends start from
    MaxWindow,       \* MAX_LOCAL_MAX_DATA or MAX_LOCAL_MAX_STREAM_DATA
    Windows,         \* the values the application passes to set_max_active
    MaxVarint,       \* MAX_VARINT: the largest limit a frame can carry
    MaxStreamsLimit, \* MAX_STREAMS_LIMIT: the largest count MAX_STREAMS carries
    Total,           \* bound: how much the sending application ever asks for
    MaxPackets       \* bound: packets with frames of one kind at one time

ASSUME ConstantsAssumption ==
    /\ InitialWindow \in Nat /\ MaxWindow \in Nat
    /\ Windows \subseteq Nat
    /\ MaxVarint \in Nat /\ MaxStreamsLimit \in Nat
    /\ Total \in Nat /\ MaxPackets \in Nat
    /\ InitialWindow <= MaxVarint /\ InitialWindow <= MaxStreamsLimit

VARIABLES
    subject,         \* which instantiation this behaviour is about
    \* SenderFlowControl
    limit, used, blocked_at, blocked_frame,
    transmitted,     \* how much of `used' has been put in a packet
    \* ReceiverFlowControl
    max_active, max_allowed, last_update, consumed, retired, frame_pending,
    flow_error,      \* the receiver closed the connection with FlowControl
    pkts             \* the packets that carry MAX_* and *_BLOCKED frames

sender == <<limit, used, blocked_at, blocked_frame, transmitted>>
receiver == <<max_active, max_allowed, last_update, consumed, retired,
              frame_pending, flow_error>>
vars == <<subject, limit, used, blocked_at, blocked_frame, transmitted,
          max_active, max_allowed, last_update, consumed, retired,
          frame_pending, flow_error, pkts>>

None == -1
WINDOW_UPDATE_FRACTION == 4
WINDOW_INCREASE_MULTIPLIER == 4

\* A packet with one flow-control frame.  `fate' is what the network has done
\* with it, `tracked' whether its sender still holds the recovery token.
Packet == [kind : {"max", "blocked"}, value : Nat,
           fate : {"flying", "arrived", "dropped"}, tracked : BOOLEAN]
NewPacket(kind, value) ==
    [kind |-> kind, value |-> value, fate |-> "flying", tracked |-> TRUE]
\* A packet matters while it can still arrive or its token is still held.
Keep(p) == IF p.fate = "flying" \/ p.tracked THEN {p} ELSE {}

Room(kind) == Cardinality({p \in pkts : p.kind = kind}) < MaxPackets

Minimum(a, b) == IF a <= b THEN a ELSE b

Init ==
    /\ subject \in {"conn", "stream", "streams"}
    /\ limit = InitialWindow /\ used = 0 /\ transmitted = 0
    /\ blocked_at = None /\ blocked_frame = FALSE
    /\ max_active = InitialWindow /\ max_allowed = InitialWindow
    /\ last_update = FALSE /\ consumed = 0 /\ retired = 0
    /\ frame_pending = FALSE /\ flow_error = FALSE
    /\ pkts = {}

-----------------------------------------------------------------------------
(* The sending end *)

\* Variant: off by one.
AvailableOneMore == limit - used + 1
available == limit - used

\* blocked(): note the limit that blocks, once per limit.
blocked ==
    IF blocked_at # None /\ limit <= blocked_at
    THEN UNCHANGED <<blocked_at, blocked_frame>>
    ELSE blocked_at' = limit /\ blocked_frame' = TRUE

\* send_internal() for bytes: buffer n of what the application offers.
Send(n) ==
    /\ subject # "streams" /\ ~flow_error
    /\ n <= available /\ used + n <= Total
    /\ used' = used + n
    /\ UNCHANGED <<limit, blocked_at, blocked_frame, transmitted, receiver, pkts>>

\* send_atomic() of more than what is available: nothing is buffered.
SendAtomicBlocked(n) ==
    /\ subject # "streams" /\ ~flow_error
    /\ 0 < available /\ available < n /\ used + n <= Total
    /\ blocked
    /\ UNCHANGED <<limit, used, transmitted, receiver, pkts>>

\* LocalStreamLimits::take_stream_id(): open a stream or note the block.
TakeStreamId ==
    /\ subject = "streams" /\ ~flow_error /\ used < Total
    /\ IF available > 0
       THEN used' = used + 1 /\ UNCHANGED <<blocked_at, blocked_frame>>
       ELSE blocked /\ UNCHANGED used
    /\ UNCHANGED <<limit, transmitted, receiver, pkts>>

\* SendStream::mark_as_sent(): a STREAM frame up to n leaves; when that leaves
\* no credit the sender is blocked.
MarkAsSent(n) ==
    /\ ~flow_error /\ transmitted < n /\ n <= used
    /\ transmitted' = n
    /\ IF subject # "streams" /\ available = 0
       THEN blocked
       ELSE UNCHANGED <<blocked_at, blocked_frame>>
    /\ UNCHANGED <<limit, used, receiver, pkts>>

\* Variant: the comparison is inverted.
BlockedNeededInverted == blocked_at <= limit
\* blocked_needed()
blocked_needed == blocked_at # None /\ blocked_frame /\ limit <= blocked_at

\* SenderFlowControl::write_frames(): the *_BLOCKED frame.
WriteBlocked ==
    /\ ~flow_error /\ blocked_needed /\ Room("blocked")
    /\ pkts' = pkts \cup {NewPacket("blocked", blocked_at)}
    /\ blocked_frame' = FALSE
    /\ UNCHANGED <<limit, used, blocked_at, transmitted, receiver>>

\* update(): a MAX_* frame arrives.
update(value) ==
    IF value > limit
    THEN limit' = value /\ blocked_frame' = FALSE
    ELSE UNCHANGED <<limit, blocked_frame>>

-----------------------------------------------------------------------------
(* The receiving end *)

\* The receiver's check that the peer respects the limit, and its accounting:
\* set_consumed() or consume() for bytes, is_new_stream() and take_stream_id()
\* for streams, where check_allowed() compares the index n - 1.
Arrive(n) ==
    /\ ~flow_error /\ consumed < n /\ n <= transmitted
    /\ IF n > max_allowed
       THEN flow_error' = TRUE /\ UNCHANGED consumed
       ELSE consumed' = n /\ UNCHANGED flow_error
    /\ UNCHANGED <<max_active, max_allowed, last_update, retired,
                   frame_pending, sender, pkts>>

\* send_flowc_update(): something more can be granted.
UpdatePossible(r) == r + max_active > max_allowed
\* should_send_update(): a quarter of the window has been used up.
should_send_update(r) ==
    max_allowed - r < max_active - max_active \div WINDOW_UPDATE_FRACTION

\* add_retired() of each instantiation: the application has read bytes, or
\* cleanup_closed_streams() has removed streams.
AddRetired(count) ==
    /\ ~flow_error /\ 0 < count /\ retired + count <= consumed
    /\ retired' = retired + count
    /\ frame_pending' = (frame_pending
         \/ IF subject = "streams" THEN UpdatePossible(retired + count)
                                   ELSE should_send_update(retired + count))
    /\ UNCHANGED <<max_active, max_allowed, last_update, consumed,
                   flow_error, sender, pkts>>

\* set_max_active(): Streams::set_remote_max_streams() only raises it, nothing
\* calls it for the connection, RecvStream::set_stream_max_data() passes any
\* value on.
SetMaxActive(max) ==
    /\ ~flow_error
    /\ \/ subject = "streams" /\ Minimum(max, MaxStreamsLimit) > max_active
       \/ subject = "stream"
    /\ LET m == IF subject = "streams" THEN Minimum(max, MaxStreamsLimit) ELSE max
       IN  /\ frame_pending' = (frame_pending \/ max_active < m)
           /\ max_active' = m
    /\ UNCHANGED <<max_allowed, last_update, consumed, retired, flow_error,
                   sender, pkts>>

\* auto_tune_inner(): what max_active may become.  The elapsed time and the
\* round-trip time only enter through window_bytes_expected, any number; the
\* unsigned subtraction wraps when the window was shrunk below what is granted.
AutoTuned ==
    LET window_bytes_used == max_active - (max_allowed - retired)
        grown(excess) ==
            Minimum(max_active + excess * WINDOW_INCREASE_MULTIPLIER, MaxWindow)
    IN  IF subject = "streams" \/ ~last_update THEN {max_active}
        ELSE {max_active} \cup
             (IF window_bytes_used >= 0
              THEN {m \in {grown(e) : e \in 0..window_bytes_used} : m > max_active}
              ELSE (max_active + 1)..MaxWindow)

\* Variants: one too many, and retired subtracted.
NextLimitOneMore(active) == retired + active + 1
NextLimitBackwards(active) == IF active >= retired THEN active - retired ELSE 0
\* next_limit(), and the smaller cap of MAX_STREAMS.
next_limit(active) ==
    LET l == Minimum(retired + active, MaxVarint)
    IN  IF subject = "streams" THEN Minimum(l, MaxStreamsLimit) ELSE l

\* ReceiverFlowControl::write_frames(): tune the window, then send the MAX_*
\* frame if the packet has room for it.
WriteMax(active, room) ==
    /\ ~flow_error /\ frame_pending /\ Room("max")
    /\ max_active' = active
    /\ IF room
       THEN /\ max_allowed' = next_limit(active)
            /\ frame_pending' = FALSE
            /\ last_update' = (subject # "streams" \/ last_update)
            /\ pkts' = pkts \cup {NewPacket("max", next_limit(active))}
       ELSE UNCHANGED <<max_allowed, frame_pending, last_update, pkts>>
    /\ UNCHANGED <<consumed, retired, flow_error, sender>>

-----------------------------------------------------------------------------
(* Packets with flow-control frames: delivery, loss, acknowledgement *)

\* input_frame() at the other end.  STREAMS_BLOCKED is ignored.
Deliver(p) ==
    /\ ~flow_error /\ p \in pkts /\ p.fate = "flying"
    /\ pkts' = (pkts \ {p}) \cup Keep([p EXCEPT !.fate = "arrived"])
    /\ \/ /\ p.kind = "max"
          /\ update(p.value)
          /\ UNCHANGED <<used, blocked_at, transmitted, receiver>>
       \/ /\ p.kind = "blocked"
          /\ frame_pending' = (frame_pending
                \/ (subject # "streams" /\ UpdatePossible(retired)))
          /\ UNCHANGED <<max_active, max_allowed, last_update, consumed,
                         retired, flow_error, sender>>

Drop(p) ==
    /\ p \in pkts /\ p.fate = "flying"
    /\ pkts' = (pkts \ {p}) \cup Keep([p EXCEPT !.fate = "dropped"])
    /\ UNCHANGED <<sender, receiver>>

\* Streams::acked(): these tokens only matter when they are lost.
Acked(p) ==
    /\ p \in pkts /\ p.tracked /\ p.fate = "arrived"
    /\ pkts' = pkts \ {p}
    /\ UNCHANGED <<sender, receiver>>

\* Variant: nothing is sent again.
LostForgotten(p) ==
    /\ ~flow_error /\ p \in pkts /\ p.tracked
    /\ pkts' = (pkts \ {p}) \cup Keep([p EXCEPT !.tracked = FALSE])
    /\ UNCHANGED <<sender, receiver>>
\* Streams::lost() -> frame_lost() of either end.  Loss detection and PTO may be
\* wrong: the packet may have arrived, or may still arrive.
Lost(p) ==
    /\ ~flow_error /\ p \in pkts /\ p.tracked
    /\ pkts' = (pkts \ {p}) \cup Keep([p EXCEPT !.tracked = FALSE])
    /\ \/ /\ p.kind = "blocked"
          /\ blocked_frame' = (blocked_frame \/ blocked_at = p.value)
          /\ UNCHANGED <<limit, used, blocked_at, transmitted, receiver>>
       \/ /\ p.kind = "max"
          /\ frame_pending' = (frame_pending \/ p.value = max_allowed)
          /\ UNCHANGED <<max_active, max_allowed, last_update, consumed,
                         retired, flow_error, sender>>

Next ==
    /\ UNCHANGED subject
    /\ \/ \E n \in 1..Total : Send(n) \/ SendAtomicBlocked(n) \/ MarkAsSent(n)
                              \/ Arrive(n) \/ AddRetired(n)
       \/ TakeStreamId
       \/ WriteBlocked
       \/ \E max \in Windows : SetMaxActive(max)
       \/ \E active \in AutoTuned, room \in BOOLEAN : WriteMax(active, room)
       \/ \E p \in pkts : Deliver(p) \/ Drop(p) \/ Acked(p) \/ Lost(p)

Spec == Init /\ [][Next]_vars

\* The connection writes pending frames and buffered data whenever it has
\* packets to send, every tracked packet that was dropped is eventually declared
\* lost, one that arrived is acknowledged or declared lost, and a frame that is
\* sent again and again gets through.  Both applications keep going: one writes
\* or opens, the other reads or closes.
Fairness ==
    /\ WF_vars(\E n \in 1..Total : Send(n) /\ UNCHANGED subject)
    /\ WF_vars(TakeStreamId /\ UNCHANGED subject)
    /\ WF_vars(\E n \in 1..Total : MarkAsSent(n) /\ UNCHANGED subject)
    /\ WF_vars(\E n \in 1..Total : Arrive(n) /\ UNCHANGED subject)
    /\ WF_vars(\E n \in 1..Total : AddRetired(n) /\ UNCHANGED subject)
    /\ WF_vars(WriteBlocked /\ UNCHANGED subject)
    /\ WF_vars(\E active \in AutoTuned : WriteMax(active, TRUE) /\ UNCHANGED subject)
    /\ \A v \in 0..MaxVarint : \A k \in {"max", "blocked"} :
          /\ WF_vars(\E p \in pkts : /\ p.kind = k /\ p.value = v /\ p.fate = "dropped"
                                     /\ Lost(p) /\ UNCHANGED subject)
          /\ WF_vars(\E p \in pkts : /\ p.kind = k /\ p.value = v
                                     /\ Acked(p) /\ UNCHANGED subject)
          /\ SF_vars(\E p \in pkts : /\ p.kind = k /\ p.value = v
                                     /\ Deliver(p) /\ UNCHANGED subject)

LiveSpec == Spec /\ Fairness

-----------------------------------------------------------------------------
(* Properties *)

\* Every field stays in its type; in particular a *_BLOCKED frame is only
\* written (write_frames) for a limit that has blocked.
TypeOK ==
    /\ subject \in {"conn", "stream", "streams"}
    /\ limit \in Nat /\ used \in Nat /\ transmitted \in Nat
    /\ blocked_at \in Nat \cup {None} /\ blocked_frame \in BOOLEAN
    /\ max_active \in Nat /\ max_allowed \in Nat
    /\ last_update \in BOOLEAN /\ frame_pending \in BOOLEAN
    /\ consumed \in Nat /\ retired \in Nat /\ flow_error \in BOOLEAN
    /\ pkts \subseteq Packet

\* The sender never believes in more credit than the receiver enforces and never
\* uses more than it believes in (debug_assert of SenderFlowControl::consume), so
\* it is never closed with a FlowControl error, in whatever order MAX_* frames and
\* data arrive (consume, set_consumed, is_new_stream).  The unsigned subtractions
\* of should_send_update and auto_tune_inner do not wrap: what is granted and not
\* retired is between zero and the window.
CreditSound ==
    /\ TypeOK
    /\ used <= limit /\ limit <= max_allowed /\ ~flow_error
    /\ retired <= max_allowed /\ max_allowed - retired <= max_active

\* A MAX_* frame never takes back credit the receiver has already promised.
LimitNeverRetracted == [][max_allowed' >= max_allowed]_vars

\* A sender that has run out of credit, with a receiver that keeps retiring,
\* always gets more, whichever MAX_* or *_BLOCKED frames are lost: everything
\* the application wants to send is used in the end.
AllCreditArrives == <>(used = Total)

-----------------------------------------------------------------------------
(* Proofs, for every window, every bound and every order of packets.       *)

\* The chain from what was retired to what is granted, every link of which one
\* step of one end can only move in the safe direction.
CreditChain ==
    /\ retired <= consumed /\ consumed <= transmitted /\ transmitted <= used
    /\ used <= limit /\ limit <= max_allowed

\* What is granted is what can be granted: at most the window beyond what was
\* retired, and at most what the frame can carry.
GrantBounded ==
    /\ max_allowed - retired <= max_active
    /\ max_allowed <= MaxVarint
    /\ subject = "streams" => max_allowed <= MaxStreamsLimit

\* No MAX_* frame under way promises more than the receiver enforces.
PromisesKept == \A p \in pkts : p.kind = "max" => p.value <= max_allowed

\* The inductive invariant.
IInv == TypeOK /\ CreditChain /\ GrantBounded /\ PromisesKept /\ ~flow_error

\* The window is never made smaller.
NeverShrunk == [][max_active' >= max_active]_vars

\* Tuning keeps the window or enlarges it.
LEMMA AutoTunedGrows ==
    ASSUME TypeOK, NEW m \in AutoTuned
    PROVE  m \in Nat /\ m >= max_active
BY ConstantsAssumption DEF AutoTuned, TypeOK, Minimum

\* A window that has not shrunk below what is granted yields a limit that is
\* not below what is granted, and that the frame can carry.
LEMMA NextLimitGrows ==
    ASSUME TypeOK, GrantBounded, NEW m \in Nat, m >= max_active
    PROVE  /\ next_limit(m) \in Nat
           /\ next_limit(m) >= max_allowed
           /\ next_limit(m) - retired <= m
           /\ next_limit(m) <= MaxVarint
           /\ subject = "streams" => next_limit(m) <= MaxStreamsLimit
BY ConstantsAssumption DEF next_limit, Minimum, TypeOK, GrantBounded

LEMMA NewPacketType ==
    ASSUME NEW k \in {"max", "blocked"}, NEW v \in Nat
    PROVE  /\ NewPacket(k, v) \in Packet
           /\ NewPacket(k, v).kind = k
           /\ NewPacket(k, v).value = v
BY DEF NewPacket, Packet

LEMMA KeepType ==
    ASSUME NEW p \in Packet, NEW q \in Keep(p)
    PROVE  q = p
BY DEF Keep

\* blocked() only notes the limit.
LEMMA BlockedType ==
    ASSUME TypeOK, blocked
    PROVE  blocked_at' \in Nat \cup {None} /\ blocked_frame' \in BOOLEAN
BY DEF TypeOK, blocked

LEMMA InitInv == Init => IInv
<1> SUFFICES ASSUME Init PROVE IInv
  OBVIOUS
<1> USE ConstantsAssumption DEF Init
<1>1. TypeOK
  BY DEF TypeOK, None
<1>2. CreditChain /\ GrantBounded /\ PromisesKept
  BY DEF CreditChain, GrantBounded, PromisesKept
<1>3. ~flow_error
  OBVIOUS
<1> QED
  BY <1>1, <1>2, <1>3 DEF IInv

LEMMA NextInv == IInv /\ [Next]_vars /\ [max_active' >= max_active]_vars => IInv'
<1> SUFFICES ASSUME IInv, [Next]_vars, [max_active' >= max_active]_vars
             PROVE  IInv'
  OBVIOUS
<1> USE ConstantsAssumption DEF IInv
<1>0. subject' = subject
  BY DEF Next, vars
<1> USE <1>0
<1>1. ASSUME NEW n \in 1..Total, Send(n) PROVE IInv'
  BY <1>1 DEF Send, TypeOK, CreditChain, GrantBounded, PromisesKept, available, receiver
<1>2. ASSUME NEW n \in 1..Total, SendAtomicBlocked(n) PROVE IInv'
  BY <1>2 DEF SendAtomicBlocked, blocked, TypeOK, CreditChain, GrantBounded,
              PromisesKept, available, receiver
<1>3. ASSUME NEW n \in 1..Total, MarkAsSent(n) PROVE IInv'
  <2>1. blocked_at' \in Nat \cup {None} /\ blocked_frame' \in BOOLEAN
    BY <1>3, BlockedType DEF MarkAsSent, TypeOK
  <2>2. /\ transmitted' = n /\ transmitted < n /\ n <= used
        /\ UNCHANGED <<limit, used, receiver, pkts>>
    BY <1>3 DEF MarkAsSent
  <2> QED
    BY <2>1, <2>2 DEF TypeOK, CreditChain, GrantBounded, PromisesKept, receiver
<1>4. ASSUME NEW n \in 1..Total, Arrive(n) PROVE IInv'
  BY <1>4 DEF Arrive, TypeOK, CreditChain, GrantBounded, PromisesKept, sender
<1>5. ASSUME NEW n \in 1..Total, AddRetired(n) PROVE IInv'
  BY <1>5 DEF AddRetired, UpdatePossible, should_send_update, TypeOK,
              CreditChain, GrantBounded, PromisesKept, sender
<1>6. CASE TakeStreamId
  <2>1. blocked_at' \in Nat \cup {None} /\ blocked_frame' \in BOOLEAN
    BY <1>6, BlockedType DEF TakeStreamId, TypeOK
  <2>2. /\ used' \in Nat /\ used <= used' /\ used' <= limit
        /\ UNCHANGED <<limit, transmitted, receiver, pkts>>
    BY <1>6 DEF TakeStreamId, TypeOK, CreditChain, available
  <2> QED
    BY <2>1, <2>2 DEF TypeOK, CreditChain, GrantBounded, PromisesKept, receiver
<1>7. CASE WriteBlocked
  <2>1. blocked_at \in Nat
    BY <1>7 DEF WriteBlocked, blocked_needed, TypeOK, None
  <2>2. NewPacket("blocked", blocked_at) \in Packet
        /\ NewPacket("blocked", blocked_at).kind = "blocked"
    BY <2>1, NewPacketType
  <2> QED
    BY <1>7, <2>2 DEF WriteBlocked, TypeOK, CreditChain, GrantBounded,
                      PromisesKept, receiver
<1>8. ASSUME NEW max \in Windows, SetMaxActive(max) PROVE IInv'
  <2>1. max_active' >= max_active
    BY <1>8 DEF SetMaxActive, vars, TypeOK, Minimum
  <2> QED
    BY <1>8, <2>1 DEF SetMaxActive, TypeOK, CreditChain, GrantBounded,
                      PromisesKept, Minimum, sender
<1>9. ASSUME NEW active \in AutoTuned, NEW room \in BOOLEAN, WriteMax(active, room)
      PROVE  IInv'
  <2>1. active \in Nat /\ active >= max_active
    BY AutoTunedGrows
  <2>2. CASE room
    <3> DEFINE l == next_limit(active)
    <3>1. /\ l \in Nat /\ l >= max_allowed /\ l - retired <= active
          /\ l <= MaxVarint
          /\ subject = "streams" => l <= MaxStreamsLimit
      BY <2>1, NextLimitGrows
    <3>2. /\ NewPacket("max", l) \in Packet
          /\ NewPacket("max", l).value = l
      BY <3>1, NewPacketType
    <3>3. /\ max_active' = active /\ max_allowed' = l /\ frame_pending' = FALSE
          /\ last_update' \in BOOLEAN
          /\ pkts' = pkts \cup {NewPacket("max", l)}
          /\ UNCHANGED <<consumed, retired, flow_error, sender>>
      BY <1>9, <2>2 DEF WriteMax, TypeOK
    <3> HIDE DEF l
    <3>4. TypeOK'
      BY <2>1, <3>1, <3>2, <3>3 DEF TypeOK, sender
    <3>5. CreditChain' /\ GrantBounded'
      <4>1. /\ max_active' = active /\ max_allowed' = l
            /\ retired' = retired /\ consumed' = consumed
            /\ transmitted' = transmitted /\ used' = used /\ limit' = limit
        BY <3>3 DEF sender
      <4>2. CreditChain'
        BY <3>1, <4>1 DEF TypeOK, CreditChain
      <4>3. GrantBounded'
        BY <3>1, <4>1 DEF GrantBounded
      <4> QED
        BY <4>2, <4>3
    <3>6. PromisesKept'
      <4> SUFFICES ASSUME NEW p \in pkts', p.kind = "max"
                   PROVE  p.value <= max_allowed'
        BY DEF PromisesKept
      <4>1. CASE p \in pkts
        BY <4>1, <3>1, <3>3 DEF PromisesKept, TypeOK, Packet
      <4>2. CASE p = NewPacket("max", l)
        BY <4>2, <3>1, <3>2, <3>3
      <4> QED
        BY <3>3, <4>1, <4>2
    <3> QED
      BY <3>3, <3>4, <3>5, <3>6
  <2>3. CASE ~room
    <3>1. /\ max_active' = active
          /\ UNCHANGED <<max_allowed, frame_pending, last_update, pkts, consumed,
                         retired, flow_error, sender>>
      BY <1>9, <2>3 DEF WriteMax
    <3> QED
      BY <2>1, <3>1 DEF TypeOK, CreditChain, GrantBounded, PromisesKept, sender
  <2> QED
    BY <2>2, <2>3
<1>10. ASSUME NEW p \in pkts, Deliver(p) PROVE IInv'
  <2> DEFINE q == [p EXCEPT !.fate = "arrived"]
  <2>1. /\ p \in Packet /\ q \in Packet
        /\ q.kind = p.kind /\ q.value = p.value
    BY DEF TypeOK, Packet
  <2>2. pkts' = (pkts \ {p}) \cup Keep(q)
    BY <1>10 DEF Deliver
  <2>3. \A r \in pkts' : r \in pkts \/ r = q
    BY <2>1, <2>2, KeepType
  <2> HIDE DEF q
  <2>4. CASE p.kind = "max"
    <3>1. /\ update(p.value)
          /\ UNCHANGED <<used, blocked_at, transmitted, receiver>>
      BY <1>10, <2>4 DEF Deliver
    <3>2. p.value \in Nat /\ p.value <= max_allowed
      BY <2>1, <2>4 DEF Packet, PromisesKept
    <3>3. limit' \in Nat /\ limit <= limit' /\ limit' <= max_allowed
      BY <3>1, <3>2 DEF update, TypeOK, CreditChain
    <3>4. blocked_frame' \in BOOLEAN
      BY <3>1 DEF update, TypeOK
    <3> QED
      BY <2>1, <2>3, <3>1, <3>3, <3>4 DEF TypeOK, CreditChain, GrantBounded,
                                          PromisesKept, receiver
  <2>5. CASE p.kind = "blocked"
    <3>1. /\ frame_pending' \in BOOLEAN
          /\ UNCHANGED <<max_active, max_allowed, last_update, consumed,
                         retired, flow_error, sender>>
      BY <1>10, <2>5 DEF Deliver, TypeOK
    <3> QED
      BY <2>1, <2>3, <3>1 DEF TypeOK, CreditChain, GrantBounded, PromisesKept, sender
  <2> QED
    BY <2>1, <2>4, <2>5 DEF Packet
<1>11. ASSUME NEW p \in pkts, Drop(p) PROVE IInv'
  <2> DEFINE q == [p EXCEPT !.fate = "dropped"]
  <2>1. /\ p \in Packet /\ q \in Packet
        /\ q.kind = p.kind /\ q.value = p.value
    BY DEF TypeOK, Packet
  <2>2. pkts' = (pkts \ {p}) \cup Keep(q)
    BY <1>11 DEF Drop
  <2>3. \A r \in pkts' : r \in pkts \/ r = q
    BY <2>1, <2>2, KeepType
  <2> HIDE DEF q
  <2> QED
    BY <1>11, <2>1, <2>3 DEF Drop, TypeOK, CreditChain, GrantBounded,
                             PromisesKept, sender, receiver
<1>12. ASSUME NEW p \in pkts, Acked(p) PROVE IInv'
  BY <1>12 DEF Acked, TypeOK, CreditChain, GrantBounded, PromisesKept,
               sender, receiver
<1>13. ASSUME NEW p \in pkts, Lost(p) PROVE IInv'
  <2> DEFINE q == [p EXCEPT !.tracked = FALSE]
  <2>1. /\ p \in Packet /\ q \in Packet
        /\ q.kind = p.kind /\ q.value = p.value
    BY DEF TypeOK, Packet
  <2>2. pkts' = (pkts \ {p}) \cup Keep(q)
    BY <1>13 DEF Lost
  <2>3. \A r \in pkts' : r \in pkts \/ r = q
    BY <2>1, <2>2, KeepType
  <2> HIDE DEF q
  <2>4. /\ blocked_frame' \in BOOLEAN /\ frame_pending' \in BOOLEAN
        /\ UNCHANGED <<limit, used, blocked_at, transmitted, max_active,
                       max_allowed, last_update, consumed, retired, flow_error>>
    BY <1>13 DEF Lost, TypeOK, sender, receiver
  <2> QED
    BY <2>1, <2>3, <2>4 DEF TypeOK, CreditChain, GrantBounded, PromisesKept
<1>14. CASE UNCHANGED vars
  BY <1>14 DEF vars, TypeOK, CreditChain, GrantBounded, PromisesKept
<1> QED
  BY <1>1, <1>2, <1>3, <1>4, <1>5, <1>6, <1>7, <1>8, <1>9, <1>10, <1>11,
     <1>12, <1>13, <1>14 DEF Next

\* The connection's and the stream-count window are never shrunk: nothing calls
\* set_max_active for the one, set_remote_max_streams only raises the other.
LEMMA OnlyStreamsShrink ==
    ASSUME subject # "stream", TypeOK, [Next]_vars
    PROVE  [max_active' >= max_active]_vars
<1> USE DEF TypeOK
<1>1. ASSUME NEW max \in Windows, SetMaxActive(max) PROVE max_active' >= max_active
  BY <1>1, ConstantsAssumption DEF SetMaxActive, Minimum
<1>2. ASSUME NEW active \in AutoTuned, NEW room \in BOOLEAN, WriteMax(active, room)
      PROVE  max_active' >= max_active
  BY <1>2, AutoTunedGrows DEF WriteMax
<1>3. ASSUME NEW p \in pkts, Deliver(p) \/ Drop(p) \/ Acked(p) \/ Lost(p)
      PROVE  max_active' = max_active
  BY <1>3 DEF Deliver, Drop, Acked, Lost, receiver
<1>4. ASSUME NEW n \in 1..Total,
             Send(n) \/ SendAtomicBlocked(n) \/ MarkAsSent(n) \/ Arrive(n)
             \/ AddRetired(n)
      PROVE  max_active' = max_active
  BY <1>4 DEF Send, SendAtomicBlocked, MarkAsSent, Arrive, AddRetired, receiver
<1>5. ASSUME TakeStreamId \/ WriteBlocked PROVE max_active' = max_active
  BY <1>5 DEF TakeStreamId, WriteBlocked, receiver
<1>6. max_active' >= max_active \/ UNCHANGED vars
  BY <1>1, <1>2, <1>3, <1>4, <1>5 DEF Next
<1> QED
  BY <1>6

\* The inductive invariant holds as long as no window is shrunk.
THEOREM Inductive == Spec /\ NeverShrunk => []IInv
BY InitInv, NextInv, PTL DEF Spec, NeverShrunk

\* For connection bytes and stream counts, whatever the windows and in whatever
\* order frames are lost and arrive: the sender's limit is never above what the
\* receiver enforces and never exceeded (SenderFlowControl::consume), so the
\* receiver never reports FlowControl (consume, is_new_stream), and its unsigned
\* window arithmetic never wraps (should_send_update, auto_tune_inner).
THEOREM FlowControlSafe ==
    Spec => [](subject # "stream" => CreditSound)
<1> DEFINE I == subject # "stream" => IInv
<1>1. I => (subject # "stream" => CreditSound)
  BY DEF IInv, TypeOK, CreditChain, GrantBounded, CreditSound
<1>2. I /\ [Next]_vars => I'
  <2> SUFFICES ASSUME I, [Next]_vars, subject' # "stream" PROVE IInv'
    OBVIOUS
  <2>1. subject # "stream"
    BY DEF Next, vars
  <2> QED
    BY <2>1, NextInv, OnlyStreamsShrink DEF IInv
<1>3. Init => I
  BY InitInv
<1> QED
  BY <1>1, <1>2, <1>3, PTL DEF Spec

\* For a stream's own window the same holds as long as the application only
\* raises it through set_stream_max_data.
THEOREM StreamFlowControlSafe ==
    Spec /\ NeverShrunk => [](CreditSound)
<1>1. IInv => CreditSound
  BY DEF IInv, TypeOK, CreditChain, GrantBounded, CreditSound
<1> QED
  BY <1>1, Inductive, PTL

\* A limit that was granted is never taken back (frame_sent never lowers
\* max_allowed) while no window is shrunk.
THEOREM NoRetraction == Spec /\ NeverShrunk => LimitNeverRetracted
<1>1. ASSUME IInv, [Next]_vars, [max_active' >= max_active]_vars
      PROVE  [max_allowed' >= max_allowed]_vars
  <2> USE <1>1 DEF IInv, TypeOK
  <2>1. ASSUME NEW max \in Windows, SetMaxActive(max) PROVE max_allowed' = max_allowed
    BY <2>1 DEF SetMaxActive
  <2>2. ASSUME NEW active \in AutoTuned, NEW room \in BOOLEAN, WriteMax(active, room)
        PROVE  max_allowed' >= max_allowed
    <3>1. active \in Nat /\ active >= max_active
      BY AutoTunedGrows
    <3>2. next_limit(active) >= max_allowed
      BY <3>1, NextLimitGrows
    <3>3. max_allowed' = next_limit(active) \/ max_allowed' = max_allowed
      BY <2>2 DEF WriteMax
    <3> QED
      BY <3>2, <3>3
  <2>3. ASSUME NEW p \in pkts, Deliver(p) \/ Drop(p) \/ Acked(p) \/ Lost(p)
        PROVE  max_allowed' = max_allowed
    BY <2>3 DEF Deliver, Drop, Acked, Lost, receiver
  <2>4. ASSUME NEW n \in 1..Total,
               Send(n) \/ SendAtomicBlocked(n) \/ MarkAsSent(n) \/ Arrive(n)
               \/ AddRetired(n)
        PROVE  max_allowed' = max_allowed
    BY <2>4 DEF Send, SendAtomicBlocked, MarkAsSent, Arrive, AddRetired, receiver
  <2>5. ASSUME TakeStreamId \/ WriteBlocked PROVE max_allowed' = max_allowed
    BY <2>5 DEF TakeStreamId, WriteBlocked, receiver
  <2>6. max_allowed' >= max_allowed \/ UNCHANGED vars
    BY <2>1, <2>2, <2>3, <2>4, <2>5 DEF Next
  <2> QED
    BY <2>6
<1> QED
  BY <1>1, Inductive, PTL DEF Spec, NeverShrunk, LimitNeverRetracted
=============================================================================
