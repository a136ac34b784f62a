----------------------------- MODULE SendStream -----------------------------
(***************************************************************************)
(* The sending part of one QUIC stream: SendStream, its State and TxBuffer *)
(* (send_stream.rs), with the STOP_SENDING, MAX_STREAM_DATA, MAX_DATA and  *)
(* initial-limit handling of streams.rs that drives it.  What the range    *)
(* tracker does to bytes is taken from ByteRanges.  Packets that carry the *)
(* stream's frames stay in pkts until acknowledged or forgotten: loss      *)
(* recovery may put the frames of one packet back twice (a probe timeout,  *)
(* then a declared loss) and may still see it acknowledged afterwards.     *)
(***************************************************************************)
EXTENDS Integers, FiniteSets, FiniteSetsExt, Sequences, SequencesExt

CONSTANTS
    MaxBytes,        \* bound: bytes the application writes
    MaxSize,         \* TxBuffer::MAX_SIZE
    StreamLimits,    \* max_stream_data: the initial limit (the least) and later ones
    ConnLimits,      \* max_data, likewise
    Others,          \* bound: connection credit that other streams consume
    Watermarks,      \* low watermarks the application may set, 1 included
    Priorities,      \* pairs of transmission and effective priority
    Commits,         \* whether the application uses commit()
    ZeroRtt,         \* the stream was created with remembered limits
    MaxPackets,      \* bound: packets that can be outstanding at once
    MaxLosses        \* bound: probe timeouts and losses

VARIABLES
    ss,              \* the stream
    conn_fc,         \* the connection's sender flow control
    pkts,            \* outstanding packets, in the order they were sent
    losses,          \* how many times frames were put back
    early            \* ZeroRtt, and the handshake parameters are still to come

vars == <<ss, conn_fc, pkts, losses, early>>

B == INSTANCE ByteRanges WITH MaxOffset <- MaxBytes, status <- ss.bytes

None == -1
Least(S) == Min(S)
NoBytes == [b \in 0 .. (MaxBytes - 1) |-> "unsent"]

-----------------------------------------------------------------------------
(* Flow control and send buffer, as the stream uses them *)

\* Variant: off by one.
AvailableOneMore(fc) == fc.limit - fc.used + 1
available(fc) == fc.limit - fc.used
blocked(fc) == IF fc.blocked_at # None /\ fc.limit <= fc.blocked_at THEN fc
               ELSE [fc EXCEPT !.blocked_at = fc.limit, !.blocked_frame = TRUE]
is_blocked(fc) == fc.blocked_at # None /\ fc.blocked_frame /\ fc.limit <= fc.blocked_at

NewCredit(limit) == [limit |-> limit, used |-> 0, blocked_at |-> None, blocked_frame |-> FALSE]

\* Raising a limit also withdraws the blocked frame; update() ignores a decrease.
Raised(fc, limit) == [fc EXCEPT !.limit = limit, !.blocked_frame = FALSE]

\* retired(): the acknowledged prefix, which the buffer no longer holds.
Prefix(bytes) == Least({b \in 0 .. MaxBytes : b = MaxBytes \/ bytes[b] # "acked"})
Buffering(s) == s.state \in {"Send", "DataSent", "ResetSentReliable"}
Open(s) == s.state \in {"Ready", "Send"}
Resetting(s) == s.state \in {"ResetSent", "ResetSentReliable"}
retired(s) == IF Buffering(s) THEN Prefix(s.bytes) ELSE s.retired
buffered(s) == s.written - retired(s)

tx_avail(s) == CASE s.state = "Ready" -> MaxSize
                 [] s.state \in {"Send", "DataSent"} -> MaxSize - buffered(s)
                 [] OTHER -> 0

avail(s, conn) == IF Open(s) THEN Least({available(s.fc), available(conn), tx_avail(s)}) ELSE 0

\* Variant: the watermark itself does not count.
WritableAbove(s, conn, previous, current) ==
    IF s.watermark < previous \/ current <= s.watermark \/ avail(s, conn) < s.watermark
    THEN s ELSE [s EXCEPT !.writable = TRUE]
\* maybe_emit_writable_event(): s, conn are the values after the change.
Writable(s, conn, previous, current) ==
    IF s.watermark < previous \/ current < s.watermark \/ avail(s, conn) < s.watermark
    THEN s ELSE [s EXCEPT !.writable = TRUE]

Init ==
    LET fc == NewCredit(Least(StreamLimits))
        conn == NewCredit(Least(ConnLimits))
        new == [state |-> "Ready", bytes |-> NoBytes, written |-> 0, retired |-> 0,
                fc |-> fc, fin_sent |-> FALSE, fin_acked |-> FALSE, committed |-> 0,
                final_size |-> None, reliable_size |-> 0, reset_priority |-> None,
                reset_acked |-> FALSE, retransmission_offset |-> 0, bytes_sent |-> 0,
                watermark |-> 1, writable |-> FALSE, stopped |-> FALSE,
                priority |-> CHOOSE p \in Priorities : TRUE]
    IN  /\ ss = [new EXCEPT !.writable = avail(new, conn) > 0]
        /\ conn_fc = conn
        /\ pkts = <<>> /\ losses = 0 /\ early = ZeroRtt

-----------------------------------------------------------------------------
(* The application *)

\* send_internal(): n bytes are offered; an atomic write is all or nothing.
Send(n, atomic) ==
    LET s == IF ss.state = "Ready" THEN [ss EXCEPT !.state = "Send"] ELSE ss
        room == avail(s, conn_fc)
        len == Least({n, room})
        short == atomic /\ room > 0 /\ room < n
    IN  /\ Open(ss)
        /\ n <= MaxBytes - ss.written
        /\ IF short \/ room = 0
           THEN /\ ss' = IF short /\ available(s.fc) <= n
                         THEN [s EXCEPT !.fc = blocked(s.fc)] ELSE s
                /\ conn_fc' = IF short /\ available(conn_fc) <= n
                              THEN blocked(conn_fc) ELSE conn_fc
           ELSE /\ ss' = [s EXCEPT !.written = @ + len, !.fc.used = @ + len]
                /\ conn_fc' = [conn_fc EXCEPT !.used = @ + len]
        /\ UNCHANGED <<pkts, losses, early>>

close ==
    /\ Open(ss)
    /\ ss' = [ss EXCEPT !.state = "DataSent"]
    /\ UNCHANGED <<conn_fc, pkts, losses, early>>

\* commit(): an error once the stream is reset.
commit ==
    /\ Commits
    /\ ss.state \in {"Send", "DataSent"}
    /\ ss' = [ss EXCEPT !.committed = ss.written]
    /\ UNCHANGED <<conn_fc, pkts, losses, early>>

\* The send buffer is dropped and its counters are kept.
Dropped(s, state) == [s EXCEPT !.state = state, !.retired = retired(s), !.bytes = NoBytes]

\* Variant: only what was committed counts.
FinalSizeCommitted(s) == s.committed
\* The final size a reset announces: everything that was written.
FinalSize(s) == s.written

\* reset(), on a copy of the stream; nothing happens in a terminal state.
reset(s) ==
    LET size == Least({s.committed, s.written})
        r == [s EXCEPT !.final_size = FinalSize(s), !.reliable_size = size,
                       !.reset_priority = s.priority[1], !.reset_acked = FALSE]
    IN  IF s.state \notin {"Ready", "Send", "DataSent"} THEN s
        ELSE IF size = 0 \/ retired(s) >= size THEN Dropped(r, "ResetSent")
        ELSE [r EXCEPT !.state = "ResetSentReliable"]

Reset ==
    /\ ss.state \in {"Ready", "Send", "DataSent"}
    /\ ss' = reset(ss)
    /\ UNCHANGED <<conn_fc, pkts, losses, early>>

SetWatermark(w) ==
    /\ w # ss.watermark
    /\ ss' = [ss EXCEPT !.watermark = w]
    /\ UNCHANGED <<conn_fc, pkts, losses, early>>

set_priority(p) ==
    /\ p # ss.priority
    /\ ss' = [ss EXCEPT !.priority = p]
    /\ UNCHANGED <<conn_fc, pkts, losses, early>>

\* The application takes the SendStreamWritable event.
TakeEvent ==
    /\ ss.writable
    /\ ss' = [ss EXCEPT !.writable = FALSE]
    /\ UNCHANGED <<conn_fc, pkts, losses, early>>

-----------------------------------------------------------------------------
(* Frames from the peer *)

drop_commitment(s) ==
    IF s.state \in {"Send", "DataSent"} THEN [s EXCEPT !.committed = 0]
    ELSE IF s.state # "ResetSentReliable" THEN s
    ELSE IF s.reset_acked THEN Dropped(s, "ResetRecvd")
    ELSE [Dropped(s, "ResetSent") EXCEPT !.reliable_size = 0]

\* STOP_SENDING: the event replaces a pending writable event.
StopSending ==
    /\ ss' = [reset(drop_commitment(ss)) EXCEPT !.writable = FALSE, !.stopped = TRUE]
    /\ UNCHANGED <<conn_fc, pkts, losses, early>>

set_max_stream_data(s, conn, limit) ==
    LET raised == [s EXCEPT !.fc = Raised(s.fc, limit)]
    IN  IF Open(s) /\ limit > s.fc.limit
        THEN Writable(raised, conn, available(s.fc), available(raised.fc)) ELSE s

MaxStreamData(limit) ==
    /\ ss' = set_max_stream_data(ss, conn_fc, limit)
    /\ UNCHANGED <<conn_fc, pkts, losses, early>>

handle_max_data(limit) ==
    /\ limit > conn_fc.limit
    /\ conn_fc' = Raised(conn_fc, limit)
    /\ ss' = Writable(ss, conn_fc', available(conn_fc), available(conn_fc'))
    /\ UNCHANGED <<pkts, losses, early>>

\* set_initial_limits() on a client that resumed: the streams first, then the
\* connection's own limit.
set_initial_limits(limit, conn_limit) ==
    /\ early
    /\ early' = FALSE
    /\ ss' = set_max_stream_data(ss, conn_fc, limit)
    /\ conn_fc' = IF conn_limit > conn_fc.limit THEN Raised(conn_fc, conn_limit) ELSE conn_fc
    /\ UNCHANGED <<pkts, losses>>

\* Other streams of the connection share its credit.
OtherStreams ==
    /\ available(conn_fc) > 0
    /\ conn_fc.used - ss.written < Others
    /\ conn_fc' = [conn_fc EXCEPT !.used = @ + 1]
    /\ UNCHANGED <<ss, pkts, losses, early>>

-----------------------------------------------------------------------------
(* Writing frames *)

Unsent(s) == {b \in 0 .. (s.written - 1) : s.bytes[b] = "unsent"}

\* Variant: a reset does not limit what is sent.
SendLimitAll(s, retransmission) == s.written
\* How far next_bytes() may go.
SendLimit(s, retransmission) ==
    CASE s.state = "ResetSentReliable" /\ retransmission ->
            Least({s.retransmission_offset, s.reliable_size})
      [] s.state = "ResetSentReliable" /\ ~retransmission -> s.reliable_size
      [] s.state = "Send" /\ retransmission -> s.retransmission_offset
      [] OTHER -> s.written

\* Variant: a lone FIN is overlooked.
HasNextBytesOnly(s, retransmission) ==
    Buffering(s) /\ Unsent(s) # {} /\ Least(Unsent(s)) < SendLimit(s, retransmission)
\* has_next_bytes()
has_next_bytes(s, retransmission) ==
    LET before(limit) == Unsent(s) # {} /\ Least(Unsent(s)) < limit
    IN  CASE s.state = "Send" /\ retransmission -> before(s.retransmission_offset)
          [] s.state = "Send" /\ ~retransmission -> Unsent(s) # {}
          [] s.state = "DataSent" -> Unsent(s) # {} \/ ~s.fin_sent
          [] s.state = "ResetSentReliable" /\ retransmission ->
                before(Least({s.retransmission_offset, s.reliable_size}))
          [] s.state = "ResetSentReliable" /\ ~retransmission -> before(s.reliable_size)
          [] OTHER -> FALSE

\* next_bytes(): offset and length of the next range, or <<>>.
next_bytes(s, retransmission) ==
    LET limit == SendLimit(s, retransmission)
        off == Least(Unsent(s))
        end == Least({b \in off .. s.written : b = s.written \/ s.bytes[b] # "unsent"})
    IN  IF ~Buffering(s) THEN <<>>
        ELSE IF Unsent(s) = {}
        THEN IF s.state = "DataSent" /\ ~s.fin_sent THEN <<s.written, 0>> ELSE <<>>
        ELSE IF off < limit THEN <<off, Least({end, limit}) - off>> ELSE <<>>

has_data_at(s, p) ==
    IF s.state = "ResetSent" THEN s.reset_priority = p
    ELSE \/ s.state = "ResetSentReliable" /\ s.reset_priority = p
         \/ p = s.priority[1] /\ Open(s) /\ is_blocked(s.fc)
         \/ p \in {s.priority[1], s.priority[2]} /\ has_next_bytes(s, p # s.priority[1])

\* The frames write_frames() puts in a packet: those of Fits have room, and n
\* bytes of the next range do.
Frames(s, p, Fits, n) ==
    LET reset_due == Resetting(s) /\ s.reset_priority = p /\ "reset" \in Fits
        reset_frame == [kind |-> "reset", size |-> s.final_size, reliable |-> s.reliable_size]
        only == reset_due /\ s.state = "ResetSent"
        blocked_due == ~only /\ p = s.priority[1] /\ Open(s) /\ is_blocked(s.fc)
                             /\ "blocked" \in Fits
        next == next_bytes(s, p # s.priority[1])
        stream_due == ~only /\ p \in {s.priority[1], s.priority[2]} /\ next # <<>>
                            /\ "stream" \in Fits /\ n <= next[2]
        fin == s.state = "DataSent" /\ next[1] + n = s.written
    IN  (IF reset_due THEN <<reset_frame>> ELSE <<>>)
        \o (IF blocked_due THEN <<[kind |-> "blocked", limit |-> s.fc.limit]>> ELSE <<>>)
        \o (IF stream_due /\ (n > 0 \/ fin)
            THEN <<[kind |-> "stream", off |-> next[1], len |-> n, fin |-> fin]>> ELSE <<>>)

All == {"reset", "blocked", "stream"}

\* What sending a frame does to the stream; mark_as_sent() for stream data.
SentFrame(s, f) ==
    CASE f.kind = "reset" -> [s EXCEPT !.reset_priority = None]
      [] f.kind = "blocked" -> [s EXCEPT !.fc.blocked_frame = FALSE]
      [] f.kind = "stream" ->
           [s EXCEPT !.bytes_sent = Max({@, f.off + f.len}),
                     !.bytes = B!Sent(@, f.off, f.len),
                     !.fc = IF Open(s) /\ available(@) <= 0 THEN blocked(@) ELSE @,
                     !.fin_sent = @ \/ f.fin]

WriteFrames(p, Fits, n) ==
    LET frames == Frames(ss, p, Fits, n)
    IN  /\ Len(pkts) < MaxPackets
        /\ frames # <<>>
        /\ ss' = FoldLeft(SentFrame, ss, frames)
        /\ conn_fc' = IF /\ \E i \in DOMAIN frames : frames[i].kind = "stream"
                         /\ Open(ss) /\ available(conn_fc) <= 0
                      THEN blocked(conn_fc) ELSE conn_fc
        /\ pkts' = Append(pkts, [frames |-> frames, got |-> FALSE, pto |-> FALSE, lost |-> FALSE])
        /\ UNCHANGED <<losses, early>>

-----------------------------------------------------------------------------
(* Acknowledgment and loss *)

reset_acked(s) ==
    CASE s.state = "ResetSent" -> [s EXCEPT !.state = "ResetRecvd"]
      [] s.state = "ResetSentReliable" /\ retired(s) >= s.reliable_size -> Dropped(s, "ResetRecvd")
      [] s.state = "ResetSentReliable" /\ retired(s) < s.reliable_size ->
            [s EXCEPT !.reset_acked = TRUE]
      [] OTHER -> s

\* Variant: the FIN alone completes the stream.
FinAcked(a, fin) == fin
\* Everything including the FIN is acknowledged.
AllAcked(a, fin) == fin /\ buffered(a) = 0

mark_as_acked(s, f) ==
    LET a == IF Buffering(s) THEN [s EXCEPT !.bytes = B!Acked(@, f.off, f.len)] ELSE s
        fin == a.fin_acked \/ f.fin
    IN  CASE s.state = "Send" -> Writable(a, conn_fc, tx_avail(s), tx_avail(a))
          [] s.state = "DataSent" /\ AllAcked(a, fin) ->
                [Dropped(a, "DataRecvd") EXCEPT !.writable = FALSE, !.fin_acked = TRUE]
          [] s.state = "DataSent" /\ ~AllAcked(a, fin) -> [a EXCEPT !.fin_acked = fin]
          [] s.state = "ResetSentReliable" /\ retired(a) >= s.reliable_size ->
                Dropped(a, IF s.reset_acked THEN "ResetRecvd" ELSE "ResetSent")
          [] OTHER -> a

AckedFrame(s, f) ==
    CASE f.kind = "reset" -> reset_acked(s)
      [] f.kind = "stream" -> mark_as_acked(s, f)
      [] f.kind = "blocked" -> s

Acked(i) ==
    /\ ss' = FoldLeft(AckedFrame, ss, pkts[i].frames)
    /\ pkts' = RemoveAt(pkts, i)
    /\ UNCHANGED <<conn_fc, losses, early>>

\* Variant: a lost reset is not sent again.
ResetForgotten(s) == s
reset_lost(s) == IF Resetting(s) THEN [s EXCEPT !.reset_priority = s.priority[2]] ELSE s

\* Variant: a lost FIN is not sent again.
MarkAsLostKeepsFin(s, f) ==
    [s EXCEPT !.retransmission_offset = Max({@, f.off + f.len}),
              !.bytes = IF Buffering(s) THEN B!Unmarked(@, f.off, f.len) ELSE @]
mark_as_lost(s, f) ==
    [s EXCEPT !.retransmission_offset = Max({@, f.off + f.len}),
              !.bytes = IF Buffering(s) THEN B!Unmarked(@, f.off, f.len) ELSE @,
              !.fin_sent = IF f.fin /\ s.state = "DataSent" THEN s.fin_acked ELSE @]

blocked_lost(s, limit) ==
    IF Open(s) /\ s.fc.blocked_at = limit THEN [s EXCEPT !.fc.blocked_frame = TRUE] ELSE s

LostFrame(s, f) ==
    CASE f.kind = "reset" -> reset_lost(s)
      [] f.kind = "stream" -> mark_as_lost(s, f)
      [] f.kind = "blocked" -> blocked_lost(s, f.limit)

\* A probe timeout, which sends the frames again without declaring them lost.
Pto(i) ==
    /\ losses < MaxLosses /\ ~pkts[i].pto /\ ~pkts[i].lost
    /\ losses' = losses + 1
    /\ ss' = FoldLeft(LostFrame, ss, pkts[i].frames)
    /\ pkts' = [pkts EXCEPT ![i].pto = TRUE]
    /\ UNCHANGED <<conn_fc, early>>

Lost(i) ==
    /\ losses < MaxLosses /\ ~pkts[i].lost
    /\ losses' = losses + 1
    /\ ss' = FoldLeft(LostFrame, ss, pkts[i].frames)
    /\ pkts' = [pkts EXCEPT ![i].lost = TRUE]
    /\ UNCHANGED <<conn_fc, early>>

\* A lost packet that is no longer remembered: a late acknowledgment is ignored.
Expired(i) ==
    /\ pkts[i].lost
    /\ pkts' = RemoveAt(pkts, i)
    /\ UNCHANGED <<ss, conn_fc, losses, early>>

Levels == UNION {{p[1], p[2]} : p \in Priorities}

Application == \/ \E n \in 1 .. MaxBytes, atomic \in BOOLEAN : Send(n, atomic)
               \/ close \/ commit \/ Reset \/ TakeEvent
               \/ \E w \in Watermarks : SetWatermark(w)
               \/ \E p \in Priorities : set_priority(p)

Credit == \/ \E limit \in StreamLimits : MaxStreamData(limit)
          \/ \E limit \in ConnLimits : handle_max_data(limit)
          \/ \E limit \in StreamLimits, conn_limit \in ConnLimits :
                set_initial_limits(limit, conn_limit)
          \/ OtherStreams

Write == \E p \in Levels, Fits \in SUBSET All, n \in 0 .. MaxBytes :
            WriteFrames(p, Fits, n)

Next == \/ Application \/ StopSending \/ Credit \/ Write
        \/ \E i \in DOMAIN pkts : Acked(i) \/ Pto(i) \/ Lost(i) \/ Expired(i)

Spec == Init /\ [][Next]_vars

-----------------------------------------------------------------------------
(* Properties *)

States == {"Ready", "Send", "DataSent", "DataRecvd", "ResetSent", "ResetSentReliable",
           "ResetRecvd"}
ended == ss.state \in {"DataRecvd", "ResetRecvd"}

\* States, counters and the credit of both flow controllers (the subtraction
\* in available() never underflows).
TypeOK ==
    /\ ss.state \in States
    /\ ss.bytes \in [0 .. (MaxBytes - 1) -> {"unsent", "sent", "acked"}]
    /\ ss.written \in 0 .. MaxBytes /\ retired(ss) \in 0 .. ss.written
    /\ ss.fc.used = ss.written /\ ss.fc.used <= ss.fc.limit /\ conn_fc.used <= conn_fc.limit
    /\ buffered(ss) <= MaxSize \/ ~Open(ss)
    /\ ss.reset_priority \in Levels \cup {None}
    /\ Len(pkts) <= MaxPackets

\* The frames of packets that are not lost.
InFlight == UNION {{pkts[i].frames[k] : k \in DOMAIN pkts[i].frames} :
                      i \in {j \in DOMAIN pkts : ~pkts[j].lost}}

\* Nothing is forgotten: a byte, a FIN or a reset that write_frames no longer
\* offers is in a packet that can still be acknowledged or lost, whatever
\* mixture of probe timeouts, losses and late acknowledgments came before.
NothingForgotten ==
    /\ Buffering(ss) =>
         \A b \in 0 .. (ss.written - 1) : ss.bytes[b] = "sent" =>
            \E f \in InFlight : f.kind = "stream" /\ b \in f.off .. (f.off + f.len - 1)
    /\ ss.state = "DataSent" /\ ss.fin_sent /\ ~ss.fin_acked =>
         \E f \in InFlight : f.kind = "stream" /\ f.fin
    /\ Resetting(ss) /\ ss.reset_priority = None /\ ~ss.reset_acked =>
         \E f \in InFlight : f.kind = "reset"

\* has_data_at() "must mirror every frame-emission path in write_frames": it is
\* true exactly when write_frames at that priority would write a frame, so the
\* scheduler neither skips a stream with data nor spins on one without.
HasDataMirrorsWriteFrames ==
    \A p \in Levels :
        has_data_at(ss, p) <=> \E n \in 0 .. MaxBytes : Frames(ss, p, All, n) # <<>>

\* Every final size the peer can see, on a FIN or in a reset frame, is the
\* number of bytes written, no matter how close, reset and retransmission
\* follow each other, and no frame has data beyond it.
FinalSizeAgreed ==
    \A f \in UNION {{pkts[i].frames[k] : k \in DOMAIN pkts[i].frames} : i \in DOMAIN pkts} :
        /\ f.kind = "stream" => f.off + f.len <= ss.written
        /\ f.kind = "stream" /\ f.fin => f.off + f.len = ss.written /\ ~Open(ss)
        /\ f.kind = "reset" => f.size = ss.written /\ f.reliable <= f.size /\ ~Open(ss)

\* After a reset only committed data is sent, up to the reliable size, and a
\* FIN never follows RESET_STREAM_AT ("packet loss or reordering could drop the
\* reset being delivered").
OnlyCommitted ==
    /\ Len(pkts') > Len(pkts)
    /\ ss.state \notin {"Ready", "Send", "DataSent"}
    => \A k \in DOMAIN Last(pkts').frames :
          LET f == Last(pkts').frames[k]
          IN  f.kind = "stream" => f.off + f.len <= ss.reliable_size /\ ~f.fin

bytes_acked(s) == retired(s)

\* The send statistics "can only increase", through the states that drop the
\* buffer too, and acknowledged never exceeds sent, nor sent written.
StatsIncrease ==
    /\ ss'.written >= ss.written
    /\ ss'.bytes_sent >= ss.bytes_sent
    /\ bytes_acked(ss') >= bytes_acked(ss)
    /\ bytes_acked(ss') <= ss'.bytes_sent /\ ss'.bytes_sent <= ss'.written

\* SendStreamWritable "is emitted whenever the available sendable bytes was
\* previously" below the watermark "and now increased" to it, whichever of the
\* three limits (stream, connection, buffer) was the last to hold it back.
Writability ==
    /\ ss'.watermark = ss.watermark
    /\ avail(ss, conn_fc) < ss.watermark
    /\ avail(ss', conn_fc') >= ss.watermark
    => ss'.writable
=============================================================================
