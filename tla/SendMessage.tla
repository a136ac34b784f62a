----------------------------- MODULE SendMessage -----------------------------
(***************************************************************************)
(* An HTTP message on its way into a QUIC stream: SendMessage and its      *)
(* MessageState (send_message.rs), the BufferedStream under it             *)
(* (buffered_send_stream.rs), and the queue of streams with pending data   *)
(* of an Http3Connection.  HEADERS frames are buffered and flushed as      *)
(* credit allows; a DATA frame goes straight into the stream, its header   *)
(* and then as much of the body as the credit leaves room for.  The        *)
(* application writes until nothing is taken, and goes on when it is told  *)
(* (DataWritable).  Bytes are counted, not represented: a part is the      *)
(* header or the payload of a frame, or what is left of one.               *)
(***************************************************************************)
EXTENDS Integers, Sequences, SequencesExt, FiniteSetsExt

CONSTANT Setups     \* role; credit, what the transport first takes; grants, amounts it
                    \* may be raised by; writes, sizes the application offers at once;
                    \* head, the size of a HEADERS frame; bounds on frames and on the
                    \* stream's limit; whether it commits, sends capsules, is stopped

VARIABLES
    setup,
    m,              \* the message and its stream, see new
    pending,        \* the stream is in streams_with_pending_data
    writable,       \* the transport's SendStreamWritable event waits
    told,           \* the application's DataWritable event waits
    waiting,        \* the application waits for it
    accepted,       \* bytes that send_data() said it took
    committed       \* bytes of the stream that are committed

vars == <<setup, m, pending, writable, told, waiting, accepted, committed>>

MIN_DATA_FRAME_SIZE == 3
MAX_DATA_HEADER_SIZE_2 == 2^6 - 1
MAX_DATA_HEADER_SIZE_2_LIMIT == MAX_DATA_HEADER_SIZE_2 + 3
MAX_DATA_HEADER_SIZE_3 == 2^14 - 1
MAX_DATA_HEADER_SIZE_3_LIMIT == MAX_DATA_HEADER_SIZE_3 + 5
MAX_DATA_HEADER_SIZE_5 == 2^30 - 1
MAX_DATA_HEADER_SIZE_5_LIMIT == MAX_DATA_HEADER_SIZE_5 + 9

varint_len(n) == IF n < 2^6 THEN 1 ELSE IF n < 2^14 THEN 2 ELSE IF n < 2^30 THEN 4 ELSE 8

-----------------------------------------------------------------------------
(* Parts of frames: made is what the frames are meant to be. *)

Part(frame, kind, len) == [frame |-> frame, kind |-> kind, len |-> len]
Size(parts) == FoldLeft(LAMBDA n, p : n + p.len, 0, parts)
Join(parts, p) ==
    IF p.len = 0 THEN parts
    ELSE IF parts # <<>> /\ Last(parts).frame = p.frame /\ Last(parts).kind = p.kind
    THEN [parts EXCEPT ![Len(parts)].len = @ + p.len]
    ELSE Append(parts, p)

\* The first n bytes, and the rest.
SplitOff(parts, n) ==
    FoldLeft(LAMBDA a, p : LET k == Min({p.len, a.left})
                           IN [left |-> a.left - k,
                               out |-> Join(a.out, [p EXCEPT !.len = k]),
                               rest |-> Join(a.rest, [p EXCEPT !.len = p.len - k])],
             [left |-> n, out |-> <<>>, rest |-> <<>>], parts)

HeadersParts(i, n) == <<Part(i, "headers", n)>>
DataHeader(i, n) == <<Part(i, "header", 1 + varint_len(n))>>
DataParts(i, n) == DataHeader(i, n) \o <<Part(i, "data", n)>>
FrameParts(i, f) == IF f.type = "HEADERS" THEN HeadersParts(i, f.len) ELSE DataParts(i, f.len)
Layout(made) == FoldLeft(LAMBDA ps, i : ps \o FrameParts(i, made[i]), <<>>, [i \in 1 .. Len(made) |-> i])

-----------------------------------------------------------------------------
(* The transport stream, and BufferedStream *)

Taken(w, parts) ==
    [w EXCEPT !.wire = FoldLeft(Join, @, parts), !.avail = @ - Size(parts)]
stream_send_atomic(w, parts) == IF Size(parts) > w.avail THEN w ELSE Taken(w, parts)

has_buffered_data(w) == w.buf # <<>>
buffer(w, parts) == [w EXCEPT !.buf = @ \o parts]
send_buffer(w) ==
    LET s == SplitOff(w.buf, w.avail) IN [Taken(w, s.out) EXCEPT !.buf = s.rest]

prepare_atomic_send(w) == [ready |-> ~has_buffered_data(send_buffer(w)), w |-> send_buffer(w)]

send_atomic(w, parts) ==
    LET p == prepare_atomic_send(w)
    IN  [sent |-> p.ready /\ Size(parts) <= p.w.avail,
         w |-> IF p.ready THEN stream_send_atomic(p.w, parts) ELSE p.w]
\* The frame header is encoded into the buffer, which is cleared again.
send_atomic_with(w, parts) == send_atomic(w, parts)

-----------------------------------------------------------------------------
(* MessageState and SendMessage *)

new == [state |-> "WaitingForHeaders", buf |-> <<>>, wire |-> <<>>, made |-> <<>>,
        avail |-> setup.credit, watermark |-> 1, fin |-> FALSE, asserted |-> FALSE]

HeaderKinds(w) ==
    CASE w.state = "WaitingForHeaders" ->
            IF setup.role = "server" THEN {"final", "interim"} ELSE {"final"}
      [] w.state = "WaitingForData" -> {"trailers"}
      [] OTHER -> {}
new_headers(w, kind) ==
    CASE kind = "final" -> "WaitingForData" [] kind = "trailers" -> "TrailersSet" [] OTHER -> w.state
new_data(w) == w.state = "WaitingForData"
fin(w) == IF w.state \in {"WaitingForData", "TrailersSet"} THEN "Done" ELSE w.state
done(w) == w.state = "Done"

\* HFrame::Headers with what the QPACK encoder makes of the headers.
encode(w) == HeadersParts(Len(w.made) + 1, setup.head)
send_headers(w, kind) ==
    [buffer(w, encode(w)) EXCEPT !.state = new_headers(w, kind),
                                 !.made = Append(@, [type |-> "HEADERS", len |-> setup.head])]

\* Variant: a byte more is taken to fit.
ToSendOneMore(available, n) == Min({n, available - 1, MAX_DATA_HEADER_SIZE_2})
\* How much of a body of n bytes goes into a frame; the last two limits are used
\* for one another, which is harmless.
ToSend(available, n) ==
    IF available <= MAX_DATA_HEADER_SIZE_2_LIMIT THEN Min({n, available - 2, MAX_DATA_HEADER_SIZE_2})
    ELSE IF available <= MAX_DATA_HEADER_SIZE_3_LIMIT THEN Min({n, available - 3, MAX_DATA_HEADER_SIZE_3})
    ELSE IF available <= MAX_DATA_HEADER_SIZE_5 THEN Min({n, available - 5, MAX_DATA_HEADER_SIZE_5_LIMIT})
    ELSE Min({n, available - 9})

\* Variant: the watermark is left alone.
TooSmallForgets(w) == w
TooSmall(w) == [w EXCEPT !.watermark = MIN_DATA_FRAME_SIZE]

send_data(w, n) ==
    LET b == send_buffer(w)
        i == Len(b.made) + 1
        k == ToSend(b.avail, n)
        header == send_atomic_with(b, DataHeader(i, k))
        body == send_atomic(header.w, <<Part(i, "data", k)>>)
    IN  IF has_buffered_data(b) THEN [n |-> 0, w |-> b]
        ELSE IF b.avail < MIN_DATA_FRAME_SIZE THEN [n |-> 0, w |-> TooSmall(b)]
        ELSE [n |-> k, w |-> [body.w EXCEPT !.made = Append(@, [type |-> "DATA", len |-> k]),
                                            !.asserted = @ \/ ~header.sent \/ ~body.sent]]

\* A DATA frame with a capsule: all of it, buffered if need be.
send_data_atomic(w, n) ==
    send_buffer([buffer(w, DataParts(Len(w.made) + 1, n)) EXCEPT !.made = Append(@, [type |-> "DATA", len |-> n])])

\* Variant: the stream is closed though data is buffered.
CloseNow(w) == [w EXCEPT !.state = fin(w), !.fin = TRUE]
close(w) == [w EXCEPT !.state = fin(w), !.fin = @ \/ (fin(w) # w.state /\ ~has_buffered_data(w))]

\* done() is what makes the connection forget the stream.
Removed(w) == IF done(w) /\ ~has_buffered_data(w) THEN [w EXCEPT !.state = "Removed"] ELSE w

-----------------------------------------------------------------------------
Init ==
    /\ setup \in Setups
    /\ m = new
    /\ pending = FALSE /\ writable = (setup.credit > 0) /\ told = FALSE /\ waiting = FALSE
    /\ accepted = 0 /\ committed = 0

(* The application *)

\* The client's event goes with the stream, the server's stays.
send_closed == told /\ setup.role = "server"

SendHeaders(kind) ==
    /\ kind \in HeaderKinds(m) /\ Len(m.made) < setup.frames
    /\ m' = send_headers(m, kind)
    /\ pending' = TRUE
    /\ UNCHANGED <<setup, writable, told, waiting, accepted, committed>>

\* The server's handler also asks for process_sending() to come back to it.
SendData(n) ==
    /\ ~setup.capsules /\ new_data(m) /\ ~waiting /\ Len(m.made) < setup.frames
    /\ \E r \in {send_data(m, n)} :
          /\ m' = r.w
          /\ waiting' = (r.n = 0)
          /\ accepted' = accepted + r.n
          /\ pending' = (pending \/ (setup.role = "server" /\ r.n > 0))
    /\ UNCHANGED <<setup, writable, told, committed>>

\* A datagram on the control stream of a session, which takes nothing else; it is
\* refused unless there is credit for the whole frame.
write_datagram_capsule(n) ==
    /\ setup.capsules /\ new_data(m) /\ Len(m.made) < setup.frames
    /\ LET needed == Size(DataParts(1, n))
       IN  IF m.avail < needed
           THEN m' = [m EXCEPT !.watermark = needed] /\ UNCHANGED accepted
           ELSE m' = [send_data_atomic(m, n) EXCEPT !.watermark = 1] /\ accepted' = accepted + n
    /\ UNCHANGED <<setup, pending, writable, told, waiting, committed>>

\* The session's last capsule, and the end of its stream.
close_session(n) ==
    /\ setup.capsules /\ new_data(m) /\ Len(m.made) < setup.frames
    /\ m' = Removed(close(send_data_atomic(m, n)))
    /\ accepted' = accepted + n
    /\ told' = send_closed /\ waiting' = FALSE
    /\ pending' = (pending \/ has_buffered_data(m'))
    /\ UNCHANGED <<setup, writable, committed>>

TakeWritable ==
    /\ told
    /\ told' = FALSE /\ waiting' = FALSE
    /\ UNCHANGED <<setup, m, pending, writable, accepted, committed>>

\* commit(): an error unless everything could be flushed.
Commit ==
    /\ setup.commits /\ m.state \notin {"Done", "Removed"}
    /\ m' = send_buffer(m)
    /\ committed' = IF has_buffered_data(m') THEN committed ELSE Size(m'.wire)
    /\ UNCHANGED <<setup, pending, writable, told, waiting, accepted>>

stream_close_send ==
    /\ m.state \in {"WaitingForData", "TrailersSet"}
    /\ m' = Removed(close(m))
    /\ told' = send_closed /\ waiting' = FALSE
    /\ pending' = (pending \/ has_buffered_data(m'))
    /\ UNCHANGED <<setup, writable, accepted, committed>>

(* The connection *)

\* send_non_control_streams() and send().
ProcessSending ==
    /\ pending
    /\ \E w \in {send_buffer(m)} :
          /\ m' = Removed([w EXCEPT !.fin = @ \/ (done(w) /\ ~has_buffered_data(w))])
          /\ pending' = has_buffered_data(w)
          /\ told' = (told \/ (~has_buffered_data(w) /\ w.state \notin {"Done", "Removed"}))
    /\ UNCHANGED <<setup, writable, waiting, accepted, committed>>

\* stream_writable().
HandleWritable ==
    /\ writable
    /\ writable' = FALSE
    /\ told' = (told \/ (~has_buffered_data(m) /\ m.state \notin {"Done", "Removed"}))
    /\ UNCHANGED <<setup, m, pending, waiting, accepted, committed>>

\* The peer stops the stream; the handler goes, with its events.
handle_stop_sending ==
    /\ setup.stops /\ m.state # "Removed"
    /\ m' = [m EXCEPT !.state = "Removed", !.buf = <<>>, !.made = <<>>, !.wire = <<>>]
    /\ writable' = FALSE /\ told' = send_closed /\ waiting' = FALSE /\ accepted' = 0 /\ committed' = 0
    /\ UNCHANGED <<setup, pending>>

(* The transport *)

\* More credit; the event is for reaching the watermark.
Grant(n) ==
    /\ m.state # "Removed" /\ Size(m.wire) + m.avail + n <= setup.limit
    /\ m' = [m EXCEPT !.avail = @ + n]
    /\ writable' = (writable \/ (m.avail <= m.watermark /\ m.watermark <= m.avail + n))
    /\ UNCHANGED <<setup, pending, told, waiting, accepted, committed>>

Next ==
    \/ \E kind \in {"final", "interim", "trailers"} : SendHeaders(kind)
    \/ \E n \in setup.writes : SendData(n) \/ write_datagram_capsule(n) \/ close_session(n)
    \/ TakeWritable \/ Commit \/ stream_close_send
    \/ ProcessSending \/ HandleWritable \/ handle_stop_sending
    \/ \E n \in setup.grants : Grant(n)

Spec == Init /\ [][Next]_vars

-----------------------------------------------------------------------------
(* What goes into the stream is whole frames, in order: the payload of a   *)
(* DATA frame follows its header, has the length that it says, and is not  *)
(* separated by a frame that was buffered; it adds up to what send_data()  *)
(* said it took.  Neither assertion of send_data() fails.  The stream ends *)
(* after the last frame, and a commitment ends with a frame.               *)
FramesAreWhole ==
    /\ ~m.asserted
    /\ FoldLeft(Join, m.wire, m.buf) = Layout(m.made)
    /\ accepted = FoldLeft(LAMBDA n, f : IF f.type = "DATA" THEN n + f.len ELSE n, 0, m.made)
    /\ m.fin => m.buf = <<>> /\ m.state = "Removed"
    /\ \E i \in 0 .. Len(m.made) : committed = Size(Layout(SubSeq(m.made, 1, i)))

(* An application that waits is told when it can write: with no event      *)
(* under way and nothing to flush, there is no room for a DATA frame.      *)
(* What is buffered is flushed.                                            *)
WriterIsTold ==
    /\ waiting /\ ~told /\ ~writable /\ ~pending => m.avail < MIN_DATA_FRAME_SIZE
    /\ m.buf # <<>> => pending
=============================================================================
