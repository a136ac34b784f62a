--------------------------- MODULE Http3Messages ---------------------------
(***************************************************************************)
(* HTTP messages of neqo-http3 in one direction: SendMessage at one end,   *)
(* RecvMessage at the other, with the header blocks compressed by Qpack    *)
(* and the streams reset and stopped by either application.  The           *)
(* transport's event queue at the receiver is part of the model: several   *)
(* packets may arrive before the HTTP layer looks at its events, and an    *)
(* event may be stale by the time it is handled.                           *)
(***************************************************************************)
EXTENDS Qpack

VARIABLES
    sm,        \* SendMessage of each stream: its MessageState, or "Removed", and
               \* the number of frames it has sent
    wire,      \* frames of each stream that were written and have not arrived
    stopped,   \* streams whose STOP_SENDING is under way to the sender
    rx,        \* what has arrived and was not read
    rm,        \* RecvMessage of each stream
    events,    \* transport events the receiver's HTTP layer has to handle
    reading    \* streams whose data the receiving application still wants to read

mvars == <<sm, wire, stopped, rx, rm, events, reading>>
vars == <<qvars, mvars>>

\* What a stream carries: HEADERS, DATA and its payload, the FIN or a reset.
Headers(kind, block) == [frame |-> "headers", kind |-> kind, block |-> block]
Data(len) == [frame |-> "data", len |-> len]
Byte == [frame |-> "byte"]
Fin == [frame |-> "fin"]
Reset == [frame |-> "reset"]

Readable(s) == [event |-> "readable", s |-> s]
ResetEvent(s) == [event |-> "reset", s |-> s]

\* The states of RecvMessage; NewStream is the NewStreamHeadReader of a stream
\* the peer opened, Removed a stream that is not in recv_streams.
RecvInit(s) == [state |-> IF s \in setup.remote THEN "NewStream" ELSE "WaitingForResponseHeaders",
                block |-> <<>>, fin |-> FALSE, remaining |-> 0]

Init == /\ QInit
        /\ sm = [s \in Streams |-> [state |-> "WaitingForHeaders", frames |-> 0]]
        /\ wire = [s \in Streams |-> <<>>] /\ rx = [s \in Streams |-> <<>>]
        /\ rm = [s \in Streams |-> RecvInit(s)]
        /\ stopped = {} /\ events = {} /\ reading = {}

-----------------------------------------------------------------------------
(* SendMessage.  What the HTTP layer buffers, what the transport has under *)
(* way and what the network holds is one queue here.                        *)

\* new_headers(): interim responses keep the state.
HeaderKinds(s) == CASE sm[s].state = "WaitingForHeaders" -> {"interim", "final"}
                    [] sm[s].state = "WaitingForData" -> {"trailers"}
                    [] OTHER -> {}
AfterHeaders(kind) == CASE kind = "interim" -> "WaitingForHeaders"
                        [] kind = "final" -> "WaitingForData"
                        [] kind = "trailers" -> "TrailersSet"

send_headers(s) ==
    \E kind \in HeaderKinds(s) \cap setup.kinds, list \in setup.lists[s], room \in setup.rooms :
        /\ error = "none" /\ sm[s].frames < setup.frames[s]
        /\ \E w \in {EncodeHeaderBlock(s, list, room)} :
            /\ enc' = w.e /\ estream' = estream \o w.out
            /\ wire' = [wire EXCEPT ![s] = Append(@, Headers(kind, w.block))]
            /\ sm' = [sm EXCEPT ![s] = [state |-> AfterHeaders(kind), frames |-> @.frames + 1]]
            /\ UNCHANGED <<setup, dec, dstream, settings_state, error, stopped, rx, rm, events, reading>>

send_data(s) ==
    /\ error = "none" /\ sm[s].state = "WaitingForData" /\ sm[s].frames < setup.frames[s]
    /\ sm' = [sm EXCEPT ![s].frames = @ + 1]
    /\ \E len \in setup.data :
          wire' = [wire EXCEPT ![s] = @ \o <<Data(len)>> \o [i \in 1 .. len |-> Byte]]
    /\ UNCHANGED <<qvars, stopped, rx, rm, events, reading>>

\* stream_close_send(): fin() and the removal once everything is written.
stream_close_send(s) ==
    /\ error = "none" /\ sm[s].state \in {"WaitingForData", "TrailersSet"}
    /\ sm' = [sm EXCEPT ![s].state = "Removed"]
    /\ wire' = [wire EXCEPT ![s] = Append(@, Fin)]
    /\ UNCHANGED <<qvars, stopped, rx, rm, events, reading>>

\* A reset overtakes and drops what has not arrived, whoever asked for it.
Sending(s) == sm[s].state # "Removed" \/ wire[s] \notin {<<>>, <<Reset>>}
CloseSend(s) == /\ sm' = [sm EXCEPT ![s].state = "Removed"]
                /\ wire' = [wire EXCEPT ![s] = <<Reset>>]

stream_reset_send(s) ==
    /\ error = "none" /\ s \in setup.resets /\ Sending(s)
    /\ CloseSend(s)
    /\ UNCHANGED <<qvars, stopped, rx, rm, events, reading>>

\* STOP_SENDING arrives: handle_stream_stop_sending(), and the transport resets.
StopSendingArrives(s) ==
    /\ error = "none" /\ s \in stopped
    /\ stopped' = stopped \ {s}
    /\ IF Sending(s) THEN CloseSend(s) ELSE UNCHANGED <<sm, wire>>
    /\ UNCHANGED <<qvars, rx, rm, events, reading>>

-----------------------------------------------------------------------------
(* RecvMessage.  A receiving step works on w = [d, m, rx, error, read, done]: *)
(* read is set when the application is to be told that there is data, done  *)
(* when the loop of receive_internal() is left.                             *)

FinNext(q) == q # <<>> /\ Head(q) = Fin
Ends(w, err) == [w EXCEPT !.error = err, !.done = TRUE]

ClosePendingSilently(w, post) ==
    IF w.m.state = "WaitingForResponseHeaders" THEN Ends(w, "HttpGeneralProtocolStream")
    ELSE [w EXCEPT !.m.state = "ClosePending", !.done = TRUE]

\* set_state_to_close_pending()
ClosePending(w, post) ==
    IF w.m.state = "WaitingForResponseHeaders" THEN Ends(w, "HttpGeneralProtocolStream")
    ELSE [w EXCEPT !.m.state = "ClosePending", !.read = @ \/ post, !.done = TRUE]

\* A frame was read in one of the three states that read frames.
ReadFrame(w, post) ==
    LET f == Head(w.rx)
        fin == FinNext(Tail(w.rx))
        r == [w EXCEPT !.rx = IF fin THEN Tail(Tail(@)) ELSE Tail(@)]
        then(v) == IF fin /\ ~v.done /\ v.m.state # "DecodingHeaders" THEN ClosePending(v, post) ELSE v
    IN  IF w.rx \in {<<>>, <<Reset>>} THEN [w EXCEPT !.done = TRUE]
        ELSE IF f = Fin THEN ClosePending([w EXCEPT !.rx = <<>>], post)
        ELSE IF f.frame = "headers"
        THEN then(CASE w.m.state = "WaitingForResponseHeaders" ->
                          [r EXCEPT !.m.state = "DecodingHeaders", !.m.block = f, !.m.fin = fin]
                    [] w.m.state = "WaitingForData" -> [r EXCEPT !.m.state = "WaitingForFinAfterTrailers"]
                    [] w.m.state = "WaitingForFinAfterTrailers" -> Ends(r, "HttpFrameUnexpected"))
        ELSE then(CASE w.m.state # "WaitingForData" -> Ends(r, "HttpFrameUnexpected")
                    [] w.m.state = "WaitingForData" /\ f.len = 0 -> r
                    [] w.m.state = "WaitingForData" /\ f.len > 0 ->
                          IF fin THEN Ends(r, "HttpFrame")
                          ELSE [r EXCEPT !.m.state = "ReadingData", !.m.remaining = f.len])

\* add_headers()
AddHeaders(w) ==
    LET interim == w.m.block.kind = "interim"
        m == [w.m EXCEPT !.block = <<>>, !.fin = FALSE]
    IN  IF w.m.fin /\ interim THEN Ends(w, "HttpGeneralProtocolStream")
        ELSE IF w.m.fin THEN [w EXCEPT !.m = [m EXCEPT !.state = "Removed"], !.done = TRUE]
        ELSE [w EXCEPT !.m = [m EXCEPT !.state = IF interim THEN "WaitingForResponseHeaders"
                                                 ELSE "WaitingForData"]]

DecodedHeaders(w, r) ==
    IF r.error # "none" THEN Ends(w, r.error)
    ELSE IF r.result = "blocked" THEN [w EXCEPT !.d = r.d, !.done = TRUE]
    ELSE IF r.result = "mangled" THEN Ends(w, "mangled")
    ELSE AddHeaders([w EXCEPT !.d = r.d])

\* One round of the loop of receive_internal().
ReceiveStep(w, s, post) ==
    CASE w.done -> w
      [] ~w.done /\ w.m.state \in {"WaitingForResponseHeaders", "WaitingForData",
                                   "WaitingForFinAfterTrailers"} -> ReadFrame(w, post)
      [] ~w.done /\ w.m.state = "DecodingHeaders" ->
            DecodedHeaders(w, DecodeHeaderBlock(w.d, s, w.m.block.block))
      [] ~w.done /\ w.m.state = "ReadingData" -> [w EXCEPT !.read = @ \/ post, !.done = TRUE]
      [] ~w.done /\ w.m.state \in {"ClosePending", "Removed"} -> Ends(w, "panic")

Rounds(q) == [i \in 1 .. (2 * Len(q) + 3) |-> i]
ReceiveInternal(w, s, post) ==
    LET step(v, i) == ReceiveStep(v, s, post)
    IN  FoldLeft(step, [w EXCEPT !.done = FALSE], Rounds(w.rx))


-----------------------------------------------------------------------------
(* The receiver's HTTP layer: g = [d, rm, rx, events, reading, stopped, error]. *)

Now == [d |-> dec, rm |-> rm, rx |-> rx, events |-> events, reading |-> reading,
        stopped |-> stopped, error |-> error]
Becomes(g) == /\ dec' = g.d /\ rm' = g.rm /\ rx' = g.rx /\ events' = g.events
              /\ reading' = g.reading /\ stopped' = g.stopped /\ error' = g.error

Work(g, s) == [d |-> g.d, m |-> g.rm[s], rx |-> g.rx[s], error |-> "none", read |-> FALSE,
               done |-> FALSE]

\* close_recv(): the stream is removed, and reset() cancels it with the decoder
\* unless everything was read.
CloseRecv(g, s) ==
    [g EXCEPT !.d = IF g.rm[s].state \in {"NewStream", "ClosePending", "Removed"} THEN @
                    ELSE CancelStream(@, s),
              !.rm[s] = [RecvInit(s) EXCEPT !.state = "Removed"], !.rx[s] = <<>>, !.reading = @ \ {s}]

AppliedKeepsEvent(g, s, w) ==
    LET h == [g EXCEPT !.d = w.d, !.rm[s] = w.m, !.rx[s] = w.rx,
                       !.reading = IF w.read THEN @ \cup {s} ELSE @]
    IN  IF w.error = "HttpGeneralProtocolStream"
        THEN CloseRecv([h EXCEPT !.stopped = @ \cup {s}], s)
        ELSE [h EXCEPT !.error = w.error]

\* handle_stream_manipulation_output(), after a step w of stream s.  The transport
\* drops a readable event once the FIN was read.
Applied(g, s, w) ==
    LET fin_read == g.rx[s] # <<>> /\ Last(g.rx[s]) = Fin /\ w.rx = <<>>
        h == [g EXCEPT !.d = w.d, !.rm[s] = w.m, !.rx[s] = w.rx,
                       !.events = IF fin_read THEN @ \ {Readable(s)} ELSE @,
                       !.reading = IF w.read THEN @ \cup {s} ELSE @]
    IN  IF w.error = "HttpGeneralProtocolStream"
        THEN CloseRecv([h EXCEPT !.stopped = @ \cup {s}], s)
        ELSE [h EXCEPT !.error = w.error]

\* receive() of the handler of a stream; the head of a new stream tells what it
\* is, and its new handler goes on reading.
Receive(g, s) ==
    LET opened == [g EXCEPT !.rm[s].state = "WaitingForResponseHeaders"]
        r == IF g.rm[s].state = "NewStream" THEN opened ELSE g
    IN  IF g.error # "none" \/ g.rm[s].state = "Removed" THEN g
        ELSE Applied(r, s, ReceiveInternal(Work(r, s), s, TRUE))

-----------------------------------------------------------------------------
(* Arrivals, and the events the transport posts for them. *)

StreamArrives(s, n) ==
    /\ error = "none" /\ n \in 1 .. Len(wire[s]) /\ wire[s] # <<Reset>>
    /\ wire' = [wire EXCEPT ![s] = SubSeq(@, n + 1, Len(@))]
    /\ IF rm[s].state = "Removed" THEN UNCHANGED <<rx, events>>
       ELSE /\ rx' = [rx EXCEPT ![s] = @ \o SubSeq(wire[s], 1, n)]
            /\ events' = events \cup {Readable(s)}
    /\ UNCHANGED <<qvars, sm, stopped, rm, reading>>

ResetArrives(s) ==
    /\ error = "none" /\ wire[s] = <<Reset>>
    /\ wire' = [wire EXCEPT ![s] = <<>>]
    /\ IF rm[s].state = "Removed" THEN UNCHANGED <<rx, events>>
       ELSE /\ rx' = [rx EXCEPT ![s] = <<Reset>>]
            /\ events' = (events \ {Readable(s)}) \cup {ResetEvent(s)}
    /\ UNCHANGED <<qvars, sm, stopped, rm, reading>>

handle_stream_readable(s) ==
    /\ error = "none" /\ Readable(s) \in events
    /\ Becomes(Receive([Now EXCEPT !.events = @ \ {Readable(s)}], s))
    /\ UNCHANGED <<setup, enc, estream, dstream, settings_state, sm, wire>>

handle_stream_reset(s) ==
    /\ error = "none" /\ ResetEvent(s) \in events
    /\ Becomes(CloseRecv([Now EXCEPT !.events = @ \ {ResetEvent(s)}], s))
    /\ UNCHANGED <<setup, enc, estream, dstream, settings_state, sm, wire>>

UnblockLate(d) ==
    LET ready(b) == b.req < d.table.base
        unblock(g, b) == Receive(g, b.s)
    IN  FoldLeft(unblock,
                 [Now EXCEPT !.d = [d EXCEPT !.blocked_streams = SelectSeq(@, LAMBDA b : ~ready(b))]],
                 SelectSeq(d.blocked_streams, ready))

\* Decoder::receive() and handle_unblocked_streams(): n instructions are there.
Unblock(d) ==
    LET ready(b) == b.req <= d.table.base
        unblock(g, b) == Receive(g, b.s)
    IN  FoldLeft(unblock,
                 [Now EXCEPT !.d = [d EXCEPT !.blocked_streams = SelectSeq(@, LAMBDA b : ~ready(b))]],
                 SelectSeq(d.blocked_streams, ready))
DecoderReceive(n) ==
    /\ error = "none" /\ n \in 1 .. Len(estream)
    /\ \E w \in {FoldLeft(Execute, [d |-> dec, error |-> "none"], SubSeq(estream, 1, n))} :
          Becomes(IF w.error # "none" \/ w.d.table.base = dec.table.base
                  THEN [Now EXCEPT !.d = w.d, !.error = w.error] ELSE Unblock(w.d))
    /\ estream' = SubSeq(estream, n + 1, Len(estream))
    /\ UNCHANGED <<setup, enc, dstream, settings_state, sm, wire>>

-----------------------------------------------------------------------------
(* The receiving application acts when the HTTP layer has no event to handle. *)

\* One round of the loop of read_data(): left is the space in the buffer.
ReadRound(w, s) ==
    LET ready == Max({k \in 0 .. Min({w.left, w.m.remaining}) :
                        k <= Len(w.rx) /\ \A i \in 1 .. k : w.rx[i] = Byte})
        rest == SubSeq(w.rx, ready + 1, Len(w.rx))
        fin == FinNext(rest)
        r == [w EXCEPT !.rx = IF fin THEN <<>> ELSE rest, !.m.remaining = @ - ready, !.left = @ - ready]
    IN  CASE w.over -> w
          [] ~w.over /\ w.m.state = "ReadingData" ->
                IF fin /\ r.m.remaining > 0 THEN [Ends(r, "HttpFrame") EXCEPT !.over = TRUE]
                ELSE IF fin THEN [r EXCEPT !.m.state = "Removed", !.over = TRUE]
                ELSE IF r.m.remaining = 0 THEN ReceiveInternal([r EXCEPT !.m.state = "WaitingForData"], s, FALSE)
                ELSE [r EXCEPT !.over = TRUE]
          [] ~w.over /\ w.m.state = "ClosePending" -> [w EXCEPT !.m.state = "Removed", !.over = TRUE]
          [] ~w.over /\ w.m.state \notin {"ReadingData", "ClosePending"} -> [w EXCEPT !.over = TRUE]

\* The application reads as long as its buffer is filled.
read_data(s) ==
    /\ error = "none" /\ events = {} /\ s \in reading
    /\ \E n \in setup.buffers :
          LET round(v, i) == ReadRound(v, s)
          IN  \E w \in {FoldLeft(round, [left |-> n, over |-> FALSE] @@ Work(Now, s), Rounds(rx[s]))} :
                Becomes(Applied([Now EXCEPT !.reading = IF w.left = 0 /\ w.m.state # "Removed" THEN @
                                                        ELSE @ \ {s}], s, w))
    /\ UNCHANGED <<setup, enc, estream, dstream, settings_state, sm, wire>>

\* stream_stop_sending(), also from cancel_fetch().
stream_stop_sending(s) ==
    /\ error = "none" /\ s \in setup.stops /\ events = {}
    /\ rm[s].state \notin {"NewStream", "Removed"}
    /\ Becomes([CloseRecv(Now, s) EXCEPT
                  !.stopped = IF rm[s].state = "ClosePending" THEN @ ELSE @ \cup {s}])
    /\ UNCHANGED <<setup, enc, estream, dstream, settings_state, sm, wire>>

-----------------------------------------------------------------------------

QpackSteps == (handle_settings \/ FlushEncoder \/ FlushDecoder \/ EncoderReceive) /\ UNCHANGED mvars

Next ==
    \/ QpackSteps
    \/ \E n \in DOMAIN estream : DecoderReceive(n)
    \/ \E s \in Streams :
          \/ send_headers(s) \/ send_data(s) \/ stream_close_send(s) \/ stream_reset_send(s)
          \/ StopSendingArrives(s) \/ ResetArrives(s)
          \/ \E n \in DOMAIN wire[s] : StreamArrives(s, n)
          \/ handle_stream_readable(s) \/ handle_stream_reset(s)
          \/ read_data(s) \/ stream_stop_sending(s)

Spec == Init /\ [][Next]_vars

-----------------------------------------------------------------------------
(* Properties *)

\* Two ends that follow the protocol never close the connection on each other, no
\* stream is read after its end and no reference is released that is not there,
\* whatever the order in which streams, instructions and events are handled; and
\* the decoder reproduces the headers that were encoded, although its table is
\* behind or ahead of the one the block was encoded with.
NoError == error = "none"

RefsTo(index) == Cardinality({b \in UNION {{<<s, k>> : k \in DOMAIN enc.unacked_header_blocks[s]} : s \in Streams} :
                                 index \in enc.unacked_header_blocks[b[1]][b[2]]})

\* Encoder: an entry counts the blocks that refer to it and stays while there are
\* any; blocked_stream_cnt is the number of streams that could block the decoder,
\* and keeps to the peer's limit.
ReferencesExact ==
    /\ \A i \in DOMAIN enc.table.dynamic : enc.table.dynamic[i].refs = RefsTo(enc.table.dynamic[i].index)
    /\ \A s \in Streams : \A r \in RefsOf(enc, s) : Position(enc.table, r) # {}
    /\ enc.blocked_stream_cnt = Cardinality(Blockers(enc))
    /\ enc.blocked_stream_cnt <= enc.max_blocked_streams

Contents(t) == [dynamic |-> [i \in DOMAIN t.dynamic |-> <<t.dynamic[i].index, t.dynamic[i].h>>],
                capacity |-> t.capacity, used |-> t.used, base |-> t.base]
Replayed == FoldLeft(Execute, [d |-> dec, error |-> "none"], estream)

\* The instructions on the encoder stream turn the decoder's table into the
\* encoder's, and the encoder takes no insertion for received before it was.
TablesAgree ==
    /\ error = "none" => Replayed.error = "none" /\ Contents(Replayed.d.table) = Contents(enc.table)
    /\ enc.table.acked <= dec.table.base

\* A stream whose headers cannot be decoded yet is on the decoder's list and will be
\* told when they can: the insertions it waits for are under way.  The encoder
\* counts it as blocked, which is what makes the decoder's limit hold.
BlockedAreReleased ==
    /\ \A i \in DOMAIN dec.blocked_streams : dec.blocked_streams[i].s \in Blockers(enc)
    /\ \A s \in Streams : rm[s].state = "DecodingHeaders" =>
         \E i \in DOMAIN dec.blocked_streams :
            LET b == dec.blocked_streams[i]
            IN  /\ b.s = s /\ b.req > dec.table.base
                /\ b.req - dec.table.base <= Len(SelectSeq(estream, LAMBDA x : x.op = "Insert"))

\* The application is told, or is about to be, of data and of the end of a stream
\* it has not read: an event that was spent early leaves nothing unread.
AppIsTold ==
    \A s \in Streams :
        \/ s \in reading \/ Readable(s) \in events \/ ResetEvent(s) \in events \/ error # "none"
        \/ rm[s].state \in {"NewStream", "WaitingForResponseHeaders", "WaitingForData",
                            "WaitingForFinAfterTrailers", "ReadingData"} /\ rx[s] = <<>>
        \/ rm[s].state \in {"DecodingHeaders", "Removed"}
=============================================================================
