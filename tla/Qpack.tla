------------------------------- MODULE Qpack -------------------------------
(***************************************************************************)
(* QPACK of neqo-qpack for one direction: the encoder with its dynamic     *)
(* table, the decoder with its copy of it, the encoder stream that carries *)
(* insertions to the decoder and the decoder stream that carries           *)
(* acknowledgements back.  Header blocks travel on other streams, so a     *)
(* block may arrive before the insertions it refers to.  Both streams are  *)
(* reliable and ordered; blocks are Http3Messages' subject.                *)
(***************************************************************************)
EXTENDS Integers, Sequences, FiniteSets, FiniteSetsExt, SequencesExt, TLC

CONSTANTS
    Streams,
    Setups         \* records: [capacity, max_table_size, blocked, tracked, rooms, ...]

VARIABLES
    setup,         \* the settings of the two ends
    enc,           \* the Encoder
    dec,           \* the Decoder
    estream,       \* instructions under way on the encoder stream
    dstream,       \* and on the decoder stream
    settings_state, \* of the encoder's end
    error          \* the error that closed the connection, or a panic

qvars == <<setup, enc, dec, estream, dstream, settings_state, error>>

-----------------------------------------------------------------------------
(* HeaderTable.  A header is [name, value, len]; entries are newest first.  *)

ADDITIONAL_TABLE_ENTRY_SIZE == 32
Size(h) == h.len + ADDITIONAL_TABLE_ENTRY_SIZE

Forever == 2^30     \* u64::MAX: the decoder's entries may always go

NewTable(acked) == [dynamic |-> <<>>, capacity |-> 0, used |-> 0, base |-> 0, acked |-> acked]

can_reduce(t, e) == e.refs = 0 /\ e.index < t.acked
LastSize(t, k) == MapThenSumSet(LAMBDA i : Size(t.dynamic[i].h),
                                (Len(t.dynamic) - k + 1) .. Len(t.dynamic))
\* How many of the oldest entries may go.
Evictable(t) == Max({k \in 0 .. Len(t.dynamic) :
                       \A i \in (Len(t.dynamic) - k + 1) .. Len(t.dynamic) : can_reduce(t, t.dynamic[i])})

\* evict_to() stops at the first entry that has to stay, whatever went before it.
EvictTo(t, reduce) ==
    LET want == Min({k \in 0 .. Len(t.dynamic) :
                       t.used - LastSize(t, k) <= reduce \/ k = Len(t.dynamic)})
        gone == Min({want, Evictable(t)})
    IN  [ok |-> want = gone,
         t |-> [t EXCEPT !.dynamic = SubSeq(@, 1, Len(@) - gone), !.used = @ - LastSize(t, gone)]]

can_evict_to(t, reduce) == t.used - LastSize(t, Evictable(t)) <= reduce
insert_possible(t, size) == size <= t.capacity /\ can_evict_to(t, t.capacity - size)

set_capacity(t, cap) == LET e == EvictTo(t, cap)
                        IN  [ok |-> e.ok, t |-> IF e.ok THEN [e.t EXCEPT !.capacity = cap] ELSE e.t]

insert(t, h) ==
    LET e == EvictTo(t, t.capacity - Size(h))
    IN  IF Size(h) > t.capacity THEN [ok |-> FALSE, t |-> t]
        ELSE IF ~e.ok THEN e
        ELSE [ok |-> TRUE,
              t |-> [e.t EXCEPT !.dynamic = <<[index |-> t.base, h |-> h, refs |-> 0]>> \o @,
                                !.base = @ + 1, !.used = @ + Size(h)]]

\* get_dynamic_with_abs_index(): the position of an entry, if it is there.
Position(t, index) == {i \in DOMAIN t.dynamic : i = t.base - index}
\* remove_ref() and add_ref()
AddRefs(t, indices, n) ==
    [t EXCEPT !.dynamic = [i \in DOMAIN @ |-> IF @[i].index \in indices
                                              THEN [@[i] EXCEPT !.refs = @ + n] ELSE @[i]]]

Found(kind, index) == [kind |-> kind, index |-> index]
\* lookup(): a value match before a name match, the static table before the
\* dynamic one, newer entries first.
lookup(t, h, can_track, can_block) ==
    LET usable == {i \in DOMAIN t.dynamic : can_track /\ (can_block \/ t.dynamic[i].index < t.acked)}
        values == {i \in usable : t.dynamic[i].h = h}
        names == {i \in usable : t.dynamic[i].h.name = h.name}
    IN  IF h \in setup.static THEN Found("static", 0)
        ELSE IF values # {} THEN Found("indexed", t.dynamic[Min(values)].index)
        ELSE IF \E g \in setup.static : g.name = h.name THEN Found("static", 0)
        ELSE IF names # {} THEN Found("nameref", t.dynamic[Min(names)].index)
        ELSE Found("none", 0)

-----------------------------------------------------------------------------
(* The required insert count of a block is sent modulo twice the number of *)
(* entries the decoder's table could hold.                                  *)

EncodeInsertCount(req, max_entries) == (req % (2 * max_entries)) + 1

\* calc_req_insert_cnt(), -1 for an error.
calc_req_insert_cnt(encoded, max_entries, total) ==
    LET full_range == 2 * max_entries
        max_value == total + max_entries
        wrapped == (max_value \div full_range) * full_range + encoded - 1
        req == IF wrapped > max_value THEN wrapped - full_range ELSE wrapped
    IN  IF encoded = 0 THEN 0
        ELSE IF max_entries = 0 \/ encoded > full_range \/ req <= 0 THEN -1
        ELSE req

-----------------------------------------------------------------------------
(* Encoder *)

NoCapacity == -1
EncoderInit == [table |-> NewTable(0), max_entries |-> 0, max_blocked_streams |-> 0,
                unacked_header_blocks |-> [s \in Streams |-> <<>>], blocked_stream_cnt |-> 0,
                next_capacity |-> NoCapacity, initialized |-> FALSE]

RefsOf(e, s) == UNION {e.unacked_header_blocks[s][i] : i \in DOMAIN e.unacked_header_blocks[s]}
is_stream_blocker(e, s) == \E r \in RefsOf(e, s) : r >= e.table.acked
Tracked(e) == {s \in Streams : e.unacked_header_blocks[s] # <<>>}
Blockers(e) == {s \in Streams : is_stream_blocker(e, s)}

\* set_qpack_settings(): set_max_capacity() and set_max_blocked_streams().
SetSettings(e, st) ==
    [e EXCEPT !.max_entries = st.capacity \div ADDITIONAL_TABLE_ENTRY_SIZE,
              !.next_capacity = IF st.capacity = e.table.capacity THEN @
                                ELSE Min({st.capacity, setup.max_table_size}),
              !.max_blocked_streams = st.blocked]

SendUpdatesTooEarly(e, room) ==
    LET left == IF e.initialized THEN room ELSE room - 1
        ready == [e EXCEPT !.initialized = TRUE]
    IN  IF left < 0 THEN [e |-> e, room |-> 0, out |-> <<>>, failed |-> TRUE]
        ELSE IF e.next_capacity = NoCapacity THEN [e |-> ready, room |-> left, out |-> <<>>, failed |-> FALSE]
        ELSE [e |-> [ready EXCEPT !.table = set_capacity(@, e.next_capacity).t, !.next_capacity = NoCapacity],
              room |-> Max({left - 1, 0}), failed |-> FALSE,
              out |-> IF left = 0 THEN <<>> ELSE <<[op |-> "Capacity", value |-> e.next_capacity]>>]

\* What send_encoder_updates() does when the encoder stream takes `room` more
\* instructions, the stream type included: w = [e, room, out, failed].
SendEncoderUpdates(e, room) ==
    LET left == IF e.initialized THEN room ELSE room - 1
        cap == e.next_capacity
        stuck == \/ left <= 0
                 \/ cap < e.table.capacity /\ ~can_evict_to(e.table, cap)
        ready == [e EXCEPT !.initialized = TRUE]
    IN  IF left < 0 THEN [e |-> e, room |-> 0, out |-> <<>>, failed |-> TRUE]
        ELSE IF cap = NoCapacity THEN [e |-> ready, room |-> left, out |-> <<>>, failed |-> FALSE]
        ELSE IF stuck THEN [e |-> ready, room |-> left, out |-> <<>>, failed |-> TRUE]
        ELSE [e |-> [ready EXCEPT !.table = set_capacity(@, cap).t, !.next_capacity = NoCapacity],
              room |-> left - 1, out |-> <<[op |-> "Capacity", value |-> cap]>>, failed |-> FALSE]

\* A field line that refers to the dynamic table: before or after the base.
Dynamic(form, base, index, h) ==
    [form |-> form, post |-> index >= base, h |-> h,
     index |-> IF index < base THEN base - index - 1 ELSE index - base]
Literal(h) == [form |-> "literal", h |-> h]

\* One header of encode_header_block(), for which lookup() has found an entry or
\* nothing; w = [e, room, out, failed, lines, refs].
EncodeFound(w, h, found, can_block, base) ==
    LET referring(t, form, index) ==
            [w EXCEPT !.e.table = IF index \in w.refs THEN t ELSE AddRefs(t, {index}, 1),
                      !.refs = @ \cup {index}, !.lines = Append(@, Dynamic(form, base, index, h))]
        literal == [w EXCEPT !.lines = Append(@, Literal(h))]
    IN  CASE found.kind = "static" -> literal
          [] found.kind \in {"indexed", "nameref"} -> referring(w.e.table, found.kind, found.index)
          [] found.kind = "none" /\ can_block /\ ~w.failed ->
                IF insert_possible(w.e.table, Size(h)) /\ w.room > 0
                THEN [referring(insert(w.e.table, h).t, "indexed", w.e.table.base)
                        EXCEPT !.room = @ - 1, !.out = Append(@, [op |-> "Insert", h |-> h])]
                ELSE [literal EXCEPT !.failed = TRUE]
          [] OTHER -> literal

can_track(e, s) == s \in Tracked(e) \/ Cardinality(Tracked(e)) < setup.tracked
can_block(e, s) == \/ is_stream_blocker(e, s)
                   \/ can_track(e, s) /\ e.blocked_stream_cnt < e.max_blocked_streams

\* The end of encode_header_block(), w as above: the encoder afterwards, the
\* instructions for the encoder stream, and the block with its prefix.  The block
\* keeps the headers it stands for, to compare with what the decoder makes of it.
HeaderBlock(w, s, list, base, was_blocking) ==
    LET blocks == ~was_blocking /\ \E r \in w.refs : r >= w.e.table.acked
        req == IF w.refs = {} THEN 0 ELSE Max(w.refs) + 1
    IN  [e |-> [w.e EXCEPT !.blocked_stream_cnt = IF blocks THEN @ + 1 ELSE @,
                           !.unacked_header_blocks[s] =
                              IF w.refs = {} THEN @ ELSE <<w.refs>> \o @],
         out |-> w.out,
         block |-> [headers |-> list, lines |-> w.lines,
                    count |-> IF req = 0 THEN 0 ELSE EncodeInsertCount(req, w.e.max_entries),
                    negative |-> req > base,
                    delta |-> IF req <= base THEN base - req ELSE req - base - 1]]

EncodeHeaders(u, s, list) ==
    LET line(w, h) == EncodeFound(w, h, lookup(w.e.table, h, can_track(u.e, s), can_block(u.e, s)),
                                  can_block(u.e, s), u.e.table.base)
    IN  HeaderBlock(FoldLeft(line, [lines |-> <<>>, refs |-> {}] @@ u, list), s, list,
                    u.e.table.base, is_stream_blocker(u.e, s))

\* encode_header_block()
EncodeHeaderBlock(s, list, room) == EncodeHeaders(SendEncoderUpdates(enc, room), s, list)

\* recalculate_blocked_streams()
Recalculate(e) == [e EXCEPT !.blocked_stream_cnt = Cardinality(Blockers(e))]

\* insert_count_instruction()
InsertCount(e, n) ==
    IF e.table.acked + n > e.table.base THEN [e |-> e, error |-> "DecoderStream"]
    ELSE [e |-> Recalculate([e EXCEPT !.table.acked = @ + n]), error |-> "none"]

\* remove_ref() panics when the entry is gone or has no reference.
Removable(t, refs) == \A r \in refs : \E i \in Position(t, r) : t.dynamic[i].refs > 0

\* header_ack(): the oldest block of the stream was decoded.
HeaderAck(e, s) ==
    LET refs == Last(e.unacked_header_blocks[s])
        released == [e EXCEPT !.unacked_header_blocks[s] = Front(@), !.table = AddRefs(@, refs, -1)]
        upto == Max(refs) + 1
    IN  IF e.unacked_header_blocks[s] = <<>> THEN [e |-> e, error |-> "DecoderStream"]
        ELSE IF ~Removable(e.table, refs) THEN [e |-> e, error |-> "panic"]
        ELSE IF upto > e.table.acked THEN InsertCount(released, upto - e.table.acked)
        ELSE [e |-> released, error |-> "none"]

CancellationKeepsCount(e, s) ==
    LET blocks == e.unacked_header_blocks[s]
        release(t, refs) == AddRefs(t, refs, -1)
    IN  [e |-> [e EXCEPT !.unacked_header_blocks[s] = <<>>, !.table = FoldLeft(release, @, blocks)],
         error |-> "none"]

\* stream_cancellation(): the blocks of the stream will not be decoded.
StreamCancellation(e, s) ==
    LET blocks == e.unacked_header_blocks[s]
        release(t, refs) == AddRefs(t, refs, -1)
    IN  IF \E i \in DOMAIN blocks : ~Removable(e.table, blocks[i]) THEN [e |-> e, error |-> "panic"]
        ELSE [e |-> [e EXCEPT !.unacked_header_blocks[s] = <<>>,
                              !.table = FoldLeft(release, @, blocks),
                              !.blocked_stream_cnt = IF is_stream_blocker(e, s) THEN @ - 1 ELSE @],
              error |-> "none"]

-----------------------------------------------------------------------------
(* Decoder *)

DecoderInit == [table |-> NewTable(Forever), acked_inserts |-> 0, send_buf |-> <<>>,
                blocked_streams |-> <<>>]

\* execute_instruction(), w = [d, error].
Execute(w, i) ==
    LET t == IF i.op = "Insert" THEN insert(w.d.table, i.h) ELSE set_capacity(w.d.table, i.value)
    IN  IF w.error # "none" THEN w
        ELSE IF ~t.ok \/ (i.op = "Capacity" /\ i.value > setup.capacity)
        THEN [w EXCEPT !.error = "EncoderStream"]
        ELSE [w EXCEPT !.d.table = t.t]

\* get_dynamic() and dynamic_entry(): the entries a line refers to, at most one.
Referred(t, req, base, l) ==
    LET i == IF l.post THEN t.base - (base + l.index + 1) ELSE t.base + l.index - base
    IN  {j \in DOMAIN t.dynamic : j = i + 1 /\ t.dynamic[j].index < req}

\* decode_header_block() of the decoder: [d, result, error], result "headers",
\* "mangled" headers, or "blocked".
DecodeHeaderBlock(d, s, b) ==
    LET max_entries == setup.capacity \div ADDITIONAL_TABLE_ENTRY_SIZE
        t == d.table
        req == calc_req_insert_cnt(b.count, max_entries, t.base)
        base == IF b.negative THEN req - b.delta - 1 ELSE req + b.delta
        referring == {i \in DOMAIN b.lines : b.lines[i].form # "literal"}
        entry(i) == t.dynamic[CHOOSE j \in Referred(t, req, base, b.lines[i]) : TRUE].h
        intact == \A i \in referring : IF b.lines[i].form = "indexed" THEN entry(i) = b.lines[i].h
                                       ELSE entry(i).name = b.lines[i].h.name
        fails == [d |-> d, result |-> "none", error |-> "Decompression"]
        waiting == \E i \in DOMAIN d.blocked_streams : d.blocked_streams[i].s = s
    IN  IF req < 0 \/ base < 0 THEN fails
        ELSE IF req > t.base
        THEN IF waiting THEN [d |-> d, result |-> "blocked", error |-> "none"]
             ELSE IF Len(d.blocked_streams) >= setup.blocked THEN fails
             ELSE [d |-> [d EXCEPT !.blocked_streams = Append(@, [s |-> s, req |-> req])],
                   result |-> "blocked", error |-> "none"]
        ELSE IF \E i \in referring : Referred(t, req, base, b.lines[i]) = {} THEN fails
        ELSE [d |-> IF req = 0 THEN d
                    ELSE [d EXCEPT !.send_buf = Append(@, [op |-> "HeaderAck", s |-> s]),
                                   !.acked_inserts = Max({@, req})],
              result |-> IF intact THEN "headers" ELSE "mangled", error |-> "none"]

\* cancel_stream()
CancelStream(d, s) ==
    IF d.table.capacity = 0 THEN d
    ELSE [d EXCEPT !.blocked_streams = SelectSeq(@, LAMBDA x : x.s # s),
                   !.send_buf = Append(@, [op |-> "StreamCancellation", s |-> s])]

-----------------------------------------------------------------------------

Settings == [capacity |-> setup.capacity, blocked |-> setup.blocked]

\* HttpZeroRttChecker::check(): the decoder's end takes 0-RTT of an encoder that
\* remembers these settings.
check(remembered) == setup.capacity >= remembered.capacity /\ setup.blocked >= remembered.blocked

\* Remembered settings are used at once; when 0-RTT is rejected, everything
\* starts afresh.
QInit == /\ setup \in Setups
         /\ IF \E r \in setup.remembered : check(r)
            THEN /\ enc = SetSettings(EncoderInit, CHOOSE r \in setup.remembered : TRUE)
                 /\ settings_state = "ZeroRtt"
            ELSE enc = EncoderInit /\ settings_state = "NotReceived"
         /\ dec = DecoderInit
         /\ estream = <<>> /\ dstream = <<>> /\ error = "none"

\* handle_settings(): SETTINGS of the decoder's end.
handle_settings ==
    LET old == CHOOSE r \in setup.remembered : TRUE
        smaller == Settings.capacity < old.capacity \/ Settings.blocked < old.blocked
        larger == Settings.capacity > old.capacity /\ old.capacity # 0
    IN  /\ error = "none" /\ settings_state # "Received"
        /\ settings_state' = "Received"
        /\ IF settings_state = "ZeroRtt" /\ (smaller \/ larger)
           THEN error' = (IF larger THEN "Qpack" ELSE "HttpSettings") /\ UNCHANGED enc
           ELSE /\ enc' = IF settings_state = "ZeroRtt" /\ old = Settings THEN enc ELSE SetSettings(enc, Settings)
                /\ UNCHANGED error
        /\ UNCHANGED <<setup, dec, estream, dstream>>

\* send_encoder_updates() from process_sending().
FlushEncoder ==
    /\ error = "none" /\ (enc.next_capacity # NoCapacity \/ ~enc.initialized)
    /\ \E room \in setup.rooms \ {0} :
          LET u == SendEncoderUpdates(enc, room)
          IN  /\ enc' = u.e /\ estream' = estream \o u.out
    /\ UNCHANGED <<setup, dec, dstream, settings_state, error>>

\* Decoder::send(), n instructions of what is buffered fit.
FlushDecoder ==
    LET increment == dec.table.base - dec.acked_inserts
        buf == dec.send_buf \o IF increment > 0 THEN <<[op |-> "InsertCountIncrement", n |-> increment]>>
                               ELSE <<>>
    IN  /\ error = "none" /\ buf # <<>>
        /\ \E n \in 0 .. Len(buf) :
              /\ dstream' = dstream \o SubSeq(buf, 1, n)
              /\ dec' = [dec EXCEPT !.send_buf = SubSeq(buf, n + 1, Len(buf)),
                                    !.acked_inserts = dec.table.base]
        /\ UNCHANGED <<setup, enc, estream, settings_state, error>>

\* The encoder reads an instruction of the decoder.
EncoderReceive ==
    /\ error = "none" /\ dstream # <<>>
    /\ LET i == Head(dstream)
           w == CASE i.op = "InsertCountIncrement" -> InsertCount(enc, i.n)
                  [] i.op = "HeaderAck" -> HeaderAck(enc, i.s)
                  [] i.op = "StreamCancellation" -> StreamCancellation(enc, i.s)
       IN  enc' = w.e /\ error' = w.error
    /\ dstream' = Tail(dstream)
    /\ UNCHANGED <<setup, dec, estream, settings_state>>
=============================================================================
