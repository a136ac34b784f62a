--------------------------- MODULE RxStreamOrderer ---------------------------
(***************************************************************************)
(* RxStreamOrderer of recv_stream.rs, the reassembly buffer of receive     *)
(* streams and of the CRYPTO streams: ranges of data by starting offset,   *)
(* merged while they are small, and a limit on how many are held.          *)
(***************************************************************************)
EXTENDS Naturals, FiniteSets, FiniteSetsExt

CONSTANTS
    MaxOffset,       \* bound: the bytes are 0 .. MaxOffset - 1
    RANGE_TARGET,    \* a range of this length is not extended
    MAX_GAPS,        \* ranges allowed beyond one for each RANGE_TARGET bytes
    MaxReceived      \* bound: no frames once this much was stored, copies included

VARIABLES
    data_ranges,     \* start -> length
    retired,         \* bytes the application has read
    received,        \* bytes that were ever stored
    end,             \* where the last range ends
    error,           \* inbound_frame returned ProtocolViolation
    reliable_size    \* data the caller still passes on: all, until a reset

vars == <<data_ranges, retired, received, end, error, reliable_size>>

End(r, k) == k + r[k]
With(r, start, len) == [k \in DOMAIN r \cup {start} |-> IF k = start THEN len ELSE r[k]]
Without(r, keys) == [k \in DOMAIN r \ keys |-> r[k]]
Bytes(r, k) == k .. (End(r, k) - 1)

Init == /\ data_ranges = <<>> /\ retired = 0 /\ received = 0 /\ end = 0
        /\ error = FALSE /\ reliable_size = MaxOffset

-----------------------------------------------------------------------------

\* insert_range() and check_gap_limit(), after end is updated.
Insert(r, start, len, new_end) ==
    /\ data_ranges' = With(r, start, len)
    /\ end' = new_end
    /\ error' = (Cardinality(DOMAIN data_ranges') >
                    MAX_GAPS + (new_end - retired) \div RANGE_TARGET)

Extend(r, start, len, new_end) ==
    /\ data_ranges' = [r EXCEPT ![start] = @ + len]
    /\ end' = new_end
    /\ UNCHANGED error

\* New data at or after the end.
Beyond(start, new_end) ==
    LET len == new_end - start
    IN  /\ received' = received + len
        /\ IF /\ start = end /\ DOMAIN data_ranges # {}
              /\ data_ranges[Max(DOMAIN data_ranges)] < RANGE_TARGET
           THEN Extend(data_ranges, Max(DOMAIN data_ranges), len, new_end)
           ELSE Insert(data_ranges, start, len, new_end)

\* The part of [start, new_end) before the ranges that follow it: the ones it
\* spans are replaced, the one that reaches further keeps its data.
Between(start, new_end, prev) ==
    LET hit == {k \in DOMAIN data_ranges : start <= k /\ k < new_end}
        kept == {k \in hit : End(data_ranges, k) >= new_end}
        add_end == IF kept = {} THEN new_end ELSE Min(kept)
        r == Without(data_ranges, hit \ kept)
        add == add_end - start
        absorb == /\ add_end \in DOMAIN r
                  /\ \A p \in prev : r[p] + add + r[add_end] <= RANGE_TARGET
    IN  IF add = 0 THEN UNCHANGED <<data_ranges, received, end, error>>
        ELSE /\ received' = received + add
             /\ IF prev = {} THEN Insert(r, start, add, Max({end, new_end}))
                ELSE IF absorb
                THEN Extend(Without(r, {add_end}), Max(prev), add + r[add_end], Max({end, new_end}))
                ELSE Extend(r, Max(prev), add, Max({end, new_end}))

\* A retransmission, or data that fills a gap: cut what the range before holds.
Overlapping(start, new_end) ==
    LET below == {k \in DOMAIN data_ranges : k <= start}
        p == Max(below)
        cut == Max({start, End(data_ranges, p)})
    IN  IF below = {} THEN Between(start, new_end, {})
        ELSE IF new_end <= End(data_ranges, p)
        THEN UNCHANGED <<data_ranges, received, end, error>>
        ELSE Between(cut, new_end,
                     {k \in {p} : data_ranges[p] < RANGE_TARGET /\ End(data_ranges, p) = cut})

inbound_frame(off, len) ==
    LET start == Max({off, retired})
        new_end == off + len
    IN  /\ ~error
        /\ new_end <= reliable_size /\ received < MaxReceived
        /\ UNCHANGED <<retired, reliable_size>>
        /\ IF new_end <= retired THEN UNCHANGED <<data_ranges, received, end, error>>
           ELSE IF start >= end THEN Beyond(start, new_end)
           ELSE Overlapping(start, new_end)

-----------------------------------------------------------------------------

\* Variant: a gap does not stop the walk.
TouchingAll == DOMAIN data_ranges
\* bytes_ready(): walk the ranges while they touch; prev_end is where they end.
Touching == {k \in DOMAIN data_ranges :
               \A b \in retired .. (k - 1) : \E j \in DOMAIN data_ranges : b \in Bytes(data_ranges, j)}
prev_end == IF Touching = {} THEN retired ELSE End(data_ranges, Max(Touching))
bytes_ready == prev_end - retired

Unread(k) == data_ranges[k] - (IF retired > k THEN retired - k ELSE 0)
\* buffered()
buffered == MapThenSumSet(Unread, DOMAIN data_ranges)

\* Variant: a range is only dropped by the next read.
ReadOutLate(upto) == {k \in DOMAIN data_ranges : End(data_ranges, k) < upto}
ReadOut(upto) == {k \in DOMAIN data_ranges : End(data_ranges, k) <= upto}

\* read(): up to n bytes; ranges that were read to their end are dropped.
read(n) ==
    LET copied == Min({n, bytes_ready})
    IN  /\ ~error
        /\ retired' = retired + copied
        /\ data_ranges' = Without(data_ranges, ReadOut(retired'))
        /\ end' = IF DOMAIN data_ranges' = {} THEN retired' ELSE end
        /\ UNCHANGED <<received, error, reliable_size>>

\* discard_after(): a reset leaves data up to off to be read, and a later one may
\* only leave less; when everything up to off was read already, the reset is
\* complete and the buffer is dropped.
discard_after(off) ==
    LET kept == {k \in DOMAIN data_ranges : k < off}
        last == Max(kept)
    IN  /\ ~error
        /\ retired < off /\ off < reliable_size
        /\ reliable_size' = off
        /\ data_ranges' = [k \in kept |-> IF k = last THEN Min({data_ranges[k], off - k})
                                          ELSE data_ranges[k]]
        /\ end' = IF kept = {} THEN retired ELSE End(data_ranges', last)
        /\ UNCHANGED <<retired, received, error>>

Next ==
    \/ \E off \in 0 .. (MaxOffset - 1) : \E len \in 1 .. (MaxOffset - off) : inbound_frame(off, len)
    \/ \E n \in 1 .. MaxOffset : read(n)
    \/ \E off \in 0 .. MaxOffset : discard_after(off)

Spec == Init /\ [][Next]_vars

-----------------------------------------------------------------------------
(* Properties *)

\* Offsets and lengths, no empty range.
TypeOK ==
    /\ retired \in 0 .. MaxOffset /\ end \in retired .. MaxOffset
    /\ received \in Nat /\ error \in BOOLEAN
    /\ \A k \in DOMAIN data_ranges : k \in 0 .. end /\ data_ranges[k] \in 1 .. MaxOffset

Held == UNION {Bytes(data_ranges, k) : k \in DOMAIN data_ranges}

\* Ranges never overlap, none lies entirely below what was read, and `end` is
\* the end of the last one, or retired: what inbound_frame's common path,
\* already_received and bytes_ready take for granted.
RangesConsistent ==
    /\ \A j, k \in DOMAIN data_ranges : j < k => End(data_ranges, j) <= k
    /\ \A k \in DOMAIN data_ranges : End(data_ranges, k) > retired
    /\ end = IF DOMAIN data_ranges = {} THEN retired ELSE End(data_ranges, Max(DOMAIN data_ranges))

\* already_received()
already_received(off, len) ==
    LET last == off + len
        covered == Max({off, retired})
        below == {k \in DOMAIN data_ranges : k <= covered}
        first == IF below = {} THEN covered ELSE Max(below)
        walk == {k \in DOMAIN data_ranges : first <= k /\ k < last}
        before(k) == {j \in walk : j < k}
        reach(k) == IF before(k) = {} THEN covered ELSE End(data_ranges, Max(before(k)))
    IN  /\ last <= end
        /\ covered >= last \/ ((\A k \in walk : k <= reach(k)) /\ reach(last) >= last)

\* already_received answers exactly whether all bytes of a range have arrived,
\* however arrivals were cut, merged and read.
DuplicatesRecognised ==
    \A off \in 0 .. (MaxOffset - 1) : \A len \in 1 .. (MaxOffset - off) :
        already_received(off, len) <=> (off .. (off + len - 1)) \subseteq (0 .. (retired - 1)) \cup Held

\* The statistics of the receive buffer stay ordered: what was read was received.
ReadWasReceived == retired + buffered <= received

\* The buffer holds exactly the bytes that arrived and hands them out in order,
\* each once.
Ordered == INSTANCE RxBytes WITH got <- (0 .. (retired - 1)) \cup Held, taken <- retired
ImplementsRxBytes == Ordered!Spec
=============================================================================
