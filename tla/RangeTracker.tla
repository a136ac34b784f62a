---------------------------- MODULE RangeTracker ----------------------------
(***************************************************************************)
(* RangeTracker of send_stream.rs: the sorted map of sent and acknowledged *)
(* ranges behind every send stream and every CRYPTO stream, with the       *)
(* cached answer of first_unmarked_range.  The map is a function from the  *)
(* offset of a range to its length and state.                              *)
(***************************************************************************)
EXTENDS Naturals, FiniteSets, FiniteSetsExt, SequencesExt, TLC

CONSTANT MaxOffset      \* bound: offsets and lengths that are marked

VARIABLES acked, used, first_unmarked

vars == <<acked, used, first_unmarked>>

NoCache == <<>>
SatSub(a, b) == IF a >= b THEN a - b ELSE 0

\* Entries of the map.
Entry(len, state) == [len |-> len, state |-> state]
End(u, k) == k + u[k].len
Without(u, keys) == [k \in DOMAIN u \ keys |-> u[k]]
With(u, off, len, state) == (off :> Entry(len, state)) @@ u
Starting(u, from, to) == {k \in DOMAIN u : from <= k /\ k < to}
\* The last range that starts below off, as a set of at most one offset.
Before(u, off) == LET below == {k \in DOMAIN u : k < off}
                  IN  IF below = {} THEN {} ELSE {Max(below)}

Init == acked = 0 /\ used = <<>> /\ first_unmarked = NoCache

-----------------------------------------------------------------------------

highest_offset == IF DOMAIN used = {} THEN acked ELSE End(used, Max(DOMAIN used))

\* The first gap: <<start, length>>, length 0 when nothing follows it.
FirstGap(a, u) ==
    LET ends == {a} \cup {End(u, k) : k \in DOMAIN u}
        start == Min({e \in ends : e \notin DOMAIN u})
        after == {k \in DOMAIN u : k > start}
    IN  <<start, IF after = {} THEN 0 ELSE Min(after) - start>>

\* first_unmarked_range() fills the cache.
FirstUnmarkedRange ==
    /\ first_unmarked = NoCache
    /\ first_unmarked' = FirstGap(acked, used)
    /\ UNCHANGED <<acked, used>>

\* coalesce_acked(): drop what lies below the acknowledged prefix, and let the
\* prefix grow over an acknowledged range that touches it.
Coalesce(a, u) ==
    LET rest == {k \in DOMAIN u : End(u, k) > a}
        kept == Without(u, DOMAIN u \ rest)
    IN  IF rest = {} \/ Min(rest) > a THEN [acked |-> a, used |-> kept]
        ELSE LET first == Min(rest)
                 others == Without(kept, {first})
             IN  IF u[first].state = "Acked"
                 THEN [acked |-> End(u, first), used |-> others]
                 ELSE [acked |-> a,
                       used |-> With(others, a, End(u, first) - a, "Sent")]

\* The part of mark_acked() for a range beyond the acknowledged prefix.
AckedBeyond(u, off, len) ==
    LET end == off + len
        covered == Starting(u, off, end)
        \* What survives of the range that touches or overhangs the new end.
        last == IF end \in DOMAIN u THEN end
                ELSE IF covered = {} THEN off ELSE Max(covered)
        lastEnd == IF last \in DOMAIN u THEN End(u, last) ELSE end
        joins == last \in DOMAIN u /\ lastEnd > end /\ u[last].state = "Acked"
        newEnd == IF joins THEN lastEnd ELSE end
        trimmed == Without(u, covered \cup (IF joins THEN {last} ELSE {}))
        tail == IF ~joins /\ last \in covered /\ lastEnd > end
                THEN With(trimmed, end, lastEnd - end, "Sent") ELSE trimmed
        prev == Before(u, off)
        touching == {p \in prev : End(u, p) >= off}
    IN  IF \E p \in touching : u[p].state = "Acked"
        THEN LET p == CHOOSE p \in touching : TRUE
             IN  With(tail, p, Max({End(u, p), newEnd}) - p, "Acked")
        ELSE IF touching # {}
        THEN LET p == CHOOSE p \in touching : TRUE
                 cut == With(tail, p, off - p, "Sent")
                 split == IF End(u, p) > newEnd
                          THEN With(cut, newEnd, End(u, p) - newEnd, "Sent") ELSE cut
             IN  With(split, off, newEnd - off, "Acked")
        ELSE With(tail, off, newEnd - off, "Acked")

MarkAcked(new_off, new_len) ==
    LET off == Max({acked, new_off})
        len == SatSub(new_off + new_len, off)
        after == IF off = acked THEN Coalesce(acked + len, used)
                 ELSE [acked |-> acked, used |-> AckedBeyond(used, off, len)]
    IN  IF len = 0 THEN UNCHANGED vars
        ELSE /\ acked' = after.acked /\ used' = after.used
             /\ first_unmarked' = NoCache

-----------------------------------------------------------------------------
(* mark_sent(): walk the ranges the new one covers, keep the acknowledged  *)
(* ones in place and fill the gaps between them.                           *)

\* One covered range of the loop, w = [off, len, used, done].
SentOver(w, old) ==
    LET e == w.used[old]
        chunk == old - w.off
        included == chunk + e.len
    IN  IF w.done THEN w
        ELSE IF e.state = "Acked"
        THEN [off |-> w.off + included, len |-> SatSub(w.len, included),
              used |-> IF chunk > 0 THEN With(w.used, w.off, chunk, "Sent") ELSE w.used,
              done |-> SatSub(w.len, included) = 0]
        ELSE [off |-> w.off,
              len |-> w.len + SatSub(old + e.len, w.off + w.len),
              used |-> IF old # w.off THEN Without(w.used, {old}) ELSE w.used,
              done |-> FALSE]

SentRanges(u, off, len) ==
    LET end == off + len
        covered == SetToSortSeq(Starting(u, off, end), <)
        joins == end \in DOMAIN u /\ u[end].state = "Sent"
        u1 == IF joins THEN Without(u, {end}) ELSE u
        len1 == IF joins THEN len + u[end].len ELSE len
        touching == {p \in Before(u1, off) : End(u1, p) >= off}
        p == CHOOSE p \in touching : TRUE
        overlap == IF touching = {} THEN 0 ELSE End(u1, p) - off
        len2 == SatSub(len1, overlap)
        start == IF touching = {} THEN [off |-> off, len |-> len2]
                 ELSE IF u1[p].state = "Acked" THEN [off |-> off + overlap, len |-> len2]
                 ELSE [off |-> p, len |-> len2 + u1[p].len]
        w == FoldLeft(SentOver, [off |-> start.off, len |-> start.len,
                                 used |-> u1, done |-> len2 = 0], covered)
    IN  IF w.done THEN w.used ELSE With(w.used, w.off, w.len, "Sent")

MarkSent(new_off, new_len) ==
    LET off == Max({acked, new_off})
        len == SatSub(new_off + new_len, off)
    IN  IF len = 0 THEN UNCHANGED vars
        ELSE /\ used' = SentRanges(used, off, len)
             /\ first_unmarked' = NoCache
             /\ UNCHANGED acked

-----------------------------------------------------------------------------
\* Variant: acknowledged ranges are removed as well.
UnmarkAcked(u, off, end) == Without(u, {k \in DOMAIN u : k < end /\ End(u, k) > off})
\* unmark_range(): cut or remove the sent ranges that overlap, keep their head
\* and their tail; acknowledged ranges stay.
Unmark(u, off, end) ==
    LET hit == {k \in DOMAIN u : k < end /\ End(u, k) > off /\ u[k].state = "Sent"}
        heads == [k \in {h \in hit : h < off} |-> Entry(off - k, "Sent")]
        tails == [k \in {end : h \in {t \in hit : End(u, t) > end}} |->
                     Entry(End(u, CHOOSE t \in hit : End(u, t) > end) - end, "Sent")]
    IN  heads @@ tails @@ Without(u, hit)

\* Variant: the cached range survives.
UnmarkKeepsCache(off, len) ==
    used' = Unmark(used, off, off + len) /\ UNCHANGED <<acked, first_unmarked>>
UnmarkRange(off, len) ==
    /\ used' = Unmark(used, off, off + len)
    /\ first_unmarked' = NoCache
    /\ UNCHANGED acked

\* unmark_sent(): forget everything that is under way.
UnmarkSent == highest_offset > 0 /\ UnmarkRange(0, highest_offset)

Next ==
    \/ FirstUnmarkedRange
    \/ \E off \in 0 .. (MaxOffset - 1) : \E len \in 1 .. (MaxOffset - off) :
          MarkSent(off, len) \/ MarkAcked(off, len) \/ UnmarkRange(off, len)
    \/ UnmarkSent

Spec == Init /\ [][Next]_vars

-----------------------------------------------------------------------------
(* Properties *)

\* Offsets, lengths and states; every range has at least one byte.
TypeOK ==
    /\ acked \in 0 .. MaxOffset
    /\ DOMAIN used \subseteq 0 .. MaxOffset
    /\ \A k \in DOMAIN used : /\ used[k].len \in 1 .. MaxOffset
                              /\ used[k].state \in {"Sent", "Acked"}

\* The ranges are sorted, disjoint and beyond the acknowledged prefix, and
\* "ranges of the same type that are adjacent" are merged, the prefix included:
\* what first_unmarked_range, coalesce_acked and mark_acked each rely on.
RangesCanonical ==
    \A k \in DOMAIN used :
        /\ k >= acked
        /\ k = acked => used[k].state = "Sent"
        /\ \A j \in DOMAIN used : j > k => End(used, k) <= j
        /\ End(used, k) \in DOMAIN used => used[End(used, k)].state # used[k].state

\* The cache of first_unmarked_range is never stale: it is empty or what the
\* ranges say now.
CacheCoherent == first_unmarked = NoCache \/ first_unmarked = FirstGap(acked, used)

\* The state of each byte according to the ranges.
ByteStatus(b) ==
    IF b < acked THEN "acked"
    ELSE LET k == {k \in DOMAIN used : k <= b /\ b < End(used, k)}
         IN  IF k = {} THEN "unsent"
             ELSE IF \E j \in k : used[j].state = "Acked" THEN "acked" ELSE "sent"

\* The range map does to its bytes exactly what marking them one by one would,
\* through every merge, cut and split of mark_sent, mark_acked and unmark_range.
Bytewise == INSTANCE ByteRanges
              WITH status <- [b \in 0 .. (MaxOffset - 1) |-> ByteStatus(b)]
ImplementsByteRanges == Bytewise!Spec
=============================================================================
