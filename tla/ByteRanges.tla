----------------------------- MODULE ByteRanges -----------------------------
(***************************************************************************)
(* What a send stream promises about its bytes (send_stream.rs): each one  *)
(* still has to be sent, is under way, or is acknowledged.  An acknowledged *)
(* byte never becomes anything else, whatever is marked later.             *)
(* RangeTracker implements this specification; SendStream builds on it.    *)
(***************************************************************************)
EXTENDS Naturals

CONSTANT MaxOffset      \* bound: the bytes are 0 .. MaxOffset - 1

VARIABLE status         \* the state of each byte

Bytes == 0 .. (MaxOffset - 1)
Range(off, len) == off .. (off + len - 1)

\* mark_sent(): acknowledged bytes keep their state.
Sent(s, off, len) ==
    [b \in DOMAIN s |-> IF b \in Range(off, len) /\ s[b] = "unsent" THEN "sent" ELSE s[b]]
\* mark_acked()
Acked(s, off, len) ==
    [b \in DOMAIN s |-> IF b \in Range(off, len) THEN "acked" ELSE s[b]]
\* unmark_range(): only bytes that are under way have to be sent again.
Unmarked(s, off, len) ==
    [b \in DOMAIN s |-> IF b \in Range(off, len) /\ s[b] = "sent" THEN "unsent" ELSE s[b]]

Init == status = [b \in Bytes |-> "unsent"]

Next == /\ status' # status
        /\ \E off \in Bytes : \E len \in 1 .. (MaxOffset - off) :
               \/ status' = Sent(status, off, len)
               \/ status' = Acked(status, off, len)
               \/ status' = Unmarked(status, off, len)

Spec == Init /\ [][Next]_status
=============================================================================
