------------------------------- MODULE RxBytes -------------------------------
(***************************************************************************)
(* What the receive buffer of a stream promises (recv_stream.rs): the bytes *)
(* that arrived and are still wanted, and how many were read, which is     *)
(* always a prefix of them.  RxStreamOrderer implements this specification; *)
(* RecvStream builds on it.                                                *)
(***************************************************************************)
EXTENDS Naturals

CONSTANT MaxOffset      \* bound: the bytes are 0 .. MaxOffset - 1

VARIABLES got, taken

Arrived(g, off, len) == g \cup (off .. (off + len - 1))
Discarded(g, off) == {b \in g : b < off}
\* How far the bytes are contiguous.
Sequential(g) == CHOOSE n \in 0 .. MaxOffset : n \notin g /\ \A b \in 0 .. (n - 1) : b \in g

Init == got = {} /\ taken = 0

Receive(off, len) == got' = Arrived(got, off, len) /\ taken' = taken
Read(n) == /\ taken' = taken + n /\ taken' <= Sequential(got)
           /\ got' = got
Discard(off) == off > taken /\ got' = Discarded(got, off) /\ taken' = taken

Next == /\ <<got, taken>>' # <<got, taken>>
        /\ \/ \E off \in 0 .. (MaxOffset - 1), len \in 1 .. MaxOffset :
                 off + len <= MaxOffset /\ Receive(off, len)
           \/ \E n \in 1 .. MaxOffset : Read(n)
           \/ \E off \in 0 .. MaxOffset : Discard(off)

Spec == Init /\ [][Next]_<<got, taken>>
=============================================================================
