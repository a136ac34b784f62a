-------------------------------- MODULE Pacer --------------------------------
(***************************************************************************)
(* The leaky bucket that paces packets (neqo-transport/src/pace.rs), with  *)
(* a sender that obeys next() and a path whose RTT, congestion window and  *)
(* MTU change.  Times are relative to the last update, so that only the    *)
(* time that has passed since then is kept.                                *)
(***************************************************************************)
EXTENDS Integers

CONSTANTS Mtus, Burst,      \* PACING_BURST_SIZE packets of the first MTU
          Rtts, Cwnds, GRANULARITY, MaxElapsed

SPEEDUP == 2

VARIABLES c, p, m, rtt, cwnd, elapsed,
    free        \* the packets that are sent without asking the pacer

vars == <<c, p, m, rtt, cwnd, elapsed, free>>

Greatest(S) == CHOOSE x \in S : \A y \in S : y <= x
Least(S) == CHOOSE x \in S : \A y \in S : x <= y
Smaller(a, b) == IF a < b THEN a ELSE b

Init ==
    /\ p \in Mtus /\ m = p * Burst /\ c = m
    /\ rtt \in Rtts /\ cwnd \in Cwnds /\ elapsed = 0 /\ free = 1

-----------------------------------------------------------------------------
(* Mutant of NextDelay: the wait does not grow with the debt. *)
NextDelayNoDebt ==
    LET wait == (rtt * p) \div (cwnd * SPEEDUP)
    IN  IF c >= p \/ wait < GRANULARITY THEN 0 ELSE wait

(* How long after the last update a packet may be sent. *)
NextDelay ==
    LET wait == (rtt * (p - c)) \div (cwnd * SPEEDUP)
    IN  IF c >= p \/ wait < GRANULARITY THEN 0 ELSE wait

BytesFor(e) == (e * cwnd * SPEEDUP) \div rtt

Spend(count) ==
    /\ free > 0 \/ elapsed >= NextDelay
    /\ c' = Smaller(m, c + BytesFor(elapsed) - count) /\ elapsed' = 0
    /\ free' = IF free > 0 THEN free - 1 ELSE 0
    /\ UNCHANGED <<p, m, rtt, cwnd>>

(* Nothing is in flight: PacketSender::next_paced has no time to wait for. *)
AllAcked ==
    /\ elapsed >= Least(Rtts) /\ free = 0 /\ free' = 1
    /\ UNCHANGED <<c, p, m, rtt, cwnd, elapsed>>

(* Probes are not paced (SendProfile::new_pto). *)
ProbeTimeout ==
    /\ elapsed >= rtt /\ free < 2 /\ free' = 2
    /\ UNCHANGED <<c, p, m, rtt, cwnd, elapsed>>

SetMtu(mtu) == p' = mtu /\ UNCHANGED <<c, m, rtt, cwnd, elapsed, free>>

(* An acknowledgment of something in flight, which ends the PTO. *)
Sample(r, w) ==
    /\ free # 1 /\ free' = 0
    /\ rtt' = r /\ cwnd' = w
    /\ UNCHANGED <<c, p, m, elapsed>>

Tick == elapsed < MaxElapsed /\ elapsed' = elapsed + 1 /\ UNCHANGED <<c, p, m, rtt, cwnd, free>>

Next ==
    \/ \E count \in 1..p : Spend(count)
    \/ \E mtu \in Mtus : SetMtu(mtu)
    \/ \E r \in Rtts, w \in Cwnds : Sample(r, w)
    \/ AllAcked \/ ProbeTimeout \/ Tick

Spec == Init /\ [][Next]_vars

-----------------------------------------------------------------------------
(* However many packets are sent within the timer granularity, the debt is *)
(* bounded: it is what one unit of granularity repays at the fastest rate, *)
(* and so a burst is no larger than that and the bucket; and the wait for  *)
(* the next packet is bounded by the time the slowest rate takes to repay  *)
(* it (Pacer::next and Pacer::spend).                                      *)
DebtIsBounded ==
    LET most == (GRANULARITY * Greatest(Cwnds) * SPEEDUP) \div Least(Rtts) + 1
    IN  /\ c <= m /\ c >= 0 - most
        /\ NextDelay <= (Greatest(Rtts) * (Greatest(Mtus) + most)) \div (Least(Cwnds) * SPEEDUP)
=============================================================================
