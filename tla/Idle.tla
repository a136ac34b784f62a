-------------------------------- MODULE Idle ---------------------------------
(***************************************************************************)
(* The idle timeout and the keep-alive timer (neqo-transport/src/          *)
(* connection/idle.rs) of an endpoint that keeps the connection alive, and *)
(* the idle timeout of its peer, which only acknowledges.  The network     *)
(* takes at most Delay and loses at most MaxLosses packets between two     *)
(* acknowledgments that arrive.  Times are relative to now.                *)
(***************************************************************************)
EXTENDS Integers

CONSTANTS Timeouts, Pto, Delay, MaxLosses

VARIABLES timeout, idle, keep_alive_outstanding, probe, net, losses, worst, closed

vars == <<timeout, idle, keep_alive_outstanding, probe, net, losses, worst, closed>>

Ends == {"keeper", "peer"}

Greater(a, b) == IF a > b THEN a ELSE b

(* probe: the time since the last ack-eliciting packet that is not         *)
(* acknowledged, and how many PTOs it has seen.                            *)
NoProbe == [since |-> 0, count |-> 0, keep_alive |-> FALSE, armed |-> FALSE]

Init ==
    /\ timeout \in Timeouts
    /\ idle = [e \in Ends |-> [state |-> "received", since |-> 0]]
    /\ keep_alive_outstanding = FALSE /\ probe = NoProbe
    /\ net = {} /\ losses = 0 /\ worst = 0 /\ closed = {}

-----------------------------------------------------------------------------
Expiry == Greater(timeout, 3 * Pto)

(* Mutant of KeepAliveTimeout: it waits for the whole interval. *)
KeepAliveTimeoutWhole == Greater(timeout, 3 * Pto)

KeepAliveTimeout == Greater(timeout \div 2, Pto)

OnPacketSent(i) == IF i.state = "sent" THEN i ELSE [state |-> "sent", since |-> 0]

OnPacketReceived(i) == [state |-> "received", since |-> 0]

Ping(keep_alive) ==
    /\ idle' = [idle EXCEPT !["keeper"] = OnPacketSent(@)]
    /\ net' = net \cup {[to |-> "peer", age |-> 0, keep_alive |-> keep_alive]}
    /\ UNCHANGED <<timeout, losses, worst, closed>>

SendKeepAlive ==
    /\ "keeper" \notin closed
    /\ ~keep_alive_outstanding /\ idle["keeper"].since >= KeepAliveTimeout
    /\ keep_alive_outstanding' = TRUE
    /\ probe' = [probe EXCEPT !.armed = TRUE, !.since = 0, !.keep_alive = TRUE]
    /\ Ping(TRUE)

(* Data of the application elicits an acknowledgment as well. *)
SendData ==
    /\ "keeper" \notin closed /\ ~probe.armed
    /\ probe' = [NoProbe EXCEPT !.armed = TRUE]
    /\ Ping(FALSE) /\ UNCHANGED keep_alive_outstanding

ProbeTimeout == Pto * (IF probe.count = 0 THEN 1 ELSE 2)

(* The PTO declares the keep-alive lost, and the PING that it sends is one *)
(* again when the timer is due (lost_keep_alive, maybe_probe).             *)
FirePto ==
    /\ "keeper" \notin closed /\ probe.armed /\ probe.since >= ProbeTimeout
    /\ LET due == idle["keeper"].since >= KeepAliveTimeout
               /\ (probe.keep_alive \/ ~keep_alive_outstanding)
       IN  /\ keep_alive_outstanding' = (due \/ (keep_alive_outstanding /\ ~probe.keep_alive))
           /\ probe' = [probe EXCEPT !.since = 0, !.count = @ + 1, !.keep_alive = due]
           /\ Ping(due)

Receive(packet) ==
    /\ packet.to \notin closed
    /\ idle' = [idle EXCEPT ![packet.to] = OnPacketReceived(@)]
    /\ IF packet.to = "peer"
       THEN /\ net' = (net \ {packet}) \cup {[packet EXCEPT !.to = "keeper", !.age = 0]}
            /\ UNCHANGED <<probe, keep_alive_outstanding, losses>>
       ELSE /\ net' = net \ {packet} /\ losses' = 0
            /\ probe' = IF probe.keep_alive /\ ~packet.keep_alive THEN probe ELSE NoProbe
            /\ keep_alive_outstanding' = (keep_alive_outstanding /\ ~packet.keep_alive)
    /\ UNCHANGED <<timeout, worst, closed>>

Lose(packet) ==
    /\ losses < MaxLosses /\ losses' = losses + 1 /\ worst' = Greater(worst, losses + 1)
    /\ net' = net \ {packet}
    /\ UNCHANGED <<timeout, idle, keep_alive_outstanding, probe, closed>>

(* Connection::process_timer: the idle timeout is looked at first. *)
Expire(e) ==
    /\ e \notin closed /\ idle[e].since >= Expiry
    /\ closed' = closed \cup {e}
    /\ UNCHANGED <<timeout, idle, keep_alive_outstanding, probe, net, losses, worst>>

(* Connection::next_delay, of the timers that there are here: those of     *)
(* pacing, paths, keys and datagrams belong to other modules.              *)
next_delay(e) ==
    LET keep_alive == IF e = "keeper" /\ ~keep_alive_outstanding THEN {KeepAliveTimeout - idle[e].since} ELSE {}
        loss_recovery == IF e = "keeper" /\ probe.armed THEN {ProbeTimeout - probe.since} ELSE {}
        delays == {Expiry - idle[e].since} \cup keep_alive \cup loss_recovery
    IN  CHOOSE earliest \in delays : \A d \in delays : earliest <= d

(* Time passes when nothing is due. *)
Tick ==
    /\ closed = {}
    /\ \A e \in Ends : next_delay(e) > 0
    /\ \A packet \in net : packet.age < Delay
    /\ idle' = [e \in Ends |-> [idle[e] EXCEPT !.since = @ + 1]]
    /\ probe' = IF probe.armed THEN [probe EXCEPT !.since = @ + 1] ELSE probe
    /\ net' = {[packet EXCEPT !.age = @ + 1] : packet \in net}
    /\ UNCHANGED <<timeout, keep_alive_outstanding, losses, worst, closed>>

Next ==
    \/ SendKeepAlive \/ SendData \/ FirePto \/ Tick
    \/ \E packet \in net : Receive(packet) \/ Lose(packet)
    \/ \E e \in Ends : Expire(e)

Spec == Init /\ [][Next]_vars

-----------------------------------------------------------------------------
(* A connection that one end keeps alive is not idle at either end, though *)
(* of every PING and the probe that follows it, with their                 *)
(* acknowledgments, one may be lost: the next one is sent in time          *)
(* (IdleTimeout::send_keep_alive, lost_keep_alive).                        *)
KeptAlive == worst <= 1 => closed = {}
=============================================================================
