-------------------------------- MODULE Pmtud --------------------------------
(***************************************************************************)
(* Path MTU discovery (neqo-transport/src/pmtud.rs) on the paths of one    *)
(* endpoint: a search up a table of sizes by probes that are lost, late or *)
(* too large, the raise timer, and restarts by the handshake, a            *)
(* PATH_CHALLENGE or a new primary path.  Acknowledgments and losses are   *)
(* reported to the primary path, whatever path the probe was sent on       *)
(* (recovery::Loss::on_ack_received).  Sizes are indices into the table.   *)
(***************************************************************************)
EXTENDS Integers, TLAPS

CONSTANTS
    SEARCH_TABLE_LEN, MAX_PROBES,
    Paths, PathMtu,         \* the largest size that each path carries
    Limits,                 \* the interface MTU and max_udp_payload_size allow these
    Migrates,               \* whether the primary path changes
    MaxSent                 \* bound on probes sent

VARIABLES pmtud, primary, limit, in_flight, lost, sent

vars == <<pmtud, primary, limit, in_flight, lost, sent>>

New == [mtu |-> 1, probe_index |-> 1, probe_count |-> 0, probe_state |-> "NotNeeded", raise_timer |-> FALSE]

Init ==
    /\ pmtud = [p \in Paths |-> New] /\ primary \in Paths
    /\ limit \in Limits /\ in_flight = {} /\ lost = {} /\ sent = 0

-----------------------------------------------------------------------------
Stop(idx) ==
    [mtu |-> idx, probe_index |-> idx, probe_count |-> 0, probe_state |-> "NotNeeded", raise_timer |-> TRUE]

AtLimit(m) == m.probe_index = SEARCH_TABLE_LEN \/ m.probe_index + 1 > limit

NextProbe(m) ==
    IF AtLimit(m) THEN Stop(m.probe_index)
    ELSE [m EXCEPT !.probe_state = "Needed", !.probe_count = 0, !.probe_index = @ + 1]

Start(m) == [NextProbe([m EXCEPT !.probe_index = 1, !.raise_timer = FALSE]) EXCEPT !.mtu = 1]

(* Mutant of OnPacketsAcked: a probe of any size confirms the one that is searched for. *)
OnPacketsAckedAny(m, sizes) ==
    IF m.probe_state = "NotNeeded" \/ sizes = {} THEN m
    ELSE [NextProbe(m) EXCEPT !.mtu = m.probe_index]

OnPacketsAcked(m, sizes) ==
    IF m.probe_state = "NotNeeded" \/ m.probe_index \notin sizes THEN m
    ELSE [NextProbe(m) EXCEPT !.mtu = m.probe_index]

(* This does not depend on the state of the search, or on the size of the probe. *)
OnPacketsLost(m, sizes) ==
    IF sizes = {} THEN m
    ELSE IF m.probe_count >= MAX_PROBES THEN Stop(IF m.probe_index > 1 THEN m.probe_index - 1 ELSE 1)
    ELSE [m EXCEPT !.probe_state = "Needed"]

-----------------------------------------------------------------------------
On(p, m) == pmtud' = [pmtud EXCEPT ![p] = m]
Sizes(probes) == {probe.size : probe \in probes}

SendProbe ==
    LET m == pmtud[primary] IN
    /\ m.probe_state = "Needed" /\ sent < MaxSent
    /\ in_flight' = in_flight \cup {[id |-> sent, size |-> m.probe_index, path |-> primary]}
    /\ sent' = sent + 1
    /\ On(primary, [m EXCEPT !.probe_count = @ + 1, !.probe_state = "Sent"])
    /\ UNCHANGED <<primary, limit, lost>>

(* An ACK frame: probes it finds to be lost come before those it acknowledges. *)
OnAck(acked, declared) ==
    /\ acked \cup declared # {}
    /\ \A probe \in acked : probe.size <= PathMtu[probe.path]
    /\ On(primary, OnPacketsAcked(OnPacketsLost(pmtud[primary], Sizes(declared)), Sizes(acked)))
    /\ in_flight' = in_flight \ (acked \cup declared)
    /\ lost' = (lost \cup declared) \ acked
    /\ UNCHANGED <<primary, limit, sent>>

RaiseTimer ==
    LET m == pmtud[primary] IN
    /\ m.probe_state = "NotNeeded" /\ m.raise_timer
    /\ On(primary, NextProbe([m EXCEPT !.raise_timer = FALSE]))
    /\ UNCHANGED <<primary, limit, in_flight, lost, sent>>

(* The handshake is confirmed, or the peer sends a PATH_CHALLENGE on the path. *)
Restart(p) ==
    /\ On(p, Start(pmtud[p]))
    /\ UNCHANGED <<primary, limit, in_flight, lost, sent>>

(* The peer migrates, or a PATH_RESPONSE completes a migration. *)
Migration(p) ==
    /\ Migrates /\ p # primary
    /\ primary' = p
    /\ On(p, Start(pmtud[p]))
    /\ UNCHANGED <<limit, in_flight, lost, sent>>

Next ==
    \/ SendProbe \/ RaiseTimer
    \/ \E acked \in SUBSET (in_flight \cup lost), declared \in SUBSET in_flight :
          acked \cap declared = {} /\ OnAck(acked, declared)
    \/ \E p \in Paths : Restart(p) \/ Migration(p)

Spec == Init /\ [][Next]_vars

-----------------------------------------------------------------------------
(* The MTU that limits packets is one the path carries, and the limits     *)
(* allow, through losses, late acknowledgments of probes given up, and     *)
(* restarts (Pmtud::on_packets_acked, stop).  The search does not hang:    *)
(* an endpoint that waits for the outcome of a probe has one in flight.    *)
MtuIsConfirmed ==
    LET m == pmtud[primary] IN
    /\ m.mtu = 1 \/ (m.mtu <= PathMtu[primary] /\ m.mtu <= limit)
    /\ m.probe_state = "Sent" => in_flight # {}

-----------------------------------------------------------------------------
(* The connection migrates between paths that carry the same sizes, or not *)
(* at all: a probe is credited to the primary path wherever it was sent.   *)
ConstantsOK ==
    /\ PathMtu \in [Paths -> Nat] /\ Limits \subseteq Nat /\ MaxSent \in Nat /\ MAX_PROBES \in Nat
    /\ Migrates => \A p, q \in Paths : PathMtu[p] = PathMtu[q]

Search == [mtu : Nat, probe_index : Nat, probe_count : Nat,
           probe_state : {"NotNeeded", "Needed", "Sent"}, raise_timer : BOOLEAN]

\* The search is at the MTU or one step ahead of it, and within its limits.
Sound(m, largest, max) ==
    /\ m \in Search /\ m.mtu >= 1
    /\ m.probe_index = m.mtu \/ m.probe_index = m.mtu + 1
    /\ m.probe_state = "NotNeeded" => m.probe_index = m.mtu
    /\ m.mtu = 1 \/ (m.mtu <= largest /\ m.mtu <= max)
    /\ m.probe_index = 1 \/ m.probe_index <= max

\* Probes tell of the primary path; the one that is waited for is in flight.
Probes ==
    /\ \A probe \in in_flight \cup lost :
          probe.size \in Nat /\ probe.path \in Paths /\ (Migrates \/ probe.path = primary)
    /\ pmtud[primary].probe_state = "Sent" =>
          \E probe \in in_flight : probe.size = pmtud[primary].probe_index

IInv ==
    /\ primary \in Paths /\ limit \in Nat /\ sent \in Nat
    /\ pmtud \in [Paths -> Search]
    /\ \A p \in Paths : Sound(pmtud[p], PathMtu[p], limit)
    /\ Probes

\* The next size of the table is tried once this one is confirmed.
LEMMA ConfirmedNext ==
    ASSUME limit \in Nat, NEW m \in Search, NEW b \in Nat, m.probe_index >= 1,
           m.probe_index = 1 \/ (m.probe_index <= b /\ m.probe_index <= limit)
    PROVE  /\ Sound([NextProbe(m) EXCEPT !.mtu = m.probe_index], b, limit)
           /\ m.mtu = m.probe_index => Sound(NextProbe(m), b, limit)
           /\ [NextProbe(m) EXCEPT !.mtu = m.probe_index].probe_state # "Sent"
           /\ NextProbe(m).probe_state # "Sent"
<1> DEFINE i == m.probe_index
<1>1. CASE AtLimit(m)
  BY <1>1 DEF NextProbe, Stop, Sound, Search
<1>2. CASE ~AtLimit(m)
  <2> DEFINE n == [m EXCEPT !.probe_state = "Needed", !.probe_count = 0, !.probe_index = @ + 1]
             o == [n EXCEPT !.mtu = m.probe_index]
  <2>1. NextProbe(m) = n
    BY <1>2 DEF NextProbe
  <2>2. i + 1 \in Nat
    BY DEF Search
  <2>3. n \in Search /\ o \in Search
    BY <2>2, Zenon DEF Search
  <2>4. /\ n.probe_state = "Needed" /\ n.probe_index = i + 1 /\ n.mtu = m.mtu
        /\ o.probe_state = "Needed" /\ o.probe_index = i + 1 /\ o.mtu = i
    BY DEF Search
  <2>5. i + 1 <= limit
    BY <1>2 DEF AtLimit, Search
  <2> HIDE DEF n, o
  <2>6. Sound(o, b, limit) /\ (m.mtu = i => Sound(n, b, limit))
    BY <2>3, <2>4, <2>5 DEF Sound, Search
  <2>7. [NextProbe(m) EXCEPT !.mtu = m.probe_index] = o
    BY <2>1 DEF o
  <2> QED
    BY <2>1, <2>4, <2>6, <2>7
<1> QED
  BY <1>1, <1>2

LEMMA StartSound ==
    ASSUME limit \in Nat, NEW m \in Search, NEW b \in Nat
    PROVE  Sound(Start(m), b, limit) /\ Start(m).probe_state # "Sent"
<1> DEFINE r == [m EXCEPT !.probe_index = 1, !.raise_timer = FALSE]
<1>1. r \in Search /\ r.probe_index = 1
  BY DEF Search
<1>2. Start(m) = [NextProbe(r) EXCEPT !.mtu = r.probe_index]
  BY <1>1 DEF Start
<1> HIDE DEF r
<1> QED
  BY <1>1, <1>2, ConfirmedNext

LEMMA LostSound ==
    ASSUME limit \in Nat, NEW m, NEW b \in Nat, Sound(m, b, limit), NEW sizes, ConstantsOK
    PROVE  /\ Sound(OnPacketsLost(m, sizes), b, limit)
           /\ sizes # {} => OnPacketsLost(m, sizes).probe_state # "Sent"
           /\ sizes = {} => OnPacketsLost(m, sizes) = m
<1>1. CASE sizes = {}
  BY <1>1 DEF OnPacketsLost
<1>2. CASE sizes # {} /\ m.probe_count >= MAX_PROBES
  <2> DEFINE idx == IF m.probe_index > 1 THEN m.probe_index - 1 ELSE 1
  <2>1. OnPacketsLost(m, sizes) = Stop(idx)
    BY <1>2 DEF OnPacketsLost
  <2>2. idx \in Nat /\ idx >= 1 /\ idx <= m.mtu /\ (idx = 1 \/ idx <= limit)
    BY DEF Sound, Search
  <2> HIDE DEF idx
  <2>3. Sound(Stop(idx), b, limit) /\ Stop(idx).probe_state # "Sent"
    BY <2>2 DEF Sound, Search, Stop
  <2> QED
    BY <1>2, <2>1, <2>3
<1>3. CASE sizes # {} /\ ~(m.probe_count >= MAX_PROBES)
  BY <1>3 DEF OnPacketsLost, Sound, Search
<1> QED
  BY <1>1, <1>2, <1>3

LEMMA AckedSound ==
    ASSUME limit \in Nat, NEW m, NEW b \in Nat, Sound(m, b, limit), NEW sizes, \A s \in sizes : s <= b
    PROVE  /\ Sound(OnPacketsAcked(m, sizes), b, limit)
           /\ \/ OnPacketsAcked(m, sizes).probe_state # "Sent"
              \/ OnPacketsAcked(m, sizes) = m /\ m.probe_index \notin sizes
<1>1. CASE m.probe_state = "NotNeeded" \/ m.probe_index \notin sizes
  BY <1>1 DEF OnPacketsAcked
<1>2. CASE ~(m.probe_state = "NotNeeded" \/ m.probe_index \notin sizes)
  <2>1. m \in Search /\ m.probe_index >= 1 /\ (m.probe_index = 1 \/ (m.probe_index <= b /\ m.probe_index <= limit))
    BY <1>2 DEF Sound, Search
  <2>2. OnPacketsAcked(m, sizes) = [NextProbe(m) EXCEPT !.mtu = m.probe_index]
    BY <1>2 DEF OnPacketsAcked
  <2> QED
    BY <2>1, <2>2, ConfirmedNext
<1> QED
  BY <1>1, <1>2

\* A step that changes the search on path p.
LEMMA SearchMoves ==
    ASSUME ConstantsOK, IInv, NEW p \in Paths, NEW m, Sound(m, PathMtu[p], limit), On(p, m), limit' = limit
    PROVE  /\ pmtud' \in [Paths -> Search] /\ pmtud'[p] = m
           /\ \A q \in Paths : Sound(pmtud'[q], PathMtu[q], limit')
BY DEF IInv, On, Sound

(* The MTU is always one that the path was found to carry, and the search  *)
(* never waits for nothing, for any table, number of probes and paths      *)
(* (Pmtud::on_packets_acked, on_packets_lost, next_probe, stop).           *)
THEOREM MtuAlwaysConfirmed == ASSUME ConstantsOK PROVE Spec => []MtuIsConfirmed
<1>1. Init => IInv
  BY DEF Init, IInv, Probes, New, Sound, Search, ConstantsOK
<1>2. IInv /\ [Next]_vars => IInv'
  <2> SUFFICES ASSUME IInv, [Next]_vars PROVE IInv'
    OBVIOUS
  <2>0. limit \in Nat /\ \A p \in Paths : PathMtu[p] \in Nat /\ pmtud[p] \in Search
    BY DEF IInv, ConstantsOK
  <2>1. CASE SendProbe
    <3> DEFINE m == pmtud[primary]
               n == [m EXCEPT !.probe_count = @ + 1, !.probe_state = "Sent"]
    <3>1. Sound(n, PathMtu[primary], limit) /\ n.probe_state = "Sent" /\ n.probe_index = m.probe_index
      <4>1. Sound(m, PathMtu[primary], limit) /\ m.probe_state = "Needed"
        BY <2>1 DEF SendProbe, IInv
      <4> HIDE DEF m
      <4>2. m \in Search /\ m.probe_count + 1 \in Nat
        BY <4>1 DEF Sound, Search
      <4>3. n \in Search
        BY <4>2, Zenon DEF Search
      <4>4. n.probe_state = "Sent" /\ n.probe_index = m.probe_index /\ n.mtu = m.mtu
        BY <4>2 DEF Search
      <4> HIDE DEF n
      <4> QED
        BY <4>1, <4>3, <4>4 DEF Sound
    <3>2. On(primary, n) /\ UNCHANGED <<primary, limit, lost>> /\ sent' = sent + 1
          /\ in_flight' = in_flight \cup {[id |-> sent, size |-> m.probe_index, path |-> primary]}
      BY <2>1 DEF SendProbe
    <3>3. m.probe_index \in Nat /\ primary \in Paths
      BY <2>0 DEF Search, IInv
    <3> HIDE DEF m, n
    <3>4. /\ pmtud' \in [Paths -> Search] /\ pmtud'[primary] = n
          /\ \A q \in Paths : Sound(pmtud'[q], PathMtu[q], limit')
      BY <3>1, <3>2, <3>3, SearchMoves
    <3>5. \E probe \in in_flight' : probe.size = pmtud'[primary'].probe_index
      <4> DEFINE probe == [id |-> sent, size |-> m.probe_index, path |-> primary]
      <4>1. probe \in in_flight' /\ probe.size = m.probe_index
        BY <3>2
      <4>2. pmtud'[primary'].probe_index = m.probe_index
        BY <3>1, <3>2, <3>4
      <4> QED
        BY <4>1, <4>2
    <3>6. \A probe \in in_flight' \cup lost' :
             probe.size \in Nat /\ probe.path \in Paths /\ (Migrates \/ probe.path = primary')
      BY <3>2, <3>3 DEF IInv, Probes
    <3> QED
      BY <3>2, <3>3, <3>4, <3>5, <3>6 DEF IInv, Probes
  <2>2. ASSUME NEW acked \in SUBSET (in_flight \cup lost), NEW declared \in SUBSET in_flight,
               acked \cap declared = {}, OnAck(acked, declared)
        PROVE  IInv'
    <3> DEFINE m == pmtud[primary]
               l == OnPacketsLost(m, Sizes(declared))
               n == OnPacketsAcked(l, Sizes(acked))
               b == PathMtu[primary]
    <3>1. b \in Nat /\ Sound(m, b, limit) /\ primary \in Paths
      BY <2>0 DEF IInv
    <3>2. \A s \in Sizes(acked) : s <= b
      BY <2>2 DEF OnAck, Sizes, IInv, Probes, ConstantsOK
    <3>3. /\ Sound(l, b, limit)
          /\ Sizes(declared) # {} => l.probe_state # "Sent"
          /\ Sizes(declared) = {} => l = m
      BY <3>1, <2>0, LostSound
    <3>4. Sound(n, b, limit) /\ (n.probe_state # "Sent" \/ (n = l /\ l.probe_index \notin Sizes(acked)))
      BY <3>1, <3>2, <3>3, <2>0, AckedSound
    <3>5. On(primary, n) /\ UNCHANGED <<primary, limit, sent>>
          /\ in_flight' = in_flight \ (acked \cup declared) /\ lost' = (lost \cup declared) \ acked
      BY <2>2 DEF OnAck
    <3>6. n.probe_state = "Sent" => \E probe \in in_flight' : probe.size = n.probe_index
      <4> HAVE n.probe_state = "Sent"
      <4>1. n = m /\ declared = {} /\ m.probe_index \notin Sizes(acked)
        BY <3>3, <3>4 DEF Sizes
      <4>2. PICK probe \in in_flight : probe.size = m.probe_index
        BY <4>1 DEF IInv, Probes
      <4>3. probe \notin acked
        BY <4>1, <4>2 DEF Sizes
      <4> QED
        BY <3>5, <4>1, <4>2, <4>3
    <3> HIDE DEF m, l, n, b
    <3>7. /\ pmtud' \in [Paths -> Search] /\ pmtud'[primary] = n
          /\ \A q \in Paths : Sound(pmtud'[q], PathMtu[q], limit')
      BY <3>1, <3>4, <3>5, SearchMoves DEF b
    <3> QED
      BY <3>1, <3>5, <3>6, <3>7 DEF IInv, Probes
  <2>3. CASE RaiseTimer
    <3> DEFINE r == [pmtud[primary] EXCEPT !.raise_timer = FALSE]
    <3>1. r \in Search /\ r.probe_index >= 1 /\ r.mtu = r.probe_index
          /\ (r.probe_index = 1 \/ (r.probe_index <= PathMtu[primary] /\ r.probe_index <= limit))
      BY <2>3 DEF RaiseTimer, IInv, Sound, Search
    <3>2. On(primary, NextProbe(r)) /\ UNCHANGED <<primary, limit, in_flight, lost, sent>>
      BY <2>3 DEF RaiseTimer
    <3> HIDE DEF r
    <3>3. primary \in Paths /\ PathMtu[primary] \in Nat
      BY <2>0 DEF IInv
    <3>4. Sound(NextProbe(r), PathMtu[primary], limit) /\ NextProbe(r).probe_state # "Sent"
      BY <3>1, <3>3, <2>0, ConfirmedNext
    <3>5. /\ pmtud' \in [Paths -> Search] /\ pmtud'[primary] = NextProbe(r)
          /\ \A q \in Paths : Sound(pmtud'[q], PathMtu[q], limit')
      BY <3>2, <3>3, <3>4, SearchMoves
    <3> QED
      BY <3>2, <3>4, <3>5 DEF IInv, Probes
  <2>4. ASSUME NEW p \in Paths, Restart(p) \/ Migration(p) PROVE IInv'
    <3>1. Sound(Start(pmtud[p]), PathMtu[p], limit) /\ Start(pmtud[p]).probe_state # "Sent"
      BY <2>0, StartSound
    <3>2. On(p, Start(pmtud[p])) /\ UNCHANGED <<limit, in_flight, lost, sent>>
          /\ (primary' = primary \/ (Migrates /\ primary' = p))
      BY <2>4 DEF Restart, Migration
    <3>3. /\ pmtud' \in [Paths -> Search] /\ pmtud'[p] = Start(pmtud[p])
          /\ \A q \in Paths : Sound(pmtud'[q], PathMtu[q], limit')
      BY <3>1, <3>2, SearchMoves
    <3>4. \A q \in Paths : q # p => pmtud'[q] = pmtud[q]
      BY <3>2 DEF On, IInv
    <3> QED
      BY <3>1, <3>2, <3>3, <3>4 DEF IInv, Probes
  <2>5. CASE UNCHANGED vars
    BY <2>5 DEF vars, IInv, Probes
  <2> QED
    BY <2>1, <2>2, <2>3, <2>4, <2>5 DEF Next
<1>3. IInv => MtuIsConfirmed
  BY DEF IInv, Probes, Sound, MtuIsConfirmed
<1> QED
  BY <1>1, <1>2, <1>3, PTL DEF Spec
=============================================================================
