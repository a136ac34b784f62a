------------------------------ MODULE KeyUpdate ------------------------------
(***************************************************************************)
(* Updates of the 1-RTT packet protection keys of two endpoints            *)
(* (CryptoDxState and CryptoStates in neqo-transport/src/crypto.rs, and    *)
(* packet::Public::decrypt).  Each endpoint writes with one epoch of keys  *)
(* and reads with two, the current and the next; the key phase bit of a    *)
(* packet tells them apart.  It moves to the next read keys one PTO after  *)
(* they are first used.  Packets are delayed and reordered, some for ever; *)
(* a packet is opened by the keys of its own epoch only.                   *)
(***************************************************************************)
EXTENDS Integers, TLAPS

CONSTANTS
    WriteLimit, ReadLimit,   \* invocations a key allows (CryptoDxState::limit)
    UPDATE_WRITE_KEYS_AT,
    Pto,                     \* of each endpoint
    ZeroRtt,                 \* the endpoints that hold 0-RTT read keys
    MaxPn, MaxEpoch, MaxTime

VARIABLES keys, net, now, early

vars == <<keys, net, now, early>>

Ends == {"client", "server"}
Peer(e) == IF e = "client" THEN "server" ELSE "client"
None == -1
ApplicationData == 3

(* The packet numbers lo..hi-1 have been used with these keys. *)
Dx(epoch, pn, invocations) ==
    [epoch |-> epoch, lo |-> pn, hi |-> pn, min |-> pn, invocations |-> invocations]
NextWrite(dx) == Dx(dx.epoch + 1, dx.hi, WriteLimit)
NextRead(dx) == Dx(dx.epoch + 1, dx.hi, dx.invocations)
KeyPhase(dx) == dx.epoch % 2 # 1

Init ==
    /\ keys = [e \in Ends |->
        [write |-> Dx(ApplicationData, 0, WriteLimit), read |-> Dx(ApplicationData, 0, ReadLimit),
         next |-> NextRead(Dx(ApplicationData, 0, ReadLimit)),
         update_time |-> IF e \in ZeroRtt THEN Pto[e] ELSE None, update_epoch |-> None,
         zero_rtt |-> e \in ZeroRtt,
         acked |-> None, largest |-> None, error |-> "none"]]
    /\ net = {} /\ now = 0 /\ early = FALSE

-----------------------------------------------------------------------------
Larger(m, n) == IF m > n THEN m ELSE n

Used(dx, pn) ==
    [dx EXCEPT !.lo = IF dx.lo = dx.hi THEN pn ELSE @, !.hi = Larger(@, pn + 1)]

NeedsUpdate(dx) == dx.lo + 1 = dx.hi /\ dx.epoch > ApplicationData

(* Mutant of CanUpdate: an update does not wait for an acknowledgment. *)
CanUpdateAlways(dx, acked) == TRUE

CanUpdate(dx, acked) ==
    IF acked = None THEN dx.epoch = ApplicationData ELSE dx.lo <= acked /\ acked < dx.hi

Overlaps(dx, prev) == dx.lo < dx.hi /\ prev.hi > dx.lo
Continuation(dx, prev) ==
    IF dx.lo = dx.hi THEN [dx EXCEPT !.min = prev.hi, !.lo = prev.hi, !.hi = prev.hi]
    ELSE IF Overlaps(dx, prev) THEN [dx EXCEPT !.min = prev.hi]
    ELSE [dx EXCEPT !.min = prev.hi, !.lo = prev.hi]

CanUpdateWrite(k) == k.write.epoch = k.read.epoch
MaybeUpdateWrite(k) ==
    IF CanUpdateWrite(k) THEN [k EXCEPT !.write = NextWrite(@)] ELSE k

ShouldUpdate(dx) == dx.invocations <= UPDATE_WRITE_KEYS_AT

AutoUpdate(k) ==
    IF ~ShouldUpdate(k.write) THEN k
    ELSE IF CanUpdateWrite(k) THEN MaybeUpdateWrite(k)
    ELSE [k EXCEPT !.error = "KeysExhausted"]

IsNewUpdate(k, epoch) == k.update_epoch < epoch

KeyUpdateReceived(k, epoch, expiration) ==
    IF ~IsNewUpdate(k, epoch) THEN k
    ELSE [MaybeUpdateWrite(k) EXCEPT
            !.update_epoch = epoch, !.zero_rtt = FALSE, !.update_time = expiration]

(* Once 0-RTT keys have expired they go; otherwise the next read keys take over. *)
CheckKeyUpdate(k) ==
    IF k.zero_rtt THEN [k EXCEPT !.zero_rtt = FALSE, !.update_time = None]
    ELSE [k EXCEPT !.read = k.next, !.next = NextRead(k.next), !.update_time = None]

CheckPnOverlap(k) ==
    IF k.update_time = None THEN k ELSE [k EXCEPT !.next = Continuation(@, k.read)]

-----------------------------------------------------------------------------
(* Public::decrypt: the key phase selects the keys. *)

ReadKey(k, pk) == IF KeyPhase(k.read) = KeyPhase(pk) THEN "read" ELSE "next"
Opens(k, pk) ==
    LET dx == k[ReadKey(k, pk)] IN
    dx.invocations > 0 /\ dx.epoch = pk.epoch /\ pk.pn >= dx.min

Opened(k, pk, expiration) ==
    LET key == ReadKey(k, pk)
        dx == Used([k[key] EXCEPT !.invocations = @ - 1], pk.pn)
        used == [k EXCEPT ![key] = dx]
    IN  IF NeedsUpdate(dx) THEN KeyUpdateReceived(used, pk.epoch, expiration) ELSE used

(* Not opening a packet costs an invocation as well. *)
Discarded(k, pk) ==
    LET key == ReadKey(k, pk) IN
    IF k[key].invocations = 0 THEN [k EXCEPT !.error = "KeysExhausted"]
    ELSE [k EXCEPT ![key].invocations = @ - 1]

Accepted(k, pk) ==
    [k EXCEPT !.largest = Larger(@, pk.pn), !.acked = Larger(@, pk.acked)]

Overlapping(k) == k.update_time # None /\ Overlaps(k.next, k.read)

-----------------------------------------------------------------------------
(* The next packet: one invocation of the write keys, and one number. *)
PacketOf(e, k) ==
    [to |-> Peer(e), epoch |-> k.write.epoch, pn |-> k.write.hi, acked |-> k.largest]
AfterPacket(k) ==
    [k EXCEPT !.write = Used([k.write EXCEPT !.invocations = @ - 1], k.write.hi)]

Send(e) ==
    LET k == keys[e] IN
    /\ k.error = "none" /\ k.write.hi < MaxPn /\ k.write.invocations > 0
    /\ net' = net \cup {PacketOf(e, k)}
    /\ \E sent \in {AfterPacket(k)} :
          /\ keys' = [keys EXCEPT ![e] = AutoUpdate(sent)]
          /\ early' = (early \/ (ShouldUpdate(sent.write) /\ ~CanUpdate(sent.write, k.acked)))
    /\ UNCHANGED now

Receive(pk) ==
    LET e == pk.to
        k == keys[e]
    IN  /\ k.error = "none"
        /\ net' = net \ {pk}
        /\ \/ /\ ~Opens(k, pk)
              /\ keys' = [keys EXCEPT ![e] = Discarded(@, pk)]
           \/ /\ Opens(k, pk)
              /\ \E o \in {Opened(k, pk, now + Pto[e])} :
                    /\ keys' = [keys EXCEPT ![e] =
                          IF Overlapping(o) THEN CheckPnOverlap(o) ELSE Accepted(CheckPnOverlap(o), pk)]
        /\ UNCHANGED <<now, early>>

(* The application, or a test, asks for an update (Connection::initiate_key_update). *)
InitiateKeyUpdate(e) ==
    /\ keys[e].error = "none" /\ keys[e].write.epoch < MaxEpoch
    /\ CanUpdate(keys[e].write, keys[e].acked) /\ keys[e].update_time = None
    /\ CanUpdateWrite(keys[e])
    /\ keys' = [keys EXCEPT ![e] = MaybeUpdateWrite(@)]
    /\ UNCHANGED <<net, now, early>>

(* process_timer runs when the timer is due, or any time later. *)
Timer(e) ==
    /\ keys[e].error = "none"
    /\ keys[e].update_time # None /\ now >= keys[e].update_time
    /\ keys' = [keys EXCEPT ![e] = CheckKeyUpdate(@)]
    /\ UNCHANGED <<net, now, early>>

Tick == now < MaxTime /\ now' = now + 1 /\ UNCHANGED <<keys, net, early>>

Next ==
    \/ \E e \in Ends : Send(e) \/ InitiateKeyUpdate(e) \/ Timer(e)
    \/ \E pk \in net : Receive(pk)
    \/ Tick

Spec == Init /\ [][Next]_vars

-----------------------------------------------------------------------------
(* Key updates never drive two endpoints apart, whatever is lost, late or  *)
(* out of order and however late the timers run: what one writes the other *)
(* can read, or will once the timer that is running makes room for the     *)
(* next keys.  An endpoint never writes with keys older than those it      *)
(* reads, so that its peer is free to update again.  (auto_update does not *)
(* wait for an acknowledgment, which initiate_key_update does: the claim   *)
(* ends where a key runs out before any of its packets is acknowledged.)   *)
KeysMeet ==
    ~early => \A e \in Ends :
        LET w == keys[e].write.epoch
            r == keys[Peer(e)].read.epoch
        IN  /\ w \in r .. (r + 2)
            /\ w = r + 2 => keys[Peer(e)].update_time # None
            /\ w >= keys[e].read.epoch /\ w >= keys[e].update_epoch
            /\ keys[e].next.epoch = keys[e].read.epoch + 1

-----------------------------------------------------------------------------
(* Proofs, for all limits of keys, timeouts and bounds.                    *)

ConstantsOK ==
    /\ WriteLimit \in Int /\ ReadLimit \in Int /\ UPDATE_WRITE_KEYS_AT \in Int
    /\ Pto \in [Ends -> Nat]

DxType == [epoch : Int, lo : Int, hi : Int, min : Int, invocations : Int]
KeysType == [write : DxType, read : DxType, next : DxType, update_time : Int, update_epoch : Int,
             zero_rtt : BOOLEAN, acked : Int, largest : Int, error : {"none", "KeysExhausted"}]

PacketType == [to : Ends, epoch : Int, pn : Int, acked : Int]

(* The latest epoch of which a packet was opened. *)
Seen(k) == Larger(k.read.epoch, k.update_epoch)

(* One endpoint: it writes with the epoch it reads or with the next; the   *)
(* next read keys have been used exactly if an update is under way, and    *)
(* then the timer runs.                                                    *)
OneEnd(k) ==
    /\ k.next.epoch = k.read.epoch + 1 /\ k.read.epoch >= ApplicationData
    /\ k.write.epoch \in {k.read.epoch, k.read.epoch + 1}
    /\ k.update_epoch <= k.write.epoch
    /\ IF k.read.epoch = ApplicationData
       THEN k.update_epoch \in {None, k.read.epoch + 1}
       ELSE k.update_epoch \in {k.read.epoch, k.read.epoch + 1}
    /\ k.zero_rtt => k.read.epoch = ApplicationData /\ k.update_epoch = None
    /\ (k.update_time # None /\ ~k.zero_rtt) <=> k.update_epoch = k.read.epoch + 1
    /\ k.next.lo <= k.next.hi
    /\ k.next.lo = k.next.hi => k.next.min = k.next.hi
    /\ k.next.lo < k.next.hi => k.update_epoch = k.next.epoch

(* What is said of packets that k writes and the end with keys o reads: a  *)
(* number belongs to one epoch, and an acknowledgment of one that belongs  *)
(* to the current epoch comes from an endpoint that has seen that epoch.   *)
Acknowledges(pn, k, o) ==
    /\ pn < k.write.hi
    /\ pn >= k.write.lo => Seen(o) >= k.write.epoch

TwoEnds(k, o) ==
    /\ 0 <= k.write.lo /\ k.write.lo <= k.write.hi
    /\ Seen(o) <= k.write.epoch
    /\ Acknowledges(o.largest, k, o) /\ Acknowledges(k.acked, k, o)

Packet(pk, k, o) ==
    /\ pk.epoch <= k.write.epoch /\ pk.pn < k.write.hi
    /\ pk.epoch < k.write.epoch => pk.pn < k.write.lo
    /\ Acknowledges(pk.acked, o, k)

(* All of it, with the packets under way. *)
Sound(ks, ns) ==
    /\ ks \in [Ends -> KeysType] /\ ns \subseteq PacketType
    /\ \A e \in Ends : OneEnd(ks[e]) /\ TwoEnds(ks[e], ks[Peer(e)])
    /\ \A pk \in ns : Packet(pk, ks[Peer(pk.to)], ks[pk.to])

(* A write epoch is at most one ahead of what the peer has seen. *)
Close(ks) == \A e \in Ends : ks[e].write.epoch <= Seen(ks[Peer(e)]) + 1

(* The inductive invariant. *)
IInv == Sound(keys, net) /\ now \in Nat /\ (~early => Close(keys))

(* An update of the write keys. *)
LEMMA WriteUpdated ==
    ASSUME ConstantsOK, NEW k \in KeysType, OneEnd(k), CanUpdateWrite(k)
    PROVE  LET u == MaybeUpdateWrite(k) IN
           /\ u \in KeysType /\ OneEnd(u)
           /\ u.write.epoch = k.write.epoch + 1 /\ u.write.lo = k.write.hi /\ u.write.hi = k.write.hi
           /\ u.read = k.read /\ u.update_epoch = k.update_epoch
           /\ u.acked = k.acked /\ u.largest = k.largest
BY DEF ConstantsOK, KeysType, DxType, OneEnd, MaybeUpdateWrite, CanUpdateWrite, NextWrite, Dx, None, ApplicationData

LEMMA UsedType ==
    ASSUME NEW dx \in DxType, NEW pn \in Int
    PROVE  /\ Used(dx, pn) \in DxType
           /\ Used(dx, pn).epoch = dx.epoch /\ Used(dx, pn).min = dx.min
           /\ Used(dx, pn).lo = IF dx.lo = dx.hi THEN pn ELSE dx.lo
           /\ Used(dx, pn).hi = IF dx.hi > pn + 1 THEN dx.hi ELSE pn + 1
<1> DEFINE lo == IF dx.lo = dx.hi THEN pn ELSE dx.lo
           hi == Larger(dx.hi, pn + 1)
<1>1. lo \in Int /\ hi \in Int
  BY DEF DxType, Larger
<1>2. Used(dx, pn) = [dx EXCEPT !.lo = lo, !.hi = hi]
  BY DEF Used
<1>3. hi = IF dx.hi > pn + 1 THEN dx.hi ELSE pn + 1
  BY DEF Larger
<1> HIDE DEF lo, hi
<1>4. [dx EXCEPT !.lo = lo, !.hi = hi] \in DxType
  BY <1>1 DEF DxType
<1>5. /\ Used(dx, pn).epoch = dx.epoch /\ Used(dx, pn).min = dx.min
      /\ Used(dx, pn).lo = lo /\ Used(dx, pn).hi = hi
  BY <1>2 DEF DxType
<1> QED
  BY <1>2, <1>3, <1>4, <1>5 DEF lo

(* Opening a packet with the current read keys changes nothing but them. *)
LEMMA OpenedByRead ==
    ASSUME ConstantsOK, NEW k \in KeysType, OneEnd(k), NEW t \in Nat,
           NEW pk \in PacketType,
           Opens(k, pk), ReadKey(k, pk) = "read"
    PROVE  LET o == Opened(k, pk, t) IN
           /\ o \in KeysType /\ OneEnd(o)
           /\ o = [k EXCEPT !.read = o.read] /\ o.read.epoch = k.read.epoch /\ pk.epoch = k.read.epoch
<1> DEFINE d == [k.read EXCEPT !.invocations = @ - 1]
           dx == Used(d, pk.pn)
<1>1. d \in DxType /\ d.epoch = k.read.epoch
  BY DEF KeysType, DxType
<1>a. dx \in DxType /\ dx.epoch = k.read.epoch
  BY <1>1, UsedType DEF PacketType
<1>2. pk.epoch = k.read.epoch
  BY DEF Opens
<1>b. k["read"] = k.read /\ [k EXCEPT !["read"] = dx] = [k EXCEPT !.read = dx]
  BY DEF KeysType
<1>3. Opened(k, pk, t) = [k EXCEPT !.read = dx]
  BY <1>a, <1>b, <1>2 DEF Opened, KeyUpdateReceived, IsNewUpdate, NeedsUpdate, OneEnd, KeysType, DxType, PacketType
<1> QED
  BY <1>a, <1>2, <1>3 DEF KeysType, OneEnd

(* Opening a packet with the next read keys starts an update, if it is the first. *)
LEMMA OpenedByNext ==
    ASSUME ConstantsOK, NEW k \in KeysType, OneEnd(k), NEW t \in Nat,
           NEW pk \in PacketType,
           Opens(k, pk), ReadKey(k, pk) = "next"
    PROVE  LET o == Opened(k, pk, t) IN
           /\ o \in KeysType /\ OneEnd(o)
           /\ o.read = k.read /\ o.acked = k.acked /\ o.largest = k.largest
           /\ pk.epoch = k.read.epoch + 1 /\ o.update_epoch = pk.epoch
           /\ \/ o.write = k.write
              \/ /\ k.write.epoch = k.read.epoch /\ o.write.epoch = k.write.epoch + 1
                 /\ o.write.lo = k.write.hi /\ o.write.hi = k.write.hi
<1> DEFINE d == [k.next EXCEPT !.invocations = @ - 1]
           dx == Used(d, pk.pn)
           u == [k EXCEPT !.next = dx]
<1>1. d \in DxType /\ d.epoch = k.next.epoch /\ d.lo = k.next.lo /\ d.hi = k.next.hi /\ d.min = k.next.min
  BY DEF KeysType, DxType
<1>2. k["next"] = k.next /\ [k EXCEPT !["next"] = dx] = u
  BY DEF KeysType
<1>3. pk.epoch = k.next.epoch /\ pk.pn >= k.next.min
  BY <1>2 DEF Opens
<1>4. /\ dx \in DxType /\ dx.epoch = k.next.epoch /\ dx.min = k.next.min
      /\ dx.lo = IF k.next.lo = k.next.hi THEN pk.pn ELSE k.next.lo
      /\ dx.hi = IF k.next.hi > pk.pn + 1 THEN k.next.hi ELSE pk.pn + 1
  BY <1>1, UsedType, ZenonT(30) DEF PacketType
<1> HIDE DEF d, dx
<1>5. dx.lo < dx.hi /\ (k.next.lo = k.next.hi => dx.lo + 1 = dx.hi)
  BY <1>3, <1>4 DEF OneEnd, KeysType, DxType, PacketType
<1>6. Opened(k, pk, t) = IF NeedsUpdate(dx) THEN KeyUpdateReceived(u, pk.epoch, t) ELSE u
  BY <1>2 DEF Opened, d, dx
<1>7. u \in KeysType
  BY <1>4 DEF KeysType
<1>u. u = [write |-> k.write, read |-> k.read, next |-> dx, update_time |-> k.update_time,
          update_epoch |-> k.update_epoch, zero_rtt |-> k.zero_rtt, acked |-> k.acked,
          largest |-> k.largest, error |-> k.error]
  BY DEF KeysType
<1>8. pk.epoch = k.read.epoch + 1 /\ pk.epoch > ApplicationData
  BY <1>3 DEF OneEnd, KeysType, DxType, ApplicationData
<1>9. CASE k.update_epoch = pk.epoch
  <2>1. Opened(k, pk, t) = u
    BY <1>6, <1>7, <1>9 DEF KeyUpdateReceived, IsNewUpdate, KeysType
  <2> QED
    BY <2>1, <1>7, <1>8, <1>9, <1>4, <1>5, <1>3 DEF OneEnd, KeysType, DxType
<1>10. CASE k.update_epoch # pk.epoch
  <2>1. k.next.lo = k.next.hi /\ k.update_epoch < pk.epoch
    BY <1>10, <1>3, <1>8 DEF OneEnd, KeysType, DxType, None, ApplicationData
  <2>2. NeedsUpdate(dx)
    BY <2>1, <1>5, <1>4, <1>3, <1>8 DEF NeedsUpdate
  <2>3. Opened(k, pk, t) = [MaybeUpdateWrite(u) EXCEPT
            !.update_epoch = pk.epoch, !.zero_rtt = FALSE, !.update_time = t]
    BY <1>6, <2>1, <2>2 DEF KeyUpdateReceived, IsNewUpdate, KeysType
  <2> DEFINE v == MaybeUpdateWrite(u)
             o == [v EXCEPT !.update_epoch = pk.epoch, !.zero_rtt = FALSE, !.update_time = t]
  <2>4. /\ v \in KeysType
        /\ v.read = k.read /\ v.next = dx /\ v.acked = k.acked /\ v.largest = k.largest
        /\ \/ v.write = k.write /\ k.write.epoch # k.read.epoch
           \/ /\ k.write.epoch = k.read.epoch /\ v.write.epoch = k.write.epoch + 1
              /\ v.write.lo = k.write.hi /\ v.write.hi = k.write.hi
    <3> DEFINE w == NextWrite(k.write)
    <3>1. w \in DxType /\ w.epoch = k.write.epoch + 1 /\ w.lo = k.write.hi /\ w.hi = k.write.hi
      BY DEF ConstantsOK, NextWrite, Dx, KeysType, DxType
    <3>2. v = IF k.write.epoch = k.read.epoch THEN [u EXCEPT !.write = w] ELSE u
      BY <1>u DEF MaybeUpdateWrite, CanUpdateWrite
    <3> HIDE DEF w, u, v
    <3>3. u.write = k.write /\ u.read = k.read /\ u.next = dx /\ u.acked = k.acked /\ u.largest = k.largest
      BY <1>u
    <3> QED
      BY <3>1, <3>2, <3>3, <1>7 DEF KeysType
  <2>5. v.write \in DxType /\ k.read \in DxType /\ k.write \in DxType
    BY <2>4 DEF KeysType
  <2> HIDE DEF v, u
  <2>6. o \in KeysType
    <3>1. pk.epoch \in Int /\ t \in Int /\ FALSE \in BOOLEAN
      BY DEF PacketType
    <3> QED
      BY <3>1, <2>4, Zenon DEF KeysType
  <2>7. /\ o.read = k.read /\ o.next = dx /\ o.acked = k.acked /\ o.largest = k.largest
        /\ o.write = v.write /\ o.update_epoch = pk.epoch /\ o.zero_rtt = FALSE /\ o.update_time = t
    BY <2>4 DEF KeysType
  <2> HIDE DEF o
  <2>8. OneEnd(o)
    BY <2>4, <2>5, <2>7, <1>8, <1>4, <1>5, <1>3 DEF OneEnd, KeysType, DxType, None, ApplicationData
  <2> QED
    BY <2>3, <2>4, <2>6, <2>7, <2>8, <1>8 DEF o, v, u
<1> QED
  BY <1>9, <1>10

(* Removing an overlap, or discarding a packet, changes nothing else. *)
LEMMA OverlapChecked ==
    ASSUME NEW k \in KeysType, OneEnd(k)
    PROVE  LET u == CheckPnOverlap(k) IN
           /\ u \in KeysType /\ OneEnd(u)
           /\ u.write = k.write /\ u.read = k.read /\ u.update_epoch = k.update_epoch
           /\ u.acked = k.acked /\ u.largest = k.largest
<1> DEFINE c == Continuation(k.next, k.read)
<1>1. /\ c \in DxType /\ c.epoch = k.next.epoch /\ c.lo <= c.hi
      /\ c.lo = c.hi => c.min = c.hi
      /\ c.lo = c.hi <=> k.next.lo = k.next.hi
  <2> k.read \in DxType /\ k.next \in DxType
    BY DEF KeysType
  <2>1. CASE k.next.lo = k.next.hi
    <3>1. c = [k.next EXCEPT !.min = k.read.hi, !.lo = k.read.hi, !.hi = k.read.hi]
      BY <2>1 DEF Continuation
    <3>2. c \in DxType
      BY <3>1, Zenon DEF DxType
    <3> QED
      BY <3>1, <3>2, <2>1 DEF DxType
  <2>2. CASE k.next.lo < k.next.hi /\ Overlaps(k.next, k.read)
    BY <2>2 DEF DxType, Continuation
  <2>3. CASE k.next.lo < k.next.hi /\ ~Overlaps(k.next, k.read)
    <3>1. c = [k.next EXCEPT !.min = k.read.hi, !.lo = k.read.hi]
      BY <2>3 DEF Continuation, DxType
    <3>2. k.read.hi <= k.next.lo
      BY <2>3 DEF Overlaps, DxType
    <3>3. c.epoch = k.next.epoch /\ c.lo = k.read.hi /\ c.hi = k.next.hi /\ c.lo < c.hi
      BY <3>1, <3>2, <2>3 DEF DxType
    <3>4. c \in DxType
      BY <3>1, Zenon DEF DxType
    <3> QED
      BY <3>3, <3>4, <2>3 DEF DxType
  <2> QED
    BY <2>1, <2>2, <2>3 DEF OneEnd, KeysType, DxType
<1>2. CheckPnOverlap(k) = k \/ CheckPnOverlap(k) = [k EXCEPT !.next = c]
  BY DEF CheckPnOverlap
<1> HIDE DEF c
<1>3. CASE CheckPnOverlap(k) = [k EXCEPT !.next = c]
  <2>1. CheckPnOverlap(k) \in KeysType
    BY <1>1, <1>3 DEF KeysType
  <2>2. /\ CheckPnOverlap(k).write = k.write /\ CheckPnOverlap(k).read = k.read
        /\ CheckPnOverlap(k).next = c
        /\ CheckPnOverlap(k).update_epoch = k.update_epoch /\ CheckPnOverlap(k).zero_rtt = k.zero_rtt
        /\ CheckPnOverlap(k).update_time = k.update_time
        /\ CheckPnOverlap(k).acked = k.acked /\ CheckPnOverlap(k).largest = k.largest
    BY <1>3 DEF KeysType
  <2>3. OneEnd(CheckPnOverlap(k))
    BY <1>1, <2>2 DEF KeysType, DxType, OneEnd
  <2> QED
    BY <2>1, <2>2, <2>3
<1> QED
  BY <1>2, <1>3

LEMMA DiscardedType ==
    ASSUME NEW k \in KeysType, OneEnd(k), NEW pk \in PacketType
    PROVE  LET u == Discarded(k, pk) IN
           /\ u \in KeysType /\ OneEnd(u)
           /\ u.write = k.write /\ u.read.epoch = k.read.epoch /\ u.update_epoch = k.update_epoch
           /\ u.acked = k.acked /\ u.largest = k.largest
BY DEF KeysType, DxType, OneEnd, Discarded, ReadKey, None, ApplicationData

(* The timer ends an update, or the time of 0-RTT keys. *)
LEMMA KeyUpdateChecked ==
    ASSUME NEW k \in KeysType, OneEnd(k), k.update_time # None
    PROVE  LET u == CheckKeyUpdate(k) IN
           /\ u \in KeysType /\ OneEnd(u)
           /\ u.write = k.write /\ Seen(u) = Seen(k)
           /\ u.acked = k.acked /\ u.largest = k.largest
<1>1. CASE k.zero_rtt
  BY <1>1 DEF KeysType, DxType, OneEnd, CheckKeyUpdate, Seen, Larger, None, ApplicationData
<1>2. CASE ~k.zero_rtt
  <2> DEFINE n == NextRead(k.next)
  <2>1. n \in DxType /\ n.epoch = k.next.epoch + 1 /\ n.lo = n.hi /\ n.min = n.hi
    BY DEF KeysType, DxType, NextRead, Dx
  <2>2. CheckKeyUpdate(k) = [k EXCEPT !.read = k.next, !.next = n, !.update_time = None]
    BY <1>2 DEF CheckKeyUpdate
  <2> HIDE DEF n
  <2>5. CheckKeyUpdate(k) =
            [write |-> k.write, read |-> k.next, next |-> n, update_time |-> None,
             update_epoch |-> k.update_epoch, zero_rtt |-> k.zero_rtt, acked |-> k.acked,
             largest |-> k.largest, error |-> k.error]
    BY <2>2 DEF KeysType
  <2>3. CheckKeyUpdate(k) \in KeysType
    BY <2>1, <2>5 DEF KeysType, None
  <2>4. k.update_epoch = k.read.epoch + 1 /\ k.write.epoch = k.read.epoch + 1
    BY <1>2 DEF KeysType, DxType, OneEnd
  <2> QED
    BY <1>2, <2>1, <2>5, <2>3, <2>4 DEF KeysType, DxType, OneEnd, Seen, Larger, None, ApplicationData
<1> QED
  BY <1>1, <1>2

(* An end writes with the epoch it has seen, or with the next one.          *)
LEMMA WritesNoFurther ==
    ASSUME NEW k \in KeysType, OneEnd(k)
    PROVE  k.write.epoch <= Seen(k) + 1
<1>1. k.write.epoch \in Int /\ k.read.epoch \in Int /\ k.update_epoch \in Int
  BY DEF KeysType, DxType
<1>2. k.write.epoch <= k.read.epoch + 1
  BY <1>1 DEF OneEnd
<1>3. Seen(k) \in Int /\ Seen(k) >= k.read.epoch
  BY <1>1 DEF Seen, Larger
<1> QED
  BY <1>1, <1>2, <1>3

(* A step of one end that sends nothing: it may have seen a later epoch,   *)
(* acknowledge more, and write with the next epoch.                        *)
LEMMA EndMoves ==
    ASSUME NEW ks, NEW ns, Sound(ks, ns), NEW e \in Ends, NEW n \in KeysType, OneEnd(n),
           Seen(n) >= Seen(ks[e]), Seen(n) <= ks[Peer(e)].write.epoch,
           \/ n.write = ks[e].write
           \/ /\ n.write.epoch = ks[e].write.epoch + 1
              /\ n.write.lo = ks[e].write.hi /\ n.write.hi = ks[e].write.hi,
           Acknowledges(n.largest, ks[Peer(e)], n),
           n.acked = ks[e].acked \/ Acknowledges(n.acked, ks[e], ks[Peer(e)]),
           NEW m \in SUBSET ns
    PROVE  Sound([ks EXCEPT ![e] = n], m)
<1> DEFINE p == Peer(e)
           kt == [ks EXCEPT ![e] = n]
<1>1. p \in Ends /\ p # e /\ Peer(p) = e /\ Ends = {e, p}
  BY DEF Ends, Peer
<1>2. kt \in [Ends -> KeysType] /\ kt[e] = n /\ kt[p] = ks[p] /\ ks[e] \in KeysType /\ ks[p] \in KeysType
  BY <1>1 DEF Sound
<1>3. /\ OneEnd(ks[e]) /\ TwoEnds(ks[e], ks[p]) /\ OneEnd(ks[p]) /\ TwoEnds(ks[p], ks[e])
  BY <1>1 DEF Sound
<1> DEFINE k == ks[e]
           o == ks[p]
<1>4. /\ k.write \in DxType /\ o.write \in DxType /\ n.write \in DxType
      /\ Seen(k) \in Int /\ Seen(o) \in Int /\ Seen(n) \in Int
  BY <1>2 DEF KeysType, DxType, Seen, Larger
<1> HIDE DEF k, o, p
<1>5. ASSUME NEW pn \in Int
      PROVE  /\ Acknowledges(pn, k, o) => Acknowledges(pn, n, o)
             /\ Acknowledges(pn, o, k) => Acknowledges(pn, o, n)
  BY <1>3, <1>4 DEF Acknowledges, TwoEnds, DxType, k, o, p
<1>6. TwoEnds(n, o)
  BY <1>2, <1>3, <1>4, <1>5 DEF TwoEnds, DxType, KeysType, k, o, p
<1>7. TwoEnds(o, n)
  BY <1>2, <1>3, <1>4, <1>5 DEF TwoEnds, DxType, KeysType, k, o, p
<1>8. ASSUME NEW pk \in m PROVE Packet(pk, kt[Peer(pk.to)], kt[pk.to])
  <2>1. pk \in ns /\ pk \in PacketType /\ Packet(pk, ks[Peer(pk.to)], ks[pk.to])
    BY <1>8 DEF Sound
  <2>2. CASE pk.to = e
    <3>1. Packet(pk, o, k)
      BY <2>1, <2>2 DEF k, o, p
    <3>2. Packet(pk, o, n)
      BY <3>1, <2>1, <1>5 DEF Packet, PacketType
    <3> QED
      BY <3>2, <2>2, <1>2 DEF o, p
  <2>3. CASE pk.to = p
    <3>1. Packet(pk, k, o)
      BY <2>1, <2>3, <1>1 DEF k, o, p
    <3>2. Packet(pk, n, o)
      BY <3>1, <2>1, <1>5, <1>4, <1>3 DEF Packet, PacketType, TwoEnds, DxType, k
    <3> QED
      BY <3>2, <2>3, <1>1, <1>2 DEF o, p
  <2> QED
    BY <2>1, <2>2, <2>3, <1>1 DEF PacketType
<1>9. ASSUME NEW x \in Ends PROVE OneEnd(kt[x]) /\ TwoEnds(kt[x], kt[Peer(x)])
  BY <1>1, <1>2, <1>3, <1>6, <1>7 DEF o, p
<1> QED
  BY <1>2, <1>8, <1>9 DEF Sound

(* One more packet is sent. *)
LEMMA OneSent ==
    ASSUME NEW ks, NEW ns, Sound(ks, ns), NEW e \in Ends
    PROVE  LET k == ks[e]
               n == AfterPacket(k)
           IN  /\ Sound([ks EXCEPT ![e] = n], ns \cup {PacketOf(e, k)})
               /\ n \in KeysType /\ Seen(n) = Seen(k) /\ n.write.epoch = k.write.epoch
               /\ n.read = k.read /\ n.acked = k.acked /\ n.largest = k.largest
<1> DEFINE p == Peer(e)
           k == ks[e]
           o == ks[p]
           d == [k.write EXCEPT !.invocations = @ - 1]
           w == Used(d, k.write.hi)
           n == AfterPacket(k)
           kt == [ks EXCEPT ![e] = n]
           new == PacketOf(e, k)
<1>1. p \in Ends /\ p # e /\ Peer(p) = e /\ Ends = {e, p}
  BY DEF Ends, Peer
<1>2. k \in KeysType /\ o \in KeysType
  BY <1>1 DEF Sound
<1>3. OneEnd(k) /\ TwoEnds(k, o) /\ OneEnd(o) /\ TwoEnds(o, k)
  BY <1>1 DEF Sound
<1>4. /\ d \in DxType /\ d.epoch = k.write.epoch /\ d.lo = k.write.lo /\ d.hi = k.write.hi
      /\ k.write \in DxType /\ k.write.hi \in Int
  BY <1>2 DEF KeysType, DxType
<1>5. /\ w \in DxType /\ w.epoch = k.write.epoch /\ w.lo = k.write.lo /\ w.hi = k.write.hi + 1
  <2>1. w.lo = IF d.lo = d.hi THEN k.write.hi ELSE d.lo
    BY <1>4, UsedType
  <2>2. w.hi = IF d.hi > k.write.hi + 1 THEN d.hi ELSE k.write.hi + 1
    BY <1>4, UsedType
  <2>3. w \in DxType /\ w.epoch = d.epoch
    BY <1>4, UsedType
  <2> HIDE DEF w, d, k
  <2> QED
    BY <2>1, <2>2, <2>3, <1>4 DEF DxType
<1>6. n = [k EXCEPT !.write = w]
  BY DEF AfterPacket
<1>n. new = [to |-> p, epoch |-> k.write.epoch, pn |-> k.write.hi, acked |-> k.largest]
  BY DEF PacketOf
<1> HIDE DEF w, d, n, new
<1>7. /\ n \in KeysType /\ n.write = w /\ n.read = k.read /\ n.next = k.next
      /\ n.update_epoch = k.update_epoch /\ n.update_time = k.update_time /\ n.zero_rtt = k.zero_rtt
      /\ n.largest = k.largest /\ n.acked = k.acked
  BY <1>2, <1>5, <1>6 DEF KeysType
<1>8. Seen(n) = Seen(k) /\ OneEnd(n)
  BY <1>3, <1>5, <1>7 DEF Seen, OneEnd
<1>9. kt \in [Ends -> KeysType] /\ kt[e] = n /\ kt[p] = o
  BY <1>1, <1>7 DEF Sound
<1>10. Seen(k) \in Int /\ Seen(o) \in Int /\ k.largest \in Int /\ o.largest \in Int /\ k.acked \in Int /\ o.acked \in Int
       /\ o.write \in DxType
  BY <1>2 DEF KeysType, DxType, Seen, Larger
<1> HIDE DEF k, o, p
<1>11. ASSUME NEW pn \in Int
       PROVE  /\ Acknowledges(pn, k, o) => Acknowledges(pn, n, o)
              /\ Acknowledges(pn, o, k) <=> Acknowledges(pn, o, n)
  BY <1>4, <1>5, <1>7, <1>8 DEF Acknowledges, DxType
<1>12. TwoEnds(n, o) /\ TwoEnds(o, n)
  BY <1>3, <1>4, <1>5, <1>7, <1>8, <1>10, <1>11 DEF TwoEnds, DxType
<1>13. new \in PacketType /\ Packet(new, n, o) /\ new.to = p
  <2>1. new \in PacketType
    BY <1>1, <1>4, <1>10, <1>n DEF PacketType, DxType
  <2>2. Acknowledges(k.largest, o, n)
    BY <1>3, <1>10, <1>11 DEF TwoEnds
  <2> QED
    BY <2>1, <2>2, <1>4, <1>5, <1>7, <1>n DEF Packet, DxType
<1>14. ASSUME NEW pk \in ns \cup {new} PROVE pk \in PacketType /\ Packet(pk, kt[Peer(pk.to)], kt[pk.to])
  <2>1. CASE pk = new
    BY <2>1, <1>13, <1>1, <1>9
  <2>2. CASE pk \in ns
    <3>1. pk \in PacketType /\ Packet(pk, ks[Peer(pk.to)], ks[pk.to])
      BY <2>2 DEF Sound
    <3>2. CASE pk.to = e
      <4>1. Packet(pk, o, k)
        BY <3>1, <3>2 DEF k, o, p
      <4>2. Packet(pk, o, n)
        BY <4>1, <3>1, <1>11 DEF Packet, PacketType
      <4> QED
        BY <4>2, <3>1, <3>2, <1>9 DEF p
    <3>3. CASE pk.to = p
      <4>1. Packet(pk, k, o)
        BY <3>1, <3>3, <1>1 DEF k, o, p
      <4>2. Packet(pk, n, o)
        BY <4>1, <3>1, <1>11, <1>4, <1>5, <1>7 DEF Packet, PacketType, DxType
      <4> QED
        BY <4>2, <3>1, <3>3, <1>1, <1>9
    <3> QED
      BY <3>1, <3>2, <3>3, <1>1 DEF PacketType
  <2> QED
    BY <2>1, <2>2
<1>15. ASSUME NEW x \in Ends PROVE OneEnd(kt[x]) /\ TwoEnds(kt[x], kt[Peer(x)])
  BY <1>1, <1>3, <1>8, <1>9, <1>12 DEF p
<1>16. Sound(kt, ns \cup {new})
  BY <1>9, <1>14, <1>15 DEF Sound
<1> QED
  BY <1>16, <1>7, <1>8, <1>5 DEF k, n, new

(* An update that waits for an acknowledgment keeps the two ends close. *)
LEMMA AcknowledgedUpdate ==
    ASSUME NEW ks, NEW ns, Sound(ks, ns), NEW e \in Ends, CanUpdate(ks[e].write, ks[e].acked)
    PROVE  ks[e].write.epoch + 1 <= Seen(ks[Peer(e)]) + 1
<1>1. /\ Peer(e) \in Ends /\ ks[e] \in KeysType /\ ks[Peer(e)] \in KeysType
      /\ TwoEnds(ks[e], ks[Peer(e)]) /\ OneEnd(ks[Peer(e)])
  BY DEF Sound, Ends, Peer
<1>2. Seen(ks[Peer(e)]) >= ApplicationData /\ Seen(ks[Peer(e)]) \in Int
  BY <1>1 DEF OneEnd, Seen, Larger, KeysType, DxType, ApplicationData
<1> QED
  BY <1>1, <1>2 DEF CanUpdate, TwoEnds, Acknowledges, KeysType, DxType, ApplicationData

LEMMA InitInv == ASSUME ConstantsOK PROVE Init => IInv
<1> SUFFICES ASSUME Init PROVE IInv
  OBVIOUS
<1>1. ASSUME NEW e \in Ends
      PROVE  /\ keys[e] \in KeysType /\ OneEnd(keys[e])
             /\ keys[e].write.epoch = 3 /\ keys[e].write.lo = 0 /\ keys[e].write.hi = 0
             /\ keys[e].acked = -1 /\ keys[e].largest = -1 /\ Seen(keys[e]) = 3
  <2> DEFINE r == Dx(ApplicationData, 0, ReadLimit)
             w == Dx(ApplicationData, 0, WriteLimit)
             time == IF e \in ZeroRtt THEN Pto[e] ELSE None
             zero == e \in ZeroRtt
  <2>1. /\ r \in DxType /\ r.epoch = 3 /\ w \in DxType /\ w.epoch = 3 /\ w.lo = 0 /\ w.hi = 0
        /\ NextRead(r) \in DxType /\ NextRead(r).epoch = 4
        /\ NextRead(r).lo = 0 /\ NextRead(r).hi = 0 /\ NextRead(r).min = 0
    BY DEF ConstantsOK, DxType, Dx, NextRead, ApplicationData
  <2>2. time \in Int /\ zero \in BOOLEAN /\ (time # None => zero)
    BY DEF ConstantsOK, None
  <2>3. keys[e] = [write |-> w, read |-> r, next |-> NextRead(r), update_time |-> time,
                   update_epoch |-> None, zero_rtt |-> zero, acked |-> None, largest |-> None,
                   error |-> "none"]
    BY DEF Init
  <2> HIDE DEF r, w, time, zero
  <2>4. keys[e] \in KeysType
    BY <2>1, <2>2, <2>3 DEF KeysType, None
  <2> QED
    BY <2>1, <2>2, <2>3, <2>4 DEF OneEnd, Seen, Larger, None, ApplicationData
<1>2. \A e \in Ends : Peer(e) \in Ends
  BY DEF Ends, Peer
<1>3. keys \in [Ends -> KeysType]
  BY <1>1 DEF Init
<1>4. \A e \in Ends : TwoEnds(keys[e], keys[Peer(e)])
  BY <1>1, <1>2 DEF TwoEnds, Acknowledges
<1>5. net = {} /\ now = 0 /\ early = FALSE
  BY DEF Init
<1> QED
  BY <1>1, <1>2, <1>3, <1>4, <1>5 DEF IInv, Sound, Close

(* Closeness when one end moves. *)
LEMMA StaysClose ==
    ASSUME NEW ks, NEW ns, Sound(ks, ns), Close(ks), NEW e \in Ends, NEW n \in KeysType,
           Seen(n) >= Seen(ks[e]), n.write.epoch <= Seen(ks[Peer(e)]) + 1
    PROVE  Close([ks EXCEPT ![e] = n])
<1> DEFINE p == Peer(e)
           kt == [ks EXCEPT ![e] = n]
<1>1. p \in Ends /\ p # e /\ Peer(p) = e /\ Ends = {e, p}
  BY DEF Ends, Peer
<1>2. kt[e] = n /\ kt[p] = ks[p] /\ ks[e] \in KeysType /\ ks[p] \in KeysType
  BY <1>1 DEF Sound
<1>3. ks[p].write.epoch <= Seen(ks[e]) + 1
  BY <1>1 DEF Close
<1>4. Seen(ks[e]) \in Int /\ Seen(n) \in Int /\ ks[p].write.epoch \in Int
  BY <1>2 DEF KeysType, DxType, Seen, Larger
<1>5. kt[p].write.epoch <= Seen(kt[e]) + 1 /\ kt[e].write.epoch <= Seen(kt[p]) + 1
  BY <1>2, <1>3, <1>4
<1> QED
  BY <1>1, <1>5 DEF Close

LEMMA SendInv == ASSUME ConstantsOK, IInv, NEW e \in Ends, Send(e) PROVE IInv'
<1> DEFINE k == keys[e]
           p == Peer(e)
           sent == AfterPacket(k)
           ks == [keys EXCEPT ![e] = sent]
<1>1. /\ Sound(keys, net) /\ keys \in [Ends -> KeysType] /\ now \in Nat
      /\ p \in Ends /\ p # e /\ Peer(p) = e
  BY DEF IInv, Sound, Ends, Peer
<1>2. /\ keys' = [keys EXCEPT ![e] = AutoUpdate(sent)]
      /\ early' = (early \/ (ShouldUpdate(sent.write) /\ ~CanUpdate(sent.write, k.acked)))
      /\ net' = net \cup {PacketOf(e, k)}
      /\ now' = now
  BY DEF Send
<1>3. /\ Sound(ks, net') /\ sent \in KeysType /\ Seen(sent) = Seen(k)
      /\ sent.write.epoch = k.write.epoch /\ sent.read = k.read
      /\ sent.acked = k.acked /\ sent.largest = k.largest
  BY <1>1, <1>2, OneSent
<1> HIDE DEF sent
<1>4. /\ ks[e] = sent /\ ks[p] = keys[p] /\ ks \in [Ends -> KeysType]
      /\ \A n : [ks EXCEPT ![e] = n] = [keys EXCEPT ![e] = n]
      /\ OneEnd(sent) /\ TwoEnds(sent, keys[p]) /\ TwoEnds(keys[p], sent)
  <2>1. ks[e] = sent /\ ks[p] = keys[p] /\ ks \in [Ends -> KeysType]
    BY <1>1, <1>3
  <2>2. \A n : [ks EXCEPT ![e] = n] = [keys EXCEPT ![e] = n]
    BY <1>1
  <2>3. OneEnd(ks[e]) /\ TwoEnds(ks[e], ks[p]) /\ TwoEnds(ks[p], ks[e])
    BY <1>1, <1>3 DEF Sound
  <2> QED
    BY <2>1, <2>2, <2>3
<1>5. ~early => Close(ks)
  <2> SUFFICES ASSUME ~early PROVE Close(ks)
    OBVIOUS
  <2>1. Close(keys)
    BY DEF IInv
  <2>2. k.write.epoch <= Seen(keys[p]) + 1 /\ Seen(k) \in Int
    BY <1>1, <2>1 DEF Close, Seen, Larger, KeysType, DxType
  <2> QED
    <3>1. sent.write.epoch <= Seen(keys[Peer(e)]) + 1 /\ Seen(sent) >= Seen(keys[e])
      BY <1>3, <2>2
    <3> QED
      BY <1>1, <1>3, <2>1, <3>1, StaysClose, Zenon
<1> HIDE DEF ks
<1>6. CASE AutoUpdate(sent) = sent
  BY <1>1, <1>2, <1>3, <1>5, <1>6 DEF IInv, ks
<1>7. CASE AutoUpdate(sent) = [sent EXCEPT !.error = "KeysExhausted"]
  <2> DEFINE n == [sent EXCEPT !.error = "KeysExhausted"]
  <2>1. /\ n \in KeysType /\ n.write = sent.write /\ n.read = sent.read /\ n.next = sent.next
        /\ n.update_epoch = sent.update_epoch /\ n.update_time = sent.update_time
        /\ n.zero_rtt = sent.zero_rtt /\ n.largest = sent.largest /\ n.acked = sent.acked
    BY <1>3 DEF KeysType
  <2> HIDE DEF n
  <2>2. OneEnd(n) /\ Seen(n) = Seen(sent) /\ Seen(sent) \in Int
    BY <2>1, <1>3, <1>4, ZenonT(30) DEF OneEnd, Seen, Larger, KeysType, DxType
  <2>3. /\ Seen(n) <= ks[p].write.epoch /\ Acknowledges(n.largest, ks[p], n)
    BY <2>1, <2>2, <1>4 DEF TwoEnds, Acknowledges
  <2>4. Sound([ks EXCEPT ![e] = n], net')
    <3>1. Seen(n) >= Seen(ks[e]) /\ Seen(n) <= ks[Peer(e)].write.epoch
      BY <2>2, <2>3, <1>4
    <3>2. \/ n.write = ks[e].write
          \/ /\ n.write.epoch = ks[e].write.epoch + 1
             /\ n.write.lo = ks[e].write.hi /\ n.write.hi = ks[e].write.hi
      BY <2>1, <1>4
    <3>3. Acknowledges(n.largest, ks[Peer(e)], n) /\ n.acked = ks[e].acked
      BY <2>1, <2>3, <1>4
    <3> QED
      BY <2>1, <2>2, <1>3, <3>1, <3>2, <3>3, EndMoves, Zenon
  <2>5. ~early => Close([ks EXCEPT ![e] = n])
    <3> SUFFICES ASSUME ~early PROVE Close([ks EXCEPT ![e] = n])
      OBVIOUS
    <3>1. n.write.epoch <= Seen(ks[p]) + 1
      BY <2>1, <1>4, <1>5 DEF Close
    <3>3. Seen(n) >= Seen(ks[e])
      BY <2>2, <1>4
    <3> QED
      BY <2>1, <1>3, <1>5, <3>1, <3>3, StaysClose, Zenon
  <2> QED
    BY <2>4, <2>5, <1>1, <1>2, <1>4, <1>7 DEF IInv, n
<1>8. CASE ShouldUpdate(sent.write) /\ CanUpdateWrite(sent)
  <2> DEFINE n == MaybeUpdateWrite(sent)
  <2>1. /\ n \in KeysType /\ OneEnd(n) /\ AutoUpdate(sent) = n
        /\ n.write.epoch = sent.write.epoch + 1 /\ n.write.lo = sent.write.hi /\ n.write.hi = sent.write.hi
        /\ n.read = sent.read /\ n.update_epoch = sent.update_epoch
        /\ n.acked = sent.acked /\ n.largest = sent.largest
    BY <1>3, <1>4, <1>8, WriteUpdated DEF AutoUpdate
  <2> HIDE DEF n
  <2>2. Seen(n) = Seen(sent) /\ Seen(sent) \in Int
    BY <2>1, <1>3 DEF Seen, Larger, KeysType, DxType
  <2>3. /\ Seen(n) <= ks[p].write.epoch /\ Acknowledges(n.largest, ks[p], n)
    BY <2>1, <2>2, <1>4 DEF TwoEnds, Acknowledges
  <2>4. Sound([ks EXCEPT ![e] = n], net')
    <3>1. Seen(n) >= Seen(ks[e]) /\ Seen(n) <= ks[Peer(e)].write.epoch
      BY <2>2, <2>3, <1>4
    <3>2. \/ n.write = ks[e].write
          \/ /\ n.write.epoch = ks[e].write.epoch + 1
             /\ n.write.lo = ks[e].write.hi /\ n.write.hi = ks[e].write.hi
      BY <2>1, <1>4
    <3>3. Acknowledges(n.largest, ks[Peer(e)], n) /\ n.acked = ks[e].acked
      BY <2>1, <2>3, <1>4
    <3> QED
      BY <2>1, <2>2, <1>3, <3>1, <3>2, <3>3, EndMoves, Zenon
  <2>5. ~early' => Close([ks EXCEPT ![e] = n])
    <3> SUFFICES ASSUME ~early' PROVE Close([ks EXCEPT ![e] = n])
      OBVIOUS
    <3>1. ~early /\ CanUpdate(ks[e].write, ks[e].acked)
      BY <1>2, <1>3, <1>4, <1>8
    <3>2. n.write.epoch <= Seen(ks[p]) + 1
      BY <3>1, <2>1, <1>3, <1>4, AcknowledgedUpdate
    <3>3. Seen(n) >= Seen(ks[e])
      BY <2>2, <1>4
    <3> QED
      BY <2>1, <1>3, <1>5, <3>1, <3>2, <3>3, StaysClose, Zenon
  <2> QED
    BY <2>1, <2>4, <2>5, <1>1, <1>2, <1>4 DEF IInv
<1> QED
  BY <1>6, <1>7, <1>8 DEF AutoUpdate

(* A packet arrives: what one end does when the other has written it. *)
LEMMA OneOpened ==
    ASSUME ConstantsOK, NEW k \in KeysType, OneEnd(k), NEW pk \in PacketType, NEW t \in Nat, Opens(k, pk)
    PROVE  LET o == CheckPnOverlap(Opened(k, pk, t)) IN
           /\ o \in KeysType /\ OneEnd(o) /\ o.acked = k.acked /\ o.largest = k.largest
           /\ Seen(o) = Larger(Seen(k), pk.epoch)
           /\ \/ o.write = k.write
              \/ /\ o.write.epoch = k.write.epoch + 1 /\ k.write.epoch + 1 = pk.epoch
                 /\ o.write.lo = k.write.hi /\ o.write.hi = k.write.hi
<1> DEFINE q == Opened(k, pk, t)
           o == CheckPnOverlap(q)
<1>1. /\ q \in KeysType /\ OneEnd(q) /\ q.acked = k.acked /\ q.largest = k.largest
      /\ q.read.epoch = k.read.epoch
      /\ \/ /\ q.write = k.write /\ q.update_epoch = k.update_epoch /\ pk.epoch = k.read.epoch
         \/ /\ q.update_epoch = pk.epoch /\ pk.epoch = k.read.epoch + 1
            /\ \/ q.write = k.write
               \/ /\ k.write.epoch = k.read.epoch /\ q.write.epoch = k.write.epoch + 1
                  /\ q.write.lo = k.write.hi /\ q.write.hi = k.write.hi
  <2>1. CASE ReadKey(k, pk) = "read"
    <3>1. /\ q \in KeysType /\ OneEnd(q) /\ pk.epoch = k.read.epoch
          /\ q = [k EXCEPT !.read = q.read] /\ q.read.epoch = k.read.epoch
      BY <2>1, OpenedByRead
    <3> HIDE DEF q
    <3>2. q.acked = k.acked /\ q.largest = k.largest /\ q.write = k.write /\ q.update_epoch = k.update_epoch
      BY <3>1 DEF KeysType
    <3> QED
      BY <3>1, <3>2
  <2>2. CASE ReadKey(k, pk) = "next"
    BY <2>2, OpenedByNext
  <2> QED
    BY <2>1, <2>2 DEF ReadKey
<1> HIDE DEF q
<1>2. /\ o \in KeysType /\ OneEnd(o) /\ o.write = q.write /\ o.read = q.read
      /\ o.update_epoch = q.update_epoch /\ o.acked = q.acked /\ o.largest = q.largest
  BY <1>1, OverlapChecked
<1> HIDE DEF o
<1>3. Seen(o) = Larger(Seen(k), pk.epoch)
  BY <1>1, <1>2 DEF Seen, Larger, OneEnd, KeysType, DxType, PacketType, None, ApplicationData
<1>4. \/ o.write = k.write
      \/ /\ o.write.epoch = k.write.epoch + 1 /\ k.write.epoch + 1 = pk.epoch
         /\ o.write.lo = k.write.hi /\ o.write.hi = k.write.hi
  BY <1>1, <1>2
<1> QED
  BY <1>1, <1>2, <1>3, <1>4 DEF o, q

LEMMA ReceiveInv == ASSUME ConstantsOK, IInv, NEW pk \in net, Receive(pk) PROVE IInv'
<1> DEFINE e == pk.to
           p == Peer(e)
           k == keys[e]
<1>1. /\ Sound(keys, net) /\ keys \in [Ends -> KeysType] /\ now \in Nat /\ pk \in PacketType
      /\ e \in Ends /\ p \in Ends /\ p # e /\ Peer(p) = e
      /\ k \in KeysType /\ OneEnd(k) /\ TwoEnds(k, keys[p]) /\ TwoEnds(keys[p], k)
      /\ OneEnd(keys[p]) /\ keys[p] \in KeysType /\ Packet(pk, keys[p], k)
  <2>1. Sound(keys, net) /\ now \in Nat /\ pk \in PacketType
    BY DEF IInv, Sound
  <2>2. e \in Ends /\ p \in Ends /\ p # e /\ Peer(p) = e
    BY <2>1 DEF PacketType, Ends, Peer
  <2> QED
    BY <2>1, <2>2 DEF Sound
<1>2. now' = now /\ early' = early /\ net' \in SUBSET net
  BY DEF Receive
<1>3. ASSUME NEW n \in KeysType, keys' = [keys EXCEPT ![e] = n], OneEnd(n),
             Seen(n) >= Seen(k), Seen(n) <= keys[p].write.epoch,
             \/ n.write = k.write
             \/ /\ n.write.epoch = k.write.epoch + 1 /\ n.write.epoch <= keys[p].write.epoch
                /\ n.write.lo = k.write.hi /\ n.write.hi = k.write.hi,
             Acknowledges(n.largest, keys[p], n),
             n.acked = k.acked \/ Acknowledges(n.acked, k, keys[p])
      PROVE  IInv'
  <2>1. Sound(keys', net')
    <3>1. \/ n.write = k.write
          \/ /\ n.write.epoch = k.write.epoch + 1
             /\ n.write.lo = k.write.hi /\ n.write.hi = k.write.hi
      BY <1>3
    <3> QED
      BY <1>1, <1>2, <1>3, <3>1, EndMoves, Zenon
  <2>2. ASSUME ~early PROVE Close(keys')
    <3>1. Close(keys) /\ keys[e].write.epoch <= Seen(keys[p]) + 1
      BY <2>2, <1>1 DEF IInv, Close
    <3>2. keys[p].write.epoch <= Seen(keys[p]) + 1
      BY <1>1, WritesNoFurther
    <3>3. n.write.epoch <= Seen(keys[p]) + 1
      BY <3>1, <3>2, <1>1, <1>3, SMTT(30) DEF Seen, Larger, KeysType, DxType
    <3> QED
      BY <3>1, <3>3, <1>1, <1>3, StaysClose, Zenon
  <2> QED
    BY <2>1, <2>2, <1>1, <1>2 DEF IInv
<1> HIDE DEF e, p, k
<1>4. CASE ~Opens(k, pk)
  <2> DEFINE n == Discarded(k, pk)
  <2>1. keys' = [keys EXCEPT ![e] = n]
    BY <1>4 DEF Receive, e, k
  <2>2. /\ n \in KeysType /\ OneEnd(n) /\ n.write = k.write /\ n.read.epoch = k.read.epoch
        /\ n.update_epoch = k.update_epoch /\ n.acked = k.acked /\ n.largest = k.largest
    BY <1>1, DiscardedType
  <2> HIDE DEF n
  <2>3. Seen(n) = Seen(k) /\ Seen(k) \in Int
    BY <2>2, <1>1 DEF Seen, Larger, KeysType, DxType
  <2>4. Seen(n) <= keys[p].write.epoch /\ Acknowledges(n.largest, keys[p], n)
    BY <2>2, <2>3, <1>1 DEF TwoEnds, Acknowledges
  <2>5. Seen(n) >= Seen(k)
    BY <2>3
  <2> QED
    BY <2>1, <2>2, <2>4, <2>5, <1>3, Zenon
<1>5. CASE Opens(k, pk)
  <2> DEFINE o == Opened(k, pk, now + Pto[e])
             c == CheckPnOverlap(o)
             n == IF Overlapping(o) THEN c ELSE Accepted(c, pk)
  <2>1. keys' = [keys EXCEPT ![e] = n]
    BY <1>5 DEF Receive, e, k
  <2>2. now + Pto[e] \in Nat
    BY <1>1 DEF ConstantsOK
  <2>3. /\ c \in KeysType /\ OneEnd(c) /\ c.acked = k.acked /\ c.largest = k.largest
        /\ Seen(c) = Larger(Seen(k), pk.epoch)
        /\ \/ c.write = k.write
           \/ /\ c.write.epoch = k.write.epoch + 1 /\ k.write.epoch + 1 = pk.epoch
              /\ c.write.lo = k.write.hi /\ c.write.hi = k.write.hi
    BY <2>2, <1>1, <1>5, OneOpened
  <2> HIDE DEF c
  <2>4. Seen(k) \in Int /\ pk.epoch \in Int /\ pk.pn \in Int /\ pk.acked \in Int /\ k.acked \in Int /\ k.largest \in Int
        /\ keys[p].write \in DxType /\ k.write \in DxType
    BY <1>1 DEF Seen, Larger, KeysType, DxType, PacketType
  <2>5. Seen(c) >= Seen(k) /\ Seen(c) >= pk.epoch /\ Seen(c) <= keys[p].write.epoch /\ Seen(c) \in Int
    BY <2>3, <2>4, <1>1 DEF Larger, TwoEnds, Packet, DxType
  <2>6. Acknowledges(k.largest, keys[p], c) /\ Acknowledges(pk.pn, keys[p], c) /\ Acknowledges(pk.acked, k, keys[p])
    BY <2>4, <2>5, <1>1 DEF Acknowledges, TwoEnds, Packet, DxType
  <2>7. \/ c.write = k.write
        \/ /\ c.write.epoch = k.write.epoch + 1 /\ c.write.epoch <= keys[p].write.epoch
           /\ c.write.lo = k.write.hi /\ c.write.hi = k.write.hi
    BY <2>3, <2>4, <1>1 DEF Packet, DxType
  <2>8. CASE Overlapping(o)
    BY <2>1, <2>3, <2>5, <2>6, <2>7, <2>8, <1>3, Zenon
  <2>9. CASE ~Overlapping(o)
    <3> DEFINE a == Accepted(c, pk)
    <3>1. /\ a \in KeysType /\ a.write = c.write /\ a.read = c.read /\ a.next = c.next
          /\ a.update_epoch = c.update_epoch /\ a.update_time = c.update_time /\ a.zero_rtt = c.zero_rtt
          /\ a.largest \in {k.largest, pk.pn} /\ a.acked \in {k.acked, pk.acked}
      <4> DEFINE l == Larger(c.largest, pk.pn)
                 d == Larger(c.acked, pk.acked)
      <4>1. l \in Int /\ d \in Int /\ l \in {k.largest, pk.pn} /\ d \in {k.acked, pk.acked}
        BY <2>3, <2>4 DEF Larger
      <4>2. a = [c EXCEPT !.largest = l, !.acked = d]
        BY DEF Accepted
      <4> HIDE DEF l, d, a
      <4> QED
        BY <4>1, <4>2, <2>3 DEF KeysType
    <3> HIDE DEF a
    <3>2. OneEnd(a) /\ Seen(a) = Seen(c)
      BY <3>1, <2>3 DEF OneEnd, Seen
    <3>3. Acknowledges(a.largest, keys[p], a) /\ (a.acked = k.acked \/ Acknowledges(a.acked, k, keys[p]))
      BY <3>1, <3>2, <2>6 DEF Acknowledges
    <3>4. keys' = [keys EXCEPT ![e] = a]
      BY <2>1, <2>9 DEF a
    <3>5. /\ Seen(a) >= Seen(k) /\ Seen(a) <= keys[p].write.epoch
          /\ \/ a.write = k.write
             \/ /\ a.write.epoch = k.write.epoch + 1 /\ a.write.epoch <= keys[p].write.epoch
                /\ a.write.lo = k.write.hi /\ a.write.hi = k.write.hi
      BY <3>1, <3>2, <2>5, <2>7
    <3> QED
      BY <3>1, <3>2, <3>3, <3>4, <3>5, <1>3, Zenon
  <2> QED
    BY <2>8, <2>9
<1> QED
  BY <1>4, <1>5

LEMMA InitiateInv == ASSUME ConstantsOK, IInv, NEW e \in Ends, InitiateKeyUpdate(e) PROVE IInv'
<1> DEFINE p == Peer(e)
           k == keys[e]
           n == MaybeUpdateWrite(k)
<1>1. /\ Sound(keys, net) /\ now \in Nat /\ p \in Ends /\ k \in KeysType /\ OneEnd(k)
      /\ TwoEnds(keys[p], k)
  BY DEF IInv, Sound, Ends, Peer
<1>2. /\ keys' = [keys EXCEPT ![e] = n] /\ CanUpdate(k.write, k.acked) /\ CanUpdateWrite(k)
      /\ net' = net /\ now' = now /\ early' = early
  BY DEF InitiateKeyUpdate
<1>3. /\ n \in KeysType /\ OneEnd(n)
      /\ n.write.epoch = k.write.epoch + 1 /\ n.write.lo = k.write.hi /\ n.write.hi = k.write.hi
      /\ n.read = k.read /\ n.update_epoch = k.update_epoch /\ n.acked = k.acked /\ n.largest = k.largest
  BY <1>1, <1>2, WriteUpdated
<1> HIDE DEF n
<1>4. Seen(n) = Seen(k) /\ Seen(k) \in Int
  BY <1>1, <1>3 DEF Seen, Larger, KeysType, DxType
<1>5. /\ Seen(n) >= Seen(k) /\ Seen(n) <= keys[p].write.epoch
      /\ Acknowledges(n.largest, keys[p], n) /\ net' \in SUBSET net
  BY <1>1, <1>2, <1>3, <1>4 DEF TwoEnds, Acknowledges
<1>6. Sound(keys', net')
  BY <1>1, <1>2, <1>3, <1>5, EndMoves, Zenon
<1>7. n.write.epoch <= Seen(keys[p]) + 1
  BY <1>1, <1>2, <1>3, AcknowledgedUpdate
<1>8. ~early => Close(keys')
  BY <1>1, <1>2, <1>3, <1>5, <1>7, StaysClose, Zenon DEF IInv
<1> QED
  BY <1>1, <1>2, <1>6, <1>8 DEF IInv

LEMMA TimerInv == ASSUME ConstantsOK, IInv, NEW e \in Ends, Timer(e) PROVE IInv'
<1> DEFINE p == Peer(e)
           k == keys[e]
           n == CheckKeyUpdate(k)
<1>1. /\ Sound(keys, net) /\ now \in Nat /\ p \in Ends /\ k \in KeysType /\ OneEnd(k)
      /\ TwoEnds(keys[p], k) /\ Seen(k) \in Int
  <2>1. Sound(keys, net) /\ now \in Nat /\ p \in Ends /\ k \in KeysType /\ OneEnd(k) /\ TwoEnds(keys[p], k)
    BY DEF IInv, Sound, Ends, Peer
  <2> QED
    BY <2>1 DEF Seen, Larger, KeysType, DxType
<1>2. /\ keys' = [keys EXCEPT ![e] = n] /\ k.update_time # None
      /\ net' = net /\ now' = now /\ early' = early
  BY DEF Timer
<1>3. /\ n \in KeysType /\ OneEnd(n) /\ n.write = k.write /\ Seen(n) = Seen(k)
      /\ n.acked = k.acked /\ n.largest = k.largest
  BY <1>1, <1>2, KeyUpdateChecked
<1> HIDE DEF n
<1>5. /\ Seen(n) >= Seen(k) /\ Seen(n) <= keys[p].write.epoch
      /\ Acknowledges(n.largest, keys[p], n) /\ net' \in SUBSET net
  BY <1>1, <1>2, <1>3 DEF TwoEnds, Acknowledges
<1>6. Sound(keys', net')
  BY <1>1, <1>2, <1>3, <1>5, EndMoves, Zenon
<1>8. ASSUME ~early PROVE Close(keys')
  <2>1. Close(keys) /\ n.write.epoch <= Seen(keys[p]) + 1
    BY <1>1, <1>3, <1>8 DEF IInv, Close
  <2> QED
    BY <2>1, <1>1, <1>2, <1>3, <1>5, StaysClose, Zenon
<1> QED
  BY <1>1, <1>2, <1>6, <1>8 DEF IInv

LEMMA InvMeet == ASSUME IInv PROVE KeysMeet
<1> SUFFICES ASSUME ~early, NEW e \in Ends
             PROVE  LET w == keys[e].write.epoch
                        r == keys[Peer(e)].read.epoch
                    IN  /\ w \in r .. (r + 2)
                        /\ w = r + 2 => keys[Peer(e)].update_time # None
                        /\ w >= keys[e].read.epoch /\ w >= keys[e].update_epoch
                        /\ keys[e].next.epoch = keys[e].read.epoch + 1
  BY DEF KeysMeet
<1>1. /\ Peer(e) \in Ends /\ keys[e] \in KeysType /\ keys[Peer(e)] \in KeysType
      /\ OneEnd(keys[e]) /\ OneEnd(keys[Peer(e)]) /\ TwoEnds(keys[e], keys[Peer(e)])
      /\ keys[e].write.epoch <= Seen(keys[Peer(e)]) + 1
  BY DEF IInv, Sound, Close, Ends, Peer
<1> DEFINE k == keys[e]
           o == keys[Peer(e)]
<1>2. /\ k.write.epoch \in Int /\ k.read.epoch \in Int /\ k.update_epoch \in Int
      /\ o.read.epoch \in Int /\ o.update_epoch \in Int
  BY <1>1 DEF KeysType, DxType
<1>3. /\ k.next.epoch = k.read.epoch + 1 /\ k.update_epoch <= k.write.epoch
      /\ k.write.epoch = k.read.epoch \/ k.write.epoch = k.read.epoch + 1
  BY <1>1 DEF OneEnd
<1>4. /\ o.update_epoch \in {None, o.read.epoch, o.read.epoch + 1}
      /\ o.update_epoch = o.read.epoch + 1 => o.update_time # None
      /\ o.read.epoch >= ApplicationData
  BY <1>1 DEF OneEnd
<1>5. Seen(o) \in {o.read.epoch, o.read.epoch + 1} /\ (Seen(o) = o.read.epoch + 1 => o.update_time # None)
  BY <1>2, <1>4 DEF Seen, Larger, None, ApplicationData
<1>6. Seen(o) <= k.write.epoch /\ k.write.epoch <= Seen(o) + 1
  BY <1>1 DEF TwoEnds
<1> HIDE DEF k, o
<1>7. /\ k.write.epoch \in o.read.epoch .. (o.read.epoch + 2)
      /\ k.write.epoch = o.read.epoch + 2 => o.update_time # None
      /\ k.write.epoch >= k.read.epoch /\ k.write.epoch >= k.update_epoch
  BY <1>2, <1>3, <1>5, <1>6
<1> QED
  BY <1>3, <1>7 DEF k, o

(* Two endpoints never lose each other over updates of their keys, for any *)
(* limits of the keys, any timeouts and any packets that are lost, late or *)
(* out of order.                                                           *)
THEOREM KeysAlwaysMeet == ASSUME ConstantsOK PROVE Spec => []KeysMeet
<1>1. Init => IInv
  BY InitInv
<1>2. IInv /\ [Next]_vars => IInv'
  <2> SUFFICES ASSUME IInv, [Next]_vars PROVE IInv'
    OBVIOUS
  <2>1. CASE UNCHANGED vars
    BY <2>1 DEF vars, IInv
  <2>2. CASE Tick
    BY <2>2 DEF Tick, IInv
  <2> QED
    BY <2>1, <2>2, SendInv, InitiateInv, TimerInv, ReceiveInv DEF Next
<1>3. IInv => KeysMeet
  BY InvMeet
<1> QED
  BY <1>1, <1>2, <1>3, PTL DEF Spec
=============================================================================
