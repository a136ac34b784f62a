------------------------------ MODULE UdpLoop ------------------------------
(***************************************************************************)
(* The event loops of neqo-client and neqo-server and the UDP sockets      *)
(* under them: Runner in neqo-bin/src/client/mod.rs and server/mod.rs,     *)
(* neqo-bin/src/udp.rs, and neqo-udp.                                      *)
(*                                                                         *)
(* The operating system and the QUIC endpoint are external.  A socket      *)
(* coalesces datagrams of a size, the last of which may be shorter, into a *)
(* buffer; a send has one of several outcomes.  The endpoint may answer    *)
(* what it reads with datagrams, events and a time to be called at.        *)
(***************************************************************************)
EXTENDS Integers, Sequences, SequencesExt, FiniteSets, FiniteSetsExt

CONSTANTS
    Roles,      \* of "client" and "server"
    NumSockets, \* of a server
    NumBufs,    \* NUM_BUFS
    Batches,    \* [segments, source, dscp, ecn] of batches to send
    Bursts,     \* sequences of sizes that come as one buffer
    MaxArrived, \* bound: no more comes once this many datagrams have
    MaxOut,     \* bound: batches the endpoint makes
    MaxTime     \* bound: the clock

VARIABLES
    role, pc,   \* pc: what the Runner is at
    ret, cur,   \* where it is after sending, and the socket it reads
    os,         \* per socket, buffers not yet read
    arrived,    \* per socket, the sizes of the datagrams that came
    fed,        \* per socket, what the endpoint was given
    endpoint,   \* [out, deadline, events, made, done]
    hand,       \* the batch that is being sent, and whether a reset may be retried
    wire,       \* [id, socket, source, ecn, mark] of batches that were sent
    dropped,    \* those that were given up
    timeout, now

vars == <<role, pc, ret, cur, os, arrived, fed, endpoint, hand, wire, dropped, timeout, now>>

None == -1
Sockets == 0 .. (IF role = "server" THEN NumSockets ELSE 1) - 1
NoBatch == [id |-> 0, segments |-> 0, source |-> 0, ecn |-> "NotEct", tos |-> 0, retry |-> FALSE]

-----------------------------------------------------------------------------
(* The type-of-service field of IP packets (neqo-common/src/tos.rs).       *)

\* The code points, in the lower two bits; all that is not NotEct is a mark.
Ecn == [NotEct |-> 0, Ect1 |-> 1, Ect0 |-> 2, Ce |-> 3]
EcnFrom(v) == CHOOSE e \in DOMAIN Ecn : Ecn[e] = v % 4

\* In the upper six: class selectors, assured forwarding, and what is in between.
Dscp(d) ==
    CASE d[1] = "Cs" -> 32 * d[2]
      [] d[1] = "Af" -> (32 * d[2]) + (8 * d[3])
      [] d[1] = "Reserved" -> 4 * d[2]
      [] d[1] = "Le" -> 4
      [] d[1] = "VoiceAdmit" -> 176
      [] d[1] = "Ef" -> 184

\* Both, of which neither has a bit of the other; and set_ecn().
Tos(dscp, ecn) == Dscp(dscp) + Ecn[ecn]
set_ecn(v, ecn) == v - (v % 4) + Ecn[ecn]

-----------------------------------------------------------------------------
(* neqo-udp. *)

\* Variant: only whole segments.
ChunksExact(m) == [k \in 1 .. m.len \div m.stride |-> m.stride]

\* chunks_mut() over a buffer.
Chunks(m) ==
    [k \in 1 .. (m.len + m.stride - 1) \div m.stride |-> Min({m.stride, m.len - ((k - 1) * m.stride)})]

\* DatagramIter::next(), until there are no more.  Empty datagrams are skipped.
datagrams(bufs) == FlattenSeq([i \in 1 .. Len(bufs) |-> Chunks(bufs[i])])
DatagramIter(bufs) == datagrams(SelectSeq(bufs, LAMBDA m : m.len # 0 /\ m.stride # 0))

\* recv_inner(): as many buffers as there are, up to NUM_BUFS.
recv_inner(queue) == SubSeq(queue, 1, Min({NumBufs, Len(queue)}))

\* What the kernel makes of a burst: RecvMeta.
RecvMeta(sizes) == [len |-> FoldSeq(LAMBDA a, b : a + b, 0, sizes), stride |-> sizes[1]]

\* What sending a batch may end in.
Outcomes == {"ok", "WouldBlock", "EIO", "EMSGSIZE", "ENOBUFS", "ConnectionReset", "other"}

\* The mark that a packet with this field gets: EcnCodepoint::from_bits().
Mark(tos) == EcnFrom(tos)

\* send_inner(): errors that mean that the batch is lost.
send_inner(outcome) == IF outcome \in {"EMSGSIZE", "ENOBUFS"} THEN "lost" ELSE outcome

-----------------------------------------------------------------------------
(* The endpoint. *)

\* What it may do when it is called: more datagrams, an event, another time to be called.
React(e) ==
    {[e EXCEPT !.out = IF more THEN Append(@, [id |-> e.made + 1, segments |-> b.segments, source |-> b.source,
                                                   ecn |-> b.ecn, tos |-> set_ecn(Tos(b.dscp, "NotEct"), b.ecn), retry |-> TRUE]) ELSE @,
               !.made = IF more THEN @ + 1 ELSE @,
               !.events = @ + ev, !.deadline = d] :
        more \in (IF e.made < MaxOut THEN BOOLEAN ELSE {FALSE}), b \in Batches,
        ev \in (IF e.events = 0 /\ e.made < MaxOut THEN 0 .. 1 ELSE {0}),
        d \in {None} \cup (now + 1) .. MaxTime}

\* A call for output when its time has come.
Ripe(e) == IF e.deadline # None /\ e.deadline <= now THEN React(e) ELSE {e}

-----------------------------------------------------------------------------
(* The Runner. *)

Init ==
    /\ role \in Roles /\ pc = "top" /\ ret = "top" /\ cur = 0
    /\ os = [s \in Sockets |-> <<>>] /\ arrived = os /\ fed = os
    /\ endpoint = [out |-> <<>>, deadline |-> None, events |-> 1, made |-> 0, done |-> FALSE]
    /\ hand = NoBatch /\ wire = <<>> /\ dropped = {}
    /\ timeout = None /\ now = 0

\* Handler::handle() of the client and process_events() of the server take all events.
\* A client may find that its work is done.
Handle ==
    /\ pc = "top"
    /\ \E e \in React([endpoint EXCEPT !.events = 0]), done \in BOOLEAN :
          /\ done => role = "client"
          /\ endpoint' = [e EXCEPT !.done = done]
    /\ pc' = "output" /\ ret' = "turn"
    /\ UNCHANGED <<role, cur, os, arrived, fed, hand, wire, dropped, timeout, now>>

\* process_output(), process_inner(): the next batch, or the time for a callback.  Without
\* either, a timeout that was set stays.
ProcessOutput ==
    /\ pc = "output" /\ hand = NoBatch
    /\ \E e \in Ripe(endpoint) :
          IF e.out # <<>>
          THEN /\ hand' = Head(e.out) /\ endpoint' = [e EXCEPT !.out = Tail(@)]
               /\ UNCHANGED <<pc, timeout>>
          ELSE /\ timeout' = IF e.deadline = None THEN timeout ELSE e.deadline
               /\ endpoint' = e /\ pc' = ret /\ UNCHANGED hand
    /\ UNCHANGED <<role, ret, cur, os, arrived, fed, wire, dropped, now>>

\* find_socket(): that of the source address, or else the first.
find_socket(addr) == IF addr \in Sockets THEN addr ELSE 0

\* What becomes of a batch, given the outcome: it is done with, tried again, or all is over.
\* Only a server copes with ConnectionReset, and retries once.
AfterSend(outcome) ==
    CASE outcome \in {"ok", "lost"} -> "done"
      [] outcome = "WouldBlock" -> "again"
      [] outcome = "EIO" /\ hand.segments > 1 -> "done"
      [] outcome = "ConnectionReset" /\ role = "server" -> IF hand.retry THEN "once" ELSE "done"
      [] OTHER -> "fail"

\* Socket::send(), and the loop around it.  WouldBlock awaits writable().
Send ==
    /\ pc = "output" /\ hand # NoBatch
    /\ \E o \in {send_inner(x) : x \in Outcomes} : \E a \in {AfterSend(o)} :
          /\ wire' = IF o = "ok" THEN Append(wire, [id |-> hand.id, socket |-> find_socket(hand.source), source |-> hand.source,
                                                   ecn |-> hand.ecn, mark |-> Mark(hand.tos)])
                     ELSE wire
          /\ dropped' = IF a = "done" /\ o # "ok" THEN dropped \cup {hand.id} ELSE dropped
          /\ hand' = CASE a = "done" -> NoBatch
                       [] a = "once" -> [hand EXCEPT !.retry = FALSE]
                       [] OTHER -> hand
          /\ pc' = IF a = "fail" THEN "failed" ELSE pc
    /\ UNCHANGED <<role, ret, cur, os, arrived, fed, endpoint, timeout, now>>

\* Variant: events wait for a datagram or a timeout.
TurnThenSleep ==
    /\ pc = "turn"
    /\ pc' = IF endpoint.done THEN "closing" ELSE "asleep"
    /\ UNCHANGED <<role, ret, cur, os, arrived, fed, endpoint, hand, wire, dropped, timeout, now>>

\* transfer() and run() once all is sent: another turn if there are events; a client whose work
\* is done closes; otherwise ready().
Turn ==
    /\ pc = "turn"
    /\ pc' = CASE endpoint.events > 0 -> "top"
               [] endpoint.events = 0 /\ endpoint.done -> "closing"
               [] OTHER -> "asleep"
    /\ UNCHANGED <<role, ret, cur, os, arrived, fed, endpoint, hand, wire, dropped, timeout, now>>

\* close(), and after what there is to send, the end.
Close ==
    /\ pc = "closing"
    /\ endpoint' \in React(endpoint)
    /\ pc' = "output" /\ ret' = "stopped"
    /\ UNCHANGED <<role, cur, os, arrived, fed, hand, wire, dropped, timeout, now>>

\* ready() finds a socket that can be read.
Readable ==
    \E s \in Sockets :
        /\ pc = "asleep" /\ os[s] # <<>>
        /\ pc' = "reading" /\ cur' = s
        /\ UNCHANGED <<role, ret, os, arrived, fed, endpoint, hand, wire, dropped, timeout, now>>

\* process_multiple_input(), read_and_process(): read, and send what that makes the endpoint
\* say, until there is nothing to read.
Read ==
    /\ pc = "reading"
    /\ IF os[cur] = <<>> THEN pc' = "top" /\ UNCHANGED <<ret, os, fed, endpoint>>
       ELSE \E bufs \in {recv_inner(os[cur])} :
            /\ os' = [os EXCEPT ![cur] = SubSeq(@, Len(bufs) + 1, Len(@))]
            /\ fed' = [fed EXCEPT ![cur] = @ \o DatagramIter(bufs)]
            /\ endpoint' \in React(endpoint)
            /\ pc' = "output" /\ ret' = "reading"
    /\ UNCHANGED <<role, cur, arrived, hand, wire, dropped, timeout, now>>

\* A failing read ends a Runner, but for a ConnectionReset at a server.
ReadFails ==
    /\ pc = "reading" /\ pc' = "failed"
    /\ UNCHANGED <<role, ret, cur, os, arrived, fed, endpoint, hand, wire, dropped, timeout, now>>

\* ready() finds that the time has come.
Timeout ==
    /\ pc = "asleep" /\ timeout # None /\ timeout <= now
    /\ timeout' = None
    /\ pc' = (IF role = "server" THEN "output" ELSE "top") /\ ret' = "top"
    /\ UNCHANGED <<role, cur, os, arrived, fed, endpoint, hand, wire, dropped, now>>

\* HttpServer::poll() of a server with work of its own.
Poll ==
    /\ pc = "asleep" /\ role = "server" /\ pc' = "top"
    /\ UNCHANGED <<role, ret, cur, os, arrived, fed, endpoint, hand, wire, dropped, timeout, now>>

-----------------------------------------------------------------------------
(* The world. *)

Arrive ==
    \E s \in Sockets, b \in Bursts :
        /\ Len(arrived[s]) < MaxArrived /\ Len(os[s]) < NumBufs + 1
        /\ os' = [os EXCEPT ![s] = Append(@, RecvMeta(b))]
        /\ arrived' = [arrived EXCEPT ![s] = @ \o SelectSeq(b, LAMBDA n : n > 0)]
        /\ UNCHANGED <<role, pc, ret, cur, fed, endpoint, hand, wire, dropped, timeout, now>>

Tick ==
    /\ pc = "asleep" /\ now < MaxTime
    /\ now' = now + 1
    /\ UNCHANGED <<role, pc, ret, cur, os, arrived, fed, endpoint, hand, wire, dropped, timeout>>

Next == \/ Handle \/ ProcessOutput \/ Send \/ Turn \/ Close \/ Readable \/ Read \/ ReadFails
        \/ Timeout \/ Poll
        \/ Arrive \/ Tick

-----------------------------------------------------------------------------
(* A Runner sleeps only when nothing is left to do: all that the endpoint  *)
(* wants to send was handed to a socket, there are no events, and if the   *)
(* endpoint wants to be called the timeout is set, and no later than that. *)
SleepsSafely ==
    pc = "asleep" =>
        /\ endpoint.out = <<>> /\ hand = NoBatch /\ endpoint.events = 0
        /\ endpoint.deadline # None => timeout # None /\ timeout <= endpoint.deadline

(* The endpoint reads each datagram that came, whole, once and in order;   *)
(* each batch it makes is sent at most once and in order, from the socket  *)
(* with its address if there is one and with the ECN mark it asked for,    *)
(* whatever its DSCP, or is given up for an error that says so.  GRO       *)
(* buffers, GSO batches, retries and resets are in between.                *)
DatagramsOnceInOrder ==
    /\ \A s \in Sockets : fed[s] \o DatagramIter(os[s]) = arrived[s]
    /\ \A i, j \in 1 .. Len(wire) : i < j => wire[i].id < wire[j].id
    /\ \A i \in 1 .. Len(wire) : wire[i].source \in Sockets => wire[i].socket = wire[i].source
    /\ \A i \in 1 .. Len(wire) : wire[i].mark = wire[i].ecn
    /\ LET sent == {wire[i].id : i \in 1 .. Len(wire)}
           todo == {endpoint.out[i].id : i \in 1 .. Len(endpoint.out)} \cup ({hand.id} \ {0})
       IN  /\ sent \cup dropped \cup todo = 1 .. endpoint.made
           /\ sent \cap dropped = {} /\ todo \cap (sent \cup dropped) = {}
=============================================================================
