----------------------------- MODULE Simulator -----------------------------
(***************************************************************************)
(* The network simulator of test-fixture/src/sim: the loop that drives a   *)
(* ring of nodes, the nodes that stand for a network (delay, random delay, *)
(* drop, MTU, and a link behind a queue with CoDel or RED), and the        *)
(* connection nodes with their goals.                                      *)
(*                                                                         *)
(* The connections are external and stand for any two that exchange data:  *)
(* the client sends items, at most Window of them unacknowledged, and      *)
(* repeats after a while what is not acknowledged.  Item 0 is the          *)
(* handshake.  Random numbers are choices.                                 *)
(***************************************************************************)
EXTENDS Integers, Sequences, SequencesExt, FiniteSets, FiniteSetsExt

CONSTANTS
    Rings,          \* sequences of nodes, as records
    Items,          \* what SendData sends
    Window, Rto, Idle,
    OneSecond, Sub, \* time units in a second, and the fractions of a unit (2^32)
    CODEL_TARGET, CODEL_INTERVAL, CODEL_FAST_RESTART_WINDOW,
    Drops           \* bound: random drops

VARIABLES
    nodes,      \* the state of each node
    state,      \* its NodeState: the time it waits for, Active or Idle_
    i,          \* the node that is next in the loop
    dgram,      \* what it is given
    now, phase,
    drops, failed

vars == <<nodes, state, i, dgram, now, phase, drops, failed>>

None == -1
Active == -2
Idle_ == -3     \* NodeState::Idle
NoDgram == [kind |-> "none", n |-> 0, size |-> 0, ecn |-> "none"]

\* Output::Datagram, Output::Callback and Output::None.
Datagram(d) == [out |-> "dgram", d |-> d, delay |-> 0]
Callback(t) == [out |-> "callback", d |-> NoDgram, delay |-> t]
Nothing == [out |-> "none", d |-> NoDgram, delay |-> 0]
Result(s, o) == {[s |-> s, o |-> o]}

-----------------------------------------------------------------------------
(* Delay, RandomDelay, Drop and Mtu. *)

Delay(s, d) ==
    LET q == IF d = NoDgram THEN s.queue ELSE Append(s.queue, [t |-> now + s.delay, d |-> d])
        w == [s EXCEPT !.queue = q]
    IN  IF q = <<>> THEN Result(w, Nothing)
        ELSE IF Head(q).t <= now THEN Result([w EXCEPT !.queue = Tail(q)], Datagram(Head(q).d))
        ELSE Result(w, Callback(Head(q).t - now))

\* A time that no other datagram has.
Free(q, t) == Min({u \in t .. t + Cardinality(q) : \A e \in q : e.t # u})

RandomDelay(s, d) ==
    UNION {LET q == IF d = NoDgram THEN s.queue ELSE s.queue \cup {[t |-> Free(s.queue, now + r), d |-> d]}
               w == [s EXCEPT !.queue = q]
               first == CHOOSE e \in q : \A f \in q : e.t <= f.t
           IN  IF q = {} THEN Result(w, Nothing)
               ELSE IF first.t <= now THEN Result([w EXCEPT !.queue = q \ {first}], Datagram(first.d))
               ELSE Result(w, Callback(first.t - now)) : r \in s.range}

Drop(s, d) ==
    IF d = NoDgram THEN Result(s, Nothing)
    ELSE Result(s, Datagram(d)) \cup (IF drops < Drops THEN Result(s, Nothing) ELSE {})

Mtu(s, d) == Result(s, IF d = NoDgram \/ d.size > s.mtu THEN Nothing ELSE Datagram(d))

-----------------------------------------------------------------------------
(* Active queue management. *)

\* control_law(): INTERVAL / sqrt(count).
control_law(count, base) ==
    base + Max({k \in 0 .. CODEL_INTERVAL : k * k * Max({count, 1}) <= CODEL_INTERVAL * CODEL_INTERVAL})

\* CodelState::update().
update(c, sojourn, empty) ==
    LET above == IF sojourn < CODEL_TARGET \/ empty THEN None
                 ELSE IF c.above = None THEN now + CODEL_INTERVAL ELSE c.above
        over == above # None /\ now >= above
        w == [c EXCEPT !.above = above]
        recent == c.next # None /\ now - c.next < CODEL_FAST_RESTART_WINDOW
        count == IF recent THEN Max({1, c.count - c.last}) ELSE 1
    IN  CASE c.dropping /\ ~over -> [c |-> [w EXCEPT !.dropping = FALSE], signal |-> FALSE]
          [] c.dropping /\ over /\ now >= c.next ->
                [c |-> [w EXCEPT !.count = @ + 1, !.next = control_law(c.count + 1, c.next)], signal |-> TRUE]
          [] ~c.dropping /\ over ->
                [c |-> [w EXCEPT !.dropping = TRUE, !.count = count, !.last = count,
                                 !.next = control_law(count, now)], signal |-> TRUE]
          [] OTHER -> [c |-> w, signal |-> FALSE]

\* RedState::should_mark(): whether there is any chance of a mark.  There always is one of none.
red_may_mark(used, capacity) ==
    LET n == (2048 * used) - ((capacity * 4096) \div 5)
        p == Min({n, capacity * 998})
    IN  n >= 0 /\ p * p >= capacity * capacity

\* Aqm::mark() and mark_ce(): the packets that may come of one, and the state of CoDel.
mark(s, d, sojourn) ==
    LET Marked == IF d.ecn = "none" THEN NoDgram ELSE [d EXCEPT !.ecn = "ce"]
        codel == update(s.codel, sojourn, s.used = 0)
    IN  CASE s.aqm = "codel" -> {[c |-> codel.c, d |-> IF codel.signal THEN Marked ELSE d]}
          [] s.aqm = "red" -> {[c |-> s.codel, d |-> d]}
                \cup (IF d.ecn # "none" /\ red_may_mark(s.used, s.capacity) THEN {[c |-> s.codel, d |-> Marked]} ELSE {})
          [] OTHER -> {[c |-> s.codel, d |-> d]}

-----------------------------------------------------------------------------
(* TailDrop: a link of a rate and a delay, behind a queue. *)

\* Variant: fractions of a time unit are lost.
SendNoFraction(s, d, t, sub) ==
    LET f == (d.size * OneSecond * Sub) \div s.rate
    IN  [s EXCEPT !.next = t + (f \div Sub), !.sub = 0,
                  !.exact = (IF @ = None THEN t * Sub ELSE @) + f,
                  !.link = Append(@, [t |-> t + (f \div Sub) + s.delay, d |-> d])]

\* send().  (`exact` is not in the code: it is when the link will be free, in fractions.)
send(s, d, t, sub) ==
    LET f == (d.size * OneSecond * Sub) \div s.rate
    IN  [s EXCEPT !.next = t + ((f + sub) \div Sub), !.sub = (f + sub) % Sub,
                  !.exact = (IF @ = None THEN t * Sub ELSE @) + f,
                  !.link = Append(@, [t |-> t + ((f + sub) \div Sub) + s.delay, d |-> d])]

\* maybe_enqueue().
maybe_enqueue(s, d) ==
    LET w == [s EXCEPT !.received = @ + 1]
    IN  IF s.next = None THEN send(w, d, now, 0)
        ELSE IF s.used + d.size <= s.capacity
        THEN [w EXCEPT !.used = @ + d.size, !.queue = Append(@, [t |-> now, d |-> d])]
        ELSE [w EXCEPT !.dropped = @ + 1]

\* dequeue(): the packet, or NoDgram if it is dropped, and what is left.
dequeue(s) ==
    LET p == Head(s.queue)
        w == [s EXCEPT !.queue = Tail(@), !.used = @ - p.d.size]
    IN  {[d |-> m.d, s |-> [w EXCEPT !.codel = m.c, !.dropped = IF m.d = NoDgram THEN @ + 1 ELSE @]] :
            m \in mark(w, p.d, now - p.t)}

\* maybe_send(): the next packet that is not dropped, if the link is free.  The queue holds no
\* more than three.
SendNext(S, t, sub) ==
    UNION {IF w.queue = <<>> \/ w.sent THEN {w}
           ELSE {IF m.d = NoDgram THEN m.s ELSE [send(m.s, m.d, t, sub) EXCEPT !.sent = TRUE] : m \in dequeue(w)} :
           w \in S}
maybe_send(s) ==
    IF s.next = None \/ now < s.next THEN {s}
    ELSE {IF w.sent THEN [w EXCEPT !.sent = FALSE] ELSE [w EXCEPT !.next = None, !.exact = None] :
            w \in SendNext(SendNext(SendNext({s}, s.next, s.sub), s.next, s.sub), s.next, s.sub)}

TailDrop(s, d) ==
    UNION {IF w.link = <<>> THEN Result(w, Nothing)
           ELSE IF Head(w.link).t <= now
           THEN Result([w EXCEPT !.link = Tail(@), !.delivered = @ + 1], Datagram(Head(w.link).d))
           ELSE Result(w, Callback((IF w.next = None THEN Head(w.link).t ELSE Min({w.next, Head(w.link).t})) - now)) :
           w \in maybe_send(IF d = NoDgram THEN s ELSE maybe_enqueue(s, d))}

-----------------------------------------------------------------------------
(* Connection nodes. *)

\* Connection::process() at the client: [c, o, events].
ClientProcess(c, d) ==
    LET acked == d.kind = "ack" /\ d.n \in c.flight
        a == IF acked THEN [c EXCEPT !.flight = @ \ {d.n}] ELSE c
        late == a.flight # {} /\ a.timer <= now
        b == IF late THEN [a EXCEPT !.buf = SetToSeq(a.flight) \o @, !.flight = {}] ELSE a
        events == IF ~acked THEN {} ELSE IF d.n = 0 THEN {"Confirmed"} ELSE {"Writable"}
    IN  IF b.buf # <<>>
        THEN [c |-> [b EXCEPT !.buf = Tail(@), !.flight = @ \cup {Head(b.buf)}, !.timer = now + Rto],
              o |-> Datagram([kind |-> "data", n |-> Head(b.buf), size |-> 2, ecn |-> c.ecn]), events |-> events]
        ELSE [c |-> b, o |-> Callback(IF b.flight = {} THEN Idle ELSE b.timer - now), events |-> events]

\* Connection::process() at the server.
ServerProcess(c, d) ==
    LET new == d.kind = "data" /\ d.n \notin c.got
        a == IF d.kind = "data" THEN [c EXCEPT !.got = @ \cup {d.n}, !.buf = Append(@, d.n), !.unread = IF new THEN @ + 1 ELSE @] ELSE c
        events == IF ~new THEN {} ELSE IF d.n = 0 THEN {"Confirmed"} ELSE {"Readable"}
    IN  IF a.buf # <<>>
        THEN [c |-> [a EXCEPT !.buf = Tail(@)],
              o |-> Datagram([kind |-> "ack", n |-> Head(a.buf), size |-> 1, ecn |-> "none"]), events |-> events]
        ELSE [c |-> a, o |-> Callback(Idle), events |-> events]

\* SendData::send(): [w, active].  It is Done, and taken off the goals, when nothing remains.
SendData(w) ==
    LET n == Min({w.remaining, Window - Len(w.c.buf) - Cardinality(w.c.flight)})
    IN  IF n <= 0 THEN [w |-> w, active |-> FALSE]
        ELSE [w |-> [w EXCEPT !.remaining = @ - n,
                              !.c.buf = @ \o [k \in 1 .. n |-> Items - w.remaining + k],
                              !.goals = IF w.remaining = n THEN {} ELSE @],
              active |-> TRUE]

\* ReceiveData::recv().
ReceiveData(w) ==
    [w |-> [w EXCEPT !.remaining = @ - w.c.unread, !.c.unread = 0,
                     !.goals = IF w.remaining <= w.c.unread THEN {} ELSE @],
     active |-> w.c.unread > 0]

\* Goal::handle_event() of the goals there are.
handle_event(w, e) ==
    CASE e = "Confirmed" /\ "ReachState" \in w.goals -> [w |-> [w EXCEPT !.goals = {}, !.c.unread = 0], active |-> TRUE]
      [] e = "Writable" /\ "SendData" \in w.goals -> SendData(w)
      [] e = "Readable" /\ "ReceiveData" \in w.goals -> ReceiveData(w)
      [] OTHER -> [w |-> w, active |-> FALSE]

\* One turn of the loop in Node::process(): [w, o, again].  There is at most one event.
TurnOnce(w, d) ==
    LET r == IF w.kind = "client" THEN ClientProcess(w.c, d) ELSE ServerProcess(w.c, d)
        v == [w EXCEPT !.c = r.c]
        h == IF r.events = {} THEN [w |-> v, active |-> FALSE] ELSE handle_event(v, CHOOSE e \in r.events : TRUE)
    IN  [w |-> h.w, o |-> r.o, again |-> h.active /\ r.o.out # "dgram"]

\* Node::process(): goals, and then the connection, again if a goal was active and there is no
\* datagram.  The second turn has no input, and so no events.
Node(w, d) ==
    LET g == IF "SendData" \in w.goals THEN SendData(w).w ELSE w
        first == TurnOnce(g, d)
        second == TurnOnce(first.w, NoDgram)
    IN  IF first.again THEN Result(second.w, second.o) ELSE Result(first.w, first.o)

-----------------------------------------------------------------------------
(* The simulator. *)

\* Node::done().
done(w) == w.kind \in {"client", "server"} => w.goals = {}

\* Node::process() of each kind of node.
process(w, d) ==
    CASE w.kind \in {"client", "server"} -> Node(w, d)
      [] w.kind = "taildrop" -> TailDrop(w, d)
      [] w.kind = "delay" -> Delay(w, d)
      [] w.kind = "random" -> RandomDelay(w, d)
      [] w.kind = "drop" -> Drop(w, d)
      [] w.kind = "mtu" -> Mtu(w, d)

\* NodeHolder::ready().
ready(k) == state[k] = Active \/ (state[k] >= 0 /\ state[k] <= now)

\* Simulator::new() and init().  The client has item 0 to send.
Init ==
    /\ nodes \in Rings
    /\ state = [k \in DOMAIN nodes |-> IF k = 1 THEN Active ELSE Idle_]
    /\ i = 1 /\ dgram = NoDgram /\ now = 0 /\ phase = "setup" /\ drops = 0 /\ failed = FALSE

\* process_loop(): the next node, if it is ready or there is a datagram.
Process ==
    /\ i <= Len(nodes) /\ phase # "end"
    /\ dgram # NoDgram \/ ready(i)
    /\ \E r \in process(nodes[i], dgram) :
          /\ nodes' = [nodes EXCEPT ![i] = r.s]
          /\ dgram' = r.o.d
          /\ state' = [state EXCEPT ![i] = CASE r.o.out = "dgram" -> Active
                                             [] r.o.out = "callback" -> now + r.o.delay
                                             [] r.o.out = "none" -> Idle_]
          /\ failed' = (failed \/ (r.o.out = "callback" /\ r.o.delay <= 0) \/ (r.o.out = "none" /\ ~done(r.s)))
          /\ drops' = IF nodes[i].kind = "drop" /\ dgram # NoDgram /\ r.o.out = "none" THEN drops + 1 ELSE drops
    /\ i' = i + 1
    /\ UNCHANGED <<now, phase>>

Skip ==
    /\ i <= Len(nodes) /\ phase # "end"
    /\ dgram = NoDgram /\ ~ready(i)
    /\ i' = i + 1
    /\ UNCHANGED <<nodes, state, dgram, now, phase, drops, failed>>

\* Variant: time goes on while nodes are active.
NextTimeAny == LET W == {state[k] : k \in {k \in DOMAIN nodes : state[k] >= 0}} IN IF W = {} THEN None ELSE Min(W)

\* next_time(), None if it fails.
next_time ==
    LET W == {state[k] : k \in {k \in DOMAIN nodes : state[k] >= 0}}
    IN  IF \E k \in DOMAIN nodes : state[k] = Active THEN now ELSE IF W = {} THEN None ELSE Min(W)

\* The end of a round: time goes on if there is nothing to do now.
Round ==
    /\ i > Len(nodes) /\ phase # "end" /\ \E k \in DOMAIN nodes : ~done(nodes[k])
    /\ i' = 1
    /\ now' = IF dgram = NoDgram THEN Max({now, next_time}) ELSE now
    /\ failed' = (failed \/ (dgram = NoDgram /\ next_time = None))
    /\ UNCHANGED <<nodes, state, dgram, phase, drops>>

\* Node::prepare().
prepare(w) ==
    CASE w.kind = "client" -> [w EXCEPT !.goals = {"SendData"}]
      [] w.kind = "server" -> [w EXCEPT !.goals = {"ReceiveData"}]
      [] OTHER -> w

\* All are done: setup() and run() go on, or the end.  A datagram at the end of the ring is lost.
Done ==
    /\ i > Len(nodes) /\ phase # "end" /\ \A k \in DOMAIN nodes : done(nodes[k])
    /\ i' = 1 /\ dgram' = NoDgram
    /\ phase' = IF phase = "setup" THEN "run" ELSE "end"
    /\ nodes' = IF phase = "setup" THEN [k \in DOMAIN nodes |-> prepare(nodes[k])] ELSE nodes
    /\ UNCHANGED <<state, now, drops, failed>>

Next == Process \/ Skip \/ Round \/ Done

-----------------------------------------------------------------------------
(* Simulated time is exact: no node runs later than it asked to, time does *)
(* not pass a node that has something to send, and no assertion of the     *)
(* simulator fails (a delay of zero, a node that is idle and not done, no  *)
(* node to wait for), over both phases of a simulation.                    *)
TimeIsExact ==
    /\ ~failed
    /\ \A k \in DOMAIN nodes : state[k] >= 0 => now <= state[k]
    /\ \A k \in DOMAIN nodes : nodes[k].kind \in {"client", "server"} /\ i = 1 /\ dgram = NoDgram
                                    /\ state[k] > now => nodes[k].c.buf = <<>>

(* The link of TailDrop: all that it got is delivered, dropped, queued or  *)
(* on the link; the queue is within its capacity and `used` is what is in  *)
(* it; packets stay in order; the rate is kept to the fraction, however    *)
(* many packets go back to back; and packets do not wait for a free link.  *)
LinkIsHonest ==
    \A k \in DOMAIN nodes : nodes[k].kind = "taildrop" =>
        LET s == nodes[k] IN
        /\ s.received = s.delivered + s.dropped + Len(s.queue) + Len(s.link)
        /\ s.used = FoldSeq(LAMBDA e, n : e.d.size + n, 0, s.queue) /\ s.used <= s.capacity
        /\ \A a \in 2 .. Len(s.link) : s.link[a - 1].t <= s.link[a].t
        /\ s.next # None => (s.next * Sub) + s.sub = s.exact
        /\ s.queue # <<>> => s.next # None /\ now <= s.next
=============================================================================
