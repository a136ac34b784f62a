------------------------------ MODULE Datagrams ------------------------------
(***************************************************************************)
(* The outgoing DATAGRAM queues of a connection (DatagramQueue and         *)
(* QuicDatagrams in neqo-transport/src/datagram_queue.rs and               *)
(* quic_datagrams.rs): one queue for each session, made on first use; a    *)
(* byte budget held by evicting what has the lowest order; a mark that     *)
(* pushes back on the application; expiry by age; turns for sessions and,  *)
(* within a session, for send groups.                                      *)
(*                                                                         *)
(* A queue keeps its datagrams in the order they came, which says all that *)
(* the nested maps of the code say.  Ages stand for timestamps.  The       *)
(* fields owed, waited and turns are history.                              *)
(***************************************************************************)
EXTENDS Integers, Sequences, SequencesExt, FiniteSetsExt

CONSTANTS
    Sessions, Groups,       \* numbers, in the order that turns are taken
    Orders, Lengths,
    MaxQueuedBytes, Overhead,   \* DEFAULT_MAX_QUEUED_BYTES, PER_DATAGRAM_OVERHEAD
    MINIMUM_FRAME_SIZE,
    Marks,                  \* for set_max_buffered_datagrams
    Ages,                   \* for set_datagram_max_age
    DefaultAges,            \* default_max_age, for the RTTs of the path
    Limits,                 \* max_datagram_frame_size, remembered and then received
    Rooms,                  \* what other frames leave in a packet
    MaxAge, MaxDatagrams    \* bounds on ages and on datagrams

None == -1
NoMark == MaxDatagrams + 1
ANY_PROGRESS == 1
TYPE_LEN == 1
Charge(len) == len + Overhead

VARIABLES queues, rr_next, remote_size, default_age, admitted

vars == <<queues, rr_next, remote_size, default_age, admitted>>

NewQueue ==
    [items |-> <<>>, rr_next |-> 0, total_count |-> 0, total_bytes |-> 0,
     mark |-> NoMark, blocked |-> None, max_age |-> None,
     expired |-> 0, sent |-> 0, too_big |-> 0,
     owed |-> 0, waited |-> [g \in Groups |-> 0], turns |-> 0]

Init ==
    /\ queues = <<>> /\ rr_next = 0 /\ admitted = 0
    /\ remote_size \in Limits /\ default_age \in DefaultAges

-----------------------------------------------------------------------------
BytesOf(items) == FoldSeq(LAMBDA d, sum : sum + Charge(d.len), 0, items)
GroupsOf(items) == {items[i].group : i \in DOMAIN items}

(* Every removal: the totals follow, and nobody waits in an empty group. *)
Without(q, Gone(_)) ==
    LET kept == SelectSeq(q.items, LAMBDA d : ~Gone(d))
    IN  [q EXCEPT
            !.items = kept,
            !.total_count = @ - (Len(q.items) - Len(kept)),
            !.total_bytes = @ - BytesOf(SelectSeq(q.items, Gone)),
            !.waited = [g \in Groups |-> IF g \in GroupsOf(kept) THEN @[g] ELSE 0],
            !.turns = IF kept = <<>> THEN 0 ELSE @]

finish_removal(q, dgram) == Without(q, LAMBDA d : d.id = dgram.id)

EffectiveMaxAge(q, default) == IF q.max_age = None THEN default ELSE q.max_age

Stale(q, default, d) == d.age >= EffectiveMaxAge(q, default)

(* How long until the oldest is too old, for the timer. *)
NextExpiry(q, default) ==
    EffectiveMaxAge(q, default) - Max({q.items[i].age : i \in DOMAIN q.items})

(* Mutant of Expire: the datagrams are not counted. *)
ExpireUncounted(q, default) == Without(q, LAMBDA d : Stale(q, default, d))

Expire(q, default) ==
    LET Gone(d) == Stale(q, default, d)
    IN  [Without(q, Gone) EXCEPT !.expired = @ + Len(SelectSeq(q.items, Gone))]

BelowMaxBuffered(q) == q.total_count < q.mark

Room(q) == Max({0, MaxQueuedBytes - q.total_bytes})

Unblocked(q) ==
    /\ q.blocked # None
    /\ q.total_count = 0 \/ (BelowMaxBuffered(q) /\ Room(q) >= q.blocked)
(* The event that says so is pushed in the same step. *)
ResumeIfUnblocked(q) == IF Unblocked(q) THEN [q EXCEPT !.blocked = None] ELSE q

BlockOn(q, charge) == [q EXCEPT !.blocked = Max({@, charge})]

-----------------------------------------------------------------------------
(* The datagram to evict: the oldest of the lowest order, in its lowest group. *)
Victim(items) ==
    LET key == CHOOSE k \in {<<items[i].order, items[i].group, i>> : i \in DOMAIN items} :
                  \A i \in DOMAIN items :
                     \/ k[1] < items[i].order
                     \/ k[1] = items[i].order /\ k[2] < items[i].group
                     \/ k[1] = items[i].order /\ k[2] = items[i].group /\ k[3] <= i
    IN  items[key[3]]

Fits(q, charge) == q.total_bytes + charge <= MaxQueuedBytes

evict_at(q) == finish_removal(q, Victim(q.items))

RECURSIVE EvictFor(_, _)
EvictFor(q, d) ==
    IF Fits(q, Charge(d.len)) \/ q.items = <<>> THEN q
    ELSE IF d.order < Victim(q.items).order THEN q
    ELSE EvictFor(evict_at(q), d)

Outranked(q, d) ==
    ~Fits(q, Charge(d.len)) /\ q.items # <<>> /\ d.order < Victim(q.items).order

(* Push: the group may have been empty, and the session without a turn to wait for. *)
Push(q, d) ==
    [q EXCEPT !.items = Append(@, d), !.total_count = @ + 1,
              !.total_bytes = @ + Charge(d.len), !.owed = @ + 1]

Outcome(q, evicted) ==
    IF evicted > 0 THEN [BlockOn(q, ANY_PROGRESS) EXCEPT !.owed = @ - evicted]
    ELSE IF BelowMaxBuffered(q) /\ q.total_bytes <= MaxQueuedBytes THEN q
    ELSE BlockOn(q, ANY_PROGRESS)

Enqueue(q, d) ==
    IF Outranked(q, d) THEN BlockOn(q, Charge(d.len))
    ELSE LET left == EvictFor(q, d)
         IN  Outcome(Push(left, d), Len(q.items) - Len(left.items))

-----------------------------------------------------------------------------
(* The first of the candidates at or after the cursor, or else the first of all. *)
NextFrom(cursor, candidates) ==
    LET after == {c \in candidates : c >= cursor}
    IN  IF after # {} THEN Min(after) ELSE Min(candidates)

NextGroup(q) == NextFrom(q.rr_next, GroupsOf(q.items))

(* The oldest of the highest order. *)
Highest(q, g) ==
    LET top == Max({q.items[i].order : i \in {j \in DOMAIN q.items : q.items[j].group = g}})
    IN  SelectSeq(q.items, LAMBDA d : d.group = g /\ d.order = top)[1]

PeekNext(q) == Highest(q, NextGroup(q))

Waited(q, g) ==
    [h \in Groups |-> IF h # g /\ h \in GroupsOf(q.items) THEN q.waited[h] + 1 ELSE 0]

(* Mutant of TakeNext: the cursor stays on the group. *)
TakeNextStays(q) ==
    LET d == PeekNext(q)
    IN  finish_removal([q EXCEPT !.rr_next = d.group, !.waited = Waited(q, d.group)], d)

TakeNext(q) ==
    LET d == PeekNext(q)
    IN  finish_removal([q EXCEPT !.rr_next = d.group + 1, !.waited = Waited(q, d.group)], d)

Active(qs) == {s \in DOMAIN qs : qs[s].items # <<>>}
NextActiveSession(qs, cursor) == NextFrom(cursor, Active(qs))

(* Mutant of TakeFromSession: a session that was blocked is not resumed. *)
TakeFromSessionBlocked(st, s, disposition) ==
    LET q == TakeNext(st.queues[s])
        counted == IF disposition = "send" THEN [q EXCEPT !.sent = @ + 1]
                                           ELSE [q EXCEPT !.too_big = @ + 1]
    IN  [queues |-> [t \in DOMAIN st.queues |->
                        IF t = s THEN [counted EXCEPT !.turns = 0]
                        ELSE IF t \in Active(st.queues) THEN [st.queues[t] EXCEPT !.turns = @ + 1]
                        ELSE st.queues[t]],
         cursor |-> s + 1]

(* The others wait for a turn while this session takes one. *)
TakeFromSession(st, s, disposition) ==
    LET q == TakeNext(st.queues[s])
        counted == IF disposition = "send" THEN [q EXCEPT !.sent = @ + 1]
                                           ELSE [q EXCEPT !.too_big = @ + 1]
    IN  [queues |-> [t \in DOMAIN st.queues |->
                        IF t = s THEN [ResumeIfUnblocked(counted) EXCEPT !.turns = 0]
                        ELSE IF t \in Active(st.queues) THEN [st.queues[t] EXCEPT !.turns = @ + 1]
                        ELSE st.queues[t]],
         cursor |-> s + 1]

(* What a frame leaves: nothing, if it has no length and so ends the packet. *)
Left(room, len) ==
    LET with_len == TYPE_LEN + 1 + len
    IN  IF with_len <= remote_size /\ with_len + MINIMUM_FRAME_SIZE <= room THEN room - with_len
        ELSE 0

RECURSIVE WriteFrames(_, _, _, _)
WriteFrames(st, room, empty, full_mtu) ==
    IF Active(st.queues) = {} THEN st
    ELSE LET s == NextActiveSession(st.queues, st.cursor)
             len == PeekNext(st.queues[s]).len
             frame == len + TYPE_LEN
         IN  IF frame > room /\ ~(full_mtu /\ empty) THEN st
             ELSE IF frame > Min({room, remote_size})
             THEN WriteFrames(TakeFromSession(st, s, "too_big"), room, empty, full_mtu)
             ELSE WriteFrames(TakeFromSession(st, s, "send"), Left(room, len), FALSE, full_mtu)

-----------------------------------------------------------------------------
Put(s, q) == [t \in DOMAIN queues \cup {s} |-> IF t = s THEN q ELSE queues[t]]
QueueOf(s) == IF s \in DOMAIN queues THEN queues[s] ELSE NewQueue

(* Mutant of MaxDatagramSize: the type of the frame is left out. *)
MaxSizeOfFrame(room) == Min({room, remote_size})

(* What Connection tells an application that fits a packet with this room. *)
MaxDatagramSize(room) == Max({0, Min({room, remote_size}) - TYPE_LEN})

Datagram(id, g, order, len) == [id |-> id, group |-> g, order |-> order, len |-> len, age |-> 0]

ExpireQueue(q, default) == ResumeIfUnblocked(Expire(q, default))

EnqueueDatagram(s, g, order, len) ==
    /\ admitted < MaxDatagrams
    /\ len + TYPE_LEN <= remote_size
    /\ queues' = Put(s, Enqueue(ExpireQueue(QueueOf(s), default_age), Datagram(admitted, g, order, len)))
    /\ admitted' = admitted + 1
    /\ UNCHANGED <<rr_next, remote_size, default_age>>

SetMaxBuffered(s, mark) ==
    LET q == [QueueOf(s) EXCEPT !.mark = mark]
    IN  /\ queues' = Put(s, ResumeIfUnblocked(q))
            /\ UNCHANGED <<rr_next, remote_size, default_age, admitted>>

SetMaxAge(s, age) ==
    LET q == Expire([QueueOf(s) EXCEPT !.max_age = age], default_age)
    IN  /\ queues' = Put(s, ResumeIfUnblocked(q))
            /\ UNCHANGED <<rr_next, remote_size, default_age, admitted>>

(* process_output: the timers, which expire what is stale, and then a packet. *)
ExpireDatagrams(qs) == [s \in DOMAIN qs |-> ExpireQueue(qs[s], default_age)]

Output(room, empty, full_mtu) ==
    LET st == [queues |-> ExpireDatagrams(queues), cursor |-> rr_next]
    IN  \E out \in {WriteFrames(st, room, empty, full_mtu)} :
          /\ queues' = out.queues /\ rr_next' = out.cursor
          /\ UNCHANGED <<remote_size, default_age, admitted>>

(* process_output when nothing may be sent. *)
ProcessTimer ==
    /\ queues' = ExpireDatagrams(queues)
    /\ UNCHANGED <<rr_next, remote_size, default_age, admitted>>

(* The session sweeps its own queue, and takes every count. *)
TakeCounts(s) ==
    /\ s \in DOMAIN queues
    /\ LET q == ExpireQueue(queues[s], default_age)
       IN  queues' = Put(s, [q EXCEPT !.owed = @ - q.expired - q.sent - q.too_big,
                                      !.expired = 0, !.sent = 0, !.too_big = 0])
    /\ UNCHANGED <<rr_next, remote_size, default_age, admitted>>

DropSession(s) ==
    /\ s \in DOMAIN queues
    /\ queues' = [t \in DOMAIN queues \ {s} |-> queues[t]]
    /\ UNCHANGED <<rr_next, remote_size, default_age, admitted>>

(* The transport parameters of the handshake replace those remembered for 0-RTT. *)
SetRemoteSize(size) ==
    /\ remote_size' = size
    /\ UNCHANGED <<queues, rr_next, default_age, admitted>>

Tick ==
    /\ \E s \in DOMAIN queues : \E i \in DOMAIN queues[s].items : queues[s].items[i].age < MaxAge
    /\ queues' = [s \in DOMAIN queues |-> [queues[s] EXCEPT
                    !.items = [i \in DOMAIN @ |-> [@[i] EXCEPT !.age = Min({MaxAge, @ + 1})]]]]
    /\ UNCHANGED <<rr_next, remote_size, default_age, admitted>>

(* An acknowledgment lowers the minimum RTT. *)
LowerRtt ==
    /\ \E age \in DefaultAges : age < default_age /\ default_age' = age
    /\ UNCHANGED <<queues, rr_next, remote_size, admitted>>

Next ==
    \/ \E s \in Sessions :
          \/ \E g \in Groups, o \in Orders, len \in Lengths : EnqueueDatagram(s, g, o, len)
          \/ \E mark \in Marks \cup {NoMark} : SetMaxBuffered(s, mark)
          \/ \E age \in Ages \cup {None} : SetMaxAge(s, age)
          \/ TakeCounts(s) \/ DropSession(s)
    \/ \E room \in Rooms, empty, full_mtu \in BOOLEAN : Output(room, empty, full_mtu)
    \/ ProcessTimer \/ Tick \/ LowerRtt
    \/ \E size \in Limits : size < remote_size /\ SetRemoteSize(size)

Spec == Init /\ [][Next]_vars

-----------------------------------------------------------------------------
(* Each datagram a queue has admitted is either still in it, or counted    *)
(* once: as sent, expired, too big or evicted, whichever sweep removed it  *)
(* and whenever the counts were taken.  The cached totals are those of the *)
(* contents, and however the evictions for datagrams of different orders   *)
(* follow each other the budget is exceeded by one datagram at most        *)
(* (DatagramQueue::enqueue, expire, take_next and finish_removal).         *)
DatagramsAccounted ==
    \A s \in DOMAIN queues : LET q == queues[s] IN
        /\ q.owed = Len(q.items) + q.expired + q.sent + q.too_big
        /\ q.total_count = Len(q.items) /\ q.total_bytes = BytesOf(q.items)
        /\ q.total_bytes <= MaxQueuedBytes + Charge(Max(Lengths))

(* A session that was pushed back is woken: whether the last datagram was  *)
(* sent, expired, evicted or too big, a queue that blocks its session has  *)
(* one left, and so a packet or a timer that will unblock it               *)
(* (resume_if_unblocked after every removal and every relaxed bound).  The *)
(* timer set for next_expiry() finds something to remove when it fires.    *)
BlockedAreWoken ==
    \A s \in DOMAIN queues :
        /\ queues[s].blocked # None => queues[s].items # <<>>
        /\ queues[s].items # <<>> =>
              (NextExpiry(queues[s], default_age) <= 0 <=>
                  Len(Expire(queues[s], default_age).items) < Len(queues[s].items))

(* max_datagram_size() is right for whatever is queued: if no datagram is  *)
(* longer, an otherwise empty packet carries one and none is dropped as    *)
(* too big; if all are longer, none of them leaves.                        *)
MaxSizeIsRight ==
    \A room \in Rooms :
        LET out == WriteFrames([queues |-> queues, cursor |-> rr_next], room, TRUE, TRUE).queues
            Sent(s) == out[s].sent > queues[s].sent
            TooBig(s) == out[s].too_big > queues[s].too_big
            Queued == UNION {ToSet(queues[s].items) : s \in DOMAIN queues}
        IN  /\ Queued # {} /\ (\A d \in Queued : d.len <= MaxDatagramSize(room)) =>
                  (\E s \in DOMAIN queues : Sent(s)) /\ (\A s \in DOMAIN queues : ~TooBig(s))
            /\ (\A d \in Queued : d.len > MaxDatagramSize(room)) => \A s \in DOMAIN queues : ~Sent(s)

(* Turns are fair: a session waits for one turn of each other session at   *)
(* most, and a group for one of each other group of its session, through   *)
(* expiry, eviction, packets that end early, and queues that come and go   *)
(* (the cursors queue_rr_next and rr_next).                                *)
TurnsAreFair ==
    \A s \in DOMAIN queues :
        /\ queues[s].turns < Cardinality(Sessions)
        /\ \A g \in Groups : queues[s].waited[g] < Cardinality(Groups)
=============================================================================
