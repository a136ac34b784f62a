----------------------------- MODULE SendStreams -----------------------------
(***************************************************************************)
(* The order in which streams get their data into packets (SendStreams in  *)
(* send_stream.rs): first the streams without fairness, in the order of    *)
(* their creation, then the groups of fair streams in turn, and in a group *)
(* the highest sendOrder first.                                            *)
(*                                                                         *)
(* Data is counted in units; a packet has room for Space units, and a      *)
(* STREAM frame takes all the data of its stream that fits.  Order 0 is no *)
(* sendOrder, group 0 is NULL_GROUP_ID.                                    *)
(***************************************************************************)
EXTENDS Naturals, Sequences, FiniteSets, SequencesExt, FiniteSetsExt

CONSTANTS
    Streams,        \* a set of stream IDs, 1 .. n: the order of creation
    Orders, Groups, \* the values the application may set, without 0
    Setters,        \* which of "fairness", "sendorder", "sendgroup" it calls
    Fair,           \* streams that are fair from their creation on
    InitialOrder, InitialGroup,
    MaxData, Space, \* units of data a stream can have, and a packet
    MaxWait,        \* where the history stops counting
    Ends            \* streams may end

VARIABLES
    map,            \* the streams, in the order of their creation
    attr,           \* attr[s]: [fair, order, group]
    data,           \* data[s]: units of data that can be sent
    queues,         \* [groups: per_group, next: per_group_next, rr: fair_rr_next]
    panicked,       \* OrderGroup::insert or remove panicked
    waited          \* history: in how many packets a stream was passed over for
                    \* another of its bucket, and a group for another group

cvars == <<map, attr, data, queues, panicked, waited>>

Priorities == <<"Critical", "Important", "High", "Normal", "Low">>

-----------------------------------------------------------------------------
(* OrderGroup and PerGroupQueues *)

EmptyBucket == [ids |-> {}, next |-> 0]
IdAt(b, i) == SetToSortSeq(b.ids, <)[i + 1]

\* The index of a group in per_group, 0 if there is none.
IndexOf(q, g) ==
    LET found == {i \in 1..Len(q.groups) : q.groups[i].id = g}
    IN IF found = {} THEN 0 ELSE CHOOSE i \in found : TRUE

\* PerGroupQueues::group_mut and OrderGroup::insert.
Enqueue(buckets, s, order) ==
    LET b == IF order \in DOMAIN buckets THEN buckets[order] ELSE EmptyBucket
    IN [o \in DOMAIN buckets \union {order} |->
          IF o = order THEN [b EXCEPT !.ids = @ \union {s}] ELSE buckets[o]]

\* PerGroupQueues::remove_stream: an order nobody has is forgotten.
Dequeue(buckets, s, order) ==
    LET b == [buckets EXCEPT ![order].ids = @ \ {s}]
        keep == {o \in DOMAIN b : o = 0 \/ b[o].ids # {}}
    IN [o \in keep |-> b[o]]

Queued(q, g, s, order) ==
    /\ IndexOf(q, g) # 0
    /\ order \in DOMAIN q.groups[IndexOf(q, g)].buckets
    /\ s \in q.groups[IndexOf(q, g)].buckets[order].ids

NoStreams(group) == \A o \in DOMAIN group.buckets : group.buckets[o].ids = {}

\* SendStreams::insert_into_group.
InsertIntoGroup(q, g, s, order) ==
    IF IndexOf(q, g) = 0
    THEN [q EXCEPT !.groups = Append(@, [id |-> g, buckets |-> Enqueue(0 :> EmptyBucket, s, order)])]
    ELSE [q EXCEPT !.groups[IndexOf(q, g)].buckets = Enqueue(@, s, order)]

\* The group's queues without the stream; the group stays.
RemoveStream(q, g, s, order) ==
    IF Queued(q, g, s, order)
    THEN [q EXCEPT !.groups[IndexOf(q, g)].buckets = Dequeue(@, s, order)]
    ELSE q

\* Empty groups go, and the cursor stays within the groups.
DropEmpty(q) ==
    LET groups == SelectSeq(q.groups, LAMBDA g : ~NoStreams(g))
    IN [q EXCEPT !.groups = groups, !.next = IF @ >= Len(groups) THEN 0 ELSE @]

\* SendStreams::remove_from_group.
RemoveFromGroup(q, g, s, order) == DropEmpty(RemoveStream(q, g, s, order))

-----------------------------------------------------------------------------
(* The calls of the application *)

NoWait == [stream |-> [s \in Streams |-> 0], group |-> [g \in Groups \union {0} |-> 0]]

CInit ==
    /\ map = << >> /\ panicked = FALSE
    /\ attr = [s \in Streams |-> [fair |-> FALSE, order |-> 0, group |-> 0]]
    /\ data = [s \in Streams |-> 0]
    /\ queues = [groups |-> << >>, next |-> 0, rr |-> 0]
    /\ waited = NoWait

InMap(s) == \E i \in 1..Len(map) : map[i] = s
NoneWaited == waited' = NoWait

\* SendStreams::set_fairness: what it does to the queues and to the stream.
WithFairness(q, s, make_fair) ==
    LET a == attr[s]
    IN IF ~a.fair /\ make_fair /\ a.group = 0 THEN InsertIntoGroup(q, 0, s, a.order)
       ELSE IF a.fair /\ ~make_fair THEN RemoveFromGroup(q, a.group, s, a.order)
       ELSE q

\* Mutant: the group is kept.
FairAttrKeepsGroup(s, make_fair) == [attr[s] EXCEPT !.fair = make_fair]

FairAttr(s, make_fair) ==
    [attr[s] EXCEPT !.fair = make_fair, !.group = IF attr[s].fair /\ ~make_fair THEN 0 ELSE @]

\* OrderGroup::insert panics for a stream it has, OrderGroup::remove for one it
\* does not have.
InsertPanics(q, g, s, order) == Queued(q, g, s, order)
RemovePanics(q, g, s, order) ==
    /\ IndexOf(q, g) # 0 /\ ~Queued(q, g, s, order)
    /\ order \in DOMAIN q.groups[IndexOf(q, g)].buckets

FairnessPanics(s, make_fair) ==
    LET a == attr[s]
    IN \/ ~a.fair /\ make_fair /\ a.group = 0 /\ InsertPanics(queues, 0, s, a.order)
       \/ a.fair /\ ~make_fair /\ RemovePanics(queues, a.group, s, a.order)

SetFairness(s, make_fair) ==
    /\ ~panicked /\ InMap(s) /\ "fairness" \in Setters
    /\ panicked' = FairnessPanics(s, make_fair)
    /\ queues' = WithFairness(queues, s, make_fair)
    /\ attr' = [attr EXCEPT ![s] = FairAttr(s, make_fair)]
    /\ NoneWaited /\ UNCHANGED <<map, data>>

\* SendStreams::set_sendorder: makes the stream fair and moves it between the
\* buckets of its group.
SetSendorder(s, order) ==
    LET q == WithFairness(queues, s, TRUE)
        a == FairAttr(s, TRUE)
    IN /\ ~panicked /\ InMap(s) /\ "sendorder" \in Setters
       /\ panicked' = \/ FairnessPanics(s, TRUE)
                      \/ a.order # order /\ RemovePanics(q, a.group, s, a.order)
                      \/ a.order # order /\ InsertPanics(q, a.group, s, order)
       /\ queues' = IF a.order = order THEN q
                    ELSE InsertIntoGroup(RemoveStream(q, a.group, s, a.order), a.group, s, order)
       /\ attr' = [attr EXCEPT ![s] = [a EXCEPT !.order = order]]
       /\ NoneWaited /\ UNCHANGED <<map, data>>

\* SendStreams::set_sendgroup: only fair streams can be in a group.
SetSendgroup(s, group) ==
    LET a == attr[s]
        removed == IF a.fair THEN RemoveFromGroup(queues, a.group, s, a.order) ELSE queues
    IN /\ ~panicked /\ InMap(s) /\ "sendgroup" \in Setters
       /\ a.group # group
       /\ group = 0 \/ a.fair
       /\ panicked' = \/ a.fair /\ RemovePanics(queues, a.group, s, a.order)
                      \/ a.fair /\ InsertPanics(removed, group, s, a.order)
       /\ queues' = IF a.fair THEN InsertIntoGroup(removed, group, s, a.order) ELSE removed
       /\ attr' = [attr EXCEPT ![s].group = group]
       /\ NoneWaited /\ UNCHANGED <<map, data>>

\* SendStreams::insert, and the calls with which a WebTransport stream is set up.
\* An ID that is free again stands for a stream of another type: only within a
\* type do IDs grow with the time of creation.
Create(s) ==
    LET a == IF s \in Fair THEN [fair |-> TRUE, order |-> InitialOrder[s], group |-> InitialGroup[s]]
                           ELSE [fair |-> FALSE, order |-> 0, group |-> 0]
    IN /\ ~panicked /\ ~InMap(s) /\ \A t \in Streams : t < s => InMap(t)
       /\ map' = Append(map, s)
       /\ attr' = [attr EXCEPT ![s] = a]
       /\ queues' = IF a.fair THEN InsertIntoGroup(queues, a.group, s, a.order) ELSE queues
       /\ NoneWaited /\ UNCHANGED <<data, panicked>>

\* The application writes, or the peer grants credit.
DataReady(s) ==
    /\ ~panicked /\ InMap(s) /\ data[s] < MaxData
    /\ data' = [data EXCEPT ![s] = MaxData]
    /\ UNCHANGED <<map, attr, queues, panicked, waited>>

\* SendStreams::remove_ended: the streams in ended are done.
RemoveEnded(ended) ==
    LET q == FoldSet(LAMBDA s, acc : IF attr[s].fair
                                     THEN RemoveStream(acc, attr[s].group, s, attr[s].order)
                                     ELSE acc, queues, ended)
        left == SelectSeq(map, LAMBDA s : s \notin ended)
        clean == DropEmpty(q)
    IN /\ ~panicked /\ Ends
       /\ map' = left
       /\ queues' = [clean EXCEPT !.rr = IF @ >= Len(left) THEN 0 ELSE @]
       /\ panicked' = \E s \in ended :
                        attr[s].fair /\ RemovePanics(queues, attr[s].group, s, attr[s].order)
       /\ attr' = [s \in Streams |-> IF s \in ended THEN [fair |-> FALSE, order |-> 0, group |-> 0]
                                                    ELSE attr[s]]
       /\ NoneWaited /\ UNCHANGED data

-----------------------------------------------------------------------------
(* Writing a packet: w is [data, space, queues] *)

Least(a, b) == IF a < b THEN a ELSE b

\* SendStream::write_frames: false when the packet is full.
WriteStream(w, s) ==
    LET n == Least(w.data[s], w.space)
    IN [w EXCEPT !.data[s] = @ - n, !.space = @ - n]

\* Streams without fairness, in the order of the map.
WriteUnfair(w) ==
    FoldLeft(LAMBDA acc, s : IF attr[s].fair THEN acc ELSE WriteStream(acc, s), w, map)

\* The single group without sendOrder: by the index in the map.
RECURSIVE WriteFast(_, _, _)
WriteFast(w, start, off) ==
    IF off = Len(map) THEN w
    ELSE LET idx == (start + off) % Len(map)
             s == map[idx + 1]
         IN IF ~attr[s].fair \/ w.data[s] = 0 THEN WriteFast(w, start, off + 1)
            ELSE IF WriteStream(w, s).space = 0
                 THEN [WriteStream(w, s) EXCEPT !.queues.rr = (idx + 1) % Len(map)]
                 ELSE WriteFast(WriteStream(w, s), start, off + 1)

\* OrderGroup::iter: where the iteration starts, and how far it gets.
Start(b) == IF b.next >= Cardinality(b.ids) THEN 0 ELSE b.next
Candidate(b, k) == IdAt(b, (Start(b) + k) % Cardinality(b.ids))

\* Mutant: only the stream at the cursor is tried.
StoppingAtCursor(w, b) ==
    {k \in 0..0 : b.ids # {} /\ (w.space = 0 \/ w.data[Candidate(b, k)] > 0)}

Stopping(w, b) ==
    {k \in 0..Cardinality(b.ids) - 1 : w.space = 0 \/ w.data[Candidate(b, k)] > 0}

\* Mutant: the cursor stays at the stream that was served.
GroupTurnStays(w, idx) ==
    LET buckets == w.queues.groups[idx + 1].buckets
        able == {o \in DOMAIN buckets : Stopping(w, buckets[o]) # {}}
    IN IF able = {} THEN w
       ELSE LET o == Max(able)
                k == Min(Stopping(w, buckets[o]))
                n == Cardinality(buckets[o].ids)
            IN [WriteStream(w, Candidate(buckets[o], k)) EXCEPT
                  !.queues.groups[idx + 1].buckets[o].next = (Start(buckets[o]) + k) % n]

\* Mutant: the lowest order first.
GroupTurnLowest(w, idx) ==
    LET buckets == w.queues.groups[idx + 1].buckets
        able == {o \in DOMAIN buckets : Stopping(w, buckets[o]) # {}}
    IN IF able = {} THEN w
       ELSE LET o == Min(able)
                k == Min(Stopping(w, buckets[o]))
                n == Cardinality(buckets[o].ids)
            IN [WriteStream(w, Candidate(buckets[o], k)) EXCEPT
                  !.queues.groups[idx + 1].buckets[o].next = (Start(buckets[o]) + k + 1) % n]

\* The turn of a group: in the highest order with a stream that can send, the
\* first such stream from the cursor on.
GroupTurn(w, idx) ==
    LET buckets == w.queues.groups[idx + 1].buckets
        able == {o \in DOMAIN buckets : Stopping(w, buckets[o]) # {}}
    IN IF able = {} THEN w
       ELSE LET o == Max(able)
                k == Min(Stopping(w, buckets[o]))
                n == Cardinality(buckets[o].ids)
            IN [WriteStream(w, Candidate(buckets[o], k)) EXCEPT
                  !.queues.groups[idx + 1].buckets[o].next = (Start(buckets[o]) + k + 1) % n]

\* Rounds over the groups until a round writes nothing or the packet is full.
RECURSIVE WriteGroups(_, _, _, _)
WriteGroups(w, start, i, wrote) ==
    LET n == Len(w.queues.groups)
        idx == (start + i) % n
    IN IF i = n
       THEN IF wrote THEN WriteGroups(w, start, 0, FALSE)
                     ELSE [w EXCEPT !.queues.next = (start + 1) % n]
       ELSE IF GroupTurn(w, idx).space = 0
            THEN [GroupTurn(w, idx) EXCEPT !.queues.next = (idx + 1) % n]
            ELSE WriteGroups(GroupTurn(w, idx), start, i + 1, wrote \/ GroupTurn(w, idx).data # w.data)

OneGroupWithoutOrder(groups) == Len(groups) = 1 /\ DOMAIN groups[1].buckets = {0}

\* SendStreams::write_frames for the priority the streams have.
WriteFrames(w) ==
    LET u == WriteUnfair(w)
        groups == u.queues.groups
    IN IF groups = << >> THEN u
       ELSE IF OneGroupWithoutOrder(groups)
            THEN WriteFast(u, IF u.queues.rr >= Len(map) THEN 0 ELSE u.queues.rr, 0)
            ELSE WriteGroups(u, IF u.queues.next >= Len(groups) THEN 0 ELSE u.queues.next, 0, FALSE)

\* SendStreams::write_frames for a priority no stream has: nothing is written,
\* but the walk over the groups moves their cursor, and each iteration brings
\* the cursor of a bucket back within its bounds.
WriteNothing(w) ==
    LET groups == w.queues.groups
        n == Len(groups)
        Visited(b) == [o \in DOMAIN b |-> [b[o] EXCEPT !.next = Start(b[o])]]
    IN IF n = 0 \/ OneGroupWithoutOrder(groups) THEN w
       ELSE [w EXCEPT
               !.queues.next = ((IF @ >= n THEN 0 ELSE @) + 1) % n,
               !.queues.groups = [i \in 1..n |->
                                    [groups[i] EXCEPT !.buckets = Visited(groups[i].buckets)]]]

\* Connection::write_appdata_frames: the priorities in turn, until the packet is
\* full.  Streams have Normal priority.
WritePacket(w) ==
    FoldLeft(LAMBDA acc, p : IF acc.space = 0 THEN acc
                             ELSE IF p = "Normal" THEN WriteFrames(acc) ELSE WriteNothing(acc),
             w, Priorities)

SameBucket(s, t) == InMap(s) /\ InMap(t) /\ attr[s] = attr[t] /\ attr[s].fair

\* The streams with data before the packet, and those the packet has data of.
Backlog(g) == {s \in Streams : attr[s].fair /\ attr[s].group = g /\ data[s] > 0}
Served == {s \in Streams : data'[s] < data[s]}
Longer(n) == Least(n + 1, MaxWait)

SendPacket ==
    /\ ~panicked /\ \E s \in Streams : data[s] > 0
    /\ \E w \in {WritePacket([data |-> data, space |-> Space, queues |-> queues])} :
         data' = w.data /\ queues' = w.queues
    /\ waited' =
         [stream |-> [s \in Streams |->
            IF data[s] = 0 \/ s \in Served THEN 0
            ELSE IF \E t \in Served : SameBucket(s, t) THEN Longer(waited.stream[s])
            ELSE waited.stream[s]],
          group |-> [g \in Groups \union {0} |->
            IF Backlog(g) = {} \/ Backlog(g) \cap Served # {} THEN 0
            ELSE IF \E t \in Served : attr[t].fair THEN Longer(waited.group[g])
            ELSE waited.group[g]]]
    /\ UNCHANGED <<map, attr, panicked>>

CNext ==
    \/ \E s \in Streams :
         \/ Create(s) \/ DataReady(s)
         \/ \E b \in BOOLEAN : SetFairness(s, b)
         \/ \E o \in Orders \union {0} : SetSendorder(s, o)
         \/ \E g \in Groups \union {0} : SetSendgroup(s, g)
    \/ \E ended \in SUBSET {s \in Streams : InMap(s) /\ data[s] = 0} :
         ended # {} /\ RemoveEnded(ended)
    \/ SendPacket

-----------------------------------------------------------------------------
(* Properties; HigherOrderFirst and PacketIsFilled are about a step *)

\* Every fair stream is in exactly one queue, that of its group and sendOrder,
\* and no other stream is in any; no group or sendOrder is kept for nobody;
\* neither panic of OrderGroup ("Duplicate stream_id", "Missing stream_id") can
\* be reached, whatever the order of the calls that move streams.
QueuesExact ==
    /\ ~panicked
    /\ \A i \in 1..Len(queues.groups) :
         LET g == queues.groups[i]
         IN /\ ~NoStreams(g)
            /\ \A j \in 1..Len(queues.groups) : queues.groups[j].id = g.id => i = j
            /\ \A o \in DOMAIN g.buckets :
                 /\ o = 0 \/ g.buckets[o].ids # {}
                 /\ g.buckets[o].ids = {s \in Streams : InMap(s) /\ attr[s] =
                                          [fair |-> TRUE, order |-> o, group |-> g.id]}
    /\ \A s \in Streams : InMap(s) /\ attr[s].fair => Queued(queues, attr[s].group, s, attr[s].order)
    /\ \A s \in Streams : attr[s].group # 0 => attr[s].fair

\* "A stream must starve until all bytes queued on same-group streams with a
\* higher [[SendOrder]] have been sent", and streams without fairness go first.
HigherOrderFirst ==
    \A s \in Served, t \in Streams :
        \/ attr[s].fair /\ ~attr[t].fair
        \/ /\ attr[s].fair /\ attr[t].fair /\ attr[s].group = attr[t].group
           /\ attr[s].order < attr[t].order
        => data'[t] = 0

\* A packet is not left with room while a stream has data: the rounds over the
\* groups fill it.
PacketIsFilled ==
    Served # {} =>
        \/ \A s \in Streams : data'[s] = 0
        \/ FoldSet(LAMBDA s, n : n + data[s] - data'[s], 0, Streams) = Space

\* "when the builder fills mid-pass we resume at the stream after the one that
\* filled, so later fair streams are not starved": a stream is not passed over
\* for others of its bucket more often than there are others.
StreamsTakeTurns ==
    \A s \in Streams : waited.stream[s] < Cardinality({t \in Streams : SameBucket(s, t)} \union {s})

\* "Each group contributes one stream attempt per scheduler pass so groups get
\* equal bandwidth share": a group with data is not passed over for other groups
\* more often than there are groups.
GroupsTakeTurns == \A g \in Groups \union {0} : waited.group[g] <= Len(queues.groups)

=============================================================================
