------------------------------ MODULE Migration ------------------------------
(***************************************************************************)
(* Connection IDs and network paths of two connected endpoints             *)
(* (neqo-transport/src/cid.rs, path.rs and the migration code of           *)
(* connection/mod.rs).  Each endpoint issues connection IDs to the other   *)
(* and spends the ones it was given on paths.  The client migrates; the    *)
(* server follows the packets it receives; both probe paths, give them up  *)
(* when probes go unanswered, and retire the connection IDs they used.     *)
(*                                                                         *)
(* A connection ID is its sequence number; the data of a PATH_CHALLENGE is *)
(* the number of the packet that carries it, which is as unique as the     *)
(* random bytes.  Packets may be lost and reordered.  A frame that is lost *)
(* is queued again when its packet is declared lost; with Spurious that    *)
(* also happens to packets that arrived, or will.                          *)
(***************************************************************************)
EXTENDS Integers, SequencesExt

CONSTANTS
    ACTIVE_LIMIT,            \* connection IDs an endpoint keeps unused
    MAX_RETIRE_QUEUE,        \* RETIRE_CONNECTION_ID frames an endpoint keeps waiting
    MAX_PATHS,
    MAX_PROBES,
    MAX_PENDING_CHALLENGES,
    Limit,                   \* the active_connection_id_limit both announce
    Addresses,               \* the addresses the client moves to
    Preferred,               \* the preferred address of the server, or None
    Ecn,                     \* migration starts ECN on the new path
    Rotates,                 \* the server asks for old connection IDs to be retired
    Mtus,                    \* whether probes fill the MTU of their path
    Spurious,                \* a packet that arrives may be declared lost
    MaxSent                  \* the packets each endpoint sends

VARIABLES ep, net, unacked, sent, largest, confirmed

vars == <<ep, net, unacked, sent, largest, confirmed>>

Home == "home"
None == "none"
Gone == "gone"               \* a migration target that is no longer among the paths
Ends == {"client", "server"}
Peer(e) == IF e = "client" THEN "server" ELSE "client"

Temporary(a) == [addr |-> a, cid |-> None, state |-> "ProbeNeeded", count |-> 0, data |-> 0,
                 mtu |-> FALSE, validated |-> FALSE, challenges |-> <<>>, ecn |-> FALSE]
SetValid(p) == [p EXCEPT !.state = "Valid", !.validated = TRUE]
HandshakePath == SetValid([Temporary(Home) EXCEPT !.cid = 0])

Endpoint(local) ==
    [paths |-> <<HandshakePath>>, primary |-> Home, target |-> None, to_retire |-> <<>>,
     store |-> {}, local |-> local, next_seqno |-> Max(local) + 1, lost |-> {}, error |-> None]

Init ==
    /\ ep = [e \in Ends |-> Endpoint(IF e = "server" /\ Preferred # None THEN {0, 1} ELSE {0})]
    /\ net = {} /\ unacked = {}
    /\ sent = [e \in Ends |-> 0]
    /\ largest = [e \in Ends |-> 0]
    /\ confirmed = FALSE

-----------------------------------------------------------------------------
(* One path. *)

Probe(p) ==
    LET count == CASE p.state = "Probing" -> p.count + 1
                   [] p.state = "ProbeNeeded" -> p.count
                   [] OTHER -> 0
    IN  IF count < MAX_PROBES THEN [p EXCEPT !.state = "ProbeNeeded", !.count = count]
        ELSE IF p.ecn THEN [p EXCEPT !.state = "ProbeNeeded", !.count = 0, !.ecn = FALSE]
        ELSE [p EXCEPT !.state = "Failed"]

Answered(p) == IF p.mtu THEN SetValid(p) ELSE Probe(SetValid(p))

Challenged(p, data) ==
    [p EXCEPT !.challenges =
        Append(IF Len(@) >= MAX_PENDING_CHALLENGES THEN Tail(@) ELSE @, data)]

HasProbe(p) == p.challenges # <<>> \/ p.state = "ProbeNeeded"

WriteProbe(p, data, mtu) ==
    IF p.state = "ProbeNeeded"
    THEN [p EXCEPT !.challenges = <<>>, !.state = "Probing", !.data = data, !.mtu = mtu]
    ELSE [p EXCEPT !.challenges = <<>>]

-----------------------------------------------------------------------------
(* The paths of an endpoint E; the primary path is the first.  A path is   *)
(* known by its address.                                                   *)

Index(E, a) == CHOOSE i \in DOMAIN E.paths : E.paths[i].addr = a
HasPath(E, a) == \E i \in DOMAIN E.paths : E.paths[i].addr = a
PathAt(E, a) == E.paths[Index(E, a)]
SetPath(E, p) == [E EXCEPT !.paths[Index(E, p.addr)] = p]

(* Mutant of SelectPrimary: the path stays where it is. *)
SelectPrimaryInPlace(E, a) == [E EXCEPT !.primary = a]

SelectPrimary(E, a) ==
    [E EXCEPT !.primary = a,
              !.paths = LET i == Index(E, a) IN [@ EXCEPT ![1] = E.paths[i], ![i] = E.paths[1]]]

Retire(E, cids) == [E EXCEPT !.to_retire = @ \o cids]

Evict(E) ==
    LET removed == E.paths[2] IN
    [Retire(E, <<removed.cid>>) EXCEPT
        !.paths = RemoveAt(@, 2),
        !.target = IF @ = removed.addr THEN None ELSE @]

MakePermanent(E, a, cid) ==
    [IF Len(E.paths) >= MAX_PATHS THEN Evict(E) ELSE E EXCEPT
        !.paths = Append(@, [Temporary(a) EXCEPT !.cid = cid])]

Fail(E, error) == [E EXCEPT !.error = error]

(* Mutant of EnsurePermanent: the connection ID stays in the store. *)
EnsurePermanentShared(E, a) ==
    IF HasPath(E, a) THEN E
    ELSE IF E.store = {} THEN Fail(E, "InvalidMigration")
    ELSE MakePermanent(E, a, Min(E.store))

EnsurePermanent(E, a) ==
    IF HasPath(E, a) THEN E
    ELSE IF E.store = {} THEN Fail(E, "InvalidMigration")
    ELSE MakePermanent([E EXCEPT !.store = @ \ {Min(E.store)}], a, Min(E.store))

PathResponse(E, data) ==
    LET hit == {i \in DOMAIN E.paths : E.paths[i].state = "Probing" /\ E.paths[i].data = data}
        p == E.paths[Min(hit)]
        valid == SetPath(E, Answered(p))
    IN  IF hit = {} THEN E
        ELSE IF E.target = p.addr THEN [SelectPrimary(valid, p.addr) EXCEPT !.target = None]
        ELSE valid

(* The paths whose probes or whose validation have expired are in due. *)
AfterTimeout(p, due) == IF p.state = "Probing" /\ p.addr \in due THEN Probe(p) ELSE p
Viable(E, p, due) ==
    p.state # "Failed" /\ (p.addr = E.primary \/ p.state # "Valid" \/ p.addr \notin due)

Cids(paths) == [i \in DOMAIN paths |-> paths[i].cid]

(* Mutant of Tidy: the connection IDs of the failed paths are forgotten. *)
TidyForgets(E, paths, due) ==
    [E EXCEPT !.paths = SelectSeq(paths, LAMBDA p : Viable(E, p, due))]

Tidy(E, paths, due) ==
    LET kept == SelectSeq(paths, LAMBDA p : Viable(E, p, due))
        gone == SelectSeq(paths, LAMBDA p : ~Viable(E, p, due))
    IN  [Retire(E, Cids(gone)) EXCEPT
            !.paths = kept,
            !.target = IF \E i \in DOMAIN gone : gone[i].addr = @ THEN Gone ELSE @]

ProcessTimeout(E, due) ==
    LET tidied == Tidy(E, [i \in DOMAIN E.paths |-> AfterTimeout(E.paths[i], due)], due)
        valid == {i \in DOMAIN tidied.paths : tidied.paths[i].validated}
    IN  IF HasPath(tidied, E.primary) THEN tidied
        ELSE IF valid = {} THEN Fail([tidied EXCEPT !.primary = None], "NoAvailablePath")
        ELSE SelectPrimary(tidied, tidied.paths[Max(valid)].addr)

-----------------------------------------------------------------------------
(* Connection IDs. *)

RECURSIVE Replace(_, _, _)
(* Paths::retire_cids from path i on: a path keeps going with the next     *)
(* unused connection ID, or is dropped when there is none.                 *)
Replace(E, i, retire_prior) ==
    IF i > Len(E.paths) THEN E
    ELSE IF E.paths[i].cid >= retire_prior THEN Replace(E, i + 1, retire_prior)
    ELSE LET R == Retire(E, <<E.paths[i].cid>>) IN
         IF E.store # {}
         THEN Replace([R EXCEPT !.paths[i].cid = Min(E.store), !.store = @ \ {Min(E.store)}],
                      i + 1, retire_prior)
         ELSE Replace([R EXCEPT !.paths = RemoveAt(@, i),
                                !.target = IF @ = E.paths[i].addr THEN None ELSE @],
                      i, retire_prior)

RetireCids(E, retire_prior) ==
    LET old == {s \in E.store : s < retire_prior} IN
    Replace([Retire(E, SetToSortSeq(old, <)) EXCEPT !.store = @ \ old], 1, retire_prior)

NewConnectionId(E, frame) ==
    LET R == RetireCids([E EXCEPT !.store = @ \cup {frame.seqno}], frame.retire_prior) IN
    IF Cardinality(R.store) >= ACTIVE_LIMIT \/ Len(R.to_retire) > MAX_RETIRE_QUEUE
    THEN Fail(R, "ConnectionIdLimitExceeded")
    ELSE R

RetireConnectionId(E, seqno) ==
    IF seqno >= E.next_seqno THEN Fail(E, "ProtocolViolation")
    ELSE [E EXCEPT !.local = @ \ {seqno}, !.lost = {f \in @ : f.seqno # seqno}]

Generated(E) ==
    LET missing == Limit - Cardinality(E.local)
    IN  IF missing > 0 THEN E.next_seqno .. (E.next_seqno + missing - 1) ELSE {}

(* NEW_CONNECTION_ID as this code writes it retires nothing; another server may ask for it. *)
NewFrames(e, E) ==
    {[seqno |-> s, retire_prior |-> r] : s \in Generated(E),
        r \in IF Rotates /\ e = "server" THEN {E.next_seqno} ELSE {0}}

Acked(E, pk) ==
    [E EXCEPT !.lost = {f \in @ : \A g \in pk.new : g.seqno # f.seqno},
              !.to_retire = SelectSeq(@, LAMBDA s : s \notin pk.retire)]

Lost(E, pk) ==
    [E EXCEPT !.lost = @ \cup pk.new, !.to_retire = @ \o SetToSortSeq(pk.retire, <)]

-----------------------------------------------------------------------------
(* Sending. *)

SelectPath(E) ==
    LET probes == {i \in DOMAIN E.paths : HasProbe(E.paths[i])}
    IN  IF probes = {} THEN PathAt(E, E.primary) ELSE E.paths[Min(probes)]

(* Frames other than probes go on the primary path only. *)
Written(e, E, p, pn, data) ==
    LET main == p.addr = E.primary IN
    [from |-> e, addr |-> p.addr, cid |-> p.cid, pn |-> pn,
     responses |-> p.challenges,
     challenge |-> IF p.state = "ProbeNeeded" THEN pn ELSE 0,
     new |-> IF main THEN E.lost \cup NewFrames(e, E) ELSE {},
     retire |-> IF main THEN ToSet(E.to_retire) ELSE {},
     data |-> main /\ data]

Empty(pk) ==
    pk.responses = <<>> /\ pk.challenge = 0 /\ pk.new = {} /\ pk.retire = {} /\ ~pk.data

AfterSend(E, p, pk, mtu) ==
    LET S == SetPath(E, WriteProbe(p, pk.pn, mtu)) IN
    IF p.addr # E.primary THEN S
    ELSE [S EXCEPT !.lost = {}, !.to_retire = <<>>,
                   !.local = @ \cup Generated(E),
                   !.next_seqno = @ + Cardinality(Generated(E))]

Output(e) ==
    \E mtu \in Mtus, data \in BOOLEAN :
        LET E == ep[e]
            p == SelectPath(E)
            pk == Written(e, E, p, sent[e] + 1, data)
        IN  /\ E.error = None /\ sent[e] < MaxSent[e]
            /\ p.state # "Failed" /\ ~Empty(pk)
            /\ ep' = [ep EXCEPT ![e] = AfterSend(E, p, pk, mtu)]
            /\ sent' = [sent EXCEPT ![e] = @ + 1]
            /\ net' = net \cup {pk}
            /\ UNCHANGED <<unacked, largest, confirmed>>

-----------------------------------------------------------------------------
(* Receiving. *)

WithResponses(E, pk) == FoldSeq(LAMBDA d, F : PathResponse(F, d), E, Reverse(pk.responses))

WithChallenge(E, pk) ==
    LET P == EnsurePermanent(E, pk.addr) IN
    IF pk.challenge = 0 THEN E
    ELSE IF P.error # None THEN P
    ELSE SetPath(P, Challenged(PathAt(P, pk.addr), pk.challenge))

WithNew(E, pk) ==
    FoldSeq(LAMBDA f, F : IF F.error # None THEN F ELSE NewConnectionId(F, f), E,
            Reverse(SetToSortSeq(pk.new, LAMBDA f, g : f.seqno < g.seqno)))

WithRetired(E, pk) ==
    FoldSet(LAMBDA s, F : IF F.error # None THEN F ELSE RetireConnectionId(F, s), E, pk.retire)

(* The server follows the newest packet that is more than a probe. *)
HandleMigration(E, a) ==
    LET P == EnsurePermanent(E, a)
        S == SelectPrimary(P, a)
    IN  IF P.error # None THEN E
        ELSE IF a = P.primary THEN P
        ELSE SetPath(S, Probe(PathAt(S, P.primary)))

Migrates(e, pk) == e = "server" /\ pk.pn > largest[e] /\ (pk.data \/ pk.retire # {})

Input(e, E, pk) ==
    LET W1 == WithChallenge(WithResponses(E, pk), pk)
        W2 == IF W1.error # None THEN W1 ELSE WithNew(W1, pk)
        W3 == IF W2.error # None THEN W2 ELSE WithRetired(W2, pk)
    IN  IF W3.error = None /\ Migrates(e, pk) THEN HandleMigration(W3, pk.addr) ELSE W3

Deliver(pk) ==
    LET e == Peer(pk.from) IN
    /\ ep[e].error = None
    /\ pk.cid \in ep[e].local
    /\ ep' = [ep EXCEPT ![e] = Input(e, @, pk), ![pk.from] = IF Spurious THEN @ ELSE Acked(@, pk)]
    /\ largest' = [largest EXCEPT ![e] = IF pk.pn > @ THEN pk.pn ELSE @]
    /\ net' = net \ {pk}
    /\ unacked' = IF Spurious THEN unacked \cup {pk} ELSE unacked
    /\ UNCHANGED <<sent, confirmed>>

Lose(pk) ==
    /\ net' = net \ {pk}
    /\ ep' = [ep EXCEPT ![pk.from] = Lost(@, pk)]
    /\ UNCHANGED <<unacked, sent, largest, confirmed>>

(* A packet that arrived is declared lost before its acknowledgment comes. *)
DeclareLost(pk) ==
    /\ unacked' = unacked \ {pk}
    /\ ep' = [ep EXCEPT ![pk.from] = Lost(@, pk)]
    /\ UNCHANGED <<net, sent, largest, confirmed>>

Acknowledge(pk) ==
    /\ unacked' = unacked \ {pk}
    /\ ep' = [ep EXCEPT ![pk.from] = Acked(@, pk)]
    /\ UNCHANGED <<net, sent, largest, confirmed>>

-----------------------------------------------------------------------------
(* Migration and timers. *)

MigratePaths(E, a, force) ==
    LET p == [PathAt(E, a) EXCEPT !.ecn = Ecn]
        forced == SelectPrimary(SetPath(E, SetValid(p)), a)
        M == IF force \/ p.validated THEN [forced EXCEPT !.target = None]
             ELSE [SetPath(E, p) EXCEPT !.target = a]
    IN  SetPath(M, Probe(PathAt(M, a)))

MigrateTo(E, a, force) ==
    LET P == EnsurePermanent(E, a) IN IF P.error # None THEN E ELSE MigratePaths(P, a, force)

Migrate ==
    \E a \in Addresses, force \in BOOLEAN :
        /\ confirmed /\ ep["client"].error = None
        /\ ep' = [ep EXCEPT !["client"] = MigrateTo(@, a, force)]
        /\ UNCHANGED <<net, unacked, sent, largest, confirmed>>

HandshakeDone ==
    /\ ~confirmed
    /\ confirmed' = TRUE
    /\ ep' = IF Preferred = None THEN ep
             ELSE [ep EXCEPT !["client"] = MigrateTo([@ EXCEPT !.store = @ \cup {1}], Preferred, FALSE)]
    /\ UNCHANGED <<net, unacked, sent, largest>>

Timeout(e) ==
    /\ ep[e].error = None
    /\ \E due \in SUBSET {ep[e].paths[i].addr : i \in {j \in DOMAIN ep[e].paths :
                              \/ ep[e].paths[j].state = "Probing"
                              \/ ep[e].paths[j].state = "Valid" /\ ep[e].paths[j].addr # ep[e].primary}} :
            /\ due # {} \/ \E i \in DOMAIN ep[e].paths : ep[e].paths[i].state = "Failed"
            /\ ep' = [ep EXCEPT ![e] = ProcessTimeout(@, due)]
    /\ UNCHANGED <<net, unacked, sent, largest, confirmed>>

Next ==
    \/ \E e \in Ends : Output(e) \/ Timeout(e)
    \/ \E pk \in net : Deliver(pk) \/ Lose(pk)
    \/ \E pk \in unacked : DeclareLost(pk) \/ Acknowledge(pk)
    \/ Migrate
    \/ HandshakeDone

Spec == Init /\ [][Next]_vars

-----------------------------------------------------------------------------
Open == \A e \in Ends : ep[e].error = None
Used(E) == ToSet(Cids(E.paths))

(* A connection ID that an endpoint holds, on a path or in reserve, is one *)
(* the other endpoint still accepts (ConnectionIdManager::connection_ids), *)
(* whatever was lost; no path shares its connection ID; and two endpoints  *)
(* of this code never break each other's limits.                           *)
CidsAreAccepted ==
    /\ Open => \A e \in Ends : ep[e].store \cup Used(ep[e]) \subseteq ep[Peer(e)].local
    /\ \A e \in Ends : /\ Cardinality(Used(ep[e])) = Len(ep[e].paths)
                       /\ Used(ep[e]) \cap ep[e].store = {}
                       /\ ep[e].error \in {None, "InvalidMigration", "NoAvailablePath"}

(* No connection ID leaks: one that is still accepted is held by the peer, *)
(* or some frame that hands it over or gives it back is queued or in       *)
(* flight.  Otherwise the issuer, which counts it against the limit,       *)
(* would be left with fewer to hand out for ever.                          *)
NoCidLeaks ==
    Open => \A e \in Ends : \A s \in ep[e].local :
        \/ s \in ep[Peer(e)].store \cup Used(ep[Peer(e)]) \cup ToSet(ep[Peer(e)].to_retire)
        \/ \E f \in ep[e].lost : f.seqno = s
        \/ \E pk \in net : \/ pk.from = e /\ \E f \in pk.new : f.seqno = s
                           \/ pk.from = Peer(e) /\ s \in pk.retire
        \/ Preferred # None /\ ~confirmed /\ e = "server" /\ s = 1

(* "This path will also be in `paths`": an endpoint that is open has its   *)
(* primary path in the first place, where eviction and the replacement of  *)
(* connection IDs do not lose it, and a migration target is a path it has  *)
(* (or had, when its probes failed) and has not yet found valid.           *)
PrimaryIsKept ==
    \A e \in Ends : ep[e].error = None =>
        /\ Len(ep[e].paths) \in 1..MAX_PATHS
        /\ ep[e].paths[1].addr = ep[e].primary
        /\ ep[e].target \notin {None, Gone} =>
              HasPath(ep[e], ep[e].target) /\ ~PathAt(ep[e], ep[e].target).validated
=============================================================================
