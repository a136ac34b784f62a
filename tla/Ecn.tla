--------------------------------- MODULE Ecn ---------------------------------
(***************************************************************************)
(* ECN validation of a path (ecn::Info in neqo-transport/src/ecn.rs) with  *)
(* the receiver's counts (recv packet number space, tracking.rs) and ACK   *)
(* frames that are lost or reordered.  The network keeps the marks of a    *)
(* path (ECT(0) may become CE), clears them, changes them to ECT(1), or    *)
(* drops what is marked.                                                   *)
(***************************************************************************)
EXTENDS Integers, FiniteSets, FiniteSetsExt, FiniteSetTheorems, TLAPS

CONSTANTS TEST_COUNT, TEST_COUNT_INITIAL_PHASE, Modes, MaxPn, MaxAcks, MaxMigrations

VARIABLES mode, info, outstanding, lost, net, received, counts, acks, made, moves, blind

vars == <<mode, info, outstanding, lost, net, received, counts, acks, made, moves, blind>>

Zero == [ect0 |-> 0, ect1 |-> 0, ce |-> 0]
None == "none"
Info(baseline) == [state |-> "NotStarted", sent |-> 0, acked |-> 0, lost |-> 0,
                   largest_acked |-> 0, baseline |-> baseline]

Init ==
    /\ mode \in Modes /\ info = Info(Zero)
    /\ outstanding = {} /\ lost = {} /\ net = {} /\ received = {}
    /\ counts = Zero /\ acks = {} /\ made = 0 /\ moves = 0 /\ blind = FALSE

-----------------------------------------------------------------------------
Start(i) ==
    IF i.state # "NotStarted" THEN i
    ELSE [i EXCEPT !.state = "Testing", !.sent = 0, !.acked = 0, !.lost = 0]

IsMarking(i) == i.state \in {"Testing", "Capable"}

OnPacketSent(i) ==
    IF i.state # "Testing" THEN i
    ELSE [i EXCEPT !.sent = @ + 1, !.state = IF i.sent + 1 >= TEST_COUNT THEN "Unknown" ELSE @]

AckedEcn(i, marked) == IF i.state = "Testing" THEN [i EXCEPT !.acked = @ + marked] ELSE i

LostEcn(i) ==
    IF i.state # "Testing" THEN i
    ELSE [i EXCEPT !.lost = @ + 1,
                   !.state = IF i.acked = 0 /\ i.lost + 1 = TEST_COUNT_INITIAL_PHASE
                             THEN "BlackHole" ELSE @]

Minus(a, b) == [m \in {"ect0", "ect1", "ce"} |-> IF a[m] > b[m] THEN a[m] - b[m] ELSE 0]

Verdict(i, marked, diff) ==
    IF diff.ect0 + diff.ce < marked THEN "Bleaching"
    ELSE IF diff.ect1 > 0 THEN "ReceivedUnsentECT1"
    ELSE "Capable"

(* Mutant of Validate: an acknowledgment with no counts is no failure. *)
ValidateLenient(i, largest, marked, ecn) ==
    IF largest <= i.largest_acked \/ i.state \notin {"Unknown", "Capable"} THEN i
    ELSE [i EXCEPT !.state = Verdict(i, marked, Minus(ecn, i.baseline)),
                   !.baseline = ecn, !.largest_acked = largest]

Validate(i, largest, marked, ecn) ==
    IF largest <= i.largest_acked \/ i.state \notin {"Unknown", "Capable"} THEN i
    ELSE IF ecn = Zero THEN [i EXCEPT !.state = "Bleaching"]
    ELSE [i EXCEPT !.state = Verdict(i, marked, Minus(ecn, i.baseline)),
                   !.baseline = ecn, !.largest_acked = largest]

-----------------------------------------------------------------------------
Confirmed ==
    /\ info.state = "NotStarted" /\ info' = Start(info)
    /\ UNCHANGED <<mode, outstanding, lost, net, received, counts, acks, made, moves, blind>>

Send ==
    LET pk == [pn |-> made + 1, marked |-> IsMarking(info)]
    IN  /\ made < MaxPn
        /\ made' = made + 1
        /\ info' = OnPacketSent(info)
        /\ outstanding' = outstanding \cup {pk}
        /\ net' = IF mode = "drops" /\ pk.marked THEN net ELSE net \cup {pk}
        /\ UNCHANGED <<mode, lost, received, counts, acks, moves, blind>>

(* How a mark arrives. *)
Arrives(pk) ==
    IF ~pk.marked \/ mode = "clears" THEN {None}
    ELSE IF mode = "changes" THEN {"ect1"} ELSE {"ect0", "ce"}

Receive(pk) ==
    /\ \E mark \in Arrives(pk) :
          counts' = IF mark = None THEN counts ELSE [counts EXCEPT ![mark] = @ + 1]
    /\ net' = net \ {pk} /\ received' = received \cup {pk.pn}
    /\ UNCHANGED <<mode, info, outstanding, lost, acks, made, moves, blind>>

(* An ACK frame carries counts if any is not zero. *)
SendAck ==
    /\ received # {} /\ Cardinality(acks) < MaxAcks
    /\ acks' = acks \cup {[pns |-> received, ecn |-> counts]}
    /\ UNCHANGED <<mode, info, outstanding, lost, net, received, counts, made, moves, blind>>

(* Packets that were declared lost are kept for a while, and are newly acknowledged too. *)
OnAck(a) ==
    LET newly == {pk \in outstanding \cup lost : pk.pn \in a.pns}
        marked == Cardinality({pk \in newly : pk.marked})
        validated == Validate(info, Max({pk.pn : pk \in newly}), marked, a.ecn)
    IN  /\ acks' = acks \ {a}
        /\ info' = IF newly = {} THEN info ELSE AckedEcn(validated, marked)
        /\ outstanding' = outstanding \ newly /\ lost' = lost \ newly
        /\ blind' = (blind \/ (a.ecn = Zero /\ info.state \in {"Unknown", "Capable"}))
        /\ UNCHANGED <<mode, net, received, counts, made, moves>>

DeclareLost(pk) ==
    /\ outstanding' = outstanding \ {pk} /\ lost' = lost \cup {pk}
    /\ info' = IF pk.marked THEN LostEcn(info) ELSE info
    /\ UNCHANGED <<mode, net, received, counts, acks, made, moves, blind>>

(* The probes of the path fail (Path::probe). *)
DisableEcn ==
    /\ IsMarking(info) /\ info' = [info EXCEPT !.state = "BlackHole"]
    /\ UNCHANGED <<mode, outstanding, lost, net, received, counts, acks, made, moves, blind>>

(* The client migrates: the new path starts from the old one's counts. *)
Migrate ==
    /\ moves < MaxMigrations /\ moves' = moves + 1
    /\ info' = Start(Info(info.baseline))
    /\ UNCHANGED <<mode, outstanding, lost, net, received, counts, acks, made, blind>>

Next ==
    \/ Confirmed \/ Send \/ SendAck \/ DisableEcn \/ Migrate
    \/ \E pk \in net : Receive(pk)
    \/ \E a \in acks : OnAck(a)
    \/ \E pk \in outstanding : DeclareLost(pk)

Spec == Init /\ [][Next]_vars

-----------------------------------------------------------------------------
(* The verdict is right: a path that keeps its marks is never found to     *)
(* clear or to change them, whichever acknowledgments and packets are      *)
(* lost, late or out of order and though the connection migrates, unless   *)
(* packets are acknowledged when no mark at all has arrived (blind); and a *)
(* path that does not keep them is not found capable                       *)
(* (Info::validate_ack_ecn_and_update) before a migration; the README says *)
(* why it may be after one.                                                *)
EcnVerdictIsRight ==
    /\ mode = "keeps" /\ ~blind => info.state \notin {"Bleaching", "ReceivedUnsentECT1"}
    /\ mode # "keeps" /\ moves = 0 => info.state # "Capable"

-----------------------------------------------------------------------------
(* Proofs, for any number of packets, acknowledgments and migrations and   *)
(* any number of packets in the test.                                      *)

ConstantsOK == Modes \subseteq {"keeps", "clears", "changes", "drops"} /\ MaxPn \in Nat

Packet == [pn : Nat, marked : BOOLEAN]
Counts == [ect0 : Nat, ect1 : Nat, ce : Nat]
AckFrame == [pns : SUBSET Nat, ecn : Counts]
HasFields(i) == {"state", "sent", "acked", "lost", "largest_acked", "baseline"} \subseteq DOMAIN i
Early == {"NotStarted", "Testing", "Unknown"}

Marks(c) == c.ect0 + c.ce

\* What the receiver would report now.
Now == [pns |-> received, ecn |-> counts]

\* The marked packets that b newly acknowledges after a.
Owed(a, b) == {pk \in outstanding \cup lost : pk.marked /\ pk.pn \in b \ a}

\* The counts of c account for the marked packets that its acknowledgment
\* adds to one with the counts of b.
Accounts(b, c, owed) == b.ect0 <= c.ect0 /\ b.ce <= c.ce /\ Marks(c) - Marks(b) >= Cardinality(owed)
Later(a, b) == a.pns \subseteq b.pns /\ Accounts(a.ecn, b.ecn, Owed(a.pns, b.pns))

Typed ==
    /\ outstanding \subseteq Packet /\ lost \subseteq Packet /\ net \subseteq Packet
    /\ IsFiniteSet(outstanding \cup lost)
    /\ made \in Nat /\ moves \in Nat /\ blind \in BOOLEAN /\ mode \in Modes
    /\ received \subseteq Nat /\ counts \in Counts /\ acks \subseteq AckFrame
    /\ HasFields(info) /\ info.baseline \in Counts

\* Packet numbers are used once, and a packet arrives once.
Numbered ==
    /\ \A pk \in outstanding \cup lost \cup net : pk.pn <= made
    /\ \A n \in received : n <= made
    /\ \A a \in acks : \A n \in a.pns : n <= made
    /\ \A p, q \in outstanding \cup lost \cup net : p.pn = q.pn => p = q

\* The acknowledgments under way are a chain, and each accounts for what it
\* adds to the one before and to the one that was validated last.
Chained ==
    /\ \A a, b \in acks : Later(a, b) \/ Later(b, a)
    /\ \A a \in acks : Later(a, Now)
    /\ Accounts(info.baseline, counts, Owed({}, received))
    /\ \A a \in acks : Owed({}, a.pns) = {} \/ Accounts(info.baseline, a.ecn, Owed({}, a.pns))
    /\ counts.ect1 = 0 /\ \A a \in acks : a.ecn.ect1 = 0

\* What arrives on a path that does not keep its marks.
Marred ==
    /\ mode \in {"clears", "drops"} => counts = Zero /\ \A a \in acks : a.ecn = Zero
    /\ mode = "drops" => \A pk \in net : ~pk.marked
    /\ mode = "changes" => Marks(counts) = 0 /\ \A a \in acks : Marks(a.ecn) = 0

Verdicts ==
    /\ mode = "keeps" /\ ~blind => info.state \notin {"Bleaching", "ReceivedUnsentECT1"}
    /\ mode # "keeps" /\ moves = 0 => info.state # "Capable" /\ (info.state \in Early => info.baseline = Zero)

IInv == Typed /\ Numbered /\ (mode = "keeps" => Chained) /\ Marred /\ Verdicts

-----------------------------------------------------------------------------
LEMMA OwedFinite ==
    ASSUME Typed, NEW a, NEW b
    PROVE  IsFiniteSet(Owed(a, b)) /\ Cardinality(Owed(a, b)) \in Nat
<1>1. Owed(a, b) \in SUBSET (outstanding \cup lost)
  BY DEF Owed
<1> QED
  BY <1>1, FS_Subset, FS_CardinalityType DEF Typed

LEMMA OwedLess ==
    ASSUME NEW S, NEW T, IsFiniteSet(S), T \subseteq S
    PROVE  IsFiniteSet(T) /\ Cardinality(T) \in Nat /\ Cardinality(S) \in Nat /\ Cardinality(T) <= Cardinality(S)
BY FS_Subset, FS_CardinalityType

LEMMA AccountsLess ==
    ASSUME NEW b \in Counts, NEW c \in Counts, NEW S, NEW T, IsFiniteSet(S), T \subseteq S, Accounts(b, c, S)
    PROVE  Accounts(b, c, T)
<1>1. Cardinality(T) \in Nat /\ Cardinality(S) \in Nat /\ Cardinality(T) <= Cardinality(S)
  BY OwedLess
<1>2. b.ect0 \in Nat /\ b.ce \in Nat /\ c.ect0 \in Nat /\ c.ce \in Nat
  BY DEF Counts
<1> QED
  BY <1>1, <1>2 DEF Accounts, Marks

\* One more mark, and at most one more marked packet.
LEMMA AccountsMore ==
    ASSUME NEW b \in Counts, NEW c \in Counts, NEW d \in Counts, NEW S, NEW T, NEW x, IsFiniteSet(S),
           T \subseteq S \cup {x}, Accounts(b, c, S),
           \/ d.ect0 = c.ect0 + 1 /\ d.ce = c.ce
           \/ d.ce = c.ce + 1 /\ d.ect0 = c.ect0
    PROVE  Accounts(b, d, T)
<1>1. IsFiniteSet(S \cup {x}) /\ Cardinality(S \cup {x}) = IF x \in S THEN Cardinality(S) ELSE Cardinality(S) + 1
  BY FS_AddElement
<1>2. Cardinality(S) \in Nat
  BY FS_CardinalityType
<1>3. Cardinality(T) \in Nat /\ Cardinality(T) <= Cardinality(S) + 1
  BY <1>1, <1>2, OwedLess
<1>4. b.ect0 \in Nat /\ b.ce \in Nat /\ c.ect0 \in Nat /\ c.ce \in Nat
  BY DEF Counts
<1> QED
  BY <1>2, <1>3, <1>4 DEF Accounts, Marks

-----------------------------------------------------------------------------
\* A step of ecn::Info that validates nothing.
Quiet(i, o) ==
    /\ HasFields(o) /\ o.baseline = i.baseline
    /\ \/ o.state = i.state
       \/ i.state \in Early /\ o.state \in {"Testing", "Unknown"}
       \/ o.state = "BlackHole"

LEMMA QuietSteps ==
    ASSUME NEW i, HasFields(i)
    PROVE  /\ Quiet(i, Start(i)) /\ Quiet(i, OnPacketSent(i)) /\ Quiet(i, LostEcn(i))
           /\ Quiet(i, [i EXCEPT !.state = "BlackHole"])
           /\ \A n : Quiet(i, AckedEcn(i, n)) /\ AckedEcn(i, n).state = i.state
<1>1. Quiet(i, Start(i))
  BY DEF Quiet, HasFields, Early, Start
<1>2. Quiet(i, OnPacketSent(i))
  BY DEF Quiet, HasFields, Early, OnPacketSent
<1>3. Quiet(i, LostEcn(i))
  BY DEF Quiet, HasFields, Early, LostEcn
<1>4. Quiet(i, [i EXCEPT !.state = "BlackHole"])
  BY DEF Quiet, HasFields, Early
<1>5. \A n : Quiet(i, AckedEcn(i, n)) /\ AckedEcn(i, n).state = i.state
  BY DEF Quiet, HasFields, Early, AckedEcn
<1> QED
  BY <1>1, <1>2, <1>3, <1>4, <1>5

LEMMA QuietKeeps ==
    ASSUME IInv, NEW o, Quiet(info, o), info' = o, UNCHANGED <<mode, blind>>, moves' = moves
    PROVE  Verdicts' /\ HasFields(info') /\ info'.baseline = info.baseline
BY DEF IInv, Verdicts, Quiet, Early

LEMMA ValidateCases ==
    ASSUME NEW i, HasFields(i), NEW largest, NEW marked, NEW ecn, NEW o, o = Validate(i, largest, marked, ecn)
    PROVE  /\ HasFields(o)
           /\ \/ o = i
              \/ ecn = Zero /\ i.state \in {"Unknown", "Capable"} /\ o.state = "Bleaching" /\ o.baseline = i.baseline
              \/ /\ ecn # Zero /\ i.state \in {"Unknown", "Capable"}
                 /\ o.state = Verdict(i, marked, Minus(ecn, i.baseline)) /\ o.baseline = ecn
BY DEF Validate, HasFields

-----------------------------------------------------------------------------
\* A step after which no more marked packets are owed keeps the accounts.
LEMMA ChainKept ==
    ASSUME IInv, Chained, acks' \subseteq acks, UNCHANGED <<received, counts>>, info'.baseline = info.baseline,
           \A a : Owed(a, received)' \subseteq Owed(a, received),
           \A a : \A b \in acks : Owed(a, b.pns)' \subseteq Owed(a, b.pns)
    PROVE  Chained'
<1>0. Typed
  BY DEF IInv
<1>1. \A a \in acks : a.ecn \in Counts
  BY <1>0 DEF Typed, AckFrame
<1>2. counts \in Counts /\ info.baseline \in Counts
  BY <1>0 DEF Typed
<1>3. \A a, b \in acks : Later(a, b) => Later(a, b)'
  <2> SUFFICES ASSUME NEW a \in acks, NEW b \in acks, Later(a, b) PROVE Later(a, b)'
    OBVIOUS
  <2>1. Accounts(a.ecn, b.ecn, Owed(a.pns, b.pns)')
    BY <1>0, <1>1, OwedFinite, AccountsLess DEF Later
  <2> QED
    BY <2>1 DEF Later, Accounts, Marks
<1>4. \A a \in acks : Later(a, Now)'
  <2> SUFFICES ASSUME NEW a \in acks PROVE Later(a, Now)'
    OBVIOUS
  <2>1. a.pns \subseteq received /\ Accounts(a.ecn, counts, Owed(a.pns, received))
    BY DEF Chained, Later, Now
  <2>2. Accounts(a.ecn, counts, Owed(a.pns, received)')
    BY <1>0, <1>1, <1>2, <2>1, OwedFinite, AccountsLess
  <2> QED
    BY <2>1, <2>2 DEF Later, Accounts, Marks, Now
<1>5. Accounts(info.baseline, counts, Owed({}, received)')
  BY <1>0, <1>2, OwedFinite, AccountsLess DEF Chained
<1>6. \A a \in acks : Owed({}, a.pns)' = {} \/ Accounts(info.baseline, a.ecn, Owed({}, a.pns)')
  <2> SUFFICES ASSUME NEW a \in acks PROVE Owed({}, a.pns)' = {} \/ Accounts(info.baseline, a.ecn, Owed({}, a.pns)')
    OBVIOUS
  <2>1. Owed({}, a.pns)' \subseteq Owed({}, a.pns)
    OBVIOUS
  <2>2. Owed({}, a.pns) = {} \/ Accounts(info.baseline, a.ecn, Owed({}, a.pns))
    BY DEF Chained
  <2> QED
    BY <1>0, <1>1, <1>2, <2>1, <2>2, OwedFinite, AccountsLess
<1>7. \A a, b \in acks' : Later(a, b)' \/ Later(b, a)'
  BY <1>3 DEF Chained
<1>8. \A a \in acks' : Later(a, Now)'
  BY <1>4
<1>9. Accounts(info.baseline, counts, Owed({}, received))'
  BY <1>5 DEF Accounts, Marks
<1>10. \A a \in acks' : Owed({}, a.pns)' = {} \/ Accounts(info'.baseline, a.ecn, Owed({}, a.pns)')
  BY <1>6
<1>11. counts'.ect1 = 0 /\ \A a \in acks' : a.ecn.ect1 = 0
  BY DEF Chained
<1> QED
  BY <1>7, <1>8, <1>9, <1>10, <1>11 DEF Chained

LEMMA InitInv ==
    ASSUME ConstantsOK, Init
    PROVE  IInv
<1>1. Zero \in Counts /\ Zero.ect0 = 0 /\ Zero.ect1 = 0 /\ Zero.ce = 0
  BY DEF Zero, Counts
<1>2. HasFields(info) /\ info.baseline = Zero /\ info.state = "NotStarted"
  BY DEF Init, Info, HasFields
<1>3. Typed
  BY <1>1, <1>2, FS_EmptySet DEF Init, Typed
<1>4. Owed({}, received) = {}
  BY DEF Init, Owed
<1>5. Chained
  BY <1>1, <1>2, <1>4, FS_EmptySet DEF Init, Chained, Accounts, Marks
<1> QED
  BY <1>1, <1>2, <1>3, <1>5 DEF Init, IInv, Numbered, Marred, Verdicts, Marks

-----------------------------------------------------------------------------
\* Steps that only touch the state of the path.
LEMMA InfoInv ==
    ASSUME IInv, NEW o, Quiet(info, o) \/ (HasFields(o) /\ o.state = "Testing" /\ o.baseline = info.baseline /\ moves' = moves + 1),
           info' = o, moves' = moves \/ moves' = moves + 1,
           (moves' = moves) => Quiet(info, o),
           UNCHANGED <<mode, outstanding, lost, net, received, counts, acks, made, blind>>
    PROVE  IInv'
<1>1. HasFields(info') /\ info'.baseline = info.baseline
  BY DEF Quiet
<1>2. Typed'
  BY <1>1 DEF IInv, Typed
<1>3. mode = "keeps" => Chained'
  <2> HAVE mode = "keeps"
  <2>1. \A a, b : Owed(a, b)' = Owed(a, b)
    BY DEF Owed
  <2> QED
    BY <1>1, <2>1, ChainKept DEF IInv
<1>4. Verdicts'
  <2>0. moves \in Nat
    BY DEF IInv, Typed
  <2>1. CASE moves' = moves
    BY <2>1, QuietKeeps
  <2>2. CASE moves' = moves + 1
    <3>1. moves' # 0
      BY <2>0, <2>2
    <3> QED
      BY <2>0, <2>2, <3>1 DEF IInv, Verdicts, Quiet, Early
  <2> QED
    BY <2>1, <2>2
<1> QED
  BY <1>2, <1>3, <1>4 DEF IInv, Numbered, Marred

LEMMA SendInv ==
    ASSUME IInv, Send
    PROVE  IInv'
<1> DEFINE pk == [pn |-> made + 1, marked |-> IsMarking(info)]
<1>1. /\ info' = OnPacketSent(info) /\ outstanding' = outstanding \cup {pk} /\ made' = made + 1
      /\ net' = (IF mode = "drops" /\ pk.marked THEN net ELSE net \cup {pk})
      /\ UNCHANGED <<mode, lost, received, counts, acks, moves, blind>>
  BY DEF Send
<1>2. pk \in Packet /\ pk.pn = made + 1 /\ pk.marked \in BOOLEAN
  BY DEF IInv, Typed, Packet, IsMarking
<1> HIDE DEF pk
<1>3. Quiet(info, info')
  BY <1>1, QuietSteps DEF IInv, Typed
<1>4. Verdicts' /\ HasFields(info') /\ info'.baseline = info.baseline
  BY <1>1, <1>3, QuietKeeps
<1>5. IsFiniteSet(outstanding' \cup lost')
  <2>1. outstanding' \cup lost' = (outstanding \cup lost) \cup {pk}
    BY <1>1
  <2> QED
    BY <2>1, FS_AddElement DEF IInv, Typed
<1>6. Typed'
  BY <1>1, <1>2, <1>4, <1>5 DEF IInv, Typed
<1>7. Numbered'
  <2> DEFINE all == outstanding \cup lost \cup net
  <2>1. all' \subseteq all \cup {pk}
    BY <1>1
  <2>2. \A p \in all : p.pn \in Nat /\ p.pn <= made
    BY DEF IInv, Typed, Numbered, Packet
  <2>3. \A p, q \in all : p.pn = q.pn => p = q
    BY DEF IInv, Numbered
  <2>4. made \in Nat
    BY DEF IInv, Typed
  <2> HIDE DEF all
  <2>5. \A p \in all' : p.pn <= made'
    BY <1>1, <1>2, <2>1, <2>2, <2>4
  <2>6. \A p, q \in all' : p.pn = q.pn => p = q
    BY <1>2, <2>1, <2>2, <2>3, <2>4
  <2>7. \A n \in received' : n <= made'
    BY <1>1, <2>4 DEF IInv, Typed, Numbered
  <2>8. \A a \in acks' : \A n \in a.pns : n <= made'
    BY <1>1, <2>4 DEF IInv, Typed, Numbered, AckFrame
  <2> QED
    BY <2>5, <2>6, <2>7, <2>8 DEF Numbered, all
<1>8. Marred'
  BY <1>1, <1>2 DEF IInv, Typed, Marred
<1>9. mode = "keeps" => Chained'
  <2> HAVE mode = "keeps"
  <2>1. made + 1 \notin received /\ \A b \in acks : made + 1 \notin b.pns
    BY DEF IInv, Typed, Numbered
  <2>2. \A a : Owed(a, received)' \subseteq Owed(a, received)
    BY <1>1, <1>2, <2>1 DEF Owed
  <2>3. \A a : \A b \in acks : Owed(a, b.pns)' \subseteq Owed(a, b.pns)
    BY <1>1, <1>2, <2>1 DEF Owed
  <2> QED
    BY <1>1, <1>4, <2>2, <2>3, ChainKept DEF IInv
<1> QED
  BY <1>1, <1>4, <1>6, <1>7, <1>8, <1>9 DEF IInv

LEMMA DeclareLostInv ==
    ASSUME IInv, NEW pk \in outstanding, DeclareLost(pk)
    PROVE  IInv'
<1>1. /\ outstanding' = outstanding \ {pk} /\ lost' = lost \cup {pk}
      /\ info' = (IF pk.marked THEN LostEcn(info) ELSE info)
      /\ UNCHANGED <<mode, net, received, counts, acks, made, moves, blind>>
  BY DEF DeclareLost
<1>2. outstanding' \cup lost' = outstanding \cup lost
  BY <1>1
<1>3. Quiet(info, info')
  BY <1>1, QuietSteps DEF IInv, Typed, Quiet
<1>4. Verdicts' /\ HasFields(info') /\ info'.baseline = info.baseline
  BY <1>1, <1>3, QuietKeeps
<1>5. Typed'
  BY <1>1, <1>2, <1>4 DEF IInv, Typed
<1>6. \A a, b : Owed(a, b)' = Owed(a, b)
  BY <1>2 DEF Owed
<1>7. mode = "keeps" => Chained'
  BY <1>1, <1>4, <1>6, ChainKept DEF IInv
<1>8. Numbered' /\ Marred'
  BY <1>1, <1>2 DEF IInv, Numbered, Marred
<1> QED
  BY <1>1, <1>4, <1>5, <1>7, <1>8 DEF IInv

LEMMA SendAckInv ==
    ASSUME IInv, SendAck
    PROVE  IInv'
<1>1. acks' = acks \cup {Now} /\ UNCHANGED <<mode, info, outstanding, lost, net, received, counts, made, moves, blind>>
  BY DEF SendAck, Now
<1>2. Now \in AckFrame /\ Now.pns = received /\ Now.ecn = counts
  BY DEF IInv, Typed, AckFrame, Now
<1>3. Typed' /\ Numbered' /\ Marred' /\ Verdicts'
  BY <1>1, <1>2 DEF IInv, Typed, Numbered, Marred, Verdicts, HasFields
<1>4. mode = "keeps" => Chained'
  <2> HAVE mode = "keeps"
  <2>0. Chained /\ Typed
    BY DEF IInv
  <2>1. \A a, b : Owed(a, b)' = Owed(a, b) /\ Later(a, b)' = Later(a, b)
    BY <1>1 DEF Owed, Later
  <2>2. Now' = Now
    BY <1>1 DEF Now
  <2>3. Later(Now, Now)
    <3>1. Owed(received, received) = {}
      BY DEF Owed
    <3> QED
      BY <1>2, <2>0, <3>1, FS_EmptySet DEF Later, Accounts, Marks, Typed, Counts
  <2>4. \A a, b \in acks' : Later(a, b) \/ Later(b, a)
    BY <1>1, <2>0, <2>3 DEF Chained
  <2>5. \A a \in acks' : Later(a, Now)
    BY <1>1, <2>0, <2>3 DEF Chained
  <2>6. Accounts(info.baseline, counts, Owed({}, received))'
    BY <1>1, <2>0, <2>1 DEF Chained, Accounts
  <2>7. \A a \in acks' : Owed({}, a.pns) = {} \/ Accounts(info.baseline, a.ecn, Owed({}, a.pns))
    BY <1>1, <1>2, <2>0 DEF Chained
  <2>8. \A a \in acks' : (Owed({}, a.pns) = {} \/ Accounts(info.baseline, a.ecn, Owed({}, a.pns)))'
    BY <1>1, <2>1, <2>7 DEF Accounts
  <2>9. counts'.ect1 = 0 /\ \A a \in acks' : a.ecn.ect1 = 0
    BY <1>1, <1>2, <2>0 DEF Chained
  <2> QED
    BY <2>1, <2>2, <2>4, <2>5, <2>6, <2>8, <2>9 DEF Chained
<1> QED
  BY <1>1, <1>3, <1>4 DEF IInv

LEMMA ReceiveInv ==
    ASSUME ConstantsOK, IInv, NEW pk \in net, Receive(pk)
    PROVE  IInv'
<1>1. /\ net' = net \ {pk} /\ received' = received \cup {pk.pn}
      /\ UNCHANGED <<mode, info, outstanding, lost, acks, made, moves, blind>>
  BY DEF Receive
<1>2. PICK mark \in Arrives(pk) : counts' = IF mark = None THEN counts ELSE [counts EXCEPT ![mark] = @ + 1]
  BY DEF Receive
<1>3. pk \in Packet /\ pk.pn \in Nat /\ pk.pn <= made
  BY DEF IInv, Typed, Numbered, Packet
<1>4. mark \in {None, "ect0", "ect1", "ce"} /\ mode \in {"keeps", "clears", "changes", "drops"}
  BY DEF Arrives, ConstantsOK, IInv, Typed
<1>5. counts \in Counts /\ counts.ect0 \in Nat /\ counts.ce \in Nat /\ counts.ect1 \in Nat
  BY DEF IInv, Typed, Counts
<1>6. counts' \in Counts
  BY <1>2, <1>4, <1>5 DEF Counts, None
<1>7. Typed'
  BY <1>1, <1>3, <1>6 DEF IInv, Typed, HasFields
<1>8. Numbered'
  <2>1. \A p \in outstanding' \cup lost' \cup net' : p.pn <= made'
    BY <1>1 DEF IInv, Numbered
  <2>2. \A n \in received' : n <= made'
    BY <1>1, <1>3 DEF IInv, Numbered
  <2>3. \A p, q \in outstanding' \cup lost' \cup net' : p.pn = q.pn => p = q
    BY <1>1 DEF IInv, Numbered
  <2> QED
    BY <1>1, <2>1, <2>2, <2>3 DEF IInv, Numbered
<1>9. Marred'
  <2>1. CASE mode = "keeps"
    BY <1>1, <2>1 DEF Marred
  <2>2. CASE mode \in {"clears", "drops"}
    <3>1. mark = None
      BY <2>2 DEF Arrives, Marred, IInv, None
    <3> QED
      BY <1>1, <1>2, <2>2, <3>1 DEF IInv, Marred
  <2>3. CASE mode = "changes"
    <3>1. mark = None \/ mark = "ect1"
      BY <2>3 DEF Arrives, None
    <3>2. counts'.ect0 = counts.ect0 /\ counts'.ce = counts.ce
      BY <1>2, <1>5, <3>1 DEF None, Counts
    <3> QED
      BY <1>1, <2>3, <3>2 DEF IInv, Marred, Marks
  <2> QED
    BY <1>4, <2>1, <2>2, <2>3
<1>10. Verdicts'
  BY <1>1 DEF IInv, Verdicts
<1>11. mode = "keeps" => Chained'
  <2> HAVE mode = "keeps"
  <2>0. Chained /\ Typed
    BY DEF IInv
  <2>1. \A a, b : Owed(a, b)' = Owed(a, b)
    BY <1>1 DEF Owed
  <2>2. \A a : Owed(a, received \cup {pk.pn}) \subseteq (IF pk.marked THEN Owed(a, received) \cup {pk} ELSE Owed(a, received))
    <3> SUFFICES ASSUME NEW a, NEW q \in outstanding \cup lost, q.marked, q.pn \in received \cup {pk.pn}, q.pn \notin a
                 PROVE  q \in Owed(a, received) \/ (q = pk /\ pk.marked)
      BY DEF Owed
    <3>1. q.pn = pk.pn => q = pk
      BY DEF IInv, Numbered
    <3> QED
      BY <3>1 DEF Owed
  <2>3. counts'.ect1 = 0
    BY <1>2, <1>4, <1>5, <2>0 DEF Arrives, Chained, Counts, None
  <2>4. \A a : \A b \in Counts : Accounts(b, counts, Owed(a, received)) => Accounts(b, counts', Owed(a, received \cup {pk.pn}))
    <3> SUFFICES ASSUME NEW a, NEW b \in Counts, Accounts(b, counts, Owed(a, received))
                 PROVE  Accounts(b, counts', Owed(a, received \cup {pk.pn}))
      OBVIOUS
    <3>0. IsFiniteSet(Owed(a, received))
      BY <2>0, OwedFinite
    <3>1. CASE pk.marked
      <4>1. mark \in {"ect0", "ce"}
        BY <3>1 DEF Arrives
      <4>2. \/ counts'.ect0 = counts.ect0 + 1 /\ counts'.ce = counts.ce
            \/ counts'.ce = counts.ce + 1 /\ counts'.ect0 = counts.ect0
        BY <1>2, <1>5, <4>1 DEF None, Counts
      <4>3. Owed(a, received \cup {pk.pn}) \subseteq Owed(a, received) \cup {pk}
        BY <2>2, <3>1
      <4> DEFINE S == Owed(a, received)
                 T == Owed(a, received \cup {pk.pn})
                 d == counts'
      <4>4. /\ counts \in Counts /\ d \in Counts /\ IsFiniteSet(S) /\ T \subseteq S \cup {pk} /\ Accounts(b, counts, S)
            /\ \/ d.ect0 = counts.ect0 + 1 /\ d.ce = counts.ce
               \/ d.ce = counts.ce + 1 /\ d.ect0 = counts.ect0
        BY <1>5, <1>6, <3>0, <4>2, <4>3
      <4> HIDE DEF S, T, d
      <4>5. Accounts(b, d, T)
        BY <4>4, AccountsMore
      <4> QED
        BY <4>5 DEF T, d
    <3>2. CASE ~pk.marked
      <4>1. counts' = counts
        BY <1>2, <3>2 DEF Arrives, None
      <4>2. Owed(a, received \cup {pk.pn}) \subseteq Owed(a, received)
        BY <2>2, <3>2
      <4> QED
        BY <1>5, <3>0, <4>1, <4>2, AccountsLess
    <3> QED
      BY <3>1, <3>2
  <2>5. \A a \in acks : a.ecn \in Counts
    BY <2>0 DEF Typed, AckFrame
  <2>6. \A a, b \in acks' : Later(a, b)' \/ Later(b, a)'
    BY <1>1, <2>0, <2>1 DEF Chained, Later
  <2>7. \A a \in acks' : Later(a, Now)'
    <3> SUFFICES ASSUME NEW a \in acks PROVE Later(a, Now)'
      BY <1>1
    <3>1. a.pns \subseteq received /\ Accounts(a.ecn, counts, Owed(a.pns, received))
      BY <2>0 DEF Chained, Later, Now
    <3>2. Accounts(a.ecn, counts', Owed(a.pns, received'))
      BY <1>1, <2>4, <2>5, <3>1
    <3>3. Owed(a.pns, received)' = Owed(a.pns, received')
      BY <1>1 DEF Owed
    <3>4. Accounts(a.ecn, counts', Owed(a.pns, received)')
      BY <3>2, <3>3
    <3> QED
      BY <1>1, <3>1, <3>4 DEF Later, Now, Accounts, Marks
  <2>8. Accounts(info.baseline, counts, Owed({}, received))'
    <3>1. Accounts(info.baseline, counts', Owed({}, received'))
      BY <1>1, <2>0, <2>4 DEF Chained, Typed
    <3>2. Owed({}, received)' = Owed({}, received')
      BY <1>1 DEF Owed
    <3>3. Accounts(info.baseline, counts', Owed({}, received)')
      BY <3>1, <3>2
    <3> QED
      BY <1>1, <3>3 DEF Accounts, Marks
  <2>9. \A a \in acks' : Owed({}, a.pns)' = {} \/ Accounts(info'.baseline, a.ecn, Owed({}, a.pns)')
    BY <1>1, <2>0, <2>1 DEF Chained
  <2>10. \A a \in acks' : a.ecn.ect1 = 0
    BY <1>1, <2>0 DEF Chained
  <2> QED
    BY <2>3, <2>6, <2>7, <2>8, <2>9, <2>10 DEF Chained
<1> QED
  BY <1>1, <1>7, <1>8, <1>9, <1>10, <1>11 DEF IInv

-----------------------------------------------------------------------------
\* The verdict on a path that keeps its marks, and on one that does not.
LEMMA VerdictKeeps ==
    ASSUME NEW i, NEW b \in Counts, NEW c \in Counts, NEW n \in Nat, c.ect1 = 0,
           n = 0 \/ (b.ect0 <= c.ect0 /\ b.ce <= c.ce /\ Marks(c) - Marks(b) >= n)
    PROVE  Verdict(i, n, Minus(c, b)) = "Capable"
<1> DEFINE d == Minus(c, b)
<1>1. b.ect0 \in Nat /\ b.ce \in Nat /\ c.ect0 \in Nat /\ c.ce \in Nat /\ b.ect1 \in Nat
  BY DEF Counts
<1>2. /\ d.ect0 = IF c.ect0 > b.ect0 THEN c.ect0 - b.ect0 ELSE 0
      /\ d.ce = IF c.ce > b.ce THEN c.ce - b.ce ELSE 0
      /\ d.ect1 = IF c.ect1 > b.ect1 THEN c.ect1 - b.ect1 ELSE 0
  BY DEF Minus
<1> HIDE DEF d
<1>3. d.ect0 \in Nat /\ d.ce \in Nat /\ d.ect1 = 0 /\ d.ect0 + d.ce >= n
  BY <1>1, <1>2 DEF Marks
<1>4. Verdict(i, n, d) = "Capable"
  BY <1>3 DEF Verdict
<1> QED
  BY <1>4 DEF d

LEMMA VerdictChanges ==
    ASSUME NEW i, NEW c \in Counts, NEW n \in Nat, c # Zero, Marks(c) = 0
    PROVE  Verdict(i, n, Minus(c, Zero)) \in {"Bleaching", "ReceivedUnsentECT1"}
<1> DEFINE d == Minus(c, Zero)
<1>1. c.ect0 \in Nat /\ c.ce \in Nat /\ c.ect1 \in Nat
  BY DEF Counts
<1>2. c.ect0 = 0 /\ c.ce = 0
  BY <1>1 DEF Marks
<1>3. c.ect1 > 0
  BY <1>1, <1>2 DEF Counts, Zero
<1>4. d.ect0 = 0 /\ d.ce = 0 /\ d.ect1 > 0
  BY <1>1, <1>2, <1>3 DEF Minus, Zero
<1> HIDE DEF d
<1>5. Verdict(i, n, d) \in {"Bleaching", "ReceivedUnsentECT1"}
  BY <1>4 DEF Verdict
<1> QED
  BY <1>5 DEF d

LEMMA OnAckInv ==
    ASSUME ConstantsOK, IInv, NEW a \in acks, OnAck(a)
    PROVE  IInv'
<1> DEFINE newly == {pk \in outstanding \cup lost : pk.pn \in a.pns}
           marked == Cardinality({pk \in newly : pk.marked})
           validated == Validate(info, Max({pk.pn : pk \in newly}), marked, a.ecn)
<1>1. /\ acks' = acks \ {a} /\ info' = (IF newly = {} THEN info ELSE AckedEcn(validated, marked))
      /\ outstanding' = outstanding \ newly /\ lost' = lost \ newly
      /\ blind' = (blind \/ (a.ecn = Zero /\ info.state \in {"Unknown", "Capable"}))
      /\ UNCHANGED <<mode, net, received, counts, made, moves>>
  BY DEF OnAck
<1>2. Typed /\ HasFields(info) /\ a.ecn \in Counts /\ info.baseline \in Counts /\ a.pns \in SUBSET Nat /\ counts \in Counts
  BY DEF IInv, Typed, AckFrame
<1>3. {pk \in newly : pk.marked} = Owed({}, a.pns)
  BY DEF Owed
<1>4. marked \in Nat /\ marked = Cardinality(Owed({}, a.pns)) /\ IsFiniteSet(Owed({}, a.pns))
  BY <1>2, <1>3, OwedFinite
<1>5. /\ HasFields(info')
      /\ \/ info'.state = info.state /\ info'.baseline = info.baseline
         \/ /\ a.ecn = Zero /\ info.state \in {"Unknown", "Capable"}
            /\ info'.state = "Bleaching" /\ info'.baseline = info.baseline
         \/ /\ a.ecn # Zero /\ info.state \in {"Unknown", "Capable"}
            /\ info'.state = Verdict(info, marked, Minus(a.ecn, info.baseline)) /\ info'.baseline = a.ecn
  <2>1. CASE newly = {}
    BY <1>1, <1>2, <2>1
  <2>2. CASE newly # {}
    <3> DEFINE largest == Max({pk.pn : pk \in newly})
    <3>0. validated = Validate(info, largest, marked, a.ecn)
      OBVIOUS
    <3> HIDE DEF newly, marked, validated, largest
    <3>1. /\ HasFields(validated)
          /\ \/ validated = info
             \/ /\ a.ecn = Zero /\ info.state \in {"Unknown", "Capable"}
                /\ validated.state = "Bleaching" /\ validated.baseline = info.baseline
             \/ /\ a.ecn # Zero /\ info.state \in {"Unknown", "Capable"}
                /\ validated.state = Verdict(info, marked, Minus(a.ecn, info.baseline)) /\ validated.baseline = a.ecn
      BY <1>2, <3>0, ValidateCases
    <3>2. Quiet(validated, AckedEcn(validated, marked)) /\ AckedEcn(validated, marked).state = validated.state
      BY <3>1, QuietSteps, Zenon
    <3> QED
      BY <1>1, <2>2, <3>1, <3>2 DEF Quiet
  <2> QED
    BY <2>1, <2>2
<1>6. outstanding' \cup lost' = (outstanding \cup lost) \ newly
  BY <1>1
<1>7. Typed'
  <2>1. IsFiniteSet(outstanding' \cup lost')
    BY <1>2, <1>6, FS_Subset DEF Typed
  <2>2. blind' \in BOOLEAN
    BY <1>1, <1>2 DEF Typed
  <2> HIDE DEF newly
  <2> QED
    BY <1>1, <1>2, <1>5, <2>1, <2>2 DEF Typed
<1>8. Numbered' /\ Marred'
  <2> HIDE DEF newly
  <2>1. Numbered'
    BY <1>1 DEF IInv, Numbered
  <2>2. Marred'
    BY <1>1 DEF IInv, Marred
  <2> QED
    BY <2>1, <2>2
<1>9. Verdicts'
  <2>1. ASSUME mode = "keeps", ~blind' PROVE info'.state \notin {"Bleaching", "ReceivedUnsentECT1"}
    <3>0. ~blind /\ ~(a.ecn = Zero /\ info.state \in {"Unknown", "Capable"})
      BY <1>1, <2>1
    <3>1. a.ecn.ect1 = 0 /\ (Owed({}, a.pns) = {} \/ Accounts(info.baseline, a.ecn, Owed({}, a.pns)))
      BY <2>1 DEF IInv, Chained
    <3>2. marked = 0 \/ Accounts(info.baseline, a.ecn, Owed({}, a.pns))
      BY <1>4, <3>1, FS_EmptySet
    <3> HIDE DEF marked
    <3>3. Verdict(info, marked, Minus(a.ecn, info.baseline)) = "Capable"
      BY <1>2, <1>4, <3>1, <3>2, VerdictKeeps DEF Accounts
    <3> QED
      BY <1>5, <2>1, <3>0, <3>3 DEF IInv, Verdicts
  <2>2. ASSUME mode # "keeps", moves = 0
        PROVE  info'.state # "Capable" /\ (info'.state \in Early => info'.baseline = Zero)
    <3>1. info.state # "Capable" /\ (info.state \in Early => info.baseline = Zero)
      BY <2>2 DEF IInv, Verdicts
    <3>2. ASSUME a.ecn # Zero, info.state = "Unknown"
          PROVE  Verdict(info, marked, Minus(a.ecn, info.baseline)) \in {"Bleaching", "ReceivedUnsentECT1"}
      <4>1. Marks(a.ecn) = 0
        BY <2>2, <3>2 DEF IInv, Typed, Marred, ConstantsOK
      <4>2. info.baseline = Zero
        BY <3>1, <3>2 DEF Early
      <4> HIDE DEF marked
      <4> QED
        BY <1>2, <1>4, <3>2, <4>1, <4>2, VerdictChanges
    <3> HIDE DEF marked
    <3> QED
      BY <1>5, <3>1, <3>2 DEF Early
  <2> QED
    BY <1>1, <2>1, <2>2 DEF Verdicts
<1>10. mode = "keeps" => Chained'
  <2> HAVE mode = "keeps"
  <2>0. Chained
    BY DEF IInv
  <2>1. \A x, y : Owed(x, y)' = Owed(x, y) \ newly
    BY <1>6 DEF Owed
  <2>2. CASE info'.baseline = info.baseline
    <3> HIDE DEF newly
    <3> QED
      BY <1>1, <2>0, <2>1, <2>2, ChainKept
  <2>3. CASE info'.baseline = a.ecn
    <3>1. \A x, y : Owed(x, y)' \subseteq Owed(x, y)
      BY <2>1
    <3>2. \A y : Owed({}, y)' = Owed(a.pns, y)'
      BY <1>6 DEF Owed
    <3>3. \A s \in SUBSET a.pns : Owed({}, s)' = {}
      BY <1>6 DEF Owed
    <3> HIDE DEF newly
    <3>4. \A x, y \in acks : Later(x, y) => Later(x, y)'
      <4> SUFFICES ASSUME NEW x \in acks, NEW y \in acks, Later(x, y) PROVE Later(x, y)'
        OBVIOUS
      <4>1. x.ecn \in Counts /\ y.ecn \in Counts
        BY <1>2 DEF Typed, AckFrame
      <4>2. Accounts(x.ecn, y.ecn, Owed(x.pns, y.pns)')
        BY <1>2, <3>1, <4>1, OwedFinite, AccountsLess DEF Later
      <4> QED
        BY <4>2 DEF Later, Accounts, Marks
    <3>5. \A x \in acks : x.pns \subseteq received /\ Accounts(x.ecn, counts, Owed(x.pns, received)')
      <4> SUFFICES ASSUME NEW x \in acks PROVE x.pns \subseteq received /\ Accounts(x.ecn, counts, Owed(x.pns, received)')
        OBVIOUS
      <4>1. x.pns \subseteq received /\ Accounts(x.ecn, counts, Owed(x.pns, received))
        BY <2>0 DEF Chained, Later, Now
      <4>2. x.ecn \in Counts
        BY <1>2 DEF Typed, AckFrame
      <4>3. Owed(x.pns, received)' \subseteq Owed(x.pns, received)
        BY <1>1, <3>1 DEF Owed
      <4> QED
        BY <1>2, <4>1, <4>2, <4>3, OwedFinite, AccountsLess
    <3>6. \A x \in acks' : Later(x, Now)'
      BY <1>1, <3>5 DEF Later, Now, Accounts, Marks
    <3>7. Accounts(info'.baseline, counts', Owed({}, received)')
      <4>1. Owed({}, received)' = Owed(a.pns, received)'
        BY <1>1, <3>2
      <4> QED
        BY <1>1, <2>3, <3>5, <4>1
    <3>8. \A x \in acks' : Owed({}, x.pns)' = {} \/ Accounts(info'.baseline, x.ecn, Owed({}, x.pns)')
      <4> SUFFICES ASSUME NEW x \in acks, ~(x.pns \subseteq a.pns)
                   PROVE  Accounts(info'.baseline, x.ecn, Owed({}, x.pns)')
        BY <1>1, <3>3
      <4>1. Later(a, x)
        BY <2>0 DEF Chained, Later
      <4>2. Later(a, x)'
        BY <3>4, <4>1
      <4>3. Owed({}, x.pns)' = Owed(a.pns, x.pns)'
        BY <3>2
      <4> QED
        BY <2>3, <4>2, <4>3 DEF Later, Accounts, Marks
    <3>9. \A x, y \in acks' : Later(x, y)' \/ Later(y, x)'
      BY <1>1, <2>0, <3>4 DEF Chained
    <3>10. counts'.ect1 = 0 /\ \A x \in acks' : x.ecn.ect1 = 0
      BY <1>1, <2>0 DEF Chained
    <3>11. Accounts(info.baseline, counts, Owed({}, received))'
      BY <3>7 DEF Accounts, Marks
    <3> QED
      BY <3>6, <3>8, <3>9, <3>10, <3>11 DEF Chained
  <2> QED
    BY <1>5, <2>2, <2>3
<1> QED
  BY <1>1, <1>7, <1>8, <1>9, <1>10 DEF IInv

(* The verdict on a path is right, for any number of packets,              *)
(* acknowledgments in any order, losses and migrations                     *)
(* (ecn::Info::validate_ack_ecn_and_update).                               *)
THEOREM VerdictAlwaysRight == ASSUME ConstantsOK PROVE Spec => []EcnVerdictIsRight
<1>1. Init => IInv
  BY InitInv
<1>2. IInv /\ [Next]_vars => IInv'
  <2> SUFFICES ASSUME IInv, [Next]_vars PROVE IInv'
    OBVIOUS
  <2>0. HasFields(info)
    BY DEF IInv, Typed
  <2>1. CASE Confirmed
    BY <2>0, <2>1, QuietSteps, InfoInv DEF Confirmed
  <2>2. CASE DisableEcn
    BY <2>0, <2>2, QuietSteps, InfoInv DEF DisableEcn
  <2>3. CASE Migrate
    <3> DEFINE i == Info(info.baseline)
    <3>1. HasFields(Start(i)) /\ Start(i).state = "Testing" /\ Start(i).baseline = info.baseline
      BY DEF Info, Start, HasFields
    <3>2. moves' = moves + 1 /\ info' = Start(i)
          /\ UNCHANGED <<mode, outstanding, lost, net, received, counts, acks, made, blind>>
      BY <2>3 DEF Migrate
    <3>3. moves' # moves
      BY <3>2 DEF IInv, Typed
    <3> QED
      BY <3>1, <3>2, <3>3, InfoInv
  <2>4. CASE Send
    BY <2>4, SendInv
  <2>5. CASE SendAck
    BY <2>5, SendAckInv
  <2>6. ASSUME NEW pk \in net, Receive(pk) PROVE IInv'
    BY <2>6, ReceiveInv
  <2>7. ASSUME NEW a \in acks, OnAck(a) PROVE IInv'
    BY <2>7, OnAckInv
  <2>8. ASSUME NEW pk \in outstanding, DeclareLost(pk) PROVE IInv'
    BY <2>8, DeclareLostInv
  <2>9. CASE UNCHANGED vars
    <3>1. Quiet(info, info)
      BY <2>0 DEF Quiet
    <3> QED
      BY <2>9, <3>1, InfoInv DEF vars
  <2> QED
    BY <2>1, <2>2, <2>3, <2>4, <2>5, <2>6, <2>7, <2>8, <2>9 DEF Next
<1>3. IInv => EcnVerdictIsRight
  BY DEF IInv, Verdicts, EcnVerdictIsRight
<1> QED
  BY <1>1, <1>2, <1>3, PTL DEF Spec
=============================================================================
