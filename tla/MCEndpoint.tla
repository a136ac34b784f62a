----------------------------- MODULE MCEndpoint -----------------------------
(***************************************************************************)
(* Parts of a connection that keep a promise to the peer or the            *)
(* application, for model checking and for every instance by proof.  A     *)
(* behaviour is one of a single part.  The parts share the variables v1 .. *)
(* v12: those of a part stand for the variables of its module, in the      *)
(* order in which that module declares them, and the rest keep the value 0.*)
(***************************************************************************)
EXTENDS Integers, TLAPS

CONSTANTS
    Parts,
    MaxOffset, Window, SessionWindow, Errors, MaxTokens, MaxTokenLosses,    \* RecvStream
    MAX_TRACKED_RANGES, MaxNumber, MaxFrames, Frequencies,                  \* AckTracking
    Rates, InitialRate, MaxRequests,
    WriteLimit, ReadLimit, UPDATE_WRITE_KEYS_AT, Pto, ZeroRtt,              \* KeyUpdate
    MaxKeyPn, MaxEpoch, MaxTime,
    SEARCH_TABLE_LEN, MAX_PROBES, Limits,                                   \* Pmtud
    LoneMtu, MaxSentAlone, Paths, PathMtu, MaxSent,
    TEST_COUNT, TEST_COUNT_INITIAL_PHASE, Modes, MaxPn, MaxAcks, MaxMigrations,     \* Ecn
    Timeouts, IdlePto, Delay, MaxLosses,                                    \* Idle
    Mtus, Burst, Rtts, Cwnds, GRANULARITY, MaxElapsed                       \* Pacer

VARIABLES part, v1, v2, v3, v4, v5, v6, v7, v8, v9, v10, v11, v12

vars == <<part, v1, v2, v3, v4, v5, v6, v7, v8, v9, v10, v11, v12>>

Before9 == <<v1, v2, v3, v4, v5, v6, v7, v8>>
After11 == <<v12>>
After8 == <<v9, v10, v11, After11>>
After7 == <<v8, After8>>
After6 == <<v7, After7>>
After5 == <<v6, After6>>
After4 == <<v5, After5>>

Unused11 == v12 = 0
Unused8 == v9 = 0 /\ v10 = 0 /\ v11 = 0 /\ Unused11
Unused7 == v8 = 0 /\ Unused8
Unused6 == v7 = 0 /\ Unused7
Unused5 == v6 = 0 /\ Unused6
Unused4 == v5 = 0 /\ Unused5
Upto8 == v1 = 0 /\ v2 = 0 /\ v3 = 0 /\ v4 = 0 /\ v5 = 0 /\ v6 = 0 /\ v7 = 0 /\ v8 = 0

-----------------------------------------------------------------------------
(* The receiving part of a stream; the packets to acknowledge, in v1 .. v8 *)
(* ("acks"), and the rate to acknowledge them at, in v9 .. v12 ("rate").   *)
Recv == INSTANCE RecvStream WITH
    rs <- v1, session_fc <- v2, out <- v3, token_losses <- v4, error <- v5

Acks == INSTANCE AckTrackingProofs WITH
    ranges <- v1, min_tracked <- v2, ack_time <- v3, unacknowledged <- v4, frequency <- v5,
    frames <- v6, received <- v7, confirmed <- v8,
    rate <- v9, peer <- v10, requests <- v11, answers <- v12

Keys == INSTANCE KeyUpdate WITH
    keys <- v1, net <- v2, now <- v3, early <- v4, MaxPn <- MaxKeyPn

(* The MTU of one path, and of several with migration between them. *)
MtuOfOne == INSTANCE Pmtud WITH
    pmtud <- v1, primary <- v2, limit <- v3, in_flight <- v4, lost <- v5, sent <- v6,
    Paths <- {1}, PathMtu <- <<LoneMtu>>, Migrates <- FALSE, MaxSent <- MaxSentAlone

MtuOfMany == INSTANCE Pmtud WITH
    pmtud <- v1, primary <- v2, limit <- v3, in_flight <- v4, lost <- v5, sent <- v6,
    Migrates <- TRUE

Marking == INSTANCE Ecn WITH
    mode <- v1, info <- v2, outstanding <- v3, lost <- v4, net <- v5, received <- v6, counts <- v7,
    acks <- v8, made <- v9, moves <- v10, blind <- v11

KeepAlive == INSTANCE Idle WITH
    timeout <- v1, idle <- v2, keep_alive_outstanding <- v3, probe <- v4, net <- v5, losses <- v6,
    worst <- v7, closed <- v8, Pto <- IdlePto

Pacing == INSTANCE Pacer WITH
    c <- v1, p <- v2, m <- v3, rtt <- v4, cwnd <- v5, elapsed <- v6, free <- v7

(* What the code and the scenarios give the constants. *)
ASSUME ConstantsOK ==
    /\ Recv!ConstantsOK /\ Acks!ConstantsOK /\ Keys!ConstantsOK /\ MtuOfOne!ConstantsOK /\ MtuOfMany!ConstantsOK
    /\ Marking!ConstantsOK

(* Values for a small instance. *)
SmallFrequencies == {<<1, 2, TRUE>>}
SmallRate == [packets |-> 2, delay |-> 8]
SmallRates == {SmallRate} \cup {[packets |-> 2, delay |-> d] : d \in {9, 16}} \cup {[packets |-> 3, delay |-> 8]}
SmallPto == [client |-> 1, server |-> 2]
SmallPathMtu == <<3, 3>>

-----------------------------------------------------------------------------
Init ==
    /\ part \in Parts
    /\ \/ part = "recv" /\ Recv!RInit /\ Unused5
       \/ part = "acks" /\ Acks!AInit /\ Unused8
       \/ part = "keys" /\ Keys!Init /\ Unused4
       \/ part = "mtu" /\ MtuOfOne!Init /\ Unused6
       \/ part = "moving" /\ MtuOfMany!Init /\ Unused6
       \/ part = "ecn" /\ Marking!Init /\ Unused11
       \/ part = "idle" /\ KeepAlive!Init /\ Unused8
       \/ part = "rate" /\ Acks!FInit /\ Upto8
       \/ part = "pacing" /\ Pacing!Init /\ Unused7

Next ==
    /\ UNCHANGED part
    /\ \/ part = "recv" /\ Recv!RNext /\ UNCHANGED After5
       \/ part = "acks" /\ Acks!ANext /\ UNCHANGED After8
       \/ part = "keys" /\ Keys!Next /\ UNCHANGED After4
       \/ part = "mtu" /\ MtuOfOne!Next /\ UNCHANGED After6
       \/ part = "moving" /\ MtuOfMany!Next /\ UNCHANGED After6
       \/ part = "ecn" /\ Marking!Next /\ UNCHANGED After11
       \/ part = "idle" /\ KeepAlive!Next /\ UNCHANGED After8
       \/ part = "rate" /\ Acks!FNext /\ UNCHANGED Before9
       \/ part = "pacing" /\ Pacing!Next /\ UNCHANGED After7

Spec == Init /\ [][Next]_vars

-----------------------------------------------------------------------------
(* RecvStream: credit is retired once and exactly for what the application *)
(* can no longer read, on the stream and on the connection; the            *)
(* application is told of data, FIN and reset, the reset not before the    *)
(* prefix it promises was read.                                            *)
ReaderIsTold ==
    part = "recv" => /\ Recv!RTypeOK /\ Recv!CreditAccounted /\ Recv!NoCreditLeak /\ Recv!CreditHeldForUnread
                     /\ Recv!ReaderIsTold /\ Recv!PrefixBeforeReset

(* RecvStream: a final size that is known stays, and the FIN that the      *)
(* application reads is at it.                                             *)
FinalSizeStays == [][part = "recv" => Recv!FinalSizeStays]_vars

(* RecvdPackets: ranges are such that an ACK frame can report them, no     *)
(* packet is taken twice or taken for a duplicate, and a range is reported *)
(* until the peer is known to have heard of it.                            *)
AcksReachThePeer ==
    part = "acks" => Acks!RangesCanonical /\ Acks!DuplicatesExact /\ Acks!AcksReachThePeer

(* KeyUpdate: the ends never lose each other over updates of their keys. *)
KeysMeet == part = "keys" => Keys!KeysMeet

(* Pmtud: the MTU in use is one that the path was found to carry. *)
MtuIsConfirmed ==
    /\ part = "mtu" => MtuOfOne!MtuIsConfirmed
    /\ part = "moving" => MtuOfMany!MtuIsConfirmed

(* Ecn: the verdict on a path follows from what the path does to marks. *)
EcnVerdictIsRight == part = "ecn" => Marking!EcnVerdictIsRight

(* Idle: the idle timeout of neither end runs out while one keeps the      *)
(* connection alive.                                                       *)
KeptAlive == part = "idle" => KeepAlive!KeptAlive

(* FlexibleAckRate: the sender knows at which rate the peer acknowledges. *)
RateIsKnown == part = "rate" => Acks!RateIsKnown

(* Pacer: the debt and the wait that it causes are bounded. *)
DebtIsBounded == part = "pacing" => Pacing!DebtIsBounded
-----------------------------------------------------------------------------
(* Theorems: what the components are proved to keep holds of every         *)
(* behaviour here, since a behaviour of a part is one of its component.    *)

LEMMA PartStays == [Next]_vars => part' = part
  BY DEF Next, vars

(* Of RecvdPackets, for any number of ranges and of packets. *)
THEOREM AcksAlwaysReachThePeer == Spec => []AcksReachThePeer
<1> DEFINE On == part = "acks"
<1>1. Init /\ On => Acks!AInit
  BY DEF Init
<1>2. On /\ [Next]_vars => [Acks!ANext]_(Acks!avars)
  BY DEF Next, vars, Acks!avars
<1>3. (On /\ [Next]_vars => On') /\ (~On /\ [Next]_vars => ~On')
  BY PartStays
<1>4. Acks!ASpec => [](Acks!RangesCanonical /\ Acks!DuplicatesExact /\ Acks!AcksReachThePeer)
  BY ConstantsOK, Acks!RangesAreExact
<1>5. (~On => AcksReachThePeer) /\ (Acks!RangesCanonical /\ Acks!DuplicatesExact /\ Acks!AcksReachThePeer => AcksReachThePeer)
  BY DEF AcksReachThePeer
<1> QED
  BY <1>1, <1>2, <1>3, <1>4, <1>5, PTL DEF Spec, Acks!ASpec

(* Of FlexibleAckRate, for any rates and any number of frames. *)
THEOREM RateAlwaysKnown == Spec => []RateIsKnown
<1> DEFINE On == part = "rate"
<1>1. Init /\ On => Acks!FInit
  BY DEF Init
<1>2. On /\ [Next]_vars => [Acks!FNext]_(Acks!fvars)
  BY DEF Next, vars, Acks!fvars
<1>3. (On /\ [Next]_vars => On') /\ (~On /\ [Next]_vars => ~On')
  BY PartStays
<1>4. Acks!FSpec => [](Acks!RateIsKnown)
  BY ConstantsOK, Acks!RateAlwaysKnown
<1>5. (~On => RateIsKnown) /\ (Acks!RateIsKnown => RateIsKnown)
  BY DEF RateIsKnown
<1> QED
  BY <1>1, <1>2, <1>3, <1>4, <1>5, PTL DEF Spec, Acks!FSpec

(* Of the key updates, for any limits, timeouts and orders of arrival. *)
THEOREM KeysAlwaysMeet == Spec => []KeysMeet
<1> DEFINE On == part = "keys"
<1>1. Init /\ On => Keys!Init
  BY DEF Init
<1>2. On /\ [Next]_vars => [Keys!Next]_(Keys!vars)
  BY DEF Next, vars, Keys!vars
<1>3. (On /\ [Next]_vars => On') /\ (~On /\ [Next]_vars => ~On')
  BY PartStays
<1>4. Keys!Spec => [](Keys!KeysMeet)
  BY ConstantsOK, Keys!KeysAlwaysMeet
<1>5. (~On => KeysMeet) /\ (Keys!KeysMeet => KeysMeet)
  BY DEF KeysMeet
<1> QED
  BY <1>1, <1>2, <1>3, <1>4, <1>5, PTL DEF Spec, Keys!Spec

(* Of EcnInfo, for any lengths of its phases and any losses. *)
THEOREM EcnVerdictAlwaysRight == Spec => []EcnVerdictIsRight
<1> DEFINE On == part = "ecn"
<1>1. Init /\ On => Marking!Init
  BY DEF Init
<1>2. On /\ [Next]_vars => [Marking!Next]_(Marking!vars)
  BY DEF Next, vars, Marking!vars
<1>3. (On /\ [Next]_vars => On') /\ (~On /\ [Next]_vars => ~On')
  BY PartStays
<1>4. Marking!Spec => [](Marking!EcnVerdictIsRight)
  BY ConstantsOK, Marking!VerdictAlwaysRight
<1>5. (~On => EcnVerdictIsRight) /\ (Marking!EcnVerdictIsRight => EcnVerdictIsRight)
  BY DEF EcnVerdictIsRight
<1> QED
  BY <1>1, <1>2, <1>3, <1>4, <1>5, PTL DEF Spec, Marking!Spec

(* Of Pmtud, on one path and when the connection moves between paths. *)
THEOREM MtuAlwaysConfirmed == Spec => []MtuIsConfirmed
<1> DEFINE One == part = "mtu"
           Many == part = "moving"
<1>1. (Init /\ One => MtuOfOne!Init) /\ (Init /\ Many => MtuOfMany!Init)
  BY DEF Init
<1>2. One /\ [Next]_vars => [MtuOfOne!Next]_(MtuOfOne!vars)
  BY DEF Next, vars, MtuOfOne!vars
<1>3. Many /\ [Next]_vars => [MtuOfMany!Next]_(MtuOfMany!vars)
  BY DEF Next, vars, MtuOfMany!vars
<1>4. (One /\ [Next]_vars => One') /\ (~One /\ [Next]_vars => ~One')
  BY PartStays
<1>5. (Many /\ [Next]_vars => Many') /\ (~Many /\ [Next]_vars => ~Many')
  BY PartStays
<1>6. MtuOfOne!Spec => []MtuOfOne!MtuIsConfirmed
  BY ConstantsOK, MtuOfOne!MtuAlwaysConfirmed
<1>7. MtuOfMany!Spec => []MtuOfMany!MtuIsConfirmed
  BY ConstantsOK, MtuOfMany!MtuAlwaysConfirmed
<1>8. /\ ~One \/ MtuOfOne!MtuIsConfirmed
      /\ ~Many \/ MtuOfMany!MtuIsConfirmed
      => MtuIsConfirmed
  BY DEF MtuIsConfirmed
<1> QED
  BY <1>1, <1>2, <1>3, <1>4, <1>5, <1>6, <1>7, <1>8, PTL DEF Spec, MtuOfOne!Spec, MtuOfMany!Spec

(* Of RecvStream, for streams of any length and any windows. *)
THEOREM ReaderAlwaysTold == Spec => []ReaderIsTold
<1> DEFINE On == part = "recv"
           Told == /\ Recv!RTypeOK /\ Recv!CreditAccounted /\ Recv!NoCreditLeak /\ Recv!CreditHeldForUnread
                   /\ Recv!ReaderIsTold /\ Recv!PrefixBeforeReset
<1>1. Init /\ On => Recv!RInit
  BY DEF Init
<1>2. On /\ [Next]_vars => [Recv!RNext]_(Recv!rvars)
  BY DEF Next, vars, Recv!rvars
<1>3. (On /\ [Next]_vars => On') /\ (~On /\ [Next]_vars => ~On')
  BY PartStays
<1>4. Recv!RSpec => []Told
  BY ConstantsOK, Recv!StreamAlwaysSound
<1>5. (~On => ReaderIsTold) /\ (Told => ReaderIsTold)
  BY DEF ReaderIsTold
<1> QED
  BY <1>1, <1>2, <1>3, <1>4, <1>5, PTL DEF Spec, Recv!RSpec

(* Of RecvStream, for streams of any length and any windows. *)
THEOREM FinalSizeAlwaysStays == Spec => FinalSizeStays
<1> DEFINE On == part = "recv"
<1>1. Init /\ On => Recv!RInit
  BY DEF Init
<1>2. On /\ [Next]_vars => [Recv!RNext]_(Recv!rvars)
  BY DEF Next, vars, Recv!rvars
<1>3. (On /\ [Next]_vars => On') /\ (~On /\ [Next]_vars => ~On')
  BY PartStays
<1>4. Recv!RSpec => [][Recv!FinalSizeStays]_(Recv!rvars)
  BY ConstantsOK, Recv!FinalSizeAlwaysStays
<1>5. On /\ [Next]_vars /\ [Recv!FinalSizeStays]_(Recv!rvars) => [On => Recv!FinalSizeStays]_vars
  BY DEF Next, vars, Recv!rvars, After5, After6, After7, After8, After11
<1>6. ~On => [On => Recv!FinalSizeStays]_vars
  OBVIOUS
<1> QED
  BY <1>1, <1>2, <1>3, <1>4, <1>5, <1>6, PTL DEF Spec, Recv!RSpec, FinalSizeStays
=============================================================================
