---------------------------- MODULE MCTransport ----------------------------
(***************************************************************************)
(* Parts of a stream, recovery, paths and datagrams of a connection,       *)
(* for model checking.  A behaviour is one of a single part.  The parts    *)
(* share the variables v1 .. v12: those of a part stand for the variables  *)
(* of its module, in the order in which that module declares them, and the *)
(* rest keep the value 0.                                                  *)
(***************************************************************************)
EXTENDS Naturals

CONSTANT Parts

VARIABLES part, v1, v2, v3, v4, v5, v6, v7, v8, v9, v10, v11, v12

vars == <<part, v1, v2, v3, v4, v5, v6, v7, v8, v9, v10, v11, v12>>

After11 == <<v12>>
After8 == <<v9, v10, v11, After11>>
After7 == <<v8, After8>>
After6 == <<v7, After7>>
After5 == <<v6, After6>>
After4 == <<v5, After5>>
After3 == <<v4, After4>>

Unused11 == v12 = 0
Unused8 == v9 = 0 /\ v10 = 0 /\ v11 = 0 /\ Unused11
Unused7 == v8 = 0 /\ Unused8
Unused6 == v7 = 0 /\ Unused7
Unused5 == v6 = 0 /\ Unused6
Unused4 == v5 = 0 /\ Unused5
Unused3 == v4 = 0 /\ Unused4

-----------------------------------------------------------------------------
(* The parts of a stream.  The send stream appears twice, with room for    *)
(* all its data ("data": commitment, resets, priorities, losses) and short *)
(* of credit ("credit": limits, watermarks, events).                       *)

Tracker == INSTANCE RangeTracker WITH
    acked <- v1, used <- v2, first_unmarked <- v3,
    MaxOffset <- 5
Orderer == INSTANCE RxStreamOrderer WITH
    data_ranges <- v1, retired <- v2, received <- v3, end <- v4, error <- v5, reliable_size <- v6,
    MaxOffset <- 6, RANGE_TARGET <- 3, MAX_GAPS <- 2, MaxReceived <- 8
Data == INSTANCE SendStream WITH
    ss <- v1, conn_fc <- v2, pkts <- v3, losses <- v4, early <- v5,
    MaxBytes <- 2, MaxSize <- 3, StreamLimits <- {3}, ConnLimits <- {3}, Others <- 0,
    Watermarks <- {1}, Priorities <- {<<1, 0>>, <<0, 0>>}, Commits <- TRUE,
    ZeroRtt <- FALSE, MaxPackets <- 2, MaxLosses <- 2
Credit == INSTANCE SendStream WITH
    ss <- v1, conn_fc <- v2, pkts <- v3, losses <- v4, early <- v5,
    MaxBytes <- 2, MaxSize <- 2, StreamLimits <- {0, 1, 3}, ConnLimits <- {1, 2, 3},
    Others <- 1, Watermarks <- {1, 2}, Priorities <- {<<1, 0>>}, Commits <- FALSE,
    ZeroRtt <- FALSE, MaxPackets <- 1, MaxLosses <- 1

-----------------------------------------------------------------------------
(* Loss recovery appears three times: one space and one path with          *)
(* congestion signals ("loss"), two paths ("paths"), and the spaces of a   *)
(* handshake ("spaces").                                                   *)

Rtt(loss_delay, pto) == [loss_delay |-> loss_delay, pto |-> pto]
Packets(initial, handshake, app) == [Initial |-> initial, Handshake |-> handshake, App |-> app]

Loss == INSTANCE LossRecovery WITH
    now <- v1, spaces <- v2, next_pn <- v3, pto_state <- v4, confirmed_time <- v5, cc <- v6,
    rtt <- v7, primary <- v8, lost_count <- v9, acked <- v10, released <- v11, rebound <- v12,
    Mtu <- 3, InitialCwnd <- 9, PACING_BURST_SIZE <- 1, PERSISTENT_CONG_THRESH <- 1,
    SpuriousRecovery <- TRUE, Live <- {"App"}, Paths <- {1}, PACKET_THRESHOLD <- 2,
    MAX_PTO_PACKET_COUNT <- 2, Rtts <- {Rtt(1, 1)}, Kinds <- {"data"},
    Signals <- {"none", "ce"}, Rebinds <- FALSE, MaxPackets <- Packets(0, 0, 4),
    MaxTime <- 3, MaxPtos <- 1
TwoPaths == INSTANCE LossRecovery WITH
    now <- v1, spaces <- v2, next_pn <- v3, pto_state <- v4, confirmed_time <- v5, cc <- v6,
    rtt <- v7, primary <- v8, lost_count <- v9, acked <- v10, released <- v11, rebound <- v12,
    Mtu <- 3, InitialCwnd <- 9, PACING_BURST_SIZE <- 1, PERSISTENT_CONG_THRESH <- 1,
    SpuriousRecovery <- TRUE, Live <- {"App"}, Paths <- {1, 2}, PACKET_THRESHOLD <- 1,
    MAX_PTO_PACKET_COUNT <- 2, Rtts <- {Rtt(1, 1), Rtt(2, 2)}, Kinds <- {"data", "ack", "probe"},
    Signals <- {"none", "exit"}, Rebinds <- TRUE, MaxPackets <- Packets(0, 0, 2),
    MaxTime <- 2, MaxPtos <- 1
AllSpaces == INSTANCE LossRecovery WITH
    now <- v1, spaces <- v2, next_pn <- v3, pto_state <- v4, confirmed_time <- v5, cc <- v6,
    rtt <- v7, primary <- v8, lost_count <- v9, acked <- v10, released <- v11, rebound <- v12,
    Mtu <- 3, InitialCwnd <- 9, PACING_BURST_SIZE <- 1, PERSISTENT_CONG_THRESH <- 3,
    SpuriousRecovery <- FALSE, Live <- {"Initial", "Handshake", "App"}, Paths <- {1},
    PACKET_THRESHOLD <- 1, MAX_PTO_PACKET_COUNT <- 2, Rtts <- {Rtt(1, 1)},
    Kinds <- {"small", "padded"}, Signals <- {"none"}, Rebinds <- FALSE,
    MaxPackets <- Packets(1, 1, 1), MaxTime <- 2, MaxPtos <- 1

-----------------------------------------------------------------------------
(* Paths with their connection IDs, and datagrams.                         *)

Both(x, y) == [client |-> x, server |-> y]

\* A client that changes its address, and may come back.
Mig == INSTANCE Migration WITH
    ep <- v1, net <- v2, unacked <- v3, sent <- v4, largest <- v5, confirmed <- v6,
    ACTIVE_LIMIT <- 3, MAX_RETIRE_QUEUE <- 6, MAX_PATHS <- 2, MAX_PROBES <- 2,
    MAX_PENDING_CHALLENGES <- 2, Limit <- 3, Addresses <- {"home", "b", "c"}, Preferred <- "none",
    Ecn <- FALSE, Rotates <- FALSE, Mtus <- {TRUE}, Spurious <- FALSE, MaxSent <- Both(2, 2)

\* The peer replaces the connection IDs it has issued.
Rotation == INSTANCE Migration WITH
    ep <- v1, net <- v2, unacked <- v3, sent <- v4, largest <- v5, confirmed <- v6,
    ACTIVE_LIMIT <- 3, MAX_RETIRE_QUEUE <- 6, MAX_PATHS <- 2, MAX_PROBES <- 1,
    MAX_PENDING_CHALLENGES <- 2, Limit <- 3, Addresses <- {"home", "b", "c"}, Preferred <- "none",
    Ecn <- FALSE, Rotates <- TRUE, Mtus <- {TRUE}, Spurious <- FALSE, MaxSent <- Both(2, 2)

\* The server has a preferred address, and MTU probes are told apart.
PreferredAddress == INSTANCE Migration WITH
    ep <- v1, net <- v2, unacked <- v3, sent <- v4, largest <- v5, confirmed <- v6,
    ACTIVE_LIMIT <- 3, MAX_RETIRE_QUEUE <- 6, MAX_PATHS <- 2, MAX_PROBES <- 1,
    MAX_PENDING_CHALLENGES <- 2, Limit <- 3, Addresses <- {"home", "b"}, Preferred <- "b",
    Ecn <- TRUE, Rotates <- FALSE, Mtus <- BOOLEAN, Spurious <- FALSE, MaxSent <- Both(2, 1)

Dgrams == INSTANCE Datagrams WITH
    queues <- v1, rr_next <- v2, remote_size <- v3, default_age <- v4, admitted <- v5,
    Sessions <- {0}, Groups <- {0, 1}, Orders <- {0, 1}, Lengths <- {1, 3},
    MaxQueuedBytes <- 6, Overhead <- 1, MINIMUM_FRAME_SIZE <- 2, Marks <- {1}, Ages <- {},
    DefaultAges <- {2}, Limits <- {9}, Rooms <- {3, 8}, MaxAge <- 2, MaxDatagrams <- 3

DgramSessions == INSTANCE Datagrams WITH
    queues <- v1, rr_next <- v2, remote_size <- v3, default_age <- v4, admitted <- v5,
    Sessions <- {0, 4}, Groups <- {0}, Orders <- {0}, Lengths <- {1, 3},
    MaxQueuedBytes <- 6, Overhead <- 1, MINIMUM_FRAME_SIZE <- 2, Marks <- {}, Ages <- {1},
    DefaultAges <- {1, 2}, Limits <- {3, 9}, Rooms <- {4}, MaxAge <- 2, MaxDatagrams <- 3


-----------------------------------------------------------------------------
Init ==
    /\ part \in Parts
    /\ \/ part = "tracker" /\ Tracker!Init /\ Unused3
       \/ part = "orderer" /\ Orderer!Init /\ Unused6
       \/ part = "data" /\ Data!Init /\ Unused5
       \/ part = "credit" /\ Credit!Init /\ Unused5
       \/ part = "loss" /\ Loss!Init
       \/ part = "paths" /\ TwoPaths!Init
       \/ part = "spaces" /\ AllSpaces!Init
       \/ part = "migration" /\ Mig!Init /\ Unused6
       \/ part = "rotation" /\ Rotation!Init /\ Unused6
       \/ part = "preferred" /\ PreferredAddress!Init /\ Unused6
       \/ part = "datagrams" /\ Dgrams!Init /\ Unused5
       \/ part = "sessions" /\ DgramSessions!Init /\ Unused5

Next ==
    /\ UNCHANGED part
    /\ \/ part = "tracker" /\ Tracker!Next /\ UNCHANGED After3
       \/ part = "orderer" /\ Orderer!Next /\ UNCHANGED After6
       \/ part = "data" /\ Data!Next /\ UNCHANGED After5
       \/ part = "credit" /\ Credit!Next /\ UNCHANGED After5
       \/ part = "loss" /\ Loss!Next
       \/ part = "paths" /\ TwoPaths!Next
       \/ part = "spaces" /\ AllSpaces!Next
       \/ part = "migration" /\ Mig!Next /\ UNCHANGED After6
       \/ part = "rotation" /\ Rotation!Next /\ UNCHANGED After6
       \/ part = "preferred" /\ PreferredAddress!Next /\ UNCHANGED After6
       \/ part = "datagrams" /\ Dgrams!Next /\ UNCHANGED After5
       \/ part = "sessions" /\ DgramSessions!Next /\ UNCHANGED After5

Spec == Init /\ [][Next]_vars

-----------------------------------------------------------------------------
\* The two buffers, at rest in the behaviours of other parts.
If(p, v, rest) == IF part = p THEN v ELSE rest
TrackerBytes == INSTANCE RangeTracker WITH
    acked <- If("tracker", v1, 0), used <- If("tracker", v2, <<>>), first_unmarked <- If("tracker", v3, 0),
    MaxOffset <- 5
OrdererBytes == INSTANCE RxStreamOrderer WITH
    data_ranges <- If("orderer", v1, <<>>), retired <- If("orderer", v2, 0), received <- If("orderer", v3, 0),
    end <- If("orderer", v4, 0), error <- If("orderer", v5, FALSE), reliable_size <- If("orderer", v6, 0),
    MaxOffset <- 6, RANGE_TARGET <- 3, MAX_GAPS <- 2, MaxReceived <- 8

(* RangeTracker and RxStreamOrderer: the maps are canonical, what is       *)
(* derived from them is never stale, already_received recognises exactly   *)
(* the data that is here, and each does to its bytes what would be done to *)
(* them one by one: marks them sent, acknowledged or lost; hands out those *)
(* that arrived, in order and once.                                        *)
RangesImplementBytes ==
    /\ [](/\ part = "tracker" => Tracker!TypeOK /\ Tracker!RangesCanonical /\ Tracker!CacheCoherent
          /\ part = "orderer" => /\ Orderer!TypeOK /\ Orderer!RangesConsistent
                                 /\ Orderer!ReadWasReceived /\ Orderer!DuplicatesRecognised)
    /\ TrackerBytes!ImplementsByteRanges
    /\ OrdererBytes!ImplementsRxBytes

(* SendStream: every byte, FIN and reset that is not acknowledged is       *)
(* offered for sending or in a packet, all frames announce one final size, *)
(* and has_data_at tells exactly whether write_frames would write.         *)
NothingForgotten ==
    /\ part = "data" => Data!TypeOK /\ Data!NothingForgotten /\ Data!FinalSizeAgreed /\ Data!HasDataMirrorsWriteFrames
    /\ part = "credit" => Credit!TypeOK /\ Credit!HasDataMirrorsWriteFrames

(* SendStream: after reset() only committed data is sent and never a FIN,  *)
(* and the writable event is raised whichever limit was the last to hold   *)
(* the application back.                                                   *)
StreamSteps ==
    /\ [][/\ part = "data" => Data!OnlyCommitted /\ Data!StatsIncrease
          /\ part = "credit" => Credit!Writability]_vars

LossParts == {"loss", "paths", "spaces"}

(* LossRecovery: what is tracked is in the order that the searches in it   *)
(* presuppose, bytes_in_flight is what the packets in flight add up to,    *)
(* none is dropped without its frames being accounted for, and a timer is  *)
(* armed whenever one in flight needs an acknowledgment.                   *)
PacketsAccounted ==
    part \in LossParts => /\ Loss!TypeOK /\ Loss!TrackingConsistent
                          /\ Loss!BytesAccounted /\ Loss!NothingLost /\ Loss!TimerArmed

(* ClassicCongestionController: the window is reduced once for all packets *)
(* that were sent before the last reduction.                               *)
OneReductionPerRecovery == [][(part \in {"loss", "paths"}) => Loss!OneReduction]_vars

MigParts == {"migration", "rotation", "preferred"}

(* Migration: a packet for an end has a connection ID that it accepts, no  *)
(* ID leaks, and there is a primary path.                                  *)
CidsAreAccepted ==
    /\ part \in MigParts \ {"preferred"} => Mig!CidsAreAccepted /\ Mig!NoCidLeaks /\ Mig!PrimaryIsKept
    /\ part = "preferred" => /\ PreferredAddress!CidsAreAccepted /\ PreferredAddress!NoCidLeaks
                             /\ PreferredAddress!PrimaryIsKept
(* Datagrams: each is sent, dropped or queued and the budget is what the   *)
(* queues hold; who is blocked is woken; sessions and groups take turns;   *)
(* and what is said to fit a packet does.                                  *)
DatagramsAccounted ==
    /\ part = "datagrams" => Dgrams!DatagramsAccounted /\ Dgrams!BlockedAreWoken /\ Dgrams!TurnsAreFair
                            /\ Dgrams!MaxSizeIsRight
    /\ part = "sessions" => /\ DgramSessions!DatagramsAccounted /\ DgramSessions!BlockedAreWoken
                            /\ DgramSessions!TurnsAreFair /\ DgramSessions!MaxSizeIsRight
=============================================================================
