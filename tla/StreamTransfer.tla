--------------------------- MODULE StreamTransfer ---------------------------
(***************************************************************************)
(* One stream end to end: a SendStream, a RecvStream and a network between *)
(* them that delays, reorders and loses packets in both directions.        *)
(* Packet numbers keep a packet from being processed twice (tracking.rs),  *)
(* a packet is acknowledged only after it was processed, and loss recovery *)
(* may be wrong about a packet being lost.                                 *)
(***************************************************************************)
EXTENDS SendStream

CONSTANTS
    RecvWindow,      \* the receiver's windows, beyond MaxBytes: credit is FlowControl's subject
    MaxTokens, MaxTokenLosses

VARIABLES rs, session_fc, out, token_losses, error

R == INSTANCE RecvStream WITH MaxOffset <- MaxBytes, Window <- RecvWindow,
                              SessionWindow <- RecvWindow, Errors <- {1}

rvars == <<rs, session_fc, out, token_losses, error>>
tvars == <<vars, rvars>>

TInit == Init /\ R!RInit

\* Retransmissions go before new data.
OnePriority == {<<1, 0>>}

-----------------------------------------------------------------------------

\* The sending application, and the sender's transmissions.
SenderSteps ==
    /\ error = "none"
    /\ \/ \E n \in 1 .. MaxBytes : Send(n, FALSE)
       \/ close \/ commit \/ Reset
       \/ \E i \in DOMAIN pkts : (pkts[i].got /\ Acked(i)) \/ Pto(i) \/ Lost(i) \/ Expired(i)
    /\ UNCHANGED rvars

WriteData == /\ error = "none"
             /\ \E p \in Levels, n \in 0 .. MaxBytes : WriteFrames(p, All, n)
             /\ UNCHANGED rvars

\* One frame of a packet arrives, after the ones before it.
Arrives(w, f) ==
    IF w.error # "none" THEN w
    ELSE CASE f.kind = "stream" -> R!StreamFrame(w, f.off, f.len, f.fin)
           [] f.kind = "reset" -> R!ResetFrame(w, 1, f.size, f.reliable)
           [] f.kind = "blocked" -> w

Deliver(i) ==
    /\ error = "none" /\ ~pkts[i].got
    /\ R!Done(FoldLeft(Arrives, R!Now, pkts[i].frames))
    /\ pkts' = [pkts EXCEPT ![i].got = TRUE]
    /\ UNCHANGED <<ss, conn_fc, losses, early, out, token_losses>>

\* STOP_SENDING travels the other way.
DeliverBack(i) ==
    /\ error = "none" /\ ~out[i].got
    /\ out' = [out EXCEPT ![i].got = TRUE]
    /\ StopSending
    /\ UNCHANGED <<rs, session_fc, token_losses, error>>

ReceiverSteps ==
    /\ \/ R!read(MaxBytes) \/ R!stop_sending
       \/ \E i \in DOMAIN out : \/ R!TokenLost(i) \/ R!TokenExpired(i)
                                \/ out[i].got /\ R!TokenAcked(i)
    /\ UNCHANGED vars

WriteBack == R!write_frame /\ UNCHANGED vars

TNext == \/ SenderSteps \/ WriteData \/ ReceiverSteps \/ WriteBack
         \/ \E i \in DOMAIN pkts : Deliver(i)
         \/ \E i \in DOMAIN out : DeliverBack(i)

TSpec == TInit /\ [][TNext]_tvars

-----------------------------------------------------------------------------
(* Fairness: packets are sent while there is something to send; a packet    *)
(* that is not lost is delivered and acknowledged, and a lost one is        *)
(* forgotten; the receiving application reads what is there (that it is     *)
(* told of it is RecvStream's ReaderIsTold).                                *)

Forward == pkts # <<>> /\ IF pkts[1].lost THEN Expired(1) /\ UNCHANGED rvars
                          ELSE Deliver(1) \/ (pkts[1].got /\ Acked(1) /\ UNCHANGED rvars)
Back == out # <<>> /\ IF out[1].lost THEN R!TokenExpired(1) /\ UNCHANGED vars
                      ELSE DeliverBack(1) \/ (out[1].got /\ R!TokenAcked(1) /\ UNCHANGED vars)
Reads == R!read(MaxBytes) /\ UNCHANGED vars

TFairness == /\ WF_tvars(WriteData) /\ WF_tvars(WriteBack)
             /\ WF_tvars(Forward) /\ WF_tvars(Back)
             /\ WF_tvars(Reads)

TLiveSpec == TSpec /\ TFairness

-----------------------------------------------------------------------------
(* Properties *)

\* The receiver never closes the connection over what the sender sends: final
\* sizes, credit and resets agree for every order in which frames arrive.
NoPeerError == error = "none"

\* A sender that considers its stream complete is right: the receiver has all
\* the data and the FIN, or gave up on the stream itself.  And the receiving
\* application reads the FIN exactly at the end of what was written.
CompleteMeansReceived ==
    /\ ss.state = "DataRecvd" =>
         \/ rs.stopped
         \/ rs.state \in {"DataRecvd", "DataRead"} /\ rs.fc.consumed = ss.written
    /\ rs.fin_read => rs.read = ss.written /\ ~Open(ss)

\* Data committed before a reset reaches the receiving application: it is never
\* told of the reset before it has read the committed bytes, unless one of the
\* ends dropped the commitment by stopping the stream.
CommitmentKept ==
    rs.state = "ResetRecvd" /\ ~rs.stopped => rs.read >= ss.reliable_size

\* The two ends agree, whatever is lost, reordered, reset or stopped.
TransferSafe == NoPeerError /\ CompleteMeansReceived /\ CommitmentKept

\* When neither end has anything left to do, both have finished: no frame that
\* one of them is waiting for is missing.
BothEnd == (~Open(ss) \/ rs.stopped) ~> (ended /\ R!Ended(rs))
=============================================================================
