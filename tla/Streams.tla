------------------------------- MODULE Streams -------------------------------
(***************************************************************************)
(* The table of streams of the two ends of a connection (streams.rs): who  *)
(* may open a stream, when the other end creates it, how each of its up to *)
(* four halves ends, and when a stream is forgotten and the credit for it  *)
(* goes back to the peer.                                                  *)
(*                                                                         *)
(* A stream carries one unit of data and a FIN.  Frames are never consumed *)
(* from the network: they arrive in any order, late and more than once, as *)
(* retransmissions do, or not at all.  An acknowledgment is taken by the   *)
(* sender at any time after the frame arrived.                             *)
(***************************************************************************)
EXTENDS Naturals, FiniteSets

CONSTANTS
    Ids,          \* streams, as records [by, type, index]
    Window,       \* for each type, the streams a peer may have open
    Raised,       \* for each type, what set_remote_max_streams raises it to
    Resumes,      \* the client starts with the limits of an earlier connection
    Commits,      \* the ends that call stream_commit
    Stops,        \* the ends that call stream_stop_sending
    Resets        \* the ends that call stream_reset_send

VARIABLES
    snd,          \* snd[r][s]: the SendStream of stream s at end r
    rcv,          \* rcv[r][s]: the RecvStream of stream s at end r
    has_ended,    \* has_ended[r]: the flags of SendStreams and RecvStreams
    local,        \* local[r][t]: LocalStreamLimits, [limit, used]
    remote,       \* remote[r][t]: RemoteStreamLimits
    net,          \* the frames sent so far
    arrived,      \* those that arrived, and may be acknowledged
    zero_rtt,     \* "sending" until the server's answer, then "decided"
    error

svars == <<snd, rcv, has_ended, local, remote, net, arrived, zero_rtt, error>>

Roles == {"client", "server"}
Types == {"bidi", "uni"}
Peer(r) == CHOOSE p \in Roles : p # r

\* StreamId: who initiated the stream and in which directions it goes.
IsRemoteInitiated(s, r) == s.by # r
IsUni(s) == s.type = "uni"
IsSendOnly(s, r) == IsUni(s) /\ s.by = r
IsRecvOnly(s, r) == IsUni(s) /\ s.by # r

NoSend == [state |-> "None", committed |-> FALSE, acked |-> {}]
NoRecv == [state |-> "None", got |-> {}, read |-> FALSE, final |-> FALSE]
NewSend == [NoSend EXCEPT !.state = "Ready"]
NewRecv == [NoRecv EXCEPT !.state = "Recv"]

Frame(to, s, kind) == [to |-> to, s |-> s, kind |-> kind]
MaxStreams(to, t, max) == [to |-> to, type |-> t, kind |-> "max_streams", max |-> max]

\* LocalStreamLimits: the indices this end may use.  RemoteStreamLimits: those the
\* peer may use, and the next it has not used.
LocalLimits(limit) == [limit |-> limit, used |-> 0]
RemoteLimits(max) == [max_allowed |-> max, max_active |-> max, retired |-> 0, next |-> 0]
CanTake(l) == l.used < l.limit
IsAllowed(l, index) == index < l.max_allowed
IsNewStream(l, index) == index >= l.next

\* Streams::new, and set_initial_limits once the transport parameters of the
\* peer are known; a resuming client starts with room for one stream.
SInit ==
    /\ snd = [r \in Roles |-> [s \in Ids |-> NoSend]]
    /\ rcv = [r \in Roles |-> [s \in Ids |-> NoRecv]]
    /\ has_ended = [r \in Roles |-> [send |-> FALSE, recv |-> FALSE]]
    /\ zero_rtt = IF Resumes THEN "sending" ELSE "decided"
    /\ local = [r \in Roles |-> [t \in Types |->
                  LocalLimits(IF Resumes /\ r = "client" THEN 1 ELSE Window[t])]]
    /\ remote = [r \in Roles |-> [t \in Types |-> RemoteLimits(Window[t])]]
    /\ net = {} /\ arrived = {}
    /\ error = "none"

-----------------------------------------------------------------------------
(* Ends of streams *)

SendEnded(h) == h.state \in {"DataRecvd", "ResetRecvd"}
RecvEnded(h) == h.state \in {"DataRead", "ResetRecvd"}

\* A table of streams of one end: what cleanup_closed_streams works on.
Table(r) == [snd |-> snd[r], rcv |-> rcv[r], ended |-> has_ended[r], remote |-> remote[r]]

\* SendStreams::remove_ended.
RemoveEndedSend(tb) ==
    LET gone == {s \in Ids : SendEnded(tb.snd[s])}
    IN IF ~tb.ended.send THEN tb
       ELSE [tb EXCEPT
               !.snd = [s \in Ids |-> IF s \in gone THEN NoSend ELSE tb.snd[s]],
               !.ended = [send |-> FALSE, recv |-> tb.ended.recv \/ gone # {}]]

\* Mutant: the sending half may still be there.
RemoveEndedRecvEarly(tb, r) ==
    LET gone == {s \in Ids : RecvEnded(tb.rcv[s])}
        Removed(t) == Cardinality({s \in gone : s.type = t /\ IsRemoteInitiated(s, r)})
    IN IF ~tb.ended.recv THEN tb
       ELSE [tb EXCEPT
               !.rcv = [s \in Ids |-> IF s \in gone THEN NoRecv ELSE tb.rcv[s]],
               !.ended.recv = FALSE,
               !.remote = [t \in Types |-> [tb.remote[t] EXCEPT !.retired = @ + Removed(t)]]]

\* RecvStreams::remove_ended, and the credit for the streams of the peer.
RemoveEndedRecv(tb, r) ==
    LET gone == {s \in Ids : RecvEnded(tb.rcv[s]) /\ (IsUni(s) \/ tb.snd[s] = NoSend)}
        Removed(t) == Cardinality({s \in gone : s.type = t /\ IsRemoteInitiated(s, r)})
    IN IF ~tb.ended.recv THEN tb
       ELSE [tb EXCEPT
               !.rcv = [s \in Ids |-> IF s \in gone THEN NoRecv ELSE tb.rcv[s]],
               !.ended.recv = FALSE,
               !.remote = [t \in Types |-> [tb.remote[t] EXCEPT !.retired = @ + Removed(t)]]]

CleanupClosedStreams(tb, r) == RemoveEndedRecv(RemoveEndedSend(tb), r)

\* The table after a datagram was processed: process_multiple_input ends with
\* cleanup_closed_streams.
Processed(tb, r) ==
    \E c \in {CleanupClosedStreams(tb, r)} :
        /\ snd' = [snd EXCEPT ![r] = c.snd]
        /\ rcv' = [rcv EXCEPT ![r] = c.rcv]
        /\ has_ended' = [has_ended EXCEPT ![r] = c.ended]
        /\ remote' = [remote EXCEPT ![r] = c.remote]

-----------------------------------------------------------------------------
(* The halves of a stream *)

\* SendStream::reset: the prefix that was committed and is not acknowledged is
\* still delivered.
ResetSend(h) ==
    IF h.state \notin {"Ready", "Send", "DataSent"} THEN h
    ELSE [h EXCEPT !.state = IF h.committed /\ "data" \notin h.acked THEN "Reliable"
                                                                      ELSE "ResetSent"]

\* SendStream::drop_commitment, called for STOP_SENDING.
DropCommitment(h) ==
    CASE h.state \in {"Send", "DataSent"} -> [h EXCEPT !.committed = FALSE]
      [] h.state = "Reliable" -> [h EXCEPT !.state = "ResetSent", !.committed = FALSE]
      [] h.state = "ReliableAcked" -> [h EXCEPT !.state = "ResetRecvd"]
      [] OTHER -> h

\* SendStream::mark_as_acked for the data or the FIN.
SendAcked(h, kind) ==
    LET a == h.acked \union {kind}
    IN CASE h.state = "DataSent" /\ a = {"data", "fin"} -> [h EXCEPT !.state = "DataRecvd"]
         [] h.state \in {"Send", "DataSent"} -> [h EXCEPT !.acked = a]
         [] h.state = "Reliable" /\ kind = "data" -> [h EXCEPT !.state = "ResetSent"]
         [] h.state = "ReliableAcked" /\ kind = "data" -> [h EXCEPT !.state = "ResetRecvd"]
         [] OTHER -> h

\* SendStream::reset_acked.
ResetAcked(h) ==
    CASE h.state = "ResetSent" -> [h EXCEPT !.state = "ResetRecvd"]
      [] h.state = "Reliable" -> [h EXCEPT !.state = "ReliableAcked"]
      [] OTHER -> h

\* RecvStream::inbound_stream_frame.
InboundStreamFrame(h, kind) ==
    LET g == h.got \union {kind}
    IN CASE h.state \in {"Recv", "SizeKnown"} ->
              [h EXCEPT !.got = g,
                        !.state = IF g = {"data", "fin"} THEN "DataRecvd"
                                  ELSE IF kind = "fin" THEN "SizeKnown" ELSE @]
         [] h.state = "SizeKnownAt" -> [h EXCEPT !.got = g]
         [] h.state = "AbortReading" -> [h EXCEPT !.final = @ \/ kind = "fin"]
         [] OTHER -> h

\* RecvStream::reset for RESET_STREAM and RESET_STREAM_AT, which promises the
\* data.
ResetRecv(h, kind) ==
    LET drained == kind = "reset" \/ h.read
    IN CASE h.state \in {"Recv", "SizeKnown"} ->
              [h EXCEPT !.state = IF drained THEN "ResetRecvd" ELSE "SizeKnownAt"]
         [] h.state = "SizeKnownAt" /\ kind = "reset" -> [h EXCEPT !.state = "ResetRecvd"]
         [] h.state \in {"AbortReading", "WaitForReset"} -> [h EXCEPT !.state = "ResetRecvd"]
         [] OTHER -> h

\* Mutant: the stream always waits for a RESET_STREAM.
StopSendingAckedWaits(h) ==
    IF h.state # "AbortReading" THEN h ELSE [h EXCEPT !.state = "WaitForReset"]

\* RecvStream::stop_sending_acked.
StopSendingAcked(h) ==
    IF h.state # "AbortReading" THEN h
    ELSE [h EXCEPT !.state = IF h.final THEN "ResetRecvd" ELSE "WaitForReset"]

\* RecvStream::read of all there is.
ReadRecv(h) ==
    CASE h.state = "DataRecvd" -> [h EXCEPT !.state = "DataRead", !.read = TRUE]
      [] h.state = "SizeKnownAt" -> [h EXCEPT !.state = "ResetRecvd", !.read = TRUE]
      [] OTHER -> [h EXCEPT !.read = TRUE]

\* RecvStream::stop_sending.
StopSending(h) ==
    CASE h.state \in {"Recv", "SizeKnown"} ->
           [h EXCEPT !.state = "AbortReading", !.final = h.state = "SizeKnown"]
      [] h.state = "DataRecvd" -> [h EXCEPT !.state = "DataRead"]
      [] h.state = "SizeKnownAt" -> [h EXCEPT !.state = "ResetRecvd"]
      [] OTHER -> h

-----------------------------------------------------------------------------
(* Opening streams *)

\* Streams::stream_create: LocalStreamLimits::take_stream_id gives the next
\* index if the peer allows one more.
StreamCreate(r, s) ==
    /\ error = "none" /\ s.by = r
    /\ local[r][s.type].used = s.index /\ CanTake(local[r][s.type])
    /\ local' = [local EXCEPT ![r][s.type].used = @ + 1]
    /\ snd' = [snd EXCEPT ![r][s] = NewSend]
    /\ rcv' = IF IsUni(s) THEN rcv ELSE [rcv EXCEPT ![r][s] = NewRecv]
    /\ UNCHANGED <<has_ended, remote, net, arrived, zero_rtt, error>>

\* Streams::ensure_created_if_remote: the stream and those before it.
Created(tb, s, r) ==
    LET new == {x \in Ids : /\ x.by = s.by /\ x.type = s.type
                            /\ IsNewStream(tb.remote[s.type], x.index) /\ x.index <= s.index}
    IN IF ~IsRemoteInitiated(s, r) \/ new = {} THEN tb
       ELSE [tb EXCEPT
               !.rcv = [x \in Ids |-> IF x \in new THEN NewRecv ELSE tb.rcv[x]],
               !.snd = [x \in Ids |-> IF x \in new /\ ~IsUni(x) THEN NewSend ELSE tb.snd[x]],
               !.remote[s.type].next = s.index + 1]

\* Mutant: a stream that is forgotten counts as one that never was.
ObtainErrorForgotten(tb, s, r) ==
    IF IsRemoteInitiated(s, r)
    THEN IF IsAllowed(remote[r][s.type], s.index) THEN "none" ELSE "StreamLimit"
    ELSE IF tb.snd[s] = NoSend /\ tb.rcv[s] = NoRecv THEN "StreamState" ELSE "none"

\* Streams::obtain_stream: how it fails.
ObtainError(tb, s, r) ==
    IF IsRemoteInitiated(s, r)
    THEN IF IsAllowed(remote[r][s.type], s.index) THEN "none" ELSE "StreamLimit"
    ELSE IF tb.snd[s] = NoSend /\ tb.rcv[s] = NoRecv /\ local[r][s.type].used <= s.index
         THEN "StreamState" ELSE "none"

-----------------------------------------------------------------------------
(* Frames *)

\* Streams::input_frame for STREAM, RESET_STREAM, RESET_STREAM_AT and
\* STOP_SENDING, in a datagram of its own.
Handled(tb, m) ==
    CASE m.kind \in {"data", "fin"} /\ tb.rcv[m.s] # NoRecv ->
           [tb EXCEPT !.rcv[m.s] = InboundStreamFrame(@, m.kind)]
      [] m.kind \in {"reset", "reset_at"} /\ tb.rcv[m.s] # NoRecv ->
           [tb EXCEPT !.rcv[m.s] = ResetRecv(@, m.kind),
                      !.ended.recv = @ \/ RecvEnded(ResetRecv(tb.rcv[m.s], m.kind))]
      [] m.kind = "stop" /\ tb.snd[m.s] # NoSend ->
           [tb EXCEPT !.snd[m.s] = ResetSend(DropCommitment(@))]
      [] OTHER -> tb

\* SendStream::write_reset_frame: RESET_STREAM_AT promises what was committed.
ResetFrames(r, s, h) ==
    IF h.state \notin {"Reliable", "ResetSent"} THEN {}
    ELSE {Frame(Peer(r), s, IF h.committed THEN "reset_at" ELSE "reset")}

InputFrame(m) ==
    LET r == m.to
    IN /\ error = "none" /\ m.kind # "max_streams" /\ zero_rtt = "decided"
       /\ arrived' = arrived \union {m}
       /\ \E tb \in {Created(Table(r), m.s, r)} :
            /\ error' = IF \/ m.kind = "stop" /\ IsRecvOnly(m.s, r)
                           \/ m.kind # "stop" /\ IsSendOnly(m.s, r)
                        THEN "StreamState" ELSE ObtainError(tb, m.s, r)
            /\ \E h \in {Handled(tb, m)} :
                 /\ Processed(h, r)
                 /\ net' = net \union (IF m.kind = "stop" THEN ResetFrames(r, m.s, h.snd[m.s])
                                                          ELSE {})
       /\ UNCHANGED <<local, zero_rtt>>

\* Streams::handle_max_streams.
HandleMaxStreams(m) ==
    /\ error = "none" /\ zero_rtt = "decided" /\ m.kind = "max_streams" /\ m \notin arrived
    /\ arrived' = arrived \union {m}
    /\ local' = [local EXCEPT ![m.to][m.type].limit = IF @ > m.max THEN @ ELSE m.max]
    /\ UNCHANGED <<snd, rcv, has_ended, remote, net, zero_rtt, error>>

\* ReceiverFlowControl<StreamType>::write_frames: the window moves with the
\* streams that were retired.
WriteMaxStreams(r, t) ==
    LET max == remote[r][t].retired + remote[r][t].max_active
    IN /\ error = "none" /\ max > remote[r][t].max_allowed
       /\ remote' = [remote EXCEPT ![r][t].max_allowed = max]
       /\ net' = net \union {MaxStreams(Peer(r), t, max)}
       /\ UNCHANGED <<snd, rcv, has_ended, local, arrived, zero_rtt, error>>

\* Streams::acked, in a datagram of its own.
Acked(m) ==
    LET r == Peer(m.to)
        tb == Table(r)
        After == CASE m.kind \in {"data", "fin"} /\ tb.snd[m.s] # NoSend ->
                        [tb EXCEPT !.snd[m.s] = SendAcked(@, m.kind),
                                   !.ended.send = @ \/ SendEnded(SendAcked(tb.snd[m.s], m.kind))]
                   [] m.kind \in {"reset", "reset_at"} /\ tb.snd[m.s] # NoSend ->
                        [tb EXCEPT !.snd[m.s] = ResetAcked(@),
                                   !.ended.send = @ \/ SendEnded(ResetAcked(tb.snd[m.s]))]
                   [] m.kind = "stop" /\ tb.rcv[m.s] # NoRecv ->
                        [tb EXCEPT !.rcv[m.s] = StopSendingAcked(@),
                                   !.ended.recv = @ \/ RecvEnded(StopSendingAcked(tb.rcv[m.s]))]
                   [] OTHER -> tb
    IN /\ error = "none" /\ m.kind # "max_streams"
       /\ Processed(After, r)
       /\ UNCHANGED <<local, net, arrived, zero_rtt, error>>

-----------------------------------------------------------------------------
(* The applications *)

\* Connection::stream_send, stream_close_send, stream_commit, stream_reset_send.
AppSends(r, s) ==
    /\ error = "none" /\ UNCHANGED <<rcv, has_ended, local, remote, arrived, zero_rtt, error>>
    /\ \/ /\ snd[r][s].state = "Ready"
          /\ snd' = [snd EXCEPT ![r][s].state = "Send"]
          /\ net' = net \union {Frame(Peer(r), s, "data")}
       \/ /\ snd[r][s].state = "Send"
          /\ snd' = [snd EXCEPT ![r][s].state = "DataSent"]
          /\ net' = net \union {Frame(Peer(r), s, "fin")}
       \/ /\ snd[r][s].state \in {"Send", "DataSent"} /\ ~snd[r][s].committed /\ r \in Commits
          /\ snd' = [snd EXCEPT ![r][s].committed = TRUE]
          /\ UNCHANGED net
       \/ /\ snd[r][s].state \in {"Ready", "Send", "DataSent"} /\ r \in Resets
          /\ snd' = [snd EXCEPT ![r][s] = ResetSend(@)]
          /\ net' = net \union ResetFrames(r, s, ResetSend(snd[r][s]))

\* A call of the application on the receiving half; RecvStreams notes its end.
OnRecvStream(r, s, h) ==
    /\ error = "none" /\ h # rcv[r][s]
    /\ rcv' = [rcv EXCEPT ![r][s] = h]
    /\ has_ended' = [has_ended EXCEPT ![r].recv = @ \/ RecvEnded(h)]
    /\ UNCHANGED <<snd, local, remote, arrived, zero_rtt, error>>

\* Connection::stream_recv, of all that is there.
AppReads(r, s) ==
    /\ "data" \in rcv[r][s].got
    /\ rcv[r][s].state \in {"Recv", "SizeKnown", "SizeKnownAt", "DataRecvd"}
    /\ OnRecvStream(r, s, ReadRecv(rcv[r][s]))
    /\ UNCHANGED net

\* Connection::stream_stop_sending.
AppStops(r, s) ==
    /\ r \in Stops
    /\ OnRecvStream(r, s, StopSending(rcv[r][s]))
    /\ net' = net \union (IF rcv'[r][s].state = "AbortReading"
                          THEN {Frame(Peer(r), s, "stop")} ELSE {})

\* Connection::process_timer also removes what ended.
ProcessTimer(r) ==
    /\ error = "none" /\ (has_ended[r].send \/ has_ended[r].recv)
    /\ Processed(Table(r), r)
    /\ UNCHANGED <<local, net, arrived, zero_rtt, error>>

\* Streams::set_remote_max_streams.
SetRemoteMaxStreams(r, t) ==
    /\ error = "none" /\ Raised[t] > remote[r][t].max_active
    /\ \E s \in Ids : s.type = t /\ IsRemoteInitiated(s, r)
    /\ remote' = [remote EXCEPT ![r][t].max_active = Raised[t]]
    /\ UNCHANGED <<snd, rcv, has_ended, local, net, arrived, zero_rtt, error>>

\* The server answers the client that resumed: its limits apply
\* (set_initial_limits), and if it rejected 0-RTT the streams are forgotten first
\* (zero_rtt_rejected); MAX_STREAMS counts as lost and is sent again.
ServerAnswers ==
    /\ zero_rtt = "sending" /\ zero_rtt' = "decided"
    /\ \/ /\ local' = [local EXCEPT !["client"] = [t \in Types |->
                         [@[t] EXCEPT !.limit = IF @ > Window[t] THEN @ ELSE Window[t]]]]
          /\ UNCHANGED <<snd, rcv, has_ended, net>>
       \/ /\ local' = [local EXCEPT !["client"] = [t \in Types |-> LocalLimits(Window[t])]]
          /\ snd' = [snd EXCEPT !["client"] = [s \in Ids |-> NoSend]]
          /\ rcv' = [rcv EXCEPT !["client"] = [s \in Ids |-> NoRecv]]
          /\ has_ended' = [has_ended EXCEPT !["client"] = [send |-> FALSE, recv |-> FALSE]]
          /\ net' = {m \in net : m.kind = "max_streams"}
    /\ UNCHANGED <<remote, arrived, error>>

SNext ==
    \/ \E m \in net : InputFrame(m) \/ HandleMaxStreams(m)
    \/ \E m \in arrived : Acked(m)
    \/ \E r \in Roles :
         \/ \E s \in Ids : StreamCreate(r, s) \/ AppSends(r, s) \/ AppReads(r, s) \/ AppStops(r, s)
         \/ \E t \in Types : WriteMaxStreams(r, t) \/ SetRemoteMaxStreams(r, t)
         \/ ProcessTimer(r)
    \/ ServerAnswers

-----------------------------------------------------------------------------
(* Properties *)

\* Two ends that follow the rules never tear the connection down: no frame,
\* however late or repeated, names a stream over the limit (StreamLimit) or one
\* that obtain_stream takes for one that never existed (StreamState).
NoStreamError == error = "none"

\* A stream of the peer gives back its credit exactly when its last half is
\* forgotten, so the peer never has more streams open than the window.
CreditForForgotten ==
    \A r \in Roles, t \in Types :
        LET mine == {s \in Ids : IsRemoteInitiated(s, r) /\ s.type = t /\ s.index < remote[r][t].next}
            live == {s \in mine : snd[r][s] # NoSend \/ rcv[r][s] # NoRecv}
        IN /\ remote[r][t].retired = Cardinality(mine) - Cardinality(live)
           /\ Cardinality(live) <= remote[r][t].max_active

\* What the ends would still retransmit: not acknowledged, and not given up.
Pending(m) ==
    IF m.kind = "max_streams"
    THEN m \notin arrived /\ m.max = remote[Peer(m.to)][m.type].max_allowed
    ELSE LET h == snd[Peer(m.to)][m.s]
         IN CASE m.kind = "data" -> /\ h.state \in {"Send", "DataSent", "Reliable", "ReliableAcked"}
                                    /\ "data" \notin h.acked
              [] m.kind = "fin" -> h.state = "DataSent" /\ "fin" \notin h.acked
              [] m.kind \in {"reset", "reset_at"} -> h.state \in {"Reliable", "ResetSent"}
              [] m.kind = "stop" -> rcv[Peer(m.to)][m.s].state = "AbortReading"

Quiet ==
    /\ \A m \in net : ~Pending(m)
    /\ \A r \in Roles : ~has_ended[r].send /\ ~has_ended[r].recv
    /\ \A r \in Roles, t \in Types :
         remote[r][t].retired + remote[r][t].max_active = remote[r][t].max_allowed

\* When nothing is in flight and the applications have closed and read what they
\* can, no half of any stream is left at either end, and each end may again
\* open as many streams as the window of the other allows.
NothingLeftBehind ==
    (/\ Quiet /\ zero_rtt = "decided"
     /\ \A r \in Roles, s \in Ids : /\ snd[r][s].state \notin {"Ready", "Send"}
                                    /\ rcv[r][s].state \notin {"DataRecvd", "SizeKnownAt"})
    => \A r \in Roles :
         /\ \A s \in Ids : snd[r][s] = NoSend /\ rcv[r][s] = NoRecv
         /\ \A t \in Types :
              local[r][t].limit = local[r][t].used + remote[Peer(r)][t].max_active

=============================================================================
