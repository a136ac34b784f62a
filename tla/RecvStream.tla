----------------------------- MODULE RecvStream -----------------------------
(***************************************************************************)
(* The receiving part of one QUIC stream: RecvStream and RecvStreamState   *)
(* (recv_stream.rs), with both flow controllers it accounts to and the     *)
(* events it raises.  What the reassembly buffer does is taken from        *)
(* RxBytes.  The peer may send any frames at all; an error ends the        *)
(* connection.                                                             *)
(***************************************************************************)
EXTENDS Integers, FiniteSets, FiniteSetsExt, Sequences, SequencesExt, SequenceTheorems, WellFoundedInduction, TLAPS

CONSTANTS
    MaxOffset,       \* bound: the bytes are 0 .. MaxOffset - 1
    Window,          \* max_active of the stream
    SessionWindow,   \* max_active of the connection
    Errors,          \* application error codes in reset frames
    MaxTokens,       \* bound: MAX_STREAM_DATA and STOP_SENDING frames outstanding
    MaxTokenLosses   \* bound: how many of them are lost

VARIABLES
    rs,              \* the stream
    session_fc,      \* the connection's receiver flow control
    out,             \* frames sent to the peer and not yet acknowledged
    token_losses,
    error            \* what closed the connection, or "none"

rvars == <<rs, session_fc, out, token_losses, error>>

Rx == INSTANCE RxBytes WITH got <- rs.got, taken <- rs.read

WINDOW_UPDATE_FRACTION == 4
SatSub(a, b) == IF a >= b THEN a - b ELSE 0

RInit ==
    /\ rs = [state |-> "Recv", got |-> {}, read |-> 0,
             fc |-> [consumed |-> 0, retired |-> 0, max_allowed |-> Window, frame_pending |-> FALSE],
             final_size_reached |-> FALSE, frame_needed |-> FALSE, err |-> 0,
             final_size |-> 0, reliable_size |-> 0,
             readable |-> FALSE, owes |-> FALSE, stopped |-> FALSE, fin_read |-> FALSE]
    /\ session_fc = [consumed |-> 0, retired |-> 0, max_allowed |-> SessionWindow]
    /\ out = <<>> /\ token_losses = 0 /\ error = "none"

-----------------------------------------------------------------------------
(* Flow control: w = [rs, session] is the state while a handler runs.      *)

Now == [rs |-> rs, session |-> session_fc, error |-> "none"]

\* flow_control_retire_data(): add_retired() on the stream and the connection.
Retire(w, count) ==
    LET retired == w.rs.fc.retired + count
        due == w.rs.fc.max_allowed - retired < Window - Window \div WINDOW_UPDATE_FRACTION
    IN  IF count = 0 THEN w
        ELSE [w EXCEPT !.rs.fc.retired = retired,
                       !.rs.fc.frame_pending = @ \/ due,
                       !.session.retired = @ + count]

RetireAll(w) == Retire(w, w.rs.fc.consumed - w.rs.fc.retired)

Ended(r) == r.state \in {"DataRead", "ResetRecvd"}
SizeIsKnown(r) == \/ r.state \in {"SizeKnown", "SizeKnownAt", "DataRecvd"}
                  \/ r.state = "AbortReading" /\ r.final_size_reached
Buffering(r) == r.state \in {"Recv", "SizeKnown", "SizeKnownAt", "DataRecvd"}

\* Variant: data beyond a known final size is accepted.
SizeOkOnFin(r, consumed, fin) ==
    fin => IF SizeIsKnown(r) THEN consumed = r.fc.consumed ELSE consumed >= r.fc.consumed
\* The final size may not change, and nothing lies beyond it.
SizeOk(r, consumed, fin) ==
    /\ fin /\ SizeIsKnown(r) => consumed = r.fc.consumed
    /\ ~fin /\ SizeIsKnown(r) => consumed <= r.fc.consumed
    /\ fin /\ ~SizeIsKnown(r) => consumed >= r.fc.consumed

\* flow_control_consume_data(): check the final size, then charge both controllers.
Consume(w, consumed, fin) ==
    LET r == w.rs
        fresh == SatSub(consumed, r.fc.consumed)
        flagged == IF r.state = "AbortReading"
                   THEN [w EXCEPT !.rs.final_size_reached = @ \/ fin] ELSE w
        charged == [flagged EXCEPT !.rs.fc.consumed = @ + fresh, !.session.consumed = @ + fresh]
    IN  IF Ended(r) THEN w
        ELSE IF ~SizeOk(r, consumed, fin) THEN [flagged EXCEPT !.error = "FinalSize"]
        ELSE IF fresh > 0 /\ consumed > r.fc.max_allowed
        THEN [flagged EXCEPT !.error = "FlowControl"]
        ELSE IF w.session.consumed + fresh > w.session.max_allowed
        THEN [flagged EXCEPT !.rs.fc.consumed = @ + fresh, !.error = "FlowControl"]
        ELSE IF r.state \in {"AbortReading", "WaitForReset"} THEN RetireAll(charged)
        ELSE charged

\* What a handler leaves behind.
Done(w) == rs' = w.rs /\ session_fc' = w.session /\ error' = w.error

-----------------------------------------------------------------------------
(* Frames from the peer *)

data_ready(r) == Buffering(r) /\ r.read \in r.got

\* Variant: a FIN without data is not announced.
SignalledData(w, already) ==
    IF ~already /\ data_ready(w.rs) THEN [w EXCEPT !.rs.readable = TRUE] ELSE w
\* The last part of inbound_stream_frame().
Signalled(w, already) ==
    IF ~already /\ (data_ready(w.rs) \/ w.rs.state = "DataRecvd")
    THEN [w EXCEPT !.rs.readable = TRUE] ELSE w

StreamFrame(w0, off, len, fin) ==
    LET w == Consume(w0, off + len, fin)
        keep == IF w.rs.state = "SizeKnownAt"
                THEN Min({len, SatSub(w.rs.reliable_size, off)}) ELSE len
        got == Rx!Arrived(w.rs.got, off, keep)
        next == IF w.rs.state \in {"Recv", "SizeKnown"} /\ (fin \/ w.rs.state = "SizeKnown")
                THEN IF Rx!Sequential(got) = w.rs.fc.consumed THEN "DataRecvd" ELSE "SizeKnown"
                ELSE w.rs.state
    IN  IF w.error # "none" THEN w
        ELSE IF w.rs.state \in {"Recv", "SizeKnown", "SizeKnownAt"}
        THEN Signalled([w EXCEPT !.rs.got = got, !.rs.state = next], data_ready(w0.rs))
        ELSE Signalled(w, data_ready(w0.rs))

inbound_stream_frame(off, len, fin) ==
    /\ error = "none"
    /\ Done(StreamFrame(Now, off, len, fin))
    /\ UNCHANGED <<out, token_losses>>

\* Variant: the credit is kept.
FinishKeepsCredit(w, final_size) == [w EXCEPT !.rs.state = "ResetRecvd", !.rs.readable = FALSE]
\* finish_reset(): release the credit that is left and surface the reset.
finish_reset(w, final_size) ==
    LET r == Retire(w, final_size - w.rs.fc.retired)
    IN  [r EXCEPT !.rs.state = "ResetRecvd", !.rs.readable = FALSE]

\* Variant: the reset does not wait for the reader.
CompleteAtOnce(w) == finish_reset(w, w.rs.final_size)
complete_reliable_reset_if_drained(w) ==
    IF w.rs.read < w.rs.reliable_size THEN w ELSE finish_reset(w, w.rs.final_size)

\* retire_undeliverable(), once the reset's sizes are stored.
retire_undeliverable(w) ==
    LET still_needed == SatSub(w.rs.reliable_size, w.rs.read)
    IN  Retire(w, SatSub(w.rs.final_size - still_needed, w.rs.fc.retired))

ResetFrame(w0, err, final_size, reliable_size) ==
    LET w == Consume(w0, final_size, TRUE)
        known == [w EXCEPT !.rs.state = "SizeKnownAt", !.rs.err = err,
                           !.rs.final_size = final_size, !.rs.reliable_size = reliable_size,
                           !.rs.got = Rx!Discarded(@, Max({reliable_size, w.rs.read}))]
        reduced == [w EXCEPT !.rs.reliable_size = reliable_size,
                             !.rs.got = Rx!Discarded(@, Max({reliable_size, w.rs.read}))]
    IN  IF w.error # "none" THEN w
        ELSE CASE w.rs.state \in {"Recv", "SizeKnown"} ->
                    complete_reliable_reset_if_drained(retire_undeliverable(known))
               [] w.rs.state = "SizeKnownAt" /\ err # w.rs.err -> [w EXCEPT !.error = "StreamState"]
               [] w.rs.state = "SizeKnownAt" /\ err = w.rs.err /\ reliable_size < w.rs.reliable_size ->
                    complete_reliable_reset_if_drained(retire_undeliverable(reduced))
               [] w.rs.state \in {"AbortReading", "WaitForReset"} -> finish_reset(w, final_size)
               [] OTHER -> w

\* reset(); a reliable size beyond the final size is already refused by the decoder.
reset_frame(err, final_size, reliable_size) ==
    /\ error = "none"
    /\ reliable_size <= final_size
    /\ Done(ResetFrame(Now, err, final_size, reliable_size))
    /\ UNCHANGED <<out, token_losses>>

\* STREAM_DATA_BLOCKED
send_flowc_update ==
    /\ error = "none"
    /\ rs.state = "Recv" /\ rs.fc.retired + Window > rs.fc.max_allowed
    /\ rs' = [rs EXCEPT !.fc.frame_pending = TRUE]
    /\ UNCHANGED <<session_fc, out, token_losses, error>>

-----------------------------------------------------------------------------
(* The application *)

\* The application takes the RecvStreamReadable event and has to read until a
\* read comes back short.
TakeReadable ==
    /\ error = "none" /\ rs.readable
    /\ rs' = [rs EXCEPT !.readable = FALSE, !.owes = TRUE]
    /\ UNCHANGED <<session_fc, out, token_losses, error>>

read(n) ==
    LET copied == Min({n, Rx!Sequential(rs.got) - rs.read})
        more == rs.owes /\ copied = n
        w == Retire([Now EXCEPT !.rs.read = @ + copied, !.rs.owes = more], copied)
        drained == {b \in w.rs.got : b >= w.rs.read} = {}
    IN  /\ error = "none"
        /\ Buffering(rs)
        /\ CASE rs.state = "DataRecvd" /\ drained ->
                  Done([w EXCEPT !.rs.state = "DataRead", !.rs.fin_read = TRUE,
                                 !.rs.readable = FALSE])
             [] rs.state = "SizeKnownAt" -> Done(complete_reliable_reset_if_drained(w))
             [] OTHER -> Done(w)
        /\ UNCHANGED <<out, token_losses>>

stop_sending ==
    LET w == RetireAll([Now EXCEPT !.rs.stopped = TRUE])
    IN  /\ error = "none"
        /\ Buffering(rs)
        /\ CASE rs.state \in {"Recv", "SizeKnown"} ->
                  Done([w EXCEPT !.rs.state = "AbortReading", !.rs.frame_needed = TRUE,
                                 !.rs.final_size_reached = (rs.state = "SizeKnown")])
             [] rs.state = "DataRecvd" ->
                  Done([w EXCEPT !.rs.state = "DataRead", !.rs.readable = FALSE])
             [] rs.state = "SizeKnownAt" ->
                  Done(finish_reset([Now EXCEPT !.rs.stopped = TRUE], rs.final_size))
        /\ UNCHANGED <<out, token_losses>>

-----------------------------------------------------------------------------
(* Frames to the peer *)

NextMax == rs.fc.retired + Window

\* write_frame(): MAX_STREAM_DATA only while more data can come, STOP_SENDING
\* until it is acknowledged.
write_frame ==
    /\ error = "none" /\ Len(out) < MaxTokens
    /\ \/ /\ rs.state = "Recv" /\ rs.fc.frame_pending
          /\ rs' = [rs EXCEPT !.fc.max_allowed = NextMax, !.fc.frame_pending = FALSE]
          /\ out' = Append(out, [kind |-> "max", value |-> NextMax, got |-> FALSE, lost |-> FALSE])
       \/ /\ rs.state = "AbortReading" /\ rs.frame_needed
          /\ rs' = [rs EXCEPT !.frame_needed = FALSE]
          /\ out' = Append(out, [kind |-> "stop", value |-> 0, got |-> FALSE, lost |-> FALSE])
    /\ UNCHANGED <<session_fc, token_losses, error>>

\* The connection sends MAX_DATA.
WriteMaxData ==
    /\ error = "none"
    /\ session_fc.retired + SessionWindow > session_fc.max_allowed
    /\ session_fc' = [session_fc EXCEPT !.max_allowed = session_fc.retired + SessionWindow]
    /\ UNCHANGED <<rs, out, token_losses, error>>

\* max_stream_data_lost() and stop_sending_lost()
TokenLost(i) ==
    /\ error = "none" /\ ~out[i].lost /\ token_losses < MaxTokenLosses
    /\ token_losses' = token_losses + 1
    /\ out' = [out EXCEPT ![i].lost = TRUE]
    /\ rs' = CASE out[i].kind = "max" /\ rs.state = "Recv" /\ out[i].value = rs.fc.max_allowed ->
                     [rs EXCEPT !.fc.frame_pending = TRUE]
               [] out[i].kind = "stop" /\ rs.state = "AbortReading" ->
                     [rs EXCEPT !.frame_needed = TRUE]
               [] OTHER -> rs
    /\ UNCHANGED <<session_fc, error>>

\* stop_sending_acked()
stop_sending_acked(r) ==
    IF r.state # "AbortReading" THEN r
    ELSE [r EXCEPT !.state = IF r.final_size_reached THEN "ResetRecvd" ELSE "WaitForReset"]

TokenAcked(i) ==
    /\ error = "none"
    /\ out' = RemoveAt(out, i)
    /\ rs' = IF out[i].kind = "stop" THEN stop_sending_acked(rs) ELSE rs
    /\ UNCHANGED <<session_fc, token_losses, error>>

\* A lost packet is forgotten.
TokenExpired(i) ==
    /\ error = "none" /\ out[i].lost
    /\ out' = RemoveAt(out, i)
    /\ UNCHANGED <<rs, session_fc, token_losses, error>>

Peer == \/ \E off \in 0 .. MaxOffset : \E len \in 0 .. (MaxOffset - off), fin \in BOOLEAN :
              inbound_stream_frame(off, len, fin)
        \/ \E err \in Errors, final_size \in 0 .. MaxOffset : \E reliable_size \in 0 .. final_size :
              reset_frame(err, final_size, reliable_size)
        \/ send_flowc_update

Reader == TakeReadable \/ (\E n \in 1 .. MaxOffset : read(n)) \/ stop_sending

RNext == \/ Peer \/ Reader \/ write_frame \/ WriteMaxData
         \/ \E i \in DOMAIN out : TokenLost(i) \/ TokenAcked(i) \/ TokenExpired(i)

RSpec == RInit /\ [][RNext]_rvars

-----------------------------------------------------------------------------
(* Properties *)

\* States and counters; offsets stay within what the peer may send.
RTypeOK ==
    /\ rs.state \in {"Recv", "SizeKnown", "SizeKnownAt", "DataRecvd", "DataRead",
                     "AbortReading", "WaitForReset", "ResetRecvd"}
    /\ rs.got \subseteq 0 .. (MaxOffset - 1) /\ rs.read \in 0 .. MaxOffset
    /\ rs.fc.consumed \in 0 .. MaxOffset /\ rs.fc.retired \in 0 .. MaxOffset
    /\ Len(out) <= MaxTokens
    /\ error \in {"none", "FinalSize", "FlowControl", "StreamState"}

\* No credit is retired that was not consumed (the debug_asserts of add_retired,
\* and the subtractions of finish_reset and retire_undeliverable), and the
\* stream charges the connection for exactly what it charges itself.
CreditAccounted ==
    error = "none" =>
        /\ rs.fc.retired <= rs.fc.consumed
        /\ session_fc.consumed = rs.fc.consumed
        /\ session_fc.retired = rs.fc.retired

\* No credit leaks: whatever way a stream ends (read to the end, reset, reset
\* with a reliable prefix, stopped with or without a known final size), all the
\* connection credit it used has been given back.
NoCreditLeak ==
    error = "none" /\ Ended(rs) => session_fc.retired = session_fc.consumed

\* Until it ends, the stream holds back exactly the credit of bytes that the
\* application can still read, so that a reset returns the rest at once.
CreditHeldForUnread ==
    error = "none" =>
        CASE rs.state \in {"Recv", "SizeKnown", "DataRecvd"} -> rs.fc.retired = rs.read
          [] rs.state = "SizeKnownAt" ->
                rs.fc.consumed - rs.fc.retired = rs.reliable_size - rs.read
          [] OTHER -> rs.fc.retired = rs.fc.consumed

\* The application is never left waiting: when there is something to read, or
\* a FIN to be told of, a readable event is queued or the application has one
\* that it has not finished serving.
ReaderIsTold ==
    error = "none" /\ (data_ready(rs) \/ rs.state = "DataRecvd") => rs.readable \/ rs.owes

\* A reset surfaces only after the reliable prefix was read, unless the
\* application gave up on the stream.
PrefixBeforeReset ==
    rs.state = "ResetRecvd" /\ ~rs.stopped => rs.read >= rs.reliable_size

\* Once the final size is known it stays: no frame is charged beyond it and the
\* FIN the application reads is at that size.
FinalSizeStays ==
    /\ SizeIsKnown(rs) => rs'.fc.consumed = rs.fc.consumed
    /\ rs'.fin_read => rs'.read = rs'.fc.consumed

-----------------------------------------------------------------------------
(* Proofs, for streams of any length and any windows.  IInv is the         *)
(* inductive invariant: the types, what holds of the stream even after an  *)
(* error, how it and the connection's credit belong together until then,   *)
(* and that the reader was told.                                           *)

States == {"Recv", "SizeKnown", "SizeKnownAt", "DataRecvd", "DataRead",
           "AbortReading", "WaitForReset", "ResetRecvd"}
FcType == [consumed : Nat, retired : Nat, max_allowed : Nat, frame_pending : BOOLEAN]
StreamType ==
    [state : States, got : SUBSET Nat, read : Nat, fc : FcType, final_size_reached : BOOLEAN,
     frame_needed : BOOLEAN, err : Errors \cup {0}, final_size : Nat, reliable_size : Nat, readable : BOOLEAN,
     owes : BOOLEAN, stopped : BOOLEAN, fin_read : BOOLEAN]
SessionType == [consumed : Nat, retired : Nat, max_allowed : Nat]
WorkType == [rs : StreamType, session : SessionType, error : {"none", "FinalSize", "FlowControl", "StreamState"}]

\* Two states of a stream that differ in their credit only.
SameBut(r, q) ==
    /\ q.state = r.state /\ q.got = r.got /\ q.read = r.read
    /\ q.err = r.err /\ q.final_size = r.final_size /\ q.reliable_size = r.reliable_size
    /\ q.readable = r.readable /\ q.owes = r.owes /\ q.stopped = r.stopped /\ q.fin_read = r.fin_read

ConstantsOK == MaxOffset \in Nat /\ Window \in Nat /\ SessionWindow \in Nat /\ MaxTokens \in Nat

ErrorKinds == {"none", "FinalSize", "FlowControl", "StreamState"}
TokenType == [kind : {"max", "stop"}, value : Nat, got : BOOLEAN, lost : BOOLEAN]

\* What holds of a stream even when the connection is closed with an error.
Always(r) ==
    /\ r.got \subseteq 0 .. (MaxOffset - 1) /\ r.read <= MaxOffset
    /\ r.fc.consumed <= MaxOffset /\ r.fc.retired <= MaxOffset
    /\ r.state = "ResetRecvd" /\ ~r.stopped => r.read >= r.reliable_size
    /\ r.fin_read => r.state = "DataRead" /\ r.read = r.fc.consumed

\* What ties a stream to the connection's credit until then.
Sound(r, s) ==
    /\ r.fc.retired <= r.fc.consumed /\ s.consumed = r.fc.consumed /\ s.retired = r.fc.retired
    /\ Buffering(r) => /\ \A b \in r.got : b < r.fc.consumed
                       /\ \A b \in Nat : b < r.read => b \in r.got
    /\ r.state \in {"Recv", "SizeKnown", "DataRecvd"} => r.fc.retired = r.read
    /\ r.state = "DataRecvd" => \A b \in Nat : b < r.fc.consumed => b \in r.got
    /\ r.state = "SizeKnownAt" =>
          /\ r.final_size = r.fc.consumed /\ r.reliable_size <= r.final_size
          /\ r.fc.consumed - r.fc.retired = r.reliable_size - r.read
          /\ \A b \in r.got : b < r.reliable_size
    /\ ~Buffering(r) => r.fc.retired = r.fc.consumed
    /\ r.state \in {"AbortReading", "WaitForReset"} => r.stopped

Told(r) == data_ready(r) \/ r.state = "DataRecvd" => r.readable \/ r.owes

IInv ==
    /\ rs \in StreamType /\ session_fc \in SessionType /\ error \in ErrorKinds
    /\ out \in Seq(TokenType) /\ Len(out) <= MaxTokens
    /\ Always(rs) /\ (error = "none" => Sound(rs, session_fc) /\ Told(rs))

LEMMA RetireIs ==
    ASSUME NEW w \in WorkType, NEW count \in Nat, Window \in Nat
    PROVE  LET q == Retire(w, count) IN
           /\ q \in WorkType /\ q.error = w.error /\ SameBut(w.rs, q.rs)
           /\ q.rs.final_size_reached = w.rs.final_size_reached
           /\ q.rs.fc.consumed = w.rs.fc.consumed /\ q.rs.fc.retired = w.rs.fc.retired + count
           /\ q.session.consumed = w.session.consumed /\ q.session.retired = w.session.retired + count
<1> DEFINE retired == w.rs.fc.retired + count
           due == w.rs.fc.max_allowed - retired < Window - Window \div WINDOW_UPDATE_FRACTION
           pending == w.rs.fc.frame_pending \/ due
           fc == [w.rs.fc EXCEPT !.retired = retired, !.frame_pending = pending]
           s == [w.session EXCEPT !.retired = @ + count]
           r == [w.rs EXCEPT !.fc = fc]
<1>1. w.rs \in StreamType /\ w.session \in SessionType /\ w.rs.fc \in FcType
  BY DEF WorkType, StreamType
<1>2. retired \in Nat /\ pending \in BOOLEAN
  BY <1>1 DEF FcType
<1> HIDE DEF retired, pending, due
<1>3. fc \in FcType /\ fc.consumed = w.rs.fc.consumed /\ fc.retired = retired
  BY <1>1, <1>2 DEF FcType
<1>4. s \in SessionType /\ s.consumed = w.session.consumed /\ s.retired = w.session.retired + count
  BY <1>1 DEF SessionType
<1> HIDE DEF fc, s
<1>5. r \in StreamType /\ SameBut(w.rs, r) /\ r.final_size_reached = w.rs.final_size_reached /\ r.fc = fc
  BY <1>1, <1>3 DEF StreamType, SameBut
<1> HIDE DEF r
<1>6. CASE count = 0
  BY <1>1, <1>6 DEF Retire, SameBut, FcType, SessionType
<1>7. CASE count # 0
  <2>1. Retire(w, count) = [rs |-> r, session |-> s, error |-> w.error]
    BY <1>7 DEF Retire, WorkType, r, s, fc, retired, pending, due
  <2> QED
    BY <2>1, <1>3, <1>4, <1>5 DEF WorkType, retired
<1> QED
  BY <1>6, <1>7
LEMMA RetireAllIs ==
    ASSUME NEW w \in WorkType, Window \in Nat, w.rs.fc.retired <= w.rs.fc.consumed
    PROVE  LET q == RetireAll(w) IN
           /\ q \in WorkType /\ q.error = w.error /\ SameBut(w.rs, q.rs)
           /\ q.rs.final_size_reached = w.rs.final_size_reached
           /\ q.rs.fc.consumed = w.rs.fc.consumed /\ q.rs.fc.retired = w.rs.fc.consumed
           /\ q.session.consumed = w.session.consumed
           /\ q.session.retired = w.session.retired + (w.rs.fc.consumed - w.rs.fc.retired)
<1> DEFINE count == w.rs.fc.consumed - w.rs.fc.retired
<1>1. w.rs.fc.consumed \in Nat /\ w.rs.fc.retired \in Nat
  BY DEF WorkType, StreamType, FcType
<1>2. count \in Nat /\ w.rs.fc.retired + count = w.rs.fc.consumed
  BY <1>1
<1>3. RetireAll(w) = Retire(w, count)
  BY DEF RetireAll
<1> HIDE DEF count
<1>4. LET q == Retire(w, count) IN
      /\ q \in WorkType /\ q.error = w.error /\ SameBut(w.rs, q.rs)
      /\ q.rs.final_size_reached = w.rs.final_size_reached
      /\ q.rs.fc.consumed = w.rs.fc.consumed /\ q.rs.fc.retired = w.rs.fc.retired + count
      /\ q.session.consumed = w.session.consumed /\ q.session.retired = w.session.retired + count
  BY <1>2, RetireIs
<1> QED
  BY <1>2, <1>3, <1>4 DEF count

\* The first part of flow_control_consume_data(), which may note the final size.
LEMMA FlaggedIs ==
    ASSUME NEW w \in WorkType, NEW fin \in BOOLEAN
    PROVE  LET f == IF w.rs.state = "AbortReading" THEN [w EXCEPT !.rs.final_size_reached = @ \/ fin] ELSE w IN
           /\ f \in WorkType /\ f.error = w.error /\ SameBut(w.rs, f.rs)
           /\ f.rs.fc = w.rs.fc /\ f.session = w.session
<1>1. w.rs \in StreamType
  BY DEF WorkType
<1> DEFINE r == [w.rs EXCEPT !.final_size_reached = @ \/ fin]
<1>2. r \in StreamType /\ SameBut(w.rs, r) /\ r.fc = w.rs.fc
  BY <1>1 DEF StreamType, SameBut
<1>3. CASE w.rs.state = "AbortReading"
  <2>1. [w EXCEPT !.rs.final_size_reached = @ \/ fin] = [rs |-> r, session |-> w.session, error |-> w.error]
    BY DEF WorkType
  <2> HIDE DEF r
  <2> QED
    BY <1>2, <1>3, <2>1 DEF WorkType
<1>4. CASE w.rs.state # "AbortReading"
  BY <1>4 DEF SameBut
<1> QED
  BY <1>3, <1>4

LEMMA SameButIs ==
    ASSUME NEW r, NEW q, NEW p, SameBut(r, q), SameBut(q, p)
    PROVE  SameBut(r, p)
  BY DEF SameBut

LEMMA ChargedIs ==
    ASSUME NEW f \in WorkType, NEW fresh \in Nat
    PROVE  /\ LET q == [f EXCEPT !.rs.fc.consumed = @ + fresh, !.session.consumed = @ + fresh] IN
              /\ q \in WorkType /\ q.error = f.error /\ SameBut(f.rs, q.rs)
              /\ q.rs.fc.consumed = f.rs.fc.consumed + fresh /\ q.rs.fc.retired = f.rs.fc.retired
              /\ q.session.consumed = f.session.consumed + fresh /\ q.session.retired = f.session.retired
           /\ LET q == [f EXCEPT !.rs.fc.consumed = @ + fresh, !.error = "FlowControl"] IN
              /\ q \in WorkType /\ q.error = "FlowControl" /\ SameBut(f.rs, q.rs)
              /\ q.rs.fc.consumed = f.rs.fc.consumed + fresh /\ q.rs.fc.retired = f.rs.fc.retired
<1> DEFINE fc == [f.rs.fc EXCEPT !.consumed = @ + fresh]
           r == [f.rs EXCEPT !.fc = fc]
           s == [f.session EXCEPT !.consumed = @ + fresh]
<1>1. f.rs \in StreamType /\ f.session \in SessionType /\ f.rs.fc \in FcType
  BY DEF WorkType, StreamType
<1>2. fc \in FcType /\ fc.consumed = f.rs.fc.consumed + fresh /\ fc.retired = f.rs.fc.retired
  BY <1>1 DEF FcType
<1>3. s \in SessionType /\ s.consumed = f.session.consumed + fresh /\ s.retired = f.session.retired
  BY <1>1 DEF SessionType
<1> HIDE DEF fc, s
<1>4. r \in StreamType /\ SameBut(f.rs, r) /\ r.fc = fc
  BY <1>1, <1>2 DEF StreamType, SameBut
<1> HIDE DEF r
<1>5. LET q == [f EXCEPT !.rs.fc.consumed = @ + fresh, !.session.consumed = @ + fresh] IN
      q \in WorkType /\ q.rs = r /\ q.session = s /\ q.error = f.error
  <2>1. [f EXCEPT !.rs.fc.consumed = @ + fresh, !.session.consumed = @ + fresh] = [f EXCEPT !.rs = r, !.session = s]
    BY <1>1 DEF WorkType, StreamType, r, s, fc
  <2>2. LET q == [f EXCEPT !.rs = r, !.session = s] IN
        q \in WorkType /\ q.rs = r /\ q.session = s /\ q.error = f.error
    BY <1>3, <1>4 DEF WorkType
  <2> QED
    BY <2>1, <2>2
<1>6. LET q == [f EXCEPT !.rs.fc.consumed = @ + fresh, !.error = "FlowControl"] IN
      q \in WorkType /\ q.rs = r /\ q.error = "FlowControl"
  <2>1. [f EXCEPT !.rs.fc.consumed = @ + fresh, !.error = "FlowControl"] = [f EXCEPT !.rs = r, !.error = "FlowControl"]
    BY <1>1 DEF WorkType, StreamType, r, fc
  <2>2. LET q == [f EXCEPT !.rs = r, !.error = "FlowControl"] IN
        q \in WorkType /\ q.rs = r /\ q.error = "FlowControl"
    BY <1>4 DEF WorkType
  <2> QED
    BY <2>1, <2>2
<1> QED
  BY <1>2, <1>3, <1>4, <1>5, <1>6

\* What charging for data up to an offset leaves behind.
Charged(w, q, consumed, fin) ==
    /\ SizeOk(w.rs, consumed, fin)
    /\ q.rs.fc.consumed = IF consumed > w.rs.fc.consumed THEN consumed ELSE w.rs.fc.consumed
    /\ q.session.consumed = w.session.consumed + (q.rs.fc.consumed - w.rs.fc.consumed)
    /\ IF w.rs.state \in {"AbortReading", "WaitForReset"}
       THEN /\ q.rs.fc.retired = q.rs.fc.consumed
            /\ q.session.retired = w.session.retired + (q.rs.fc.consumed - w.rs.fc.retired)
       ELSE q.rs.fc.retired = w.rs.fc.retired /\ q.session.retired = w.session.retired

LEMMA ConsumeIs ==
    ASSUME NEW w \in WorkType, NEW consumed \in Nat, NEW fin \in BOOLEAN, Window \in Nat,
           w.error = "none", w.rs.fc.retired <= w.rs.fc.consumed
    PROVE  LET q == Consume(w, consumed, fin) IN
           /\ q \in WorkType /\ SameBut(w.rs, q.rs) /\ q.error \in {"none", "FinalSize", "FlowControl"}
           /\ q.rs.fc.consumed \in {w.rs.fc.consumed, consumed}
           /\ SizeIsKnown(w.rs) => q.rs.fc.consumed = w.rs.fc.consumed
           /\ q.error # "none" => q.rs.fc.retired = w.rs.fc.retired
           /\ Ended(w.rs) => q = w
           /\ ~Ended(w.rs) /\ q.error = "none" => Charged(w, q, consumed, fin)
<1> DEFINE fresh == SatSub(consumed, w.rs.fc.consumed)
           f == IF w.rs.state = "AbortReading" THEN [w EXCEPT !.rs.final_size_reached = @ \/ fin] ELSE w
           charged == [f EXCEPT !.rs.fc.consumed = @ + fresh, !.session.consumed = @ + fresh]
           over == [f EXCEPT !.rs.fc.consumed = @ + fresh, !.error = "FlowControl"]
           q == Consume(w, consumed, fin)
<1>1. /\ w.rs \in StreamType /\ w.session \in SessionType /\ w.rs.fc \in FcType
      /\ w.rs.fc.consumed \in Nat /\ w.rs.fc.retired \in Nat /\ w.rs.fc.max_allowed \in Nat
      /\ w.session.consumed \in Nat /\ w.session.retired \in Nat /\ w.session.max_allowed \in Nat
  BY DEF WorkType, StreamType, FcType, SessionType
<1>2. /\ f \in WorkType /\ f.error = w.error /\ SameBut(w.rs, f.rs)
      /\ f.rs.fc = w.rs.fc /\ f.session = w.session
  BY FlaggedIs
<1>3. /\ fresh \in Nat
      /\ w.rs.fc.consumed + fresh = IF consumed > w.rs.fc.consumed THEN consumed ELSE w.rs.fc.consumed
      /\ SizeOk(w.rs, consumed, fin) /\ SizeIsKnown(w.rs) => fresh = 0
  BY <1>1 DEF SatSub, SizeOk
<1>4. q = IF Ended(w.rs) THEN w
          ELSE IF ~SizeOk(w.rs, consumed, fin) THEN [f EXCEPT !.error = "FinalSize"]
          ELSE IF fresh > 0 /\ consumed > w.rs.fc.max_allowed THEN [f EXCEPT !.error = "FlowControl"]
          ELSE IF w.session.consumed + fresh > w.session.max_allowed THEN over
          ELSE IF w.rs.state \in {"AbortReading", "WaitForReset"} THEN RetireAll(charged)
          ELSE charged
  BY DEF Consume
<1> HIDE DEF fresh, f
<1>5. /\ charged \in WorkType /\ charged.error = f.error /\ SameBut(f.rs, charged.rs)
      /\ charged.rs.fc.consumed = f.rs.fc.consumed + fresh /\ charged.rs.fc.retired = f.rs.fc.retired
      /\ charged.session.consumed = f.session.consumed + fresh /\ charged.session.retired = f.session.retired
  BY <1>2, <1>3, ChargedIs
<1>6. /\ over \in WorkType /\ over.error = "FlowControl" /\ SameBut(f.rs, over.rs)
      /\ over.rs.fc.consumed = f.rs.fc.consumed + fresh /\ over.rs.fc.retired = f.rs.fc.retired
  BY <1>2, <1>3, ChargedIs
<1>7. SameBut(w.rs, charged.rs) /\ SameBut(w.rs, over.rs)
  BY <1>2, <1>5, <1>6, SameButIs
<1> HIDE DEF charged, over, q
<1>8. CASE Ended(w.rs)
  BY <1>1, <1>4, <1>8 DEF SameBut, q
<1>9. CASE ~Ended(w.rs) /\ ~SizeOk(w.rs, consumed, fin)
  <2>1. q = [f EXCEPT !.error = "FinalSize"]
    BY <1>4, <1>9
  <2>2. q \in WorkType /\ q.error = "FinalSize" /\ q.rs = f.rs
    BY <2>1, <1>2 DEF WorkType
  <2> QED
    BY <2>2, <1>2, <1>9 DEF q
<1>10. CASE ~Ended(w.rs) /\ SizeOk(w.rs, consumed, fin) /\ fresh > 0 /\ consumed > w.rs.fc.max_allowed
  <2>1. q = [f EXCEPT !.error = "FlowControl"]
    BY <1>4, <1>10
  <2>2. q \in WorkType /\ q.error = "FlowControl" /\ q.rs = f.rs
    BY <2>1, <1>2 DEF WorkType
  <2> QED
    BY <2>2, <1>2, <1>10 DEF q
<1>11. CASE /\ ~Ended(w.rs) /\ SizeOk(w.rs, consumed, fin) /\ ~(fresh > 0 /\ consumed > w.rs.fc.max_allowed)
            /\ w.session.consumed + fresh > w.session.max_allowed
  <2>1. q = over
    BY <1>4, <1>11
  <2> QED
    BY <2>1, <1>1, <1>2, <1>3, <1>6, <1>7, <1>11 DEF q
<1>12. CASE /\ ~Ended(w.rs) /\ SizeOk(w.rs, consumed, fin) /\ ~(fresh > 0 /\ consumed > w.rs.fc.max_allowed)
            /\ ~(w.session.consumed + fresh > w.session.max_allowed)
            /\ w.rs.state \in {"AbortReading", "WaitForReset"}
  <2>1. q = RetireAll(charged)
    BY <1>4, <1>12
  <2>2. charged.rs.fc.retired <= charged.rs.fc.consumed
    BY <1>1, <1>2, <1>3, <1>5
  <2>3. /\ q \in WorkType /\ q.error = charged.error /\ SameBut(charged.rs, q.rs)
        /\ q.rs.fc.consumed = charged.rs.fc.consumed /\ q.rs.fc.retired = charged.rs.fc.consumed
        /\ q.session.consumed = charged.session.consumed
        /\ q.session.retired = charged.session.retired + (charged.rs.fc.consumed - charged.rs.fc.retired)
    BY <2>1, <2>2, <1>5, RetireAllIs
  <2>4. SameBut(w.rs, q.rs)
    BY <2>3, <1>7, SameButIs
  <2>5. Charged(w, q, consumed, fin)
    BY <2>3, <1>1, <1>2, <1>3, <1>5, <1>12 DEF Charged
  <2> QED
    BY <2>3, <2>4, <2>5, <1>1, <1>2, <1>3, <1>5, <1>12 DEF q
<1>13. CASE /\ ~Ended(w.rs) /\ SizeOk(w.rs, consumed, fin) /\ ~(fresh > 0 /\ consumed > w.rs.fc.max_allowed)
            /\ ~(w.session.consumed + fresh > w.session.max_allowed)
            /\ w.rs.state \notin {"AbortReading", "WaitForReset"}
  <2>1. q = charged
    BY <1>4, <1>13
  <2>2. Charged(w, q, consumed, fin)
    BY <2>1, <1>1, <1>2, <1>3, <1>5, <1>13 DEF Charged
  <2> QED
    BY <2>1, <2>2, <1>1, <1>2, <1>3, <1>5, <1>7, <1>13 DEF q
<1> QED
  BY <1>8, <1>9, <1>10, <1>11, <1>12, <1>13

-----------------------------------------------------------------------------
(* A set of offsets that has a bound leaves out a least one. *)
LEMMA Least ==
    ASSUME NEW T, T \subseteq Nat, T # {}
    PROVE  \E x \in T : \A y \in T : x <= y
<1> DEFINE R == OpToRel(<, Nat)
<1>1. IsWellFoundedOn(R, Nat)
  BY NatLessThanWellFounded
<1>2. \A p \in Nat \X Nat : p \in R <=> p[1] < p[2]
  BY DEF OpToRel
<1> HIDE DEF R
<1>3. PICK x \in T : \A y \in T : ~ (<<y, x>> \in R)
  BY <1>1, WFMin
<1>4. \A y, z \in Nat : <<y, z>> \in R <=> y < z
  BY <1>2
<1>5. \A y \in T : ~ (y < x)
  BY <1>3, <1>4
<1> QED
  BY <1>5

LEMMA SequentialIs ==
    ASSUME MaxOffset \in Nat, NEW g, \A b \in g : b \in Nat /\ b < MaxOffset
    PROVE  LET n == Rx!Sequential(g) IN
           /\ n \in Nat /\ n <= MaxOffset /\ n \notin g
           /\ \A b \in Nat : b < n => b \in g
<1> DEFINE T == {x \in 0 .. MaxOffset : x \notin g}
           P(n) == n \notin g /\ \A b \in 0 .. (n - 1) : b \in g
<1>1. T \subseteq Nat /\ MaxOffset \in T
  OBVIOUS
<1> HIDE DEF T
<1>2. PICK n \in T : \A y \in T : n <= y
  BY <1>1, Least
<1>3. n \in 0 .. MaxOffset /\ P(n)
  BY <1>2 DEF T
<1>4. Rx!Sequential(g) = CHOOSE k \in 0 .. MaxOffset : P(k)
  BY DEF Rx!Sequential
<1> HIDE DEF P
<1>5. Rx!Sequential(g) \in 0 .. MaxOffset /\ P(Rx!Sequential(g))
  BY <1>3, <1>4
<1> QED
  BY <1>5 DEF P

LEMMA MinIs ==
    ASSUME NEW a \in Nat, NEW b \in Nat
    PROVE  /\ Min({a, b}) = IF a <= b THEN a ELSE b
           /\ Max({a, b}) = IF a >= b THEN a ELSE b
  BY DEF Min, Max

-----------------------------------------------------------------------------
(* What a handler does to a stream: a legal state, or an error that ends   *)
(* the connection; and a final size that is known stays.                   *)
Result(w, q) ==
    /\ q \in WorkType /\ Always(q.rs)
    /\ q.error = "none" => Sound(q.rs, q.session) /\ Told(q.rs)
    /\ SizeIsKnown(w.rs) => q.rs.fc.consumed = w.rs.fc.consumed

Begun(w) == w \in WorkType /\ w.error = "none" /\ Always(w.rs) /\ Sound(w.rs, w.session) /\ Told(w.rs)

LEMMA Fields ==
    ASSUME NEW w \in WorkType
    PROVE  /\ w.rs \in StreamType /\ w.session \in SessionType /\ w.rs.fc \in FcType
           /\ w.rs.fc.consumed \in Nat /\ w.rs.fc.retired \in Nat
           /\ w.session.consumed \in Nat /\ w.session.retired \in Nat
           /\ w.rs.state \in States /\ w.rs.got \subseteq Nat /\ w.rs.read \in Nat
           /\ w.rs.final_size \in Nat /\ w.rs.reliable_size \in Nat
           /\ w.rs.readable \in BOOLEAN /\ w.rs.owes \in BOOLEAN
           /\ w.rs.stopped \in BOOLEAN /\ w.rs.fin_read \in BOOLEAN
  BY DEF WorkType, StreamType, FcType, SessionType

LEMMA SignalledIs ==
    ASSUME NEW u \in WorkType, NEW already \in BOOLEAN, Always(u.rs),
           u.error = "none" => Sound(u.rs, u.session),
           already => u.rs.readable \/ u.rs.owes
    PROVE  LET q == Signalled(u, already) IN
           /\ q \in WorkType /\ q.error = u.error /\ Always(q.rs)
           /\ q.error = "none" => Sound(q.rs, q.session) /\ Told(q.rs)
           /\ q.rs.fc = u.rs.fc
<1>1. CASE ~already /\ (data_ready(u.rs) \/ u.rs.state = "DataRecvd")
  <2> DEFINE r == [u.rs EXCEPT !.readable = TRUE]
             q == [u EXCEPT !.rs.readable = TRUE]
  <2>1. q \in WorkType /\ q.error = u.error /\ q.session = u.session /\ q.rs = r
    BY DEF WorkType, StreamType
  <2>2. /\ r.state = u.rs.state /\ r.got = u.rs.got /\ r.read = u.rs.read /\ r.fc = u.rs.fc
        /\ r.final_size = u.rs.final_size /\ r.reliable_size = u.rs.reliable_size
        /\ r.stopped = u.rs.stopped /\ r.fin_read = u.rs.fin_read /\ r.readable = TRUE
    BY DEF WorkType, StreamType
  <2>3. Signalled(u, already) = q
    BY <1>1 DEF Signalled
  <2> HIDE DEF r, q
  <2>4. Always(r) /\ (u.error = "none" => Sound(r, u.session)) /\ Told(r)
    BY <2>2 DEF Always, Sound, Told, Buffering
  <2> QED
    BY <2>1, <2>2, <2>3, <2>4
<1>2. CASE ~(~already /\ (data_ready(u.rs) \/ u.rs.state = "DataRecvd"))
  <2>1. Signalled(u, already) = u
    BY <1>2 DEF Signalled
  <2> QED
    BY <2>1, <1>2 DEF Told
<1> QED
  BY <1>1, <1>2

\* An error of flow_control_consume_data() leaves the stream as it was.
LEMMA ConsumeError ==
    ASSUME ConstantsOK, NEW w, Begun(w), NEW consumed \in Nat, consumed <= MaxOffset, NEW fin \in BOOLEAN,
           Consume(w, consumed, fin).error # "none"
    PROVE  Result(w, Consume(w, consumed, fin))
<1> DEFINE q == Consume(w, consumed, fin)
<1>1. w \in WorkType /\ Window \in Nat /\ w.error = "none" /\ w.rs.fc.retired <= w.rs.fc.consumed
  BY DEF Begun, ConstantsOK, Sound
<1>2. /\ q \in WorkType /\ SameBut(w.rs, q.rs)
      /\ q.rs.fc.consumed \in {w.rs.fc.consumed, consumed}
      /\ SizeIsKnown(w.rs) => q.rs.fc.consumed = w.rs.fc.consumed
      /\ q.error # "none" => q.rs.fc.retired = w.rs.fc.retired
      /\ Ended(w.rs) => q = w
  BY <1>1, ConsumeIs
<1> HIDE DEF q
<1>3. q.error # "none"
  BY DEF q
<1>4. w.rs.state # "DataRead"
  BY <1>1, <1>2, <1>3 DEF Ended
<1>5. Always(q.rs)
  BY <1>2, <1>3, <1>4 DEF Begun, Always, SameBut
<1> QED
  BY <1>2, <1>3, <1>5 DEF Result, q

LEMMA StreamFrameOK ==
    ASSUME ConstantsOK, NEW w0, Begun(w0), NEW off \in Nat, NEW len \in Nat, off + len <= MaxOffset,
           NEW fin \in BOOLEAN
    PROVE  Result(w0, StreamFrame(w0, off, len, fin))
<1> DEFINE upto == off + len
           w == Consume(w0, upto, fin)
           already == data_ready(w0.rs)
           keep == IF w.rs.state = "SizeKnownAt" THEN Min({len, SatSub(w.rs.reliable_size, off)}) ELSE len
           got == Rx!Arrived(w.rs.got, off, keep)
           next == IF w.rs.state \in {"Recv", "SizeKnown"} /\ (fin \/ w.rs.state = "SizeKnown")
                   THEN IF Rx!Sequential(got) = w.rs.fc.consumed THEN "DataRecvd" ELSE "SizeKnown"
                   ELSE w.rs.state
           u == [w EXCEPT !.rs.got = got, !.rs.state = next]
           q == StreamFrame(w0, off, len, fin)
<1>1. /\ w0 \in WorkType /\ Window \in Nat /\ MaxOffset \in Nat /\ w0.error = "none"
      /\ w0.rs.fc.retired <= w0.rs.fc.consumed
      /\ Always(w0.rs) /\ Sound(w0.rs, w0.session) /\ Told(w0.rs)
  BY DEF Begun, ConstantsOK, Sound
<1>2. upto \in Nat /\ upto <= MaxOffset
  OBVIOUS
<1>3. q = IF w.error # "none" THEN w
          ELSE IF w.rs.state \in {"Recv", "SizeKnown", "SizeKnownAt"} THEN Signalled(u, already)
          ELSE Signalled(w, already)
  BY DEF StreamFrame
<1> HIDE DEF upto, q
<1>4. /\ w \in WorkType /\ SameBut(w0.rs, w.rs)
      /\ SizeIsKnown(w0.rs) => w.rs.fc.consumed = w0.rs.fc.consumed
      /\ Ended(w0.rs) => w = w0
      /\ ~Ended(w0.rs) /\ w.error = "none" => Charged(w0, w, upto, fin)
  BY <1>1, <1>2, ConsumeIs
<1>5. w.error # "none" => Result(w0, w)
  BY <1>1, <1>2, ConsumeError
<1> HIDE DEF w
<1>6. w0.rs.fc.consumed \in Nat /\ w0.rs.fc.retired \in Nat /\ w.rs.fc.consumed \in Nat /\ w.rs.got \subseteq Nat
  BY <1>1, <1>4, Fields
<1>7. already \in BOOLEAN /\ (already => w.rs.readable \/ w.rs.owes)
  BY <1>1, <1>4 DEF Told, data_ready, SameBut, Buffering
<1> HIDE DEF already
<1>8. CASE w.error # "none"
  BY <1>3, <1>5, <1>8 DEF q
<1>9. CASE w.error = "none" /\ w.rs.state \notin {"Recv", "SizeKnown", "SizeKnownAt"}
  <2>1. q = Signalled(w, already)
    BY <1>3, <1>9
  <2>2. Always(w.rs) /\ Sound(w.rs, w.session)
    <3>1. CASE Ended(w0.rs)
      BY <3>1, <1>1, <1>4
    <3>2. CASE w0.rs.state = "DataRecvd"
      <4>1. ~Ended(w0.rs) /\ SizeIsKnown(w0.rs) /\ w.rs.state = "DataRecvd"
        BY <3>2, <1>4 DEF Ended, SizeIsKnown, SameBut
      <4>2. w.rs.fc.consumed = w0.rs.fc.consumed /\ w.rs.fc.retired = w0.rs.fc.retired
            /\ w.session.consumed = w0.session.consumed /\ w.session.retired = w0.session.retired
        BY <4>1, <3>2, <1>1, <1>4, <1>6, <1>9, Fields DEF Charged
      <4> QED
        BY <4>1, <4>2, <3>2, <1>1, <1>4 DEF Always, Sound, SameBut, Buffering
    <3>3. CASE w0.rs.state \in {"AbortReading", "WaitForReset"}
      <4>1. ~Ended(w0.rs) /\ w.rs.state = w0.rs.state /\ ~Buffering(w0.rs) /\ ~Buffering(w.rs)
        BY <3>3, <1>4 DEF Ended, SameBut, Buffering
      <4>2. /\ w.rs.fc.consumed \in {w0.rs.fc.consumed, upto} /\ w.rs.fc.retired = w.rs.fc.consumed
            /\ w.session.consumed = w.rs.fc.consumed /\ w.session.retired = w.rs.fc.consumed
        BY <4>1, <3>3, <1>1, <1>4, <1>6, <1>9, Fields DEF Charged, Sound
      <4> QED
        BY <4>1, <4>2, <3>3, <1>1, <1>2, <1>4, <1>6 DEF Always, Sound, SameBut
    <3> QED
      BY <3>1, <3>2, <3>3, <1>1, <1>4, <1>9, Fields DEF Ended, SameBut, States
  <2>3. /\ q \in WorkType /\ q.error = w.error /\ Always(q.rs)
        /\ q.error = "none" => Sound(q.rs, q.session) /\ Told(q.rs)
        /\ q.rs.fc = w.rs.fc
    BY <2>1, <2>2, <1>4, <1>7, SignalledIs
  <2> QED
    BY <2>3, <1>4 DEF Result, q
<1>10. CASE w.error = "none" /\ w.rs.state \in {"Recv", "SizeKnown", "SizeKnownAt"}
  <2>1. q = Signalled(u, already)
    BY <1>3, <1>10
  <2>2. /\ w.rs.state = w0.rs.state /\ w.rs.got = w0.rs.got /\ w.rs.read = w0.rs.read
        /\ w.rs.final_size = w0.rs.final_size /\ w.rs.reliable_size = w0.rs.reliable_size
        /\ w.rs.stopped = w0.rs.stopped /\ w.rs.fin_read = w0.rs.fin_read
    BY <1>4 DEF SameBut
  <2>3. ~Ended(w0.rs) /\ Charged(w0, w, upto, fin) /\ Buffering(w0.rs)
    BY <2>2, <1>4, <1>10 DEF Ended, Buffering
  <2>4. /\ upto <= w.rs.fc.consumed /\ w0.rs.fc.consumed <= w.rs.fc.consumed /\ w.rs.fc.consumed <= MaxOffset
        /\ w.rs.fc.retired = w0.rs.fc.retired
        /\ w.session.consumed = w.rs.fc.consumed /\ w.session.retired = w.rs.fc.retired
    BY <2>2, <2>3, <1>1, <1>2, <1>6, <1>10, Fields DEF Charged, Always, Sound
  <2>5. /\ w.rs.reliable_size \in Nat
        /\ keep \in Nat /\ keep <= len
        /\ w.rs.state = "SizeKnownAt" => keep <= SatSub(w.rs.reliable_size, off)
    <3>1. w.rs.reliable_size \in Nat /\ SatSub(w.rs.reliable_size, off) \in Nat
      BY <1>4, Fields DEF SatSub
    <3> QED
      BY <3>1, MinIs
  <2> HIDE DEF keep
  <2>6. /\ got \subseteq Nat /\ w.rs.got \subseteq got
        /\ \A b \in got : b \in w.rs.got \/ (b < upto /\ (w.rs.state = "SizeKnownAt" => b < w.rs.reliable_size))
    BY <2>5, <1>6 DEF Rx!Arrived, SatSub, upto
  <2> HIDE DEF got
  <2>7. /\ \A b \in got : b \in Nat /\ b < w.rs.fc.consumed /\ b < MaxOffset
        /\ w.rs.state = "SizeKnownAt" => \A b \in got : b < w.rs.reliable_size
        /\ \A b \in Nat : b < w.rs.read => b \in got
    BY <2>2, <2>3, <2>4, <2>6, <1>1, <1>2, <1>6 DEF Sound
  <2>8. LET n == Rx!Sequential(got) IN
        /\ n \in Nat /\ n <= MaxOffset /\ n \notin got
        /\ \A b \in Nat : b < n => b \in got
    BY <2>7, <1>1, SequentialIs
  <2>9. /\ next \in {"Recv", "SizeKnown", "SizeKnownAt", "DataRecvd"}
        /\ next = "SizeKnownAt" <=> w.rs.state = "SizeKnownAt"
        /\ next = "DataRecvd" => \A b \in Nat : b < w.rs.fc.consumed => b \in got
    BY <2>8, <1>10
  <2> HIDE DEF next
  <2>10. /\ u \in WorkType /\ u.error = "none" /\ u.session = w.session /\ u.rs.fc = w.rs.fc
         /\ u.rs.state = next /\ u.rs.got = got /\ u.rs.read = w.rs.read
         /\ u.rs.final_size = w.rs.final_size /\ u.rs.reliable_size = w.rs.reliable_size
         /\ u.rs.stopped = w.rs.stopped /\ u.rs.fin_read = w.rs.fin_read
         /\ u.rs.readable = w.rs.readable /\ u.rs.owes = w.rs.owes
    BY <2>6, <2>9, <1>4, <1>10 DEF WorkType, StreamType, States
  <2> HIDE DEF u
  <2>11. Always(u.rs)
    BY <2>2, <2>4, <2>7, <2>9, <2>10, <1>1, <1>10 DEF Always
  <2>12. Sound(u.rs, u.session)
    <3>1. CASE next = "SizeKnownAt"
      <4>1. w0.rs.state = "SizeKnownAt" /\ w.rs.fc.consumed = w0.rs.fc.consumed
        BY <3>1, <2>2, <2>9, <1>4 DEF SizeIsKnown
      <4> QED
        BY <3>1, <4>1, <2>2, <2>4, <2>7, <2>10, <1>1 DEF Sound, Buffering
    <3>2. CASE next # "SizeKnownAt"
      <4>1. w0.rs.state \in {"Recv", "SizeKnown"}
        BY <3>2, <2>2, <2>9, <1>10
      <4> QED
        BY <3>2, <4>1, <2>2, <2>4, <2>7, <2>9, <2>10, <1>1, <1>6 DEF Sound, Buffering
    <3> QED
      BY <3>1, <3>2
  <2>13. /\ q \in WorkType /\ q.error = u.error /\ Always(q.rs)
         /\ q.error = "none" => Sound(q.rs, q.session) /\ Told(q.rs)
         /\ q.rs.fc = u.rs.fc
    BY <2>1, <2>10, <2>11, <2>12, <1>7, SignalledIs
  <2> QED
    BY <2>10, <2>13, <1>4 DEF Result, q
<1> QED
  BY <1>8, <1>9, <1>10

LEMMA FinishResetIs ==
    ASSUME NEW w \in WorkType, NEW final_size \in Nat, Window \in Nat, w.rs.fc.retired <= final_size
    PROVE  LET q == finish_reset(w, final_size) IN
           /\ q \in WorkType /\ q.error = w.error /\ q.rs.state = "ResetRecvd"
           /\ q.rs.got = w.rs.got /\ q.rs.read = w.rs.read /\ q.rs.reliable_size = w.rs.reliable_size
           /\ q.rs.stopped = w.rs.stopped /\ q.rs.fin_read = w.rs.fin_read
           /\ q.rs.fc.consumed = w.rs.fc.consumed /\ q.rs.fc.retired = final_size
           /\ q.session.consumed = w.session.consumed
           /\ q.session.retired = w.session.retired + (final_size - w.rs.fc.retired)
<1> DEFINE count == final_size - w.rs.fc.retired
           r == Retire(w, count)
           q == [r EXCEPT !.rs.state = "ResetRecvd", !.rs.readable = FALSE]
<1>1. w.rs.fc.retired \in Nat
  BY Fields
<1>2. count \in Nat /\ w.rs.fc.retired + count = final_size
  BY <1>1
<1>3. finish_reset(w, final_size) = q
  BY DEF finish_reset
<1> HIDE DEF count
<1>4. /\ r \in WorkType /\ r.error = w.error /\ SameBut(w.rs, r.rs)
      /\ r.rs.fc.consumed = w.rs.fc.consumed /\ r.rs.fc.retired = w.rs.fc.retired + count
      /\ r.session.consumed = w.session.consumed /\ r.session.retired = w.session.retired + count
  BY <1>2, RetireIs
<1> HIDE DEF r
<1>5. /\ q \in WorkType /\ q.error = r.error /\ q.session = r.session /\ q.rs.fc = r.rs.fc
      /\ q.rs.state = "ResetRecvd" /\ q.rs.got = r.rs.got /\ q.rs.read = r.rs.read
      /\ q.rs.reliable_size = r.rs.reliable_size /\ q.rs.stopped = r.rs.stopped /\ q.rs.fin_read = r.rs.fin_read
  BY <1>4 DEF WorkType, StreamType, States
<1> HIDE DEF q
<1> QED
  BY <1>2, <1>3, <1>4, <1>5 DEF SameBut, count

\* A reset that completes.
LEMMA FinishedOK ==
    ASSUME ConstantsOK, NEW w \in WorkType, w.error = "none", Always(w.rs), ~w.rs.fin_read,
           w.rs.fc.retired <= w.rs.fc.consumed,
           w.session.consumed = w.rs.fc.consumed, w.session.retired = w.rs.fc.retired,
           w.rs.stopped \/ w.rs.read >= w.rs.reliable_size
    PROVE  LET q == finish_reset(w, w.rs.fc.consumed) IN
           /\ q \in WorkType /\ q.error = "none" /\ Always(q.rs) /\ Sound(q.rs, q.session) /\ Told(q.rs)
           /\ q.rs.fc.consumed = w.rs.fc.consumed
<1> DEFINE q == finish_reset(w, w.rs.fc.consumed)
<1>1. /\ w.rs.fc.consumed \in Nat /\ w.rs.fc.retired \in Nat /\ w.session.retired \in Nat /\ Window \in Nat
  BY Fields DEF ConstantsOK
<1>2. /\ q \in WorkType /\ q.error = w.error /\ q.rs.state = "ResetRecvd"
      /\ q.rs.got = w.rs.got /\ q.rs.read = w.rs.read /\ q.rs.reliable_size = w.rs.reliable_size
      /\ q.rs.stopped = w.rs.stopped /\ q.rs.fin_read = w.rs.fin_read
      /\ q.rs.fc.consumed = w.rs.fc.consumed /\ q.rs.fc.retired = w.rs.fc.consumed
      /\ q.session.consumed = w.session.consumed
      /\ q.session.retired = w.session.retired + (w.rs.fc.consumed - w.rs.fc.retired)
  BY <1>1, FinishResetIs
<1> HIDE DEF q
<1>3. Always(q.rs)
  BY <1>2 DEF Always
<1>4. Sound(q.rs, q.session) /\ Told(q.rs)
  BY <1>1, <1>2 DEF Sound, Told, Buffering, data_ready
<1> QED
  BY <1>2, <1>3, <1>4 DEF q

\* retire_undeliverable() and complete_reliable_reset_if_drained(), once the sizes
\* of the reset are stored.
LEMMA ReliableOK ==
    ASSUME ConstantsOK, NEW u \in WorkType, u.error = "none", u.rs.state = "SizeKnownAt", Always(u.rs),
           u.rs.final_size = u.rs.fc.consumed, u.rs.reliable_size <= u.rs.final_size,
           u.session.consumed = u.rs.fc.consumed, u.session.retired = u.rs.fc.retired,
           u.rs.read <= u.rs.final_size,
           u.rs.fc.retired + SatSub(u.rs.reliable_size, u.rs.read) <= u.rs.final_size,
           \A b \in u.rs.got : b < u.rs.reliable_size \/ b < u.rs.read,
           \A b \in Nat : b < u.rs.read => b \in u.rs.got,
           Told(u.rs)
    PROVE  LET q == complete_reliable_reset_if_drained(retire_undeliverable(u)) IN
           /\ q \in WorkType /\ q.error = "none" /\ Always(q.rs) /\ Sound(q.rs, q.session) /\ Told(q.rs)
           /\ q.rs.fc.consumed = u.rs.fc.consumed
<1> DEFINE still == SatSub(u.rs.reliable_size, u.rs.read)
           count == SatSub(u.rs.final_size - still, u.rs.fc.retired)
           v == Retire(u, count)
           q == complete_reliable_reset_if_drained(v)
<1>1. /\ u.rs.fc.consumed \in Nat /\ u.rs.fc.retired \in Nat /\ u.session.retired \in Nat /\ Window \in Nat
      /\ u.rs.reliable_size \in Nat /\ u.rs.read \in Nat /\ u.rs.final_size \in Nat /\ u.rs.got \subseteq Nat
      /\ u.rs.fin_read \in BOOLEAN /\ MaxOffset \in Nat
  BY Fields DEF ConstantsOK
<1>2. still \in Nat /\ count \in Nat /\ u.rs.fc.retired + count = u.rs.final_size - still
  BY <1>1 DEF SatSub
<1>3. complete_reliable_reset_if_drained(retire_undeliverable(u)) = q
  BY DEF retire_undeliverable
<1> HIDE DEF count
<1>4. /\ v \in WorkType /\ v.error = u.error /\ SameBut(u.rs, v.rs)
      /\ v.rs.fc.consumed = u.rs.fc.consumed /\ v.rs.fc.retired = u.rs.fc.retired + count
      /\ v.session.consumed = u.session.consumed /\ v.session.retired = u.session.retired + count
  BY <1>1, <1>2, RetireIs
<1> HIDE DEF v
<1>5. /\ v.rs.fc.retired = u.rs.final_size - still /\ v.rs.fc.retired <= v.rs.fc.consumed
      /\ v.session.consumed = v.rs.fc.consumed /\ v.session.retired = v.rs.fc.retired
  BY <1>1, <1>2, <1>4
<1>6. /\ v.rs.state = "SizeKnownAt" /\ v.rs.got = u.rs.got /\ v.rs.read = u.rs.read
      /\ v.rs.final_size = u.rs.final_size /\ v.rs.reliable_size = u.rs.reliable_size
      /\ v.rs.readable = u.rs.readable /\ v.rs.owes = u.rs.owes /\ v.rs.stopped = u.rs.stopped
      /\ v.rs.fin_read = u.rs.fin_read
  BY <1>4 DEF SameBut
<1>7. Always(v.rs) /\ ~v.rs.fin_read
  <2>1. ~v.rs.fin_read
    BY <1>1, <1>6 DEF Always
  <2>2. v.rs.fc.retired <= MaxOffset /\ v.rs.fc.consumed <= MaxOffset
    BY <1>1, <1>2, <1>4, <1>5 DEF Always
  <2> QED
    BY <2>1, <2>2, <1>6 DEF Always
<1>8. CASE v.rs.read < v.rs.reliable_size
  <2>1. q = v
    BY <1>8 DEF complete_reliable_reset_if_drained
  <2>2. v.rs.fc.consumed - v.rs.fc.retired = v.rs.reliable_size - v.rs.read
    BY <1>1, <1>4, <1>5, <1>6, <1>8 DEF SatSub
  <2>3. \A b \in v.rs.got : b < v.rs.reliable_size /\ b < v.rs.fc.consumed
    BY <1>1, <1>4, <1>6, <1>8
  <2>4. Sound(v.rs, v.session)
    BY <2>2, <2>3, <1>1, <1>4, <1>5, <1>6 DEF Sound, Buffering
  <2>5. Told(v.rs)
    BY <1>6 DEF Told, data_ready, Buffering
  <2> QED
    BY <2>1, <2>4, <2>5, <1>3, <1>4, <1>7
<1>9. CASE ~(v.rs.read < v.rs.reliable_size)
  <2>1. q = finish_reset(v, v.rs.fc.consumed)
    BY <1>4, <1>6, <1>9 DEF complete_reliable_reset_if_drained
  <2>2. v.rs.read >= v.rs.reliable_size /\ v.error = "none"
    BY <1>1, <1>4, <1>6, <1>9
  <2> HIDE DEF q
  <2>3. /\ q \in WorkType /\ q.error = "none" /\ Always(q.rs) /\ Sound(q.rs, q.session) /\ Told(q.rs)
        /\ q.rs.fc.consumed = v.rs.fc.consumed
    BY <2>1, <2>2, <1>4, <1>5, <1>7, FinishedOK
  <2> QED
    BY <2>3, <1>3, <1>4
<1> QED
  BY <1>8, <1>9

LEMMA ResetFrameOK ==
    ASSUME ConstantsOK, NEW w0, Begun(w0), NEW err \in Errors, NEW final_size \in Nat, final_size <= MaxOffset,
           NEW reliable_size \in Nat, reliable_size <= final_size
    PROVE  Result(w0, ResetFrame(w0, err, final_size, reliable_size))
<1> DEFINE w == Consume(w0, final_size, TRUE)
           cut == Rx!Discarded(w.rs.got, Max({reliable_size, w.rs.read}))
           known == [w EXCEPT !.rs.state = "SizeKnownAt", !.rs.err = err,
                              !.rs.final_size = final_size, !.rs.reliable_size = reliable_size,
                              !.rs.got = Rx!Discarded(@, Max({reliable_size, w.rs.read}))]
           reduced == [w EXCEPT !.rs.reliable_size = reliable_size,
                                !.rs.got = Rx!Discarded(@, Max({reliable_size, w.rs.read}))]
           q == ResetFrame(w0, err, final_size, reliable_size)
<1>1. /\ w0 \in WorkType /\ Window \in Nat /\ MaxOffset \in Nat /\ w0.error = "none"
      /\ w0.rs.fc.retired <= w0.rs.fc.consumed
      /\ Always(w0.rs) /\ Sound(w0.rs, w0.session) /\ Told(w0.rs)
  BY DEF Begun, ConstantsOK, Sound
<1>2. q = IF w.error # "none" THEN w
          ELSE CASE w.rs.state \in {"Recv", "SizeKnown"} ->
                      complete_reliable_reset_if_drained(retire_undeliverable(known))
                 [] w.rs.state = "SizeKnownAt" /\ err # w.rs.err -> [w EXCEPT !.error = "StreamState"]
                 [] w.rs.state = "SizeKnownAt" /\ err = w.rs.err /\ reliable_size < w.rs.reliable_size ->
                      complete_reliable_reset_if_drained(retire_undeliverable(reduced))
                 [] w.rs.state \in {"AbortReading", "WaitForReset"} -> finish_reset(w, final_size)
                 [] OTHER -> w
  BY DEF ResetFrame
<1> HIDE DEF q
<1>3. /\ w \in WorkType /\ SameBut(w0.rs, w.rs)
      /\ SizeIsKnown(w0.rs) => w.rs.fc.consumed = w0.rs.fc.consumed
      /\ Ended(w0.rs) => w = w0
      /\ ~Ended(w0.rs) /\ w.error = "none" => Charged(w0, w, final_size, TRUE)
  BY <1>1, ConsumeIs
<1>4. w.error # "none" => Result(w0, w)
  BY <1>1, ConsumeError
<1> HIDE DEF w
<1>5. /\ w0.rs.fc.consumed \in Nat /\ w0.rs.fc.retired \in Nat /\ w.rs.fc.consumed \in Nat /\ w.rs.got \subseteq Nat
      /\ w.rs.read \in Nat /\ w.rs.reliable_size \in Nat /\ w.rs.fin_read \in BOOLEAN /\ w.rs.state \in States
      /\ w.rs.fc.retired \in Nat
  BY <1>1, <1>3, Fields
<1>6. /\ w.rs.state = w0.rs.state /\ w.rs.got = w0.rs.got /\ w.rs.read = w0.rs.read
      /\ w.rs.final_size = w0.rs.final_size /\ w.rs.reliable_size = w0.rs.reliable_size
      /\ w.rs.stopped = w0.rs.stopped /\ w.rs.fin_read = w0.rs.fin_read
      /\ w.rs.readable = w0.rs.readable /\ w.rs.owes = w0.rs.owes
  BY <1>3 DEF SameBut
<1>7. ~Ended(w0.rs) /\ w.error = "none" =>
        /\ w.rs.fc.consumed = final_size /\ w.session.consumed = final_size
        /\ w.rs.state \in {"AbortReading", "WaitForReset"} =>
              w.rs.fc.retired = final_size /\ w.session.retired = final_size
        /\ w.rs.state \notin {"AbortReading", "WaitForReset"} =>
              w.rs.fc.retired = w0.rs.fc.retired /\ w.session.retired = w0.rs.fc.retired
  BY <1>1, <1>3, <1>5, <1>6, Fields DEF Charged, SizeOk, Sound
<1>8. ~Ended(w0.rs) /\ w.error = "none" => Always(w.rs) /\ ~w.rs.fin_read
  BY <1>1, <1>3, <1>5, <1>6, <1>7 DEF Always, Ended
<1>9. /\ cut \subseteq w.rs.got /\ \A b \in cut : b < reliable_size \/ b < w.rs.read
      /\ \A b \in w.rs.got : b < w.rs.read => b \in cut
  <2>1. Max({reliable_size, w.rs.read}) = IF reliable_size >= w.rs.read THEN reliable_size ELSE w.rs.read
    BY <1>5, MinIs
  <2>2. cut = {b \in w.rs.got : b < Max({reliable_size, w.rs.read})}
    BY DEF Rx!Discarded
  <2> HIDE DEF cut
  <2> QED
    BY <2>1, <2>2, <1>5
<1>10. CASE w.error # "none"
  BY <1>2, <1>4, <1>10 DEF q
<1>11. CASE w.error = "none" /\ w.rs.state \in {"Recv", "SizeKnown"}
  <2>1. q = complete_reliable_reset_if_drained(retire_undeliverable(known))
    BY <1>2, <1>11
  <2>2. /\ known \in WorkType /\ known.error = "none" /\ known.session = w.session /\ known.rs.fc = w.rs.fc
        /\ known.rs.state = "SizeKnownAt" /\ known.rs.got = cut /\ known.rs.read = w.rs.read
        /\ known.rs.final_size = final_size /\ known.rs.reliable_size = reliable_size
        /\ known.rs.stopped = w.rs.stopped /\ known.rs.fin_read = w.rs.fin_read
        /\ known.rs.readable = w.rs.readable /\ known.rs.owes = w.rs.owes
    <3>1. w.rs \in StreamType /\ cut \in SUBSET Nat
      BY <1>3, <1>5, <1>9, Fields
    <3> HIDE DEF cut
    <3> DEFINE r == [w.rs EXCEPT !.state = "SizeKnownAt", !.err = err, !.final_size = final_size,
                                 !.reliable_size = reliable_size, !.got = cut]
    <3>2. /\ r \in StreamType /\ r.fc = w.rs.fc
          /\ r.state = "SizeKnownAt" /\ r.got = cut /\ r.read = w.rs.read
          /\ r.final_size = final_size /\ r.reliable_size = reliable_size
          /\ r.stopped = w.rs.stopped /\ r.fin_read = w.rs.fin_read
          /\ r.readable = w.rs.readable /\ r.owes = w.rs.owes
      BY <3>1 DEF StreamType, States
    <3>3. known = [w EXCEPT !.rs = r]
      BY <1>3 DEF WorkType, StreamType, cut
    <3> HIDE DEF r, known
    <3>4. known \in WorkType /\ known.error = w.error /\ known.session = w.session /\ known.rs = r
      BY <3>2, <3>3, <1>3 DEF WorkType
    <3> QED
      BY <3>2, <3>4, <1>11
  <2> HIDE DEF known, cut
  <2>3. /\ ~Ended(w0.rs) /\ w0.rs.fc.retired = w.rs.read /\ w.rs.read <= final_size /\ w.rs.fc.consumed = final_size
        /\ \A b \in Nat : b < w.rs.read => b \in w.rs.got
    <3>1. ~Ended(w0.rs) /\ Buffering(w0.rs)
      BY <1>6, <1>11 DEF Ended, Buffering
    <3>2. w0.rs.fc.consumed <= final_size
      BY <3>1, <1>3, <1>5, <1>11 DEF Charged, SizeOk
    <3>3. w0.rs.fc.retired = w.rs.read /\ \A b \in Nat : b < w.rs.read => b \in w.rs.got
      BY <3>1, <1>1, <1>6, <1>11 DEF Sound
    <3> QED
      BY <3>1, <3>2, <3>3, <1>1, <1>5, <1>7, <1>11
  <2>4. Always(known.rs)
    BY <2>2, <2>3, <1>8, <1>9, <1>11 DEF Always
  <2>5. known.rs.fc.retired + SatSub(known.rs.reliable_size, known.rs.read) <= known.rs.final_size
    BY <2>2, <2>3, <1>5, <1>7, <1>11 DEF SatSub
  <2>6. Told(known.rs)
    BY <2>2, <1>1, <1>6, <1>9, <1>11 DEF Told, data_ready, Buffering
  <2>7. /\ q \in WorkType /\ q.error = "none" /\ Always(q.rs) /\ Sound(q.rs, q.session) /\ Told(q.rs)
        /\ q.rs.fc.consumed = known.rs.fc.consumed
    <3>1. /\ known.rs.final_size = known.rs.fc.consumed /\ known.rs.reliable_size <= known.rs.final_size
          /\ known.session.consumed = known.rs.fc.consumed /\ known.session.retired = known.rs.fc.retired
          /\ known.rs.read <= known.rs.final_size
      BY <2>2, <2>3, <1>7, <1>11
    <3>2. /\ \A b \in known.rs.got : b < known.rs.reliable_size \/ b < known.rs.read
          /\ \A b \in Nat : b < known.rs.read => b \in known.rs.got
      BY <2>2, <2>3, <1>9
    <3> QED
      BY <2>1, <2>2, <2>4, <2>5, <2>6, <3>1, <3>2, ReliableOK
  <2> QED
    BY <2>2, <2>7, <1>3 DEF Result, q
<1>12. CASE w.error = "none" /\ w.rs.state = "SizeKnownAt" /\ err # w.rs.err
  <2>1. q = [w EXCEPT !.error = "StreamState"]
    BY <1>2, <1>12
  <2>2. q \in WorkType /\ q.error = "StreamState" /\ q.rs = w.rs
    BY <2>1, <1>3 DEF WorkType
  <2>3. ~Ended(w0.rs)
    BY <1>6, <1>12 DEF Ended
  <2> QED
    BY <2>2, <2>3, <1>3, <1>8, <1>12 DEF Result, q
<1>13. CASE w.error = "none" /\ w.rs.state = "SizeKnownAt" /\ err = w.rs.err /\ reliable_size < w.rs.reliable_size
  <2>1. q = complete_reliable_reset_if_drained(retire_undeliverable(reduced))
    BY <1>2, <1>13
  <2>2. /\ reduced \in WorkType /\ reduced.error = "none" /\ reduced.session = w.session /\ reduced.rs.fc = w.rs.fc
        /\ reduced.rs.state = "SizeKnownAt" /\ reduced.rs.got = cut /\ reduced.rs.read = w.rs.read
        /\ reduced.rs.final_size = w.rs.final_size /\ reduced.rs.reliable_size = reliable_size
        /\ reduced.rs.stopped = w.rs.stopped /\ reduced.rs.fin_read = w.rs.fin_read
        /\ reduced.rs.readable = w.rs.readable /\ reduced.rs.owes = w.rs.owes
    <3>1. w.rs \in StreamType /\ cut \in SUBSET Nat
      BY <1>3, <1>5, <1>9, Fields
    <3> HIDE DEF cut
    <3> DEFINE r == [w.rs EXCEPT !.reliable_size = reliable_size, !.got = cut]
    <3>2. /\ r \in StreamType /\ r.fc = w.rs.fc
          /\ r.state = w.rs.state /\ r.got = cut /\ r.read = w.rs.read
          /\ r.final_size = w.rs.final_size /\ r.reliable_size = reliable_size
          /\ r.stopped = w.rs.stopped /\ r.fin_read = w.rs.fin_read
          /\ r.readable = w.rs.readable /\ r.owes = w.rs.owes
      BY <3>1 DEF StreamType
    <3>3. reduced = [w EXCEPT !.rs = r]
      BY <1>3 DEF WorkType, StreamType, cut
    <3> HIDE DEF r, reduced
    <3>4. reduced \in WorkType /\ reduced.error = w.error /\ reduced.session = w.session /\ reduced.rs = r
      BY <3>2, <3>3, <1>3 DEF WorkType
    <3> QED
      BY <3>2, <3>4, <1>13
  <2> HIDE DEF reduced, cut
  <2>3. /\ ~Ended(w0.rs) /\ w.rs.fc.consumed = final_size /\ w.rs.final_size = final_size
        /\ w.rs.fc.consumed - w.rs.fc.retired = w.rs.reliable_size - w.rs.read
        /\ w.rs.fc.retired <= w.rs.fc.consumed
        /\ \A b \in Nat : b < w.rs.read => b \in w.rs.got
    BY <1>1, <1>3, <1>5, <1>6, <1>7, <1>13 DEF Ended, Sound, Buffering, SizeIsKnown
  <2>4. Always(reduced.rs)
    BY <2>2, <2>3, <1>8, <1>9, <1>13 DEF Always
  <2>5. /\ reduced.rs.fc.retired + SatSub(reduced.rs.reliable_size, reduced.rs.read) <= reduced.rs.final_size
        /\ reduced.rs.read <= reduced.rs.final_size
    <3>1. w.rs.reliable_size <= final_size
      BY <2>3, <1>1, <1>6, <1>13 DEF Sound
    <3> QED
      BY <2>2, <2>3, <3>1, <1>5, <1>13 DEF SatSub
  <2>6. Told(reduced.rs)
    BY <2>2, <1>1, <1>6, <1>9, <1>13 DEF Told, data_ready, Buffering
  <2>7. /\ q \in WorkType /\ q.error = "none" /\ Always(q.rs) /\ Sound(q.rs, q.session) /\ Told(q.rs)
        /\ q.rs.fc.consumed = reduced.rs.fc.consumed
    <3>1. /\ reduced.rs.final_size = reduced.rs.fc.consumed /\ reduced.rs.reliable_size <= reduced.rs.final_size
          /\ reduced.session.consumed = reduced.rs.fc.consumed /\ reduced.session.retired = reduced.rs.fc.retired
      BY <2>2, <2>3, <1>7, <1>13
    <3>2. /\ \A b \in reduced.rs.got : b < reduced.rs.reliable_size \/ b < reduced.rs.read
          /\ \A b \in Nat : b < reduced.rs.read => b \in reduced.rs.got
      BY <2>2, <2>3, <1>9
    <3> QED
      BY <2>1, <2>2, <2>4, <2>5, <2>6, <3>1, <3>2, ReliableOK
  <2> QED
    BY <2>2, <2>7, <1>3 DEF Result, q
<1>14. CASE w.error = "none" /\ w.rs.state \in {"AbortReading", "WaitForReset"}
  <2>1. q = finish_reset(w, final_size)
    BY <1>2, <1>14
  <2>2. ~Ended(w0.rs) /\ w.rs.stopped
    BY <1>1, <1>6, <1>14 DEF Ended, Sound
  <2>3. /\ q \in WorkType /\ q.error = "none" /\ Always(q.rs) /\ Sound(q.rs, q.session) /\ Told(q.rs)
        /\ q.rs.fc.consumed = w.rs.fc.consumed
    BY <2>1, <2>2, <1>3, <1>5, <1>7, <1>8, <1>14, FinishedOK
  <2> QED
    BY <2>3, <1>3 DEF Result, q
<1>15. CASE /\ w.error = "none" /\ w.rs.state \notin {"Recv", "SizeKnown", "AbortReading", "WaitForReset"}
            /\ w.rs.state = "SizeKnownAt" => err = w.rs.err /\ ~(reliable_size < w.rs.reliable_size)
  <2>1. q = w
    BY <1>2, <1>15
  <2>2. CASE Ended(w0.rs)
    BY <2>1, <2>2, <1>1, <1>3 DEF Result, q
  <2>3. CASE ~Ended(w0.rs)
    <3>1. SizeIsKnown(w0.rs)
      BY <2>3, <1>5, <1>6, <1>15 DEF Ended, SizeIsKnown, States
    <3>2. w.rs.fc.consumed = w0.rs.fc.consumed /\ w.rs.fc.retired = w0.rs.fc.retired
          /\ w.session.consumed = w0.session.consumed /\ w.session.retired = w0.session.retired
      BY <3>1, <2>3, <1>1, <1>3, <1>7, <1>15 DEF Sound
    <3>3. Sound(w.rs, w.session) /\ Told(w.rs)
      BY <3>2, <1>1, <1>6 DEF Sound, Told, data_ready, Buffering
    <3> QED
      BY <2>1, <2>3, <3>3, <1>3, <1>8, <1>15 DEF Result, q
  <2> QED
    BY <2>2, <2>3
<1> QED
  BY <1>10, <1>11, <1>12, <1>13, <1>14, <1>15

-----------------------------------------------------------------------------
(* The steps *)

Stepped ==
    /\ rs' \in StreamType /\ session_fc' \in SessionType /\ error' \in ErrorKinds
    /\ Always(rs') /\ (error' = "none" => Sound(rs', session_fc') /\ Told(rs'))
    /\ SizeIsKnown(rs) => rs'.fc.consumed = rs.fc.consumed

LEMMA NowIs ==
    ASSUME IInv, error = "none"
    PROVE  Begun(Now) /\ Now.rs = rs /\ Now.session = session_fc
<1>1. Now \in WorkType /\ Now.rs = rs /\ Now.session = session_fc /\ Now.error = "none"
  BY DEF IInv, Now, WorkType
<1> HIDE DEF Now
<1> QED
  BY <1>1 DEF IInv, Begun

LEMMA DoneIs ==
    ASSUME NEW q, Result(Now, q), Done(q)
    PROVE  Stepped
<1>1. q.rs \in StreamType /\ q.session \in SessionType /\ q.error \in ErrorKinds
  BY DEF Result, WorkType, ErrorKinds
<1>2. Now.rs = rs
  BY DEF Now
<1> QED
  BY <1>1, <1>2 DEF Result, Done, Stepped

LEMMA ReadOK ==
    ASSUME ConstantsOK, IInv, NEW n \in 1 .. MaxOffset, read(n)
    PROVE  Stepped
<1> DEFINE most == Rx!Sequential(rs.got)
           copied == Min({n, most - rs.read})
           more == rs.owes /\ copied = n
           v == [Now EXCEPT !.rs.read = @ + copied, !.rs.owes = more]
           w == Retire(v, copied)
           drained == {b \in w.rs.got : b >= w.rs.read} = {}
           ended == [w EXCEPT !.rs.state = "DataRead", !.rs.fin_read = TRUE, !.rs.readable = FALSE]
<1>1. error = "none" /\ Buffering(rs) /\ MaxOffset \in Nat /\ Window \in Nat
  BY DEF read, ConstantsOK
<1>2. Begun(Now) /\ Now.rs = rs /\ Now.session = session_fc
  BY <1>1, NowIs
<1>3. /\ Now \in WorkType /\ Now.error = "none" /\ Always(rs) /\ Sound(rs, session_fc) /\ Told(rs)
      /\ rs \in StreamType /\ session_fc \in SessionType /\ rs.fc \in FcType
      /\ rs.fc.consumed \in Nat /\ rs.fc.retired \in Nat /\ rs.got \subseteq Nat /\ rs.read \in Nat
      /\ session_fc.consumed \in Nat /\ session_fc.retired \in Nat /\ rs.reliable_size \in Nat
      /\ rs.final_size \in Nat
  BY <1>2, Fields DEF Begun
<1>4. /\ most \in Nat /\ most <= MaxOffset /\ most \notin rs.got /\ \A b \in Nat : b < most => b \in rs.got
  <2>1. \A b \in rs.got : b \in Nat /\ b < MaxOffset
    BY <1>1, <1>3 DEF Always
  <2> QED
    BY <2>1, <1>1, SequentialIs
<1> HIDE DEF most
<1>5. /\ rs.read <= most /\ most <= rs.fc.consumed
      /\ rs.state = "DataRecvd" => most = rs.fc.consumed
      /\ rs.state = "SizeKnownAt" => most <= rs.reliable_size
  <2>1. rs.read <= most
    BY <1>1, <1>3, <1>4 DEF Sound
  <2>2. \A k \in Nat : (\A b \in rs.got : b < k) => most <= k
    <3> SUFFICES ASSUME NEW k \in Nat, \A b \in rs.got : b < k, k < most PROVE FALSE
      BY <1>4
    <3> QED
      BY <1>4
  <2>3. most <= rs.fc.consumed /\ (rs.state = "SizeKnownAt" => most <= rs.reliable_size)
    BY <2>2, <1>1, <1>3 DEF Sound
  <2>4. rs.state = "DataRecvd" => most >= rs.fc.consumed
    BY <1>3, <1>4 DEF Sound
  <2> QED
    BY <2>1, <2>3, <2>4, <1>3, <1>4
<1>6. /\ copied \in Nat /\ copied <= most - rs.read /\ rs.read + copied <= most
      /\ copied # n => rs.read + copied = most
  BY <1>3, <1>4, <1>5, MinIs
<1> HIDE DEF copied
<1>6a. more \in BOOLEAN /\ (more => rs.owes) /\ (rs.owes /\ copied = n => more)
  OBVIOUS
<1> HIDE DEF more
<1>7. /\ v \in WorkType /\ v.error = "none" /\ v.session = session_fc /\ v.rs.fc = rs.fc
      /\ v.rs.state = rs.state /\ v.rs.got = rs.got /\ v.rs.read = rs.read + copied
      /\ v.rs.final_size = rs.final_size /\ v.rs.reliable_size = rs.reliable_size
      /\ v.rs.stopped = rs.stopped /\ v.rs.fin_read = rs.fin_read
      /\ v.rs.readable = rs.readable /\ v.rs.owes = more
  <2> DEFINE r == [rs EXCEPT !.read = rs.read + copied, !.owes = more]
  <2>1. rs \in StreamType /\ rs.read + copied \in Nat
    BY <1>3, <1>6
  <2>2. v = [Now EXCEPT !.rs = r]
    BY <1>2, <1>3 DEF WorkType, StreamType
  <2>3. /\ r \in StreamType /\ r.fc = rs.fc
        /\ r.state = rs.state /\ r.got = rs.got /\ r.read = rs.read + copied
        /\ r.final_size = rs.final_size /\ r.reliable_size = rs.reliable_size
        /\ r.stopped = rs.stopped /\ r.fin_read = rs.fin_read
        /\ r.readable = rs.readable /\ r.owes = more
    BY <2>1, <1>6a DEF StreamType
  <2> HIDE DEF r, v
  <2>4. v \in WorkType /\ v.error = "none" /\ v.session = session_fc /\ v.rs = r
    BY <2>2, <2>3, <1>2, <1>3 DEF WorkType
  <2> QED
    BY <2>3, <2>4
<1> HIDE DEF v
<1>8. /\ w \in WorkType /\ w.error = "none" /\ SameBut(v.rs, w.rs)
      /\ w.rs.fc.consumed = rs.fc.consumed /\ w.rs.fc.retired = rs.fc.retired + copied
      /\ w.session.consumed = session_fc.consumed /\ w.session.retired = session_fc.retired + copied
  BY <1>1, <1>6, <1>7, RetireIs
<1>9. /\ w.rs.state = rs.state /\ w.rs.got = rs.got /\ w.rs.read = rs.read + copied
      /\ w.rs.final_size = rs.final_size /\ w.rs.reliable_size = rs.reliable_size
      /\ w.rs.stopped = rs.stopped /\ w.rs.fin_read = rs.fin_read
      /\ w.rs.readable = rs.readable /\ w.rs.owes = more
  BY <1>7, <1>8 DEF SameBut
<1> HIDE DEF w
<1>10. ~rs.fin_read /\ rs.fc.consumed <= MaxOffset /\ rs.fc.retired <= rs.fc.consumed
  BY <1>1, <1>3 DEF Always, Buffering, Sound, StreamType
<1>11. /\ w.rs.fc.retired <= w.rs.fc.consumed /\ w.rs.read <= rs.fc.consumed
       /\ w.session.consumed = w.rs.fc.consumed /\ w.session.retired = w.rs.fc.retired
       /\ \A b \in Nat : b < w.rs.read => b \in w.rs.got
  <2>1. rs.state = "SizeKnownAt" => rs.fc.consumed - rs.fc.retired = rs.reliable_size - rs.read
    BY <1>3 DEF Sound
  <2>2. rs.state # "SizeKnownAt" => rs.fc.retired = rs.read
    BY <1>1, <1>3 DEF Sound, Buffering
  <2>3. session_fc.consumed = rs.fc.consumed /\ session_fc.retired = rs.fc.retired
    BY <1>3 DEF Sound
  <2> QED
    BY <2>1, <2>2, <2>3, <1>3, <1>4, <1>5, <1>6, <1>8, <1>9
<1>12. Always(w.rs)
  BY <1>1, <1>3, <1>8, <1>9, <1>10, <1>11, Fields DEF Always, Buffering
<1>13. Sound(w.rs, w.session)
  <2>1. Buffering(w.rs) /\ \A b \in w.rs.got : b < w.rs.fc.consumed
    BY <1>1, <1>3, <1>8, <1>9 DEF Sound, Buffering
  <2>2. w.rs.state \in {"Recv", "SizeKnown", "DataRecvd"} => w.rs.fc.retired = w.rs.read
    BY <1>3, <1>8, <1>9 DEF Sound
  <2>3. w.rs.state = "DataRecvd" => \A b \in Nat : b < w.rs.fc.consumed => b \in w.rs.got
    BY <1>3, <1>8, <1>9 DEF Sound
  <2>4. w.rs.state = "SizeKnownAt" =>
          /\ w.rs.final_size = w.rs.fc.consumed /\ w.rs.reliable_size <= w.rs.final_size
          /\ w.rs.fc.consumed - w.rs.fc.retired = w.rs.reliable_size - w.rs.read
          /\ \A b \in w.rs.got : b < w.rs.reliable_size
    <3>1. rs.state = "SizeKnownAt" =>
          /\ rs.final_size = rs.fc.consumed /\ rs.reliable_size <= rs.final_size
          /\ rs.fc.consumed - rs.fc.retired = rs.reliable_size - rs.read
          /\ \A b \in rs.got : b < rs.reliable_size
      BY <1>3 DEF Sound
    <3> QED
      BY <3>1, <1>3, <1>6, <1>8, <1>9
  <2> QED
    BY <2>1, <2>2, <2>3, <2>4, <1>11 DEF Sound, Buffering
<1>14. \/ rs.state = "DataRecvd" /\ drained /\ Done(ended)
       \/ rs.state = "SizeKnownAt" /\ Done(complete_reliable_reset_if_drained(w))
       \/ rs.state # "SizeKnownAt" /\ ~(rs.state = "DataRecvd" /\ drained) /\ Done(w)
  BY DEF read, w, v, more, copied, most
<1>15. drained <=> ~ \E b \in w.rs.got : b >= w.rs.read
  OBVIOUS
<1> HIDE DEF drained
<1>16. data_ready(w.rs) \/ (rs.state = "DataRecvd" /\ ~drained) => w.rs.readable \/ w.rs.owes
  <2>1. CASE copied = n
    BY <2>1, <1>3, <1>4, <1>6, <1>9, <1>6a DEF Told, data_ready, Buffering, StreamType
  <2>2. CASE copied # n
    <3>1. w.rs.read = most /\ ~data_ready(w.rs)
      BY <2>2, <1>4, <1>6, <1>9 DEF data_ready
    <3>2. rs.state = "DataRecvd" => drained
      BY <3>1, <1>3, <1>5, <1>9, <1>15 DEF Sound, Buffering
    <3> QED
      BY <3>1, <3>2
  <2> QED
    BY <2>1, <2>2
<1>17. CASE rs.state = "DataRecvd" /\ drained /\ Done(ended)
  <2>1. /\ ended \in WorkType /\ ended.error = "none" /\ ended.session = w.session /\ ended.rs.fc = w.rs.fc
        /\ ended.rs.state = "DataRead" /\ ended.rs.got = w.rs.got /\ ended.rs.read = w.rs.read
    BY <1>8 DEF WorkType, StreamType, States
  <2>2. w.rs.read = w.rs.fc.consumed
    <3>1. \A b \in Nat : b < rs.fc.consumed => b \in w.rs.got
      BY <1>3, <1>9, <1>17 DEF Sound
    <3>2. ~(w.rs.read < rs.fc.consumed)
      BY <3>1, <1>3, <1>6, <1>9, <1>15, <1>17
    <3>3. w.rs.read \in Nat /\ rs.fc.consumed \in Nat
      BY <1>3, <1>6, <1>9
    <3>4. w.rs.read <= rs.fc.consumed /\ w.rs.fc.consumed = rs.fc.consumed
      BY <1>8, <1>11
    <3> HIDE DEF ended
    <3> QED
      BY <3>2, <3>3, <3>4
  <2>3. w.rs.fc.retired = w.rs.fc.consumed
    BY <2>2, <1>9, <1>13, <1>17 DEF Sound
  <2> HIDE DEF ended
  <2>4. Always(ended.rs) /\ Sound(ended.rs, ended.session) /\ Told(ended.rs)
    BY <2>1, <2>2, <2>3, <1>11, <1>12 DEF Always, Sound, Told, Buffering, data_ready
  <2>5. Result(Now, ended)
    BY <2>1, <2>4, <1>2, <1>8 DEF Result
  <2> QED
    BY <2>5, <1>17, DoneIs
<1>18. CASE rs.state = "SizeKnownAt" /\ Done(complete_reliable_reset_if_drained(w))
  <2> DEFINE q == complete_reliable_reset_if_drained(w)
  <2>1. Result(Now, q)
    <3>1. CASE w.rs.read < w.rs.reliable_size
      <4>1. q = w
        BY <3>1 DEF complete_reliable_reset_if_drained
      <4>2. Told(w.rs)
        BY <1>9, <1>16, <1>18 DEF Told
      <4> QED
        BY <4>1, <4>2, <1>2, <1>8, <1>12, <1>13 DEF Result
    <3>2. CASE ~(w.rs.read < w.rs.reliable_size)
      <4>1. q = finish_reset(w, w.rs.fc.consumed)
        BY <3>2, <1>9, <1>13, <1>18 DEF complete_reliable_reset_if_drained, Sound
      <4>2. w.rs.read >= w.rs.reliable_size /\ ~w.rs.fin_read
        BY <3>2, <1>3, <1>6, <1>9, <1>10
      <4> HIDE DEF q
      <4>3. /\ q \in WorkType /\ q.error = "none" /\ Always(q.rs) /\ Sound(q.rs, q.session) /\ Told(q.rs)
            /\ q.rs.fc.consumed = w.rs.fc.consumed
        BY <4>1, <4>2, <1>8, <1>11, <1>12, FinishedOK
      <4> QED
        BY <4>3, <1>2, <1>8 DEF Result
    <3> QED
      BY <3>1, <3>2
  <2> QED
    BY <2>1, <1>18, DoneIs
<1>19. CASE rs.state # "SizeKnownAt" /\ ~(rs.state = "DataRecvd" /\ drained) /\ Done(w)
  <2>1. Told(w.rs)
    BY <1>9, <1>16, <1>19 DEF Told
  <2>2. Result(Now, w)
    BY <2>1, <1>2, <1>8, <1>12, <1>13 DEF Result
  <2> QED
    BY <2>2, <1>19, DoneIs
<1> QED
  BY <1>14, <1>17, <1>18, <1>19

LEMMA StopOK ==
    ASSUME ConstantsOK, IInv, stop_sending
    PROVE  Stepped
<1> DEFINE v == [Now EXCEPT !.rs.stopped = TRUE]
           w == RetireAll(v)
           aborted == [w EXCEPT !.rs.state = "AbortReading", !.rs.frame_needed = TRUE,
                                !.rs.final_size_reached = (rs.state = "SizeKnown")]
           ended == [w EXCEPT !.rs.state = "DataRead", !.rs.readable = FALSE]
<1>1. error = "none" /\ Buffering(rs) /\ MaxOffset \in Nat /\ Window \in Nat
  BY DEF stop_sending, ConstantsOK
<1>2. Begun(Now) /\ Now.rs = rs /\ Now.session = session_fc
  BY <1>1, NowIs
<1>3. /\ Now \in WorkType /\ Now.error = "none" /\ Always(rs) /\ Sound(rs, session_fc)
      /\ rs \in StreamType /\ rs.fc.consumed \in Nat /\ rs.fc.retired \in Nat /\ session_fc.retired \in Nat
  BY <1>2, Fields DEF Begun
<1>4. /\ v \in WorkType /\ v.error = "none" /\ v.session = session_fc /\ v.rs.fc = rs.fc
      /\ v.rs.state = rs.state /\ v.rs.got = rs.got /\ v.rs.read = rs.read /\ v.rs.stopped = TRUE
      /\ v.rs.reliable_size = rs.reliable_size /\ v.rs.fin_read = rs.fin_read
  BY <1>2, <1>3 DEF WorkType, StreamType
<1>5. /\ ~rs.fin_read /\ rs.fc.retired <= rs.fc.consumed /\ rs.fc.consumed <= MaxOffset
      /\ session_fc.consumed = rs.fc.consumed /\ session_fc.retired = rs.fc.retired
  BY <1>1, <1>3 DEF Always, Sound, Buffering, StreamType
<1>6. /\ w \in WorkType /\ w.error = "none" /\ SameBut(v.rs, w.rs)
      /\ w.rs.fc.consumed = rs.fc.consumed /\ w.rs.fc.retired = rs.fc.consumed
      /\ w.session.consumed = rs.fc.consumed /\ w.session.retired = rs.fc.consumed
  <2>1. v.rs.fc.retired <= v.rs.fc.consumed
    BY <1>4, <1>5
  <2> HIDE DEF v
  <2> QED
    BY <2>1, <1>1, <1>3, <1>4, <1>5, RetireAllIs
<1>7. \/ rs.state \in {"Recv", "SizeKnown"} /\ Done(aborted)
      \/ rs.state = "DataRecvd" /\ Done(ended)
      \/ rs.state = "SizeKnownAt" /\ Done(finish_reset(v, rs.final_size))
  BY <1>1 DEF stop_sending, Buffering
<1> HIDE DEF w, v
<1>8. /\ w.rs.got = rs.got /\ w.rs.read = rs.read /\ w.rs.stopped = TRUE /\ ~w.rs.fin_read
  BY <1>4, <1>5, <1>6 DEF SameBut
<1>9. CASE rs.state \in {"Recv", "SizeKnown"} /\ Done(aborted)
  <2>1. /\ aborted \in WorkType /\ aborted.error = "none" /\ aborted.session = w.session
        /\ aborted.rs.fc = w.rs.fc /\ aborted.rs.state = "AbortReading" /\ aborted.rs.got = w.rs.got
        /\ aborted.rs.read = w.rs.read /\ aborted.rs.stopped = TRUE /\ ~aborted.rs.fin_read
    <3> DEFINE b == rs.state = "SizeKnown"
               r == [w.rs EXCEPT !.state = "AbortReading", !.frame_needed = TRUE, !.final_size_reached = b]
    <3>1. b \in BOOLEAN /\ w.rs \in StreamType
      BY <1>6, Fields
    <3>2. aborted = [w EXCEPT !.rs = r]
      BY <1>6 DEF WorkType, StreamType
    <3> HIDE DEF b, aborted
    <3>3. /\ r \in StreamType /\ r.fc = w.rs.fc /\ r.state = "AbortReading" /\ r.got = w.rs.got
          /\ r.read = w.rs.read /\ r.stopped = w.rs.stopped /\ r.fin_read = w.rs.fin_read
      BY <3>1 DEF StreamType, States
    <3> HIDE DEF r
    <3>4. aborted \in WorkType /\ aborted.error = w.error /\ aborted.session = w.session /\ aborted.rs = r
      BY <3>2, <3>3, <1>6 DEF WorkType
    <3> QED
      BY <3>3, <3>4, <1>6, <1>8
  <2> HIDE DEF aborted
  <2>2. Always(aborted.rs)
    <3>1. rs.got \subseteq 0 .. (MaxOffset - 1) /\ rs.read <= MaxOffset
      BY <1>3 DEF Always
    <3>2. aborted.rs.fc.consumed <= MaxOffset /\ aborted.rs.fc.retired <= MaxOffset
      BY <2>1, <1>5, <1>6
    <3> QED
      BY <3>1, <3>2, <2>1, <1>8 DEF Always
  <2>3. ~Buffering(aborted.rs) /\ aborted.rs.state # "DataRecvd" /\ aborted.rs.state # "SizeKnownAt"
    BY <2>1 DEF Buffering
  <2>4. Sound(aborted.rs, aborted.session)
    <3>1. aborted.rs.fc.consumed = rs.fc.consumed /\ aborted.rs.fc.retired = rs.fc.consumed
      BY <2>1, <1>6
    <3>2. aborted.session.consumed = rs.fc.consumed /\ aborted.session.retired = rs.fc.consumed
      BY <2>1, <1>6
    <3> QED
      BY <3>1, <3>2, <2>1, <2>3, <1>3 DEF Sound
  <2>5. Told(aborted.rs)
    BY <2>3 DEF Told, data_ready
  <2>6. Result(Now, aborted)
    BY <2>1, <2>2, <2>4, <2>5, <1>2, <1>6 DEF Result
  <2> QED
    BY <2>6, <1>9, DoneIs
<1>10. CASE rs.state = "DataRecvd" /\ Done(ended)
  <2>1. /\ ended \in WorkType /\ ended.error = "none" /\ ended.session = w.session /\ ended.rs.fc = w.rs.fc
        /\ ended.rs.state = "DataRead" /\ ended.rs.got = w.rs.got /\ ended.rs.read = w.rs.read
        /\ ~ended.rs.fin_read
    BY <1>6, <1>8 DEF WorkType, StreamType, States
  <2> HIDE DEF ended
  <2>2. Always(ended.rs)
    <3>1. rs.got \subseteq 0 .. (MaxOffset - 1) /\ rs.read <= MaxOffset
      BY <1>3 DEF Always
    <3>2. ended.rs.fc.consumed <= MaxOffset /\ ended.rs.fc.retired <= MaxOffset
      BY <2>1, <1>5, <1>6
    <3> QED
      BY <3>1, <3>2, <2>1, <1>8 DEF Always
  <2>3. ~Buffering(ended.rs) /\ ended.rs.state # "DataRecvd" /\ ended.rs.state # "SizeKnownAt"
    BY <2>1 DEF Buffering
  <2>4. Sound(ended.rs, ended.session)
    <3>1. ended.rs.fc.consumed = rs.fc.consumed /\ ended.rs.fc.retired = rs.fc.consumed
      BY <2>1, <1>6
    <3>2. ended.session.consumed = rs.fc.consumed /\ ended.session.retired = rs.fc.consumed
      BY <2>1, <1>6
    <3> QED
      BY <3>1, <3>2, <2>1, <2>3, <1>3 DEF Sound
  <2>5. Told(ended.rs)
    BY <2>3 DEF Told, data_ready
  <2>6. Result(Now, ended)
    BY <2>1, <2>2, <2>4, <2>5, <1>2, <1>6 DEF Result
  <2> QED
    BY <2>6, <1>10, DoneIs
<1>11. CASE rs.state = "SizeKnownAt" /\ Done(finish_reset(v, rs.final_size))
  <2> DEFINE q == finish_reset(v, v.rs.fc.consumed)
  <2>1. Done(q)
    BY <1>3, <1>4, <1>11 DEF Sound
  <2>2. Always(v.rs) /\ ~v.rs.fin_read
    BY <1>3, <1>4, <1>5 DEF Always
  <2> HIDE DEF q
  <2>3. /\ q \in WorkType /\ q.error = "none" /\ Always(q.rs) /\ Sound(q.rs, q.session) /\ Told(q.rs)
        /\ q.rs.fc.consumed = v.rs.fc.consumed
    BY <2>2, <1>4, <1>5, FinishedOK DEF q
  <2>4. Result(Now, q)
    BY <2>3, <1>2, <1>4 DEF Result
  <2> QED
    BY <2>1, <2>4, DoneIs
<1> QED
  BY <1>7, <1>9, <1>10, <1>11

\* What changes nothing that the properties speak of.
LEMMA QuietOK ==
    ASSUME IInv, error = "none", error' = "none", rs' \in StreamType, session_fc' \in SessionType,
           rs'.got = rs.got, rs'.read = rs.read, rs'.fc.consumed = rs.fc.consumed, rs'.fc.retired = rs.fc.retired,
           rs'.final_size = rs.final_size, rs'.reliable_size = rs.reliable_size,
           rs'.stopped = rs.stopped, rs'.fin_read = rs.fin_read,
           session_fc'.consumed = session_fc.consumed, session_fc'.retired = session_fc.retired,
           \/ rs'.state = rs.state
           \/ rs.state = "AbortReading" /\ rs'.state \in {"WaitForReset", "ResetRecvd"},
           rs.readable \/ rs.owes => rs'.readable \/ rs'.owes
    PROVE  Stepped
<1>1. Always(rs) /\ Sound(rs, session_fc) /\ Told(rs)
  BY DEF IInv
<1>2. Always(rs') /\ Sound(rs', session_fc') /\ Told(rs')
  <2>1. CASE rs'.state = rs.state
    BY <2>1, <1>1 DEF Always, Sound, Told, Buffering, data_ready
  <2>2. CASE rs.state = "AbortReading" /\ rs'.state \in {"WaitForReset", "ResetRecvd"}
    BY <2>2, <1>1 DEF Always, Sound, Told, Buffering, data_ready
  <2> QED
    BY <2>1, <2>2
<1> QED
  BY <1>2 DEF Stepped, ErrorKinds

LEMMA RemoveAtIs ==
    ASSUME NEW S, NEW s \in Seq(S), NEW i \in DOMAIN s
    PROVE  RemoveAt(s, i) \in Seq(S) /\ Len(RemoveAt(s, i)) = Len(s) - 1
<1> DEFINE a == SubSeq(s, 1, i - 1)
           b == SubSeq(s, i + 1, Len(s))
<1>1. i \in 1 .. Len(s) /\ Len(s) \in Nat
  OBVIOUS
<1>2. a \in Seq(S) /\ Len(a) = i - 1
  BY <1>1
<1>3. b \in Seq(S) /\ Len(b) = Len(s) - i
  BY <1>1
<1>4. RemoveAt(s, i) = a \o b
  BY DEF RemoveAt
<1> HIDE DEF a, b
<1> QED
  BY <1>1, <1>2, <1>3, <1>4

LEMMA StepOK ==
    ASSUME ConstantsOK, IInv, [RNext]_rvars
    PROVE  IInv' /\ FinalSizeStays
<1>1. /\ rs \in StreamType /\ session_fc \in SessionType /\ rs.fc \in FcType
      /\ out \in Seq(TokenType) /\ Len(out) \in Nat /\ Len(out) <= MaxTokens
      /\ rs.fc.retired \in Nat /\ Window \in Nat /\ SessionWindow \in Nat /\ MaxTokens \in Nat
  BY DEF IInv, ConstantsOK, StreamType, FcType
<1>2. Stepped /\ out' \in Seq(TokenType) /\ Len(out') <= MaxTokens => IInv' /\ FinalSizeStays
  BY DEF Stepped, IInv, FinalSizeStays, Always
<1>3. CASE UNCHANGED rvars
  BY <1>3 DEF rvars, IInv, Always, Sound, Told, Buffering, data_ready, FinalSizeStays
<1>4. ASSUME NEW off \in 0 .. MaxOffset, NEW len \in 0 .. (MaxOffset - off), NEW fin \in BOOLEAN,
             inbound_stream_frame(off, len, fin)
      PROVE  IInv' /\ FinalSizeStays
  <2>1. off \in Nat /\ len \in Nat /\ off + len <= MaxOffset
    BY DEF ConstantsOK
  <2>2. error = "none" /\ Done(StreamFrame(Now, off, len, fin)) /\ out' = out
    BY <1>4 DEF inbound_stream_frame
  <2>3. Stepped
    BY <2>1, <2>2, NowIs, StreamFrameOK, DoneIs
  <2> QED
    BY <2>2, <2>3, <1>1, <1>2
<1>5. ASSUME NEW err \in Errors, NEW final_size \in 0 .. MaxOffset, NEW reliable_size \in 0 .. final_size,
             reset_frame(err, final_size, reliable_size)
      PROVE  IInv' /\ FinalSizeStays
  <2>1. final_size \in Nat /\ reliable_size \in Nat /\ reliable_size <= final_size /\ final_size <= MaxOffset
    BY DEF ConstantsOK
  <2>2. error = "none" /\ Done(ResetFrame(Now, err, final_size, reliable_size)) /\ out' = out
    BY <1>5 DEF reset_frame
  <2>3. Stepped
    BY <2>1, <2>2, NowIs, ResetFrameOK, DoneIs
  <2> QED
    BY <2>2, <2>3, <1>1, <1>2
<1>6. CASE send_flowc_update
  <2>1. error = "none" /\ error' = "none" /\ out' = out /\ session_fc' = session_fc
        /\ rs' = [rs EXCEPT !.fc.frame_pending = TRUE]
    BY <1>6 DEF send_flowc_update
  <2>2. Stepped
    BY <2>1, <1>1, QuietOK DEF StreamType, FcType
  <2> QED
    BY <2>1, <2>2, <1>1, <1>2
<1>7. CASE TakeReadable
  <2>1. error = "none" /\ error' = "none" /\ out' = out /\ session_fc' = session_fc
        /\ rs' = [rs EXCEPT !.readable = FALSE, !.owes = TRUE]
    BY <1>7 DEF TakeReadable
  <2>2. Stepped
    BY <2>1, <1>1, QuietOK DEF StreamType
  <2> QED
    BY <2>1, <2>2, <1>1, <1>2
<1>8. ASSUME NEW n \in 1 .. MaxOffset, read(n) PROVE IInv' /\ FinalSizeStays
  <2>1. out' = out
    BY <1>8 DEF read
  <2>2. Stepped
    BY <1>8, ReadOK
  <2> QED
    BY <2>1, <2>2, <1>1, <1>2
<1>9. CASE stop_sending
  <2>1. out' = out
    BY <1>9 DEF stop_sending
  <2>2. Stepped
    BY <1>9, StopOK
  <2> QED
    BY <2>1, <2>2, <1>1, <1>2
<1>10. CASE write_frame
  <2>1. error = "none" /\ error' = "none" /\ session_fc' = session_fc /\ Len(out) < MaxTokens
    BY <1>10 DEF write_frame
  <2>2. NextMax \in Nat
    BY <1>1 DEF NextMax
  <2>3. Stepped /\ \E t \in TokenType : out' = Append(out, t)
    <3>1. CASE /\ rs' = [rs EXCEPT !.fc.max_allowed = NextMax, !.fc.frame_pending = FALSE]
               /\ out' = Append(out, [kind |-> "max", value |-> NextMax, got |-> FALSE, lost |-> FALSE])
      <4> HIDE DEF NextMax
      <4>1. /\ rs' \in StreamType /\ rs'.fc.consumed = rs.fc.consumed /\ rs'.fc.retired = rs.fc.retired
            /\ rs'.got = rs.got /\ rs'.read = rs.read /\ rs'.state = rs.state
            /\ rs'.final_size = rs.final_size /\ rs'.reliable_size = rs.reliable_size
            /\ rs'.stopped = rs.stopped /\ rs'.fin_read = rs.fin_read
            /\ rs'.readable = rs.readable /\ rs'.owes = rs.owes
        BY <3>1, <2>2, <1>1 DEF StreamType, FcType
      <4>2. Stepped
        BY <4>1, <2>1, <1>1, QuietOK
      <4> QED
        BY <4>2, <3>1, <2>2 DEF TokenType
    <3>2. CASE /\ rs' = [rs EXCEPT !.frame_needed = FALSE]
               /\ out' = Append(out, [kind |-> "stop", value |-> 0, got |-> FALSE, lost |-> FALSE])
      <4>1. Stepped
        BY <3>2, <2>1, <1>1, QuietOK DEF StreamType
      <4> QED
        BY <4>1, <3>2 DEF TokenType
    <3> QED
      BY <1>10, <3>1, <3>2 DEF write_frame
  <2>4. out' \in Seq(TokenType) /\ Len(out') <= MaxTokens
    BY <2>1, <2>3, <1>1
  <2> QED
    BY <2>3, <2>4, <1>2
<1>11. CASE WriteMaxData
  <2>1. error = "none" /\ error' = "none" /\ out' = out /\ rs' = rs
        /\ session_fc' = [session_fc EXCEPT !.max_allowed = session_fc.retired + SessionWindow]
    BY <1>11 DEF WriteMaxData
  <2>2. session_fc' \in SessionType /\ session_fc'.consumed = session_fc.consumed
        /\ session_fc'.retired = session_fc.retired
    BY <2>1, <1>1 DEF SessionType
  <2>3. Stepped
    BY <2>1, <2>2, <1>1, QuietOK
  <2> QED
    BY <2>1, <2>3, <1>1, <1>2
<1>12. ASSUME NEW i \in DOMAIN out, TokenLost(i) PROVE IInv' /\ FinalSizeStays
  <2>1. error = "none" /\ error' = "none" /\ session_fc' = session_fc /\ out' = [out EXCEPT ![i].lost = TRUE]
    BY <1>12 DEF TokenLost
  <2>2. \/ rs' = [rs EXCEPT !.fc.frame_pending = TRUE]
        \/ rs' = [rs EXCEPT !.frame_needed = TRUE]
        \/ rs' = rs
    BY <1>12 DEF TokenLost
  <2>3. /\ rs' \in StreamType /\ rs'.fc.consumed = rs.fc.consumed /\ rs'.fc.retired = rs.fc.retired
        /\ rs'.got = rs.got /\ rs'.read = rs.read /\ rs'.state = rs.state
        /\ rs'.final_size = rs.final_size /\ rs'.reliable_size = rs.reliable_size
        /\ rs'.stopped = rs.stopped /\ rs'.fin_read = rs.fin_read
        /\ rs'.readable = rs.readable /\ rs'.owes = rs.owes
    <3>1. CASE rs' = [rs EXCEPT !.fc.frame_pending = TRUE]
      BY <3>1, <1>1 DEF StreamType, FcType
    <3>2. CASE rs' = [rs EXCEPT !.frame_needed = TRUE]
      BY <3>2, <1>1 DEF StreamType
    <3> QED
      BY <2>2, <3>1, <3>2, <1>1
  <2>4. Stepped
    BY <2>1, <2>3, <1>1, QuietOK
  <2>5. out' \in Seq(TokenType) /\ Len(out') = Len(out)
    <3> DEFINE t == [out[i] EXCEPT !.lost = TRUE]
    <3>1. out[i] \in TokenType
      BY <1>1
    <3>2. t \in TokenType
      BY <3>1 DEF TokenType
    <3>3. out' = [out EXCEPT ![i] = t]
      BY <2>1
    <3> HIDE DEF t
    <3> QED
      BY <3>2, <3>3, <1>1
  <2> QED
    BY <2>4, <2>5, <1>1, <1>2
<1>13. ASSUME NEW i \in DOMAIN out, TokenAcked(i) PROVE IInv' /\ FinalSizeStays
  <2>1. error = "none" /\ error' = "none" /\ session_fc' = session_fc /\ out' = RemoveAt(out, i)
    BY <1>13 DEF TokenAcked
  <2>2. rs' = rs \/ rs' = stop_sending_acked(rs)
    BY <1>13 DEF TokenAcked
  <2>3. \/ rs' = rs
        \/ rs.state = "AbortReading" /\ rs' = [rs EXCEPT !.state = "ResetRecvd"]
        \/ rs.state = "AbortReading" /\ rs' = [rs EXCEPT !.state = "WaitForReset"]
    BY <2>2 DEF stop_sending_acked
  <2>4. /\ rs' \in StreamType /\ rs'.fc = rs.fc
        /\ rs'.got = rs.got /\ rs'.read = rs.read
        /\ \/ rs'.state = rs.state
           \/ rs.state = "AbortReading" /\ rs'.state \in {"WaitForReset", "ResetRecvd"}
        /\ rs'.final_size = rs.final_size /\ rs'.reliable_size = rs.reliable_size
        /\ rs'.stopped = rs.stopped /\ rs'.fin_read = rs.fin_read
        /\ rs'.readable = rs.readable /\ rs'.owes = rs.owes
    BY <2>3, <1>1 DEF StreamType, States
  <2>5. Stepped
    BY <2>1, <2>4, <1>1, QuietOK
  <2>6. out' \in Seq(TokenType) /\ Len(out') <= MaxTokens
    BY <2>1, <1>1, RemoveAtIs
  <2> QED
    BY <2>5, <2>6, <1>2
<1>14. ASSUME NEW i \in DOMAIN out, TokenExpired(i) PROVE IInv' /\ FinalSizeStays
  <2>1. error = "none" /\ error' = "none" /\ session_fc' = session_fc /\ rs' = rs /\ out' = RemoveAt(out, i)
    BY <1>14 DEF TokenExpired
  <2>2. Stepped
    BY <2>1, <1>1, QuietOK
  <2>3. out' \in Seq(TokenType) /\ Len(out') <= MaxTokens
    BY <2>1, <1>1, RemoveAtIs
  <2> QED
    BY <2>2, <2>3, <1>2
<1> QED
  BY <1>3, <1>4, <1>5, <1>6, <1>7, <1>8, <1>9, <1>10, <1>11, <1>12, <1>13, <1>14 DEF RNext, Peer, Reader

LEMMA InitOK ==
    ASSUME ConstantsOK, RInit
    PROVE  IInv
<1>1. rs \in StreamType /\ session_fc \in SessionType
  BY DEF RInit, ConstantsOK, StreamType, States, FcType, SessionType
<1>2. /\ rs.state = "Recv" /\ rs.got = {} /\ rs.read = 0 /\ rs.fc.consumed = 0 /\ rs.fc.retired = 0
      /\ rs.fin_read = FALSE /\ session_fc.consumed = 0 /\ session_fc.retired = 0
  BY DEF RInit
<1>3. Always(rs) /\ Sound(rs, session_fc) /\ Told(rs)
  BY <1>2 DEF ConstantsOK, Always, Sound, Told, Buffering, data_ready
<1>4. error \in ErrorKinds /\ out \in Seq(TokenType) /\ Len(out) <= MaxTokens
  BY DEF RInit, ErrorKinds, ConstantsOK
<1> QED
  BY <1>1, <1>3, <1>4 DEF IInv

LEMMA InvIs ==
    ASSUME ConstantsOK, IInv
    PROVE  /\ RTypeOK /\ CreditAccounted /\ NoCreditLeak /\ CreditHeldForUnread
           /\ ReaderIsTold /\ PrefixBeforeReset
<1>1. /\ rs.state \in States /\ rs.read \in Nat /\ rs.fc.consumed \in Nat /\ rs.fc.retired \in Nat
      /\ rs.got \subseteq Nat /\ rs.stopped \in BOOLEAN
  BY DEF IInv, StreamType, FcType
<1>2. RTypeOK
  BY <1>1 DEF IInv, RTypeOK, Always, States, ErrorKinds, ConstantsOK
<1>3. CreditAccounted
  BY DEF IInv, CreditAccounted, Sound
<1>4. NoCreditLeak
  BY DEF IInv, NoCreditLeak, Sound, Ended, Buffering
<1>5. CreditHeldForUnread
  <2> SUFFICES ASSUME error = "none"
               PROVE CASE rs.state \in {"Recv", "SizeKnown", "DataRecvd"} -> rs.fc.retired = rs.read
                       [] rs.state = "SizeKnownAt" ->
                             rs.fc.consumed - rs.fc.retired = rs.reliable_size - rs.read
                       [] OTHER -> rs.fc.retired = rs.fc.consumed
    BY DEF CreditHeldForUnread
  <2>1. Sound(rs, session_fc)
    BY DEF IInv
  <2> QED
    BY <2>1 DEF Sound, Buffering
<1>6. ReaderIsTold
  BY DEF IInv, ReaderIsTold, Told
<1>7. PrefixBeforeReset
  BY DEF IInv, PrefixBeforeReset, Always
<1> QED
  BY <1>2, <1>3, <1>4, <1>5, <1>6, <1>7

(* Whatever frames the peer sends and however the application reads or     *)
(* stops: credit is accounted for, none leaks and only that of unread      *)
(* bytes is held back, the application is told of what there is to read,   *)
(* and a reset does not overtake its reliable prefix (RecvStream).         *)
THEOREM StreamAlwaysSound ==
    ASSUME ConstantsOK
    PROVE  RSpec => [](/\ RTypeOK /\ CreditAccounted /\ NoCreditLeak /\ CreditHeldForUnread
                       /\ ReaderIsTold /\ PrefixBeforeReset)
<1>1. RInit => IInv
  BY InitOK
<1>2. IInv /\ [RNext]_rvars => IInv'
  BY StepOK
<1>3. IInv => /\ RTypeOK /\ CreditAccounted /\ NoCreditLeak /\ CreditHeldForUnread
              /\ ReaderIsTold /\ PrefixBeforeReset
  BY InvIs
<1> QED
  BY <1>1, <1>2, <1>3, PTL DEF RSpec

(* A final size that is known never changes, whatever frames come after    *)
(* it, and the FIN is read exactly there (flow_control_consume_data).      *)
THEOREM FinalSizeAlwaysStays ==
    ASSUME ConstantsOK
    PROVE  RSpec => [][FinalSizeStays]_rvars
<1>1. RInit => IInv
  BY InitOK
<1>2. IInv /\ [RNext]_rvars => IInv' /\ [FinalSizeStays]_rvars
  BY StepOK
<1> QED
  BY <1>1, <1>2, PTL DEF RSpec
=============================================================================
