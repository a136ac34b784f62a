------------------------------- MODULE Tokens -------------------------------
(***************************************************************************)
(* Session tickets and NEW_TOKEN tokens: NewTokenState and NewTokenSender  *)
(* of addr_valid.rs, and how the client of connection/mod.rs combines the  *)
(* two into resumption tokens for the application.  The server sends a     *)
(* ticket and a token together, in CRYPTO and NEW_TOKEN frames.  CRYPTO    *)
(* data arrives in order and once; a NEW_TOKEN frame may be lost, late,    *)
(* or sent again though it arrives.                                        *)
(***************************************************************************)
EXTENDS Naturals, Sequences, FiniteSets, SequencesExt

CONSTANTS
    Tickets,        \* bound: calls of send_ticket()
    MaxNewToken, MaxSavedTokens,    \* MAX_NEW_TOKEN, MAX_SAVED_TOKENS
    Wait,           \* 3 * pto()
    MaxTime, Losses \* bounds: on the time, and on frames declared lost

VARIABLES
    tokens,         \* NewTokenSender: unacknowledged tokens, and whether each needs_sending
    sent,           \* tickets sent so far
    frames,         \* NEW_TOKEN frames sent, whose fate the server does not know
    arriving,       \* copies of tokens, and tickets, that have yet to arrive
    seen,           \* tokens that have arrived
    pending, old,   \* NewTokenState at the client
    tickets,        \* tickets that TLS has
    timer,          \* release_resumption_token_timer, 0 if there is none
    released,       \* tokens given to the application, in order; 0 for none
    now, losses

vars == <<tokens, sent, frames, arriving, seen, pending, old, tickets, timer, released,
          now, losses>>
client == [pending |-> pending, old |-> old, tickets |-> tickets, timer |-> timer,
           released |-> released]

-----------------------------------------------------------------------------
(* The server *)

send_new_token(set, n) == set \cup {[seqno |-> n, needs |-> TRUE]}
SendTicket ==
    /\ sent < Tickets
    /\ sent' = sent + 1
    /\ tokens' = send_new_token(tokens, sent')
    /\ arriving' = [arriving EXCEPT !.tickets = @ + 1]
    /\ UNCHANGED <<frames, seen, pending, old, tickets, timer, released, now, losses>>

\* NewTokenSender::write_frames(); the packet arrives or does not.
WriteFrames ==
    /\ \E t \in tokens : t.needs
    /\ tokens' = {[t EXCEPT !.needs = FALSE] : t \in tokens}
    /\ \E got \in SUBSET {t.seqno : t \in {u \in tokens : u.needs}} :
          arriving' = [arriving EXCEPT !.tokens = @ \o SetToSeq(got)]
    /\ frames' = frames \o SetToSeq({t.seqno : t \in {u \in tokens : u.needs}})
    /\ UNCHANGED <<sent, seen, pending, old, tickets, timer, released, now, losses>>

\* Variant: what is lost is not sent again.
LostForgotten(set, n) == set

\* NewTokenSender::lost().
lost(set, n) == {[t EXCEPT !.needs = @ \/ t.seqno = n] : t \in set}
Lost ==
    \E i \in DOMAIN frames :
        /\ losses > 0 /\ losses' = losses - 1
        /\ tokens' = lost(tokens, frames[i])
        /\ frames' = RemoveAt(frames, i)
        /\ UNCHANGED <<sent, arriving, seen, pending, old, tickets, timer, released, now>>

\* NewTokenSender::acked(), of a frame that has arrived.
acked(set, n) == {t \in set : t.seqno # n}
Acked ==
    \E i \in DOMAIN frames :
        /\ frames[i] \in seen
        /\ tokens' = acked(tokens, frames[i])
        /\ frames' = RemoveAt(frames, i)
        /\ UNCHANGED <<sent, arriving, seen, pending, old, tickets, timer, released, now, losses>>

-----------------------------------------------------------------------------
(* The client *)

\* Variant: what was taken is not remembered.
TakeForgotten(c) == [c EXCEPT !.pending = Front(@)]

\* NewTokenState::take_token(), the newest one.
take_token(c) ==
    [c EXCEPT !.pending = Front(@),
              !.old = Append(IF Len(@) >= MaxSavedTokens THEN Tail(@) ELSE @, Last(c.pending))]

\* TLS gives up a ticket, which goes with the NEW_TOKEN token t, or 0 for none,
\* into the event, or the result.
has_resumption_token(c) == c.tickets > 0
ResumptionToken(c, t) == [c EXCEPT !.tickets = @ - 1, !.released = Append(@, t)]

\* make_resumption_token().
Release(c) ==
    IF c.pending # <<>> THEN ResumptionToken(take_token(c), Last(c.pending)) ELSE ResumptionToken(c, 0)

\* While there is a ticket and a token to go with it.
Pairs(c) == FoldLeft(LAMBDA w, i : IF has_resumption_token(w) /\ w.pending # <<>> THEN Release(w) ELSE w,
                     c, [i \in 1 .. c.tickets |-> i])

\* Variant: the timer runs for the first ticket only.
ArmOnce(c) == c

arm(c) == [c EXCEPT !.timer = IF has_resumption_token(c) THEN now + Wait ELSE @]
\* The ticket that is left is released when the timer has run.
ReleaseLate(c) ==
    CASE ~has_resumption_token(c) -> c
      [] has_resumption_token(c) /\ c.timer = 0 -> [c EXCEPT !.timer = now + Wait]
      [] has_resumption_token(c) /\ c.timer > now -> c
      [] OTHER -> arm([Release(c) EXCEPT !.timer = 0])
create_resumption_token(c) == ReleaseLate(Pairs(c))

Becomes(c) ==
    /\ pending' = c.pending /\ old' = c.old /\ tickets' = c.tickets /\ timer' = c.timer
    /\ released' = c.released

\* A CRYPTO frame with a ticket.
ReceiveTicket ==
    /\ arriving.tickets > 0
    /\ arriving' = [arriving EXCEPT !.tickets = @ - 1]
    /\ Becomes(create_resumption_token([client EXCEPT !.tickets = @ + 1]))
    /\ UNCHANGED <<tokens, sent, frames, seen, now, losses>>

\* NewTokenState::save_token().
save_token(c, t) ==
    IF t \in Range(c.old) \cup Range(c.pending) THEN c
    ELSE [c EXCEPT !.pending = Append(IF Len(@) >= MaxNewToken THEN Tail(@) ELSE @, t)]
ReceiveToken ==
    \E i \in DOMAIN arriving.tokens :
        /\ arriving' = [arriving EXCEPT !.tokens = RemoveAt(@, i)]
        /\ seen' = seen \cup {arriving.tokens[i]}
        /\ Becomes(create_resumption_token(save_token(client, arriving.tokens[i])))
        /\ UNCHANGED <<tokens, sent, frames, now, losses>>

\* process_timer().
ProcessTimer ==
    /\ timer # 0
    /\ Becomes(create_resumption_token(client))
    /\ UNCHANGED <<tokens, sent, frames, arriving, seen, now, losses>>

\* take_resumption_token(), by the application.
TakeResumptionToken ==
    /\ tickets > 0
    /\ Becomes(arm(Release(client)))
    /\ UNCHANGED <<tokens, sent, frames, arriving, seen, now, losses>>

Tick ==
    /\ now < MaxTime
    /\ now' = now + 1
    /\ UNCHANGED <<tokens, sent, frames, arriving, seen, pending, old, tickets, timer, released, losses>>

Init ==
    /\ tokens = {} /\ sent = 0 /\ frames = <<>> /\ arriving = [tickets |-> 0, tokens |-> <<>>]
    /\ seen = {} /\ pending = <<>> /\ old = <<>> /\ tickets = 0 /\ timer = 0 /\ released = <<>>
    /\ now = 1 /\ losses = Losses

Next == \/ SendTicket \/ WriteFrames \/ Lost \/ Acked
        \/ ReceiveTicket \/ ReceiveToken \/ ProcessTimer \/ TakeResumptionToken \/ Tick

-----------------------------------------------------------------------------
(* No token is given to the application twice, though its frame arrives    *)
(* twice; and the server gives up on a token only once the client has it.  *)
TokensExactlyOnce ==
    /\ \A i, j \in DOMAIN released : released[i] = released[j] /\ i # j => released[i] = 0
    /\ \A n \in 1 .. sent :
          \/ n \in seen
          \/ \E t \in tokens : t.seqno = n /\ (t.needs \/ n \in Range(frames))

(* A ticket that waits for a token has a timer: process_timer() only looks *)
(* at tickets when the timer is set, so one without it would stay.         *)
TicketsAreTimed == tickets > 0 => timer # 0 /\ timer <= now + Wait
=============================================================================
