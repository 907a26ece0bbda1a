-------------------------- MODULE TerminalResponse --------------------------
(***************************************************************************)
(* What the transport promises about the end of a response, without its    *)
(* threads, queue, socket and clock: two parties, the engine and the       *)
(* connection's writer, may end it; one of them owns the ending; the       *)
(* client of a chat is sent at most one ending and nothing after it; and a *)
(* session is kept only for a response that the engine owns. A plain       *)
(* request is answered without the right to end the response, so that the  *)
(* writer may still take it: its deadline response can follow the answer.  *)
(* ResponsePath implements this specification.                             *)
(***************************************************************************)
EXTENDS Naturals, Sequences

VARIABLES
    plain,   \* the request is no chat
    owner,   \* who may end the response: "none", "engine" or "writer"
    sent,    \* what was sent to the client: a sequence of "part" and "ending"
    open,    \* the connection is open
    kept     \* the session of the request was kept for the next one

vars == <<plain, owner, sent, open, kept>>

Init ==
    /\ plain \in BOOLEAN
    /\ owner = "none"
    /\ sent = <<>>
    /\ open = TRUE
    /\ kept = FALSE

Over == \E i \in 1..Len(sent) : sent[i] = "ending"

Sends(piece) ==
    sent' = Append(sent, piece) /\ UNCHANGED <<plain, owner, open, kept>>

(* One party takes the right to end the response, for good. *)
Claim ==
    /\ owner = "none"
    /\ owner' \in {"engine", "writer"}
    /\ UNCHANGED <<plain, sent, open, kept>>

(* More of the response is sent. *)
Show == open /\ ~Over /\ Sends("part")

(* Its owner ends the response. *)
Finish == open /\ ~Over /\ owner # "none" /\ Sends("ending")

(* A plain request is answered at once, in one piece. *)
Answer == open /\ plain /\ sent = <<>> /\ Sends("ending")

(* The writer's deadline response, or a part of it, follows that answer.   *)
Overtake ==
    /\ open /\ plain /\ owner = "writer"
    /\ sent = <<"ending">>
    /\ \E piece \in {"part", "ending"} : Sends(piece)

(* The engine keeps the session of a response it owns, or drops it again   *)
(* because the response could not be handed over.                          *)
Keep ==
    /\ owner = "engine"
    /\ kept' = ~kept
    /\ UNCHANGED <<plain, owner, sent, open>>

Close ==
    /\ open
    /\ open' = FALSE
    /\ UNCHANGED <<plain, owner, sent, kept>>

Next == Claim \/ Show \/ Finish \/ Answer \/ Overtake \/ Keep \/ Close

Spec == Init /\ [][Next]_vars

=============================================================================
