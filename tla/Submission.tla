----------------------------- MODULE Submission -----------------------------
(***************************************************************************)
(* What qrelay promises about one mail submission, seen from the outside:  *)
(* by the client that sent it and by the server that receives the log.     *)
(*                                                                         *)
(* A submission is opened by an incoming connection and ends once: either  *)
(* the client gets its one response, or it gets none (it disconnected, or  *)
(* the response could not be sent).  A mail that was parsed is reported to *)
(* the log server once, when the submission ends; if the client was        *)
(* answered, the report carries the text of that answer.                   *)
(*                                                                         *)
(* How the answer comes about (Lua handler, relays, timeout) is left to    *)
(* module Connection, which implements this one.                           *)
(***************************************************************************)

CONSTANTS
  Connections,  \* the client connections
  Responses,    \* the responses a client may get
  Messages,     \* the texts of log datagrams
  LogServer     \* is a log server configured?

VARIABLES
  phase,        \* phase[c]: how far the submission of client c is
  parsed,       \* parsed[c]: was a valid mail received from c?
  replies,      \* replies[c]: the responses sent to client c
  messages      \* messages[c]: texts of the datagrams logged for c

vars == <<phase, parsed, replies, messages>>

Phases == {"idle", "open", "answered", "abandoned"}

Init ==
  /\ phase = [c \in Connections |-> "idle"]
  /\ parsed = [c \in Connections |-> FALSE]
  /\ replies = [c \in Connections |-> << >>]
  /\ messages = [c \in Connections |-> << >>]

Open(c) ==
  /\ phase[c] = "idle"
  /\ phase' = [phase EXCEPT ![c] = "open"]
  /\ UNCHANGED <<parsed, replies, messages>>

(* A valid mail has been received and is being worked on. *)
Receive(c) ==
  /\ phase[c] = "open"
  /\ ~parsed[c]
  /\ parsed' = [parsed EXCEPT ![c] = TRUE]
  /\ UNCHANGED <<phase, replies, messages>>

(* The submission of c ends with outcome; valid tells whether its mail was *)
(* parsed, which may have been established in the same step.               *)
End(c, outcome, valid, message) ==
  /\ phase[c] = "open"
  /\ parsed[c] => valid
  /\ phase' = [phase EXCEPT ![c] = outcome]
  /\ parsed' = [parsed EXCEPT ![c] = valid]
  /\ messages' = [messages EXCEPT ![c] =
                    IF valid /\ LogServer THEN <<message>> ELSE << >>]

Answer(c, response, valid) ==
  /\ End(c, "answered", valid, response.text)
  /\ replies' = [replies EXCEPT ![c] = <<response>>]

Abandon(c, valid, message) ==
  /\ End(c, "abandoned", valid, message)
  /\ UNCHANGED replies

Next ==
  \E c \in Connections :
    \/ Open(c)
    \/ Receive(c)
    \/ \E valid \in BOOLEAN :
         \/ \E response \in Responses : Answer(c, response, valid)
         \/ \E message \in Messages : Abandon(c, valid, message)

Spec == Init /\ [][Next]_vars

=============================================================================
