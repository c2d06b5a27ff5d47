---------------------------- MODULE RelayReports ----------------------------
(***************************************************************************)
(* The responses of qrelay, and which of them the relays may report to     *)
(* their RelayHandler.  Connection relies on it, the relays implement it.  *)
(***************************************************************************)

CONSTANT RelayTexts   \* texts that come from the relayed-to program or server

LocalTexts ==
  {"malformed input", "bad address", "too many recipients", "discarded",
   "rejected", "script failed", "timeout", "connect failed", "relay failed",
   "malformed relay response", "internal server error", "write error",
   "read error"}

Texts == LocalTexts \cup RelayTexts

Codes == {"K", "D", "Z"}

Responses == [code : Codes, text : Texts]

(* Texts a log datagram may carry: a response without its code, or one of  *)
(* the two texts for submissions that end unanswered.                      *)
Messages == Texts \cup {"canceled", "client error"}

Response(code, text) == [code |-> code, text |-> text]

(* The kinds of relay, by the Action::Type that asks for them.             *)
RelayTypes == {"CONNECT", "EXEC", "EXEC_RAW"}

-----------------------------------------------------------------------------
(* What the relays may report.                                             *)

(* Mutant: no IsValidQmqpResponse().                                       *)
BasicRelayReportsUnchecked ==
  [code : Codes \cup {"X"}, text : RelayTexts] \cup {Response("Z", "relay failed")}

(* BasicRelay forwards any response that starts with K, D or Z.            *)
BasicRelayReports ==
  [code : Codes, text : RelayTexts]
    \cup {Response("Z", "malformed relay response"), Response("Z", "relay failed")}

ExitReports ==
  {Response("D", "internal server error"), Response("Z", "internal server error")}

RawExecReports ==
  [code : Codes, text : RelayTexts]
    \cup ExitReports
    \cup {Response("Z", "write error"), Response("Z", "read error")}

RelayReports(type) ==
  CASE type = "CONNECT" -> BasicRelayReports \cup {Response("Z", "connect failed")}
    [] type = "EXEC" -> BasicRelayReports \cup ExitReports
    [] type = "EXEC_RAW" -> RawExecReports

(* What Start() of a relay may report before it returns.                   *)
StartReports(type) ==
  CASE type = "CONNECT" -> {Response("Z", "connect failed")}
    [] type = "EXEC" -> {Response("Z", "internal server error")}
    [] type = "EXEC_RAW" -> {Response("Z", "internal server error"),
                             Response("Z", "write error")}
=============================================================================
