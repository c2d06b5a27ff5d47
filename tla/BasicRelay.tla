----------------------------- MODULE BasicRelay -----------------------------
(***************************************************************************)
(* BasicRelay: what ExecRelay and RemoteRelay have in common, the way from *)
(* the netstring that came back to the response for RelayHandler.          *)
(***************************************************************************)
EXTENDS RelayReports

(* "output" is the text of a response that came back, which is no text of  *)
(* qrelay's own.                                                           *)
ASSUME TextsAssumption == "output" \in RelayTexts

(* What may come back: a QMQP response, by its first byte, a netstring     *)
(* that is none, or no netstring.                                          *)
Payloads == Codes \cup {"other"}
Answers == Payloads \cup {"garbage"}
None == "nullptr"

(* Mutant: whatever comes back is a response.                              *)
PayloadResponseUnchecked(payload) == Response(payload, "output")

(* IsValidQmqpResponse() and BasicRelay::OnNetstringResponse().            *)
PayloadResponse(payload) ==
  IF payload \in Codes
  THEN Response(payload, "output")
  ELSE Response("Z", "malformed relay response")

(* BasicRelay::OnNetstringError().                                         *)
ErrorResponse == Response("Z", "relay failed")
=============================================================================
