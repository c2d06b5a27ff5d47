---------------------------- MODULE MCConnection ----------------------------
(* Small instances of Connection for TLC.                                  *)
EXTENDS Connection

CONSTANTS c1, c2   \* client connections

(* A relay may answer with a code alone.                                   *)
MCRelayTexts == {"", "queued"}

(* One timeout shorter than a tick, one of a tick, one longer.             *)
MCScriptTimeouts == {1, 2, 3}

MCTickLength == 2
=============================================================================
