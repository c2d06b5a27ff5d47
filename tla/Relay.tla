------------------------------- MODULE Relay --------------------------------
(***************************************************************************)
(* What a relay (RemoteRelay, ExecRelay, RawExecRelay) promises to the     *)
(* connection that owns it and is its RelayHandler.                        *)
(*                                                                         *)
(* The connection starts it once.  The relay calls its handler at most     *)
(* once, with a response it is entitled to; the handler destroys it in     *)
(* that call.  The connection may destroy it at any time before that       *)
(* (client gone, timeout), and then it never calls back.                   *)
(***************************************************************************)
EXTENDS RelayReports, Sequences

CONSTANT Type   \* which relay this is, a member of RelayTypes

VARIABLES
  relay,     \* "new", "running", or "destroyed"
  reported   \* the calls of RelayHandler

vars == <<relay, reported>>

Init == relay = "new" /\ reported = << >>

Start ==
  /\ relay = "new"
  /\ relay' = "running"
  /\ UNCHANGED reported

(* The handler answers the client and destroys the relay.                  *)
Report(responses) ==
  \E response \in responses :
    /\ relay' = "destroyed"
    /\ reported' = Append(reported, response)

FailStart == relay = "new" /\ Report(StartReports(Type))

Complete == relay = "running" /\ Report(RelayReports(Type))

Cancel ==
  /\ relay = "running"
  /\ relay' = "destroyed"
  /\ UNCHANGED reported

Next == Start \/ FailStart \/ Complete \/ Cancel

Spec == Init /\ [][Next]_vars
=============================================================================
