---------------------------- MODULE RemoteRelay -----------------------------
(***************************************************************************)
(* RemoteRelay: the mail goes to another QMQP server.  ConnectSocket       *)
(* (libcommon) connects, for at most 20 seconds, and calls its handler     *)
(* once; then the NetstringClient writes the whole request and reads one   *)
(* response, as in ExecRelay.                                              *)
(*                                                                         *)
(* The server and the network between are not qrelay's: the server may     *)
(* listen, refuse, or not be heard of, may answer before it has the whole  *)
(* request, and may close or reset the connection at any time.             *)
(***************************************************************************)
EXTENDS BasicRelay, Naturals, Sequences

CONSTANT RequestSize   \* the request, in units a write() may take

ASSUME SizeAssumption == RequestSize \in Nat \ {0}

VARIABLES
  relay,    \* "new", "running", or "destroyed"
  connect,  \* the ConnectSocket: "idle", "connecting", "done"
  timer,    \* is its timer set?
  client,   \* the NetstringClient: "idle", "sending", "receiving", "done"
  sent,     \* how much of the request is written
  reports,  \* the calls of RelayHandler
  server,   \* before the connection, what it would do; then the connection
  answer    \* what the server has sent

relayVars == <<relay, connect, timer, client, sent, reports>>
vars == <<relayVars, server, answer>>

-----------------------------------------------------------------------------

Unconnected == {"silent", "refusing", "listening"}

Init ==
  /\ relay = "new"
  /\ connect = "idle"
  /\ timer = FALSE
  /\ client = "idle"
  /\ sent = 0
  /\ reports = << >>
  /\ server \in Unconnected
  /\ answer = None

(* The destructors of the members close the socket, unset the timer.       *)
Destroy ==
  /\ relay' = "destroyed"
  /\ connect' = "done"
  /\ timer' = FALSE
  /\ client' = "done"

(* Mutant: the handler does not destroy the relay.                         *)
ReportStaying(response) ==
  /\ reports' = Append(reports, response)
  /\ relay' = "running"
  /\ UNCHANGED <<connect, timer, client>>

Report(response) ==
  /\ reports' = Append(reports, response)
  /\ Destroy

-----------------------------------------------------------------------------
(* Connecting.                                                             *)

(* Mutant: the request has been moved from: there is nothing to send.      *)
OnSocketConnectSuccessEmpty ==
  /\ server = "listening"
  /\ relay' = "running"
  /\ connect' = "done"
  /\ timer' = FALSE
  /\ client' = "receiving"
  /\ server' = "connected"
  /\ UNCHANGED <<sent, reports, answer>>

OnSocketConnectSuccess ==
  /\ server = "listening"
  /\ relay' = "running"
  /\ connect' = "done"
  /\ timer' = FALSE
  /\ client' = "sending"
  /\ server' = "connected"
  /\ UNCHANGED <<sent, reports, answer>>

OnSocketConnectError ==
  /\ Report(Response("Z", "connect failed"))
  /\ UNCHANGED <<sent, server, answer>>

(* Mutant: connect without a timeout.                                      *)
StartWithoutTimeout ==
  /\ relay = "new"
  /\ relay' = "running"
  /\ connect' = "connecting"
  /\ UNCHANGED <<timer, client, sent, reports, server, answer>>

Start ==
  /\ relay = "new"
  /\ relay' = "running"
  /\ connect' = "connecting"
  /\ timer' = TRUE
  /\ UNCHANGED <<client, sent, reports, server, answer>>

(* connect() may also succeed or fail at once; no socket at all is one way *)
(* to fail.                                                                *)
StartSucceeds == relay = "new" /\ OnSocketConnectSuccess

StartFails == relay = "new" /\ OnSocketConnectError

Connected == connect = "connecting" /\ OnSocketConnectSuccess

ConnectFails ==
  /\ connect = "connecting" /\ server = "refusing"
  /\ OnSocketConnectError

ConnectTimeout ==
  /\ connect = "connecting" /\ timer
  /\ OnSocketConnectError

(* The client went away: relay_operation is destroyed.                     *)
Cancel ==
  /\ relay = "running"
  /\ Destroy
  /\ UNCHANGED <<sent, reports, server, answer>>

-----------------------------------------------------------------------------
(* The NetstringClient.                                                    *)

ClientSends ==
  /\ client = "sending" /\ server = "connected"
  /\ sent' = sent + 1
  /\ client' = IF sent' = RequestSize THEN "receiving" ELSE "sending"
  /\ UNCHANGED <<relay, connect, timer, reports, server, answer>>

(* An answer may still be read when the server has closed the connection.  *)
OnNetstringResponse ==
  /\ client = "receiving" /\ answer \in Payloads
  /\ Report(PayloadResponse(answer))
  /\ UNCHANGED <<sent, server, answer>>

OnNetstringError ==
  /\ Report(ErrorResponse)
  /\ UNCHANGED <<sent, server, answer>>

(* A connection that was reset loses an answer nobody has read.            *)
ClientFails ==
  /\ \/ client = "sending" /\ server \in {"closed", "reset"}
     \/ /\ client = "receiving"
        /\ \/ answer = "garbage"
           \/ answer = None /\ server = "closed"
           \/ server = "reset"
  /\ OnNetstringError

ClientTimeout == client \in {"sending", "receiving"} /\ OnNetstringError

-----------------------------------------------------------------------------
(* The server.                                                             *)

(* It goes down, or comes up, before there is a connection.                *)
ServerChanges ==
  /\ server \in Unconnected
  /\ server' \in Unconnected \ {server}
  /\ UNCHANGED <<relayVars, answer>>

ServerAnswers ==
  /\ server = "connected" /\ answer = None
  /\ answer' \in Answers
  /\ UNCHANGED <<relayVars, server>>

ServerCloses ==
  /\ server = "connected"
  /\ server' \in {"closed", "reset"}
  /\ UNCHANGED <<relayVars, answer>>

Next ==
  \/ Start \/ StartSucceeds \/ StartFails \/ Cancel
  \/ Connected \/ ConnectFails \/ ConnectTimeout
  \/ ClientSends \/ OnNetstringResponse \/ ClientFails \/ ClientTimeout
  \/ ServerChanges \/ ServerAnswers \/ ServerCloses

Spec == Init /\ [][Next]_vars

(* A timer that is set expires, and the event loop gets to every socket    *)
(* that is ready; nothing is assumed of the server.                        *)
Fairness ==
  /\ WF_vars(ConnectTimeout)
  /\ WF_vars(ClientSends)
  /\ WF_vars(OnNetstringResponse)
  /\ WF_vars(ClientFails)

FairSpec == Spec /\ Fairness

-----------------------------------------------------------------------------
(* Correctness.                                                            *)

(* What is reported is true of the server: a verdict other than a          *)
(* temporary failure is the server's, and none is passed on before the     *)
(* whole request was written, even if the server answered early; and       *)
(* "connect failed" means that nothing of the mail has left qrelay, so     *)
(* trying again cannot deliver it twice ("relay failed" means no such      *)
(* thing, the server may have accepted the mail).                          *)
ReportIsTrue ==
  \A i \in DOMAIN reports :
    /\ reports[i].text = "output" \/ reports[i].code # "Z" =>
         /\ reports[i].code = answer
         /\ sent = RequestSize
    /\ reports[i].text = "connect failed" => sent = 0

(* A server that is not heard of does not hold the submission: connecting  *)
(* comes to an end even without relay_timeout, which connect() has not;    *)
(* and a connection that ends, ends the relay.                             *)
Finishes ==
  /\ connect = "connecting" ~> connect = "done"
  /\ server \in {"closed", "reset"} ~> relay = "destroyed"

(* The relay as its handler sees it.                                       *)
Promise == INSTANCE Relay WITH Type <- "CONNECT", reported <- reports

(* The relay keeps the promise that Connection relies on: it calls its     *)
(* handler at most once, never after it was destroyed, and with a response *)
(* that is its to give, even if connecting fails within Start().           *)
ImplementsRelay == Promise!Spec
=============================================================================
