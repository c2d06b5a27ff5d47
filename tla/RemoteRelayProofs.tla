-------------------------- MODULE RemoteRelayProofs --------------------------
(***************************************************************************)
(* Theorems about RemoteRelay, for any size of the request and any texts   *)
(* of servers.                                                             *)
(*                                                                         *)
(* The relay is in one of four stages, each of which fixes what            *)
(* ConnectSocket, its timer, the NetstringClient and the reports are.      *)
(***************************************************************************)
EXTENDS RemoteRelay, TLAPS

TypeOK ==
  /\ relay \in {"new", "running", "destroyed"}
  /\ connect \in {"idle", "connecting", "done"}
  /\ timer \in BOOLEAN
  /\ client \in {"idle", "sending", "receiving", "done"}
  /\ sent \in 0..RequestSize
  /\ reports \in Seq(Responses)
  /\ server \in Unconnected \cup {"connected", "closed", "reset"}
  /\ answer \in Answers \cup {None}

NewRelay ==
  /\ relay = "new"
  /\ connect = "idle" /\ ~timer /\ client = "idle"
  /\ sent = 0 /\ reports = << >>

(* While ConnectSocket is busy, its timer is set.                          *)
ConnectingRelay ==
  /\ relay = "running"
  /\ connect = "connecting" /\ timer /\ client = "idle"
  /\ sent = 0 /\ reports = << >>

(* The client reads only when all is written.                              *)
ExchangingRelay ==
  /\ relay = "running"
  /\ connect = "done" /\ ~timer
  /\ \/ client = "sending" /\ sent < RequestSize
     \/ client = "receiving" /\ sent = RequestSize
  /\ reports = << >>

(* What is true of a response that was reported.                           *)
Justified(response) ==
  /\ response.text = "output" \/ response.code # "Z" =>
       response.code = answer /\ sent = RequestSize
  /\ response.text = "connect failed" => sent = 0

DestroyedRelay ==
  /\ relay = "destroyed"
  /\ connect = "done" /\ ~timer /\ client = "done"
  /\ \/ reports = << >>
     \/ \E response \in Responses : reports = <<response>> /\ Justified(response)

(* A server that is not connected has not answered.                        *)
IInv ==
  /\ TypeOK
  /\ NewRelay \/ ConnectingRelay \/ ExchangingRelay \/ DestroyedRelay
  /\ server \in Unconnected => answer = None

-----------------------------------------------------------------------------
(* The responses a relay may report.                                       *)
LEMMA ResponseFacts ==
  /\ \A payload \in Payloads :
       LET response == PayloadResponse(payload)
       IN  /\ response \in Responses /\ response \in RelayReports("CONNECT")
           /\ response.text = "output" \/ response.code # "Z" => response.code = payload
           /\ response.text # "connect failed"
  /\ LET response == Response("Z", "connect failed")
     IN  /\ response \in Responses /\ response \in RelayReports("CONNECT")
         /\ response.code = "Z" /\ response.text = "connect failed"
  /\ /\ ErrorResponse \in Responses /\ ErrorResponse \in RelayReports("CONNECT")
     /\ ErrorResponse.code = "Z" /\ ErrorResponse.text = "relay failed"
<1> USE DEF Responses, Response, Codes, Texts, LocalTexts
<1>1. ASSUME NEW payload \in Payloads
      PROVE  LET response == PayloadResponse(payload)
             IN  /\ response \in Responses /\ response \in RelayReports("CONNECT")
                 /\ response.text = "output" \/ response.code # "Z" =>
                      response.code = payload
                 /\ response.text # "connect failed"
  BY TextsAssumption DEF PayloadResponse, Payloads, RelayReports, BasicRelayReports
<1>2. LET response == Response("Z", "connect failed")
      IN  /\ response \in Responses /\ response \in RelayReports("CONNECT")
          /\ response.code = "Z" /\ response.text = "connect failed"
  BY DEF RelayReports
<1>3. /\ ErrorResponse \in Responses /\ ErrorResponse \in RelayReports("CONNECT")
      /\ ErrorResponse.code = "Z" /\ ErrorResponse.text = "relay failed"
  BY DEF ErrorResponse, RelayReports, BasicRelayReports
<1> QED BY <1>1, <1>2, <1>3

(* Nothing is reported, or one response.                                   *)
LEMMA NoReport == << >> \in Seq(Responses) /\ DOMAIN << >> = {}
OBVIOUS

LEMMA FirstReport ==
  ASSUME NEW response \in Responses
  PROVE  /\ Append(<< >>, response) = <<response>>
         /\ <<response>> \in Seq(Responses)
         /\ \A i \in DOMAIN <<response>> : <<response>>[i] = response
OBVIOUS

-----------------------------------------------------------------------------
(* The invariant is inductive.                                             *)

(* A report ends the relay in any stage; the server does not notice.       *)
LEMMA ReportEnds ==
  ASSUME IInv, reports = << >>,
         NEW response \in Responses, Report(response), Justified(response),
         UNCHANGED <<sent, server, answer>>
  PROVE  IInv'
<1>1. reports' = <<response>> /\ reports' \in Seq(Responses)
  BY FirstReport DEF Report
<1>2. relay' = "destroyed" /\ connect' = "done" /\ timer' = FALSE /\ client' = "done"
  BY DEF Report, Destroy
<1>3. TypeOK'
  BY <1>1, <1>2 DEF IInv, TypeOK
<1>4. DestroyedRelay'
  BY <1>1, <1>2 DEF DestroyedRelay, Justified
<1> QED BY <1>3, <1>4 DEF IInv

(* Start() and the events of ConnectSocket.                                *)
LEMMA ConnectStep ==
  ASSUME IInv, Start \/ StartSucceeds \/ StartFails
                 \/ Connected \/ ConnectFails \/ ConnectTimeout
  PROVE  IInv'
<1>1. NewRelay \/ ConnectingRelay
  BY DEF IInv, Start, StartSucceeds, StartFails, Connected, ConnectFails,
    ConnectTimeout, ExchangingRelay, DestroyedRelay
<1>2. CASE Start
  BY <1>1, <1>2 DEF IInv, Start, TypeOK, NewRelay, ConnectingRelay
<1>3. CASE OnSocketConnectSuccess
  <2>1. server \in Unconnected
    BY <1>3 DEF OnSocketConnectSuccess, Unconnected
  <2>2. sent = 0 /\ 0 < RequestSize /\ reports = << >>
    BY <1>1, SizeAssumption DEF NewRelay, ConnectingRelay
  <2>3. TypeOK'
    BY <1>3 DEF IInv, TypeOK, OnSocketConnectSuccess
  <2>4. ExchangingRelay'
    BY <1>3, <2>2 DEF ExchangingRelay, OnSocketConnectSuccess
  <2> QED BY <1>3, <2>1, <2>3, <2>4 DEF IInv, OnSocketConnectSuccess
<1>4. CASE OnSocketConnectError
  <2>1. sent = 0 /\ reports = << >>
    BY <1>1 DEF NewRelay, ConnectingRelay
  <2>2. PICK response \in Responses :
          /\ Report(response)
          /\ response.code = "Z" /\ response.text = "connect failed"
    BY <1>4, ResponseFacts DEF OnSocketConnectError
  <2> QED BY <1>4, <2>1, <2>2, ReportEnds DEF OnSocketConnectError, Justified
<1> QED BY <1>2, <1>3, <1>4 DEF StartSucceeds, StartFails, Connected, ConnectFails,
  ConnectTimeout

LEMMA CancelStep == IInv /\ Cancel => IInv'
BY DEF IInv, Cancel, Destroy, TypeOK, NewRelay, ConnectingRelay, ExchangingRelay,
  DestroyedRelay

LEMMA ClientSendsStep == IInv /\ ClientSends => IInv'
<1> SUFFICES ASSUME IInv, ClientSends PROVE IInv'
  OBVIOUS
<1>1. ExchangingRelay /\ sent \in 0..RequestSize /\ sent < RequestSize
  BY DEF IInv, TypeOK, ClientSends, NewRelay, ConnectingRelay, ExchangingRelay,
    DestroyedRelay
<1>2. /\ sent' = sent + 1 /\ sent' \in 0..RequestSize
      /\ client' = IF sent' = RequestSize THEN "receiving" ELSE "sending"
      /\ UNCHANGED <<relay, connect, timer, reports, server, answer>>
  BY <1>1, SizeAssumption DEF ClientSends
<1>3. TypeOK'
  BY <1>2 DEF IInv, TypeOK
<1>4. ExchangingRelay'
  BY <1>1, <1>2, SizeAssumption DEF ExchangingRelay
<1> QED BY <1>2, <1>3, <1>4 DEF IInv

(* The NetstringClient calls its handler.                                  *)
LEMMA ClientStep ==
  ASSUME IInv, OnNetstringResponse \/ ClientFails \/ ClientTimeout
  PROVE  IInv'
<1>1. ExchangingRelay
  BY DEF IInv, NewRelay, ConnectingRelay, DestroyedRelay, OnNetstringResponse,
    ClientFails, ClientTimeout
<1>2. CASE OnNetstringResponse
  <2>1. sent = RequestSize /\ answer \in Payloads
    BY <1>1, <1>2 DEF OnNetstringResponse, ExchangingRelay
  <2>2. PICK response \in Responses :
          /\ Report(response)
          /\ response.text = "output" \/ response.code # "Z" => response.code = answer
          /\ response.text # "connect failed"
    BY <1>2, <2>1, ResponseFacts DEF OnNetstringResponse
  <2>3. reports = << >> /\ Justified(response)
    BY <1>1, <2>1, <2>2 DEF ExchangingRelay, Justified
  <2> QED BY <1>2, <2>2, <2>3, ReportEnds DEF OnNetstringResponse
<1>3. CASE OnNetstringError
  <2>1. reports = << >> /\ Justified(ErrorResponse)
    BY <1>1, ResponseFacts DEF ExchangingRelay, Justified
  <2> QED BY <1>3, <2>1, ReportEnds, ResponseFacts DEF OnNetstringError
<1> QED BY <1>2, <1>3 DEF ClientFails, ClientTimeout

(* The server's own steps: an answer it has given stays.                   *)
LEMMA ServerStep ==
  ASSUME IInv, ServerChanges \/ ServerAnswers \/ ServerCloses
  PROVE  IInv'
<1>1. UNCHANGED relayVars
  BY DEF ServerChanges, ServerAnswers, ServerCloses
<1>2. TypeOK' /\ (server \in Unconnected => answer = None)'
  BY <1>1 DEF relayVars, IInv, TypeOK, ServerChanges, ServerAnswers, ServerCloses,
    Unconnected
<1>3. CASE NewRelay \/ ConnectingRelay \/ ExchangingRelay
  BY <1>1, <1>2, <1>3
  DEF relayVars, IInv, NewRelay, ConnectingRelay, ExchangingRelay
<1>4. CASE DestroyedRelay
  <2>1. CASE reports = << >>
    BY <1>1, <1>2, <1>4, <2>1 DEF relayVars, IInv, DestroyedRelay
  <2>2. CASE reports # << >>
    <3>1. PICK response \in Responses : reports = <<response>> /\ Justified(response)
      BY <1>4, <2>2 DEF DestroyedRelay
    <3>2. answer = None => response.code # answer
      BY DEF Responses, Codes, None
    <3>3. answer' = answer \/ answer = None
      BY DEF ServerChanges, ServerAnswers, ServerCloses
    <3>4. Justified(response)'
      BY <1>1, <3>1, <3>2, <3>3 DEF relayVars, Justified
    <3> QED BY <1>1, <1>2, <1>4, <3>1, <3>4 DEF relayVars, IInv, DestroyedRelay
  <2> QED BY <2>1, <2>2
<1> QED BY <1>3, <1>4 DEF IInv

(* The relay is always in one of its stages.                               *)
LEMMA Invariance == Spec => []IInv
<1>1. Init => IInv
  <2> SUFFICES ASSUME Init PROVE IInv
    OBVIOUS
  <2>1. TypeOK
    <3>1. sent \in 0..RequestSize
      BY SizeAssumption DEF Init
    <3>2. reports \in Seq(Responses)
      BY NoReport DEF Init
    <3> QED BY <3>1, <3>2 DEF Init, TypeOK
  <2>2. NewRelay
    BY DEF Init, NewRelay
  <2>3. answer = None
    BY DEF Init
  <2> QED BY <2>1, <2>2, <2>3 DEF IInv
<1>2. IInv /\ [Next]_vars => IInv'
  <2> SUFFICES ASSUME IInv, [Next]_vars PROVE IInv'
    OBVIOUS
  <2>1. CASE UNCHANGED vars
    BY <2>1 DEF vars, relayVars, IInv, TypeOK, NewRelay, ConnectingRelay,
      ExchangingRelay, DestroyedRelay, Justified
  <2>2. CASE Next
    BY <2>2, ConnectStep, CancelStep, ClientSendsStep, ClientStep, ServerStep DEF Next
  <2> QED BY <2>1, <2>2
<1> QED BY <1>1, <1>2, PTL DEF Spec

-----------------------------------------------------------------------------
(* What is reported is true of the server: its own verdict, after all of   *)
(* the request was written, or, if connecting failed, that nothing was.    *)
THEOREM Truth == Spec => []ReportIsTrue
<1>1. IInv => ReportIsTrue
  <2> SUFFICES ASSUME IInv PROVE ReportIsTrue
    OBVIOUS
  <2>1. CASE reports = << >>
    BY <2>1, NoReport DEF ReportIsTrue
  <2>2. CASE \E response \in Responses : reports = <<response>> /\ Justified(response)
    BY <2>2, FirstReport DEF ReportIsTrue, Justified
  <2> QED BY <2>1, <2>2
    DEF IInv, NewRelay, ConnectingRelay, ExchangingRelay, DestroyedRelay
<1> QED BY <1>1, Invariance, PTL

(* The promise is about the same responses.                                *)
LEMMA SameReports ==
  /\ Promise!RelayReports("CONNECT") = RelayReports("CONNECT")
  /\ Response("Z", "connect failed") \in Promise!StartReports("CONNECT")
BY DEF Promise!RelayReports, Promise!BasicRelayReports, Promise!Codes,
  Promise!Response, Promise!StartReports, RelayReports, BasicRelayReports, Codes,
  Response

(* The relay keeps the promise of module Relay, even if ConnectSocket      *)
(* succeeds or fails within Start().                                       *)
THEOREM Implementation == Spec => ImplementsRelay
<1>1. Init => Promise!Init
  BY DEF Init, Promise!Init
<1>2. IInv /\ [Next]_vars => [Promise!Next]_(Promise!vars)
  <2> SUFFICES ASSUME IInv, [Next]_vars PROVE [Promise!Next]_(Promise!vars)
    OBVIOUS
  <2> USE DEF Promise!Next, Promise!vars
  <2>1. ASSUME NEW response \in RelayReports("CONNECT"),
               relay = "running", Report(response)
        PROVE  Promise!Complete
    BY <2>1, SameReports DEF Report, Destroy, Promise!Complete, Promise!Report
  <2>2. CASE Start \/ StartSucceeds
    BY <2>2 DEF Start, StartSucceeds, OnSocketConnectSuccess, Promise!Start
  <2>3. CASE StartFails
    BY <2>3, SameReports DEF StartFails, OnSocketConnectError, Report, Destroy,
      Promise!FailStart, Promise!Report
  <2>4. CASE Cancel
    BY <2>4 DEF Cancel, Destroy, Promise!Cancel
  <2>5. CASE Connected
    <3>1. relay = "running" /\ relay' = "running" /\ reports' = reports
      BY <2>5 DEF Connected, OnSocketConnectSuccess, IInv, NewRelay, ConnectingRelay,
        ExchangingRelay, DestroyedRelay
    <3> QED BY <3>1
  <2>6. CASE ConnectFails \/ ConnectTimeout
    <3>1. relay = "running"
      BY <2>6 DEF ConnectFails, ConnectTimeout, IInv, NewRelay, ConnectingRelay,
        ExchangingRelay, DestroyedRelay
    <3> QED BY <2>1, <2>6, <3>1, ResponseFacts
      DEF ConnectFails, ConnectTimeout, OnSocketConnectError
  <2>7. CASE OnNetstringResponse \/ ClientFails \/ ClientTimeout
    <3>1. relay = "running"
      BY <2>7 DEF OnNetstringResponse, ClientFails, ClientTimeout, IInv, NewRelay,
        ConnectingRelay, ExchangingRelay, DestroyedRelay
    <3> QED BY <2>1, <2>7, <3>1, ResponseFacts
      DEF OnNetstringResponse, ClientFails, ClientTimeout, OnNetstringError
  <2>8. CASE ClientSends \/ ServerChanges \/ ServerAnswers \/ ServerCloses \/ UNCHANGED vars
    BY <2>8 DEF ClientSends, ServerChanges, ServerAnswers, ServerCloses, relayVars, vars
  <2> QED BY <2>2, <2>3, <2>4, <2>5, <2>6, <2>7, <2>8 DEF Next
<1> QED BY <1>1, <1>2, Invariance, PTL DEF Spec, ImplementsRelay, Promise!Spec
=============================================================================
