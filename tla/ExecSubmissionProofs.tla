------------------------ MODULE ExecSubmissionProofs ------------------------
(***************************************************************************)
(* Theorems about ExecSubmission, for any texts, timeouts and faults: what *)
(* was proved of the connection and of the relay, each on its own, holds   *)
(* of the two together.                                                    *)
(*                                                                         *)
(* ConnP and ExecP are the modules of those proofs, about the components   *)
(* of this specification.  The inductive invariant consists of theirs and  *)
(* of what holds the two together: a relay that runs belongs to a          *)
(* connection that is relaying with it, the terminator has the child that  *)
(* a relay gave up, and what was answered and logged is backed.            *)
(***************************************************************************)
EXTENDS ExecSubmission, TLAPS

ConnP == INSTANCE ConnectionProofs WITH Connections <- {Client}
ExecP == INSTANCE ExecRelayProofs

-----------------------------------------------------------------------------
(* Conn and ConnP are instances of the same definitions, and so are Exec   *)
(* and ExecP: these lemmas follow the calls, and say so of each.           *)
LEMMA SameConstants ==
  /\ Conn!None = ConnP!None
  /\ Conn!NoTimeout = ConnP!NoTimeout
  /\ Conn!RelayTypes = ConnP!RelayTypes
  /\ \A code, text : Conn!Response(code, text) = ConnP!Response(code, text)
BY DEF Conn!None, ConnP!None, Conn!NoTimeout, ConnP!NoTimeout,
  Conn!RelayTypes, ConnP!RelayTypes, Conn!Response, ConnP!Response

(* The actions of scripts, and the timer's delay.                          *)
LEMMA SameActions ==
  /\ Conn!Actions = ConnP!Actions
  /\ Conn!NoAction = ConnP!NoAction /\ Conn!NoVerdict = ConnP!NoVerdict
  /\ \A action : Conn!TimeoutTicks(action) = ConnP!TimeoutTicks(action)
  /\ \A object : Conn!NewObject(object) = ConnP!NewObject(object)
BY SameConstants DEF Conn!Actions, ConnP!Actions, Conn!NoAction, ConnP!NoAction,
  Conn!NoVerdict, ConnP!NoVerdict, Conn!TimeoutTicks, ConnP!TimeoutTicks,
  Conn!NewObject, ConnP!NewObject, Conn!None, ConnP!None, Conn!NoTimeout, ConnP!NoTimeout,
  Conn!Response, ConnP!Response

(* What relays report; ExecRelay means the same by it as Connection.       *)
LEMMA SameReports ==
  \A type : /\ Conn!RelayReports(type) = ConnP!RelayReports(type)
            /\ Conn!StartReports(type) = ConnP!StartReports(type)
            /\ ExecP!RelayReports(type) = ConnP!RelayReports(type)
BY Zenon DEF Conn!RelayReports, ConnP!RelayReports, Conn!StartReports, ConnP!StartReports,
  Conn!BasicRelayReports, ConnP!BasicRelayReports, Conn!ExitReports, ConnP!ExitReports,
  Conn!RawExecReports, ConnP!RawExecReports, Conn!Codes, ConnP!Codes,
  Conn!Response, ConnP!Response, ExecP!RelayReports, ExecP!BasicRelayReports,
  ExecP!ExitReports, ExecP!RawExecReports, ExecP!Codes, ExecP!Response

(* Log().                                                                  *)
LEMMA SameLog ==
  \A k, message : Conn!LogMail(k, message) = ConnP!LogMail(k, message)
BY Zenon DEF Conn!Asserting, ConnP!Asserting, Conn!Log, ConnP!Log, Conn!LogMail, ConnP!LogMail

(* `delete this`.                                                          *)
LEMMA SameEnd ==
  \A k :
    /\ Conn!Delete(k) = ConnP!Delete(k)
    /\ Conn!OnError(k) = ConnP!OnError(k)
    /\ Conn!OnDisconnect(k) = ConnP!OnDisconnect(k)
BY Zenon, SameLog, SameConstants DEF Conn!Delete, ConnP!Delete, Conn!OnError, ConnP!OnError,
   Conn!OnDisconnect, ConnP!OnDisconnect

(* Finish() and who calls it.                                              *)
LEMMA SameFinish ==
  \A k, response :
    /\ Conn!Finish(k, response) = ConnP!Finish(k, response)
    /\ Conn!OnRelayReport(k, response) = ConnP!OnRelayReport(k, response)
    /\ Conn!OnRelayTimeout(k) = ConnP!OnRelayTimeout(k)
<1>1. ASSUME NEW k, NEW response
      PROVE  Conn!Finish(k, response) = ConnP!Finish(k, response)
  BY Zenon, SameLog, SameEnd DEF Conn!Finish, ConnP!Finish, Conn!Asserting, ConnP!Asserting
<1> QED BY Zenon, <1>1, SameConstants DEF Conn!OnRelayReport, ConnP!OnRelayReport,
  Conn!OnRelayTimeout, ConnP!OnRelayTimeout

(* What the result of the script leads to.                                 *)
LEMMA SameDo ==
  \A k, action :
    /\ Conn!DoRelay(k, action) = ConnP!DoRelay(k, action)
    /\ Conn!Do(k, action) = ConnP!Do(k, action)
<1>1. ASSUME NEW k, NEW action
      PROVE  Conn!DoRelay(k, action) = ConnP!DoRelay(k, action)
  BY Zenon, SameFinish, SameReports, SameActions DEF Conn!DoRelay, ConnP!DoRelay
<1>2. ASSUME NEW k, NEW action
      PROVE  Conn!Do(k, action) = ConnP!Do(k, action)
  BY Zenon, <1>1, SameFinish, SameConstants DEF Conn!Do, ConnP!Do
<1> QED BY <1>1, <1>2

(* The script's next run.                                                  *)
LEMMA SameResume == \A k : Conn!Resume(k) = ConnP!Resume(k)
<1>1. ASSUME NEW k
      PROVE  Conn!OnLuaError(k) = ConnP!OnLuaError(k)
  BY Zenon, SameFinish, SameConstants
  DEF Conn!OnLuaError, ConnP!OnLuaError, Conn!Asserting, ConnP!Asserting
<1>2. ASSUME NEW k, NEW action
      PROVE  Conn!OnLuaFinished(k, action) = ConnP!OnLuaFinished(k, action)
  BY Zenon, SameDo
  DEF Conn!OnLuaFinished, ConnP!OnLuaFinished, Conn!Asserting, ConnP!Asserting
<1>3. ASSUME NEW k
      PROVE  Conn!Resume(k) = ConnP!Resume(k)
  BY Zenon, <1>1, <1>2, SameActions DEF Conn!Resume, ConnP!Resume
<1> QED BY <1>3

(* The request.                                                            *)
LEMMA SameOnRequest ==
  \A k, result : Conn!OnRequest(k, result) = ConnP!OnRequest(k, result)
BY Zenon, SameFinish, SameResume, SameConstants
DEF Conn!OnRequest, ConnP!OnRequest, Conn!Asserting, ConnP!Asserting

(* The events of the connection.                                           *)
LEMMA SameConnection ==
  /\ Conn!Init <=> ConnP!Init
  /\ Conn!Accept(Client) <=> ConnP!Accept(Client)
  /\ Conn!Request(Client) <=> ConnP!Request(Client)
  /\ Conn!Disconnect(Client) <=> ConnP!Disconnect(Client)
  /\ Conn!SocketError(Client) <=> ConnP!SocketError(Client)
  /\ Conn!LuaResume(Client) <=> ConnP!LuaResume(Client)
  /\ Conn!RelayReport(Client) <=> ConnP!RelayReport(Client)
  /\ Conn!RelayTimeout(Client) <=> ConnP!RelayTimeout(Client)
<1>1. Conn!Init <=> ConnP!Init
  BY Zenon, SameActions DEF Conn!Init, ConnP!Init
<1>2. Conn!Accept(Client) <=> ConnP!Accept(Client)
  BY Zenon, SameActions DEF Conn!Accept, ConnP!Accept, Conn!Leaves, ConnP!Leaves
<1>3. Conn!Request(Client) <=> ConnP!Request(Client)
  BY Zenon, SameOnRequest DEF Conn!Request, ConnP!Request,
    Conn!Leaves, ConnP!Leaves, Conn!Live, ConnP!Live,
    Conn!ParseResults, ConnP!ParseResults
<1>4. /\ Conn!Disconnect(Client) <=> ConnP!Disconnect(Client)
      /\ Conn!SocketError(Client) <=> ConnP!SocketError(Client)
  BY Zenon, SameEnd DEF Conn!Disconnect, ConnP!Disconnect, Conn!Leaves, ConnP!Leaves,
    Conn!SocketError, ConnP!SocketError, Conn!Live, ConnP!Live
<1>5. Conn!LuaResume(Client) <=> ConnP!LuaResume(Client)
  BY Zenon, SameResume DEF Conn!LuaResume, ConnP!LuaResume, Conn!Leaves, ConnP!Leaves
<1>6. Conn!RelayReport(Client) <=> ConnP!RelayReport(Client)
  BY Zenon, SameFinish, SameReports, SameConstants
  DEF Conn!RelayReport, ConnP!RelayReport, Conn!Leaves, ConnP!Leaves
<1>7. Conn!RelayTimeout(Client) <=> ConnP!RelayTimeout(Client)
  BY Zenon, SameFinish DEF Conn!RelayTimeout, ConnP!RelayTimeout, Conn!Leaves, ConnP!Leaves
<1> QED BY <1>1, <1>2, <1>3, <1>4, <1>5, <1>6, <1>7

(* The steps of the relay and its child.                                   *)
LEMMA SameRelay ==
  /\ Exec!Init <=> ExecP!Init
  /\ Exec!Next <=> ExecP!Next
  /\ Exec!vars = ExecP!vars
<1> USE DEF Exec!Start, ExecP!Start, Exec!StartFails, ExecP!StartFails,
  Exec!Cancel, ExecP!Cancel, Exec!ClientSent, ExecP!ClientSent,
  Exec!OnNetstringResponse, ExecP!OnNetstringResponse,
  Exec!ClientFails, ExecP!ClientFails, Exec!ClientTimeout, ExecP!ClientTimeout,
  Exec!OnChildProcessExit, ExecP!OnChildProcessExit,
  Exec!ChildAnswers, ExecP!ChildAnswers, Exec!ChildClosesInput, ExecP!ChildClosesInput,
  Exec!ChildClosesOutput, ExecP!ChildClosesOutput, Exec!ChildExits, ExecP!ChildExits,
  Exec!Report, ExecP!Report, Exec!Destroy, ExecP!Destroy,
  Exec!OnNetstringError, ExecP!OnNetstringError,
  Exec!PayloadResponse, ExecP!PayloadResponse, Exec!ErrorResponse, ExecP!ErrorResponse,
  Exec!ExitResponse, ExecP!ExitResponse, Exec!Response, ExecP!Response,
  Exec!Payloads, ExecP!Payloads, Exec!Answers, ExecP!Answers, Exec!Codes, ExecP!Codes,
  Exec!None, ExecP!None, Exec!WaitFailed, ExecP!WaitFailed,
  Exec!ExitStatuses, ExecP!ExitStatuses, Exec!relayVars, ExecP!relayVars,
  Exec!vars, ExecP!vars
<1>1. Exec!Init <=> ExecP!Init
  BY Zenon DEF Exec!Init, ExecP!Init
<1>2. Exec!Next <=> ExecP!Next
  BY Zenon DEF Exec!Next, ExecP!Next
<1>3. Exec!vars = ExecP!vars
  BY Zenon
<1> QED BY <1>1, <1>2, <1>3

-----------------------------------------------------------------------------
(* No relay outlives its connection, or works for another purpose.         *)
Bond == relay = "running" => Relaying /\ ConnP!Relaying(Submission)

(* ~ExecRelay() hands over a child that nobody has waited for yet, and the *)
(* terminator keeps it until it has.                                       *)
InCare ==
  /\ terminator \in {"idle", "SIGTERM", "SIGKILL", "reaped"}
  /\ pidfd = "terminator" <=> terminator # "idle"
  /\ terminator = "reaped" => child # "running"

IInv ==
  /\ ConnP!TypeOK /\ ConnP!Consistent
  /\ ExecP!IInv
  /\ Bond
  /\ InCare
  /\ AnswerIsBacked

(* A child that runs has someone who sees to its end: the relay of a       *)
(* connection that still waits for it, or the terminator.                  *)
NoOrphan ==
  child = "running" =>
    \/ relay = "running" /\ pidfd = "relay" /\ Relaying /\ Submission.object = "live"
    \/ terminator \in {"SIGTERM", "SIGKILL"}

-----------------------------------------------------------------------------
(* What a step is to each of the components.                               *)

LEMMA RelaySteps ==
  ASSUME [Next]_vars
  PROVE  [ExecP!Next]_(ExecP!vars)
<1>1. UNCHANGED execVars => UNCHANGED ExecP!vars
  BY DEF execVars, ExecP!vars, ExecP!relayVars
<1>2. Next => Exec!Next \/ UNCHANGED execVars
  BY Zenon DEF Next, Accept, Handle, RelayEvent, End, OtherRelayReports, World,
    TerminatorKills, ChildIsKilled, TerminatorReaps, Exec!Next
<1>3. UNCHANGED vars => UNCHANGED execVars
  BY DEF vars
<1> QED BY Zenon, <1>1, <1>2, <1>3, SameRelay

(* The connection's object is in one of its situations,                    *)
LEMMA SubmissionSteady ==
  /\ ConnP!TypeOK /\ ConnP!Consistent => ConnP!Steady(Submission)
  /\ (ConnP!TypeOK /\ ConnP!Consistent)' => ConnP!Steady(Submission)'
BY DEF ConnP!TypeOK, ConnP!Consistent, ConnP!Steady, Submission

(* and is what the event has made of it.                                   *)
LEMMA Outcome ==
  ASSUME ConnP!TypeOK, NEW r, connection' = [connection EXCEPT ![Client] = r]
  PROVE  Submission' = r
BY DEF ConnP!TypeOK, Submission

(* The descriptors of a relay have events while it runs.                   *)
LEMMA EventOfRunningRelay ==
  ASSUME ExecP!IInv, RelayEvent
  PROVE  relay = "running" /\ reports = << >>
<1>1. client \in {"sending", "receiving"} \/ pidfd = "relay"
  BY Zenon DEF RelayEvent, Exec!OnNetstringResponse, Exec!ClientFails, Exec!ClientTimeout,
    Exec!OnChildProcessExit
<1> QED BY <1>1 DEF ExecP!IInv, ExecP!NewRelay, ExecP!RunningRelay, ExecP!DestroyedRelay

(* What it reports then is its to report, and it is gone afterwards.       *)
LEMMA ReportOfRelay ==
  ASSUME ExecP!IInv, ExecP!IInv', RelayEvent, reports' # reports
  PROVE  /\ relay' = "destroyed"
         /\ \E response \in ConnP!RelayReports("EXEC") :
              reports' = <<response>> /\ ExecP!Justified(response)'
BY EventOfRunningRelay, SameReports
DEF ExecP!IInv, ExecP!NewRelay, ExecP!RunningRelay, ExecP!DestroyedRelay

(* The connection expects that report.                                     *)
LEMMA RelayEventReports ==
  ASSUME IInv, ExecP!IInv', RelayEvent, reports' # reports
  PROVE  /\ Conn!RelayReport(Client)
         /\ relay' = "destroyed"
         /\ \E response \in ConnP!RelayReports("EXEC") :
              /\ connection' \in {[connection EXCEPT ![Client] = r] :
                                    r \in ConnP!OnRelayReport(Submission, response)}
              /\ ExecP!Justified(response)'
<1>1. PICK response \in ConnP!RelayReports("EXEC") :
        reports' = <<response>> /\ ExecP!Justified(response)'
  BY ReportOfRelay DEF IInv
<1>2. reports'[Len(reports')] = response
  BY <1>1
<1>3. Conn!Leaves(Client, Conn!OnRelayReport(Submission, response))
  BY <1>2 DEF RelayEvent
<1>4. Submission.relay_operation = "EXEC"
  BY EventOfRunningRelay DEF IInv, Bond, Relaying
<1>5. Conn!RelayReport(Client)
  <2>1. "EXEC" # Conn!None
    BY DEF Conn!None
  <2> QED BY <1>3, <1>4, <2>1, SameReports DEF Conn!RelayReport, Conn!Leaves, Submission
<1>6. connection' \in {[connection EXCEPT ![Client] = r] :
                         r \in ConnP!OnRelayReport(Submission, response)}
  BY <1>3, SameFinish DEF Conn!Leaves
<1> QED BY <1>1, <1>5, <1>6, ReportOfRelay DEF IInv

(* What the object's datagram says is what the submission's says.          *)
LEMMA SaysKept ==
  ASSUME NEW r, Submission' = r
  PROVE  \A message : ConnP!Says(r, message) => ConnP!Says(Submission, message)'
BY DEF ConnP!Says

(* So what happens to the connection is one of its events, or nothing.     *)
LEMMA ConnectionSteps ==
  ASSUME IInv, ExecP!IInv', [Next]_vars
  PROVE  [Conn!Next]_connection /\ [ConnP!Next]_connection
<1>1. \/ Conn!Accept(Client) \/ Conn!Request(Client) \/ Conn!Disconnect(Client)
      \/ Conn!SocketError(Client) \/ Conn!LuaResume(Client) \/ Conn!RelayReport(Client)
      \/ Conn!RelayTimeout(Client)
      \/ UNCHANGED connection
  <2>1. CASE RelayEvent
    BY <2>1, RelayEventReports DEF RelayEvent
  <2>2. CASE Next /\ ~RelayEvent
    BY Zenon, <2>2 DEF Next, Accept, Handle, End, OtherRelayReports, World,
      TerminatorKills, ChildIsKilled, TerminatorReaps
  <2>3. CASE UNCHANGED vars
    BY <2>3 DEF vars
  <2> QED BY <2>1, <2>2, <2>3
<1>2. UNCHANGED connection \/ Conn!Next
  BY Zenon, <1>1 DEF Conn!Next
<1>3. UNCHANGED connection \/ ConnP!Next
  <2>1. \/ ConnP!Accept(Client) \/ ConnP!Request(Client) \/ ConnP!Disconnect(Client)
        \/ ConnP!SocketError(Client) \/ ConnP!LuaResume(Client)
        \/ ConnP!RelayReport(Client) \/ ConnP!RelayTimeout(Client)
        \/ UNCHANGED connection
    BY <1>1, SameConnection
  <2> QED BY Zenon, <2>1 DEF ConnP!Next
<1> QED BY <1>2, <1>3

-----------------------------------------------------------------------------
(* What was answered and logged when the handler of the connection ran,    *)
LEMMA HandleOutcome ==
  ASSUME ConnP!TypeOK, ConnP!Consistent, Conn!Request(Client) \/ Conn!LuaResume(Client)
  PROVE  /\ ~ConnP!Relaying(Submission)
         /\ Submission'.action.type = "EXEC" =>
              ConnP!Sent(Submission, ConnP!StartReports("EXEC"))'
<1> DEFINE k == Submission
<1>1. ConnP!Steady(k)
  BY SubmissionSteady
<1>2. "EXEC" \in ConnP!RelayTypes
  BY DEF ConnP!RelayTypes
<1>3. CASE Conn!Request(Client)
  <2>1. k.object = "live" /\ k.state = "INIT"
    BY <1>3 DEF Conn!Request, Conn!Live, Submission
  <2>2. PICK result \in ConnP!ParseResults : \E r \in ConnP!OnRequest(k, result) :
          connection' = [connection EXCEPT ![Client] = r]
    BY <1>3, SameConnection DEF ConnP!Request, ConnP!Leaves, Submission
  <2>3. PICK r \in ConnP!OnRequest(k, result) :
          connection' = [connection EXCEPT ![Client] = r]
    BY <2>2
  <2>4. ConnP!Receiving(k) /\ ~ConnP!Relaying(k)
    BY <1>1, <2>1
    DEF ConnP!Steady, ConnP!RunningScript, ConnP!Relaying, ConnP!Ended
  <2>5. Submission' = r
    BY <2>3, Outcome
  <2>6. r.action.type \in ConnP!RelayTypes => ConnP!Sent(r, ConnP!StartReports(r.action.type))
    BY <1>1, <2>1, <2>4, ConnP!OnRequestSteady, ConstantsAssumption
    DEF ConnP!Steady, ConstantsAssumption
  <2> QED BY <1>2, <2>4, <2>5, <2>6, SaysKept DEF ConnP!Sent
<1>4. CASE Conn!LuaResume(Client)
  <2>1. k.coroutine
    BY <1>4 DEF Conn!LuaResume, Submission
  <2>2. PICK r \in ConnP!Resume(k) : connection' = [connection EXCEPT ![Client] = r]
    BY <1>4, SameConnection DEF ConnP!LuaResume, ConnP!Leaves, Submission
  <2>3. ConnP!RunningScript(k) /\ ~ConnP!Relaying(k)
    BY <1>1, <2>1
    DEF ConnP!Steady, ConnP!Receiving, ConnP!Relaying, ConnP!Ended, ConnP!Quiet
  <2>4. Submission' = r
    BY <2>2, Outcome
  <2>5. r.action.type \in ConnP!RelayTypes => ConnP!Sent(r, ConnP!StartReports(r.action.type))
    BY <1>1, <2>3, ConnP!ResumeSteady, ConstantsAssumption
    DEF ConnP!Steady, ConnP!RunningScript, ConstantsAssumption
  <2> QED BY <1>2, <2>3, <2>4, <2>5, SaysKept DEF ConnP!Sent
<1> QED BY <1>3, <1>4

(* when the submission ended without the relay,                            *)
LEMMA EndOutcome ==
  ASSUME ConnP!TypeOK, ConnP!Consistent,
         Conn!Disconnect(Client) \/ Conn!SocketError(Client) \/ Conn!RelayTimeout(Client)
  PROVE  ConnP!Sent(Submission, {ConnP!Response("Z", "timeout")})'
<1> DEFINE k == Submission
<1>1. ConnP!Steady(k)
  BY SubmissionSteady
<1>2. CASE Conn!Disconnect(Client)
  <2>1. k.object = "live" /\ connection' = [connection EXCEPT ![Client] = ConnP!OnDisconnect(k)]
    BY <1>2, SameConnection DEF ConnP!Disconnect, ConnP!Leaves, ConnP!Live, Submission
  <2>2. Submission' = ConnP!OnDisconnect(k)
    BY <2>1, Outcome
  <2>3. ConnP!Sent(ConnP!OnDisconnect(k), {})
    BY <1>1, <2>1, ConnP!EndEvents, ConstantsAssumption DEF ConstantsAssumption
  <2> QED BY <2>2, <2>3, SaysKept DEF ConnP!Sent
<1>3. CASE Conn!SocketError(Client)
  <2>1. k.object = "live" /\ connection' = [connection EXCEPT ![Client] = ConnP!OnError(k)]
    BY <1>3, SameConnection DEF ConnP!SocketError, ConnP!Leaves, ConnP!Live, Submission
  <2>2. Submission' = ConnP!OnError(k)
    BY <2>1, Outcome
  <2>3. ConnP!Sent(ConnP!OnError(k), {})
    BY <1>1, <2>1, ConnP!EndEvents, ConstantsAssumption DEF ConstantsAssumption
  <2> QED BY <2>2, <2>3, SaysKept DEF ConnP!Sent
<1>4. CASE Conn!RelayTimeout(Client)
  <2>1. k.relay_timeout
    BY <1>4 DEF Conn!RelayTimeout, Submission
  <2>2. PICK r \in ConnP!OnRelayTimeout(k) : connection' = [connection EXCEPT ![Client] = r]
    BY <1>4, SameConnection DEF ConnP!RelayTimeout, ConnP!Leaves, Submission
  <2>3. ConnP!Relaying(k)
    BY <1>1, <2>1
    DEF ConnP!Steady, ConnP!Receiving, ConnP!RunningScript, ConnP!Ended, ConnP!Quiet
  <2>4. k.object = "live"
    BY <2>3 DEF ConnP!Relaying
  <2>5. ConnP!Sent(r, {ConnP!Response("Z", "timeout")})
    BY <1>1, <2>2, <2>3, <2>4, ConnP!EndEvents, ConstantsAssumption DEF ConstantsAssumption
  <2>6. Submission' = r
    BY <2>2, Outcome
  <2> QED BY <2>5, <2>6, SaysKept DEF ConnP!Sent
<1> QED BY <1>2, <1>3, <1>4

(* and when a relay reported.                                              *)
LEMMA ReportOutcome ==
  ASSUME ConnP!TypeOK, ConnP!Consistent, ConnP!Relaying(Submission),
         NEW response \in ConnP!RelayReports(Submission.relay_operation),
         NEW r \in ConnP!OnRelayReport(Submission, response),
         connection' = [connection EXCEPT ![Client] = r]
  PROVE  /\ ConnP!Sent(Submission, {response})'
         /\ Submission'.action = Submission.action
<1> DEFINE k == Submission
<1>1. ConnP!Steady(k) /\ k.object = "live"
  BY SubmissionSteady DEF ConnP!Relaying
<1>2. response \in ConnP!Responses
  BY ConnP!RelayReportsAreResponses, ConstantsAssumption
  DEF ConnP!Relaying, ConstantsAssumption
<1>3. ConnP!Advances(k, r) /\ ConnP!Sent(r, {response})
  BY <1>1, <1>2, ConnP!EndEvents, ConstantsAssumption DEF ConstantsAssumption
<1>4. k.action # ConnP!NoAction
  BY DEF ConnP!Relaying, ConnP!NoAction, ConnP!RelayTypes, ConnP!None
<1>5. Submission' = r
  BY Outcome
<1> QED BY <1>3, <1>4, <1>5, SaysKept DEF ConnP!Sent, ConnP!Advances

-----------------------------------------------------------------------------
(* The invariant is inductive.                                             *)
LEMMA BondKept ==
  ASSUME IInv, [Next]_vars, ConnP!TypeOK', ConnP!Consistent', ExecP!IInv'
  PROVE  Bond'
<1> SUFFICES ASSUME relay' = "running"
             PROVE  (Relaying /\ ConnP!Relaying(Submission))'
  BY DEF Bond
<1>1. ConnP!Steady(Submission)'
  BY SubmissionSteady
<1>2. ASSUME relay = "running", UNCHANGED connection
      PROVE  (Relaying /\ ConnP!Relaying(Submission))'
  BY <1>2 DEF IInv, Bond, Relaying, Submission, ConnP!Relaying, ConnP!Unanswered
<1>3. CASE Accept
  <2>1. relay = "running" /\ Submission.object = "absent"
    BY <1>3 DEF Accept, execVars, Conn!Accept, Submission
  <2> QED BY <2>1 DEF IInv, Bond, ConnP!Relaying
<1>4. CASE Handle
  <2>1. ~ConnP!Relaying(Submission)
    BY <1>4, HandleOutcome DEF Handle, IInv
  <2>2. CASE Submission'.relay_operation = "EXEC"
    <3>1. ConnP!Relaying(Submission)'
      BY <1>1, <2>2
      DEF ConnP!Steady, ConnP!Receiving, ConnP!RunningScript, ConnP!Ended, ConnP!Quiet, ConnP!None
    <3> QED BY <2>2, <3>1 DEF Relaying
  <2>3. CASE UNCHANGED execVars
    BY <2>1, <2>3 DEF execVars, IInv, Bond
  <2>4. CASE Exec!StartFails
    BY <2>4 DEF Exec!StartFails, Exec!Report, Exec!Destroy
  <2> QED BY <1>4, <2>2, <2>3, <2>4 DEF Handle
<1>5. CASE RelayEvent
  <2>1. reports' = reports
    BY <1>5, RelayEventReports
  <2> QED BY <1>2, <1>5, <2>1, EventOfRunningRelay DEF RelayEvent, IInv
<1>6. CASE End
  <2>1. CASE Relaying
    BY <1>6, <2>1 DEF End, Exec!Cancel, Exec!Destroy
  <2>2. CASE ~Relaying
    BY <1>6, <2>2 DEF End, execVars, IInv, Bond
  <2> QED BY <2>1, <2>2
<1>7. CASE OtherRelayReports
  BY <1>7 DEF OtherRelayReports, execVars, IInv, Bond
<1>8. CASE World
  BY <1>2, <1>8 DEF World, Exec!ClientSent, Exec!ChildAnswers, Exec!ChildClosesInput,
    Exec!ChildClosesOutput, Exec!ChildExits, Exec!relayVars
<1>9. CASE ChildIsKilled
  BY <1>2, <1>9 DEF ChildIsKilled, Exec!ChildExits, Exec!relayVars
<1>10. CASE TerminatorKills \/ TerminatorReaps \/ UNCHANGED vars
  BY <1>2, <1>10 DEF TerminatorKills, TerminatorReaps, execVars, vars
<1> QED BY <1>3, <1>4, <1>5, <1>6, <1>7, <1>8, <1>9, <1>10 DEF Next

(* AnswerIsBacked, of one reply.                                           *)
Backed(reply) ==
  reply.code = "K" \/ reply.text = "output" =>
    child = "success" /\ stdout.answer = reply.code

LEMMA CareKept ==
  ASSUME IInv, [Next]_vars, ExecP!IInv'
  PROVE  InCare'
<1>1. CASE Handle \/ RelayEvent \/ End
  <2>1. terminator' = IF pidfd' = "terminator" THEN "SIGTERM" ELSE terminator
    BY <1>1 DEF Handle, RelayEvent, End, HandOver
  <2>2. pidfd = "terminator" => pidfd' = "terminator"
    <3>1. CASE Handle
      BY <3>1 DEF Handle, execVars, Exec!Start, Exec!StartFails, Exec!Report,
        Exec!Destroy, IInv, ExecP!IInv, ExecP!NewRelay, ExecP!RunningRelay,
        ExecP!DestroyedRelay
    <3>2. CASE RelayEvent
      BY <3>2, EventOfRunningRelay DEF IInv, ExecP!IInv, ExecP!NewRelay,
        ExecP!RunningRelay, ExecP!DestroyedRelay
    <3>3. CASE End
      BY <3>3 DEF End, execVars, Exec!Cancel, Exec!Destroy
    <3> QED BY <1>1, <3>1, <3>2, <3>3
  <2>3. terminator = "reaped" => pidfd' = "terminator"
    BY <2>2 DEF IInv, InCare
  <2> QED BY <2>1, <2>2, <2>3 DEF IInv, InCare
<1>2. CASE Accept \/ OtherRelayReports \/ TerminatorKills \/ TerminatorReaps
           \/ UNCHANGED vars
  BY <1>2 DEF Accept, OtherRelayReports, TerminatorKills, TerminatorReaps, execVars,
    vars, IInv, InCare
<1>3. CASE World \/ ChildIsKilled
  <2>1. /\ UNCHANGED <<pidfd, terminator>>
        /\ child # "running" => child' = child
    BY <1>3 DEF World, ChildIsKilled, Exec!ClientSent, Exec!ChildAnswers,
      Exec!ChildClosesInput, Exec!ChildClosesOutput, Exec!ChildExits, Exec!relayVars
  <2> QED BY <2>1 DEF IInv, InCare
<1> QED BY <1>1, <1>2, <1>3 DEF Next

(* And of one datagram.                                                    *)
BackedDatagram(datagram) ==
  datagram.message = "output" => child = "success" /\ stdout.answer \in Exec!Codes

LEMMA SentIsBacked ==
  ASSUME NEW responses, ConnP!Sent(Submission, responses)',
         \A response \in responses : Backed(response)' /\ response.code \in ConnP!Codes
  PROVE  AnswerIsBacked'
<1>1. ASSUME NEW i \in DOMAIN Submission'.replies
      PROVE  Backed(Submission.replies[i])'
  <2>1. Submission'.replies # << >>
    BY <1>1
  <2>2. PICK response \in responses : Submission'.replies = <<response>>
    BY <2>1 DEF ConnP!Sent
  <2>3. Submission'.replies[i] = response
    BY <1>1, <2>2
  <2> QED BY <2>3 DEF Backed
<1>2. ASSUME NEW i \in DOMAIN Submission'.logged
      PROVE  BackedDatagram(Submission.logged[i])'
  <2>1. CASE \E response \in responses : ConnP!Says(Submission, response.text)'
    BY <1>2, <2>1 DEF ConnP!Says, Backed, BackedDatagram, ConnP!Codes, Exec!Codes
  <2>2. CASE ConnP!Says(Submission, "canceled")' \/ ConnP!Says(Submission, "client error")'
    BY <1>2, <2>2 DEF ConnP!Says, BackedDatagram
  <2> QED BY <2>1, <2>2 DEF ConnP!Sent
<1> QED BY <1>1, <1>2 DEF AnswerIsBacked, Backed, BackedDatagram

(* An answer of the program that counted stays what it was.                *)
LEMMA AnswersKept ==
  ASSUME IInv, UNCHANGED connection, child = "success" => child' = "success",
         stdout'.answer = stdout.answer \/ stdout.answer = Exec!None
  PROVE  AnswerIsBacked'
<1> SUFFICES ASSUME Submission.action.type = "EXEC"
             PROVE  /\ \A i \in DOMAIN Submission.replies : Backed(Submission.replies[i])'
                    /\ \A i \in DOMAIN Submission.logged :
                         BackedDatagram(Submission.logged[i])'
  BY DEF AnswerIsBacked, Backed, BackedDatagram, Submission
<1>1. ASSUME NEW i \in DOMAIN Submission.replies
      PROVE  Backed(Submission.replies[i])'
  <2>1. Submission.replies \in Seq(ConnP!Responses)
    BY SubmissionSteady DEF IInv, ConnP!Steady, ConnP!Objects
  <2>2. Submission.replies[i] \in ConnP!Responses
    BY <1>1, <2>1
  <2>3. Submission.replies[i].code # Exec!None
    BY <2>2 DEF ConnP!Responses, ConnP!Codes, Exec!None
  <2>4. Backed(Submission.replies[i])
    BY <1>1 DEF IInv, AnswerIsBacked, Backed
  <2> QED BY <2>3, <2>4 DEF Backed, Submission
<1>2. ASSUME NEW i \in DOMAIN Submission.logged
      PROVE  BackedDatagram(Submission.logged[i])'
  <2>1. BackedDatagram(Submission.logged[i])
    BY <1>2 DEF IInv, AnswerIsBacked, BackedDatagram
  <2> QED BY <2>1 DEF BackedDatagram, Submission, Exec!Codes, Exec!None
<1> QED BY <1>1, <1>2

LEMMA AnswerKept ==
  ASSUME IInv, [Next]_vars, ConnP!TypeOK', ConnP!Consistent', ExecP!IInv'
  PROVE  AnswerIsBacked'
<1>1. ConnP!Steady(Submission)'
  BY SubmissionSteady
<1>2. ASSUME Submission'.action.type # "EXEC"
      PROVE  AnswerIsBacked'
  BY <1>2 DEF AnswerIsBacked
<1>3. CASE Accept
  <2>1. Submission' = ConnP!NewObject("live")
    BY <1>3, SameConnection, Outcome DEF Accept, ConnP!Accept, ConnP!Leaves, IInv
  <2> QED BY <1>2, <2>1 DEF ConnP!NewObject, ConnP!NoAction, ConnP!None
<1>4. CASE Handle
  <2>1. CASE Submission'.action.type # "EXEC"
    BY <1>2, <2>1
  <2>2. CASE Submission'.action.type = "EXEC"
    <3>1. ConnP!Sent(Submission, ConnP!StartReports("EXEC"))'
      BY <1>4, <2>2, HandleOutcome DEF Handle, IInv
    <3>2. \A response \in ConnP!StartReports("EXEC") :
            Backed(response)' /\ response.code \in ConnP!Codes
      <4>1. \A response \in ConnP!StartReports("EXEC") :
              response = ConnP!Response("Z", "internal server error")
        BY DEF ConnP!StartReports
      <4>2. /\ ConnP!Response("Z", "internal server error").code = "Z"
            /\ ConnP!Response("Z", "internal server error").text = "internal server error"
        BY DEF ConnP!Response
      <4> QED BY <4>1, <4>2 DEF Backed, ConnP!Codes
    <3> QED BY <3>1, <3>2, SentIsBacked
  <2> QED BY <2>1, <2>2
<1>5. CASE RelayEvent
  <2>1. CASE reports' = reports
    <3>1. UNCHANGED <<child, stdout>>
      BY <1>5 DEF RelayEvent, Exec!OnNetstringResponse, Exec!ClientFails,
        Exec!ClientTimeout, Exec!OnNetstringError, Exec!OnChildProcessExit
    <3> QED BY <1>5, <2>1, <3>1, AnswersKept DEF RelayEvent
  <2>2. CASE reports' # reports
    <3>1. PICK response \in ConnP!RelayReports("EXEC") :
            /\ connection' \in {[connection EXCEPT ![Client] = r] :
                                  r \in ConnP!OnRelayReport(Submission, response)}
            /\ ExecP!Justified(response)'
      BY <1>5, <2>2, RelayEventReports
    <3>2. PICK r \in ConnP!OnRelayReport(Submission, response) :
            connection' = [connection EXCEPT ![Client] = r]
      BY <3>1
    <3>3. ConnP!Relaying(Submission) /\ Submission.relay_operation = "EXEC"
      BY <1>5, EventOfRunningRelay DEF IInv, Bond, Relaying
    <3>4. ConnP!Sent(Submission, {response})'
      BY <3>2, <3>3, ReportOutcome DEF IInv
    <3>5. Backed(response)'
      BY <3>1 DEF ExecP!Justified, Backed
    <3>6. response.code \in ConnP!Codes
      BY ConnP!RelayReportsAreResponses, ConstantsAssumption
      DEF ConnP!RelayTypes, ConnP!Responses, ConstantsAssumption
    <3> QED BY <3>4, <3>5, <3>6, SentIsBacked
  <2> QED BY <2>1, <2>2
<1>6. CASE End
  <2>1. ConnP!Sent(Submission, {ConnP!Response("Z", "timeout")})'
    BY <1>6, EndOutcome DEF End, IInv
  <2>2. /\ Backed(ConnP!Response("Z", "timeout"))'
        /\ ConnP!Response("Z", "timeout").code \in ConnP!Codes
    BY DEF ConnP!Response, Backed, ConnP!Codes
  <2> QED BY <2>1, <2>2, SentIsBacked
<1>7. CASE OtherRelayReports
  <2>1. Submission.relay_operation \notin {"EXEC", ConnP!None}
    BY <1>7, SameConstants DEF OtherRelayReports, Relaying, Conn!RelayReport, Submission
  <2>2. ConnP!Relaying(Submission)
    BY <2>1, SubmissionSteady
    DEF IInv, ConnP!Steady, ConnP!Receiving, ConnP!RunningScript, ConnP!Ended, ConnP!Quiet
  <2>3. PICK response \in ConnP!RelayReports(Submission.relay_operation) :
          \E r \in ConnP!OnRelayReport(Submission, response) :
            connection' = [connection EXCEPT ![Client] = r]
    BY <1>7, SameConnection DEF OtherRelayReports, ConnP!RelayReport, ConnP!Leaves, Submission
  <2>4. Submission'.action = Submission.action
    BY <2>2, <2>3, ReportOutcome DEF IInv
  <2> QED BY <1>2, <2>1, <2>2, <2>4 DEF ConnP!Relaying
<1>8. CASE World \/ ChildIsKilled
  <2>1. /\ UNCHANGED connection
        /\ child = "success" => child' = "success"
        /\ stdout'.answer = stdout.answer \/ stdout.answer = Exec!None
    BY <1>8 DEF World, ChildIsKilled, Exec!ClientSent, Exec!ChildAnswers, Exec!ChildClosesInput,
      Exec!ChildClosesOutput, Exec!ChildExits, IInv, ExecP!IInv, ExecP!TypeOK
  <2> QED BY <2>1, AnswersKept
<1>9. CASE TerminatorKills \/ TerminatorReaps \/ UNCHANGED vars
  BY <1>9, AnswersKept DEF TerminatorKills, TerminatorReaps, execVars, vars
<1> QED BY <1>3, <1>4, <1>5, <1>6, <1>7, <1>8, <1>9 DEF Next

LEMMA Inductive == (Init => IInv) /\ (IInv /\ [Next]_vars => IInv')
<1>1. Init => IInv
  <2> SUFFICES ASSUME Init PROVE IInv
    OBVIOUS
  <2>1. ConnP!TypeOK /\ ConnP!Consistent /\ ExecP!IInv
    BY SameConnection, SameRelay, ConnP!Inductive, ExecP!Inductive, ConstantsAssumption
    DEF Init, ConstantsAssumption
  <2>2. /\ relay = "new" /\ Submission = Conn!NewObject("absent")
        /\ pidfd = "null" /\ terminator = "idle"
    BY DEF Init, Exec!Init, Conn!Init, Submission
  <2>3. Submission.replies = << >> /\ Submission.logged = << >>
    BY <2>2 DEF Conn!NewObject
  <2> QED BY <2>1, <2>2, <2>3 DEF IInv, Bond, InCare, AnswerIsBacked
<1>2. IInv /\ [Next]_vars => IInv'
  <2> SUFFICES ASSUME IInv, [Next]_vars PROVE IInv'
    OBVIOUS
  <2>1. ExecP!IInv'
    BY RelaySteps, ExecP!Inductive, ConstantsAssumption DEF IInv, ConstantsAssumption
  <2>2. (ConnP!TypeOK /\ ConnP!Consistent)'
    BY <2>1, ConnectionSteps, ConnP!Inductive, ConstantsAssumption DEF IInv, ConstantsAssumption
  <2> QED BY <2>1, <2>2, BondKept, CareKept, AnswerKept DEF IInv
<1> QED BY <1>1, <1>2

LEMMA Invariance == Spec => []IInv
BY Inductive, PTL DEF Spec

-----------------------------------------------------------------------------
(* A client that is told "K" by a program was told so by a program that    *)
(* exited with success, and neither the client nor the log server gets the *)
(* text of any other, whatever else happens to connection, relay and child *)
(* meanwhile.                                                              *)
THEOREM Answers == Spec => []AnswerIsBacked
<1>1. IInv => AnswerIsBacked
  BY DEF IInv
<1> QED BY <1>1, Invariance, PTL

(* Whoever ends first, connection, relay or child, no child is left that   *)
(* nobody waits for.                                                       *)
THEOREM Children == Spec => []NoOrphan
<1>1. IInv => NoOrphan
  BY DEF IInv, Bond, InCare, NoOrphan, ExecP!IInv, ExecP!NewRelay, ExecP!RunningRelay,
    ExecP!DestroyedRelay, ExecP!ExitStatuses, ConnP!Relaying
<1> QED BY <1>1, Invariance, PTL

(* The connection with the real relay behaves as the one with its promise. *)
THEOREM Implementation == Spec => ImplementsConnection
<1>1. Init => Conn!Init
  BY DEF Init
<1>2. IInv /\ IInv' /\ [Next]_vars => [Conn!Next]_connection
  BY ConnectionSteps DEF IInv
<1> QED BY <1>1, <1>2, Invariance, PTL DEF Spec, ImplementsConnection, Conn!Spec

(* So what Connection promises holds of the two, too: its invariants, its  *)
(* action property, and through it what Submission promises.               *)
LEMMA ConnectionBehaves == Spec => ConnP!Spec
<1>1. Init => ConnP!Init
  BY SameConnection DEF Init
<1>2. IInv /\ IInv' /\ [Next]_vars => [ConnP!Next]_connection
  BY ConnectionSteps DEF IInv
<1> QED BY <1>1, <1>2, Invariance, PTL DEF Spec, ConnP!Spec

(* Therefore no assert() of its handlers fails, only expected callbacks    *)
(* arrive, mails are logged once, and answers are verdicts.                *)
THEOREM Inherited ==
  Spec => [](/\ Conn!AssertionsHold /\ Conn!CallbacksExpected
             /\ Conn!LoggedOnce /\ Conn!AnswerIsVerdict)
<1>1. /\ ConnP!AssertionsHold => Conn!AssertionsHold
      /\ ConnP!CallbacksExpected => Conn!CallbacksExpected
      /\ ConnP!LoggedOnce => Conn!LoggedOnce
      /\ ConnP!AnswerIsVerdict => Conn!AnswerIsVerdict
  BY Zenon DEF Conn!AssertionsHold, ConnP!AssertionsHold, Conn!CallbacksExpected,
    ConnP!CallbacksExpected, Conn!LoggedOnce, ConnP!LoggedOnce, Conn!AnswerIsVerdict,
    ConnP!AnswerIsVerdict, Conn!None, ConnP!None, Conn!NoVerdict, ConnP!NoVerdict,
    Conn!Response, ConnP!Response, Conn!RelayTypes, ConnP!RelayTypes
<1>2. /\ ConnP!Spec => []ConnP!AssertionsHold
      /\ ConnP!Spec => []ConnP!CallbacksExpected
      /\ ConnP!Spec => []ConnP!LoggedOnce
      /\ ConnP!Spec => []ConnP!AnswerIsVerdict
  BY ConnP!Assertions, ConnP!Callbacks, ConnP!Logging, ConnP!Answers, ConstantsAssumption
  DEF ConstantsAssumption
<1> QED BY ConnectionBehaves, <1>1, <1>2, PTL

(* The relay in the composition is an ExecRelay like any other: what holds *)
(* the two together only takes behaviours away.                            *)
THEOREM RelayImplementation == Spec => Exec!Spec
<1>1. Init => Exec!Init
  BY DEF Init
<1>2. [Next]_vars => [Exec!Next]_(Exec!vars)
  <2>1. UNCHANGED ExecP!vars => UNCHANGED Exec!vars
    BY DEF ExecP!vars, ExecP!relayVars, Exec!vars, Exec!relayVars
  <2> QED BY <2>1, RelaySteps, SameRelay
<1> QED BY <1>1, <1>2, PTL DEF Spec, Exec!Spec

(* Therefore the verdict of the child needs its exit status there, too,    *)
(* and its handler, the connection, cannot make the relay lose the child.  *)
THEOREM RelayInherited == Spec => [](Exec!VerdictNeedsSuccess /\ Exec!ChildAccountedFor)
<1>1. ExecP!VerdictNeedsSuccess => Exec!VerdictNeedsSuccess
  BY DEF Exec!VerdictNeedsSuccess, ExecP!VerdictNeedsSuccess, Exec!ExitStatuses, ExecP!ExitStatuses
<1>2. ExecP!ChildAccountedFor => Exec!ChildAccountedFor
  BY DEF Exec!ChildAccountedFor, ExecP!ChildAccountedFor
<1>3. Init => ExecP!Init
  BY SameRelay DEF Init
<1>4. [Next]_vars => [ExecP!Next]_(ExecP!vars)
  BY RelaySteps
<1>5. Spec => ExecP!Spec
  BY <1>3, <1>4, PTL DEF Spec, ExecP!Spec
<1>6. (ExecP!Spec => []ExecP!VerdictNeedsSuccess) /\ (ExecP!Spec => []ExecP!ChildAccountedFor)
  BY ExecP!Verdict, ExecP!Accounting, ConstantsAssumption DEF ConstantsAssumption
<1> QED BY <1>1, <1>2, <1>5, <1>6, PTL

(* Nor does it matter to Submission which of them maps its variables.      *)
LEMMA SameOutside ==
  /\ ConnP!Outside!Init => Conn!Outside!Init
  /\ [ConnP!Outside!Next]_(ConnP!Outside!vars) => [Conn!Outside!Next]_(Conn!Outside!vars)
<1>1. Conn!Responses = ConnP!Responses /\ Conn!Messages = ConnP!Messages
  BY DEF Conn!Responses, ConnP!Responses, Conn!Messages, ConnP!Messages,
    Conn!Codes, ConnP!Codes, Conn!Texts, ConnP!Texts, Conn!LocalTexts, ConnP!LocalTexts
<1>2. \A k : /\ Conn!Phase(k) = ConnP!Phase(k)
             /\ Conn!LoggedMessages(k) = ConnP!LoggedMessages(k)
  BY DEF Conn!Phase, ConnP!Phase, Conn!LoggedMessages, ConnP!LoggedMessages
<1>3. ConnP!Outside!Init => Conn!Outside!Init
  BY <1>2 DEF ConnP!Outside!Init, Conn!Outside!Init
<1>4. ConnP!Outside!vars = Conn!Outside!vars /\ ConnP!Outside!vars' = Conn!Outside!vars'
  BY <1>2 DEF ConnP!Outside!vars, Conn!Outside!vars
<1>5. ASSUME NEW c \in {Client}, ConnP!Outside!Open(c) PROVE Conn!Outside!Open(c)
  BY <1>2, <1>5 DEF ConnP!Outside!Open, Conn!Outside!Open
<1>6. ASSUME NEW c \in {Client}, ConnP!Outside!Receive(c) PROVE Conn!Outside!Receive(c)
  BY <1>2, <1>6 DEF ConnP!Outside!Receive, Conn!Outside!Receive
<1>7. ASSUME NEW c, NEW outcome, NEW valid, NEW message,
             ConnP!Outside!End(c, outcome, valid, message)
      PROVE  Conn!Outside!End(c, outcome, valid, message)
  BY <1>2, <1>7 DEF ConnP!Outside!End, Conn!Outside!End
<1>8. ASSUME NEW c, NEW response, NEW valid, ConnP!Outside!Answer(c, response, valid)
      PROVE  Conn!Outside!Answer(c, response, valid)
  BY <1>2, <1>7, <1>8 DEF ConnP!Outside!Answer, Conn!Outside!Answer
<1>9. ASSUME NEW c, NEW valid, NEW message, ConnP!Outside!Abandon(c, valid, message)
      PROVE  Conn!Outside!Abandon(c, valid, message)
  BY <1>2, <1>7, <1>9 DEF ConnP!Outside!Abandon, Conn!Outside!Abandon
<1>10. ConnP!Outside!Next => Conn!Outside!Next
  BY <1>1, <1>5, <1>6, <1>8, <1>9 DEF ConnP!Outside!Next, Conn!Outside!Next
<1> QED BY <1>3, <1>4, <1>10

(* A mail is handed to one exec() relay at most, also if that relay fails  *)
(* in Start(), which OnLuaFinished() has called: no later event starts it  *)
(* again, or another.                                                      *)
THEOREM Once == Spec => Conn!HandedOverOnce
<1>1. ConnP!Spec => ConnP!HandedOverOnce
  BY ConnP!HandOver, ConstantsAssumption DEF ConstantsAssumption
<1>2. ConnP!HandedOverOnce => Conn!HandedOverOnce
  <2>1. [\A c \in {Client} :
           connection[c].action # ConnP!NoAction =>
             /\ connection'[c].action = connection[c].action
             /\ connection'[c].relay_operation
                  \in {connection[c].relay_operation, ConnP!None}]_connection
        => [\A c \in {Client} :
              connection[c].action # Conn!NoAction =>
                /\ connection'[c].action = connection[c].action
                /\ connection'[c].relay_operation
                     \in {connection[c].relay_operation, Conn!None}]_connection
    BY SameActions, SameConstants
  <2> QED BY <2>1, PTL DEF Conn!HandedOverOnce, ConnP!HandedOverOnce
<1> QED BY ConnectionBehaves, <1>1, <1>2, PTL

(* End to end: connection, exec() relay, child and terminator together are *)
(* one submission to those outside, who see no more than one answer and    *)
(* one log datagram, both in the step that ends it.                        *)
THEOREM EndToEnd == Spec => Conn!ImplementsSubmission
<1>1. ConnP!Spec => ConnP!ImplementsSubmission
  BY ConnP!Refinement, ConstantsAssumption DEF ConstantsAssumption
<1>2. ConnP!ImplementsSubmission => Conn!ImplementsSubmission
  BY SameOutside, PTL
  DEF Conn!ImplementsSubmission, ConnP!ImplementsSubmission, Conn!Outside!Spec, ConnP!Outside!Spec
<1> QED BY ConnectionBehaves, <1>1, <1>2, PTL
=============================================================================
