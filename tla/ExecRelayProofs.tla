--------------------------- MODULE ExecRelayProofs ---------------------------
(***************************************************************************)
(* Theorems about ExecRelay, for any texts of programs and any faults.     *)
(*                                                                         *)
(* The inductive invariant says that the relay is in one of three stages,  *)
(* and what client, child, pidfd and reports are in each of them.          *)
(***************************************************************************)
EXTENDS ExecRelay, TLAPS

NewRelay ==
  /\ relay = "new"
  /\ pidfd = "null" /\ client = "idle" /\ deferred_response = None
  /\ reports = << >>
  /\ child = "none" /\ ~stdin /\ ~stdout.writer /\ stdout.answer = None

(* The answer is deferred only while the relay waits for the child to      *)
(* exit; once the child has exited, with success, its answer is awaited.   *)
RunningRelay ==
  /\ relay = "running"
  /\ client \in {"sending", "receiving", "done"}
  /\ reports = << >>
  /\ child # "none"
  /\ \/ pidfd = "relay"
     \/ pidfd = "reaped" /\ child = "success" /\ client # "done"
  /\ IF client = "done"
     THEN deferred_response = stdout.answer
     ELSE deferred_response = None
  /\ client = "done" => stdout.answer \in Payloads

(* What may have been reported, given who has got the child.               *)
Justified(response) ==
  /\ response.code = "K" \/ response.text = "output" =>
       /\ pidfd = "reaped" /\ child = "success"
       /\ response.code = stdout.answer
  /\ pidfd = "reaped" /\ child # "success" => response.text = "internal server error"

DestroyedRelay ==
  /\ relay = "destroyed"
  /\ client = "done"
  /\ \/ pidfd = "null" /\ child = "none"
     \/ pidfd = "terminator" /\ child # "none"
     \/ pidfd = "reaped" /\ child \in ExitStatuses
  /\ \/ reports = << >>
     \/ \E response \in RelayReports("EXEC") :
          reports = <<response>> /\ Justified(response)

IInv == TypeOK /\ (NewRelay \/ RunningRelay \/ DestroyedRelay)

-----------------------------------------------------------------------------
(* The responses a relay may report.                                       *)
LEMMA ResponseFacts ==
  /\ \A payload \in Payloads :
       LET response == PayloadResponse(payload)
       IN  /\ response \in Responses /\ response \in RelayReports("EXEC")
           /\ response.code = "K" \/ response.text = "output" =>
                response.text = "output" /\ response.code = payload
           /\ response.text # "internal server error"
  /\ \A st \in ExitStatuses \cup {WaitFailed} :
       LET response == ExitResponse(st)
       IN  /\ response \in Responses /\ response \in RelayReports("EXEC")
           /\ response.code # "K" /\ response.text = "internal server error"
  /\ ErrorResponse \in Responses /\ ErrorResponse \in RelayReports("EXEC")
  /\ ErrorResponse.code # "K" /\ ErrorResponse.text = "relay failed"
<1> USE DEF Responses, Response, Codes, Texts, LocalTexts
<1>1. ASSUME NEW payload \in Payloads
      PROVE  LET response == PayloadResponse(payload)
             IN  /\ response \in Responses /\ response \in RelayReports("EXEC")
                 /\ response.code = "K" \/ response.text = "output" =>
                      response.text = "output" /\ response.code = payload
                 /\ response.text # "internal server error"
  BY TextsAssumption DEF PayloadResponse, Payloads, RelayReports, BasicRelayReports
<1>2. ASSUME NEW st \in ExitStatuses \cup {WaitFailed}
      PROVE  LET response == ExitResponse(st)
             IN  /\ response \in Responses /\ response \in RelayReports("EXEC")
                 /\ response.code # "K" /\ response.text = "internal server error"
  BY DEF ExitResponse, RelayReports, ExitReports
<1>3. /\ ErrorResponse \in Responses /\ ErrorResponse \in RelayReports("EXEC")
      /\ ErrorResponse.code # "K" /\ ErrorResponse.text = "relay failed"
  BY DEF ErrorResponse, RelayReports, BasicRelayReports
<1> QED BY <1>1, <1>2, <1>3

(* Nothing is reported, or one response.                                   *)
LEMMA NoReport == << >> \in Seq(Responses) /\ DOMAIN << >> = {}
OBVIOUS

LEMMA FirstReport ==
  ASSUME NEW response \in Responses
  PROVE  /\ Append(<< >>, response) = <<response>>
         /\ <<response>> \in Seq(Responses)
OBVIOUS

-----------------------------------------------------------------------------
(* The invariant is inductive.                                             *)

(* A report in the middle of an exchange: the relay is destroyed, with the *)
(* child in the hands of pidfd'.                                           *)
LEMMA ReportEnds ==
  ASSUME IInv, RunningRelay,
         NEW watcher \in {"relay", "reaped"},
         NEW response \in Responses, response \in RelayReports("EXEC"),
         Report(watcher, response),
         UNCHANGED <<child, stdout, stdin, deferred_response>>,
         watcher = "reaped" => child \in ExitStatuses,
         Justified(response)'
  PROVE  IInv'
<1>1. reports' = <<response>> /\ reports' \in Seq(Responses)
  BY FirstReport DEF Report, RunningRelay
<1>2. /\ relay' = "destroyed" /\ client' = "done"
      /\ pidfd' = IF watcher = "relay" THEN "terminator" ELSE "reaped"
  BY DEF Report, Destroy
<1>3. TypeOK'
  BY <1>1, <1>2 DEF IInv, TypeOK
<1>4. DestroyedRelay'
  BY <1>1, <1>2 DEF DestroyedRelay, RunningRelay, ExitStatuses
<1> QED BY <1>3, <1>4 DEF IInv

LEMMA StartStep == IInv /\ Start => IInv'
BY DEF IInv, Start, NewRelay, RunningRelay, DestroyedRelay, TypeOK, Payloads, Codes, None

LEMMA StartFailsStep == IInv /\ StartFails => IInv'
<1> SUFFICES ASSUME IInv, StartFails PROVE IInv'
  OBVIOUS
<1> DEFINE response == Response("Z", "internal server error")
<1>1. NewRelay
  BY DEF IInv, StartFails, RunningRelay, DestroyedRelay
<1>2. /\ response \in Responses /\ response \in RelayReports("EXEC")
      /\ response.code # "K" /\ response.text = "internal server error"
  BY DEF Responses, Response, Codes, Texts, LocalTexts, RelayReports, ExitReports
<1> HIDE DEF response
<1>3. reports' = <<response>> /\ reports' \in Seq(Responses)
  BY <1>1, <1>2, FirstReport DEF NewRelay, StartFails, Report, response
<1>4. relay' = "destroyed" /\ client' = "done" /\ pidfd' = "null"
  BY DEF StartFails, Report, Destroy
<1>5. UNCHANGED <<deferred_response, child, stdin, stdout>>
  BY DEF StartFails
<1>6. TypeOK'
  BY <1>3, <1>4, <1>5 DEF IInv, TypeOK
<1>7. Justified(response)'
  BY <1>2, <1>4 DEF Justified
<1>8. DestroyedRelay'
  BY <1>1, <1>2, <1>3, <1>4, <1>5, <1>7 DEF DestroyedRelay, NewRelay
<1> QED BY <1>6, <1>8 DEF IInv

LEMMA CancelStep == IInv /\ Cancel => IInv'
BY DEF IInv, Cancel, Destroy, NewRelay, RunningRelay, DestroyedRelay, TypeOK, ExitStatuses

LEMMA ClientSentStep == IInv /\ ClientSent => IInv'
BY DEF IInv, ClientSent, NewRelay, RunningRelay, DestroyedRelay, TypeOK

LEMMA OnNetstringResponseStep == IInv /\ OnNetstringResponse => IInv'
<1> SUFFICES ASSUME IInv, OnNetstringResponse PROVE IInv'
  OBVIOUS
<1>1. RunningRelay /\ client = "receiving" /\ stdout.answer \in Payloads
  BY DEF IInv, OnNetstringResponse, NewRelay, DestroyedRelay
<1>2. CASE pidfd = "relay"
  BY <1>1, <1>2
  DEF IInv, OnNetstringResponse, NewRelay, RunningRelay, DestroyedRelay, TypeOK
<1>3. CASE pidfd # "relay"
  <2>1. PICK response \in Responses :
          /\ response = PayloadResponse(stdout.answer)
          /\ response \in RelayReports("EXEC")
          /\ response.code = "K" \/ response.text = "output" =>
               response.text = "output" /\ response.code = stdout.answer
    BY <1>1, ResponseFacts
  <2>2. /\ pidfd = "reaped" /\ child = "success"
        /\ Report(pidfd, response)
        /\ UNCHANGED <<child, stdout, stdin, deferred_response>>
    BY <1>1, <1>3, <2>1 DEF OnNetstringResponse, RunningRelay
  <2>3. pidfd' = "reaped"
    BY <2>2 DEF Report, Destroy
  <2>4. Justified(response)'
    BY <2>1, <2>2, <2>3 DEF Justified
  <2> QED BY <1>1, <2>1, <2>2, <2>4, ReportEnds DEF ExitStatuses
<1> QED BY <1>2, <1>3

(* ClientFails and ClientTimeout.                                          *)
LEMMA OnNetstringErrorStep ==
  ASSUME IInv, client \in {"sending", "receiving"}, OnNetstringError
  PROVE  IInv'
<1>1. RunningRelay
  BY DEF IInv, NewRelay, DestroyedRelay
<1>2. pidfd \in {"relay", "reaped"} /\ (pidfd = "reaped" => child = "success")
  BY <1>1 DEF RunningRelay
<1>3. /\ Report(pidfd, ErrorResponse)
      /\ UNCHANGED <<child, stdout, stdin, deferred_response>>
  BY DEF OnNetstringError
<1>4. Justified(ErrorResponse)'
  BY <1>2, <1>3, ResponseFacts DEF Justified, Report, Destroy
<1> QED BY <1>1, <1>2, <1>3, <1>4, ReportEnds, ResponseFacts DEF ExitStatuses

LEMMA OnChildProcessExitStep == IInv /\ OnChildProcessExit => IInv'
<1> SUFFICES ASSUME IInv, OnChildProcessExit PROVE IInv'
  OBVIOUS
<1>1. RunningRelay /\ pidfd = "relay" /\ child \in ExitStatuses
  BY DEF IInv, OnChildProcessExit, NewRelay, RunningRelay, DestroyedRelay, TypeOK
<1>2. UNCHANGED <<child, stdout, stdin, deferred_response>>
  BY DEF OnChildProcessExit
<1>3. ASSUME NEW response \in Responses, response \in RelayReports("EXEC"),
             Report("reaped", response),
             response.code = "K" \/ response.text = "output" =>
               child = "success" /\ response.code = stdout.answer,
             child # "success" => response.text = "internal server error"
      PROVE  IInv'
  <2>1. pidfd' = "reaped"
    BY <1>3 DEF Report, Destroy
  <2>2. Justified(response)'
    BY <1>2, <1>3, <2>1 DEF Justified
  <2> QED BY <1>1, <1>2, <1>3, <2>2, ReportEnds
<1>4. PICK st \in {child, WaitFailed} :
       \/ st # "success" /\ Report("reaped", ExitResponse(st))
       \/ /\ st = "success" /\ deferred_response # None
          /\ Report("reaped", PayloadResponse(deferred_response))
       \/ /\ st = "success" /\ deferred_response = None
          /\ pidfd' = "reaped"
          /\ UNCHANGED <<relay, client, reports>>
  BY DEF OnChildProcessExit
<1>5. st \in ExitStatuses \cup {WaitFailed} /\ (st = "success" => child = "success")
  BY <1>1, <1>4 DEF WaitFailed
<1>6. CASE st # "success" /\ Report("reaped", ExitResponse(st))
  <2>1. /\ ExitResponse(st) \in Responses /\ ExitResponse(st) \in RelayReports("EXEC")
        /\ ExitResponse(st).code # "K"
        /\ ExitResponse(st).text = "internal server error"
    BY <1>5, ResponseFacts
  <2> QED BY <1>3, <1>6, <2>1
<1>7. CASE /\ st = "success" /\ deferred_response # None
           /\ Report("reaped", PayloadResponse(deferred_response))
  <2>1. deferred_response = stdout.answer /\ stdout.answer \in Payloads
    BY <1>1, <1>7 DEF RunningRelay
  <2> QED BY <1>3, <1>5, <1>7, <2>1, ResponseFacts
<1>8. CASE /\ st = "success" /\ deferred_response = None
           /\ pidfd' = "reaped"
           /\ UNCHANGED <<relay, client, reports>>
  <2>1. client # "done"
    BY <1>1, <1>8 DEF RunningRelay, Payloads, Codes, None
  <2>2. TypeOK'
    BY <1>2, <1>8 DEF IInv, TypeOK
  <2>3. RunningRelay'
    BY <1>1, <1>2, <1>5, <1>8, <2>1 DEF RunningRelay
  <2> QED BY <2>2, <2>3 DEF IInv
<1> QED BY <1>4, <1>6, <1>7, <1>8

(* The child's own steps.                                                  *)
LEMMA ChildStep ==
  ASSUME IInv, ChildAnswers \/ ChildClosesInput \/ ChildClosesOutput \/ ChildExits
  PROVE  IInv'
<1>1. UNCHANGED relayVars
  BY DEF ChildAnswers, ChildClosesInput, ChildClosesOutput, ChildExits
<1>2. TypeOK'
  <2>1. stdout' \in [writer : BOOLEAN, answer : Answers \cup {None}]
    BY DEF IInv, TypeOK, ChildAnswers, ChildClosesInput, ChildClosesOutput, ChildExits
  <2>2. stdin' \in BOOLEAN
    BY DEF IInv, TypeOK, ChildAnswers, ChildClosesInput, ChildClosesOutput, ChildExits
  <2>3. child' \in ExitStatuses \cup {"none", "running"}
    BY DEF IInv, TypeOK, ChildAnswers, ChildClosesInput, ChildClosesOutput, ChildExits
  <2> QED BY <1>1, <2>1, <2>2, <2>3 DEF relayVars, IInv, TypeOK
<1>3. CASE NewRelay
  BY <1>1, <1>3 DEF NewRelay, ChildAnswers, ChildClosesInput, ChildClosesOutput,
    ChildExits, relayVars
<1>4. CASE RunningRelay
  <2>1. RunningRelay'
    BY <1>1, <1>4 DEF RunningRelay, IInv, TypeOK, ChildAnswers, ChildClosesInput,
      ChildClosesOutput, ChildExits, relayVars, ExitStatuses, Payloads, Codes, None
  <2> QED BY <1>2, <2>1 DEF IInv
<1>5. CASE DestroyedRelay
  <2>1. DestroyedRelay'
    BY <1>1, <1>5 DEF DestroyedRelay, Justified, IInv, TypeOK, ChildAnswers,
      ChildClosesInput, ChildClosesOutput, ChildExits, relayVars, ExitStatuses
  <2> QED BY <1>2, <2>1 DEF IInv
<1> QED BY <1>3, <1>4, <1>5 DEF IInv

(* The relay begins in one of its stages, and no step leads out of them.   *)
LEMMA Inductive == (Init => IInv) /\ (IInv /\ [Next]_vars => IInv')
<1>1. Init => IInv
  <2> SUFFICES ASSUME Init PROVE IInv
    OBVIOUS
  <2>1. TypeOK
    BY NoReport DEF Init, TypeOK
  <2>2. NewRelay
    BY DEF Init, NewRelay
  <2> QED BY <2>1, <2>2 DEF IInv
<1>2. IInv /\ [Next]_vars => IInv'
  <2> SUFFICES ASSUME IInv, [Next]_vars PROVE IInv'
    OBVIOUS
  <2>1. CASE UNCHANGED vars
    BY <2>1 DEF vars, relayVars, IInv, TypeOK, NewRelay, RunningRelay,
      DestroyedRelay, Justified
  <2>2. CASE Next
    BY <2>2, StartStep, StartFailsStep, CancelStep, ClientSentStep,
      OnNetstringResponseStep, OnNetstringErrorStep, OnChildProcessExitStep, ChildStep
    DEF Next, ClientFails, ClientTimeout
  <2> QED BY <2>1, <2>2
<1> QED BY <1>1, <1>2

LEMMA Invariance == Spec => []IInv
BY Inductive, PTL DEF Spec

(* The variables have the values they are declared for, and what is        *)
(* reported is a response.                                                 *)
THEOREM TypeCorrect == Spec => []TypeOK
<1>1. IInv => TypeOK
  BY DEF IInv
<1> QED BY <1>1, Invariance, PTL

(* The program's answer counts only if the program has exited with         *)
(* success, whichever of answer and exit came first.                       *)
THEOREM Verdict == Spec => []VerdictNeedsSuccess
<1>1. IInv => VerdictNeedsSuccess
  <2> SUFFICES ASSUME IInv PROVE VerdictNeedsSuccess
    OBVIOUS
  <2>1. CASE reports = << >>
    BY <2>1, NoReport DEF VerdictNeedsSuccess
  <2>2. CASE \E response \in RelayReports("EXEC") :
               reports = <<response>> /\ Justified(response)
    <3>1. PICK response : reports = <<response>> /\ Justified(response)
      BY <2>2
    <3>2. \A i \in DOMAIN <<response>> : <<response>>[i] = response
      OBVIOUS
    <3> QED BY <3>1, <3>2 DEF VerdictNeedsSuccess, Justified
  <2> QED BY <2>1, <2>2 DEF IInv, NewRelay, RunningRelay, DestroyedRelay
<1> QED BY <1>1, Invariance, PTL

(* The child always has someone who waits for it.                          *)
THEOREM Accounting == Spec => []ChildAccountedFor
<1>1. IInv => ChildAccountedFor
  BY DEF IInv, ChildAccountedFor, NewRelay, RunningRelay, DestroyedRelay, ExitStatuses
<1> QED BY <1>1, Invariance, PTL

(* The promise is about the same responses.                                *)
LEMMA SameReports ==
  /\ Promise!RelayReports("EXEC") = RelayReports("EXEC")
  /\ Response("Z", "internal server error") \in Promise!StartReports("EXEC")
BY DEF Promise!RelayReports, Promise!BasicRelayReports, Promise!ExitReports,
  Promise!Codes, Promise!Response, Promise!StartReports,
  RelayReports, BasicRelayReports, ExitReports, Codes, Response

(* The relay keeps the promise of module Relay: whatever it and its child  *)
(* do is a step of the promise, or none.                                   *)
THEOREM Implementation == Spec => ImplementsRelay
<1>1. Init => Promise!Init
  BY DEF Init, Promise!Init
<1>2. IInv /\ [Next]_vars => [Promise!Next]_(Promise!vars)
  <2> SUFFICES ASSUME IInv, [Next]_vars PROVE [Promise!Next]_(Promise!vars)
    OBVIOUS
  <2> USE DEF Promise!Next, Promise!vars
  <2>1. ASSUME NEW watcher, NEW response \in RelayReports("EXEC"),
               relay = "running", Report(watcher, response)
        PROVE  Promise!Complete
    BY <2>1, SameReports DEF Report, Destroy, Promise!Complete, Promise!Report
  <2>2. CASE Start
    BY <2>2 DEF Start, Promise!Start
  <2>3. CASE StartFails
    BY <2>3, SameReports
    DEF StartFails, Report, Destroy, Promise!FailStart, Promise!Report
  <2>4. CASE Cancel
    BY <2>4 DEF Cancel, Destroy, Promise!Cancel
  <2>5. CASE OnNetstringResponse
    <3>1. relay = "running"
      BY <2>5 DEF OnNetstringResponse, IInv, NewRelay, RunningRelay, DestroyedRelay
    <3>2. CASE pidfd = "relay"
      BY <2>5, <3>2 DEF OnNetstringResponse
    <3>3. CASE pidfd # "relay"
      BY <2>1, <2>5, <3>1, <3>3, ResponseFacts DEF OnNetstringResponse
    <3> QED BY <3>2, <3>3
  <2>6. CASE ClientFails \/ ClientTimeout
    <3>1. relay = "running"
      BY <2>6 DEF ClientFails, ClientTimeout, IInv, NewRelay, RunningRelay,
        DestroyedRelay
    <3> QED BY <2>1, <2>6, <3>1, ResponseFacts DEF ClientFails, ClientTimeout, OnNetstringError
  <2>7. CASE OnChildProcessExit
    <3>1. relay = "running" /\ child \in ExitStatuses
      BY <2>7 DEF OnChildProcessExit, IInv, TypeOK, NewRelay, RunningRelay,
        DestroyedRelay
    <3>2. deferred_response # None => deferred_response \in Payloads
      BY DEF IInv, TypeOK
    <3> QED BY <2>1, <2>7, <3>1, <3>2, ResponseFacts DEF OnChildProcessExit
  <2>8. CASE \/ ClientSent \/ ChildAnswers \/ ChildClosesInput \/ ChildClosesOutput
             \/ ChildExits \/ UNCHANGED vars
    BY <2>8 DEF ClientSent, ChildAnswers, ChildClosesInput, ChildClosesOutput,
      ChildExits, relayVars, vars
  <2> QED BY <2>2, <2>3, <2>4, <2>5, <2>6, <2>7, <2>8 DEF Next
<1> QED BY <1>1, <1>2, Invariance, PTL DEF Spec, ImplementsRelay, Promise!Spec
=============================================================================
