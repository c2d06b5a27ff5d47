------------------------- MODULE RawExecRelayProofs -------------------------
(***************************************************************************)
(* Theorems about RawExecRelay, for mails, pipes and buffers of any size,  *)
(* any amount of output, and any faults.                                   *)
(*                                                                         *)
(* The inductive invariant says that the relay is in one of three stages,  *)
(* and that response_fill counts the output that was read.                 *)
(***************************************************************************)
EXTENDS RawExecRelay, TLAPS

NewRelay ==
  /\ relay = "new"
  /\ pidfd = "null" /\ status = Uninitialized /\ child = "none"
  /\ ~request_pipe /\ ~response_pipe
  /\ reports = << >>
  /\ ~stdout.writer /\ stdout.bytes = 0

(* The buffer has all of the output, or all it can hold.                   *)
OutputTaken == ~stdout.writer /\ (stdout.bytes = 0 \/ response_fill = BufferSize)

(* The relay waits for the exit, for the end of the output, or for both.   *)
RunningRelay ==
  /\ relay = "running"
  /\ reports = << >>
  /\ \/ pidfd = "relay" /\ status = Uninitialized /\ child # "none"
     \/ /\ pidfd = "reaped" /\ response_pipe
        /\ child \in ExitStatuses /\ status \in {child, WaitFailed}
  /\ ~response_pipe => OutputTaken

(* What is true of a report.                                               *)
Justified(report) ==
  \/ report.response \in Errors
  \/ /\ report.child # "running"
     /\ report.response.code =
          IF report.child = "none" \/ status = WaitFailed
          THEN "Z" ELSE StatusCode(report.child)
     /\ OutputTaken

Reports == [response : Responses, child : ExitStatuses \cup {"none", "running"}]

DestroyedRelay ==
  /\ relay = "destroyed"
  /\ ~request_pipe /\ ~response_pipe
  /\ \/ pidfd = "null" /\ status = Uninitialized /\ child = "none"
     \/ pidfd = "terminator" /\ status = Uninitialized /\ child # "none"
     \/ pidfd = "reaped" /\ child \in ExitStatuses /\ status \in {child, WaitFailed}
  /\ \/ reports = << >>
     \/ \E report \in Reports : reports = <<report>> /\ Justified(report)

(* One byte of the buffer is the response's code.                          *)
OutputCounted ==
  /\ stdout.bytes <= stdout.total
  /\ response_fill = 1 + Smaller(stdout.total - stdout.bytes, BufferSize - 1)

IInv ==
  /\ TypeOK
  /\ NewRelay \/ RunningRelay \/ DestroyedRelay
  /\ OutputCounted
  /\ asserts

-----------------------------------------------------------------------------
(* The responses a relay may report.                                       *)
LEMMA StatusFacts ==
  ASSUME NEW st \in ExitStatuses \cup {WaitFailed}
  PROVE  /\ StatusCodes(st) = {StatusCode(st)}
         /\ StatusCode(st) \in Codes
         /\ st = WaitFailed => StatusCode(st) = "Z"
BY DEF ExitStatuses, WaitFailed, Uninitialized, StatusCodes, StatusCode, Codes

LEMMA ReportsFacts ==
  /\ RelayReports("EXEC_RAW") = RawExecReports
  /\ StartReports("EXEC_RAW") =
       {Response("Z", "internal server error"), Response("Z", "write error")}
BY DEF RelayReports, StartReports

LEMMA FinishFacts ==
  ASSUME NEW code \in Codes, NEW fill \in 1..BufferSize
  PROVE  /\ FinishResponse(code, fill) \in Responses
         /\ FinishResponse(code, fill).code = code
         /\ FinishResponse(code, fill) \in RelayReports("EXEC_RAW")
<1> DEFINE response == FinishResponse(code, fill)
<1>1. (fill > 1 /\ fill # 1) \/ (fill = 1 /\ ~(fill > 1))
  BY ConstantsAssumption
<1>2. \/ response = Response(code, "output")
      \/ response = Response(code, "") /\ code = "K"
      \/ response = Response(code, "internal server error") /\ code # "K"
  BY <1>1, Zenon DEF FinishResponse
<1>3. /\ "output" \in Texts /\ "" \in Texts /\ "internal server error" \in Texts
      /\ "output" \in RelayTexts /\ "" \in RelayTexts
  BY TextsAssumption, Zenon DEF Texts, LocalTexts
<1>4. \A text \in Texts :
       Response(code, text) \in Responses /\ Response(code, text).code = code
  BY DEF Response, Responses
<1>5. response \in RawExecReports
  <2>1. \A text \in RelayTexts : Response(code, text) \in [code : Codes, text : RelayTexts]
    BY DEF Response
  <2>2. code = "K" \/ code = "D" \/ code = "Z"
    BY DEF Codes
  <2> QED BY <1>2, <1>3, <2>1, <2>2, Zenon DEF RawExecReports, ExitReports
<1> HIDE DEF response
<1>6. response \in Responses /\ response.code = code
  BY <1>2, <1>3, <1>4, Zenon
<1> QED BY <1>5, <1>6, ReportsFacts, Zenon DEF response

LEMMA ErrorFacts ==
  /\ Errors \subseteq Responses
  /\ Errors \subseteq RelayReports("EXEC_RAW")
  /\ Response("Z", "internal server error") \in Responses
<1>1. {"write error", "read error", "internal server error"} \subseteq Texts
  BY Zenon DEF Texts, LocalTexts
<1>2. \A text \in Texts : Response("Z", text) \in Responses
  BY DEF Response, Responses, Codes
<1>3. Errors \subseteq RawExecReports
  BY Zenon DEF Errors, RawExecReports
<1> QED BY <1>1, <1>2, <1>3, ReportsFacts, Zenon DEF Errors

(* Nothing is reported, or one response.                                   *)
LEMMA NoReport == << >> \in Seq(Reports) /\ DOMAIN << >> = {}
OBVIOUS

LEMMA FirstReport ==
  ASSUME NEW report \in Reports
  PROVE  /\ Append(<< >>, report) = <<report>>
         /\ <<report>> \in Seq(Reports)
         /\ \A i \in DOMAIN <<report>> : <<report>>[i] = report
OBVIOUS

-----------------------------------------------------------------------------
(* TryRead().                                                              *)

LEMMA SmallerFacts ==
  ASSUME NEW a \in Int, NEW b \in Int
  PROVE  /\ Smaller(a, b) = a \/ Smaller(a, b) = b
         /\ Smaller(a, b) <= a /\ Smaller(a, b) <= b
BY DEF Smaller

(* It never reads more than the buffer has room for; what it reads is      *)
(* counted; and at the end nothing is left that the buffer could take.     *)
LEMMA ReadFacts ==
  ASSUME TypeOK, OutputCounted, NEW events \in ResponseEvents
  PROVE  LET n == Smaller(stdout.bytes, ReadSize(response_fill))
             fill == response_fill + Kept(response_fill, n)
             left == stdout.bytes - n
         IN  /\ n \in Nat /\ left \in 0..PipeSize
             /\ fill \in 1..BufferSize
             /\ left <= stdout.total
             /\ fill = 1 + Smaller(stdout.total - left, BufferSize - 1)
             /\ n = 0 \/ "HANGUP" \in events =>
                  ~stdout.writer /\ (left = 0 \/ fill = BufferSize)
<1> DEFINE bytes == stdout.bytes
           total == stdout.total
           size == ReadSize(response_fill)
           n == Smaller(bytes, size)
           fill == response_fill + Kept(response_fill, n)
           left == bytes - n
<1>1. /\ bytes \in 0..PipeSize /\ total \in 0..MaxOutput
      /\ response_fill \in 1..BufferSize
      /\ bytes <= total
      /\ response_fill = 1 + Smaller(total - bytes, BufferSize - 1)
  BY DEF TypeOK, OutputCounted
<1>2. /\ BufferSize \in Nat /\ BufferSize > 1 /\ DiscardSize \in Nat /\ DiscardSize > 0
      /\ PipeSize \in Nat /\ MaxOutput \in Nat
  BY ConstantsAssumption
<1>3. size \in Nat /\ size > 0
  BY <1>1, <1>2 DEF ReadSize
<1>4. n = 0 \/ "HANGUP" \in events => ~stdout.writer
  <2>1. bytes = 0 => "HANGUP" \in events \/ ~stdout.writer
    <3>1. events # {} /\ events \subseteq {"READ", "HANGUP"}
      BY Zenon DEF ResponseEvents
    <3>2. "READ" \in events => bytes > 0 \/ ~stdout.writer
      BY Zenon DEF ResponseEvents
    <3>3. bytes = 0 => ~(bytes > 0)
      BY <1>1
    <3>4. "READ" \in events \/ "HANGUP" \in events
      BY <3>1
    <3> QED BY <3>2, <3>3, <3>4, Zenon
  <2>2. n = 0 => bytes = 0
    BY <1>1, <1>3 DEF Smaller
  <2> QED BY <2>1, <2>2 DEF ResponseEvents
<1> HIDE DEF bytes, total, size
<1>5. /\ n \in Nat /\ n <= bytes /\ n <= size
      /\ n = bytes \/ n = size
  BY <1>1, <1>3, SmallerFacts
<1>6. left \in 0..PipeSize /\ left <= total
  BY <1>1, <1>2, <1>5
<1>7. CASE response_fill = BufferSize
  <2>1. fill = BufferSize
    BY <1>1, <1>7 DEF Kept
  <2>2. total - left >= BufferSize - 1
    BY <1>1, <1>2, <1>5, <1>7, SmallerFacts
  <2>3. fill = 1 + Smaller(total - left, BufferSize - 1)
    BY <1>1, <1>2, <1>5, <2>1, <2>2 DEF Smaller
  <2> QED BY <1>2, <1>4, <1>5, <1>6, <2>1, <2>3 DEF bytes, total, size
<1>8. CASE response_fill # BufferSize
  <2>1. fill = response_fill + n /\ size = BufferSize - response_fill
    BY <1>8 DEF Kept, ReadSize, size
  <2>2. fill \in 1..BufferSize
    BY <1>1, <1>2, <1>5, <2>1
  <2>3. response_fill = 1 + total - bytes
    BY <1>1, <1>2, <1>8, SmallerFacts
  <2>4. fill = 1 + total - left
    BY <1>1, <1>5, <2>1, <2>3
  <2>5. fill = 1 + Smaller(total - left, BufferSize - 1)
    BY <1>1, <1>2, <1>5, <2>2, <2>4 DEF Smaller
  <2>6. left = 0 \/ fill = BufferSize
    BY <1>1, <1>2, <1>5, <2>1
  <2> QED BY <1>4, <1>5, <1>6, <2>2, <2>5, <2>6 DEF bytes, total, size
<1> QED BY <1>7, <1>8

-----------------------------------------------------------------------------
(* The invariant is inductive.                                             *)

(* A report destroys the relay, with the child in the hands of pidfd'.     *)
LEMMA ReportEnds ==
  ASSUME IInv, reports = << >>,
         NEW watcher, NEW response \in Responses,
         NEW exit \in ExitStatuses \cup {"none", "running"},
         Report(watcher, response, exit), child' = exit,
         \/ watcher = "null" /\ status' = Uninitialized /\ exit = "none"
         \/ watcher = "relay" /\ status' = Uninitialized /\ exit # "none"
         \/ /\ watcher = "reaped" /\ exit \in ExitStatuses
            /\ status' \in {exit, WaitFailed},
         Justified([response |-> response, child |-> exit])',
         UNCHANGED <<unsent, stdin>>, asserts' = TRUE, dangling' \in BOOLEAN,
         response_fill' \in 1..BufferSize,
         stdout' \in [writer : BOOLEAN, bytes : 0..PipeSize, total : 0..MaxOutput],
         OutputCounted'
  PROVE  IInv'
<1> DEFINE report == [response |-> response, child |-> exit]
<1>1. report \in Reports
  BY DEF Reports
<1>2. Justified(report)'
  OBVIOUS
<1>3. reports' = Append(reports, report)
  BY DEF Report
<1> HIDE DEF report
<1>4. reports' = <<report>> /\ reports' \in Seq(Reports)
  BY <1>1, <1>3, FirstReport
<1>5. /\ relay' = "destroyed" /\ request_pipe' = FALSE /\ response_pipe' = FALSE
      /\ pidfd' = IF watcher = "relay" THEN "terminator" ELSE watcher
  BY DEF Report, Destroy
<1>6. TypeOK'
  BY <1>4, <1>5 DEF IInv, TypeOK, Reports
<1>7. DestroyedRelay'
  BY <1>1, <1>2, <1>4, <1>5 DEF DestroyedRelay
<1> QED BY <1>6, <1>7 DEF IInv

(* An error says nothing about the child.                                  *)
LEMMA ErrorEnds ==
  ASSUME IInv, RunningRelay, NEW response \in Errors,
         Report(pidfd, response, child), dangling' \in BOOLEAN,
         UNCHANGED <<unsent, response_fill, status, asserts, child, stdin, stdout>>
  PROVE  IInv'
<1>1. Justified([response |-> response, child |-> child])'
  BY DEF Justified
<1>2. /\ response_fill' \in 1..BufferSize /\ OutputCounted' /\ asserts' = TRUE
      /\ stdout' \in [writer : BOOLEAN, bytes : 0..PipeSize, total : 0..MaxOutput]
      /\ child \in ExitStatuses \cup {"none", "running"}
  BY DEF IInv, TypeOK, OutputCounted
<1>3. \/ pidfd = "relay" /\ status' = Uninitialized /\ child # "none"
      \/ pidfd = "reaped" /\ child \in ExitStatuses /\ status' \in {child, WaitFailed}
  BY DEF RunningRelay
<1>4. reports = << >> /\ response \in Responses
  BY ErrorFacts DEF RunningRelay
<1> QED BY <1>1, <1>2, <1>3, <1>4, ReportEnds

(* Finish() is called when the child has exited and its output has ended.  *)
LEMMA FinishEnds ==
  ASSUME IInv, RunningRelay, child \in ExitStatuses, NEW st \in {child, WaitFailed},
         NEW fill \in 1..BufferSize, Finish("reaped", st, fill),
         status' = st, response_fill' = fill,
         UNCHANGED <<unsent, dangling, child, stdin>>,
         stdout' \in [writer : BOOLEAN, bytes : 0..PipeSize, total : 0..MaxOutput],
         OutputTaken', OutputCounted'
  PROVE  IInv'
<1>1. st \in ExitStatuses \cup {WaitFailed}
  OBVIOUS
<1>2. PICK code \in {StatusCode(st)} :
        Report("reaped", FinishResponse(code, fill), child)
  BY <1>1, StatusFacts DEF Finish
<1>3. code = StatusCode(st) /\ code \in Codes
  BY <1>1, <1>2, StatusFacts
<1>4. PICK response \in Responses :
        response = FinishResponse(code, fill) /\ response.code = code
  BY <1>3, FinishFacts
<1>5. Report("reaped", response, child)
  BY <1>2, <1>4
<1>6. child # "none" /\ child # "running"
  BY DEF ExitStatuses
<1>7. StatusCode(st) = IF st = WaitFailed THEN "Z" ELSE StatusCode(child)
  BY <1>1, StatusFacts
<1>8. Justified([response |-> response, child |-> child])'
  BY <1>3, <1>4, <1>6, <1>7 DEF Justified
<1>9. asserts' = TRUE /\ dangling' \in BOOLEAN /\ reports = << >>
  BY DEF Finish, IInv, TypeOK, RunningRelay
<1> QED BY <1>5, <1>8, <1>9, ReportEnds

LEMMA StartFailsStep == IInv /\ StartFails => IInv'
<1> SUFFICES ASSUME IInv, StartFails PROVE IInv'
  OBVIOUS
<1>1. NewRelay /\ child = "none" /\ reports = << >>
  BY DEF IInv, StartFails, NewRelay, RunningRelay, DestroyedRelay
<1>2. UNCHANGED <<unsent, response_fill, status, asserts, dangling, child, stdin, stdout>>
  BY DEF StartFails
<1>3. PICK response \in Responses : response = Response("Z", "internal server error")
  BY ErrorFacts
<1>4. Report("null", response, child) /\ response.code = "Z"
  BY <1>3 DEF StartFails, Response
<1>5. OutputTaken'
  BY <1>1, <1>2 DEF OutputTaken, NewRelay
<1>6. Justified([response |-> response, child |-> child])'
  BY <1>1, <1>2, <1>4, <1>5 DEF Justified
<1>7. /\ response_fill' \in 1..BufferSize /\ OutputCounted'
      /\ asserts' = TRUE /\ dangling' \in BOOLEAN
      /\ stdout' \in [writer : BOOLEAN, bytes : 0..PipeSize, total : 0..MaxOutput]
      /\ status' = Uninitialized /\ child \in ExitStatuses \cup {"none", "running"}
  BY <1>1, <1>2 DEF IInv, TypeOK, OutputCounted, NewRelay
<1> QED BY <1>1, <1>2, <1>4, <1>6, <1>7, ReportEnds
LEMMA StartStep == IInv /\ Start => IInv'
<1> SUFFICES ASSUME IInv, Start PROVE IInv'
  OBVIOUS
<1>1. NewRelay
  BY DEF IInv, Start, RunningRelay, DestroyedRelay
<1>2. /\ child' = "running" /\ stdout' = [stdout EXCEPT !.writer = TRUE]
      /\ UNCHANGED <<response_fill, status, asserts, dangling>>
  BY DEF Start
<1>3. /\ stdout' \in [writer : BOOLEAN, bytes : 0..PipeSize, total : 0..MaxOutput]
      /\ stdout'.bytes = stdout.bytes /\ stdout'.total = stdout.total
  BY <1>2 DEF IInv, TypeOK
<1>4. OutputCounted' /\ asserts' = TRUE /\ dangling' \in BOOLEAN
  BY <1>2, <1>3 DEF IInv, TypeOK, OutputCounted
<1>5. CASE relay' = "running"
  <2>1. /\ response_pipe' = TRUE /\ pidfd' = "relay" /\ UNCHANGED reports
        /\ LET n == Smaller(unsent, PipeSize)
           IN  /\ unsent' = unsent - n
               /\ stdin' = [reader |-> TRUE, bytes |-> n]
               /\ request_pipe' = (unsent' > 0)
    BY <1>5 DEF Start, Report, Destroy
  <2>2. Smaller(unsent, PipeSize) \in 0..PipeSize /\ Smaller(unsent, PipeSize) <= unsent
    BY ConstantsAssumption DEF IInv, TypeOK, Smaller
  <2>3. /\ unsent' \in 0..MailSize
        /\ stdin' \in [reader : BOOLEAN, bytes : 0..PipeSize]
        /\ request_pipe' \in BOOLEAN
    BY <2>1, <2>2, ConstantsAssumption DEF IInv, TypeOK
  <2>4. TypeOK'
    BY <1>2, <1>3, <1>5, <2>1, <2>3 DEF IInv, TypeOK
  <2>5. RunningRelay'
    BY <1>1, <1>2, <1>5, <2>1 DEF NewRelay, RunningRelay
  <2> QED BY <1>4, <2>4, <2>5 DEF IInv
<1>6. CASE relay' # "running"
  <2>1. /\ Report("relay", Response("Z", "write error"), "running")
        /\ UNCHANGED <<unsent, stdin>>
    BY <1>6 DEF Start
  <2>2. PICK response \in Errors : response = Response("Z", "write error")
    BY DEF Errors
  <2>3. /\ Report("relay", response, "running")
        /\ response \in Responses
    BY <2>1, <2>2, ErrorFacts
  <2>4. Justified([response |-> response, child |-> "running"])'
    BY <2>2 DEF Justified
  <2>5. reports = << >> /\ status' = Uninitialized /\ response_fill' \in 1..BufferSize
    BY <1>1, <1>2 DEF NewRelay, IInv, TypeOK
  <2> QED BY <1>2, <1>3, <1>4, <2>1, <2>3, <2>4, <2>5, ReportEnds
<1> QED BY <1>5, <1>6

LEMMA CancelStep == IInv /\ Cancel => IInv'
<1> SUFFICES ASSUME IInv, Cancel PROVE IInv'
  OBVIOUS
<1>1. RunningRelay
  BY DEF IInv, Cancel, NewRelay, DestroyedRelay
<1>2. TypeOK' /\ OutputCounted' /\ asserts'
  BY DEF IInv, Cancel, Destroy, TypeOK, OutputCounted
<1>3. DestroyedRelay'
  BY <1>1 DEF Cancel, Destroy, RunningRelay, DestroyedRelay
<1> QED BY <1>2, <1>3 DEF IInv

LEMMA OnRequestPipeReadyStep == IInv /\ OnRequestPipeReady => IInv'
<1> SUFFICES ASSUME IInv, OnRequestPipeReady PROVE IInv'
  OBVIOUS
<1>1. RunningRelay
  BY DEF IInv, OnRequestPipeReady, NewRelay, DestroyedRelay
<1>2. UNCHANGED <<response_fill, status, asserts, dangling, child, stdout>>
  BY DEF OnRequestPipeReady
<1>3. CASE ~stdin.reader
  <2>1. /\ Report(pidfd, Response("Z", "write error"), child)
        /\ UNCHANGED <<unsent, stdin>>
    BY <1>3 DEF OnRequestPipeReady, TryWrite
  <2>2. PICK response \in Errors : response = Response("Z", "write error")
    BY DEF Errors
  <2>3. Report(pidfd, response, child) /\ dangling' \in BOOLEAN
    BY <1>2, <2>1, <2>2 DEF IInv, TypeOK
  <2> QED BY <1>1, <1>2, <2>1, <2>3, ErrorEnds
<1>4. CASE stdin.reader
  <2> DEFINE room == PipeSize - stdin.bytes
             n == Smaller(unsent, room)
  <2>1. /\ unsent' = unsent - n
        /\ stdin' = [reader |-> TRUE, bytes |-> stdin.bytes + n]
        /\ request_pipe' = (unsent' > 0)
        /\ UNCHANGED <<pidfd, relay, response_pipe, reports>>
    BY <1>4 DEF OnRequestPipeReady, TryWrite
  <2>2. n \in 0..room /\ n <= unsent /\ stdin.bytes + n \in 0..PipeSize
    BY ConstantsAssumption DEF IInv, TypeOK, Smaller
  <2>3. /\ unsent' \in 0..MailSize
        /\ stdin' \in [reader : BOOLEAN, bytes : 0..PipeSize]
        /\ request_pipe' \in BOOLEAN
    BY <2>1, <2>2, ConstantsAssumption DEF IInv, TypeOK
  <2>4. TypeOK'
    BY <1>2, <2>1, <2>3 DEF IInv, TypeOK
  <2>5. RunningRelay'
    BY <1>1, <1>2, <2>1 DEF RunningRelay, OutputTaken
  <2>6. OutputCounted' /\ asserts'
    BY <1>2 DEF IInv, OutputCounted
  <2> QED BY <2>4, <2>5, <2>6 DEF IInv
<1> QED BY <1>3, <1>4

LEMMA TryReadFailsStep ==
  ASSUME IInv, RunningRelay, NEW events, TryReadFails(events)
  PROVE  IInv'
<1>1. /\ Report(pidfd, Response("Z", "read error"), child)
      /\ dangling' \in BOOLEAN
      /\ UNCHANGED <<unsent, response_fill, status, asserts, child, stdin, stdout>>
  <2>1. dangling' = ("HANGUP" \in events)
    BY Zenon DEF TryReadFails
  <2>2. dangling' \in BOOLEAN
    <3>1. CASE "HANGUP" \in events
      BY <2>1, <3>1
    <3>2. CASE "HANGUP" \notin events
      BY <2>1, <3>2
    <3> QED BY <3>1, <3>2
  <2> QED BY <2>2, Zenon DEF TryReadFails
<1>2. PICK response \in Errors : response = Response("Z", "read error")
  BY DEF Errors
<1>3. Report(pidfd, response, child)
  BY <1>1, <1>2
<1> QED BY <1>1, <1>3, ErrorEnds

LEMMA TryReadSucceedsStep ==
  ASSUME IInv, RunningRelay, response_pipe, NEW events \in ResponseEvents,
         TryReadSucceeds(events)
  PROVE  IInv'
<1> DEFINE n == Smaller(stdout.bytes, ReadSize(response_fill))
           fill == response_fill + Kept(response_fill, n)
           end == n = 0 \/ "HANGUP" \in events
<1>1. /\ response_fill' = fill
      /\ stdout' = [stdout EXCEPT !.bytes = @ - n]
      /\ IF end /\ pidfd # "relay"
         THEN Finish(pidfd, status, fill)
         ELSE /\ response_pipe' = ~end
              /\ UNCHANGED <<relay, pidfd, request_pipe, reports, asserts>>
      /\ UNCHANGED <<unsent, status, dangling, child, stdin>>
  BY DEF TryReadSucceeds
<1>2. /\ n \in Nat /\ stdout.bytes - n \in 0..PipeSize
      /\ fill \in 1..BufferSize
      /\ stdout.bytes - n <= stdout.total
      /\ fill = 1 + Smaller(stdout.total - (stdout.bytes - n), BufferSize - 1)
      /\ end => ~stdout.writer /\ (stdout.bytes - n = 0 \/ fill = BufferSize)
  BY ReadFacts DEF IInv
<1> HIDE DEF n, fill, end
<1>3. /\ stdout' \in [writer : BOOLEAN, bytes : 0..PipeSize, total : 0..MaxOutput]
      /\ stdout'.bytes = stdout.bytes - n
      /\ stdout'.total = stdout.total /\ stdout'.writer = stdout.writer
  BY <1>1, <1>2 DEF IInv, TypeOK
<1>4. OutputCounted'
  BY <1>1, <1>2, <1>3 DEF OutputCounted
<1>5. end => OutputTaken'
  BY <1>1, <1>2, <1>3 DEF OutputTaken
<1>6. CASE end /\ pidfd # "relay"
  <2>1. pidfd = "reaped" /\ child \in ExitStatuses /\ status \in {child, WaitFailed}
    BY <1>6 DEF RunningRelay
  <2>2. PICK size \in 1..BufferSize : size = fill
    BY <1>2
  <2>3. PICK st \in {child, WaitFailed} : st = status
    BY <2>1
  <2>4. Finish("reaped", st, size) /\ status' = st /\ response_fill' = size
    BY <1>1, <1>6, <2>1, <2>2, <2>3
  <2> QED BY <1>1, <1>3, <1>4, <1>5, <1>6, <2>1, <2>4, FinishEnds
<1>7. CASE ~(end /\ pidfd # "relay")
  <2>1. /\ response_pipe' = ~end
        /\ UNCHANGED <<relay, pidfd, request_pipe, reports, asserts>>
    BY <1>1, <1>7
  <2>2. TypeOK'
    BY <1>1, <1>2, <1>3, <2>1 DEF IInv, TypeOK
  <2>3. ~response_pipe' => OutputTaken'
    BY <1>5, <2>1
  <2>4. RunningRelay'
    BY <1>1, <1>7, <2>1, <2>3 DEF RunningRelay
  <2> QED BY <1>4, <2>1, <2>2, <2>4 DEF IInv
<1> QED BY <1>6, <1>7

LEMMA OnResponsePipeReadyStep == IInv /\ OnResponsePipeReady => IInv'
<1> SUFFICES ASSUME IInv, OnResponsePipeReady PROVE IInv'
  OBVIOUS
<1>1. RunningRelay /\ response_pipe
  BY DEF IInv, OnResponsePipeReady, NewRelay, DestroyedRelay
<1> QED BY <1>1, TryReadFailsStep, TryReadSucceedsStep DEF OnResponsePipeReady

LEMMA OnChildProcessExitStep == IInv /\ OnChildProcessExit => IInv'
<1> SUFFICES ASSUME IInv, OnChildProcessExit PROVE IInv'
  OBVIOUS
<1>1. RunningRelay /\ pidfd = "relay" /\ child \in ExitStatuses
  BY DEF IInv, OnChildProcessExit, NewRelay, RunningRelay, DestroyedRelay, TypeOK
<1>2. UNCHANGED <<unsent, response_fill, dangling, child, stdin, stdout>>
  BY DEF OnChildProcessExit
<1>3. PICK st \in {child, WaitFailed} :
       /\ status' = st
       /\ IF response_pipe
          THEN /\ pidfd' = "reaped"
               /\ UNCHANGED <<relay, request_pipe, response_pipe, reports, asserts>>
          ELSE Finish("reaped", st, response_fill)
  BY DEF OnChildProcessExit
<1>4. OutputCounted'
  BY <1>2 DEF IInv, OutputCounted
<1>5. CASE response_pipe
  <2>1. /\ pidfd' = "reaped"
        /\ UNCHANGED <<relay, request_pipe, response_pipe, reports, asserts>>
    BY <1>3, <1>5
  <2>2. TypeOK'
    BY <1>1, <1>2, <1>3, <2>1 DEF IInv, TypeOK
  <2>3. RunningRelay'
    BY <1>1, <1>2, <1>3, <1>5, <2>1 DEF RunningRelay
  <2> QED BY <1>4, <2>1, <2>2, <2>3 DEF IInv
<1>6. CASE ~response_pipe
  <2>1. PICK fill \in 1..BufferSize : fill = response_fill
    BY DEF IInv, TypeOK
  <2>2. Finish("reaped", st, fill) /\ response_fill' = fill
    BY <1>2, <1>3, <1>6, <2>1
  <2>3. OutputTaken'
    BY <1>1, <1>2, <1>6 DEF RunningRelay, OutputTaken
  <2>4. stdout' \in [writer : BOOLEAN, bytes : 0..PipeSize, total : 0..MaxOutput]
    BY <1>2 DEF IInv, TypeOK
  <2> QED BY <1>1, <1>2, <1>3, <1>4, <2>2, <2>3, <2>4, FinishEnds
<1> QED BY <1>5, <1>6

(* What the child does to its pipes.                                       *)
LEMMA ChildFacts ==
  ASSUME IInv,
         \/ ChildReads \/ ChildWrites \/ ChildClosesInput
         \/ ChildClosesOutput \/ ChildExits
  PROVE  /\ UNCHANGED relayVars
         /\ child' = child \/ (child = "running" /\ child' \in ExitStatuses)
         /\ stdin' \in [reader : BOOLEAN, bytes : 0..PipeSize]
         /\ stdout' \in [writer : BOOLEAN, bytes : 0..PipeSize, total : 0..MaxOutput]
         /\ stdout'.total - stdout'.bytes = stdout.total - stdout.bytes
         /\ response_pipe \/ stdout'.bytes = stdout.bytes
         /\ stdout'.writer => stdout.writer
         /\ stdout.writer \/ stdout'.bytes = stdout.bytes
<1>1. /\ PipeSize \in Nat /\ MaxOutput \in Nat
      /\ stdin \in [reader : BOOLEAN, bytes : 0..PipeSize]
      /\ stdout \in [writer : BOOLEAN, bytes : 0..PipeSize, total : 0..MaxOutput]
  BY ConstantsAssumption DEF IInv, TypeOK
<1>2. CASE ChildReads
  BY <1>1, <1>2 DEF ChildReads
<1>3. CASE ChildWrites
  <2>1. /\ UNCHANGED relayVars /\ child' = child /\ stdin' = stdin
        /\ response_pipe /\ stdout.writer
        /\ stdout.bytes < PipeSize /\ stdout.total < MaxOutput
        /\ stdout' = [stdout EXCEPT !.bytes = @ + 1, !.total = @ + 1]
    BY <1>3 DEF ChildWrites
  <2>2. /\ stdout'.bytes = stdout.bytes + 1 /\ stdout'.total = stdout.total + 1
        /\ stdout'.writer = stdout.writer
    BY <1>1, <2>1
  <2>3. stdout.bytes + 1 \in 0..PipeSize /\ stdout.total + 1 \in 0..MaxOutput
    BY <1>1, <2>1
  <2>4. stdout' \in [writer : BOOLEAN, bytes : 0..PipeSize, total : 0..MaxOutput]
    BY <1>1, <2>1, <2>3
  <2>5. stdout'.total - stdout'.bytes = stdout.total - stdout.bytes
    BY <1>1, <2>2
  <2> QED BY <1>1, <2>1, <2>2, <2>4, <2>5
<1>4. CASE ChildClosesInput
  BY <1>1, <1>4 DEF ChildClosesInput
<1>5. CASE ChildClosesOutput
  BY <1>1, <1>5 DEF ChildClosesOutput
<1>6. CASE ChildExits
  <2>1. PICK heirs \in SUBSET {"stdin", "stdout"} :
         /\ stdin' = IF "stdin" \in heirs THEN stdin ELSE [reader |-> FALSE, bytes |-> 0]
         /\ stdout' = [stdout EXCEPT !.writer = @ /\ "stdout" \in heirs]
    BY <1>6, Zenon DEF ChildExits
  <2>2. /\ UNCHANGED relayVars
        /\ child = "running" /\ child' \in ExitStatuses
    BY <1>6 DEF ChildExits
  <2>3. PICK writer \in BOOLEAN : writer = (stdout.writer /\ "stdout" \in heirs)
    OBVIOUS
  <2>4. stdout' = [stdout EXCEPT !.writer = writer]
    BY <2>1, <2>3
  <2>5. /\ stdout' \in [writer : BOOLEAN, bytes : 0..PipeSize, total : 0..MaxOutput]
        /\ stdout'.bytes = stdout.bytes /\ stdout'.total = stdout.total
        /\ stdout'.writer => stdout.writer
    BY <1>1, <2>3, <2>4
  <2>6. stdin' \in [reader : BOOLEAN, bytes : 0..PipeSize]
    BY <1>1, <2>1
  <2> QED BY <1>1, <2>2, <2>5, <2>6
<1> QED BY <1>2, <1>3, <1>4, <1>5, <1>6

LEMMA ChildStep ==
  ASSUME IInv,
         \/ ChildReads \/ ChildWrites \/ ChildClosesInput
         \/ ChildClosesOutput \/ ChildExits
  PROVE  IInv'
<1>1. /\ UNCHANGED relayVars
      /\ child' = child \/ (child = "running" /\ child' \in ExitStatuses)
      /\ stdin' \in [reader : BOOLEAN, bytes : 0..PipeSize]
      /\ stdout' \in [writer : BOOLEAN, bytes : 0..PipeSize, total : 0..MaxOutput]
      /\ stdout'.total - stdout'.bytes = stdout.total - stdout.bytes
      /\ response_pipe \/ stdout'.bytes = stdout.bytes
      /\ stdout'.writer => stdout.writer
      /\ stdout.writer \/ stdout'.bytes = stdout.bytes
  BY ChildFacts
<1>2. TypeOK'
  BY <1>1 DEF IInv, TypeOK, relayVars
<1>3. OutputCounted' /\ asserts'
  BY <1>1 DEF IInv, TypeOK, OutputCounted, relayVars
<1>4. OutputTaken => OutputTaken'
  BY <1>1 DEF OutputTaken, IInv, TypeOK, relayVars
<1>5. ExitStatuses \cap {"none", "running"} = {}
  BY DEF ExitStatuses
<1>6. CASE NewRelay
  BY <1>1, <1>2, <1>3, <1>6 DEF NewRelay, IInv, relayVars
<1>7. CASE RunningRelay
  <2>1. RunningRelay'
    BY <1>1, <1>4, <1>5, <1>7 DEF RunningRelay, relayVars
  <2> QED BY <1>2, <1>3, <2>1 DEF IInv
<1>8. CASE DestroyedRelay
  <2>1. \A report : Justified(report) => Justified(report)'
    BY <1>1, <1>4 DEF Justified, relayVars
  <2>2. DestroyedRelay'
    BY <1>1, <1>5, <1>8, <2>1 DEF DestroyedRelay, relayVars
  <2> QED BY <1>2, <1>3, <2>2 DEF IInv
<1> QED BY <1>6, <1>7, <1>8 DEF IInv
LEMMA NextStep == IInv /\ [Next]_vars => IInv'
<1> SUFFICES ASSUME IInv, [Next]_vars PROVE IInv'
  OBVIOUS
<1>1. CASE UNCHANGED vars
  BY <1>1 DEF vars, relayVars, IInv, TypeOK, OutputCounted, NewRelay, RunningRelay,
    DestroyedRelay, Justified, OutputTaken
<1>2. CASE Next
  BY <1>2, StartStep, StartFailsStep, CancelStep, OnRequestPipeReadyStep,
    OnResponsePipeReadyStep, OnChildProcessExitStep, ChildStep DEF Next
<1> QED BY <1>1, <1>2

(* The relay is always in one of its stages.                               *)
LEMMA Invariance == Spec => []IInv
<1>1. Init => IInv
  <2> SUFFICES ASSUME Init PROVE IInv
    OBVIOUS
  <2>1. 0 \in 0..PipeSize /\ 0 \in 0..MaxOutput /\ 1 \in 1..BufferSize /\ MailSize \in 0..MailSize
    BY ConstantsAssumption
  <2>2. reports = << >> /\ << >> \in Seq(Reports)
    BY NoReport DEF Init
  <2>3. TypeOK
    BY <2>1, <2>2 DEF Init, TypeOK, Reports
  <2>4. OutputCounted
    BY ConstantsAssumption DEF Init, OutputCounted, Smaller
  <2>5. NewRelay /\ asserts
    BY DEF Init, NewRelay
  <2> QED BY <2>3, <2>4, <2>5 DEF IInv
<1> QED BY <1>1, NextStep, PTL DEF Spec

(* The buffers keep to their sizes, and what is reported is a response.    *)
THEOREM TypeCorrect == Spec => []TypeOK
<1>1. IInv => TypeOK
  BY DEF IInv
<1> QED BY <1>1, Invariance, PTL

(* What is reported is true of the child and of its output.                *)
LEMMA ReportJustified ==
  ASSUME IInv, NEW i \in DOMAIN reports
  PROVE  relay = "destroyed" /\ Justified(reports[i])
<1>1. reports # << >>
  BY NoReport
<1>2. DestroyedRelay
  BY <1>1 DEF IInv, NewRelay, RunningRelay
<1>3. PICK report \in Reports : reports = <<report>> /\ Justified(report)
  BY <1>1, <1>2 DEF DestroyedRelay
<1> QED BY <1>2, <1>3, FirstReport DEF DestroyedRelay

(* The verdict is made of the exit status, never of an uninitialized one,  *)
(* whichever of exit and end of output came first.                         *)
THEOREM Verdict == Spec => []VerdictIsExitStatus
<1>1. IInv => VerdictIsExitStatus
  BY ReportJustified DEF VerdictIsExitStatus, Justified, IInv
<1> QED BY <1>1, Invariance, PTL

(* The text is all of the output that the buffer can hold.                 *)
THEOREM Output == Spec => []OutputComplete
<1>1. IInv => OutputComplete
  <2> SUFFICES ASSUME IInv, NEW i \in DOMAIN reports, reports[i].response \notin Errors
               PROVE  /\ ~stdout.writer
                      /\ response_fill = 1 + Smaller(stdout.total, BufferSize - 1)
    BY DEF OutputComplete
  <2>1. OutputTaken
    BY ReportJustified DEF Justified
  <2>2. /\ stdout.bytes \in Nat /\ stdout.total \in Nat
        /\ stdout.bytes <= stdout.total /\ BufferSize \in Nat
        /\ response_fill = 1 + Smaller(stdout.total - stdout.bytes, BufferSize - 1)
    BY ConstantsAssumption DEF IInv, TypeOK, OutputCounted
  <2>3. response_fill = 1 + Smaller(stdout.total, BufferSize - 1)
    BY <2>1, <2>2 DEF OutputTaken, Smaller
  <2> QED BY <2>1, <2>3 DEF OutputTaken
<1> QED BY <1>1, Invariance, PTL

(* The child always has someone who waits for it.                          *)
THEOREM Accounting == Spec => []ChildAccountedFor
<1>1. IInv => ChildAccountedFor
  <2> SUFFICES ASSUME IInv, child # "none" PROVE ChildAccountedFor
    BY DEF ChildAccountedFor
  <2>1. status \in ExitStatuses \cup {WaitFailed} => status # Uninitialized
    BY Zenon DEF ExitStatuses, WaitFailed, Uninitialized
  <2>2. \/ relay = "running" /\ pidfd = "relay" /\ status = Uninitialized
        \/ relay = "destroyed" /\ pidfd = "terminator" /\ status = Uninitialized
        \/ pidfd = "reaped" /\ status # Uninitialized
    BY <2>1 DEF IInv, NewRelay, RunningRelay, DestroyedRelay
  <2> QED BY <2>2, Zenon DEF ChildAccountedFor
<1> QED BY <1>1, Invariance, PTL

-----------------------------------------------------------------------------
(* The relay keeps the promise of module Relay.                            *)

(* The promise is about the same responses.                                *)
LEMMA SameReports ==
  /\ Promise!RelayReports("EXEC_RAW") = RelayReports("EXEC_RAW")
  /\ Promise!StartReports("EXEC_RAW") = StartReports("EXEC_RAW")
BY Zenon DEF Promise!RelayReports, Promise!RawExecReports, Promise!ExitReports,
  Promise!Codes, Promise!Response, Promise!StartReports,
  RelayReports, RawExecReports, ExitReports, StartReports, Codes, Response
(* The first report, and what the promise sees of it.                      *)
LEMMA Reported ==
  /\ reports = << >> => [i \in DOMAIN reports |-> reports[i].response] = << >>
  /\ \A response, exit :
       reports' = Append(<< >>, [response |-> response, child |-> exit]) =>
         [i \in DOMAIN reports |-> reports[i].response]' = Append(<< >>, response)
OBVIOUS

(* Whatever the relay, its child and the pipes do is a step of the         *)
(* promise, or none: one report at most, none after the end, and each with *)
(* a response that an exec_raw relay may give.                             *)
THEOREM Implementation == Spec => ImplementsRelay
<1>1. Init => Promise!Init
  BY Reported DEF Init, Promise!Init
<1>2. IInv /\ [Next]_vars => [Promise!Next]_(Promise!vars)
  <2> SUFFICES ASSUME IInv, [Next]_vars PROVE [Promise!Next]_(Promise!vars)
    OBVIOUS
  <2> DEFINE reported == [i \in DOMAIN reports |-> reports[i].response]
  <2> USE DEF Promise!Next, Promise!vars
  <2>1. relay # "destroyed" => reports = << >> /\ reported = << >>
    BY Reported DEF IInv, NewRelay, RunningRelay, DestroyedRelay
  <2>2. ASSUME NEW watcher, NEW response, NEW exit,
               relay # "destroyed", Report(watcher, response, exit)
        PROVE  relay' = "destroyed" /\ reported' = Append(reported, response)
    BY <2>1, <2>2, Reported DEF Report, Destroy
  <2>3. ASSUME NEW watcher, NEW response \in RelayReports("EXEC_RAW"), NEW exit,
               relay = "running", Report(watcher, response, exit)
        PROVE  Promise!Complete
    BY <2>2, <2>3, SameReports DEF Promise!Complete, Promise!Report
  <2>4. ASSUME NEW watcher, NEW response \in StartReports("EXEC_RAW"), NEW exit,
               relay = "new", Report(watcher, response, exit)
        PROVE  Promise!FailStart
    BY <2>2, <2>4, SameReports DEF Promise!FailStart, Promise!Report
  <2>5. ASSUME UNCHANGED <<relay, reports>>
        PROVE  UNCHANGED <<relay, reported>>
    BY <2>5
  <2> HIDE DEF reported
  <2>6. /\ Response("Z", "internal server error") \in StartReports("EXEC_RAW")
        /\ Response("Z", "write error") \in StartReports("EXEC_RAW")
        /\ Response("Z", "write error") \in RelayReports("EXEC_RAW")
        /\ Response("Z", "read error") \in RelayReports("EXEC_RAW")
    BY ReportsFacts, ErrorFacts, Zenon DEF Errors
  <2>7. ASSUME NEW watcher, NEW st \in ExitStatuses \cup {WaitFailed},
               relay = "running", Finish(watcher, st, response_fill')
        PROVE  Promise!Complete
    <3>1. PICK fill \in 1..BufferSize : fill = response_fill'
      BY NextStep DEF IInv, TypeOK
    <3>2. PICK code \in Codes : Report(watcher, FinishResponse(code, fill), child)
      BY <2>7, <3>1, StatusFacts DEF Finish
    <3> QED BY <2>3, <2>7, <3>2, FinishFacts
  <2>8. CASE Start
    <3>1. CASE relay' = "running"
      <4>1. relay = "new" /\ UNCHANGED reports
        BY <2>8, <3>1 DEF Start, Report, Destroy
      <4> QED BY <2>5, <3>1, <4>1 DEF Promise!Start, reported
    <3>2. CASE relay' # "running"
      <4>1. relay = "new" /\ Report("relay", Response("Z", "write error"), "running")
        BY <2>8, <3>2, Zenon DEF Start
      <4> QED BY <2>4, <2>6, <4>1, Zenon
    <3> QED BY <3>1, <3>2
  <2>9. CASE StartFails
    BY <2>4, <2>6, <2>9, Zenon DEF StartFails
  <2>10. CASE Cancel
    BY <2>10 DEF Cancel, Destroy, Promise!Cancel, reported
  <2>11. CASE OnRequestPipeReady
    <3>1. relay = "running"
      BY <2>11 DEF OnRequestPipeReady, IInv, NewRelay, RunningRelay, DestroyedRelay
    <3>2. CASE stdin.reader
      BY <2>5, <2>11, <3>2 DEF OnRequestPipeReady, TryWrite
    <3>3. CASE ~stdin.reader
      <4>1. Report(pidfd, Response("Z", "write error"), child)
        BY <2>11, <3>3, Zenon DEF OnRequestPipeReady, TryWrite
      <4> QED BY <2>3, <2>6, <3>1, <4>1, Zenon
    <3> QED BY <3>2, <3>3
  <2>12. CASE OnResponsePipeReady
    <3>1. RunningRelay /\ relay = "running"
      BY <2>12 DEF OnResponsePipeReady, IInv, NewRelay, RunningRelay, DestroyedRelay
    <3>2. PICK events \in ResponseEvents : TryReadFails(events) \/ TryReadSucceeds(events)
      BY <2>12 DEF OnResponsePipeReady
    <3>3. CASE TryReadFails(events)
      BY <2>3, <2>6, <3>1, <3>3, Zenon DEF TryReadFails
    <3>4. CASE TryReadSucceeds(events)
      <4>1. \/ pidfd # "relay" /\ Finish(pidfd, status, response_fill')
            \/ UNCHANGED <<relay, reports>>
        BY <3>4 DEF TryReadSucceeds
      <4>2. pidfd # "relay" => status \in ExitStatuses \cup {WaitFailed}
        BY <3>1 DEF RunningRelay
      <4> QED BY <2>5, <2>7, <3>1, <4>1, <4>2
    <3> QED BY <3>2, <3>3, <3>4
  <2>13. CASE OnChildProcessExit
    <3>1. relay = "running" /\ child \in ExitStatuses
      BY <2>13 DEF OnChildProcessExit, IInv, TypeOK, NewRelay, RunningRelay,
        DestroyedRelay
    <3>2. PICK st \in {child, WaitFailed} :
           \/ UNCHANGED <<relay, reports>>
           \/ Finish("reaped", st, response_fill')
      BY <2>13 DEF OnChildProcessExit
    <3> QED BY <2>5, <2>7, <3>1, <3>2
  <2>14. CASE \/ ChildReads \/ ChildWrites \/ ChildClosesInput
              \/ ChildClosesOutput \/ ChildExits
    BY <2>5, <2>14, ChildFacts DEF relayVars
  <2>15. CASE UNCHANGED vars
    BY <2>5, <2>15 DEF vars, relayVars
  <2> QED BY <2>8, <2>9, <2>10, <2>11, <2>12, <2>13, <2>14, <2>15 DEF Next, reported
<1> QED BY <1>1, <1>2, Invariance, PTL DEF Spec, ImplementsRelay, Promise!Spec
=============================================================================
