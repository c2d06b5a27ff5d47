---------------------------- MODULE RawExecRelay ----------------------------
(***************************************************************************)
(* RawExecRelay: the mail goes to the standard input of a child process,   *)
(* its output becomes the text of the response, its exit status the code.  *)
(*                                                                         *)
(* Three things happen in any order: the request pipe takes the mail, the  *)
(* response pipe delivers output and its end, and the pidfd tells that the *)
(* child has exited.  The child may close its pipes before it exits, and   *)
(* processes it has started may hold them after.  The connection may       *)
(* destroy the relay at any time.                                          *)
(*                                                                         *)
(* Bytes are counted, not named.  Pipes, epoll and the child are the       *)
(* kernel's; PidfdEvent, PipeEvent, MultiWriteBuffer and                   *)
(* ChildProcessTerminator are libcommon's.                                 *)
(***************************************************************************)
EXTENDS RelayReports, Integers, Sequences, FiniteSets

CONSTANTS
  MailSize,     \* bytes of headers and message
  BufferSize,   \* response_buffer.size()
  DiscardSize,  \* discard_buffer.size()
  PipeSize,     \* what a pipe can hold
  MaxOutput,    \* bound: what the child and its descendants write
  Faults        \* which system calls may fail

ASSUME ConstantsAssumption ==
  /\ MailSize \in Nat \ {0}
  /\ BufferSize \in Nat \ {0, 1}
  /\ DiscardSize \in Nat \ {0}
  /\ PipeSize \in Nat \ {0}
  /\ MaxOutput \in Nat

ASSUME FaultsAssumption == Faults \subseteq {"spawn", "waitid", "read", "read at hangup"}

(* "output" is the text of a program that has written something.           *)
ASSUME TextsAssumption == {"", "output"} \subseteq RelayTexts

VARIABLES
  relay,          \* "new", "running", or "destroyed"
  pidfd,          \* who watches the child: the relay ("pidfd"), nobody, ...
  request_pipe,   \* request_pipe.IsDefined()
  response_pipe,  \* response_pipe.IsDefined()
  unsent,         \* bytes left in request_buffer
  response_fill,
  status,
  reports,        \* the calls of RelayHandler
  asserts,        \* every assert() evaluated so far held
  dangling,       \* did a method go on after the relay was destroyed?
  child,          \* "none", "running", or its exit status
  stdin,          \* the request pipe: is it open for reading, bytes in it
  stdout          \* the response pipe: open for writing, bytes in it, in all

relayVars == <<relay, pidfd, request_pipe, response_pipe, unsent, response_fill,
               status, reports, asserts, dangling>>
vars == <<relayVars, child, stdin, stdout>>

-----------------------------------------------------------------------------
(* Exit statuses, by what the relay makes of them: EXIT_SUCCESS, one of    *)
(* EX_USAGE, EX_OSFILE, EX_NOPERM and EX_CONFIG, another, or a signal.     *)
ExitStatuses == {"success", "permanent", "temporary", "signal"}

Uninitialized == "uninitialized"
WaitFailed == "waitid() failed"

StatusCode(st) ==
  CASE st = "success" -> "K"
    [] st = "permanent" -> "D"
    [] st \in {"temporary", "signal", WaitFailed} -> "Z"

(* Finish() would read what happens to be there.                           *)
StatusCodes(st) == IF st = Uninitialized THEN Codes ELSE {StatusCode(st)}

Smaller(a, b) == IF a < b THEN a ELSE b

(* "output" stands for response_fill - 1 bytes the child has written.      *)
FinishResponse(code, fill) ==
  CASE fill > 1 -> Response(code, "output")
    [] fill = 1 /\ code = "K" -> Response(code, "")
    [] fill = 1 /\ code # "K" -> Response(code, "internal server error")

Init ==
  /\ relay = "new"
  /\ pidfd = "null"
  /\ request_pipe = FALSE
  /\ response_pipe = FALSE
  /\ unsent = MailSize
  /\ response_fill = 1
  /\ status = Uninitialized
  /\ reports = << >>
  /\ asserts = TRUE
  /\ dangling = FALSE
  /\ child = "none"
  /\ stdin = [reader |-> FALSE, bytes |-> 0]
  /\ stdout = [writer |-> FALSE, bytes |-> 0, total |-> 0]

-----------------------------------------------------------------------------
(* The destructor, and the call of the handler, which comes to it.         *)

(* Mutant: the child is left to itself.                                    *)
DestroyWithoutKill(watcher) ==
  /\ relay' = "destroyed"
  /\ request_pipe' = FALSE
  /\ response_pipe' = FALSE
  /\ pidfd' = IF watcher = "relay" THEN "null" ELSE watcher

(* watcher is pidfd at that point of the calling method.                   *)
Destroy(watcher) ==
  /\ relay' = "destroyed"
  /\ request_pipe' = FALSE
  /\ response_pipe' = FALSE
  /\ pidfd' = IF watcher = "relay" THEN "terminator" ELSE watcher

(* Mutant: the handler does not destroy the relay.                         *)
ReportStaying(watcher, response, exit) ==
  /\ reports' = Append(reports, [response |-> response, child |-> exit])
  /\ relay' = "running"
  /\ pidfd' = watcher
  /\ request_pipe' = FALSE
  /\ response_pipe' = FALSE

(* A report notes what the child was doing at that time.                   *)
Report(watcher, response, exit) ==
  /\ reports' = Append(reports, [response |-> response, child |-> exit])
  /\ Destroy(watcher)

(* response_pipe is closed when Finish() is called.                        *)
Finish(watcher, st, fill) ==
  /\ asserts' = (asserts /\ watcher # "relay")
  /\ \E code \in StatusCodes(st) :
       Report(watcher, FinishResponse(code, fill), child)

-----------------------------------------------------------------------------
(* Writing the mail.                                                       *)

(* A pipe nobody reads any more raises an error, SIGPIPE being ignored.    *)
TryWrite(watcher, reader, bytes) ==
  IF ~reader
  THEN /\ Report(watcher, Response("Z", "write error"), child)
       /\ UNCHANGED <<unsent, stdin>>
  ELSE LET n == Smaller(unsent, PipeSize - bytes)
       IN  /\ unsent' = unsent - n
           /\ stdin' = [reader |-> TRUE, bytes |-> bytes + n]
           /\ request_pipe' = (unsent' > 0)
           /\ pidfd' = watcher
           /\ UNCHANGED <<relay, response_pipe, reports>>

OnRequestPipeReady ==
  /\ request_pipe
  /\ stdin.bytes < PipeSize \/ ~stdin.reader
  /\ TryWrite(pidfd, stdin.reader, stdin.bytes)
  /\ UNCHANGED <<response_fill, status, asserts, dangling, child, stdout>>

-----------------------------------------------------------------------------
(* Reading the output.                                                     *)

(* READ while there is output, HANGUP once nobody can write any more; an   *)
(* event may be older than the hangup.  The end may show as readable.      *)
ResponseEvents ==
  {events \in SUBSET {"READ", "HANGUP"} :
     /\ events # {}
     /\ stdout.bytes > 0 => "READ" \in events
     /\ "READ" \in events => stdout.bytes > 0 \/ ~stdout.writer
     /\ "HANGUP" \in events => ~stdout.writer}

(* Mutants: the whole buffer is passed to read(); a full one is not read.  *)
ReadSizeIgnoringFill(fill) == BufferSize

ReadSizeWithoutDiscard(fill) == BufferSize - fill

(* How much TryRead() asks for.                                            *)
ReadSize(fill) == IF fill = BufferSize THEN DiscardSize ELSE BufferSize - fill

(* How much a read adds to the response: nothing to a full buffer.         *)
Kept(fill, n) == IF fill = BufferSize THEN 0 ELSE n

(* TryRead() reports the error, and returns true all the same.             *)
TryReadFails(events) ==
  /\ \/ "read" \in Faults /\ events = {"READ"}
     \/ "read at hangup" \in Faults /\ events = {"READ", "HANGUP"}
  /\ Report(pidfd, Response("Z", "read error"), child)
  /\ dangling' = ("HANGUP" \in events)
  /\ UNCHANGED <<unsent, response_fill, status, asserts, child, stdin, stdout>>

(* Mutant: the end of the output is taken for the end of the child.        *)
TryReadSucceedsHastily(events) ==
  LET n == Smaller(stdout.bytes, ReadSize(response_fill))
      fill == response_fill + Kept(response_fill, n)
      end == n = 0 \/ "HANGUP" \in events
  IN  /\ response_fill' = fill
      /\ stdout' = [stdout EXCEPT !.bytes = @ - n]
      /\ IF end
         THEN Finish(pidfd, status, fill)
         ELSE UNCHANGED <<relay, pidfd, request_pipe, response_pipe, reports, asserts>>
      /\ UNCHANGED <<unsent, status, dangling, child, stdin>>

(* With HANGUP alone there is nothing to read, and n is 0.                 *)
TryReadSucceeds(events) ==
  LET n == Smaller(stdout.bytes, ReadSize(response_fill))
      fill == response_fill + Kept(response_fill, n)
      end == n = 0 \/ "HANGUP" \in events
  IN  /\ response_fill' = fill
      /\ stdout' = [stdout EXCEPT !.bytes = @ - n]
      /\ IF end /\ pidfd # "relay"
         THEN Finish(pidfd, status, fill)
         ELSE /\ response_pipe' = ~end
              /\ UNCHANGED <<relay, pidfd, request_pipe, reports, asserts>>
      /\ UNCHANGED <<unsent, status, dangling, child, stdin>>

OnResponsePipeReady ==
  /\ response_pipe
  /\ \E events \in ResponseEvents : TryReadFails(events) \/ TryReadSucceeds(events)

-----------------------------------------------------------------------------
(* The exit of the child.                                                  *)

(* Mutants: the rest of the output is not waited for; the exit is not the  *)
(* end if the output ended first.                                          *)
OnChildProcessExitHastily ==
  /\ pidfd = "relay" /\ child # "running"
  /\ status' = child
  /\ Finish("reaped", child, response_fill)
  /\ UNCHANGED <<unsent, response_fill, dangling, child, stdin, stdout>>

OnChildProcessExitOnly ==
  /\ pidfd = "relay" /\ child # "running"
  /\ pidfd' = "reaped" /\ status' = child
  /\ UNCHANGED <<relay, request_pipe, response_pipe, reports, asserts, unsent,
                 response_fill, dangling, child, stdin, stdout>>

OnChildProcessExit ==
  /\ pidfd = "relay" /\ child # "running"
  /\ \E st \in {child} \cup (IF "waitid" \in Faults THEN {WaitFailed} ELSE {}) :
       /\ status' = st
       /\ IF response_pipe
          THEN /\ pidfd' = "reaped"
               /\ UNCHANGED <<relay, request_pipe, response_pipe, reports, asserts>>
          ELSE Finish("reaped", st, response_fill)
  /\ UNCHANGED <<unsent, response_fill, dangling, child, stdin, stdout>>

-----------------------------------------------------------------------------
(* Start(), and the connection's destruction of the relay.                 *)

(* CreatePipe() or pidfd_spawn() fails.                                    *)
StartFails ==
  /\ relay = "new"
  /\ "spawn" \in Faults
  /\ Report("null", Response("Z", "internal server error"), child)
  /\ UNCHANGED <<unsent, response_fill, status, asserts, dangling, child, stdin, stdout>>

(* The child runs already when the first bytes are written, and may have   *)
(* closed its standard input.                                              *)
Start ==
  /\ relay = "new"
  /\ \E reader \in BOOLEAN :
       \/ /\ reader
          /\ relay' = "running" /\ response_pipe' = TRUE /\ pidfd' = "relay"
          /\ LET n == Smaller(unsent, PipeSize)
             IN  /\ unsent' = unsent - n
                 /\ stdin' = [reader |-> TRUE, bytes |-> n]
                 /\ request_pipe' = (unsent' > 0)
          /\ UNCHANGED reports
       \/ /\ ~reader
          /\ Report("relay", Response("Z", "write error"), "running")
          /\ UNCHANGED <<unsent, stdin>>
  /\ child' = "running"
  /\ stdout' = [stdout EXCEPT !.writer = TRUE]
  /\ UNCHANGED <<response_fill, status, asserts, dangling>>

(* The client went away, or relay_timeout expired.                         *)
Cancel ==
  /\ relay = "running"
  /\ Destroy(pidfd)
  /\ UNCHANGED <<unsent, response_fill, status, reports, asserts, dangling,
                 child, stdin, stdout>>

-----------------------------------------------------------------------------
(* The child, and the processes it has started.                            *)

ChildReads ==
  /\ relay = "running" /\ stdin.reader
  /\ \E n \in 1..stdin.bytes : stdin' = [stdin EXCEPT !.bytes = @ - n]
  /\ UNCHANGED <<relayVars, child, stdout>>

ChildWrites ==
  /\ response_pipe /\ stdout.writer
  /\ stdout.bytes < PipeSize /\ stdout.total < MaxOutput
  /\ stdout' = [stdout EXCEPT !.bytes = @ + 1, !.total = @ + 1]
  /\ UNCHANGED <<relayVars, child, stdin>>

ChildClosesInput ==
  /\ stdin.reader
  /\ stdin' = [reader |-> FALSE, bytes |-> 0]
  /\ UNCHANGED <<relayVars, child, stdout>>

ChildClosesOutput ==
  /\ stdout.writer
  /\ stdout' = [stdout EXCEPT !.writer = FALSE]
  /\ UNCHANGED <<relayVars, child, stdin>>

(* A pipe stays open if another process has inherited it.                  *)
ChildExits ==
  /\ child = "running"
  /\ child' \in ExitStatuses
  /\ \E heirs \in SUBSET {"stdin", "stdout"} :
       /\ stdin' = IF "stdin" \in heirs THEN stdin ELSE [reader |-> FALSE, bytes |-> 0]
       /\ stdout' = [stdout EXCEPT !.writer = @ /\ "stdout" \in heirs]
  /\ UNCHANGED relayVars

Next ==
  \/ Start \/ StartFails \/ Cancel
  \/ OnRequestPipeReady \/ OnResponsePipeReady \/ OnChildProcessExit
  \/ ChildReads \/ ChildWrites \/ ChildClosesInput \/ ChildClosesOutput \/ ChildExits

Spec == Init /\ [][Next]_vars

(* The event loop gets to every descriptor that is ready.                  *)
Fairness ==
  /\ WF_vars(OnRequestPipeReady)
  /\ WF_vars(OnResponsePipeReady)
  /\ WF_vars(OnChildProcessExit)

FairSpec == Spec /\ Fairness

-----------------------------------------------------------------------------
(* Correctness.                                                            *)

(* The counters stay within their buffers: read() is never given more room *)
(* than response_buffer has left.                                          *)
TypeOK ==
  /\ relay \in {"new", "running", "destroyed"}
  /\ pidfd \in {"null", "relay", "reaped", "terminator"}
  /\ request_pipe \in BOOLEAN /\ response_pipe \in BOOLEAN
  /\ unsent \in 0..MailSize
  /\ response_fill \in 1..BufferSize
  /\ status \in ExitStatuses \cup {WaitFailed, Uninitialized}
  /\ reports \in Seq([response : Responses,
                      child : ExitStatuses \cup {"none", "running"}])
  /\ asserts \in BOOLEAN /\ dangling \in BOOLEAN
  /\ child \in ExitStatuses \cup {"none", "running"}
  /\ stdin \in [reader : BOOLEAN, bytes : 0..PipeSize]
  /\ stdout \in [writer : BOOLEAN, bytes : 0..PipeSize, total : 0..MaxOutput]

Errors == {Response("Z", "write error"), Response("Z", "read error")}

(* A report that is not an error of the relay's own comes after the child  *)
(* has exited and translates that exit status: the uninitialized status is *)
(* never read, whichever of exit and end of output came first.  Failures   *)
(* of spawn and waitid() are temporary errors.                             *)
VerdictIsExitStatus ==
  \A i \in DOMAIN reports :
    LET report == reports[i]
    IN  report.response \notin Errors =>
          /\ asserts
          /\ report.child # "running"
          /\ report.response.code =
               IF report.child = "none" \/ status = WaitFailed
               THEN "Z" ELSE StatusCode(report.child)

(* The text of such a report is all of the output, of the child and of     *)
(* those who inherited the pipe, as much as fits in the buffer.            *)
OutputComplete ==
  \A i \in DOMAIN reports :
    reports[i].response \notin Errors =>
      /\ ~stdout.writer
      /\ response_fill = 1 + Smaller(stdout.total, BufferSize - 1)

(* A child is never left without someone who waits for it, and it is told  *)
(* to terminate when the relay goes before it.                             *)
ChildAccountedFor ==
  child # "none" =>
    pidfd = CASE relay = "running" /\ status = Uninitialized -> "relay"
              [] relay = "destroyed" /\ status = Uninitialized -> "terminator"
              [] status # Uninitialized -> "reaped"

(* The handler destroys the relay, as "Send the response and destroy the   *)
(* connection" (Connection.hxx, on Finish()) says; so no method may use a  *)
(* member after it has reported.                                           *)
NoUseAfterDestroy == ~dangling

(* doc/index.rst, on exec_raw: "Translates the exit status to either       *)
(* "accepted (K)" (``EXIT_SUCCESS``), ..."                                 *)
SuccessIsAccepted ==
  \A i \in DOMAIN reports :
    reports[i].child = "success" => reports[i].response.code = "K"

(* The child never blocks for good on its output: a full pipe gets room    *)
(* again even when the response buffer has none.                           *)
OutputDrained ==
  (stdout.bytes = PipeSize /\ stdout.writer) ~>
    (stdout.bytes < PipeSize \/ ~stdout.writer \/ relay = "destroyed")

(* Once the child has exited and nobody holds its output, the relay        *)
(* reports, in whatever order it learns of the two.                        *)
Finishes ==
  (relay = "running" /\ child # "running" /\ ~stdout.writer) ~> (relay = "destroyed")

(* The relay as its handler sees it.                                       *)
Promise == INSTANCE Relay WITH
  Type <- "EXEC_RAW",
  reported <- [i \in DOMAIN reports |-> reports[i].response]

(* The relay keeps the promise that Connection relies on: it calls its     *)
(* handler at most once, never after it was destroyed, and with a response *)
(* that is its to give.                                                    *)
ImplementsRelay == Promise!Spec
=============================================================================
