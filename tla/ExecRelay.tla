----------------------------- MODULE ExecRelay ------------------------------
(***************************************************************************)
(* ExecRelay: a child process speaks QMQP on its standard input and        *)
(* output.  Its answer counts only if it exits with EXIT_SUCCESS, so the   *)
(* answer of a child that still runs is deferred until it has exited.      *)
(*                                                                         *)
(* NetstringClient (libcommon) first writes the whole request, then reads  *)
(* one response, and calls its handler once: with the response, or with an *)
(* error (broken pipe, end of file, no netstring, timeout).  Pipes and     *)
(* child are the kernel's, as in RawExecRelay.                             *)
(***************************************************************************)
EXTENDS BasicRelay, Sequences

CONSTANT Faults   \* which system calls may fail

ASSUME FaultsAssumption == Faults \subseteq {"spawn", "waitid"}

VARIABLES
  relay,      \* "new", "running", or "destroyed"
  pidfd,      \* who watches the child: the relay ("pidfd"), nobody, ...
  client,     \* the NetstringClient: "idle", "sending", "receiving", "done"
  deferred_response,
  reports,    \* the calls of RelayHandler
  child,      \* "none", "running", or its exit status
  stdin,      \* is the request pipe open for reading?
  stdout      \* the response pipe: open for writing, and the answer in it

relayVars == <<relay, pidfd, client, deferred_response, reports>>
vars == <<relayVars, child, stdin, stdout>>

-----------------------------------------------------------------------------
ExitStatuses == {"success", "permanent", "temporary", "signal"}
WaitFailed == "waitid() failed"

(* OnChildProcessExit() and ExitStatusToQmqpResponse().                    *)
ExitResponse(st) ==
  Response(IF st = "permanent" THEN "D" ELSE "Z", "internal server error")

Init ==
  /\ relay = "new"
  /\ pidfd = "null"
  /\ client = "idle"
  /\ deferred_response = None
  /\ reports = << >>
  /\ child = "none"
  /\ stdin = FALSE
  /\ stdout = [writer |-> FALSE, answer |-> None]

-----------------------------------------------------------------------------
(* The destructor; the call of the handler, which comes to it.             *)

(* Mutant: the child is left to itself.                                    *)
DestroyWithoutKill(watcher) ==
  /\ relay' = "destroyed"
  /\ client' = "done"
  /\ pidfd' = IF watcher = "relay" THEN "null" ELSE watcher

Destroy(watcher) ==
  /\ relay' = "destroyed"
  /\ client' = "done"
  /\ pidfd' = IF watcher = "relay" THEN "terminator" ELSE watcher

(* Mutant: the handler does not destroy the relay.                         *)
ReportStaying(watcher, response) ==
  /\ reports' = Append(reports, response)
  /\ relay' = "running"
  /\ client' = "done"
  /\ pidfd' = watcher

Report(watcher, response) ==
  /\ reports' = Append(reports, response)
  /\ Destroy(watcher)

(* CreatePipe() or pidfd_spawn() fails.                                    *)
StartFails ==
  /\ relay = "new"
  /\ "spawn" \in Faults
  /\ Report("null", Response("Z", "internal server error"))
  /\ UNCHANGED <<deferred_response, child, stdin, stdout>>

Start ==
  /\ relay = "new"
  /\ relay' = "running"
  /\ pidfd' = "relay"
  /\ client' = "sending"
  /\ child' = "running"
  /\ stdin' = TRUE
  /\ stdout' = [stdout EXCEPT !.writer = TRUE]
  /\ UNCHANGED <<deferred_response, reports>>

(* The client went away, or relay_timeout expired.                         *)
Cancel ==
  /\ relay = "running"
  /\ Destroy(pidfd)
  /\ UNCHANGED <<deferred_response, reports, child, stdin, stdout>>

-----------------------------------------------------------------------------
(* The NetstringClient.                                                    *)

(* The last byte of the request has been written.                          *)
ClientSent ==
  /\ client = "sending" /\ stdin
  /\ client' = "receiving"
  /\ UNCHANGED <<relay, pidfd, deferred_response, reports, child, stdin, stdout>>

(* Mutants: responses are never deferred, or always.                       *)
OnNetstringResponseAtOnce ==
  /\ client = "receiving" /\ stdout.answer \in Payloads
  /\ Report(pidfd, PayloadResponse(stdout.answer))
  /\ UNCHANGED <<deferred_response, child, stdin, stdout>>

OnNetstringResponseDeferred ==
  /\ client = "receiving" /\ stdout.answer \in Payloads
  /\ client' = "done"
  /\ deferred_response' = stdout.answer
  /\ UNCHANGED <<relay, pidfd, reports, child, stdin, stdout>>

OnNetstringResponse ==
  /\ client = "receiving" /\ stdout.answer \in Payloads
  /\ IF pidfd = "relay"
     THEN /\ client' = "done"
          /\ deferred_response' = stdout.answer
          /\ UNCHANGED <<relay, pidfd, reports>>
     ELSE /\ Report(pidfd, PayloadResponse(stdout.answer))
          /\ UNCHANGED deferred_response
  /\ UNCHANGED <<child, stdin, stdout>>

OnNetstringError ==
  /\ Report(pidfd, ErrorResponse)
  /\ UNCHANGED <<deferred_response, child, stdin, stdout>>

(* The child does not take the request, or gives no response.              *)
ClientFails ==
  /\ \/ client = "sending" /\ ~stdin
     \/ /\ client = "receiving"
        /\ stdout.answer = "garbage" \/ (stdout.answer = None /\ ~stdout.writer)
  /\ OnNetstringError

ClientTimeout == client \in {"sending", "receiving"} /\ OnNetstringError

-----------------------------------------------------------------------------
(* The exit of the child.                                                  *)

OnChildProcessExit ==
  /\ pidfd = "relay" /\ child # "running"
  /\ \E st \in {child} \cup (IF "waitid" \in Faults THEN {WaitFailed} ELSE {}) :
       \/ /\ st # "success"
          /\ Report("reaped", ExitResponse(st))
       \/ /\ st = "success" /\ deferred_response # None
          /\ Report("reaped", PayloadResponse(deferred_response))
       \/ /\ st = "success" /\ deferred_response = None
          /\ pidfd' = "reaped"
          /\ UNCHANGED <<relay, client, reports>>
  /\ UNCHANGED <<deferred_response, child, stdin, stdout>>

-----------------------------------------------------------------------------
(* The child, and the processes it has started.                            *)

ChildAnswers ==
  /\ relay = "running" /\ stdout.writer /\ stdout.answer = None
  /\ \E answer \in Answers : stdout' = [stdout EXCEPT !.answer = answer]
  /\ UNCHANGED <<relayVars, child, stdin>>

ChildClosesInput ==
  /\ stdin
  /\ stdin' = FALSE
  /\ UNCHANGED <<relayVars, child, stdout>>

ChildClosesOutput ==
  /\ stdout.writer
  /\ stdout' = [stdout EXCEPT !.writer = FALSE]
  /\ UNCHANGED <<relayVars, child, stdin>>

(* A pipe stays open if another process has inherited it.                  *)
ChildExits ==
  /\ child = "running"
  /\ child' \in ExitStatuses
  /\ stdin' \in {FALSE, stdin}
  /\ \E heir \in BOOLEAN : stdout' = [stdout EXCEPT !.writer = @ /\ heir]
  /\ UNCHANGED relayVars

Next ==
  \/ Start \/ StartFails \/ Cancel
  \/ ClientSent \/ OnNetstringResponse \/ ClientFails \/ ClientTimeout
  \/ OnChildProcessExit
  \/ ChildAnswers \/ ChildClosesInput \/ ChildClosesOutput \/ ChildExits

Spec == Init /\ [][Next]_vars

(* The event loop gets to every descriptor that is ready.                  *)
Fairness ==
  /\ WF_vars(ClientSent)
  /\ WF_vars(OnNetstringResponse)
  /\ WF_vars(ClientFails)
  /\ WF_vars(OnChildProcessExit)

FairSpec == Spec /\ Fairness

-----------------------------------------------------------------------------
(* Correctness.                                                            *)

(* The values of the variables.                                            *)
TypeOK ==
  /\ relay \in {"new", "running", "destroyed"}
  /\ pidfd \in {"null", "relay", "reaped", "terminator"}
  /\ client \in {"idle", "sending", "receiving", "done"}
  /\ deferred_response \in Payloads \cup {None}
  /\ reports \in Seq(Responses)
  /\ child \in ExitStatuses \cup {"none", "running"}
  /\ stdin \in BOOLEAN
  /\ stdout \in [writer : BOOLEAN, answer : Answers \cup {None}]

(* The answer of the child is passed on only if it is known to have exited *)
(* with success; if it is known to have failed, its answer does not count, *)
(* whichever came first.                                                   *)
VerdictNeedsSuccess ==
  \A i \in DOMAIN reports :
    /\ reports[i].text = "output" =>
         /\ pidfd = "reaped" /\ child = "success"
         /\ reports[i].code = stdout.answer
    /\ pidfd = "reaped" /\ child \in ExitStatuses \ {"success"} =>
         reports[i].text = "internal server error"

(* A child is never left without someone who waits for it, and it is told  *)
(* to terminate when the relay goes before it.                             *)
ChildAccountedFor ==
  child # "none" => \/ pidfd = "relay" /\ relay = "running"
                    \/ pidfd = "terminator" /\ relay = "destroyed"
                    \/ pidfd = "reaped" /\ child # "running"

(* Once the child has exited and nobody holds its pipes, the relay reports *)
(* even if no timeout of NetstringClient expires.                          *)
Finishes ==
  (relay = "running" /\ child # "running" /\ ~stdin /\ ~stdout.writer) ~>
    (relay = "destroyed")

(* The relay as its handler sees it.                                       *)
Promise == INSTANCE Relay WITH Type <- "EXEC", reported <- reports

(* The relay keeps the promise that Connection relies on: it calls its     *)
(* handler at most once, never after it was destroyed, and with a response *)
(* that is its to give.                                                    *)
ImplementsRelay == Promise!Spec
=============================================================================
