--------------------------- MODULE ExecSubmission ---------------------------
(***************************************************************************)
(* A submission that may be relayed by exec(): a QmqpRelayConnection of    *)
(* module Connection with the ExecRelay of module ExecRelay in the place   *)
(* of the promise that Connection makes do with, and the instance's        *)
(* ChildProcessTerminator, which inherits the child of a relay that is     *)
(* destroyed early.                                                        *)
(*                                                                         *)
(* relay_operation is where they meet.  DoExec() creates and starts the    *)
(* relay, a report of the relay is a call of the connection, which deletes *)
(* both, and deleting the connection for another reason cancels the relay: *)
(* each of these is one step of both components.                           *)
(***************************************************************************)
EXTENDS Sequences, Integers

CONSTANTS
  RelayTexts, LogServer, ScriptTimeouts, TickLength,  \* as in Connection
  Faults,                                             \* as in ExecRelay
  Client                                              \* the one client

(* What Connection and ExecRelay assume.                                   *)
ASSUME ConstantsAssumption ==
  /\ "output" \in RelayTexts
  /\ LogServer \in BOOLEAN
  /\ ScriptTimeouts \subseteq Nat \ {0}
  /\ TickLength \in Nat \ {0}
  /\ Faults \subseteq {"spawn", "waitid"}

VARIABLES
  connection,                                           \* of Connection
  relay, pidfd, client, deferred_response, reports,     \* of ExecRelay
  child, stdin, stdout,
  terminator   \* the child in its care was sent "SIGTERM", "SIGKILL", is "reaped"

Conn == INSTANCE Connection WITH Connections <- {Client}
Exec == INSTANCE ExecRelay

execVars == <<relay, pidfd, client, deferred_response, reports, child, stdin, stdout>>

vars == <<connection, execVars, terminator>>

Init == Conn!Init /\ Exec!Init /\ terminator = "idle"

Submission == connection[Client]

Relaying == Submission.relay_operation = "EXEC"

-----------------------------------------------------------------------------
(* Steps of both.                                                          *)

(* ~ExecRelay() hands a child over with Kill(SIGTERM).                     *)
HandOver ==
  terminator' = IF pidfd' = "terminator" THEN "SIGTERM" ELSE terminator

(* The handler of the connection runs; DoExec() may be part of it.         *)
Handle ==
  /\ Conn!Request(Client) \/ Conn!LuaResume(Client)
  /\ \/ /\ Submission'.action.type # "EXEC"
        /\ UNCHANGED execVars
     \/ /\ Submission'.action.type = "EXEC" /\ Submission'.relay_operation = "EXEC"
        /\ Exec!Start
     \/ /\ Submission'.action.type = "EXEC" /\ Submission'.relay_operation # "EXEC"
        /\ Exec!StartFails
        /\ Submission'.verdict = Head(reports')
  /\ HandOver

(* An event of the relay's descriptors; a report goes to the connection.   *)
RelayEvent ==
  /\ \/ Exec!OnNetstringResponse \/ Exec!ClientFails \/ Exec!ClientTimeout
     \/ Exec!OnChildProcessExit
  /\ IF reports' = reports
     THEN UNCHANGED connection
     ELSE Conn!Leaves(Client,
            Conn!OnRelayReport(Submission, reports'[Len(reports')]))
  /\ HandOver

(* Mutant: the connection leaves its relay alone.                          *)
EndWithoutRelay ==
  /\ Conn!Disconnect(Client) \/ Conn!SocketError(Client) \/ Conn!RelayTimeout(Client)
  /\ UNCHANGED <<execVars, terminator>>

(* The client disconnects or fails, or the timeout expires.                *)
End ==
  /\ Conn!Disconnect(Client) \/ Conn!SocketError(Client) \/ Conn!RelayTimeout(Client)
  /\ IF Relaying THEN Exec!Cancel ELSE UNCHANGED execVars
  /\ HandOver

-----------------------------------------------------------------------------
(* Steps of one.                                                           *)

Accept == Conn!Accept(Client) /\ UNCHANGED <<execVars, terminator>>

(* RemoteRelay and RawExecRelay keep their promise.                        *)
OtherRelayReports ==
  /\ ~Relaying
  /\ Conn!RelayReport(Client)
  /\ UNCHANGED <<execVars, terminator>>

World ==
  /\ \/ Exec!ClientSent
     \/ Exec!ChildAnswers \/ Exec!ChildClosesInput \/ Exec!ChildClosesOutput
     \/ Exec!ChildExits
  /\ UNCHANGED <<connection, terminator>>

(* The terminator has waited a minute for the child.                       *)
TerminatorKills ==
  /\ terminator = "SIGTERM" /\ child = "running"
  /\ terminator' = "SIGKILL"
  /\ UNCHANGED <<connection, execVars>>

ChildIsKilled ==
  /\ terminator = "SIGKILL"
  /\ Exec!ChildExits /\ child' = "signal"
  /\ UNCHANGED <<connection, terminator>>

TerminatorReaps ==
  /\ terminator \in {"SIGTERM", "SIGKILL"} /\ child # "running"
  /\ terminator' = "reaped"
  /\ UNCHANGED <<connection, execVars>>

Next ==
  \/ Accept \/ Handle \/ RelayEvent \/ End \/ OtherRelayReports
  \/ World \/ TerminatorKills \/ ChildIsKilled \/ TerminatorReaps

Spec == Init /\ [][Next]_vars

(* The event loop runs the timers and gets to the descriptors; the kernel  *)
(* delivers SIGKILL.  Clients, scripts and children may do nothing at all. *)
Fairness ==
  /\ WF_vars(End /\ Conn!RelayTimeout(Client))
  /\ WF_vars(RelayEvent /\ ~Exec!ClientTimeout)
  /\ WF_vars(TerminatorKills)
  /\ WF_vars(ChildIsKilled)
  /\ WF_vars(TerminatorReaps)

FairSpec == Spec /\ Fairness

-----------------------------------------------------------------------------
(* Correctness.                                                            *)

(* End to end: a client that is told "K" by a program was told so by a     *)
(* program that said "K" and exited with success; and a program that is    *)
(* known to have failed has its text sent to nobody, neither to the client *)
(* nor, when the answer could not be sent, to the log server alone.        *)
AnswerIsBacked ==
  Submission.action.type = "EXEC" =>
    /\ \A i \in DOMAIN Submission.replies :
         LET reply == Submission.replies[i]
         IN  reply.code = "K" \/ reply.text = "output" =>
               child = "success" /\ stdout.answer = reply.code
    /\ \A i \in DOMAIN Submission.logged :
         Submission.logged[i].message = "output" =>
           child = "success" /\ stdout.answer \in Exec!Codes

(* No child outlives its submission for good, whether it listens to        *)
(* SIGTERM or not, and it leaves no zombie.                                *)
ChildEnds ==
  (Submission.object = "deleted" /\ child # "none") ~>
    (child # "running" /\ (pidfd = "reaped" \/ terminator = "reaped"))

(* A timeout of a tick or more ends everything that the submission has     *)
(* started, even if the program never answers, reads or exits.             *)
TimeoutEndsAll ==
  (Submission.action.option >= TickLength) ~>
    (Submission.object = "deleted" /\ child # "running")

(* The connection cannot tell the relay from its promise: whatever it does *)
(* with the real one, module Connection allows, and so what was proved of  *)
(* Connection holds of it.                                                 *)
ImplementsConnection == Conn!Spec
=============================================================================
