----------------------------- MODULE Connection -----------------------------
(***************************************************************************)
(* QmqpRelayConnection: one object per client connection, from accept() to *)
(* `delete this`.                                                          *)
(*                                                                         *)
(* The daemon is a single-threaded event loop, so every event handler runs *)
(* to completion; but handlers nest: a request may run the Lua handler,    *)
(* which may start a relay, which may fail and answer the client, which    *)
(* may fail and delete the object, all in one event.  Each method is an    *)
(* operator from the object's record to the SET of records it may leave    *)
(* behind (one per outcome of the calls it makes), so a nested call is a   *)
(* nested operator, and each event of the loop is one action.              *)
(*                                                                         *)
(* The inner workings of the relays are the subject of modules ExecRelay   *)
(* and RawExecRelay; here a relay keeps the promise of module Relay: it    *)
(* calls its RelayHandler once, at some time, or never.                    *)
(***************************************************************************)
EXTENDS RelayReports, Integers, Sequences

CONSTANTS
  Connections,     \* the client connections
  LogServer,       \* was `log_server` configured?
  ScriptTimeouts,  \* values scripts give the "timeout" option
  TickLength       \* one Event::Duration tick, in the unit of ScriptTimeouts

(* CollectExecOptions() admits positive timeouts only.                     *)
ASSUME ConstantsAssumption ==
  /\ LogServer \in BOOLEAN
  /\ ScriptTimeouts \subseteq Nat \ {0}
  /\ TickLength \in Nat \ {0}

VARIABLE connection   \* connection[c]: the object of client c, and its history

-----------------------------------------------------------------------------
(* Responses, actions and the object's record.                             *)

NoTimeout == 0   \* the script gave no "timeout" option

(* The Action objects a script can build.  connect() has no options.       *)
Actions ==
  [type : {"DISCARD", "REJECT", "CONNECT"}, option : {NoTimeout}]
    \cup [type : {"EXEC", "EXEC_RAW"}, option : ScriptTimeouts \cup {NoTimeout}]

(* Mutant: exec_raw() does not collect the option.                         *)
TimeoutTicksExecOnly(action) ==
  IF action.type # "EXEC" \/ action.option = NoTimeout
  THEN -1 ELSE action.option \div TickLength

(* Action::timeout in ticks: -1 unless the option was given; the           *)
(* duration_cast truncates.                                                *)
TimeoutTicks(action) ==
  IF action.option = NoTimeout THEN -1 ELSE action.option \div TickLength

States == {"INIT", "RECEIVED", "LUA", "NOT_RELAYING", "RELAYING", "END"}

None == "none"

NoAction == [type |-> None, option |-> NoTimeout]

NoVerdict == Response(None, None)

(* The fields after "asserts" are not in the code: they record what the    *)
(* object did, so that properties can speak of it.                         *)
Objects ==
  [object : {"absent", "live", "deleted"},
   state : States,
   mail_ptr : BOOLEAN,            \* mail_ptr != nullptr
   coroutine : BOOLEAN,           \* the Lua thread is suspended, will call back
   relay_operation : RelayTypes \cup {None},
   relay_timeout : BOOLEAN,       \* the timer is scheduled
   asserts : BOOLEAN,             \* every assert() evaluated so far held
   parsed : BOOLEAN,              \* Parse() succeeded
   action : Actions \cup {NoAction},  \* what the script decided
   verdict : Responses \cup {NoVerdict},  \* what the relay reported
   replies : Seq(Responses),      \* what was sent to the client
   logged : Seq([message : Messages, relayed : BOOLEAN])]

NewObject(object) ==
  [object |-> object, state |-> "INIT", mail_ptr |-> FALSE,
   coroutine |-> FALSE, relay_operation |-> None, relay_timeout |-> FALSE,
   asserts |-> TRUE, parsed |-> FALSE, action |-> NoAction, verdict |-> NoVerdict,
   replies |-> << >>, logged |-> << >>]

Asserting(k, condition) == [k EXCEPT !.asserts = @ /\ condition]

-----------------------------------------------------------------------------
(* The methods.                                                            *)

(* Mutant: traffic_sent is counted one state too early.                    *)
LogCountingTooEarly(k, message) ==
  [Asserting(k, k.state # "END" /\ k.mail_ptr) EXCEPT
     !.logged = Append(@, [message |-> message,
                           relayed |-> k.state \notin {"INIT", "RECEIVED", "LUA"}]),
     !.state = "END",
     !.mail_ptr = FALSE]

(* Log() does nothing without a log server, not even clear mail_ptr.  A    *)
(* send error is caught: the datagram counts as logged either way.         *)
Log(k, message) ==
  LET asserted == Asserting(k, k.state # "END" /\ k.mail_ptr)
      relayed == k.state \in {"RELAYING", "END"}
  IN  IF ~LogServer
      THEN asserted
      ELSE [asserted EXCEPT
              !.logged = Append(@, [message |-> message, relayed |-> relayed]),
              !.state = "END",
              !.mail_ptr = FALSE]

LogMail(k, message) == IF k.mail_ptr THEN Log(k, message) ELSE k

(* Mutants: the destructor does not log; the timer is not a member.        *)
DeleteSilently(k) ==
  [k EXCEPT !.object = "deleted", !.mail_ptr = FALSE, !.coroutine = FALSE,
            !.relay_operation = None, !.relay_timeout = FALSE]

DeleteKeepingTimer(k) ==
  [LogMail(k, "canceled") EXCEPT
     !.object = "deleted", !.mail_ptr = FALSE, !.coroutine = FALSE,
     !.relay_operation = None]

(* `delete this`: the destructor, then the members: the coroutine, the     *)
(* relay and the timer are cancelled with the object.                      *)
Delete(k) ==
  [LogMail(k, "canceled") EXCEPT
     !.object = "deleted",
     !.mail_ptr = FALSE,
     !.coroutine = FALSE,
     !.relay_operation = None,
     !.relay_timeout = FALSE]

OnError(k) == Delete(LogMail(k, "client error"))

OnDisconnect(k) == Delete(k)

(* Mutant: the object is not deleted after a successful SendResponse().    *)
FinishStaying(k, response) ==
  LET logged == LogMail(Asserting(k, k.state \notin {"INIT", "END"}), response.text)
  IN  {[logged EXCEPT !.replies = Append(@, response)], OnError(logged)}

(* SendResponse() of the base class returns true, or has called OnError(). *)
Finish(k, response) ==
  LET logged == LogMail(Asserting(k, k.state \notin {"INIT", "END"}), response.text)
  IN  {Delete([logged EXCEPT !.replies = Append(@, response)]),
       OnError(logged)}

OnRelayTimeout(k) == Finish(k, Response("Z", "timeout"))

(* Mutants: each relay error gets the same answer; a temporary failure is  *)
(* retried over the network.                                               *)
OnRelayReportGeneric(k, response) ==
  Finish([k EXCEPT !.verdict = response], Response("Z", "relay failed"))

OnRelayReportRetrying(k, response) ==
  IF response.code = "Z"
  THEN {[k EXCEPT !.relay_operation = "CONNECT"]}
  ELSE Finish([k EXCEPT !.verdict = response], response)

(* OnRelayResponse() and OnRelayError().                                   *)
OnRelayReport(k, response) == Finish([k EXCEPT !.verdict = response], response)

-----------------------------------------------------------------------------
(* The Lua handler's result.                                               *)

(* DoConnect(), DoExec(), DoRawExec(): the timer, the relay, its Start().  *)
DoRelay(k, action) ==
  LET started == [k EXCEPT !.state = "RELAYING",
                           !.relay_timeout = TimeoutTicks(action) > 0,
                           !.relay_operation = action.type]
  IN  {started} \cup
      UNION {OnRelayReport(started, r) : r \in StartReports(action.type)}

Do(k, action) ==
  LET decided == [k EXCEPT !.action = action]
      declined == [decided EXCEPT !.state = "NOT_RELAYING"]
  IN  CASE action.type = "DISCARD" -> Finish(declined, Response("K", "discarded"))
        [] action.type = "REJECT" -> Finish(declined, Response("D", "rejected"))
        [] action.type \in RelayTypes -> DoRelay(decided, action)

OnLuaError(k) ==
  Finish(Asserting(k, k.state = "LUA" /\ k.mail_ptr), Response("Z", "script failed"))

OnLuaFinished(k, action) == Do(Asserting(k, k.state = "LUA" /\ k.mail_ptr), action)

(* Mutant: the thread is not released when the script has returned.        *)
ResumeKeepingThread(k) ==
  {[k EXCEPT !.coroutine = TRUE]}
    \cup OnLuaError(k)
    \cup UNION {OnLuaFinished(k, action) : action \in Actions}

(* Resume() until the coroutine yields, fails (an error, or a result that  *)
(* is no Action), or returns an Action.                                    *)
Resume(k) ==
  LET returned == [k EXCEPT !.coroutine = FALSE]
  IN  {[k EXCEPT !.coroutine = TRUE]}
        \cup OnLuaError(returned)
        \cup UNION {OnLuaFinished(returned, action) : action \in Actions}

ParseResults == {"SUCCESS", "MALFORMED", "BAD_ADDRESS", "TOO_MANY_RECIPIENTS"}

OnRequest(k, result) ==
  LET received == [Asserting(k, k.state = "INIT") EXCEPT !.state = "RECEIVED"]
      parsed == Asserting(received, received.state = "RECEIVED")
  IN  CASE result = "MALFORMED" -> Finish(received, Response("D", "malformed input"))
        [] result = "BAD_ADDRESS" -> Finish(received, Response("D", "bad address"))
        [] result = "TOO_MANY_RECIPIENTS" ->
             Finish(received, Response("D", "too many recipients"))
        [] result = "SUCCESS" ->
             Resume([parsed EXCEPT !.mail_ptr = TRUE, !.parsed = TRUE, !.state = "LUA"])

-----------------------------------------------------------------------------
(* The events.                                                             *)

Init == connection = [c \in Connections |-> NewObject("absent")]

Live(c) == connection[c].object = "live"

(* An event leaves one of the outcomes behind.                             *)
Leaves(c, outcomes) ==
  \E k \in outcomes : connection' = [connection EXCEPT ![c] = k]

(* The listener accepts a connection.                                      *)
Accept(c) ==
  /\ connection[c].object = "absent"
  /\ Leaves(c, {NewObject("live")})

(* NetstringServer has received the whole request, which it does once.     *)
Request(c) ==
  /\ Live(c)
  /\ connection[c].state = "INIT"
  /\ \E result \in ParseResults : Leaves(c, OnRequest(connection[c], result))

(* NetstringServer found the connection closed, or an error on it.         *)
Disconnect(c) == Live(c) /\ Leaves(c, {OnDisconnect(connection[c])})

SocketError(c) == Live(c) /\ Leaves(c, {OnError(connection[c])})

(* What the Lua thread was waiting for has happened.                       *)
LuaResume(c) ==
  /\ connection[c].coroutine
  /\ Leaves(c, Resume(connection[c]))

(* The relay calls its handler.                                            *)
RelayReport(c) ==
  /\ connection[c].relay_operation # None
  /\ \E response \in RelayReports(connection[c].relay_operation) :
       Leaves(c, OnRelayReport(connection[c], response))

RelayTimeout(c) ==
  /\ connection[c].relay_timeout
  /\ Leaves(c, OnRelayTimeout(connection[c]))

Next ==
  \E c \in Connections :
    \/ Accept(c)
    \/ Request(c)
    \/ Disconnect(c)
    \/ SocketError(c)
    \/ LuaResume(c)
    \/ RelayReport(c)
    \/ RelayTimeout(c)

Spec == Init /\ [][Next]_connection

(* The event loop runs expired timers.  Nothing else is certain to happen: *)
(* clients, scripts and relayed-to servers may stall for ever.             *)
Fairness == \A c \in Connections : WF_connection(RelayTimeout(c))

FairSpec == Spec /\ Fairness

-----------------------------------------------------------------------------
(* Correctness.                                                            *)

(* The fields have the values the class declares for them.                 *)
TypeOK == connection \in [Connections -> Objects]

(* Every assert() evaluated by OnRequest(), OnLuaFinished(), OnLuaError(), *)
(* Finish() and Log() holds, whatever calls led there: in particular Log() *)
(* is never reached twice, on any path from a failed send or relay start.  *)
AssertionsHold == \A c \in Connections : connection[c].asserts

(* Between two events, an object is in one of four situations.             *)
Quiet(k) == ~k.coroutine /\ k.relay_operation = None /\ ~k.relay_timeout

Unanswered(k) ==
  k.replies = << >> /\ k.logged = << >> /\ k.verdict = NoVerdict

Receiving(k) ==
  /\ k.object \in {"absent", "live"}
  /\ k.state = "INIT" /\ k.action = NoAction
  /\ ~k.mail_ptr /\ ~k.parsed /\ Quiet(k) /\ Unanswered(k)

RunningScript(k) ==
  /\ k.object = "live"
  /\ k.state = "LUA" /\ k.action = NoAction
  /\ k.mail_ptr /\ k.parsed /\ Unanswered(k)
  /\ k.coroutine /\ k.relay_operation = None /\ ~k.relay_timeout

Relaying(k) ==
  /\ k.object = "live"
  /\ k.state = "RELAYING" /\ k.action.type \in RelayTypes
  /\ k.mail_ptr /\ k.parsed /\ Unanswered(k)
  /\ ~k.coroutine /\ k.relay_operation = k.action.type

(* The datagram of a mail that ended with this object's replies.           *)
LoggedAsAnswered(k) ==
  \E message \in Messages :
    /\ k.logged = <<[message |-> message, relayed |-> k.action.type \in RelayTypes]>>
    /\ k.replies # << >> => message = k.replies[1].text

AnsweredRightly(k) ==
  k.replies # << >> =>
    /\ k.replies = <<k.replies[1]>>
    /\ k.replies[1].code = "K" =>
         k.action.type = "DISCARD" \/ k.verdict = k.replies[1]
    /\ k.verdict # NoVerdict => k.replies[1] = k.verdict

Ended(k) ==
  /\ k.object = "deleted"
  /\ Quiet(k) /\ ~k.mail_ptr /\ AnsweredRightly(k)
  /\ IF k.parsed /\ LogServer THEN LoggedAsAnswered(k) ELSE k.logged = << >>

(* What every handler relies on: the object is in one of the situations,   *)
(* and so far no assert() failed.                                          *)
Consistent ==
  \A c \in Connections :
    LET k == connection[c]
    IN  k.asserts /\ (Receiving(k) \/ RunningScript(k) \/ Relaying(k) \/ Ended(k))

(* What may still call the object back is something it expects: the Lua    *)
(* thread only while it waits for the script, a relay only while relaying, *)
(* with the mail the relay points into still there, and the timer only     *)
(* with a relay to cancel.  None of them outlives `delete this`.           *)
CallbacksExpected ==
  \A c \in Connections :
    LET k == connection[c]
    IN  /\ k.coroutine =>
             k.object = "live" /\ k.state = "LUA" /\ k.mail_ptr
        /\ k.relay_operation # None =>
             k.object = "live" /\ k.state = "RELAYING" /\ k.mail_ptr
        /\ k.relay_timeout => k.relay_operation # None

(* With a log server, each mail that was parsed has exactly one datagram   *)
(* when its connection is gone, however it ended; nothing else has one.    *)
(* It says what happened: the text the client was answered, or that of an  *)
(* answer that could not be sent, and traffic to a relay if and only if    *)
(* one was started.                                                        *)
LoggedOnce ==
  \A c \in Connections :
    LET k == connection[c]
    IN  /\ Len(k.logged) =
             IF k.object = "deleted" /\ k.parsed /\ LogServer THEN 1 ELSE 0
        /\ k.logged # << >> =>
             /\ k.logged[1].relayed <=> k.action.type \in RelayTypes
             /\ k.replies # << >> => k.logged[1].message = k.replies[1].text

(* The client is answered at most once, when its object goes away.  It is  *)
(* told "K" only if the script discarded its mail or the relay said so,    *)
(* and a verdict of the relay is never replaced by another answer.         *)
AnswerIsVerdict ==
  \A c \in Connections :
    LET k == connection[c]
    IN  k.replies # << >> =>
          /\ Len(k.replies) = 1
          /\ k.object = "deleted"
          /\ k.replies[1].code = "K" =>
               k.action.type = "DISCARD" \/ k.verdict = k.replies[1]
          /\ k.verdict # NoVerdict => k.replies[1] = k.verdict

(* A mail is handed to one relay, once: no step revises the decision of    *)
(* the script or starts a relay after the decision was carried out.        *)
HandedOverOnce ==
  [][\A c \in Connections :
       connection[c].action # NoAction =>
         /\ connection'[c].action = connection[c].action
         /\ connection'[c].relay_operation \in {connection[c].relay_operation, None}
    ]_connection

(* A submission whose timeout is at least one tick ends: OnRelayTimeout()  *)
(* cancels the relay that is still busy.                                   *)
TimeoutCancels ==
  \A c \in Connections :
    (connection[c].action.option >= TickLength) ~>
      (connection[c].object = "deleted")

-----------------------------------------------------------------------------
(* What the client and the log server see.                                 *)

Phase(k) ==
  CASE k.object = "absent" -> "idle"
    [] k.object = "live" -> "open"
    [] k.object = "deleted" /\ k.replies # << >> -> "answered"
    [] k.object = "deleted" /\ k.replies = << >> -> "abandoned"

LoggedMessages(k) == [i \in DOMAIN k.logged |-> k.logged[i].message]

Outside == INSTANCE Submission WITH
  phase <- [c \in Connections |-> Phase(connection[c])],
  parsed <- [c \in Connections |-> connection[c].parsed],
  replies <- [c \in Connections |-> connection[c].replies],
  messages <- [c \in Connections |-> LoggedMessages(connection[c])]

(* Every connection behaves as one submission: nothing is sent or logged   *)
(* until it ends, and all of it in the step that ends it.                  *)
ImplementsSubmission == Outside!Spec
=============================================================================
