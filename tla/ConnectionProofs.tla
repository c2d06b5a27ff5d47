-------------------------- MODULE ConnectionProofs --------------------------
(***************************************************************************)
(* Theorems about Connection, for any number of clients, any responses of  *)
(* relays, any timeouts, with and without a log server.                    *)
(*                                                                         *)
(* The inductive invariant is TypeOK /\ Consistent.  An event is a chain   *)
(* of nested calls, so there is one lemma per method, about the records it *)
(* leaves behind, and the step of an action only cites them.               *)
(***************************************************************************)
EXTENDS Connection, TLAPS

(* An object in the middle of an event, after the request was received and *)
(* before Log() or SendResponse().                                         *)
Handling(k) ==
  /\ k \in Objects
  /\ k.object = "live" /\ k.asserts
  /\ k.state \in {"RECEIVED", "LUA", "NOT_RELAYING", "RELAYING"}
  /\ k.mail_ptr = k.parsed
  /\ k.replies = << >> /\ k.logged = << >>
  /\ k.state = "RELAYING" <=> k.action.type \in RelayTypes

(* An object that may be deleted: what was answered and what was logged    *)
(* fit together, or the mail is still to be logged and not yet answered.   *)
Logged(k) ==
  /\ ~k.mail_ptr
  /\ k.parsed /\ LogServer => LoggedAsAnswered(k)
  /\ (k.parsed /\ LogServer) \/ k.logged = << >>

Unlogged(k) ==
  /\ k.mail_ptr /\ k.parsed
  /\ k.state # "END" /\ k.logged = << >>
  /\ k.state = "RELAYING" <=> k.action.type \in RelayTypes
  /\ k.replies = << >> \/ ~LogServer

Endable(k) ==
  /\ k \in Objects
  /\ k.asserts /\ AnsweredRightly(k)
  /\ Logged(k) \/ Unlogged(k)

(* A datagram, if there is one, says this.                                 *)
Says(r, message) == \A i \in DOMAIN r.logged : r.logged[i].message = message

(* The client was sent one of these responses, or none, and the log server *)
(* the text of one of them, or none of a response.                         *)
Sent(r, responses) ==
  /\ r.replies # << >> => \E response \in responses : r.replies = <<response>>
  /\ \/ Says(r, "canceled") \/ Says(r, "client error")
     \/ \E response \in responses : Says(r, response.text)

(* What deleting k leaves behind.                                          *)
EndOf(k, r) ==
  /\ r \in Objects
  /\ r.asserts /\ Ended(r)
  /\ r.parsed = k.parsed /\ r.action = k.action

-----------------------------------------------------------------------------
(* Without a datagram, nothing is said; else, the same is said by the same *)
(* datagrams.                                                              *)
LEMMA SaysFacts ==
  /\ \A r, message : r.logged = << >> => Says(r, message)
  /\ \A r, k, message : r.logged = k.logged /\ Says(k, message) => Says(r, message)
BY DEF Says

(* A response's text can be logged; responses are what NoVerdict is not.   *)
LEMMA ResponseFacts ==
  ASSUME NEW response \in Responses
  PROVE  /\ response.text \in Messages
         /\ response # NoVerdict
<1>1. response.text \in Messages
  BY DEF Responses, Messages
<1>2. response.code # NoVerdict.code
  BY DEF Responses, Codes, NoVerdict, Response, None
<1> QED BY <1>1, <1>2

(* Log() is called with a mail and before the end: its assertions hold,    *)
(* and with a log server there is one datagram.                            *)
LEMMA LogMailFacts ==
  ASSUME NEW k \in Objects, NEW message \in Messages,
         k.asserts, k.state # "END", k.logged = << >>
  PROVE  LogMail(k, message) =
           IF k.mail_ptr /\ LogServer
           THEN [k EXCEPT !.logged = <<[message |-> message,
                                        relayed |-> k.state = "RELAYING"]>>,
                          !.state = "END", !.mail_ptr = FALSE]
           ELSE k
<1>1. CASE ~k.mail_ptr
  BY <1>1 DEF LogMail
<1>2. CASE k.mail_ptr
  <2>1. Asserting(k, k.state # "END" /\ k.mail_ptr) = k
    BY <1>2 DEF Asserting, Objects
  <2>2. CASE ~LogServer
    BY <1>2, <2>1, <2>2 DEF LogMail, Log
  <2>3. CASE LogServer
    <3> DEFINE entry == [message |-> message, relayed |-> k.state = "RELAYING"]
    <3>1. (k.state \in {"RELAYING", "END"}) = (k.state = "RELAYING")
      OBVIOUS
    <3>2. Append(k.logged, entry) = <<entry>>
      OBVIOUS
    <3> QED BY <1>2, <2>1, <2>3, <3>1, <3>2 DEF LogMail, Log
  <2> QED BY <2>2, <2>3, ConstantsAssumption DEF ConstantsAssumption
<1> QED BY <1>1, <1>2 DEF Objects

(* After Log() the object may be deleted as before.                        *)
LEMMA LogMailEndable ==
  ASSUME NEW k, Endable(k), NEW message \in Messages
  PROVE  LET l == LogMail(k, message)
         IN  /\ Endable(l) /\ (Logged(l) \/ ~LogServer)
             /\ l.parsed = k.parsed /\ l.action = k.action
             /\ l.replies = k.replies /\ l.verdict = k.verdict
             /\ l.logged = k.logged \/ Says(l, message)
<1> DEFINE l == LogMail(k, message)
<1>1. CASE ~k.mail_ptr
  BY <1>1 DEF LogMail, Endable, Unlogged
<1>2. CASE k.mail_ptr
  <2>1. Unlogged(k)
    BY <1>2 DEF Endable, Logged
  <2>2. CASE ~LogServer
    <3>1. l = k
      BY <2>1, <2>2, LogMailFacts DEF Endable, Unlogged
    <3> QED BY <2>2, <3>1
  <2>3. CASE LogServer
    <3> DEFINE entry == [message |-> message, relayed |-> k.state = "RELAYING"]
    <3>1. l = [k EXCEPT !.logged = <<entry>>, !.state = "END", !.mail_ptr = FALSE]
      BY <1>2, <2>1, <2>3, LogMailFacts DEF Endable, Unlogged
    <3>2. k \in Objects
      BY DEF Endable
    <3>3. <<entry>> \in Seq([message : Messages, relayed : BOOLEAN])
      OBVIOUS
    <3>4. l \in Objects
      BY <3>1, <3>2, <3>3 DEF Objects, States
    <3>5. /\ l.logged = <<entry>> /\ ~l.mail_ptr /\ l.parsed = k.parsed
          /\ l.replies = k.replies /\ l.asserts = k.asserts
          /\ l.action = k.action /\ l.verdict = k.verdict
      BY <3>1, <3>2 DEF Objects
    <3>6. l.replies = << >>
      BY <2>1, <2>3, <3>5 DEF Unlogged
    <3>7. LoggedAsAnswered(l)
      <4>1. entry.relayed = (l.action.type \in RelayTypes)
        BY <2>1, <3>5 DEF Unlogged
      <4> QED BY <3>5, <3>6, <4>1 DEF LoggedAsAnswered
    <3> HIDE DEF l
    <3>8. Logged(l)
      <4>1. l.parsed
        BY <2>1, <3>5 DEF Unlogged
      <4> QED BY <2>3, <3>5, <3>7, <4>1 DEF Logged
    <3>9. AnsweredRightly(l)
      BY <3>6 DEF AnsweredRightly
    <3>10. Endable(l)
      BY <3>4, <3>5, <3>8, <3>9 DEF Endable
    <3>11. Says(l, message)
      BY <3>5 DEF Says
    <3> QED BY <3>5, <3>8, <3>10, <3>11 DEF l
  <2> QED BY <2>2, <2>3, ConstantsAssumption DEF ConstantsAssumption
<1> QED BY <1>1, <1>2 DEF Endable, Objects

(* Deleting the object ends the submission as it should end.               *)
LEMMA DeleteEnds ==
  ASSUME NEW k, Endable(k)
  PROVE  /\ EndOf(k, Delete(k)) /\ Delete(k).replies = k.replies
         /\ Delete(k).logged = k.logged \/ Says(Delete(k), "canceled")
<1> DEFINE l == LogMail(k, "canceled")
           d == Delete(k)
<1>1. "canceled" \in Messages
  BY DEF Messages
<1>2. /\ Endable(l) /\ (Logged(l) \/ ~LogServer)
      /\ l.parsed = k.parsed /\ l.action = k.action /\ l.replies = k.replies
      /\ l.logged = k.logged \/ Says(l, "canceled")
  BY <1>1, LogMailEndable
<1> HIDE DEF l
<1>3. d = [l EXCEPT !.object = "deleted", !.mail_ptr = FALSE, !.coroutine = FALSE,
                    !.relay_operation = None, !.relay_timeout = FALSE]
  BY DEF Delete, l
<1>4. l \in Objects
  BY <1>2 DEF Endable
<1>5. d \in Objects
  BY <1>3, <1>4 DEF Objects
<1>6. /\ d.object = "deleted" /\ ~d.mail_ptr /\ ~d.coroutine
      /\ d.relay_operation = None /\ ~d.relay_timeout
      /\ d.parsed = l.parsed /\ d.replies = l.replies /\ d.logged = l.logged
      /\ d.asserts = l.asserts /\ d.action = l.action /\ d.verdict = l.verdict
  BY <1>3, <1>4 DEF Objects
<1>7. l.logged = << >> \/ LogServer
  BY <1>2 DEF Endable, Logged, Unlogged
<1>8. IF d.parsed /\ LogServer THEN LoggedAsAnswered(d) ELSE d.logged = << >>
  BY <1>2, <1>6, <1>7 DEF Logged, LoggedAsAnswered
<1>9. AnsweredRightly(d)
  BY <1>2, <1>6 DEF Endable, AnsweredRightly
<1> HIDE DEF d
<1>10. Ended(d)
  BY <1>6, <1>8, <1>9 DEF Ended, Quiet
<1>11. d.logged = k.logged \/ Says(d, "canceled")
  BY <1>2, <1>6, SaysFacts
<1> QED BY <1>2, <1>5, <1>6, <1>10, <1>11 DEF EndOf, Endable, d

(* So does OnError(), having logged "client error".                        *)
LEMMA OnErrorEnds ==
  ASSUME NEW k, Endable(k)
  PROVE  /\ EndOf(k, OnError(k)) /\ OnError(k).replies = k.replies
         /\ \/ OnError(k).logged = k.logged
            \/ Says(OnError(k), "canceled") \/ Says(OnError(k), "client error")
<1> DEFINE l == LogMail(k, "client error")
<1>1. "client error" \in Messages
  BY DEF Messages
<1>2. /\ Endable(l) /\ l.parsed = k.parsed /\ l.action = k.action
      /\ l.replies = k.replies
      /\ l.logged = k.logged \/ Says(l, "client error")
  BY <1>1, LogMailEndable
<1> HIDE DEF l
<1>3. /\ EndOf(l, Delete(l)) /\ Delete(l).replies = l.replies
      /\ Delete(l).logged = l.logged \/ Says(Delete(l), "canceled")
  BY <1>2, DeleteEnds
<1>4. OnError(k) = Delete(l)
  BY DEF OnError, l
<1> QED BY <1>2, <1>3, <1>4, SaysFacts DEF EndOf

(* Finish() ends the submission, whether or not the response can be sent.  *)
LEMMA FinishEnds ==
  ASSUME NEW k, Handling(k), NEW response \in Responses,
         response.code = "K" => k.action.type = "DISCARD" \/ k.verdict = response,
         k.verdict # NoVerdict => k.verdict = response,
         NEW r \in Finish(k, response)
  PROVE  EndOf(k, r) /\ Sent(r, {response})
<1> DEFINE l == LogMail(k, response.text)
           a == [l EXCEPT !.replies = Append(@, response)]
<1>1. k \in Objects
  BY DEF Handling
<1>2. Asserting(k, k.state \notin {"INIT", "END"}) = k
  BY <1>1 DEF Asserting, Handling, Objects
<1>3. r = Delete(a) \/ r = OnError(l)
  BY <1>2 DEF Finish
<1>4. Endable(k)
  BY ConstantsAssumption
  DEF Handling, Endable, AnsweredRightly, Logged, Unlogged, ConstantsAssumption
<1>5. /\ Endable(l) /\ (Logged(l) \/ ~LogServer)
      /\ l.parsed = k.parsed /\ l.action = k.action
      /\ l.replies = << >> /\ l.verdict = k.verdict
      /\ l.logged = k.logged \/ Says(l, response.text)
  BY <1>4, ResponseFacts, LogMailEndable DEF Handling
<1>6. l = IF k.mail_ptr /\ LogServer
          THEN [k EXCEPT !.logged = <<[message |-> response.text,
                                       relayed |-> k.state = "RELAYING"]>>,
                         !.state = "END", !.mail_ptr = FALSE]
          ELSE k
  BY <1>1, ResponseFacts, LogMailFacts DEF Handling
<1>7. l.parsed /\ LogServer =>
        l.logged = <<[message |-> response.text,
                      relayed |-> l.action.type \in RelayTypes]>>
  <2> SUFFICES ASSUME l.parsed, LogServer
               PROVE  l.logged = <<[message |-> response.text,
                                    relayed |-> l.action.type \in RelayTypes]>>
    OBVIOUS
  <2>1. k.mail_ptr
    BY <1>5 DEF Handling
  <2>2. l.logged = <<[message |-> response.text, relayed |-> k.state = "RELAYING"]>>
    BY <1>1, <1>6, <2>1 DEF Objects
  <2>3. (k.state = "RELAYING") = (l.action.type \in RelayTypes)
    BY <1>5 DEF Handling
  <2> QED BY <2>2, <2>3
<1> HIDE DEF l
<1>8. l \in Objects
  BY <1>5 DEF Endable
<1>9. Append(l.replies, response) = <<response>> /\ <<response>> \in Seq(Responses)
  BY <1>5
<1>10. a \in Objects
  <2>1. a = [l EXCEPT !.replies = <<response>>]
    BY <1>9
  <2> HIDE DEF a
  <2> QED BY <1>8, <1>9, <2>1 DEF Objects
<1>11. /\ a.replies = <<response>> /\ a.parsed = l.parsed /\ a.mail_ptr = l.mail_ptr
       /\ a.logged = l.logged /\ a.asserts = l.asserts /\ a.state = l.state
       /\ a.action = l.action /\ a.verdict = l.verdict
  BY <1>8, <1>9 DEF Objects
<1> HIDE DEF a
<1>12. AnsweredRightly(a)
  BY <1>5, <1>11 DEF AnsweredRightly
<1>13. Logged(a) \/ Unlogged(a)
  <2>1. CASE ~LogServer
    BY <1>5, <1>11, <2>1 DEF Endable, Logged, Unlogged
  <2>2. CASE LogServer
    <3>1. Logged(l)
      BY <1>5, <2>2
    <3>2. CASE l.parsed
      <4>1. LoggedAsAnswered(a)
        BY <1>7, <1>11, <2>2, <3>2, ResponseFacts DEF LoggedAsAnswered
      <4> QED BY <1>11, <3>1, <4>1, <3>2, <2>2 DEF Logged
    <3>3. CASE ~l.parsed
      BY <1>11, <3>1, <3>3 DEF Logged
    <3> QED BY <3>2, <3>3
  <2> QED BY <2>1, <2>2, ConstantsAssumption DEF ConstantsAssumption
<1>14. Endable(a)
  BY <1>5, <1>10, <1>11, <1>12, <1>13 DEF Endable
<1>15. /\ EndOf(a, Delete(a)) /\ EndOf(l, OnError(l))
       /\ Delete(a).replies = <<response>> /\ OnError(l).replies = << >>
  BY <1>5, <1>11, <1>14, DeleteEnds, OnErrorEnds
<1>16. \/ Says(r, "canceled") \/ Says(r, "client error") \/ Says(r, response.text)
  <2>1. \/ r.logged = l.logged
        \/ Says(r, "canceled") \/ Says(r, "client error")
    BY <1>3, <1>5, <1>11, <1>14, DeleteEnds, OnErrorEnds
  <2>2. Says(l, response.text)
    BY <1>5, SaysFacts DEF Handling
  <2> QED BY <2>1, <2>2, SaysFacts
<1> QED BY <1>3, <1>5, <1>11, <1>15, <1>16 DEF EndOf, Sent

-----------------------------------------------------------------------------
(* The relays report responses only.                                       *)
LEMMA LocalResponses ==
  ASSUME NEW code \in Codes, NEW text \in Texts
  PROVE  Response(code, text) \in Responses
  BY DEF Responses, Response

(* So are all the reports RelayReport() and StartReports() list.           *)
LEMMA RelayReportsAreResponses ==
  ASSUME NEW type \in RelayTypes
  PROVE  RelayReports(type) \subseteq Responses /\ StartReports(type) \subseteq Responses
<1>1. [code : Codes, text : RelayTexts] \subseteq Responses
  BY DEF Responses, Texts
<1>2. \A text \in LocalTexts : \A code \in {"D", "Z"} : Response(code, text) \in Responses
  BY LocalResponses DEF Codes, Texts
<1>3. {"malformed relay response", "relay failed", "connect failed", "write error",
       "read error", "internal server error"} \subseteq LocalTexts
  BY DEF LocalTexts
<1>4. BasicRelayReports \subseteq Responses
  BY <1>1, <1>2, <1>3 DEF BasicRelayReports
<1>5. ExitReports \subseteq Responses
  BY <1>2, <1>3 DEF ExitReports
<1>6. RawExecReports \subseteq Responses
  BY <1>1, <1>2, <1>3, <1>5 DEF RawExecReports
<1> QED BY <1>2, <1>3, <1>4, <1>5, <1>6 DEF RelayTypes, RelayReports, StartReports

(* A report of the relay ends the submission with that report.             *)
LEMMA OnRelayReportEnds ==
  ASSUME NEW k, Handling(k), k.verdict = NoVerdict, NEW response \in Responses,
         NEW r \in OnRelayReport(k, response)
  PROVE  EndOf(k, r) /\ Sent(r, {response})
<1> DEFINE j == [k EXCEPT !.verdict = response]
<1>1. k \in Objects
  BY DEF Handling
<1>2. j \in Objects
  BY <1>1 DEF Objects
<1>3. /\ j.object = k.object /\ j.asserts = k.asserts /\ j.state = k.state
      /\ j.mail_ptr = k.mail_ptr /\ j.parsed = k.parsed /\ j.replies = k.replies
      /\ j.logged = k.logged /\ j.action = k.action /\ j.verdict = response
  BY <1>1 DEF Objects
<1>4. r \in Finish(j, response)
  BY DEF OnRelayReport
<1> HIDE DEF j
<1>5. Handling(j)
  BY <1>2, <1>3 DEF Handling
<1>6. EndOf(j, r) /\ Sent(r, {response})
  BY <1>3, <1>4, <1>5, FinishEnds
<1> QED BY <1>3, <1>6 DEF EndOf

(* What the Lua handler's result leads to, in the same event: a relay is   *)
(* at work, or the submission has ended.                                   *)
Decided(k, action, r) ==
  /\ r \in Objects /\ r.asserts
  /\ Relaying(r) \/ Ended(r)
  /\ r.parsed = k.parsed /\ r.action = action
  /\ action.type \in RelayTypes => Sent(r, StartReports(action.type))

(* The object when OnLuaFinished() or OnLuaError() is called.              *)
Returned(k) ==
  /\ k \in Objects
  /\ k.object = "live" /\ k.asserts /\ k.state = "LUA"
  /\ k.action = NoAction
  /\ k.mail_ptr /\ k.parsed /\ Quiet(k) /\ Unanswered(k)

(* NoAction is none of the actions a script returns.                       *)
LEMMA ActionFacts ==
  /\ \A action \in Actions :
       /\ action.type \in {"DISCARD", "REJECT"} \cup RelayTypes
       /\ action # NoAction
  /\ NoAction.type \notin RelayTypes
<1>1. \A action \in Actions : action.type \in {"DISCARD", "REJECT"} \cup RelayTypes
  BY DEF Actions, RelayTypes
<1>2. NoAction.type \notin {"DISCARD", "REJECT"} \cup RelayTypes
  BY DEF NoAction, None, RelayTypes
<1> QED BY <1>1, <1>2

(* DoConnect(), DoExec(), DoRawExec(): a relay is at work, or its Start()  *)
(* has failed and ended the submission.                                    *)
LEMMA DoRelayDecides ==
  ASSUME NEW k, Returned(k), NEW action \in Actions, action.type \in RelayTypes,
         NEW r \in DoRelay([k EXCEPT !.action = action], action)
  PROVE  Decided(k, action, r)
<1> DEFINE decided == [k EXCEPT !.action = action]
           started == [decided EXCEPT !.state = "RELAYING",
                                      !.relay_timeout = TimeoutTicks(action) > 0,
                                      !.relay_operation = action.type]
<1>1. k \in Objects
  BY DEF Returned
<1>2. (TimeoutTicks(action) > 0) \in BOOLEAN
  OBVIOUS
<1>3. started \in Objects
  BY <1>1, <1>2 DEF Objects, States
<1>4. /\ started.object = k.object /\ started.asserts = k.asserts
      /\ started.state = "RELAYING" /\ started.mail_ptr = k.mail_ptr
      /\ started.coroutine = k.coroutine /\ started.relay_operation = action.type
      /\ started.parsed = k.parsed /\ started.action = action
      /\ started.verdict = k.verdict /\ started.replies = k.replies
      /\ started.logged = k.logged
  BY <1>1 DEF Objects
<1>5. r = started \/ \E response \in StartReports(action.type) :
                       r \in OnRelayReport(started, response)
  BY DEF DoRelay
<1> HIDE DEF started
<1>6. CASE r = started
  <2>1. Relaying(r)
    BY <1>4, <1>6 DEF Relaying, Returned, Quiet, Unanswered
  <2>2. r.replies = << >> /\ Says(r, "canceled")
    BY <2>1 DEF Relaying, Unanswered, Says
  <2> QED BY <1>3, <1>4, <1>6, <2>1, <2>2 DEF Decided, Returned, Sent
<1>7. CASE \E response \in StartReports(action.type) :
             r \in OnRelayReport(started, response)
  <2>1. PICK response \in StartReports(action.type) : r \in OnRelayReport(started, response)
    BY <1>7
  <2>2. Handling(started) /\ started.verdict = NoVerdict
    BY <1>3, <1>4 DEF Handling, Returned, Unanswered
  <2>3. EndOf(started, r) /\ Sent(r, {response})
    BY <2>1, <2>2, OnRelayReportEnds, RelayReportsAreResponses
  <2> QED BY <1>4, <2>1, <2>3 DEF EndOf, Decided, Sent
<1> QED BY <1>5, <1>6, <1>7

(* Do(): the same for all actions.                                         *)
LEMMA DoDecides ==
  ASSUME NEW k, Returned(k), NEW action \in Actions, NEW r \in Do(k, action)
  PROVE  Decided(k, action, r)
<1>1. CASE action.type \in RelayTypes
  <2>1. action.type # "DISCARD" /\ action.type # "REJECT"
    BY <1>1 DEF RelayTypes
  <2>2. r \in DoRelay([k EXCEPT !.action = action], action)
    BY <1>1, <2>1 DEF Do
  <2> QED BY <1>1, <2>2, DoRelayDecides
<1>2. CASE action.type \in {"DISCARD", "REJECT"}
  <2> DEFINE decided == [k EXCEPT !.action = action]
             declined == [decided EXCEPT !.state = "NOT_RELAYING"]
  <2>1. k \in Objects
    BY DEF Returned
  <2>2. declined \in Objects
    BY <2>1 DEF Objects, States
  <2>3. /\ declined.object = k.object /\ declined.asserts = k.asserts
        /\ declined.state = "NOT_RELAYING" /\ declined.mail_ptr = k.mail_ptr
        /\ declined.parsed = k.parsed /\ declined.action = action
        /\ declined.verdict = k.verdict /\ declined.replies = k.replies
        /\ declined.logged = k.logged
    BY <2>1 DEF Objects
  <2>4. \/ action.type = "DISCARD" /\ r \in Finish(declined, Response("K", "discarded"))
        \/ action.type = "REJECT" /\ r \in Finish(declined, Response("D", "rejected"))
    <3>1. CASE action.type = "DISCARD"
      BY <3>1 DEF Do, RelayTypes
    <3>2. CASE action.type = "REJECT"
      BY <3>2 DEF Do, RelayTypes
    <3> QED BY <1>2, <3>1, <3>2
  <2> HIDE DEF declined
  <2>5. action.type \notin RelayTypes
    BY <1>2 DEF RelayTypes
  <2>6. Handling(declined)
    BY <2>2, <2>3, <2>5 DEF Handling, Returned, Unanswered
  <2>7. declined.verdict = NoVerdict
    BY <2>3 DEF Returned, Unanswered
  <2>8. /\ Response("K", "discarded") \in Responses
        /\ Response("D", "rejected") \in Responses
        /\ Response("D", "rejected").code # "K"
    BY DEF Responses, Response, Codes, Texts, LocalTexts
  <2>9. EndOf(declined, r)
    BY <2>3, <2>4, <2>6, <2>7, <2>8, FinishEnds
  <2> QED BY <2>3, <2>5, <2>9 DEF EndOf, Decided
<1> QED BY <1>1, <1>2, ActionFacts

(* A script that fails ends the submission.                                *)
LEMMA OnLuaErrorEnds ==
  ASSUME NEW k, Returned(k), NEW r \in OnLuaError(k)
  PROVE  EndOf(k, r)
<1>1. Asserting(k, k.state = "LUA" /\ k.mail_ptr) = k
  BY DEF Asserting, Returned, Objects
<1>2. Handling(k) /\ k.verdict = NoVerdict
  BY ActionFacts DEF Handling, Returned, Unanswered
<1>3. Response("Z", "script failed") \in Responses
      /\ Response("Z", "script failed").code # "K"
  BY DEF Responses, Response, Codes, Texts, LocalTexts
<1> QED BY <1>1, <1>2, <1>3, FinishEnds DEF OnLuaError

(* An object between two events.                                           *)
Steady(k) ==
  /\ k \in Objects /\ k.asserts
  /\ Receiving(k) \/ RunningScript(k) \/ Relaying(k) \/ Ended(k)

(* The script runs on, or its result has been carried out.                 *)
LEMMA ResumeSteady ==
  ASSUME NEW k,
         k \in Objects, k.object = "live", k.asserts, k.state = "LUA",
         k.action = NoAction, k.mail_ptr, k.parsed, Unanswered(k),
         k.relay_operation = None, ~k.relay_timeout,
         NEW r \in Resume(k)
  PROVE  /\ Steady(r) /\ r.object # "absent" /\ r.parsed
         /\ r.action.type \in RelayTypes => Sent(r, StartReports(r.action.type))
<1> DEFINE returned == [k EXCEPT !.coroutine = FALSE]
           yielded == [k EXCEPT !.coroutine = TRUE]
<1>1. returned \in Objects /\ yielded \in Objects
  BY DEF Objects
<1>2. /\ returned.object = k.object /\ returned.asserts = k.asserts
      /\ returned.state = k.state /\ returned.mail_ptr = k.mail_ptr
      /\ returned.relay_operation = k.relay_operation
      /\ returned.relay_timeout = k.relay_timeout
      /\ returned.parsed = k.parsed /\ returned.action = k.action
      /\ returned.verdict = k.verdict /\ returned.replies = k.replies
      /\ returned.logged = k.logged /\ ~returned.coroutine
  BY DEF Objects
<1>3. /\ yielded.object = k.object /\ yielded.asserts = k.asserts
      /\ yielded.state = k.state /\ yielded.mail_ptr = k.mail_ptr
      /\ yielded.relay_operation = k.relay_operation
      /\ yielded.relay_timeout = k.relay_timeout
      /\ yielded.parsed = k.parsed /\ yielded.action = k.action
      /\ yielded.verdict = k.verdict /\ yielded.replies = k.replies
      /\ yielded.logged = k.logged /\ yielded.coroutine
  BY DEF Objects
<1>4. \/ r = yielded
      \/ r \in OnLuaError(returned)
      \/ \E action \in Actions : r \in OnLuaFinished(returned, action)
  BY DEF Resume
<1> HIDE DEF returned, yielded
<1>5. Returned(returned)
  BY <1>1, <1>2 DEF Returned, Quiet, Unanswered
<1>6. CASE r = yielded
  <2>1. RunningScript(r)
    BY <1>3, <1>6 DEF RunningScript, Unanswered
  <2> QED BY <1>1, <1>3, <1>6, <2>1, ActionFacts DEF Steady
<1>7. CASE r \in OnLuaError(returned)
  <2>1. EndOf(returned, r)
    BY <1>5, <1>7, OnLuaErrorEnds
  <2> QED BY <1>2, <2>1, ActionFacts DEF EndOf, Steady, Ended
<1>8. CASE \E action \in Actions : r \in OnLuaFinished(returned, action)
  <2>1. PICK action \in Actions : r \in OnLuaFinished(returned, action)
    BY <1>8
  <2>2. Asserting(returned, returned.state = "LUA" /\ returned.mail_ptr) = returned
    BY <1>5 DEF Asserting, Returned, Objects
  <2>3. Decided(returned, action, r)
    BY <1>5, <2>1, <2>2, DoDecides DEF OnLuaFinished
  <2> QED BY <1>2, <2>3 DEF Decided, Steady, Ended, Relaying
<1> QED BY <1>4, <1>6, <1>7, <1>8

(* The request is refused, or the script is started.                       *)
LEMMA OnRequestSteady ==
  ASSUME NEW k, k \in Objects, k.asserts, k.object = "live", Receiving(k),
         NEW result \in ParseResults, NEW r \in OnRequest(k, result)
  PROVE  /\ Steady(r) /\ r.object # "absent"
         /\ r.action.type \in RelayTypes => Sent(r, StartReports(r.action.type))
<1> DEFINE received == [Asserting(k, k.state = "INIT") EXCEPT !.state = "RECEIVED"]
           started == [Asserting(received, received.state = "RECEIVED") EXCEPT
                         !.mail_ptr = TRUE, !.parsed = TRUE, !.state = "LUA"]
<1>1. Asserting(k, k.state = "INIT") = k
  BY DEF Asserting, Receiving, Objects
<1>2. received = [k EXCEPT !.state = "RECEIVED"]
  BY <1>1
<1>3. received \in Objects
  BY <1>2 DEF Objects, States
<1>4. /\ received.object = k.object /\ received.asserts = k.asserts
      /\ received.state = "RECEIVED" /\ received.mail_ptr = k.mail_ptr
      /\ received.coroutine = k.coroutine
      /\ received.relay_operation = k.relay_operation
      /\ received.relay_timeout = k.relay_timeout
      /\ received.parsed = k.parsed /\ received.action = k.action
      /\ received.verdict = k.verdict /\ received.replies = k.replies
      /\ received.logged = k.logged
  BY <1>2 DEF Objects
<1>5. \/ \E text \in {"malformed input", "bad address", "too many recipients"} :
           r \in Finish(received, Response("D", text))
      \/ r \in Resume(started)
  BY DEF OnRequest, ParseResults
<1> HIDE DEF received
<1>6. CASE \E text \in {"malformed input", "bad address", "too many recipients"} :
             r \in Finish(received, Response("D", text))
  <2>1. PICK text \in {"malformed input", "bad address", "too many recipients"} :
          r \in Finish(received, Response("D", text))
    BY <1>6
  <2>2. Response("D", text) \in Responses /\ Response("D", text).code # "K"
    BY DEF Responses, Response, Codes, Texts, LocalTexts
  <2>3. Handling(received) /\ received.verdict = NoVerdict
    BY <1>3, <1>4, ActionFacts DEF Handling, Receiving, Quiet, Unanswered, Objects
  <2>4. EndOf(received, r)
    BY <2>1, <2>2, <2>3, FinishEnds
  <2>5. r.action = NoAction
    BY <1>4, <2>4 DEF EndOf, Receiving
  <2> QED BY <2>4, <2>5, ActionFacts DEF EndOf, Steady, Ended
<1>7. CASE r \in Resume(started)
  <2>1. Asserting(received, received.state = "RECEIVED") = received
    BY <1>3, <1>4 DEF Asserting, Receiving, Objects
  <2>2. started = [received EXCEPT !.mail_ptr = TRUE, !.parsed = TRUE, !.state = "LUA"]
    BY <2>1
  <2>3. started \in Objects
    <3>1. [received EXCEPT !.mail_ptr = TRUE] \in Objects
      BY <1>3 DEF Objects
    <3>2. [received EXCEPT !.mail_ptr = TRUE, !.parsed = TRUE] \in Objects
      BY <3>1 DEF Objects
    <3>3. "LUA" \in States
      BY DEF States
    <3>4. [received EXCEPT !.mail_ptr = TRUE, !.parsed = TRUE, !.state = "LUA"] \in Objects
      BY <3>2, <3>3 DEF Objects
    <3> QED BY <2>2, <3>4
  <2>4. /\ started.object = received.object /\ started.asserts = received.asserts
        /\ started.state = "LUA" /\ started.mail_ptr /\ started.parsed
        /\ started.relay_operation = received.relay_operation
        /\ started.relay_timeout = received.relay_timeout
        /\ started.action = received.action /\ started.verdict = received.verdict
        /\ started.replies = received.replies /\ started.logged = received.logged
    BY <1>3, <2>2 DEF Objects
  <2> HIDE DEF started
  <2>5. /\ started.object = "live" /\ started.asserts /\ started.action = NoAction
        /\ Unanswered(started) /\ started.relay_operation = None
        /\ ~started.relay_timeout
    BY <1>4, <2>4 DEF Receiving, Quiet, Unanswered
  <2> QED BY <1>7, <2>3, <2>4, <2>5, ResumeSteady
<1> QED BY <1>5, <1>6, <1>7

-----------------------------------------------------------------------------
(* What one event makes of its object.                                     *)
Advances(k, r) ==
  /\ k \in Objects /\ Steady(k) /\ k.object # "deleted"
  /\ Steady(r) /\ r.object # "absent"
  /\ k.object = "absent" => r.object = "live" /\ ~r.parsed
  /\ k.parsed => r.parsed
  /\ k.action # NoAction => r.action = k.action /\ r.relay_operation = None

(* An event may end the submission,                                        *)
LEMMA EndAdvances ==
  ASSUME NEW k, Steady(k), k.object = "live", NEW r, EndOf(k, r)
  PROVE  Advances(k, r)
<1>1. Steady(r) /\ r.object = "deleted" /\ r.relay_operation = None
  BY DEF EndOf, Steady, Ended, Quiet
<1> QED BY <1>1 DEF Advances, EndOf, Steady

(* The events the daemon gets on a relay or a client.                      *)
LEMMA EndEvents ==
  ASSUME NEW k, Steady(k), k.object = "live"
  PROVE  /\ Advances(k, OnDisconnect(k)) /\ Sent(OnDisconnect(k), {})
         /\ Advances(k, OnError(k)) /\ Sent(OnError(k), {})
         /\ \A r \in OnRelayTimeout(k) :
              Relaying(k) => Advances(k, r) /\ Sent(r, {Response("Z", "timeout")})
         /\ \A response \in Responses : \A r \in OnRelayReport(k, response) :
              Relaying(k) => Advances(k, r) /\ Sent(r, {response})
<1>1. Endable(k)
  <2>1. CASE Receiving(k)
    BY <2>1 DEF Receiving, Unanswered, Endable, Logged, AnsweredRightly, Steady
  <2>2. CASE RunningScript(k)
    <3>1. k.action.type \notin RelayTypes
      BY <2>2, ActionFacts DEF RunningScript
    <3> QED BY <2>2, <3>1 DEF RunningScript, Unanswered, Endable, Unlogged, AnsweredRightly, Steady
  <2>3. CASE Relaying(k)
    BY <2>3 DEF Relaying, Unanswered, Endable, Unlogged, AnsweredRightly, Steady
  <2> QED BY <2>1, <2>2, <2>3 DEF Steady, Ended
<1>2. /\ Advances(k, OnDisconnect(k)) /\ Sent(OnDisconnect(k), {})
      /\ Advances(k, OnError(k)) /\ Sent(OnError(k), {})
  <2>1. k.replies = << >> /\ k.logged = << >>
    BY DEF Steady, Receiving, RunningScript, Relaying, Ended, Unanswered
  <2>2. /\ Advances(k, Delete(k)) /\ Delete(k).replies = << >>
        /\ Advances(k, OnError(k)) /\ OnError(k).replies = << >>
    BY <1>1, <2>1, DeleteEnds, OnErrorEnds, EndAdvances
  <2>3. /\ Says(Delete(k), "canceled")
        /\ Says(OnError(k), "canceled") \/ Says(OnError(k), "client error")
    BY <1>1, <2>1, DeleteEnds, OnErrorEnds, SaysFacts
  <2> QED BY <2>2, <2>3 DEF OnDisconnect, Sent
<1>3. ASSUME Relaying(k)
      PROVE  Handling(k) /\ k.verdict = NoVerdict
  BY <1>3 DEF Relaying, Unanswered, Handling, Steady
<1>4. Response("Z", "timeout") \in Responses /\ Response("Z", "timeout").code # "K"
  BY DEF Responses, Response, Codes, Texts, LocalTexts
<1>5. ASSUME Relaying(k), NEW r \in OnRelayTimeout(k)
      PROVE  Advances(k, r) /\ Sent(r, {Response("Z", "timeout")})
  BY <1>3, <1>4, <1>5, FinishEnds, EndAdvances DEF OnRelayTimeout
<1>6. ASSUME Relaying(k), NEW response \in Responses, NEW r \in OnRelayReport(k, response)
      PROVE  Advances(k, r) /\ Sent(r, {response})
  BY <1>3, <1>6, OnRelayReportEnds, EndAdvances
<1> QED BY <1>2, <1>5, <1>6

(* and a new connection begins one.                                        *)
LEMMA AcceptAdvances ==
  ASSUME NEW k, Steady(k), k.object = "absent"
  PROVE  Advances(k, NewObject("live"))
<1> DEFINE r == NewObject("live")
<1>1. r \in Objects
  BY DEF NewObject, Objects, States
<1>2. Receiving(r) /\ r.asserts /\ r.object = "live" /\ ~r.parsed
  BY DEF NewObject, Receiving, Quiet, Unanswered
<1>3. ~k.parsed /\ k.action = NoAction
  BY DEF Steady, Receiving, RunningScript, Relaying, Ended
<1> HIDE DEF r
<1>4. Advances(k, r)
  BY <1>1, <1>2, <1>3 DEF Advances, Steady
<1> QED BY <1>4 DEF r

(* Each step of the specification is one such event.                       *)
LEMMA NextAdvances ==
  ASSUME TypeOK, Consistent, Next
  PROVE  \E c \in Connections : \E r :
           /\ connection' = [connection EXCEPT ![c] = r]
           /\ Advances(connection[c], r)
<1>1. PICK c \in Connections :
        \/ Accept(c) \/ Request(c) \/ Disconnect(c) \/ SocketError(c)
        \/ LuaResume(c) \/ RelayReport(c) \/ RelayTimeout(c)
  BY DEF Next
<1> DEFINE k == connection[c]
<1>2. Steady(k)
  BY DEF TypeOK, Consistent, Steady
<1> SUFFICES \E r : connection' = [connection EXCEPT ![c] = r] /\ Advances(k, r)
  OBVIOUS
<1>3. CASE Accept(c)
  BY <1>2, <1>3, AcceptAdvances DEF Accept, Leaves
<1>4. CASE Request(c)
  <2>1. PICK result \in ParseResults : Leaves(c, OnRequest(k, result))
    BY <1>4 DEF Request
  <2>2. PICK r \in OnRequest(k, result) : connection' = [connection EXCEPT ![c] = r]
    BY <2>1 DEF Leaves
  <2>3. k.object = "live" /\ k.state = "INIT"
    BY <1>4 DEF Request, Live
  <2>4. Receiving(k)
    BY <1>2, <2>3 DEF Steady, RunningScript, Relaying, Ended
  <2>5. Steady(r) /\ r.object # "absent"
    BY <1>2, <2>3, <2>4, OnRequestSteady DEF Steady
  <2>6. ~k.parsed /\ k.action = NoAction
    BY <2>4 DEF Receiving
  <2> QED BY <1>2, <2>2, <2>3, <2>5, <2>6 DEF Advances, Steady
<1>5. CASE Disconnect(c)
  BY <1>2, <1>5, EndEvents DEF Disconnect, Live, Leaves
<1>6. CASE SocketError(c)
  BY <1>2, <1>6, EndEvents DEF SocketError, Live, Leaves
<1>7. CASE LuaResume(c)
  <2>1. PICK r \in Resume(k) : connection' = [connection EXCEPT ![c] = r]
    BY <1>7 DEF LuaResume, Leaves
  <2>2. RunningScript(k)
    BY <1>2, <1>7 DEF LuaResume, Steady, Receiving, Relaying, Ended, Quiet
  <2>3. Steady(r) /\ r.object # "absent" /\ r.parsed
    BY <1>2, <2>1, <2>2, ResumeSteady DEF RunningScript, Steady
  <2> QED BY <1>2, <2>1, <2>2, <2>3 DEF Advances, RunningScript, Steady
<1>8. CASE RelayReport(c)
  <2>1. Relaying(k)
    BY <1>2, <1>8 DEF RelayReport, Steady, Receiving, RunningScript, Ended, Quiet
  <2>2. PICK response \in RelayReports(k.relay_operation) :
          \E r \in OnRelayReport(k, response) : connection' = [connection EXCEPT ![c] = r]
    BY <1>8 DEF RelayReport, Leaves
  <2>3. response \in Responses
    BY <2>1, <2>2, RelayReportsAreResponses DEF Relaying
  <2> QED BY <1>2, <2>1, <2>2, <2>3, EndEvents DEF Relaying
<1>9. CASE RelayTimeout(c)
  <2>1. Relaying(k)
    BY <1>2, <1>9 DEF RelayTimeout, Steady, Receiving, RunningScript, Ended, Quiet
  <2>2. PICK r \in OnRelayTimeout(k) : connection' = [connection EXCEPT ![c] = r]
    BY <1>9 DEF RelayTimeout, Leaves
  <2> QED BY <1>2, <2>1, <2>2, EndEvents DEF Relaying
<1> QED BY <1>1, <1>3, <1>4, <1>5, <1>6, <1>7, <1>8, <1>9

-----------------------------------------------------------------------------
(* An event leaves every object in one of the four situations.             *)
LEMMA Inductive ==
  /\ Init => TypeOK /\ Consistent
  /\ TypeOK /\ Consistent /\ [Next]_connection => (TypeOK /\ Consistent)'
<1>1. Init => TypeOK /\ Consistent
  <2> SUFFICES ASSUME Init PROVE TypeOK /\ Consistent
    OBVIOUS
  <2>1. NewObject("absent") \in Objects
    BY DEF NewObject, Objects, States
  <2>2. Receiving(NewObject("absent")) /\ NewObject("absent").asserts
    BY DEF NewObject, Receiving, Quiet, Unanswered
  <2> QED BY <2>1, <2>2 DEF Init, TypeOK, Consistent
<1>2. TypeOK /\ Consistent /\ [Next]_connection => (TypeOK /\ Consistent)'
  <2> SUFFICES ASSUME TypeOK, Consistent, [Next]_connection
               PROVE  TypeOK' /\ Consistent'
    OBVIOUS
  <2>1. CASE Next
    <3>1. PICK c \in Connections : \E r : /\ connection' = [connection EXCEPT ![c] = r]
                                          /\ Advances(connection[c], r)
      BY <2>1, NextAdvances
    <3> PICK r : connection' = [connection EXCEPT ![c] = r] /\ Advances(connection[c], r)
      BY <3>1
    <3>2. Steady(r)
      BY DEF Advances
    <3>3. \A d \in Connections : connection'[d] = IF d = c THEN r ELSE connection[d]
      BY DEF TypeOK
    <3>4. \A d \in Connections : Steady(connection'[d])
      BY <3>2, <3>3 DEF TypeOK, Consistent, Steady
    <3>5. TypeOK'
      BY <3>2 DEF TypeOK, Steady
    <3>6. Consistent'
      BY <3>4 DEF Consistent, Steady
    <3> QED BY <3>5, <3>6
  <2>2. CASE UNCHANGED connection
    BY <2>2 DEF TypeOK, Consistent
  <2> QED BY <2>1, <2>2
<1> QED BY <1>1, <1>2

(* The inductive invariant: the record of every object has the type its    *)
(* class declares, and it is in one of the four situations.                *)
THEOREM Consistency == Spec => [](TypeOK /\ Consistent)
BY Inductive, PTL DEF Spec

-----------------------------------------------------------------------------
(* No assert() fails, in OnRequest(), OnLuaFinished(), OnLuaError(),       *)
(* Finish() or Log(), on any chain of calls.                               *)
THEOREM Assertions == Spec => []AssertionsHold
<1>1. Consistent => AssertionsHold
  BY DEF Consistent, AssertionsHold
<1> QED BY <1>1, Consistency, PTL

(* The coroutine, the relay and the timer never call back an object that   *)
(* is gone or does not expect them.                                        *)
THEOREM Callbacks == Spec => []CallbacksExpected
<1>1. ASSUME Consistent, NEW c \in Connections
      PROVE  LET k == connection[c]
             IN  /\ k.coroutine =>
                      k.object = "live" /\ k.state = "LUA" /\ k.mail_ptr
                 /\ k.relay_operation # None =>
                      k.object = "live" /\ k.state = "RELAYING" /\ k.mail_ptr
                 /\ k.relay_timeout => k.relay_operation # None
  <2>1. None \notin RelayTypes
    BY DEF None, RelayTypes
  <2> QED BY <1>1, <2>1
          DEF Consistent, Receiving, RunningScript, Relaying, Ended, Quiet
<1>2. Consistent => CallbacksExpected
  BY <1>1 DEF CallbacksExpected
<1> QED BY <1>2, Consistency, PTL

(* Log() reports each parsed mail once, when its submission ends, and with *)
(* the text that was answered.                                             *)
THEOREM Logging == Spec => []LoggedOnce
<1>1. ASSUME Consistent, NEW c \in Connections
      PROVE  LET k == connection[c]
             IN  /\ Len(k.logged) =
                      IF k.object = "deleted" /\ k.parsed /\ LogServer THEN 1 ELSE 0
                 /\ k.logged # << >> =>
                      /\ k.logged[1].relayed <=> k.action.type \in RelayTypes
                      /\ k.replies # << >> => k.logged[1].message = k.replies[1].text
  <2> DEFINE k == connection[c]
  <2>1. Receiving(k) \/ RunningScript(k) \/ Relaying(k) \/ Ended(k)
    BY <1>1 DEF Consistent
  <2> HIDE DEF k
  <2>2. CASE k.logged = << >> /\ ~(k.object = "deleted" /\ k.parsed /\ LogServer)
    BY <2>2 DEF k
  <2>3. CASE k.object = "deleted" /\ k.parsed /\ LogServer
    <3>1. LoggedAsAnswered(k)
      BY <2>1, <2>3 DEF Receiving, RunningScript, Relaying, Ended
    <3>2. PICK message \in Messages :
            /\ k.logged = <<[message |-> message, relayed |-> k.action.type \in RelayTypes]>>
            /\ k.replies # << >> => message = k.replies[1].text
      BY <3>1 DEF LoggedAsAnswered
    <3> DEFINE entry == [message |-> message, relayed |-> k.action.type \in RelayTypes]
    <3>3. entry.message = message /\ entry.relayed = (k.action.type \in RelayTypes)
      OBVIOUS
    <3> HIDE DEF entry
    <3>4. Len(<<entry>>) = 1 /\ <<entry>>[1] = entry
      OBVIOUS
    <3>5. k.logged = <<entry>>
      BY <3>2 DEF entry
    <3>6. Len(k.logged) = 1 /\ k.logged[1] = entry
      BY <3>4, <3>5
    <3> QED BY <2>3, <3>2, <3>3, <3>6 DEF k
  <2> QED BY <2>1, <2>2, <2>3
          DEF Receiving, RunningScript, Relaying, Ended, Unanswered
<1>2. Consistent => LoggedOnce
  BY <1>1 DEF LoggedOnce
<1> QED BY <1>2, Consistency, PTL

(* Finish() answers once, when the object goes away, and with the verdict. *)
THEOREM Answers == Spec => []AnswerIsVerdict
<1>1. ASSUME Consistent, NEW c \in Connections, connection[c].replies # << >>
      PROVE  LET k == connection[c]
             IN  /\ Len(k.replies) = 1
                 /\ k.object = "deleted"
                 /\ k.replies[1].code = "K" =>
                      k.action.type = "DISCARD" \/ k.verdict = k.replies[1]
                 /\ k.verdict # NoVerdict => k.replies[1] = k.verdict
  <2>1. Ended(connection[c])
    BY <1>1 DEF Consistent, Receiving, RunningScript, Relaying, Unanswered
  <2> QED BY <1>1, <2>1 DEF Ended, AnsweredRightly
<1>2. Consistent => AnswerIsVerdict
  BY <1>1 DEF AnswerIsVerdict
<1> QED BY <1>2, Consistency, PTL

-----------------------------------------------------------------------------
(* No step revises what the script decided, and none starts a second relay.*)
THEOREM HandOver == Spec => HandedOverOnce
<1>1. ASSUME TypeOK, Consistent, Next, NEW c \in Connections,
             connection[c].action # NoAction
      PROVE  /\ connection'[c].action = connection[c].action
             /\ connection'[c].relay_operation \in {connection[c].relay_operation, None}
  <2>1. PICK d \in Connections : \E r : /\ connection' = [connection EXCEPT ![d] = r]
                                        /\ Advances(connection[d], r)
    BY <1>1, NextAdvances
  <2>2. PICK r : connection' = [connection EXCEPT ![d] = r] /\ Advances(connection[d], r)
    BY <2>1
  <2>3. connection'[c] = IF c = d THEN r ELSE connection[c]
    BY <1>1, <2>2 DEF TypeOK
  <2> QED BY <1>1, <2>2, <2>3 DEF Advances
<1>2. TypeOK /\ Consistent /\ [Next]_connection =>
        [\A c \in Connections :
           connection[c].action # NoAction =>
             /\ connection'[c].action = connection[c].action
             /\ connection'[c].relay_operation \in {connection[c].relay_operation, None}
        ]_connection
  BY <1>1
<1> QED BY <1>2, Consistency, PTL DEF Spec, HandedOverOnce

(* What the outside sees of an object that is gone, of one that is not,    *)
(* and the phase of both.                                                  *)
LEMMA EndedOutside ==
  ASSUME NEW k, k \in Objects, Ended(k)
  PROVE  /\ k.replies # << >> => /\ k.replies[1] \in Responses
                                 /\ k.replies = <<k.replies[1]>>
         /\ \E message \in Messages :
              /\ LoggedMessages(k) = IF k.parsed /\ LogServer THEN <<message>> ELSE << >>
              /\ k.replies # << >> => message = k.replies[1].text
<1>1. k.replies \in Seq(Responses)
  BY DEF Objects
<1>2. k.replies # << >> => /\ k.replies[1] \in Responses
                           /\ k.replies = <<k.replies[1]>>
  BY <1>1 DEF Ended, AnsweredRightly
<1>3. CASE k.parsed /\ LogServer
  <2>1. PICK message \in Messages :
          /\ k.logged = <<[message |-> message, relayed |-> k.action.type \in RelayTypes]>>
          /\ k.replies # << >> => message = k.replies[1].text
    BY <1>3 DEF Ended, LoggedAsAnswered
  <2>2. LoggedMessages(k) = <<message>>
    BY <2>1 DEF LoggedMessages
  <2> QED BY <1>2, <1>3, <2>1, <2>2
<1>4. CASE ~(k.parsed /\ LogServer)
  <2>1. LoggedMessages(k) = << >>
    BY <1>4 DEF Ended, LoggedMessages
  <2>2. \E message \in Messages : k.replies # << >> => message = k.replies[1].text
    <3>1. CASE k.replies = << >>
      BY <3>1 DEF Messages
    <3>2. CASE k.replies # << >>
      BY <1>2, <3>2, ResponseFacts
    <3> QED BY <3>1, <3>2
  <2> QED BY <1>2, <1>4, <2>1, <2>2
<1> QED BY <1>3, <1>4

(* Nothing was sent or logged before the end.                              *)
LEMMA OpenOutside ==
  ASSUME NEW k, Receiving(k) \/ RunningScript(k) \/ Relaying(k)
  PROVE  k.replies = << >> /\ LoggedMessages(k) = << >>
<1>1. k.replies = << >> /\ k.logged = << >>
  BY DEF Receiving, RunningScript, Relaying, Unanswered
<1> QED BY <1>1 DEF LoggedMessages

(* Phase() case by case.                                                   *)
LEMMA Phases ==
  ASSUME NEW k
  PROVE  /\ k.object = "absent" => Phase(k) = "idle"
         /\ k.object = "live" => Phase(k) = "open"
         /\ k.object = "deleted" =>
              Phase(k) = IF k.replies = << >> THEN "abandoned" ELSE "answered"
<1>1. k.object = "absent" => Phase(k) = "idle"
  BY DEF Phase
<1>2. k.object = "live" => Phase(k) = "open"
  BY DEF Phase
<1>3. CASE k.object = "deleted" /\ k.replies = << >>
  BY <1>3 DEF Phase
<1>4. CASE k.object = "deleted" /\ k.replies # << >>
  BY <1>4 DEF Phase
<1> QED BY <1>1, <1>2, <1>3, <1>4

(* Each connection implements one submission: every event is invisible     *)
(* outside, opens the submission, receives its mail, or ends it.           *)
THEOREM Refinement == Spec => ImplementsSubmission
<1> DEFINE phase == [c \in Connections |-> Phase(connection[c])]
           valid == [c \in Connections |-> connection[c].parsed]
           answers == [c \in Connections |-> connection[c].replies]
           texts == [c \in Connections |-> LoggedMessages(connection[c])]
<1>1. Init => Outside!Init
  <2> SUFFICES ASSUME Init PROVE Outside!Init
    OBVIOUS
  <2> DEFINE absent == NewObject("absent")
  <2>1. /\ absent.object = "absent" /\ absent.parsed = FALSE
        /\ Receiving(absent)
    BY DEF NewObject, Receiving, Quiet, Unanswered
  <2> HIDE DEF absent
  <2>2. /\ Phase(absent) = "idle" /\ absent.parsed = FALSE
        /\ absent.replies = << >> /\ LoggedMessages(absent) = << >>
    BY <2>1, Phases, OpenOutside
  <2>3. \A c \in Connections : connection[c] = absent
    BY DEF Init, absent
  <2> QED BY <2>2, <2>3 DEF Outside!Init
<1>2. TypeOK /\ Consistent /\ [Next]_connection => [Outside!Next]_(Outside!vars)
  <2> SUFFICES ASSUME TypeOK, Consistent, [Next]_connection
               PROVE  [Outside!Next]_(Outside!vars)
    OBVIOUS
  <2>1. CASE UNCHANGED connection
    BY <2>1 DEF Outside!vars
  <2>2. CASE Next
    <3>1. PICK c \in Connections : \E r : /\ connection' = [connection EXCEPT ![c] = r]
                                          /\ Advances(connection[c], r)
      BY <2>2, NextAdvances
    <3>2. PICK r : connection' = [connection EXCEPT ![c] = r] /\ Advances(connection[c], r)
      BY <3>1
    <3> DEFINE k == connection[c]
    <3>3. \A d \in Connections : connection'[d] = IF d = c THEN r ELSE connection[d]
      BY <3>2 DEF TypeOK
    <3>4. /\ phase' = [phase EXCEPT ![c] = Phase(r)]
          /\ valid' = [valid EXCEPT ![c] = r.parsed]
          /\ answers' = [answers EXCEPT ![c] = r.replies]
          /\ texts' = [texts EXCEPT ![c] = LoggedMessages(r)]
      BY <3>3
    <3>5. /\ phase[c] = Phase(k) /\ valid[c] = k.parsed
          /\ answers[c] = k.replies /\ texts[c] = LoggedMessages(k)
      OBVIOUS
    <3>6. /\ k.object # "deleted" /\ r.object # "absent"
          /\ k \in Objects /\ r \in Objects
          /\ Receiving(k) \/ RunningScript(k) \/ Relaying(k)
          /\ Receiving(r) \/ RunningScript(r) \/ Relaying(r) \/ Ended(r)
          /\ k.object = "absent" => r.object = "live" /\ ~r.parsed /\ ~k.parsed
          /\ k.parsed => r.parsed
          /\ k.parsed \in BOOLEAN /\ r.parsed \in BOOLEAN
      BY <3>2 DEF Advances, Steady, Ended, RunningScript, Relaying, Receiving, Objects
    <3>7. k.replies = << >> /\ LoggedMessages(k) = << >>
      BY <3>6, OpenOutside
    <3> HIDE DEF phase, valid, answers, texts, k
    <3>8. CASE r.object = "live"
      <4>1. r.replies = << >> /\ LoggedMessages(r) = << >> /\ Phase(r) = "open"
        BY <3>6, <3>8, OpenOutside, Phases DEF Ended
      <4>2. answers' = answers /\ texts' = texts
        BY <3>4, <3>5, <3>7, <4>1 DEF answers, texts
      <4>3. CASE k.object = "absent"
        <5>1. valid' = valid
          BY <3>4, <3>5, <3>6, <4>3 DEF valid
        <5>2. phase[c] = "idle"
          BY <3>5, <4>3, Phases
        <5>3. Outside!Open(c)
          BY <3>4, <4>1, <4>2, <5>1, <5>2
          DEF Outside!Open, phase, valid, answers, texts
        <5> QED BY <5>3 DEF Outside!Next
      <4>4. CASE k.object = "live"
        <5>1. phase[c] = "open"
          BY <3>5, <4>4, Phases
        <5>2. phase' = phase
          BY <3>4, <4>1, <5>1 DEF phase
        <5>3. CASE k.parsed = r.parsed
          <6>1. valid' = valid
            BY <3>4, <3>5, <5>3 DEF valid
          <6> QED BY <4>2, <5>2, <6>1 DEF Outside!vars, phase, valid, answers, texts
        <5>4. CASE ~k.parsed /\ r.parsed = TRUE
          <6>1. Outside!Receive(c)
            BY <3>4, <3>5, <4>2, <5>1, <5>2, <5>4
            DEF Outside!Receive, phase, valid, answers, texts
          <6> QED BY <6>1 DEF Outside!Next
        <5> QED BY <3>6, <5>3, <5>4
      <4> QED BY <3>6, <4>3, <4>4 DEF Objects
    <3>9. CASE r.object = "deleted"
      <4>1. Ended(r)
        BY <3>6, <3>9 DEF Receiving, RunningScript, Relaying
      <4>2. k.object = "live" /\ phase[c] = "open"
        BY <3>5, <3>6, <3>9, Phases DEF Objects
      <4>3. PICK message \in Messages :
              /\ LoggedMessages(r) = IF r.parsed /\ LogServer THEN <<message>> ELSE << >>
              /\ r.replies # << >> => message = r.replies[1].text
        BY <3>6, <4>1, EndedOutside
      <4>4. CASE r.replies = << >>
        <5>1. Phase(r) = "abandoned" /\ answers' = answers
          BY <3>4, <3>5, <3>7, <3>9, <4>4, Phases DEF answers
        <5>2. Outside!Abandon(c, r.parsed, message)
          BY <3>4, <3>5, <3>6, <4>2, <4>3, <5>1
          DEF Outside!Abandon, Outside!End, phase, valid, answers, texts
        <5> QED BY <3>6, <4>3, <5>2 DEF Outside!Next
      <4>5. CASE r.replies # << >>
        <5> DEFINE response == r.replies[1]
        <5>1. /\ Phase(r) = "answered" /\ response \in Responses
              /\ r.replies = <<response>> /\ message = response.text
          BY <3>6, <3>9, <4>1, <4>3, <4>5, Phases, EndedOutside
        <5> HIDE DEF response
        <5>2. Outside!Answer(c, response, r.parsed)
          BY <3>4, <3>5, <3>6, <4>2, <4>3, <5>1
          DEF Outside!Answer, Outside!End, phase, valid, answers, texts
        <5> QED BY <3>6, <5>1, <5>2 DEF Outside!Next
      <4> QED BY <4>4, <4>5
    <3> QED BY <3>6, <3>8, <3>9 DEF Objects
  <2> QED BY <2>1, <2>2
<1> QED BY <1>1, <1>2, Consistency, PTL DEF Spec, ImplementsSubmission, Outside!Spec
=============================================================================
