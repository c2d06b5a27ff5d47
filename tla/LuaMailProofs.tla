---------------------------- MODULE LuaMailProofs ----------------------------
(***************************************************************************)
(* Theorems about LuaMail, for any number of clients, of addresses, of     *)
(* headers and edits, and whatever scripts do to mails that are relayed.   *)
(*                                                                         *)
(* The inductive invariant relates the three that know of a mail: the      *)
(* stage of its connection, the reference that the connection holds, and   *)
(* the object itself.                                                      *)
(*                                                                         *)
(* The second part is about ExecAction: exec() and exec_raw() accept       *)
(* exactly the well-formed calls, and Start() has room for what they       *)
(* accept, for any limits, in particular the program's own (32 and 32),    *)
(* and for any number of arguments and variables.                          *)
(***************************************************************************)
EXTENDS MCLuaMail, SequenceTheorems, TLAPS

(* A connection holds its mail from the first to the last; then the mail   *)
(* has let go of the connection and of its own memory.                     *)
Attached(c) ==
  \/ connection[c] = "idle" /\ mail[c].userdata = None
  \/ /\ connection[c] \in {"script", "relaying"}
     /\ lua_mail[c] /\ Usable(mail[c]) /\ ~IsStale(mail[c])
  \/ connection[c] = "gone" /\ IsStale(mail[c]) /\ mail[c].freed

IInv ==
  /\ TypeOK
  /\ \A c \in Connections : Attached(c)
  /\ ~dangling

-----------------------------------------------------------------------------
(* Records.                                                                *)

LEMMA MailFacts ==
  /\ NoMail \in Mails /\ NewLuaMail \in Mails
  /\ NoMail.userdata = None
  /\ Usable(NewLuaMail) /\ ~IsStale(NewLuaMail)
<1>1. 0 \in 0..MaxEdits /\ 0 \in 0..MaxHeaders
  BY BoundsAssumption
<1> QED BY <1>1 DEF NoMail, NewLuaMail, Mails, Usable, IsStale, None

LEMMA RequestFacts ==
  /\ NoRequest \in Requests
  /\ \A m \in Mails : AssembleRequest(m) \in Requests
<1>1. /\ MaxHeaders \in Nat /\ MaxBuffers \in Nat /\ MaxEdits \in Nat
      /\ MaxHeaders + 9 <= MaxBuffers
  BY BoundsAssumption DEF OtherBuffers
<1>2. NoRequest \in Requests
  BY <1>1 DEF NoRequest, Requests
<1>3. ASSUME NEW m \in Mails PROVE AssembleRequest(m) \in Requests
  <2>1. /\ m.sender \in {Original} \cup Senders
        /\ m.edits \in 0..MaxEdits /\ m.n_headers \in 0..MaxHeaders
    BY <1>3 DEF Mails
  <2>2. m.n_headers + 9 \in 0..MaxBuffers
    BY <1>1, <2>1
  <2> QED BY <2>1, <2>2 DEF AssembleRequest, OtherBuffers, Requests
<1> QED BY <1>2, <1>3

LEMMA CloseFacts ==
  ASSUME NEW m \in Mails
  PROVE  /\ Close(m) \in Mails
         /\ IsStale(Close(m)) /\ Close(m).freed
BY DEF Mails, Close, IsStale

LEMMA SenderFacts ==
  ASSUME NEW m \in Mails, m.edits < MaxEdits, NEW sender \in Senders
  PROVE  /\ SetSender(m, sender) \in Mails
         /\ SetSender(m, sender).userdata = m.userdata
         /\ SetSender(m, sender).auto_close = m.auto_close
         /\ ~SetSender(m, sender).freed
         /\ SetSender(m, sender).edits = m.edits + 1
<1>1. m.edits \in 0..MaxEdits /\ MaxEdits \in Nat
  BY BoundsAssumption DEF Mails
<1>2. m.edits + 1 \in 0..MaxEdits
  BY <1>1
<1> QED BY <1>2 DEF Mails, SetSender

LEMMA HeaderFacts ==
  ASSUME NEW m \in Mails, ~(m.n_headers >= MaxHeaders)
  PROVE  LET more == [m EXCEPT !.n_headers = @ + 1]
         IN  /\ more \in Mails
             /\ more.userdata = m.userdata /\ more.auto_close = m.auto_close
             /\ more.freed = m.freed /\ more.edits = m.edits
<1>1. m.n_headers \in 0..MaxHeaders /\ MaxHeaders \in Nat
  BY BoundsAssumption DEF Mails
<1>2. m.n_headers + 1 \in 0..MaxHeaders
  BY <1>1
<1> QED BY <1>2 DEF Mails

LEMMA SentFacts ==
  ASSUME NEW r \in Requests, NEW m \in Mails
  PROVE  SentSenders(r, m) \subseteq {Original, Overwritten} \cup Senders
BY DEF SentSenders, Requests, Mails

-----------------------------------------------------------------------------
(* The invariant is inductive.                                             *)

(* The deletion of a connection that runs its script or relays.            *)
LEMMA DeleteStep ==
  ASSUME IInv, NEW c \in Connections, connection[c] \in {"script", "relaying"},
         Delete(c), UNCHANGED <<kept, decided, sent>>
  PROVE  IInv'
<1>1. Usable(mail[c]) /\ mail[c] \in Mails
  BY DEF IInv, TypeOK, Attached
<1>2. mail' = [mail EXCEPT ![c] = Close(@)] /\ dangling' = dangling
  BY <1>1 DEF Delete, Usable, IInv, TypeOK
<1>3. TypeOK'
  BY <1>1, <1>2, CloseFacts, RequestFacts DEF IInv, TypeOK, Delete
<1>4. ASSUME NEW d \in Connections PROVE Attached(d)'
  <2>1. CASE d = c
    BY <1>1, <1>2, <2>1, CloseFacts DEF IInv, TypeOK, Delete, Attached, IsStale
  <2>2. CASE d # c
    BY <1>2, <2>2 DEF IInv, TypeOK, Delete, Attached, Usable, IsStale
  <2> QED BY <2>1, <2>2
<1> QED BY <1>2, <1>3, <1>4 DEF IInv

LEMMA RaiseStep ==
  ASSUME IInv, NEW a \in Connections, connection[a] = "script", Raise(a)
  PROVE  IInv'
<1>1. CASE Delete(a)
  BY <1>1, DeleteStep DEF Raise
<1>2. CASE UNCHANGED <<connection, mail, lua_mail, request, dangling>>
  BY <1>2 DEF Raise, IInv, TypeOK, Attached
<1> QED BY <1>1, <1>2 DEF Raise

(* An edit of a mail that is neither collected nor stale.                  *)
LEMMA EditStep ==
  ASSUME IInv, NEW c \in Connections, mail[c].userdata = "alive", ~IsStale(mail[c]),
         NEW m \in Mails, m.userdata = "alive", m.auto_close = mail[c].auto_close,
         m.freed => mail[c].freed,
         Edit(c, m)
  PROVE  IInv'
<1>1. TypeOK'
  BY DEF IInv, TypeOK, Edit
<1>2. connection[c] \in {"script", "relaying"}
  BY DEF IInv, Attached, None
<1>3. ASSUME NEW d \in Connections PROVE Attached(d)'
  BY <1>2 DEF IInv, TypeOK, Edit, Attached, Usable, IsStale
<1> QED BY <1>1, <1>3 DEF IInv, Edit

LEMMA OnRequestStep ==
  ASSUME IInv, NEW c \in Connections, OnRequest(c)
  PROVE  IInv'
BY MailFacts DEF IInv, TypeOK, OnRequest, Attached

LEMMA DoStep ==
  ASSUME IInv, NEW c \in Connections, Do(c)
  PROVE  IInv'
<1>1. Usable(mail[c]) /\ mail[c] \in Mails
  BY DEF IInv, TypeOK, Do, Attached
<1>2. mail[c].sender \in {Original} \cup Senders
  BY <1>1 DEF Mails
<1>3. TypeOK' /\ ~dangling'
  BY <1>1, <1>2, RequestFacts DEF IInv, TypeOK, Do
<1>4. ASSUME NEW d \in Connections PROVE Attached(d)'
  BY DEF IInv, TypeOK, Do, Attached
<1> QED BY <1>3, <1>4 DEF IInv

LEMMA RelaySendsStep ==
  ASSUME IInv, NEW c \in Connections, RelaySends(c)
  PROVE  IInv'
<1>1. Usable(mail[c]) /\ mail[c] \in Mails /\ request[c] \in Requests
  BY DEF IInv, TypeOK, RelaySends, Attached
<1>2. TypeOK' /\ ~dangling'
  BY <1>1, SentFacts DEF IInv, TypeOK, RelaySends
<1>3. ASSUME NEW d \in Connections PROVE Attached(d)'
  BY DEF IInv, RelaySends, Attached
<1> QED BY <1>2, <1>3 DEF IInv

LEMMA KeepStep ==
  ASSUME IInv, NEW c \in Connections, Keep(c) \/ Forget(c)
  PROVE  IInv'
BY DEF IInv, TypeOK, Keep, Forget, Attached

LEMMA CollectStep ==
  ASSUME IInv, NEW c \in Connections, Collect(c)
  PROVE  IInv'
<1>1. mail[c] \in Mails /\ connection[c] = "gone"
  BY DEF IInv, TypeOK, Collect, Attached, None
<1>2. [mail[c] EXCEPT !.userdata = "collected", !.freed = TRUE] \in Mails
  BY <1>1 DEF Mails
<1>3. TypeOK'
  BY <1>2 DEF IInv, TypeOK, Collect
<1>4. ASSUME NEW d \in Connections PROVE Attached(d)'
  BY <1>1 DEF IInv, TypeOK, Collect, Attached, Usable, IsStale, Mails
<1> QED BY <1>3, <1>4 DEF IInv, Collect

LEMMA IndexStep ==
  ASSUME IInv, NEW a \in Connections, NEW c \in Connections, Index(a, c)
  PROVE  IInv'
<1>1. connection[a] = "script"
  BY DEF Index, Reaches
<1>2. CASE Raise(a)
  BY <1>1, <1>2, RaiseStep
<1>3. CASE ~IsStale(mail[c]) /\ ~Raise(a)
  <2>1. connection[c] # "gone"
    BY <1>3 DEF IInv, Attached
  <2>2. UNCHANGED vars
    BY <1>3, <2>1 DEF Index, vars, IInv, TypeOK
  <2> QED BY <2>2 DEF vars, IInv, TypeOK, Attached
<1> QED BY <1>2, <1>3 DEF Index

LEMMA NewIndexStep ==
  ASSUME IInv, NEW a \in Connections, NEW c \in Connections, NewIndex(a, c)
  PROVE  IInv'
<1>1. connection[a] = "script" /\ mail[c].userdata = "alive" /\ mail[c] \in Mails
  BY DEF NewIndex, Reaches, IInv, TypeOK
<1>2. CASE Raise(a)
  BY <1>1, <1>2, RaiseStep
<1>3. CASE ~Raise(a)
  <2>1. ~IsStale(mail[c]) /\ mail[c].edits < MaxEdits
    BY <1>3 DEF NewIndex
  <2>2. PICK sender \in Senders : Edit(c, SetSender(mail[c], sender))
    BY <1>3 DEF NewIndex
  <2> QED BY <1>1, <2>1, <2>2, SenderFacts, EditStep
<1> QED BY <1>2, <1>3

LEMMA InsertHeaderStep ==
  ASSUME IInv, NEW a \in Connections, NEW c \in Connections, InsertHeader(a, c)
  PROVE  IInv'
<1>1. connection[a] = "script" /\ mail[c].userdata = "alive" /\ mail[c] \in Mails
  BY DEF InsertHeader, Reaches, IInv, TypeOK
<1>2. CASE Raise(a)
  BY <1>1, <1>2, RaiseStep
<1>3. CASE ~Raise(a)
  <2>1. /\ ~IsStale(mail[c]) /\ ~(mail[c].n_headers >= MaxHeaders)
        /\ Edit(c, [mail[c] EXCEPT !.n_headers = @ + 1])
    BY <1>3 DEF InsertHeader
  <2> QED BY <1>1, <2>1, HeaderFacts, EditStep
<1> QED BY <1>2, <1>3

LEMMA NextStep == IInv /\ [Next]_vars => IInv'
<1> SUFFICES ASSUME IInv, [Next]_vars PROVE IInv'
  OBVIOUS
<1>1. CASE UNCHANGED vars
  BY <1>1 DEF vars, IInv, TypeOK, Attached
<1>2. ASSUME NEW c \in Connections,
             \/ OnRequest(c) \/ Do(c) \/ RelaySends(c) \/ End(c)
             \/ Keep(c) \/ Forget(c) \/ Collect(c)
      PROVE  IInv'
  BY <1>2, OnRequestStep, DoStep, RelaySendsStep, DeleteStep, KeepStep, CollectStep
  DEF End
<1>3. ASSUME NEW a \in Connections, NEW c \in Connections,
             Index(a, c) \/ NewIndex(a, c) \/ InsertHeader(a, c)
      PROVE  IInv'
  BY <1>3, IndexStep, NewIndexStep, InsertHeaderStep
<1> QED BY <1>1, <1>2, <1>3 DEF Next

(* Every mail is held as long as it is needed, and detached after.         *)
LEMMA Invariance == Spec => []IInv
<1>1. Init => IInv
  <2> SUFFICES ASSUME Init PROVE IInv
    OBVIOUS
  <2>1. TypeOK
    BY MailFacts, RequestFacts DEF Init, TypeOK
  <2>2. ASSUME NEW c \in Connections PROVE Attached(c)
    BY MailFacts DEF Init, Attached
  <2> QED BY <2>1, <2>2 DEF IInv, Init
<1> QED BY <1>1, NextStep, PTL DEF Spec

(* The request of a relay always fits into MultiWriteBuffer: MAX_HEADERS   *)
(* leaves room for all that AssembleHeaders() and BasicRelay add.          *)
THEOREM TypeCorrect == Spec => []TypeOK
<1>1. IInv => TypeOK
  BY DEF IInv
<1> QED BY <1>1, Invariance, PTL

(* Neither a script nor the garbage collector nor the end of a connection  *)
(* makes the code use memory that is gone.                                 *)
THEOREM Memory == Spec => []NothingDangles
<1>1. IInv => NothingDangles
  BY DEF IInv, Attached, NothingDangles, MailHeld
<1> QED BY <1>1, Invariance, PTL

(* A mail that a script has kept refers to no deleted connection, and owns *)
(* no memory, whatever the script tries.                                   *)
THEOREM Detachment == Spec => []DetachedWhenGone
<1>1. IInv => DetachedWhenGone
  BY DEF IInv, Attached, DetachedWhenGone
<1> QED BY <1>1, Invariance, PTL
-----------------------------------------------------------------------------
(* What is sent is what the script has decided, unless scripts edit the    *)
(* sender of a mail that is being relayed once more.                       *)

(* The request refers to the sender of the client's request, which nothing *)
(* overwrites, or to a sender_buffer that was left alone.                  *)
Faithful(c) ==
  /\ connection[c] \in {"idle", "script"} => sent[c] = None
  /\ connection[c] = "relaying" =>
       /\ request[c].sender = decided[c]
       /\ request[c].edits = 0 \/ request[c].edits = mail[c].edits
  /\ sent[c] # None => sent[c] = decided[c]

AllFaithful == \A c \in Connections : Faithful(c)

(* Steps that leave everything alone that the relay's request depends on.  *)
LEMMA FaithfulFrame ==
  ASSUME IInv, NEW c \in Connections, Faithful(c),
         connection'[c] = connection[c] \/ connection'[c] = "gone",
         UNCHANGED <<sent, decided>>,
         connection'[c] = "relaying" =>
           /\ request'[c] = request[c]
           /\ request[c].edits = 0 \/ mail'[c].edits = mail[c].edits
  PROVE  Faithful(c)'
BY DEF Faithful

LEMMA DeleteFaithful ==
  ASSUME IInv, NEW c \in Connections, Delete(c), UNCHANGED <<decided, sent>>,
         AllFaithful
  PROVE  AllFaithful'
<1> SUFFICES ASSUME NEW d \in Connections PROVE Faithful(d)'
  BY DEF AllFaithful
<1> Faithful(d)
  BY DEF AllFaithful
<1>1. connection'[d] = connection[d] \/ connection'[d] = "gone"
  BY DEF Delete, IInv, TypeOK
<1>2. connection'[d] = "relaying" => request'[d] = request[d] /\ mail'[d] = mail[d]
  BY DEF Delete, IInv, TypeOK
<1> QED BY <1>1, <1>2, FaithfulFrame

LEMMA EditFaithful ==
  ASSUME IInv, NEW c \in Connections, NEW m, Edit(c, m),
         connection[c] = "relaying" => request[c].edits = 0 \/ m.edits = mail[c].edits,
         AllFaithful
  PROVE  AllFaithful'
<1> SUFFICES ASSUME NEW d \in Connections PROVE Faithful(d)'
  BY DEF AllFaithful
<1> Faithful(d)
  BY DEF AllFaithful
<1>1. UNCHANGED <<connection, request, decided, sent>>
  BY DEF Edit
<1>2. connection[d] = "relaying" => request[d].edits = 0 \/ mail'[d].edits = mail[d].edits
  BY DEF Edit, IInv, TypeOK
<1> QED BY <1>1, <1>2, FaithfulFrame

LEMMA FaithfulStep ==
  ASSUME "edited_sender" \notin LateEdits, IInv, AllFaithful, [Next]_vars
  PROVE  AllFaithful'
<1>1. CASE UNCHANGED vars
  BY <1>1 DEF vars, AllFaithful, Faithful
<1>2. ASSUME NEW c \in Connections, OnRequest(c) PROVE AllFaithful'
  BY <1>2 DEF OnRequest, AllFaithful, Faithful, IInv, TypeOK
<1>3. ASSUME NEW c \in Connections, Do(c) PROVE AllFaithful'
  BY <1>3 DEF Do, AssembleRequest, AllFaithful, Faithful, IInv, TypeOK
<1>4. ASSUME NEW c \in Connections, RelaySends(c) PROVE AllFaithful'
  <2>1. SentSenders(request[c], mail[c]) = {decided[c]}
    BY <1>4 DEF RelaySends, SentSenders, AllFaithful, Faithful
  <2>2. sent' = [sent EXCEPT ![c] = decided[c]]
    BY <1>4, <2>1 DEF RelaySends
  <2> QED BY <1>4, <2>2 DEF RelaySends, AllFaithful, Faithful, IInv, TypeOK
<1>5. ASSUME NEW c \in Connections, End(c) PROVE AllFaithful'
  BY <1>5, DeleteFaithful DEF End
<1>6. ASSUME NEW c \in Connections, Keep(c) \/ Forget(c) PROVE AllFaithful'
  BY <1>6 DEF Keep, Forget, AllFaithful, Faithful
<1>7. ASSUME NEW c \in Connections, Collect(c) PROVE AllFaithful'
  BY <1>7 DEF Collect, AllFaithful, Faithful, IInv, TypeOK, Mails
<1>8. ASSUME NEW a \in Connections, Raise(a) PROVE AllFaithful'
  BY <1>8, DeleteFaithful DEF Raise, AllFaithful, Faithful
<1>9. ASSUME NEW a \in Connections, NEW c \in Connections, Index(a, c)
      PROVE  AllFaithful'
  BY <1>8, <1>9 DEF Index, AllFaithful, Faithful
<1>10. ASSUME NEW a \in Connections, NEW c \in Connections, NewIndex(a, c), ~Raise(a)
       PROVE  AllFaithful'
  <2>1. PICK sender \in Senders : Edit(c, SetSender(mail[c], sender))
    BY <1>10 DEF NewIndex
  <2>2. connection[c] = "relaying" => request[c].edits = 0
    BY <1>10 DEF NewIndex, Permitted, SenderEdit
  <2> QED BY <2>1, <2>2, EditFaithful
<1>11. ASSUME NEW a \in Connections, NEW c \in Connections, InsertHeader(a, c), ~Raise(a)
       PROVE  AllFaithful'
  <2>1. Edit(c, [mail[c] EXCEPT !.n_headers = @ + 1])
    BY <1>11 DEF InsertHeader
  <2>2. [mail[c] EXCEPT !.n_headers = @ + 1].edits = mail[c].edits
    BY DEF IInv, TypeOK, Mails
  <2> QED BY <2>1, <2>2, EditFaithful
<1> QED BY <1>1, <1>2, <1>3, <1>4, <1>5, <1>6, <1>7, <1>8, <1>9, <1>10, <1>11 DEF Next

(* Connection.hxx says that the mail which is sent is the one the script   *)
(* has decided on: true if scripts do not assign the sender of a mail      *)
(* that is being relayed after they had assigned it before.                *)
THEOREM Decision ==
  ASSUME "edited_sender" \notin LateEdits
  PROVE  Spec => []SentAsDecided
<1>1. Init => AllFaithful
  BY DEF Init, AllFaithful, Faithful
<1>2. IInv /\ AllFaithful /\ [Next]_vars => AllFaithful'
  BY FaithfulStep
<1>3. AllFaithful => SentAsDecided
  BY DEF AllFaithful, Faithful, SentAsDecided
<1> QED BY <1>1, <1>2, <1>3, Invariance, PTL DEF Spec

-----------------------------------------------------------------------------
(* The calls of exec() and exec_raw().                                     *)

(* The values of scripts without the bounds that TLC needs.                *)
AnyArguments == Seq({String, Other})

AnyEnvironments == [kind : {"table"}, entries : Nat, strings : BOOLEAN]

AnyTables ==
  [kind : {"table"}, env : AnyEnvironments \cup {Absent, Other},
   timeout : {"in_range", "out_of_range", "no_number", "absent"}, unknown : BOOLEAN]

(* What WellFormed asks of the arguments, and of the table of options.     *)
Fitting(arguments) ==
  /\ Len(arguments) <= MaxExec
  /\ \A i \in DOMAIN arguments : arguments[i] = String

Understood(table) ==
  /\ ~table.unknown
  /\ table.timeout \in {"in_range", "absent"}
  /\ table.env # Absent =>
       table.env \in [kind : {"table"}, entries : 0..MaxEnv, strings : {TRUE}]

-----------------------------------------------------------------------------
(* The kinds of values tell them apart.                                    *)
LEMMA Kinds ==
  /\ Mail # String /\ Mail # Other /\ String # Other
  /\ Mail.kind # "table" /\ String.kind # "table" /\ Other.kind # "table"
  /\ Absent # Other
  /\ \A table \in AnyTables :
       table.kind = "table" /\ table # Mail /\ table # String /\ table # Other
  /\ \A env \in AnyEnvironments : env # Absent /\ env # Other
<1>1. /\ Mail.kind = "mail" /\ String.kind = "string"
      /\ Other.kind = "other" /\ Absent.kind = "absent"
  BY DEF Mail, String, Other, Absent
<1>2. /\ \A table \in AnyTables : table.kind = "table"
      /\ \A env \in AnyEnvironments : env.kind = "table"
  BY DEF AnyTables, AnyEnvironments
<1> QED
  BY <1>1, <1>2

(* A stack without and with a table of options, place by place.            *)
LEMMA PlainStack ==
  ASSUME NEW arguments \in AnyArguments
  PROVE  LET s == <<Mail>> \o arguments
         IN  /\ DOMAIN s = 1..(Len(arguments) + 1)
             /\ Len(s) = Len(arguments) + 1
             /\ s[1] = Mail
             /\ \A i \in 1..Len(arguments) : s[i + 1] = arguments[i]
<1> DEFINE Values == {Mail, String, Other}
<1>1. <<Mail>> \in Seq(Values) /\ arguments \in Seq(Values)
  BY DEF AnyArguments
<1> QED
  BY <1>1, ConcatProperties

LEMMA OptionsStack ==
  ASSUME NEW arguments \in AnyArguments, NEW table
  PROVE  LET s == <<Mail>> \o arguments \o <<table>>
         IN  /\ DOMAIN s = 1..(Len(arguments) + 2)
             /\ Len(s) = Len(arguments) + 2
             /\ s[1] = Mail
             /\ \A i \in 1..Len(arguments) : s[i + 1] = arguments[i]
             /\ s[Len(arguments) + 2] = table
<1> DEFINE Values == {Mail, String, Other, table}
           plain == <<Mail>> \o arguments
<1>1. <<Mail>> \in Seq(Values) /\ arguments \in Seq(Values) /\ <<table>> \in Seq(Values)
  BY DEF AnyArguments
<1>2. /\ plain \in Seq(Values)
      /\ Len(plain) = Len(arguments) + 1
      /\ plain[1] = Mail
      /\ \A i \in 1..Len(arguments) : plain[i + 1] = arguments[i]
  BY <1>1, ConcatProperties, PlainStack
<1> HIDE DEF plain, Values
<1>3. /\ plain \o <<table>> \in Seq(Values)
      /\ Len(plain \o <<table>>) = Len(plain) + 1
      /\ \A i \in 1..(Len(plain) + 1) :
           (plain \o <<table>>)[i] = IF i <= Len(plain) THEN plain[i] ELSE <<table>>[i - Len(plain)]
  BY <1>1, <1>2, ConcatProperties
<1>4. Len(arguments) \in Nat
  BY DEF AnyArguments
<1> QED
  BY <1>2, <1>3, <1>4 DEF plain

-----------------------------------------------------------------------------
(* Any arguments that fit are among those that WellFormed chooses from.    *)
LEMMA FittingArguments ==
  ASSUME NEW arguments \in AnyArguments, arguments # << >>, Fitting(arguments)
  PROVE  arguments \in Arguments \ {<< >>}
<1>1. /\ Len(arguments) \in 0..(MaxExec + 1)
      /\ arguments \in [1..Len(arguments) -> {String, Other}]
  BY LimitsAssumption DEF AnyArguments, Fitting
<1> QED
  BY <1>1 DEF Arguments

LEMMA ArgumentsAreAny ==
  /\ \A arguments \in Arguments : arguments \in AnyArguments
  /\ Tables \subseteq AnyTables
<1>1. ASSUME NEW arguments \in Arguments
      PROVE  arguments \in AnyArguments
  <2>1. PICK n \in 0..(MaxExec + 1) : arguments \in [1..n -> {String, Other}]
    BY DEF Arguments
  <2>2. n \in Nat
    BY <2>1, LimitsAssumption
  <2> QED
    BY <2>1, <2>2 DEF AnyArguments
<1>2. Environments \subseteq AnyEnvironments
  BY LimitsAssumption DEF Environments, AnyEnvironments
<1>3. Tables \subseteq AnyTables
  BY <1>2, Zenon DEF Tables, AnyTables
<1> QED
  BY <1>1, <1>3

LEMMA UnderstoodTable ==
  ASSUME NEW table \in AnyTables, Understood(table)
  PROVE  table \in Tables
<1>1. table.env \in AnyEnvironments \cup {Absent, Other}
  BY DEF AnyTables
<1>2. table.env \in Environments \cup {Absent, Other}
  <2>1. CASE table.env = Absent
    BY <2>1
  <2>2. CASE table.env # Absent
    <3>1. table.env \in [kind : {"table"}, entries : 0..MaxEnv, strings : {TRUE}]
      BY <2>2 DEF Understood
    <3>2. 0..MaxEnv \subseteq 0..(MaxEnv + 1) /\ {TRUE} \subseteq BOOLEAN
      BY LimitsAssumption
    <3> QED
      BY <3>1, <3>2, Zenon DEF Environments
  <2> QED
    BY <2>1, <2>2
<1> QED
  BY <1>2 DEF AnyTables, Tables

(* Which stacks are well formed, by what is on them.                       *)
LEMMA WellFormedPlain ==
  ASSUME NEW arguments \in AnyArguments
  PROVE  WellFormed(<<Mail>> \o arguments) <=> Len(arguments) > 0 /\ Fitting(arguments)
<1> DEFINE s == <<Mail>> \o arguments
<1>0. /\ Len(arguments) \in Nat
      /\ \A i \in 1..Len(arguments) : arguments[i] \in {String, Other}
      /\ DOMAIN arguments = 1..Len(arguments)
      /\ Len(arguments) > 0 <=> arguments # << >>
  BY DEF AnyArguments
<1>1. ASSUME Len(arguments) > 0, Fitting(arguments)
      PROVE  WellFormed(s)
  <2>1. arguments \in Arguments \ {<< >>}
    BY <1>0, <1>1, FittingArguments
  <2> QED
    BY <1>1, <2>1 DEF WellFormed, Fitting
<1>2. ASSUME WellFormed(s)
      PROVE  Len(arguments) > 0 /\ Fitting(arguments)
  <2>1. PICK chosen \in Arguments \ {<< >>} :
          /\ Len(chosen) <= MaxExec
          /\ \A i \in DOMAIN chosen : chosen[i] = String
          /\ \/ s = <<Mail>> \o chosen
             \/ \E table \in Tables : s = <<Mail>> \o chosen \o <<table>>
    BY <1>2 DEF WellFormed
  <2>2. /\ chosen \in AnyArguments
        /\ Len(chosen) \in Nat /\ Len(chosen) > 0 /\ DOMAIN chosen = 1..Len(chosen)
    BY <2>1, ArgumentsAreAny DEF AnyArguments
  <2>3. CASE s = <<Mail>> \o chosen
    <3>1. Len(chosen) = Len(arguments) /\ \A i \in 1..Len(arguments) : arguments[i] = chosen[i]
      <4>1. Len(s) = Len(arguments) + 1 /\ \A i \in 1..Len(arguments) : s[i + 1] = arguments[i]
        BY PlainStack
      <4>2. Len(s) = Len(chosen) + 1 /\ \A i \in 1..Len(chosen) : s[i + 1] = chosen[i]
        BY <2>2, <2>3, PlainStack
      <4> HIDE DEF s
      <4>3. Len(chosen) = Len(arguments)
        <5>1. Len(arguments) \in Nat /\ Len(chosen) \in Nat
          BY <1>0, <2>2
        <5> QED
          BY <4>1, <4>2, <5>1
      <4>4. ASSUME NEW i \in 1..Len(arguments)
            PROVE  arguments[i] = chosen[i]
        BY <4>1, <4>2, <4>3, Zenon
      <4> QED
        BY <4>3, <4>4
    <3> QED
      BY <3>1, <2>1, <2>2, <1>0 DEF Fitting
  <2>4. ASSUME NEW table \in Tables, s = <<Mail>> \o chosen \o <<table>>
        PROVE  FALSE
    <3>1. Len(s) = Len(arguments) + 1 /\ \A i \in 1..Len(arguments) : s[i + 1] = arguments[i]
      BY PlainStack
    <3>2. Len(s) = Len(chosen) + 2 /\ s[Len(chosen) + 2] = table
      BY <2>2, <2>4, OptionsStack
    <3> HIDE DEF s
    <3>3. arguments[Len(arguments)] = table /\ Len(arguments) \in 1..Len(arguments)
      <4>1. Len(arguments) \in Nat /\ Len(chosen) \in Nat /\ Len(chosen) > 0
        BY <1>0, <2>2
      <4>2. Len(chosen) + 2 = Len(arguments) + 1 /\ Len(arguments) \in 1..Len(arguments)
        BY <3>1, <3>2, <4>1
      <4>3. s[Len(arguments) + 1] = arguments[Len(arguments)]
        BY <3>1, <4>2, Zenon
      <4>4. s[Len(arguments) + 1] = s[Len(chosen) + 2]
        BY <4>2
      <4> QED
        BY <3>2, <4>2, <4>3, <4>4
    <3>4. table # String /\ table # Other
      BY <2>4, Kinds, ArgumentsAreAny
    <3> QED
      BY <3>3, <3>4, <1>0
  <2> QED
    BY <2>1, <2>3, <2>4
<1> QED
  BY <1>1, <1>2

LEMMA WellFormedOptions ==
  ASSUME NEW arguments \in AnyArguments, NEW table \in AnyTables
  PROVE  WellFormed(<<Mail>> \o arguments \o <<table>>) <=>
           Len(arguments) > 0 /\ Fitting(arguments) /\ Understood(table)
<1> DEFINE s == <<Mail>> \o arguments \o <<table>>
<1>0. /\ Len(arguments) \in Nat
      /\ \A i \in 1..Len(arguments) : arguments[i] \in {String, Other}
      /\ DOMAIN arguments = 1..Len(arguments)
      /\ Len(arguments) > 0 <=> arguments # << >>
  BY DEF AnyArguments
<1>3. /\ Len(s) = Len(arguments) + 2
      /\ \A i \in 1..Len(arguments) : s[i + 1] = arguments[i]
      /\ s[Len(arguments) + 2] = table
  BY OptionsStack
<1>1. ASSUME Len(arguments) > 0, Fitting(arguments), Understood(table)
      PROVE  WellFormed(s)
  <2>1. arguments \in Arguments \ {<< >>}
    BY <1>0, <1>1, FittingArguments
  <2>2. table \in Tables
    BY <1>1, UnderstoodTable
  <2> QED
    BY <1>1, <2>1, <2>2 DEF WellFormed, Fitting, Understood
<1>2. ASSUME WellFormed(s)
      PROVE  Len(arguments) > 0 /\ Fitting(arguments) /\ Understood(table)
  <2>1. PICK chosen \in Arguments \ {<< >>} :
          /\ Len(chosen) <= MaxExec
          /\ \A i \in DOMAIN chosen : chosen[i] = String
          /\ \/ s = <<Mail>> \o chosen
             \/ \E given \in Tables : s = <<Mail>> \o chosen \o <<given>> /\ Understood(given)
    BY <1>2 DEF WellFormed, Understood
  <2>2. /\ chosen \in AnyArguments
        /\ Len(chosen) \in Nat /\ Len(chosen) > 0 /\ DOMAIN chosen = 1..Len(chosen)
        /\ \A i \in 1..Len(chosen) : chosen[i] \in {String, Other}
    BY <2>1, ArgumentsAreAny DEF AnyArguments
  <2>3. CASE s = <<Mail>> \o chosen
    <3>1. Len(s) = Len(chosen) + 1 /\ \A i \in 1..Len(chosen) : s[i + 1] = chosen[i]
      BY <2>2, <2>3, PlainStack
    <3> HIDE DEF s
    <3>2. chosen[Len(chosen)] = table /\ Len(chosen) \in 1..Len(chosen)
      <4>1. Len(arguments) \in Nat /\ Len(chosen) \in Nat /\ Len(chosen) > 0
        BY <1>0, <2>2
      <4>2. Len(chosen) + 1 = Len(arguments) + 2 /\ Len(chosen) \in 1..Len(chosen)
        BY <3>1, <1>3, <4>1
      <4>3. s[Len(chosen) + 1] = chosen[Len(chosen)]
        BY <3>1, <4>2, Zenon
      <4>4. s[Len(arguments) + 2] = table
        BY <1>3
      <4>5. s[Len(chosen) + 1] = s[Len(arguments) + 2]
        BY <4>2
      <4> QED
        BY <4>2, <4>3, <4>4, <4>5
    <3> QED
      BY <3>2, <2>2, Kinds
  <2>4. ASSUME NEW given \in Tables, s = <<Mail>> \o chosen \o <<given>>, Understood(given)
        PROVE  Len(arguments) > 0 /\ Fitting(arguments) /\ Understood(table)
    <3>1. /\ Len(s) = Len(chosen) + 2
          /\ \A i \in 1..Len(chosen) : s[i + 1] = chosen[i]
          /\ s[Len(chosen) + 2] = given
      <4> DEFINE t == <<Mail>> \o chosen \o <<given>>
      <4>1. /\ Len(t) = Len(chosen) + 2
            /\ \A i \in 1..Len(chosen) : t[i + 1] = chosen[i]
            /\ t[Len(chosen) + 2] = given
        BY <2>2, OptionsStack
      <4>2. s = t
        BY <2>4
      <4> HIDE DEF s, t
      <4> QED
        BY <4>1, <4>2
    <3> HIDE DEF s
    <3>2. /\ Len(chosen) = Len(arguments)
          /\ \A i \in 1..Len(arguments) : arguments[i] = chosen[i]
          /\ given = table
      <4>1. Len(chosen) = Len(arguments)
        <5>1. Len(arguments) \in Nat /\ Len(chosen) \in Nat
          BY <1>0, <2>2
        <5> QED
          BY <3>1, <1>3, <5>1
      <4>2. ASSUME NEW i \in 1..Len(arguments)
            PROVE  arguments[i] = chosen[i]
        BY <3>1, <1>3, <4>1, Zenon
      <4> QED
        BY <3>1, <1>3, <4>1, <4>2
    <3> QED
      BY <3>2, <2>1, <2>2, <2>4, <1>0 DEF Fitting
  <2> QED
    BY <2>1, <2>3, <2>4
<1> QED
  BY <1>1, <1>2

-----------------------------------------------------------------------------
(* What the methods make of a stack.                                       *)

IsAction(a) ==
  a \in [result : {"action"}, exec : Seq(Nat), env : 0..MaxEnv, timeout : BOOLEAN]

LEMMA NewActionIsAction ==
  /\ IsAction(NewLuaAction)
  /\ \A a : IsAction(a) => a # Error
<1>1. IsAction(NewLuaAction)
  BY LimitsAssumption DEF IsAction, NewLuaAction
<1>2. ASSUME NEW a, IsAction(a)
      PROVE  a # Error
  <2>1. a.result = "action" /\ Error.result = "error"
    BY <1>2 DEF IsAction, Error
  <2> QED
    BY <2>1
<1> QED
  BY <1>1, <1>2

(* The loop over the arguments, which stand from the second place on.      *)
LEMMA Collected ==
  ASSUME NEW arguments \in AnyArguments, NEW s, NEW b, IsAction(b),
         \A i \in 1..Len(arguments) : s[i + 1] = arguments[i]
  PROVE  LET a == CollectArguments(b, s, Len(arguments) + 1)
         IN  /\ ~Fitting(arguments) => a = Error
             /\ Fitting(arguments) =>
                  /\ IsAction(a)
                  /\ a.exec = [n \in 1..Len(arguments) |-> n + 1]
<1> DEFINE top == Len(arguments) + 1
           Refused == \E i \in 2..top : ExecFull(i) \/ s[i] # String
<1>1. /\ Len(arguments) \in Nat
      /\ DOMAIN arguments = 1..Len(arguments)
  BY DEF AnyArguments
<1>2. ASSUME Fitting(arguments), Refused
      PROVE  FALSE
  <2>1. PICK i \in 2..top : ExecFull(i) \/ s[i] # String
    BY <1>2
  <2>2. i - 1 \in 1..Len(arguments) /\ (i - 1) + 1 = i /\ i - 2 < Len(arguments)
    BY <2>1, <1>1
  <2>3. s[i] = String
    <3>1. s[(i - 1) + 1] = arguments[i - 1]
      BY <2>2
    <3>2. arguments[i - 1] = String
      BY <1>1, <1>2, <2>2 DEF Fitting
    <3> QED
      BY <3>1, <3>2, <2>2
  <2>4. ~ExecFull(i)
    BY <1>1, <1>2, <2>1, <2>2, LimitsAssumption DEF ExecFull, Fitting
  <2> QED
    BY <2>1, <2>3, <2>4
<1>3. ASSUME ~Fitting(arguments)
      PROVE  Refused
  <2>1. CASE ~(Len(arguments) <= MaxExec)
    <3>1. top \in 2..top /\ ExecFull(top)
      BY <2>1, <1>1, LimitsAssumption DEF ExecFull
    <3> QED
      BY <3>1
  <2>2. CASE \E i \in DOMAIN arguments : arguments[i] # String
    <3>1. PICK i \in 1..Len(arguments) : arguments[i] # String
      BY <2>2, <1>1
    <3>2. i + 1 \in 2..top /\ s[i + 1] # String
      BY <3>1, <1>1
    <3> QED
      BY <3>2
  <2> QED
    BY <1>3, <2>1, <2>2 DEF Fitting
<1>4. CollectArguments(b, s, top) =
        IF Refused THEN Error ELSE [b EXCEPT !.exec = [n \in 1..(top - 1) |-> n + 1]]
  BY DEF CollectArguments
<1> HIDE DEF Refused
<1>5. ASSUME Fitting(arguments)
      PROVE  LET a == CollectArguments(b, s, top)
             IN  IsAction(a) /\ a.exec = [n \in 1..Len(arguments) |-> n + 1]
  <2>1. top - 1 = Len(arguments)
    BY <1>1
  <2>2. [n \in 1..Len(arguments) |-> n + 1] \in Seq(Nat)
    BY <1>1
  <2>3. CollectArguments(b, s, top) = [b EXCEPT !.exec = [n \in 1..Len(arguments) |-> n + 1]]
    BY <1>2, <1>4, <1>5, <2>1
  <2> QED
    BY <2>2, <2>3 DEF IsAction
<1> QED
  BY <1>3, <1>4, <1>5

LEMMA OptionsCollected ==
  ASSUME NEW table \in AnyTables
  PROVE  LET b == CollectExecOptions(NewLuaAction, table)
         IN  IF Understood(table) THEN IsAction(b) ELSE b = Error
<1> DEFINE timed == [NewLuaAction EXCEPT !.timeout = (table.timeout = "in_range")]
<1>1. /\ IsAction(timed)
      /\ \A entries \in 0..MaxEnv : IsAction([timed EXCEPT !.env = entries])
  BY NewActionIsAction DEF IsAction
<1> HIDE DEF timed
<1>2. CollectExecOptions(NewLuaAction, table) =
        IF ~( /\ ~table.unknown
              /\ table.timeout \in {"in_range", "absent"}
              /\ table.env # Other)
        THEN Error
        ELSE IF table.env = Absent THEN timed ELSE CollectExecEnv(timed, table.env)
  BY DEF CollectExecOptions, timed
<1>3. table.env \in AnyEnvironments \cup {Absent, Other}
  BY DEF AnyTables
<1>4. CASE table.env = Absent
  BY <1>1, <1>2, <1>4, Kinds DEF Understood
<1>5. CASE table.env = Other
  <2>1. Other \notin [kind : {"table"}, entries : 0..MaxEnv, strings : {TRUE}]
    BY Kinds
  <2> QED
    BY <1>2, <1>5, <2>1, Kinds DEF Understood
<1>6. CASE table.env \in AnyEnvironments
  <2> DEFINE env == table.env
  <2>1. env # Absent /\ env # Other
    BY <1>6, Kinds
  <2>2. env \in [kind : {"table"}, entries : 0..MaxEnv, strings : {TRUE}]
          <=> ~(EnvFull(env.entries) \/ ~env.strings)
    <3>1. /\ env = [kind |-> "table", entries |-> env.entries, strings |-> env.strings]
          /\ env.entries \in Nat /\ env.strings \in BOOLEAN
      BY <1>6 DEF AnyEnvironments
    <3>2. env \in [kind : {"table"}, entries : 0..MaxEnv, strings : {TRUE}]
            <=> env.entries \in 0..MaxEnv /\ env.strings = TRUE
      <4>1. \A e, t : [kind |-> "table", entries |-> e, strings |-> t]
                        \in [kind : {"table"}, entries : 0..MaxEnv, strings : {TRUE}]
                      <=> e \in 0..MaxEnv /\ t = TRUE
        BY Zenon
      <4> QED
        BY <3>1, <4>1, Zenon
    <3>3. env.entries \in 0..MaxEnv <=> ~EnvFull(env.entries)
      BY <3>1, LimitsAssumption DEF EnvFull
    <3> QED
      BY <3>1, <3>2, <3>3
  <2>3. env \in [kind : {"table"}, entries : 0..MaxEnv, strings : {TRUE}]
          => env.entries \in 0..MaxEnv
    OBVIOUS
  <2> QED
    BY <1>1, <1>2, <2>1, <2>2, <2>3 DEF Understood, CollectExecEnv
<1> QED
  BY <1>3, <1>4, <1>5, <1>6

-----------------------------------------------------------------------------
(* One call.                                                               *)

(* argv has the strings of the call in their order, and there is room for  *)
(* it and for env.                                                         *)
ArraysAsGiven(a, s) ==
  LET argc == Len(Argv(a)) - 1
  IN  /\ argc \in 1..MaxExec
      /\ EnvSize(a) \in 1..(MaxEnv + 1)
      /\ {Argv(a)[i] : i \in 1..argc} = {i \in DOMAIN s : s[i] = String}
      /\ \A i, j \in 1..argc : i < j => Argv(a)[i] < Argv(a)[j]

(* With the arguments collected in their order, the arrays are as they     *)
(* should be.                                                              *)
LEMMA Arrays ==
  ASSUME NEW arguments \in AnyArguments, Len(arguments) > 0, Fitting(arguments),
         NEW a, IsAction(a), a.exec = [n \in 1..Len(arguments) |-> n + 1],
         NEW s, {i \in DOMAIN s : s[i] = String} = 2..(Len(arguments) + 1)
  PROVE  ArraysAsGiven(a, s)
<1> DEFINE n == Len(arguments)
           argv == Argv(a)
<1>1. n \in Nat /\ n > 0 /\ n <= MaxExec
  BY DEF AnyArguments, Fitting
<1>2. a.exec \in Seq(Nat) /\ Len(a.exec) = n /\ \A i \in 1..n : a.exec[i] = i + 1
  BY <1>1 DEF IsAction
<1>3. Len(argv) = n + 1 /\ \A i \in 1..n : argv[i] = i + 1
  BY <1>1, <1>2, AppendProperties DEF Argv, Null
<1> HIDE DEF argv, n
<1>4. Len(argv) - 1 = n
  BY <1>1, <1>3
<1>5. {argv[i] : i \in 1..n} = 2..(n + 1)
  <2>1. ASSUME NEW k \in 2..(n + 1)
        PROVE  \E i \in 1..n : argv[i] = k
    <3>1. k - 1 \in 1..n /\ (k - 1) + 1 = k
      BY <1>1
    <3> QED
      BY <1>3, <3>1
  <2>2. ASSUME NEW i \in 1..n
        PROVE  argv[i] \in 2..(n + 1)
    BY <1>1, <1>3
  <2> QED
    BY <2>1, <2>2
<1>6. \A i, j \in 1..n : i < j => argv[i] < argv[j]
  BY <1>1, <1>3
<1>7. EnvSize(a) \in 1..(MaxEnv + 1)
  BY LimitsAssumption DEF IsAction, EnvSize
<1>8. {argv[i] : i \in 1..(Len(argv) - 1)} = {i \in DOMAIN s : s[i] = String}
  BY <1>4, <1>5 DEF n
<1>9. Len(argv) - 1 \in 1..MaxExec
  BY <1>1, <1>4, LimitsAssumption
<1> QED
  BY <1>4, <1>6, <1>7, <1>8, <1>9 DEF argv, ArraysAsGiven

(* A call without a table behind its arguments.                            *)
LEMMA PlainCall ==
  ASSUME NEW arguments \in AnyArguments
  PROVE  CallAsGiven(<<Mail>> \o arguments)
<1> DEFINE s == <<Mail>> \o arguments
           n == Len(arguments)
           a == NewExecAction(s)
<1>1. /\ DOMAIN s = 1..(n + 1) /\ Len(s) = n + 1 /\ s[1] = Mail
      /\ \A i \in 1..n : s[i + 1] = arguments[i]
  BY PlainStack
<1>2. /\ n \in Nat /\ DOMAIN arguments = 1..n
      /\ \A i \in 1..n : arguments[i] \in {String, Other}
  BY DEF AnyArguments
<1>3. WellFormed(s) <=> n > 0 /\ Fitting(arguments)
  BY WellFormedPlain
<1> HIDE DEF s
<1>4. CASE n = 0
  <2>1. a = Error
    BY <1>1, <1>4 DEF NewExecAction
  <2> QED
    BY <1>3, <1>4, <2>1 DEF CallAsGiven, s
<1>5. CASE n > 0
  <2>1. ~HasOptions(s)
    <3>1. s[n + 1] = arguments[n] /\ arguments[n] \in {String, Other}
      BY <1>1, <1>2, <1>5
    <3> QED
      BY <1>1, <3>1, Kinds DEF HasOptions
  <2>2. a = CollectArguments(NewLuaAction, s, n + 1)
    <3>1. ~(Len(s) < 2)
      BY <1>1, <1>2, <1>5
    <3> QED
      BY <1>1, <2>1, <3>1 DEF NewExecAction, CollectExec
  <2>3. /\ ~Fitting(arguments) => a = Error
        /\ Fitting(arguments) =>
             IsAction(a) /\ a.exec = [i \in 1..n |-> i + 1]
    BY <1>1, <2>2, Collected, NewActionIsAction
  <2> HIDE DEF a, n
  <2>4. CASE ~Fitting(arguments)
    BY <1>3, <2>3, <2>4 DEF CallAsGiven, s, a
  <2>5. CASE Fitting(arguments)
    <3>1. {i \in DOMAIN s : s[i] = String} = 2..(n + 1)
      <4>1. ASSUME NEW i \in 2..(n + 1)
            PROVE  i \in DOMAIN s /\ s[i] = String
        <5>1. i - 1 \in 1..n /\ (i - 1) + 1 = i /\ i \in 1..(n + 1)
          BY <1>2
        <5>2. s[(i - 1) + 1] = arguments[i - 1]
          BY <1>1, <5>1
        <5>3. arguments[i - 1] = String
          BY <1>2, <2>5, <5>1 DEF Fitting
        <5> QED
          BY <1>1, <5>1, <5>2, <5>3
      <4>2. ASSUME NEW i \in DOMAIN s, s[i] = String
            PROVE  i \in 2..(n + 1)
        <5>1. i # 1
          BY <1>1, <4>2, Kinds
        <5> QED
          BY <1>1, <1>2, <5>1
      <4> QED
        BY <4>1, <4>2
    <3>2. ArraysAsGiven(a, s)
      BY <1>5, <2>3, <2>5, <3>1, Arrays DEF n
    <3>3. a # Error
      BY <2>3, <2>5, NewActionIsAction
    <3> QED
      BY <1>3, <1>5, <2>5, <3>2, <3>3 DEF CallAsGiven, ArraysAsGiven, s, a
  <2> QED
    BY <2>4, <2>5
<1> QED
  BY <1>2, <1>4, <1>5

(* A call with a table behind its arguments.                               *)
LEMMA OptionsCall ==
  ASSUME NEW arguments \in AnyArguments, NEW table \in AnyTables
  PROVE  CallAsGiven(<<Mail>> \o arguments \o <<table>>)
<1> DEFINE s == <<Mail>> \o arguments \o <<table>>
           n == Len(arguments)
           a == NewExecAction(s)
           b == CollectExecOptions(NewLuaAction, table)
<1>1. /\ DOMAIN s = 1..(n + 2) /\ Len(s) = n + 2 /\ s[1] = Mail /\ s[n + 2] = table
      /\ \A i \in 1..n : s[i + 1] = arguments[i]
  BY OptionsStack
<1>2. /\ n \in Nat /\ DOMAIN arguments = 1..n
      /\ \A i \in 1..n : arguments[i] \in {String, Other}
  BY DEF AnyArguments
<1>3. WellFormed(s) <=> n > 0 /\ Fitting(arguments) /\ Understood(table)
  BY WellFormedOptions
<1>0. IF Understood(table) THEN IsAction(b) ELSE b = Error
  BY OptionsCollected
<1> HIDE DEF s, b
<1>4. CASE n = 0
  <2>1. a = CollectArguments(NewLuaAction, s, 2)
    BY <1>1, <1>4 DEF NewExecAction, CollectExec, HasOptions
  <2>2. s[2] # String
    BY <1>1, <1>4, Kinds
  <2>3. a = Error
    BY <2>1, <2>2 DEF CollectArguments
  <2> QED
    BY <1>3, <1>4, <2>3 DEF CallAsGiven, s
<1>5. CASE n > 0
  <2>1. HasOptions(s)
    BY <1>1, <1>2, <1>5, Kinds DEF HasOptions
  <2>2. a = IF b = Error THEN Error ELSE CollectArguments(b, s, n + 1)
    <3>1. ~(Len(s) < 2) /\ Len(s) - 1 = n + 1 /\ s[Len(s)] = table
      BY <1>1, <1>2
    <3> QED
      BY <2>1, <3>1 DEF NewExecAction, CollectExec, b
  <2>3. ASSUME Understood(table)
        PROVE  /\ ~Fitting(arguments) => a = Error
               /\ Fitting(arguments) =>
                    IsAction(a) /\ a.exec = [i \in 1..n |-> i + 1]
    <3>1. IsAction(b) /\ b # Error
      BY <1>0, <2>3, NewActionIsAction
    <3>2. a = CollectArguments(b, s, n + 1)
      BY <2>2, <3>1
    <3> QED
      BY <1>1, <3>1, <3>2, Collected
  <2> HIDE DEF a, n
  <2>4. CASE ~(Fitting(arguments) /\ Understood(table))
    <3>1. a = Error
      BY <1>0, <2>2, <2>3, <2>4
    <3> QED
      BY <1>3, <2>4, <3>1 DEF CallAsGiven, s, a
  <2>5. CASE Fitting(arguments) /\ Understood(table)
    <3>1. {i \in DOMAIN s : s[i] = String} = 2..(n + 1)
      <4>1. ASSUME NEW i \in 2..(n + 1)
            PROVE  i \in DOMAIN s /\ s[i] = String
        <5>1. i - 1 \in 1..n /\ (i - 1) + 1 = i /\ i \in 1..(n + 2)
          BY <1>2
        <5>2. s[(i - 1) + 1] = arguments[i - 1]
          BY <1>1, <5>1
        <5>3. arguments[i - 1] = String
          BY <1>2, <2>5, <5>1 DEF Fitting
        <5> QED
          BY <1>1, <5>1, <5>2, <5>3
      <4>2. ASSUME NEW i \in DOMAIN s, s[i] = String
            PROVE  i \in 2..(n + 1)
        <5>1. i # 1 /\ i # n + 2
          BY <1>1, <4>2, Kinds
        <5> QED
          BY <1>1, <1>2, <5>1
      <4> QED
        BY <4>1, <4>2
    <3>2. ArraysAsGiven(a, s)
      BY <1>5, <2>3, <2>5, <3>1, Arrays DEF n
    <3>3. a # Error
      BY <2>3, <2>5, NewActionIsAction
    <3> QED
      BY <1>3, <1>5, <2>5, <3>2, <3>3 DEF CallAsGiven, ArraysAsGiven, s, a
  <2> QED
    BY <2>4, <2>5
<1> QED
  BY <1>2, <1>4, <1>5

-----------------------------------------------------------------------------
(* exec() and exec_raw() accept the well-formed calls and no others, and   *)
(* Start() finds room for their strings, which it passes on in order:      *)
(* however many arguments and variables a script gives.                    *)
THEOREM AnyCall ==
  /\ \A arguments \in AnyArguments : CallAsGiven(<<Mail>> \o arguments)
  /\ \A arguments \in AnyArguments, table \in AnyTables :
       CallAsGiven(<<Mail>> \o arguments \o <<table>>)
BY PlainCall, OptionsCall

(* Every call that a script makes is such a call.                          *)
THEOREM Calls == Spec => []ExecAsGiven
<1>1. ASSUME NEW s \in Stacks
      PROVE  CallAsGiven(s)
  <2>1. PICK arguments \in Arguments, options \in {<< >>} \cup {<<table>> : table \in Tables} :
          s = <<Mail>> \o arguments \o options
    BY <1>1 DEF Stacks
  <2>2. arguments \in AnyArguments
    BY ArgumentsAreAny
  <2>3. CASE options = << >>
    <3> DEFINE Values == {Mail, String, Other}
    <3>1. <<Mail>> \in Seq(Values) /\ arguments \in Seq(Values)
      BY <2>2 DEF AnyArguments
    <3>2. <<Mail>> \o arguments \in Seq(Values)
      BY <3>1, ConcatProperties
    <3>3. s = <<Mail>> \o arguments
      BY <2>1, <2>3, <3>2, ConcatEmptySeq
    <3> QED
      BY <2>2, <3>3, PlainCall
  <2>4. ASSUME NEW table \in Tables, options = <<table>>
        PROVE  CallAsGiven(s)
    <3>1. table \in AnyTables
      BY ArgumentsAreAny
    <3> QED
      BY <2>1, <2>2, <2>4, <3>1, OptionsCall
  <2> QED
    BY <2>3, <2>4
<1>2. AllCallsAsGiven
  BY <1>1 DEF AllCallsAsGiven
<1>3. ExecAsGiven
  BY <1>2 DEF ExecAsGiven
<1> QED
  BY <1>3, PTL
=============================================================================
