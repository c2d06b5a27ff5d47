------------------------------ MODULE LuaMail -------------------------------
(***************************************************************************)
(* IncomingMail: the mail as Lua code sees it, a userdata object.          *)
(*                                                                         *)
(* All connections share one Lua state, so a script may keep the mail of   *)
(* one client in a variable and use it while it handles another client:    *)
(* when the mail is being relayed, and when its connection is gone.  The   *)
(* object refers to its connection (peer_auth, auto_close), the connection *)
(* to the object (mail_ptr, lua_mail), and the relay to the object's       *)
(* memory (the spans of its request); each of the three, and the garbage   *)
(* collector, goes its own way.                                            *)
(*                                                                         *)
(* What becomes of answers and log datagrams is the subject of module      *)
(* Connection; here a connection runs its script, relays, and is deleted.  *)
(* Scripts act when they handle a client.  What Lua timers and the reload  *)
(* function do to a kept mail, the handler of one more client could do.    *)
(***************************************************************************)
EXTENDS Integers

CONSTANTS
  Connections,  \* the client connections that send a valid mail
  Senders,      \* addresses that scripts assign to `sender`
  MaxHeaders,   \* IncomingMail::MAX_HEADERS
  MaxBuffers,   \* how many buffers MultiWriteBuffer has room for
  MaxEdits,     \* bound: how often scripts assign the sender of a mail
  LateEdits     \* what scripts do to mails that are being relayed: assigning
                \* "sender" for the first time, or an "edited_sender"

(* Besides the headers: "Received", the message, two netstring headers and *)
(* their commas, the sender, its netstring header, and the tail.           *)
OtherBuffers == 9

ASSUME BoundsAssumption ==
  /\ {MaxHeaders, MaxBuffers, MaxEdits} \subseteq Nat
  /\ MaxHeaders + OtherBuffers <= MaxBuffers
  /\ LateEdits \subseteq {"insert_header", "sender", "edited_sender"}

VARIABLES
  connection,  \* connection[c]: "idle", "script", "relaying", or "gone"
  mail,        \* mail[c]: the IncomingMail that c has created
  lua_mail,    \* lua_mail[c]: does c hold a reference to it?
  kept,        \* the connections whose mails scripts keep in variables
  request,     \* request[c]: the buffers of the relay, which point into mail[c]
  decided,     \* decided[c]: the sender when the script returned its action
  sent,        \* sent[c]: the sender in what the relay has sent
  dangling     \* was memory used that is no longer the object it was?

vars == <<connection, mail, lua_mail, kept, request, decided, sent, dangling>>

-----------------------------------------------------------------------------
(* The mail, the request made from it, and what is sent.                   *)

None == "none"
Original == "original"        \* the sender in the client's request
Overwritten == "overwritten"  \* anything else, of the length of the sender

(* sender_buffer holds the sender once it was edited: it is the memory     *)
(* that an edit overwrites or frees.                                       *)
Mails ==
  [userdata : {None, "alive", "collected"},
   auto_close : BOOLEAN,         \* auto_close != nullptr
   freed : BOOLEAN,              \* Free() was called
   sender : {Original} \cup Senders,
   edits : 0..MaxEdits,          \* SetSender() calls
   n_headers : 0..MaxHeaders]

NoMail ==
  [userdata |-> None, auto_close |-> FALSE, freed |-> FALSE, sender |-> Original,
   edits |-> 0, n_headers |-> 0]

NewLuaMail == [NoMail EXCEPT !.userdata = "alive", !.auto_close = TRUE]

IsStale(m) == ~m.auto_close

Usable(m) == m.userdata = "alive" /\ ~m.freed

Requests ==
  [sender : {Original} \cup Senders, edits : 0..MaxEdits, buffers : 0..MaxBuffers]

NoRequest == [sender |-> Original, edits |-> 0, buffers |-> 0]

(* AssembleHeaders() and the constructor of BasicRelay.                    *)
AssembleRequest(m) ==
  [sender |-> m.sender, edits |-> m.edits, buffers |-> m.n_headers + OtherBuffers]

(* Mutant: the sender is in sender_buffer from the start.                  *)
SentSendersCopied(r, m) ==
  IF r.edits = m.edits THEN {r.sender} ELSE {m.sender, Overwritten}

(* The sender that a write of request r finds in memory.  An edit of a     *)
(* sender that was edited before has replaced the contents of              *)
(* sender_buffer, which has the old length only by chance.                 *)
SentSenders(r, m) ==
  IF r.edits = 0 \/ r.edits = m.edits THEN {r.sender} ELSE {m.sender, Overwritten}

Init ==
  /\ connection = [c \in Connections |-> "idle"]
  /\ mail = [c \in Connections |-> NoMail]
  /\ lua_mail = [c \in Connections |-> FALSE]
  /\ kept = {}
  /\ request = [c \in Connections |-> NoRequest]
  /\ decided = [c \in Connections |-> None]
  /\ sent = [c \in Connections |-> None]
  /\ dangling = FALSE

-----------------------------------------------------------------------------
(* The connection.                                                         *)

(* Mutant: the connection relies on the script to hold the mail.           *)
OnRequestWithoutRef(c) ==
  /\ connection[c] = "idle"
  /\ connection' = [connection EXCEPT ![c] = "script"]
  /\ mail' = [mail EXCEPT ![c] = NewLuaMail]
  /\ UNCHANGED <<lua_mail, kept, request, decided, sent, dangling>>

(* OnRequest() of a mail that Parse() accepts.                             *)
OnRequest(c) ==
  /\ connection[c] = "idle"
  /\ connection' = [connection EXCEPT ![c] = "script"]
  /\ mail' = [mail EXCEPT ![c] = NewLuaMail]
  /\ lua_mail' = [lua_mail EXCEPT ![c] = TRUE]
  /\ UNCHANGED <<kept, request, decided, sent, dangling>>

(* The script returns an action that relays.  The action is of any mail,   *)
(* the mail is this connection's.                                          *)
Do(c) ==
  /\ connection[c] = "script"
  /\ connection' = [connection EXCEPT ![c] = "relaying"]
  /\ request' = [request EXCEPT ![c] = AssembleRequest(mail[c])]
  /\ decided' = [decided EXCEPT ![c] = mail[c].sender]
  /\ dangling' = (dangling \/ ~Usable(mail[c]))
  /\ UNCHANGED <<mail, lua_mail, kept, sent>>

(* The relay (connected by now) writes its request.                        *)
RelaySends(c) ==
  /\ connection[c] = "relaying" /\ sent[c] = None
  /\ \E sender \in SentSenders(request[c], mail[c]) :
       sent' = [sent EXCEPT ![c] = sender]
  /\ dangling' = (dangling \/ ~Usable(mail[c]))
  /\ UNCHANGED <<connection, mail, lua_mail, kept, request, decided>>

(* The script's object refers neither to the connection nor to memory.     *)
Close(m) == [m EXCEPT !.auto_close = FALSE, !.freed = TRUE]

(* Log(), then `delete this`: the relay, the reference, and auto_close,    *)
(* which closes what was added to it and still exists.                     *)
Delete(c) ==
  /\ dangling' = (dangling \/ ~Usable(mail[c]))
  /\ connection' = [connection EXCEPT ![c] = "gone"]
  /\ request' = [request EXCEPT ![c] = NoRequest]
  /\ lua_mail' = [lua_mail EXCEPT ![c] = FALSE]
  /\ mail' = [mail EXCEPT ![c] = IF @.userdata = "alive" THEN Close(@) ELSE @]

(* An answer, an error, a timeout, a disconnect.                           *)
End(c) ==
  /\ connection[c] \in {"script", "relaying"}
  /\ Delete(c)
  /\ UNCHANGED <<kept, decided, sent>>

-----------------------------------------------------------------------------
(* The script that handles client a, with its own mail or one it has kept. *)

Reaches(a, c) ==
  /\ connection[a] = "script"
  /\ c = a \/ c \in kept
  /\ mail[c].userdata = "alive"

Keep(c) ==
  /\ connection[c] = "script" /\ c \notin kept /\ mail[c].userdata = "alive"
  /\ kept' = kept \cup {c}
  /\ UNCHANGED <<connection, mail, lua_mail, request, decided, sent, dangling>>

Forget(c) ==
  /\ c \in kept
  /\ kept' = kept \ {c}
  /\ UNCHANGED <<connection, mail, lua_mail, request, decided, sent, dangling>>

(* luaL_error(): the script catches it, or fails.                          *)
Raise(a) ==
  /\ \/ Delete(a)
     \/ UNCHANGED <<connection, mail, lua_mail, request, dangling>>
  /\ UNCHANGED <<kept, decided, sent>>

(* The attributes pid, uid, gid and cgroup are read from the connection.   *)
Index(a, c) ==
  /\ Reaches(a, c)
  /\ \/ /\ IsStale(mail[c])
        /\ Raise(a)
     \/ /\ ~IsStale(mail[c])
        /\ dangling' = (dangling \/ connection[c] = "gone")
        /\ UNCHANGED <<connection, mail, lua_mail, kept, request, decided, sent>>

Permitted(edit, c) == connection[c] = "relaying" => edit \in LateEdits

SenderEdit(c) == IF request[c].edits = 0 THEN "sender" ELSE "edited_sender"

Edit(c, m) ==
  /\ mail' = [mail EXCEPT ![c] = m]
  /\ UNCHANGED <<connection, lua_mail, kept, request, decided, sent, dangling>>

SetSender(m, sender) ==
  [m EXCEPT !.sender = sender, !.edits = @ + 1, !.freed = FALSE]

(* Mutant: no CheckStale() here.                                           *)
NewIndexUnchecked(a, c) ==
  /\ Reaches(a, c) /\ Permitted(SenderEdit(c), c)
  /\ mail[c].edits < MaxEdits
  /\ \E sender \in Senders : Edit(c, SetSender(mail[c], sender))

(* mail.sender = ..., with an address VerifyEmailAddress() accepts.        *)
NewIndex(a, c) ==
  /\ Reaches(a, c) /\ Permitted(SenderEdit(c), c)
  /\ \/ /\ IsStale(mail[c])
        /\ Raise(a)
     \/ /\ ~IsStale(mail[c])
        /\ mail[c].edits < MaxEdits
        /\ \E sender \in Senders : Edit(c, SetSender(mail[c], sender))

(* Mutant: one header too many.                                            *)
InsertHeaderOneMore(a, c) ==
  /\ Reaches(a, c) /\ Permitted("insert_header", c)
  /\ IF IsStale(mail[c]) \/ mail[c].n_headers > MaxHeaders
     THEN Raise(a)
     ELSE Edit(c, [mail[c] EXCEPT !.n_headers = @ + 1])

InsertHeader(a, c) ==
  /\ Reaches(a, c) /\ Permitted("insert_header", c)
  /\ IF IsStale(mail[c]) \/ mail[c].n_headers >= MaxHeaders
     THEN Raise(a)
     ELSE Edit(c, [mail[c] EXCEPT !.n_headers = @ + 1])

(* The garbage collector takes what nothing refers to; the coroutine may   *)
(* have dropped its argument.                                              *)
Collect(c) ==
  /\ mail[c].userdata = "alive"
  /\ ~lua_mail[c] /\ c \notin kept
  /\ mail' = [mail EXCEPT ![c].userdata = "collected", ![c].freed = TRUE]
  /\ UNCHANGED <<connection, lua_mail, kept, request, decided, sent, dangling>>

Next ==
  \/ \E c \in Connections :
       OnRequest(c) \/ Do(c) \/ RelaySends(c) \/ End(c)
         \/ Keep(c) \/ Forget(c) \/ Collect(c)
  \/ \E a, c \in Connections : Index(a, c) \/ NewIndex(a, c) \/ InsertHeader(a, c)

Spec == Init /\ [][Next]_vars

-----------------------------------------------------------------------------
(* Correctness.                                                            *)

(* The values of the variables.  The request of a relay fits into          *)
(* MultiWriteBuffer, whoever inserted headers and whenever: the reason the *)
(* code gives for MAX_HEADERS.                                             *)
TypeOK ==
  /\ connection \in [Connections -> {"idle", "script", "relaying", "gone"}]
  /\ mail \in [Connections -> Mails]
  /\ lua_mail \in [Connections -> BOOLEAN]
  /\ kept \subseteq Connections
  /\ request \in [Connections -> Requests]
  /\ decided \in [Connections -> {None, Original} \cup Senders]
  /\ sent \in [Connections -> {None, Original, Overwritten} \cup Senders]
  /\ dangling \in BOOLEAN

(* As long as a connection needs its mail (mail_ptr, the spans of the      *)
(* relay's request), the mail exists: neither collected nor closed.        *)
MailHeld ==
  \A c \in Connections :
    connection[c] \in {"script", "relaying"} => Usable(mail[c])

(* No script, kept mail or garbage collection makes the code use memory of *)
(* an object that is gone: not the scripts the memory of a connection      *)
(* (peer_auth), nor Log() or a relay the memory of a mail.                 *)
NothingDangles == MailHeld /\ ~dangling

(* A mail refers to its connection only while that exists, and once it is  *)
(* gone the memory of the mail is given back for good, even if a script    *)
(* keeps the mail and tries to edit it for a later client.                 *)
DetachedWhenGone ==
  \A c \in Connections :
    connection[c] = "gone" => IsStale(mail[c]) /\ mail[c].freed

(* "The LuaMail that is going to be sent once we've connected to the       *)
(* outgoing QMQP server" (Connection.hxx:51): what is sent then is the     *)
(* mail that the script has decided to relay.                              *)
SentAsDecided ==
  \A c \in Connections : sent[c] # None => sent[c] = decided[c]
=============================================================================
