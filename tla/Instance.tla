------------------------------ MODULE Instance ------------------------------
(***************************************************************************)
(* The process: Run() of Main.cxx and the Instance it works on, from the   *)
(* configuration script over the event loop to the destruction of the      *)
(* Instance, whose members go one by one, in the reverse of their order.   *)
(*                                                                         *)
(* A connection (module Connection) appears here by what it holds of the   *)
(* Instance when the process ends: a mail that is still to be logged, and  *)
(* a child process that is still to be told to terminate.                  *)
(***************************************************************************)
EXTENDS Integers, Sequences

CONSTANTS
  Clients,       \* the clients that may connect
  SystemdFds,    \* how many sockets systemd passes, if it passes any
  MaxListens     \* bound: how often scripts call qmqp_listen()

ASSUME BoundsAssumption == {SystemdFds, MaxListens} \subseteq Nat

VARIABLES
  phase,         \* how far Run() is
  status,        \* the exit status, once it is known
  max_size,      \* the Lua global `max_size`: "valid", "late" (valid, but set by a
                 \* handler), or "bad" (nil, no number, or out of range)
  log_server,    \* the Lua global `log_server`
  qmqp_listen,   \* can scripts still call it: by its "global", a "saved" value, not?
  registered,    \* QmqpRelayConnection::Register() was called
  listen_fds,    \* how many sockets sd_listen_fds() would find
  listeners,     \* the sockets listened on: bound to a Path, or systemd's 1, 2, ...
  log_socket,    \* is it connected?
  ready,         \* was systemd told "READY=1"?
  signals,       \* signals that are pending
  reload,        \* is the Lua function `reload` running?
  clients,       \* clients[c]: the connection of c
  child,         \* child[c]: the child process of c's relay
  received,      \* the clients whose mails were received
  logged,        \* the clients whose mails were logged
  destroyed,     \* how many members of the Instance were destroyed
  dangling,      \* was a destroyed member used?
  listens        \* counts the calls of qmqp_listen()

Path == 0

script == <<max_size, log_server, qmqp_listen>>
sockets == <<listen_fds, listeners, log_socket, listens>>
service == <<clients, child, received, logged>>
vars == <<phase, status, script, registered, sockets, ready, signals, reload,
          service, destroyed, dangling>>

-----------------------------------------------------------------------------
(* The members of the Instance, in the order of their declaration.         *)

(* Mutant: the listeners are declared before what connections use.         *)
MembersListenersEarly ==
  <<"event_loop", "shutdown_listener", "sighup_event", "listeners",
    "child_process_terminator", "zombie_reaper", "systemd_watchdog", "lua_state",
    "reload", "log_socket", "logger">>

Members ==
  <<"event_loop", "shutdown_listener", "sighup_event", "child_process_terminator",
    "zombie_reaper", "systemd_watchdog", "lua_state", "reload", "log_socket",
    "listeners", "logger">>

Alive == {Members[i] : i \in 1..(Len(Members) - destroyed)}

HasMail == {c \in Clients : clients[c] \in {"mail", "relaying"}}

HasPidfd == {c \in Clients : clients[c] = "relaying" /\ child[c] # "none"}

(* What the destructor of a member uses.                                   *)
Uses(member) ==
  CASE member \in {"shutdown_listener", "sighup_event", "child_process_terminator",
                   "zombie_reaper", "systemd_watchdog", "lua_state"} -> {"event_loop"}
    [] member = "reload" -> {"lua_state"}
    [] member = "listeners" ->
         {"event_loop", "lua_state"}
           \cup (IF HasMail # {} THEN {"log_socket"} ELSE {})
           \cup (IF HasPidfd # {} THEN {"child_process_terminator"} ELSE {})
    [] OTHER -> {}

Init ==
  /\ phase = "config"
  /\ status = "none"
  /\ max_size = "valid"           \* DEFAULT_MAX_SIZE
  /\ log_server = "nil"
  /\ qmqp_listen = "global"
  /\ registered = FALSE
  /\ listen_fds \in {0, SystemdFds}
  /\ listeners = << >>
  /\ log_socket = FALSE
  /\ ready = FALSE
  /\ signals = {}
  /\ reload = FALSE
  /\ clients = [c \in Clients |-> "absent"]
  /\ child = [c \in Clients |-> "none"]
  /\ received = {}
  /\ logged = {}
  /\ destroyed = 0
  /\ dangling = FALSE
  /\ listens = 0

-----------------------------------------------------------------------------
(* What scripts do: the configuration, and later the handlers.             *)

ScriptRuns ==
  \/ phase = "config"
  \/ phase = "running" /\ (reload \/ \E c \in Clients : clients[c] = "mail")

SetMaxSize ==
  /\ ScriptRuns
  /\ max_size' \in IF phase = "config" THEN {"valid", "bad"} ELSE {"late"}
  /\ UNCHANGED <<phase, status, log_server, qmqp_listen, registered, sockets, ready,
                 signals, reload, service, destroyed, dangling>>

(* Nobody looks at what a handler assigns to it.                           *)
SetLogServer ==
  /\ phase = "config"
  /\ log_server' \in {"nil", "address", "no address"}
  /\ UNCHANGED <<phase, status, max_size, qmqp_listen, registered, sockets, ready,
                 signals, reload, service, destroyed, dangling>>

(* The script keeps the function in a variable of its own.                 *)
SaveFunction ==
  /\ ScriptRuns /\ qmqp_listen = "global"
  /\ qmqp_listen' = "saved"
  /\ UNCHANGED <<phase, status, max_size, log_server, registered, sockets, ready,
                 signals, reload, service, destroyed, dangling>>

(* A Lua error in the configuration script that it does not catch, or an   *)
(* exception in Run(): main() returns EXIT_FAILURE.                        *)
Fail ==
  /\ phase' = "unwinding"
  /\ status' = "EXIT_FAILURE"

(* l_qmqp_listen() raises an error, unless it gets to a listener.          *)
ListenFails ==
  /\ UNCHANGED <<listen_fds, listeners>>
  /\ \/ UNCHANGED <<phase, status>>
     \/ phase = "config" /\ Fail

(* qmqp_listen(path, handler): MakeListener() may fail.                    *)
ListenPath ==
  \/ /\ listeners' = <<Path>> \o listeners
     /\ UNCHANGED <<phase, status, listen_fds>>
  \/ ListenFails

(* Mutant: the environment is left as it is.                               *)
AddSystemdListenerAgain ==
  /\ listeners' = [i \in 1..listen_fds |-> listen_fds + 1 - i] \o listeners
  /\ UNCHANGED <<phase, status, listen_fds>>

(* qmqp_listen(systemd, handler): sd_listen_fds(true) takes the variables  *)
(* from the environment.  That it fails or finds none is only logged.      *)
AddSystemdListener ==
  /\ listen_fds' = 0
  /\ \/ listeners' = [i \in 1..listen_fds |-> listen_fds + 1 - i] \o listeners
     \/ UNCHANGED listeners
  /\ UNCHANGED <<phase, status>>

Listen ==
  /\ ScriptRuns /\ qmqp_listen # "nil"
  /\ listens < MaxListens
  /\ listens' = listens + 1
  /\ IF max_size # "bad" THEN ListenPath \/ AddSystemdListener ELSE ListenFails
  /\ UNCHANGED <<script, registered, log_socket, ready, signals, reload, service,
                 destroyed, dangling>>

-----------------------------------------------------------------------------
(* Run().                                                                  *)

Step(from, to) == phase = from /\ phase' = to /\ UNCHANGED status

(* LoadConfigFile() returns, or fails.                                     *)
ConfigEnds ==
  /\ phase = "config"
  /\ Step("config", "loaded") \/ Fail
  /\ UNCHANGED <<script, registered, sockets, ready, signals, reload, service,
                 destroyed, dangling>>

Check ==
  /\ phase = "loaded"
  /\ IF listeners = << >> THEN Fail ELSE Step("loaded", "checked")
  /\ UNCHANGED <<script, registered, sockets, ready, signals, reload, service,
                 destroyed, dangling>>

(* Mutant: a log server that cannot be used is as good as none.            *)
SetupLogSocketLenient ==
  /\ phase = "checked"
  /\ log_socket' = (log_server = "address")
  /\ Step("checked", "logging")
  /\ UNCHANGED <<script, registered, listen_fds, listeners, listens, ready, signals,
                 reload, service, destroyed, dangling>>

(* `log_server` is optional, but must be an address, and connect().        *)
SetupLogSocket ==
  /\ phase = "checked"
  /\ \/ /\ log_server = "nil"
        /\ Step("checked", "logging")
        /\ UNCHANGED log_socket
     \/ /\ log_server = "address"
        /\ Step("checked", "logging")
        /\ log_socket' = TRUE
     \/ /\ log_server # "nil"
        /\ Fail
        /\ UNCHANGED log_socket
  /\ UNCHANGED <<script, registered, listen_fds, listeners, listens, ready, signals,
                 reload, service, destroyed, dangling>>

SetupRuntimeState ==
  /\ Step("logging", "complete")
  /\ max_size' = "bad"
  /\ qmqp_listen' = IF qmqp_listen = "global" THEN "nil" ELSE qmqp_listen
  /\ registered' = TRUE
  /\ UNCHANGED <<log_server, sockets, ready, signals, reload, service, destroyed,
                 dangling>>

(* READY=1, and the event loop.                                            *)
RunEventLoop ==
  /\ Step("complete", "running")
  /\ ready' = TRUE
  /\ UNCHANGED <<script, registered, sockets, signals, reload, service, destroyed,
                 dangling>>

-----------------------------------------------------------------------------
(* The event loop.                                                         *)

(* Signals are blocked from the construction of the Instance, and wait     *)
(* until the loop takes them.                                              *)
Signal ==
  /\ phase # "ended"
  /\ \E signal \in {"SIGTERM", "SIGHUP"} \ signals : signals' = signals \cup {signal}
  /\ UNCHANGED <<phase, status, script, registered, sockets, ready, reload, service,
                 destroyed, dangling>>

OnReload ==
  /\ phase = "running" /\ "SIGHUP" \in signals
  /\ signals' = signals \ {"SIGHUP"}
  /\ reload' = TRUE
  /\ UNCHANGED <<phase, status, script, registered, sockets, ready, service, destroyed,
                 dangling>>

ReloadEnds ==
  /\ phase = "running" /\ reload
  /\ reload' = FALSE
  /\ UNCHANGED <<phase, status, script, registered, sockets, ready, signals, service,
                 destroyed, dangling>>

(* Mutant: shutdown waits for the connections to end.                      *)
OnShutdownWaiting ==
  /\ phase = "running" /\ "SIGTERM" \in signals
  /\ \A c \in Clients : clients[c] \in {"absent", "gone"}
  /\ signals' = signals \ {"SIGTERM"}
  /\ phase' = "unwinding"
  /\ status' = "EXIT_SUCCESS"
  /\ UNCHANGED <<script, registered, sockets, ready, reload, service, destroyed,
                 dangling>>

(* The events are disabled, and the loop is left whatever goes on.         *)
OnShutdown ==
  /\ phase = "running" /\ "SIGTERM" \in signals
  /\ signals' = signals \ {"SIGTERM"}
  /\ phase' = "unwinding"
  /\ status' = "EXIT_SUCCESS"
  /\ UNCHANGED <<script, registered, sockets, ready, reload, service, destroyed,
                 dangling>>

Serve(c) ==
  /\ phase = "running"
  /\ UNCHANGED <<phase, status, script, registered, sockets, ready, signals, reload,
                 destroyed, dangling>>

Accept(c) ==
  /\ Serve(c)
  /\ listeners # << >> /\ clients[c] = "absent"
  /\ clients' = [clients EXCEPT ![c] = "open"]
  /\ UNCHANGED <<child, received, logged>>

(* A mail was received: NewLuaMail(), and the handler runs.                *)
Receive(c) ==
  /\ Serve(c)
  /\ clients[c] = "open"
  /\ clients' = [clients EXCEPT ![c] = "mail"]
  /\ received' = received \cup {c}
  /\ UNCHANGED <<child, logged>>

(* The handler returns an action that relays, by a program or not.         *)
Relay(c) ==
  /\ Serve(c)
  /\ clients[c] = "mail"
  /\ clients' = [clients EXCEPT ![c] = "relaying"]
  /\ child' \in {child, [child EXCEPT ![c] = "running"]}
  /\ UNCHANGED <<received, logged>>

ChildExits(c) ==
  /\ child[c] = "running"
  /\ child' = [child EXCEPT ![c] = "exited"]
  /\ UNCHANGED <<phase, status, script, registered, sockets, ready, signals, reload,
                 clients, received, logged, destroyed, dangling>>

(* Mutant: a connection logs even if it has no mail.                       *)
DeleteLoggingAll(cs) ==
  /\ clients' = [c \in Clients |-> IF c \in cs THEN "gone" ELSE clients[c]]
  /\ logged' = logged \cup (IF log_socket THEN cs ELSE {})
  /\ child' = [c \in Clients |-> IF c \in cs /\ child[c] = "running"
                            THEN "told" ELSE child[c]]
  /\ UNCHANGED received

(* What is left of connections that are deleted: Log() if there is a mail, *)
(* Kill(SIGTERM) if there is a child.                                      *)
Delete(cs) ==
  /\ clients' = [c \in Clients |-> IF c \in cs THEN "gone" ELSE clients[c]]
  /\ logged' = logged \cup (IF log_socket THEN cs \cap HasMail ELSE {})
  /\ child' = [c \in Clients |-> IF c \in cs \cap HasPidfd /\ child[c] = "running"
                            THEN "told" ELSE child[c]]
  /\ UNCHANGED received

EndConnection(c) ==
  /\ Serve(c)
  /\ clients[c] \in {"open", "mail", "relaying"}
  /\ Delete({c})

-----------------------------------------------------------------------------
(* The destructor of Instance.                                             *)

DestroyMember ==
  /\ phase = "unwinding" /\ destroyed < Len(Members)
  /\ LET member == Members[Len(Members) - destroyed]
     IN  /\ dangling' = (dangling \/ ~(Uses(member) \subseteq Alive \ {member}))
         /\ IF member = "listeners"
            THEN Delete({c \in Clients : clients[c] # "absent"})
            ELSE UNCHANGED service
  /\ destroyed' = destroyed + 1
  /\ UNCHANGED <<phase, status, script, registered, sockets, ready, signals, reload>>

End ==
  /\ destroyed = Len(Members)
  /\ Step("unwinding", "ended")
  /\ UNCHANGED <<script, registered, sockets, ready, signals, reload, service,
                 destroyed, dangling>>

Next ==
  \/ SetMaxSize \/ SetLogServer \/ SaveFunction \/ Listen
  \/ ConfigEnds \/ Check \/ SetupLogSocket \/ SetupRuntimeState \/ RunEventLoop
  \/ Signal \/ OnReload \/ ReloadEnds \/ OnShutdown
  \/ \E c \in Clients :
       Accept(c) \/ Receive(c) \/ Relay(c) \/ ChildExits(c) \/ EndConnection(c)
  \/ DestroyMember \/ End

Spec == Init /\ [][Next]_vars

(* The event loop takes pending signals, and destructors return.           *)
Fairness == WF_vars(OnShutdown) /\ WF_vars(DestroyMember) /\ WF_vars(End)

FairSpec == Spec /\ Fairness

-----------------------------------------------------------------------------
(* Correctness.                                                            *)

(* The values of the variables.                                            *)
TypeOK ==
  /\ phase \in {"config", "loaded", "checked", "logging", "complete", "running",
                "unwinding", "ended"}
  /\ status \in {"none", "EXIT_SUCCESS", "EXIT_FAILURE"}
  /\ max_size \in {"valid", "late", "bad"}
  /\ log_server \in {"nil", "address", "no address"}
  /\ qmqp_listen \in {"global", "saved", "nil"}
  /\ {registered, log_socket, ready, reload, dangling} \subseteq BOOLEAN
  /\ listen_fds \in 0..SystemdFds
  /\ listeners \in Seq({Path} \cup 1..SystemdFds)
  /\ signals \subseteq {"SIGTERM", "SIGHUP"}
  /\ clients \in [Clients -> {"absent", "open", "mail", "relaying", "gone"}]
  /\ child \in [Clients -> {"none", "running", "exited", "told"}]
  /\ received \subseteq Clients /\ logged \subseteq received
  /\ destroyed \in 0..Len(Members)
  /\ listens \in 0..MaxListens

(* A socket that systemd passed belongs to one listener only, however      *)
(* often scripts call qmqp_listen(systemd): two would close it twice.      *)
SocketsAdoptedOnce ==
  \A i, j \in DOMAIN listeners :
    listeners[i] = listeners[j] /\ listeners[i] # Path => i = j

(* The process claims to be ready only if it will take mails and log them: *)
(* although qmqp_listen(systemd) may find nothing and the script may catch *)
(* errors of qmqp_listen(), there is a listener; a handler finds the Lua   *)
(* classes registered that its mail and its action need; and whoever has   *)
(* set log_server gets a log.                                              *)
ReadyToServe ==
  /\ ready => /\ listeners # << >> /\ registered
              /\ log_server # "nil" => log_socket
  /\ (\E c \in Clients : clients[c] # "absent") => ready

(* However the process ends, no member's destructor, and no destructor of  *)
(* a connection that is still open, uses a member that is already gone; no *)
(* connection is left, every mail it had received was logged if there is a *)
(* log, and every child was told to terminate, unless it has exited.       *)
CleanEnd ==
  /\ ~dangling
  /\ phase = "ended" =>
       \A c \in Clients :
         /\ clients[c] \in {"absent", "gone"}
         /\ child[c] # "running"
         /\ c \in received /\ log_socket => c \in logged

(* SIGTERM ends the process, also one that came during the start, and      *)
(* whatever clients, handlers and `reload` are doing.                      *)
ShutdownEnds ==
  (phase = "running" /\ "SIGTERM" \in signals) ~>
    (phase = "ended" /\ status = "EXIT_SUCCESS")
=============================================================================
