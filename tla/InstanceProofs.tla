--------------------------- MODULE InstanceProofs ---------------------------
(***************************************************************************)
(* Theorems about Instance, for any number of clients, of sockets passed   *)
(* by systemd and of calls of qmqp_listen().                               *)
(*                                                                         *)
(* The inductive invariant relates the phase of Run() to what the phases   *)
(* before it have set up, each connection to its mail and its child, and   *)
(* the members that were destroyed to the connections that are left.       *)
(***************************************************************************)
EXTENDS Instance, TLAPS

(* What is promised once systemd was told that the service is ready.       *)
Serving ==
  /\ listeners # << >> /\ registered
  /\ log_server # "nil" => log_socket

(* Each phase relies on those before it.                                   *)
Started ==
  /\ phase \in {"checked", "logging", "complete"} => listeners # << >>
  /\ phase \in {"logging", "complete"} /\ log_server # "nil" => log_socket
  /\ phase = "complete" => registered
  /\ phase = "running" => ready
  /\ ready => phase \in {"running", "unwinding", "ended"} /\ Serving

(* A connection exists only while and after the service was ready, has its *)
(* mail logged when it goes, and no child runs without its relay.          *)
Client(c) ==
  /\ clients[c] # "absent" => ready
  /\ clients[c] \in {"absent", "open"} => c \notin received
  /\ clients[c] \in {"mail", "relaying"} => c \in received
  /\ clients[c] = "gone" /\ c \in received /\ log_socket => c \in logged
  /\ child[c] = "running" => clients[c] = "relaying"

ClientsKnown == \A c \in Clients : Client(c)

(* The sockets that are still in the environment belong to no listener.    *)
Adopted ==
  /\ SocketsAdoptedOnce
  /\ listen_fds # 0 => \A i \in DOMAIN listeners : listeners[i] = Path

(* The logger goes first, then the listeners with all connections.         *)
Ending ==
  /\ ~dangling
  /\ destroyed > 0 => phase \in {"unwinding", "ended"}
  /\ destroyed > 1 => \A c \in Clients : clients[c] \in {"absent", "gone"}
  /\ phase = "ended" => destroyed = Len(Members)

IInv == TypeOK /\ Started /\ ClientsKnown /\ Adopted /\ Ending

-----------------------------------------------------------------------------
(* The members.                                                            *)

LEMMA MembersFacts ==
  /\ Len(Members) = 11
  /\ Members[1] = "event_loop" /\ Members[2] = "shutdown_listener"
  /\ Members[3] = "sighup_event" /\ Members[4] = "child_process_terminator"
  /\ Members[5] = "zombie_reaper" /\ Members[6] = "systemd_watchdog"
  /\ Members[7] = "lua_state" /\ Members[8] = "reload"
  /\ Members[9] = "log_socket" /\ Members[10] = "listeners"
  /\ Members[11] = "logger"
BY DEF Members

LEMMA DestroyedFacts == TypeOK => destroyed \in 0..11
BY MembersFacts DEF TypeOK

(* A destructor uses only members that were declared before its own.       *)
LEMMA UsesEarlier ==
  ASSUME NEW i \in 1..11
  PROVE  /\ Uses(Members[i]) \subseteq {Members[j] : j \in 1..i}
         /\ Members[i] \notin Uses(Members[i])
<1>1. i \in {1, 9, 11} => Uses(Members[i]) = {}
  BY MembersFacts DEF Uses
<1>2. i \in 2..7 => Uses(Members[i]) = {"event_loop"}
  BY MembersFacts DEF Uses
<1>3. i = 8 => Uses(Members[i]) = {"lua_state"}
  BY MembersFacts DEF Uses
<1>4. i = 10 => Uses(Members[i]) \subseteq
                  {"event_loop", "lua_state", "log_socket", "child_process_terminator"}
  BY MembersFacts DEF Uses
<1>5. CASE i \in {1, 9, 11}
  BY <1>1, <1>5
<1>6. CASE i \in 2..7
  BY <1>2, <1>6, MembersFacts
<1>7. CASE i = 8
  BY <1>3, <1>7, MembersFacts
<1>8. CASE i = 10
  <2>1. /\ {"event_loop", "lua_state", "log_socket", "child_process_terminator"}
             \subseteq {Members[j] : j \in 1..i}
        /\ Members[i] = "listeners"
    BY <1>8, MembersFacts
  <2> QED BY <1>4, <1>8, <2>1
<1> QED BY <1>5, <1>6, <1>7, <1>8

-----------------------------------------------------------------------------
(* Steps of scripts.                                                       *)

LEMMA ScriptStep ==
  ASSUME IInv, SetMaxSize \/ SetLogServer \/ SaveFunction
  PROVE  IInv'
<1>1. /\ UNCHANGED <<phase, status, registered, sockets, ready, signals, reload,
                     service, destroyed, dangling>>
      /\ log_server' = log_server \/ phase = "config"
  BY DEF SetMaxSize, SetLogServer, SaveFunction
<1>2. TypeOK'
  BY <1>1 DEF IInv, TypeOK, SetMaxSize, SetLogServer, SaveFunction, sockets, service
<1>3. Started'
  BY <1>1 DEF IInv, Started, Serving, sockets
<1>4. ClientsKnown' /\ Adopted' /\ Ending'
  BY <1>1 DEF IInv, ClientsKnown, Client, Adopted, SocketsAdoptedOnce, Ending, sockets,
    service
<1> QED BY <1>2, <1>3, <1>4 DEF IInv

(* The sockets of systemd in the order that the listeners get them.        *)
Passed(n) == [i \in 1..n |-> n + 1 - i]

LEMMA PassedFacts ==
  ASSUME NEW n \in Nat
  PROVE  /\ Passed(n) \in Seq(1..n) /\ Len(Passed(n)) = n
         /\ \A i, j \in 1..n : Passed(n)[i] = Passed(n)[j] => i = j
         /\ \A i \in 1..n : Passed(n)[i] \in 1..n
BY DEF Passed

LEMMA ConcatFacts ==
  ASSUME NEW S, NEW s \in Seq(S), NEW t \in Seq(S)
  PROVE  /\ s \o t \in Seq(S) /\ Len(s \o t) = Len(s) + Len(t)
         /\ DOMAIN (s \o t) = 1..(Len(s) + Len(t))
         /\ \A i \in 1..Len(s) : (s \o t)[i] = s[i]
         /\ \A i \in (Len(s) + 1)..(Len(s) + Len(t)) : (s \o t)[i] = t[i - Len(s)]
OBVIOUS

(* New listeners are put before the others.                                *)
LEMMA Prepend ==
  ASSUME Adopted, listeners \in Seq({Path} \cup 1..SystemdFds),
         NEW new \in Seq({Path} \cup 1..SystemdFds),
         \/ /\ \A i \in DOMAIN new : new[i] = Path
            /\ listen_fds' = listen_fds
         \/ /\ \A i, j \in DOMAIN new : new[i] = new[j] => i = j
            /\ (\E i \in DOMAIN new : TRUE) => listen_fds # 0
            /\ listen_fds' = 0,
         listeners' = new \o listeners
  PROVE  Adopted'
<1> DEFINE n == Len(new)
           k == Len(listeners)
<1>1. /\ n \in Nat /\ k \in Nat
      /\ DOMAIN new = 1..n /\ DOMAIN listeners = 1..k
      /\ DOMAIN listeners' = 1..(n + k)
      /\ \A i \in 1..n : listeners'[i] = new[i]
      /\ \A i \in (n + 1)..(n + k) : listeners'[i] = listeners[i - n]
  BY ConcatFacts
<1> HIDE DEF n, k
<1>2. \A i \in (n + 1)..(n + k) : i - n \in 1..k
  BY <1>1
<1>3. ASSUME NEW i \in DOMAIN listeners', NEW j \in DOMAIN listeners',
             listeners'[i] = listeners'[j], listeners'[i] # Path
      PROVE  i = j
  <2>1. CASE \A l \in DOMAIN new : new[l] = Path
    <3>1. i \in (n + 1)..(n + k) /\ j \in (n + 1)..(n + k)
      BY <1>1, <1>3, <2>1
    <3>2. listeners[i - n] = listeners[j - n] /\ listeners[i - n] # Path
      BY <1>1, <1>3, <3>1
    <3>3. i - n = j - n
      BY <1>1, <1>2, <3>1, <3>2 DEF Adopted, SocketsAdoptedOnce
    <3> QED BY <1>1, <3>1, <3>3
  <2>2. CASE /\ \A l, m \in DOMAIN new : new[l] = new[m] => l = m
             /\ (\E l \in DOMAIN new : TRUE) => listen_fds # 0
             /\ listen_fds' = 0
    <3>1. CASE listen_fds # 0
      <4>1. \A l \in (n + 1)..(n + k) : listeners'[l] = Path
        BY <1>1, <1>2, <3>1 DEF Adopted
      <4>2. i \in 1..n /\ j \in 1..n
        BY <1>1, <1>3, <4>1
      <4> QED BY <1>1, <1>3, <2>2, <4>2
    <3>2. CASE listen_fds = 0
      <4>1. n = 0
        BY <1>1, <2>2, <3>2
      <4>2. i \in 1..k /\ j \in 1..k /\ listeners'[i] = listeners[i] /\ listeners'[j] = listeners[j]
        BY <1>1, <4>1
      <4> QED BY <1>1, <1>3, <4>2 DEF Adopted, SocketsAdoptedOnce
    <3> QED BY <3>1, <3>2
  <2> QED BY <2>1, <2>2
<1>4. ASSUME listen_fds' # 0, NEW i \in DOMAIN listeners'
      PROVE  listeners'[i] = Path
  BY <1>1, <1>2, <1>4 DEF Adopted
<1> QED BY <1>3, <1>4 DEF Adopted, SocketsAdoptedOnce

(* What qmqp_listen() does to the listeners.                               *)
LEMMA ListenersFacts ==
  ASSUME TypeOK, Adopted, ListenPath \/ AddSystemdListener
  PROVE  /\ listen_fds' \in 0..SystemdFds
         /\ listeners' \in Seq({Path} \cup 1..SystemdFds)
         /\ listeners # << >> => listeners' # << >>
         /\ Adopted'
<1> DEFINE S == {Path} \cup 1..SystemdFds
<1>1. /\ SystemdFds \in Nat /\ listen_fds \in 0..SystemdFds
      /\ listeners \in Seq(S)
  BY BoundsAssumption DEF TypeOK
<1>2. CASE listeners' = listeners /\ (listen_fds' = listen_fds \/ listen_fds' = 0)
  BY <1>1, <1>2 DEF Adopted, SocketsAdoptedOnce
<1>3. CASE listeners' = <<Path>> \o listeners /\ listen_fds' = listen_fds
  <2>1. /\ <<Path>> \in Seq(S) /\ Len(<<Path>>) = 1
        /\ \A i \in DOMAIN <<Path>> : <<Path>>[i] = Path
    OBVIOUS
  <2>2. listeners' \in Seq(S) /\ Len(listeners') = 1 + Len(listeners)
    BY <1>1, <1>3, <2>1, ConcatFacts
  <2>3. Adopted'
    BY <1>1, <1>3, <2>1, Prepend
  <2> QED BY <1>1, <1>3, <2>2, <2>3
<1>4. CASE listeners' = Passed(listen_fds) \o listeners /\ listen_fds' = 0
  <2> DEFINE new == Passed(listen_fds)
  <2> HIDE DEF new
  <2>1. /\ new \in Seq(1..listen_fds) /\ Len(new) = listen_fds
        /\ \A i, j \in 1..listen_fds : new[i] = new[j] => i = j
    BY <1>1, PassedFacts DEF new
  <2>2. /\ new \in Seq(1..listen_fds) /\ DOMAIN new = 1..listen_fds
        /\ \A i, j \in DOMAIN new : new[i] = new[j] => i = j
        /\ (\E i \in DOMAIN new : TRUE) => listen_fds # 0
    BY <1>1, <2>1
  <2>3. new \in Seq(S)
    BY <1>1, <2>2
  <2>4. listeners' \in Seq(S) /\ Len(listeners') = Len(new) + Len(listeners)
    BY <1>1, <1>4, <2>3, ConcatFacts DEF new
  <2>5. Adopted'
    BY <1>1, <1>4, <2>2, <2>3, Prepend DEF new
  <2> QED BY <1>1, <1>4, <2>3, <2>4, <2>5
<1> QED BY <1>2, <1>3, <1>4 DEF ListenPath, ListenFails, AddSystemdListener, Passed

LEMMA ListenStep ==
  ASSUME IInv, Listen
  PROVE  IInv'
<1>1. /\ UNCHANGED <<script, registered, log_socket, ready, signals, reload, service,
                     destroyed, dangling>>
      /\ listens < MaxListens /\ listens' = listens + 1
      /\ qmqp_listen # "nil" /\ ScriptRuns
      /\ ListenPath \/ AddSystemdListener
  BY DEF Listen, ListenPath
<1>2. /\ listen_fds' \in 0..SystemdFds
      /\ listeners' \in Seq({Path} \cup 1..SystemdFds)
      /\ listeners # << >> => listeners' # << >>
      /\ Adopted'
  BY <1>1, ListenersFacts DEF IInv
<1>3. \/ UNCHANGED <<phase, status>>
      \/ phase = "config" /\ phase' = "unwinding" /\ status' = "EXIT_FAILURE"
  BY <1>1 DEF ListenPath, ListenFails, AddSystemdListener, Fail
<1>4. listens' \in 0..MaxListens
  <2>1. listens \in 0..MaxListens /\ MaxListens \in Nat
    BY BoundsAssumption DEF IInv, TypeOK
  <2> QED BY <1>1, <2>1
<1>5. TypeOK'
  BY <1>1, <1>2, <1>3, <1>4 DEF IInv, TypeOK, script, service
<1>6. Started'
  BY <1>1, <1>2, <1>3 DEF IInv, Started, Serving, script
<1>7. ClientsKnown' /\ Ending'
  BY <1>1, <1>3 DEF IInv, ClientsKnown, Client, Ending, service
<1> QED BY <1>2, <1>5, <1>6, <1>7 DEF IInv

-----------------------------------------------------------------------------
(* Steps of Run(), and signals.                                            *)

LEMMA PhaseStep ==
  ASSUME IInv,
         ConfigEnds \/ Check \/ SetupLogSocket \/ SetupRuntimeState \/ RunEventLoop
  PROVE  IInv'
<1>1. UNCHANGED <<listen_fds, listeners, log_server, listens, signals, reload, service,
                  destroyed, dangling>>
  BY DEF ConfigEnds, Check, SetupLogSocket, SetupRuntimeState, RunEventLoop, sockets,
    script
<1>2. /\ phase \in {"config", "loaded", "checked", "logging", "complete"}
      /\ phase' # "ended"
  BY DEF ConfigEnds, Check, SetupLogSocket, SetupRuntimeState, RunEventLoop, Step, Fail
<1>3. /\ ~ready /\ destroyed = 0
      /\ \A c \in Clients : clients[c] = "absent"
  BY <1>2, DestroyedFacts DEF IInv, Started, ClientsKnown, Client, Ending
<1>4. TypeOK'
  BY <1>1 DEF IInv, TypeOK, ConfigEnds, Check, SetupLogSocket, SetupRuntimeState,
    RunEventLoop, Step, Fail, sockets, script, service
<1>5. Started'
  BY <1>3 DEF IInv, Started, Serving, ConfigEnds, Check, SetupLogSocket,
    SetupRuntimeState, RunEventLoop, Step, Fail, sockets, script
<1>6. ClientsKnown'
  BY <1>1, <1>3 DEF IInv, ClientsKnown, Client, service
<1>7. Adopted' /\ Ending'
  BY <1>1, <1>2, <1>3 DEF IInv, Adopted, SocketsAdoptedOnce, Ending, service
<1> QED BY <1>4, <1>5, <1>6, <1>7 DEF IInv

LEMMA SignalStep ==
  ASSUME IInv, Signal \/ OnReload \/ ReloadEnds \/ OnShutdown
  PROVE  IInv'
<1>1. /\ UNCHANGED <<script, registered, sockets, ready, service, destroyed, dangling>>
      /\ \/ UNCHANGED <<phase, status>>
         \/ phase = "running" /\ phase' = "unwinding" /\ status' = "EXIT_SUCCESS"
  BY DEF Signal, OnReload, ReloadEnds, OnShutdown
<1>2. signals' \subseteq {"SIGTERM", "SIGHUP"} /\ reload' \in BOOLEAN
  BY DEF IInv, TypeOK, Signal, OnReload, ReloadEnds, OnShutdown
<1>3. TypeOK'
  BY <1>1, <1>2 DEF IInv, TypeOK, script, sockets, service
<1>4. Started'
  BY <1>1 DEF IInv, Started, Serving, script, sockets
<1>5. ClientsKnown' /\ Adopted' /\ Ending'
  BY <1>1 DEF IInv, ClientsKnown, Client, Adopted, SocketsAdoptedOnce, Ending, sockets,
    service
<1> QED BY <1>3, <1>4, <1>5 DEF IInv

-----------------------------------------------------------------------------
(* Steps of connections.                                                   *)

(* What is left of connections that are deleted.                           *)
LEMMA DeleteFacts ==
  ASSUME IInv, NEW cs \in SUBSET Clients, \A c \in cs : clients[c] # "absent",
         Delete(cs), UNCHANGED <<ready, log_socket>>
  PROVE  /\ clients' \in [Clients -> {"absent", "open", "mail", "relaying", "gone"}]
         /\ child' \in [Clients -> {"none", "running", "exited", "told"}]
         /\ received' \subseteq Clients /\ logged' \subseteq received'
         /\ \A c \in cs : clients'[c] = "gone"
         /\ \A c \in Clients \ cs : clients'[c] = clients[c]
         /\ ClientsKnown'
<1>1. /\ clients' \in [Clients -> {"absent", "open", "mail", "relaying", "gone"}]
      /\ \A c \in Clients : clients'[c] = IF c \in cs THEN "gone" ELSE clients[c]
  BY DEF Delete, IInv, TypeOK
<1>2. /\ child' \in [Clients -> {"none", "running", "exited", "told"}]
      /\ \A c \in Clients : child'[c] = IF c \in cs \cap HasPidfd /\ child[c] = "running"
                                       THEN "told" ELSE child[c]
  BY DEF Delete, IInv, TypeOK
<1>3. HasMail \subseteq received
  BY DEF HasMail, IInv, ClientsKnown, Client
<1>4. /\ received' = received /\ logged' = logged \cup (IF log_socket THEN cs \cap HasMail ELSE {})
  BY DEF Delete
<1>5. ASSUME NEW c \in Clients PROVE Client(c)'
  <2>1. Client(c)
    BY DEF IInv, ClientsKnown
  <2>2. CASE c \in cs
    <3>1. clients'[c] = "gone" /\ clients[c] # "absent"
      BY <1>1, <2>2
    <3>2. child'[c] # "running"
      BY <1>2, <2>1, <2>2 DEF Client, HasPidfd
    <3>3. c \in received /\ log_socket => c \in logged'
      BY <1>4, <2>1, <2>2, <3>1 DEF Client, HasMail, IInv, TypeOK
    <3> QED BY <1>4, <2>1, <3>1, <3>2, <3>3 DEF Client
  <2>3. CASE c \notin cs
    BY <1>1, <1>2, <1>4, <2>1, <2>3 DEF Client
  <2> QED BY <2>2, <2>3
<1> QED BY <1>1, <1>2, <1>3, <1>4, <1>5 DEF ClientsKnown, IInv, TypeOK

LEMMA ServeStep ==
  ASSUME IInv, NEW c \in Clients,
         Accept(c) \/ Receive(c) \/ Relay(c) \/ EndConnection(c)
  PROVE  IInv'
<1>1. /\ UNCHANGED <<phase, status, script, registered, sockets, ready, signals,
                     reload, destroyed, dangling>>
      /\ phase = "running"
  BY DEF Accept, Receive, Relay, EndConnection, Serve
<1>2. ready /\ destroyed = 0
  BY <1>1, DestroyedFacts DEF IInv, Started, Ending
<1>3. /\ clients' \in [Clients -> {"absent", "open", "mail", "relaying", "gone"}]
      /\ child' \in [Clients -> {"none", "running", "exited", "told"}]
      /\ received' \subseteq Clients /\ logged' \subseteq received'
      /\ ClientsKnown'
  <2>1. CASE Accept(c)
    BY <1>1, <1>2, <2>1 DEF Accept, IInv, TypeOK, ClientsKnown, Client, sockets
  <2>2. CASE Receive(c)
    BY <1>1, <1>2, <2>2 DEF Receive, IInv, TypeOK, ClientsKnown, Client, sockets
  <2>3. CASE Relay(c)
    BY <1>1, <1>2, <2>3 DEF Relay, IInv, TypeOK, ClientsKnown, Client, sockets
  <2>4. CASE EndConnection(c)
    BY <1>1, <2>4, DeleteFacts DEF EndConnection, sockets
  <2> QED BY <2>1, <2>2, <2>3, <2>4
<1>4. TypeOK'
  BY <1>1, <1>3 DEF IInv, TypeOK, script, sockets
<1>5. Started' /\ Adopted' /\ Ending'
  BY <1>1, <1>2 DEF IInv, Started, Serving, Adopted, SocketsAdoptedOnce, Ending, script,
    sockets
<1> QED BY <1>3, <1>4, <1>5 DEF IInv

LEMMA ChildExitsStep ==
  ASSUME IInv, NEW c \in Clients, ChildExits(c)
  PROVE  IInv'
<1>1. /\ UNCHANGED <<phase, status, script, registered, sockets, ready, signals, reload,
                     clients, received, logged, destroyed, dangling>>
      /\ child' = [child EXCEPT ![c] = "exited"]
  BY DEF ChildExits
<1>2. TypeOK' /\ ClientsKnown'
  BY <1>1 DEF IInv, TypeOK, ClientsKnown, Client, script, sockets
<1>3. Started' /\ Adopted' /\ Ending'
  BY <1>1 DEF IInv, Started, Serving, Adopted, SocketsAdoptedOnce, Ending, script, sockets
<1> QED BY <1>2, <1>3 DEF IInv

-----------------------------------------------------------------------------
(* The end.                                                                *)

LEMMA DestroyMemberStep ==
  ASSUME IInv, DestroyMember
  PROVE  IInv'
<1> DEFINE i == Len(Members) - destroyed
           member == Members[i]
<1>1. /\ phase = "unwinding" /\ destroyed' = destroyed + 1
      /\ UNCHANGED <<phase, status, script, registered, sockets, ready, signals, reload>>
  BY DEF DestroyMember
<1>2. i \in 1..11 /\ destroyed \in 0..10 /\ i = 11 - destroyed
  <2>1. destroyed \in 0..11 /\ destroyed < Len(Members)
    BY DestroyedFacts DEF DestroyMember, IInv
  <2> QED BY <2>1, MembersFacts
<1>3. Alive = {Members[j] : j \in 1..i}
  BY DEF Alive
<1>4. dangling' = dangling
  <2>1. Uses(member) \subseteq Alive \ {member}
    BY <1>2, <1>3, UsesEarlier
  <2> QED BY <2>1 DEF DestroyMember, IInv, TypeOK
<1>5. destroyed' \in 0..Len(Members)
  BY <1>1, <1>2, MembersFacts
<1>6. member = "listeners" <=> i = 10
  BY <1>2, MembersFacts
<1>7. CASE i = 10
  <2> DEFINE cs == {c \in Clients : clients[c] # "absent"}
  <2>1. Delete(cs) /\ UNCHANGED <<ready, log_socket>>
    BY <1>1, <1>6, <1>7 DEF DestroyMember, sockets
  <2>2. /\ clients' \in [Clients -> {"absent", "open", "mail", "relaying", "gone"}]
        /\ child' \in [Clients -> {"none", "running", "exited", "told"}]
        /\ received' \subseteq Clients /\ logged' \subseteq received'
        /\ \A c \in Clients : clients'[c] \in {"absent", "gone"}
        /\ ClientsKnown'
    BY <2>1, DeleteFacts
  <2>3. TypeOK'
    BY <1>1, <1>4, <1>5, <2>2 DEF IInv, TypeOK, script, sockets
  <2>4. Started' /\ Adopted'
    BY <1>1 DEF IInv, Started, Serving, Adopted, SocketsAdoptedOnce, script, sockets
  <2>5. Ending'
    BY <1>1, <1>4, <2>2 DEF IInv, Ending
  <2> QED BY <2>2, <2>3, <2>4, <2>5 DEF IInv
<1>8. CASE i # 10
  <2>1. UNCHANGED service
    BY <1>6, <1>8 DEF DestroyMember
  <2>2. TypeOK'
    BY <1>1, <1>4, <1>5, <2>1 DEF IInv, TypeOK, script, sockets, service
  <2>3. Started' /\ Adopted' /\ ClientsKnown'
    BY <1>1, <2>1 DEF IInv, Started, Serving, Adopted, SocketsAdoptedOnce, ClientsKnown,
      Client, script, sockets, service
  <2>4. destroyed' > 1 => destroyed > 1
    BY <1>1, <1>2, <1>8
  <2>5. Ending'
    BY <1>1, <1>4, <2>1, <2>4 DEF IInv, Ending, service
  <2> QED BY <2>2, <2>3, <2>5 DEF IInv
<1> QED BY <1>7, <1>8

LEMMA EndStep ==
  ASSUME IInv, End
  PROVE  IInv'
<1>1. /\ phase = "unwinding" /\ phase' = "ended" /\ destroyed = Len(Members)
      /\ UNCHANGED <<script, registered, sockets, ready, signals, reload, service,
                     destroyed, dangling, status>>
  BY DEF End, Step
<1>2. TypeOK'
  BY <1>1 DEF IInv, TypeOK, script, sockets, service
<1>3. Started'
  BY <1>1 DEF IInv, Started, Serving, script, sockets
<1>4. ClientsKnown'
  BY <1>1 DEF IInv, ClientsKnown, Client, script, sockets, service
<1>5. Adopted'
  BY <1>1 DEF IInv, Adopted, SocketsAdoptedOnce, script, sockets
<1>6. Ending'
  BY <1>1 DEF IInv, Ending, service
<1> QED BY <1>2, <1>3, <1>4, <1>5, <1>6 DEF IInv

LEMMA NextStep == IInv /\ [Next]_vars => IInv'
<1> SUFFICES ASSUME IInv, [Next]_vars PROVE IInv'
  OBVIOUS
<1>1. CASE UNCHANGED vars
  <2>1. TypeOK'
    BY <1>1 DEF vars, IInv, TypeOK, script, sockets, service
  <2>2. Started' /\ ClientsKnown' /\ Adopted' /\ Ending'
    BY <1>1 DEF vars, IInv, Started, Serving, ClientsKnown, Client, Adopted,
      SocketsAdoptedOnce, Ending, script, sockets, service
  <2> QED BY <2>1, <2>2 DEF IInv
<1>2. CASE Next
  BY <1>2, ScriptStep, ListenStep, PhaseStep, SignalStep, ServeStep, ChildExitsStep,
    DestroyMemberStep, EndStep DEF Next
<1> QED BY <1>1, <1>2

(* Every phase finds what those before it have set up.                     *)
LEMMA Invariance == Spec => []IInv
<1>1. Init => IInv
  <2> SUFFICES ASSUME Init PROVE IInv
    OBVIOUS
  <2>1. /\ 0 \in 0..SystemdFds /\ SystemdFds \in 0..SystemdFds
        /\ 0 \in 0..MaxListens /\ 0 \in 0..Len(Members)
    BY BoundsAssumption, MembersFacts
  <2>2. << >> \in Seq({Path} \cup 1..SystemdFds) /\ DOMAIN << >> = {}
    OBVIOUS
  <2>3. TypeOK
    BY <2>1, <2>2 DEF Init, TypeOK
  <2>4. Started /\ ClientsKnown /\ Ending
    BY DEF Init, Started, ClientsKnown, Client, Ending
  <2>5. Adopted
    BY <2>2 DEF Init, Adopted, SocketsAdoptedOnce
  <2> QED BY <2>3, <2>4, <2>5 DEF IInv
<1> QED BY <1>1, NextStep, PTL DEF Spec

(* The variables have the values they are declared for; no mail is logged  *)
(* that was not received.                                                  *)
THEOREM TypeCorrect == Spec => []TypeOK
<1>1. IInv => TypeOK
  BY DEF IInv
<1> QED BY <1>1, Invariance, PTL

(* A socket of systemd is handed to one listener, however often scripts    *)
(* call qmqp_listen(systemd).                                              *)
THEOREM Adoption == Spec => []SocketsAdoptedOnce
<1>1. IInv => SocketsAdoptedOnce
  BY DEF IInv, Adopted
<1> QED BY <1>1, Invariance, PTL

(* READY=1 is sent, and clients are served, only by a process that has a   *)
(* listener, the Lua classes, and the log socket it was configured for.    *)
THEOREM Readiness == Spec => []ReadyToServe
<1>1. IInv => ReadyToServe
  BY DEF IInv, Started, Serving, ClientsKnown, Client, ReadyToServe
<1> QED BY <1>1, Invariance, PTL

(* The destructor of Instance uses nothing that is gone, and leaves no     *)
(* connection, no mail unlogged, and no child that was not told.           *)
THEOREM Teardown == Spec => []CleanEnd
<1>1. IInv => CleanEnd
  <2> SUFFICES ASSUME IInv, phase = "ended", NEW c \in Clients
               PROVE  /\ clients[c] \in {"absent", "gone"}
                      /\ child[c] # "running"
                      /\ c \in received /\ log_socket => c \in logged
    BY DEF CleanEnd, IInv, Ending
  <2>1. destroyed > 1
    BY MembersFacts DEF IInv, Ending
  <2> QED BY <2>1 DEF IInv, ClientsKnown, Client, Ending
<1> QED BY <1>1, Invariance, PTL
=============================================================================
