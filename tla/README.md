# qrelay in TLA+

qrelay accepts mail submissions over QMQP, asks a Lua handler what to do with
each mail, relays it (to a QMQP server, to a program that speaks QMQP, or to a
program that takes a raw mail), and answers the client. This directory holds
its formal model: TLA+ modules translated from the C++ source, TLC
configurations that check them on small instances, and TLAPS proofs.

Paths below are relative to the program's source directory `src/src/`, unless
they start with `src/doc` or `src/test`.

## 1. Inventory

qrelay is one process with one thread and an event loop. Every handler runs to
completion, so there are no data races; what makes it hard is that handlers
nest (a request can run the script, start a relay, fail, answer and delete the
connection within one event), that objects delete themselves, and that the
events which end a submission (report, exit, end of output, timeout,
disconnect) come in any order.

| Component | State | Operations | Talks to |
|---|---|---|---|
| Connection (`Connection.cxx`) | `state`, `mail_ptr`, Lua thread, `relay_operation`, `relay_timeout` | `OnRequest`, `OnLuaFinished`/`OnLuaError`, `Do*`, `OnRelay*`, `OnRelayTimeout`, `OnError`, `OnDisconnect`, `Log`, `Finish`, destructor | client (NetstringServer), Lua thread, relay, timer, log server |
| RemoteRelay + BasicRelay | request buffers, connect operation, NetstringClient | `Start`, `OnSocketConnect*`, `OnNetstring*` | handler (the connection), remote server |
| ExecRelay | `pidfd`, `deferred_response`, NetstringClient | `Start`, `OnNetstring*`, `OnChildProcessExit`, destructor | handler, child process, ChildProcessTerminator |
| RawExecRelay | `pidfd`, two pipes, `response_buffer`, `response_fill`, `status` | `Start`, `TryWrite`, `TryRead`, `OnResponsePipeReady`, `OnChildProcessExit`, `Finish`, destructor | handler, child process, ChildProcessTerminator |
| Parser and mail (`djb/`, `MutableMail`) | message, sender, tail, recipients, headers | `Parse`, `StripLeft`, `InsertHeader`, `SetSender` | connection, script, BasicRelay |
| Lua mail object and actions (`LMail.cxx`, `LAction.cxx`) | the mail, `n_headers`, `auto_close` | attributes, `insert_header`, constructors of actions, `Close` | script |
| Instance (`Instance.cxx`) | listeners, log socket, Lua state, signals | add listener, `OnShutdown`, `OnReload` | systemd, signals |
| Start (`Main.cxx`, `CommandLine.cxx`, `LResolver.cxx`, `SetupProcess.cxx`) | none that outlives it | run the configuration, set up the Lua state | Instance |
| libcommon | | event loop, netstring server and client, pidfd, Lua runner | external: its submodule is not part of the repository |

What makes each component correct:

* **Connection.** One answer per submission, and the right one; one log
  datagram per parsed mail, whatever ended it; no assertion fails on any nested
  path; nothing calls back into a deleted object; a timeout really ends the
  submission.
* **Relays.** Report once, or not at all if destroyed before; the verdict of a
  program counts only with its exit status, in whatever order answer, end of
  output and exit arrive; no child is left unreaped; a child that writes too
  much neither overruns the buffer nor blocks for ever.
* **Parser and mail.** Accepts exactly the encodings of mails, refuses others
  for the right reason, and what it relays is again the encoding of a mail with
  the same recipients.
* **Lua mail object.** Not usable after its connection; not modified under a
  relay that still sends it.
* **Lua actions.** `exec()` and `exec_raw()` accept the calls that are documented
  and fit into the fixed arrays of `Start()`, and no others.
* **Instance.** Nothing is accepted before listeners, log socket and Lua classes
  are complete; shutdown destroys connections, relays and children in a good
  order, and always happens.

`PROJECT.json` lists the hazards of this code at their lines, with the
properties that cover them.

## 2. Modules

```
Submission      what client and log server may see           (abstract)
   ^ implemented by
Connection      the connection object, EXTENDS RelayReports
   |            relies on
Relay           what a relay promises to its handler          (abstract)
   ^ implemented by         ^ implemented by     ^ implemented by
RawExecRelay             ExecRelay           RemoteRelay
   EXTENDS RelayReports     both EXTEND BasicRelay, which EXTENDS RelayReports

ExecSubmission  composes Connection with ExecRelay and the terminator;
                implements Connection

QmqpMail        parser, edits, relayed request; EXTENDS Netstring
LuaMail         the life of the mail object that scripts see
ExecAction      the arguments of exec() and exec_raw()
Instance        start, signals, reload, shutdown

ConnectionProofs, ExecRelayProofs, RemoteRelayProofs, RawExecRelayProofs,
ExecSubmissionProofs, QmqpMailProofs, LuaMailProofs, InstanceProofs
                theorems about the modules they are named after; those about
                Netstring are in QmqpMailProofs, those about ExecAction in
                LuaMailProofs
MCConnection, MCRawExecRelay, MCQmqpMail, MCLuaMail   small instances for TLC
```

Operators that are named as mutants ("Mutant: ...") stand for plausible bugs in
the definition that follows them. They are not used by the specifications; they
show that the properties can fail.

### Connection and Submission

`connection[c]` is the record of one object: its fields, and a history of what
it did (`asserts`, `parsed`, `action`, `verdict`, `replies`, `logged`). Each
method is an operator from a record to the set of records it may leave behind,
one for each outcome of the calls it makes. So a nested call in the code is a
nested operator in the model, with the same order of steps, and each event of
the loop is one action:

| Action | Event | Code |
|---|---|---|
| `Accept` | the listener accepts | constructor |
| `Request` | NetstringServer has a payload | `OnRequest`, then the script's first run |
| `LuaResume` | what the coroutine waited for happened | `OnLuaFinished`, `OnLuaError`, `Do` |
| `RelayReport` | a relay reports | `OnRelayResponse`, `OnRelayError` |
| `RelayTimeout` | the timer expires | `OnRelayTimeout` |
| `Disconnect`, `SocketError` | NetstringServer | `OnDisconnect`, `OnError` |

The mail is reduced to whether it was parsed; a response is its code and a
text. `Finish` has two outcomes: the response was sent and the object is
deleted, or sending failed and NetstringServer called `OnError`. Without a log
server, `Log` returns before it touches `state` and `mail_ptr`, as in the code.
A script may yield any number of times, fail, or return any action. `Start()`
of a relay may already report. The timeout is in units of the script's option;
`TimeoutTicks` truncates it to ticks of the event loop's clock as
`duration_cast` does; the range check (`LMail.cxx:240`) is the assumption on
`ScriptTimeouts`, its upper limit being of no consequence.

`Submission` is what is visible from outside: a submission is opened, may be
received, and ends in one step that answers the client (or gives up) and logs
the mail. `ImplementsSubmission` says Connection implements it.

### RelayReports and Relay

`RelayReports` names the responses each kind of relay may report, at `Start()`
and later. `Relay` is the promise: started once, reports at most once, never
after it was destroyed. `Connection` relies on it; the three relays implement it
(`ImplementsRelay`).

### RawExecRelay

The relay's members, and the kernel's side: the child (running, or its exit
status), the request pipe and the response pipe. Bytes are counted. The child
may read, write, close its pipes and exit at any time, and processes it started
may inherit the pipes. `OnResponsePipeReady` takes the events that epoll may
show, including an event that is older than the hangup. The failures of system
calls are chosen by the constant `Faults`. A mutating method that reports
includes the destruction of the relay by its handler; `dangling` becomes true
if the method would go on after that.

### BasicRelay, ExecRelay and RemoteRelay

`BasicRelay` is the base class: how a netstring that came back, or none, becomes
a response for the handler. NetstringClient is external: it is sending,
receiving or done, and ends with one call of `OnNetstringResponse` or
`OnNetstringError`.

`ExecRelay` talks to a child that answers a valid response, an invalid one, no
netstring, or nothing, and exits, in any order. `RemoteRelay` connects first:
`ConnectSocket` may succeed, fail, or be pending when `Start()` returns, and has
a timer of its own. The server may come and go before the connection, answer
before it has read the whole request, close, reset, or be silent.

### ExecSubmission

One client's `Connection` with an `ExecRelay` in place of the promise, through
two instances of their modules that share steps where the code calls across
`relay_operation`: `Handle` (`DoExec()` creates and starts the relay, which may
fail at once), `RelayEvent` (a report calls the connection, which deletes both)
and `End` (the connection goes away and takes the relay along).
`ChildProcessTerminator`, external, inherits the child of a relay that is
destroyed early: SIGTERM, a minute, SIGKILL. `ImplementsConnection` says that
`Connection` leaves nothing out that a real relay does to it.

### Netstring and QmqpMail

The one place where bytes matter; inputs are sequences of characters.
`ParseMessage`, `ParseSender` and `ParseRecipient` are the steps of
`QmqpMail::Parse()`, then `InsertHeader` and `SetSender` are what the script may
do, and `Relay` assembles the buffers of `BasicRelay`. The reference is the
definition of a netstring (`Netstring`) and of a QMQP request (`Encoding`).
`Addresses` stands for what VerifyEmailAddress() of libcommon accepts, which is
never empty; `Characters` are the bytes that payloads, addresses and header
lines are made of.

### LuaMail and ExecAction

All connections share one Lua state. `LuaMail` is about one question: what if a
script keeps the mail object of one client in a variable, and uses it while it
handles another, when the mail is being relayed, or its connection is gone? The
variables are the four parties that refer to the object: the connection
(`mail_ptr`, `lua_mail`), scripts (`kept`), the relay's `request`, which points
into its memory, and the garbage collector; `auto_close` and `freed` are what
`Close()` and `Free()` leave. An action `Edit`, `Index` and so on has two
clients, the one whose handler runs and the one whose mail it uses. The
constant `LateEdits` says what scripts do to mails that are being relayed.

`ExecAction` is a function from the Lua stack of a call to an action or an
error, and from the action to the arrays of `Start()`.

### Instance

`phase` follows `Run()` of `Main.cxx`: configuration script, check for a
listener, log socket, runtime state, event loop, and the destruction of the
`Instance`, one member per step, in the reverse of `Members`. `Uses` says what
each destructor needs. A connection is reduced to what it holds of the Instance:
a mail that is to be logged, a child that is to be told to terminate. Scripts
may save `qmqp_listen` and call it from a handler; signals may arrive at any
time and wait until the loop takes them.

## 3. Runs

| Run | Question | Instance |
|---|---|---|
| `connection` | assertions, callbacks, log, answers, one relay per mail, on every nested path; a timeout of a tick or more ends the submission; implements `Submission` | 2 clients, 2 relay texts, options of half a tick, one, one and a half |
| `raw_exec` | verdict, output, child, promise; no child blocks for good, every dead child leads to a report | 3 bytes of mail, pipes of 2, text of 2, up to 5 bytes of output |
| `raw_exec_read_error` | is a relay left alone after it reported? **No** | read() may fail at a hangup |
| `raw_exec_write_error` | is EXIT_SUCCESS always accepted? **No** | no failures |
| `exec` | verdict, deferred answer, child, promise, progress | complete: all data is already finite |
| `remote` | reports are true, connecting ends, promise | a request of 3 units |
| `exec_submission` | end to end: what client and log server are told, what becomes of the child; implements `Connection` | 1 client, options of half a tick and one |
| `mail` | parser against definition; relayed request well-formed | up to three arbitrary segments out of 12, mails of up to 4 recipients, limit 2 |
| `mail_zeroes` | are leading zeroes rejected? **Not for "00"** | as above |
| `lua_mail` | nothing dangles; a first late assignment of the sender does no harm to the relay; all calls of `exec()` | 2 clients, 2 addresses, 2 headers, 2 assignments per mail; 2 arguments, 1 variable |
| `lua_mail_edited_sender` | is what was decided always what is sent? **No** | as above, scripts may assign a sender again |
| `instance` | listeners, readiness, order of destruction, shutdown | 2 clients, 2 sockets from systemd, 2 calls of `qmqp_listen()` |

Why the bounds are enough. Connections share no state but the Lua state, so two
show what one does and, in `lua_mail`, what one can do to another; who must act
is always the client whose handler runs and the one whose mail is used. The
timeout options lie below, at and above one tick. In RawExecRelay the mail is
longer than the pipe (short writes happen), the output longer than the buffer by
two reads of the discard buffer, and longer than the pipe. The limits of
recipients and headers are 2 instead of 1024 and 16, those of arguments and
variables 2 and 1 instead of 32 each; inputs reach beyond all of them, and a
length of two digits occurs in the relayed request. The capacity of
MultiWriteBuffer (libcommon, `MaxBuffers` = 11) is the least for these limits:
a request with all headers fills it. Three units of request
allow an answer and a hangup before, in and after the request. `instance` calls
`qmqp_listen()` twice, enough for two listeners of one systemd socket.

Bounds the program does not have: `MaxOutput` (output of a child), `MaxEdits`
(assignments of a sender), `MaxListens`. All others (`MailSize`, `PipeSize`,
`BufferSize`, `DiscardSize`, `RequestSize`, `MaxRecipients`, `MaxHeaders`,
`MaxBuffers`, `MaxExec`, `MaxEnv`, `SystemdFds`) are sizes that the program, its
input or the kernel does have, made small.

Both runs of connections, `connection` and `exec_submission`, have a log server,
since most of what can go wrong is about the datagram. Without one `Log()` does
nothing, not even mark the mail as logged, and the handlers go on with a mail
that looks unlogged. That this does no harm is proved: the theorems of
`ConnectionProofs` and `ExecSubmissionProofs` hold for both values of
`LogServer`. (TLC finds no error with `LogServer = FALSE` in the two
configurations, either.) Symmetry is used in the two `lua_mail` runs only, which
have no liveness properties; clients and addresses are interchangeable there.

Deadlock is not checked: a connection that is gone, a relay that was destroyed,
a mail that was relayed and a process that was ended have come to their end.

Fairness. Clients, scripts, servers and child processes may stall for ever,
everywhere; the liveness properties of the relays start from a child that has
exited or a server that has closed.

* `Connection`: the event loop runs an expired timer.
* `RawExecRelay`, `ExecRelay`, `RemoteRelay`: the loop gets to each descriptor
  that stays ready, which level-triggered epoll does; in `RemoteRelay`, the
  timer of `ConnectSocket` expires. NetstringClient's timeout is possible but
  never relied on.
* `ExecSubmission`: the same, and the terminator's timer expires and the kernel
  delivers SIGKILL.
* `Instance`: the loop takes a pending SIGTERM, and destructors return.

## 4. What the runs found

1. **Use of a destroyed relay after a read error** (`raw_exec_read_error`).
   `TryRead()` reports the error, which destroys the relay, and returns true;
   if the event had HANGUP too, `OnResponsePipeReady()` goes on with its
   members. It needs a failing `read()` of a pipe, which is rare.
2. **EXIT_SUCCESS may be a temporary failure** (`raw_exec_write_error`). A
   program that succeeds without having read a large mail causes EPIPE, which
   is reported before its exit status is known.
3. **`00:,` is accepted** (`mail_zeroes`), though leading zeroes are meant to
   be rejected. The mail is relayed with a correct length.
4. **A relay may send another sender than was decided**
   (`lua_mail_edited_sender`). After an edit, the sender is in `sender_buffer`
   and the request of `BasicRelay` points into it (`BasicRelay.cxx:23`). A script
   that has kept the mail and assigns `sender` once more while the relay is
   connecting or writing overwrites or frees the buffer
   (`MutableMail.hxx:64`). A first assignment at that time is harmless to the
   relay, whose sender is still in the client's request (`SentAsDecided` holds
   in `lua_mail`); only the log then names the new one.

Three observations that no run states. `CollectExecOptions()` accepts every
positive normal number as a timeout, and the `duration_cast` at `LMail.cxx:243`
truncates it; a value below one tick becomes zero, which `DoExec()` and
`DoRawExec()` take for "none". How long a tick is, libcommon says; if it is the
nanosecond of `std::chrono::steady_clock`, only absurdly small timeouts are
affected. `TimeoutCancels` and `TimeoutEndsAll` start at one tick therefore.
The comment in `ExecRelay::OnNetstringResponse()` ("the child process still
runs - postpone the response") stands in the branch that does not postpone; the
code does the right thing (`VerdictNeedsSuccess`). The comment on
`QmqpMail::tail` (`QmqpMail.hxx:22`) says that the tail includes "the message's
trailing comma"; the code, `TestQmqpMail` and module `QmqpMail` begin it with
the comma of the sender.

## 5. Proofs

Every safety property of the runs is proved for all values of the constants. A
proof module (or a part of it) states its theorems at the end; before them come
one lemma per method or event, the lemma that a step preserves the inductive
invariant, and `Inductive`/`Invariance`.

| Module | Theorems | For |
|---|---|---|
| `ConnectionProofs` | `Consistency` (`TypeOK`), `Assertions`, `Callbacks`, `Logging`, `Answers`, `HandOver`, `Refinement` (of `Submission`) | any clients, with or without a log server, any texts, timeouts and length of a tick |
| `ExecRelayProofs` | `TypeCorrect`, `Verdict`, `Accounting`, `Implementation` (of `Relay`) | any texts of the program, any failures |
| `RemoteRelayProofs` | `Truth`, `Implementation` | any size of the request |
| `RawExecRelayProofs` | `TypeCorrect`, `Verdict`, `Output`, `Accounting`, `Implementation` | any sizes of mail, pipes and buffers, any amount of output, any failures |
| `ExecSubmissionProofs` | `Answers`, `Children`, `Implementation` (of `Connection`), `Inherited`, `RelayImplementation` (of `ExecRelay`), `RelayInherited`, `Once`, `EndToEnd` (implements `Submission`) | what Connection and ExecRelay allow |
| `QmqpMailProofs` | `Accepted`, `Relayed`, `EveryMailUnderstood`, `SmallMailsUnderstood` | any payloads, mails, addresses, header lines and limits |
| `LuaMailProofs` | `TypeCorrect`, `Memory`, `Detachment`, `Decision` | any clients, addresses, numbers of headers and edits |
| `LuaMailProofs` | `AnyCall`, `Calls` (of `ExecAction`) | any limits, any number of arguments and variables |
| `InstanceProofs` | `TypeCorrect`, `Adoption`, `Readiness`, `Teardown` | any sockets, clients and calls of `qmqp_listen()` |

What they assume is stated beside the constants: `ConstantsAssumption`
(`Connection`, `ExecSubmission`), `TextsAssumption` (the text "output" is one of
the texts; `BasicRelay`, `RawExecRelay`), `FaultsAssumption`, `SizeAssumption`,
`BoundsAssumption`, `LimitsAssumption`, `CharactersAssumption` (digits, colon,
comma and space are characters; payloads and header lines are made of
characters), `AddressesAssumption` (an address has at least one character; if
`VerifyEmailAddress()`, which is libcommon's, took the empty string for one,
`00:,` would pass for an address as well). They say which values the constants may have, and
nothing about the program. Two theorems have a hypothesis besides. `Decision`
asks that scripts do not assign a sender again while the mail is relayed;
without it the property is false, as `lua_mail_edited_sender` shows.
`SmallMailsUnderstood` asks that the letters of the mails it is about are
characters, as they are in the instance; `EveryMailUnderstood` does not need it.

Hardly any of the properties is inductive. The invariants that are:

* **Connection.** That `Log()` is not entered twice depends on which of `state`,
  `mail_ptr`, coroutine, relay and timer go together. `Consistent` says that
  between two events an object is in one of four situations, `Receiving`,
  `RunningScript`, `Relaying` or `Ended`, each of which fixes all fields. The
  proof follows the call graph: a lemma per method says what it returns, given
  what its callers know (`FinishEnds`: from a state with the mail not yet
  logged, `Finish` ends in `Ended`, on both outcomes of `SendResponse()`).
  `NextAdvances` combines them into the fact that each step takes one object
  from one situation to a permitted one; the invariant, `HandOver` and
  `Refinement` all follow from that.
* **ExecRelay.** The verdict depends on the order of answer and exit. `IInv`
  distinguishes `NewRelay`, `RunningRelay` and `DestroyedRelay`: while it runs,
  the deferred response is the child's answer, and there is one only if the client
  is done and the exit is still awaited; what a destroyed relay reported is justified by the exit
  status. From that follows that nothing is passed on before the exit is known.
* **RemoteRelay.** Four stages, `NewRelay`, `ConnectingRelay`,
  `ExchangingRelay`, `DestroyedRelay`: nothing is sent before the third, the
  timer is set in the second only, and what was reported is `Justified` by how
  much of the request was sent and by what the server answered.
* **RawExecRelay.** The same stages as ExecRelay, and `OutputCounted`: as long
  as the relay reads, the buffer's fill is what the child has written less what
  is still in the pipe, up to the size of the buffer. Hence at the end of output
  nothing is missing. The invariant also says that the `assert()` of `Finish()` holds. With a
  read error at a hangup the relay is used after its destruction (section 4).
  The model ends the handler there, with `dangling`: what
  `OnResponsePipeReady()` does next (`RawExecRelay.cxx:185-190`) is done to freed
  memory, and no theorem says anything about it. `Implementation` excludes what
  follows such a step; the others hold in all behaviours of the model.
* **LuaMail.** `TypeOK`, that nothing has dangled, and `Attached(c)` for each
  client: while the script runs or the mail is relayed, the connection holds the
  Lua object and the mail in it is usable; once the connection is gone, the
  object is stale and the mail's memory freed. `Decision` adds what the relay
  sends in each stage.
* **Instance.** `TypeOK`, `Started` (what exists in which phase of `Run()`),
  `ClientsKnown`, `Adopted` (sockets of systemd against listeners) and `Ending`
  (which members are left at each step of the destruction).
* **ExecSubmission.** The invariants of both components carry over, since every
  step of the composition is a step of each or leaves it alone: their lemmas are
  cited through instances (`ConnP`, `ExecP`) of the proof modules. What is new
  is the coupling: `Bond` (while the relay runs, the connection waits for it)
  and `InCare` (a child whose relay is gone is in the terminator's care).
  `Implementation` needs `Bond` to show that a report of the real relay is one
  that `Connection` expects; `Inherited`, `Once` and `RelayInherited` then take
  over the theorems of the two components. `EndToEnd` composes the refinements:
  connection, relay, child and terminator implement `Connection`, that
  implements `Submission`, and the mapping is the same.
* **Parser.** The invariant (`Consumed`) has to say where in the payload the
  fields lie: the payload is the encoding of what was found so far, perhaps
  with zeroes before it, followed by the input that is left; and the tail is
  the comma of the sender, the recipients found so far, and that input. At the
  end nothing is left, which gives `Accepted`, and the tail is what `BasicRelay`
  needs, which gives `Relayed`. That is soundness. For completeness, `Progress`
  follows one mail: if the payload is its encoding, what was found is what it
  was made of, what is left is the encoding of the remaining recipients, and all
  recipients so far were admitted, so that the first that is not is the one
  `Verdict` means. `EveryMailUnderstood` states it for all mails at once.
  Together they say that `Parse()` succeeds for the encodings of admissible
  mails and for nothing else but `00:,` mails. Both rest on the same two facts
  about `ParseNetstring()`: what it accepts is a netstring (`ParseIsSound`), and
  it takes every netstring apart, whatever is in the value and whatever follows
  (`ParseIsComplete`); these rest on `Number` and `Decimal` being inverse
  (`NumberOfDecimal`, `DecimalOfNumber`).
* **ExecAction** has no state: the lemmas go through the methods, `Collected`
  for the loop over the arguments, `OptionsCollected` for the table, `Arrays`
  for `Start()`.

The parser's definitions are recursive functions over data, and the induction
theorems of the library take a predicate, which the provers cannot instantiate.
Here induction is a statement about sets (`NatMin`: a set of numbers that is not
empty has a least element, from the theorem that the order of the numbers is
well-founded), and that a recursive function satisfies its equation follows from
the existence of a solution, built by iteration (`Iteration`, `DecimalExists`,
`FlattenExists`).

The invariants were checked with TLC on the instances of the runs before they
were proved, except that of the parser, which ranges over all texts: there TLC
checks what follows from it, the three properties of run `mail`.

Only model-checked: liveness under fairness, that is `TimeoutCancels`,
`OutputDrained`, `Finishes`, `ChildEnds`, `TimeoutEndsAll`, `ShutdownEnds`. The
prover has no ENABLED. The four runs that expect a violation refute properties;
there is nothing to prove.

## 6. Not modelled

* Running out of memory, which would make `OnLuaError()` fail its assertion
  when constructing a relay throws.
* The command line, `SetupProcess()`, `chdir()` and the resolver functions
  (`LResolver.cxx`): they run once, in order, before the first connection, and
  decide nothing later.
* libcommon: external; what the code relies on is stated as actions marked so.
* Which characters a header or an address may have; wording, truncation and
  sizes in the log datagram.
* The `assert()`s that hold by the representation: an action that is none
  (`Connection.cxx:163`), an empty response (`Connection.cxx:347`).
* What follows the first failed write to a server that has closed (`RemoteRelay`
  fails at once; the kernel may accept one write more), and signals that arrive
  while the `Instance` is unwound, after `Disable()` (libcommon unblocks them).
* Lua timers and `reload` that use a kept mail: what they do, the handler of
  one more client could do (`LuaMail`).

## 7. Plan

Done: all modules, their runs, and theorems for every safety property of the
runs. What could come next:

1. Liveness: the steps that a proof would chain can be stated without ENABLED
   (which event each relay waits for in each of its stages), but the last step,
   from fairness to the conclusion, cannot be checked today.
2. Uniqueness of encodings as a lemma of its own. It follows from
   `ParseIsComplete`, and nothing here needs it.
3. libcommon's netstring server and client, event loop and child process
   watcher, once their source is part of the repository.
