# Gotaxy: a verification project

Gotaxy is a reverse tunnel in Go. A server with a public address keeps a list
of mapping rules (`name`, public port, target address, rate limit). A client
inside a private network dials the server's control port over mutual TLS and
keeps a smux session open. Whoever connects to the public port of an enabled
rule is connected through a stream of that session to the rule's target. An
administrator works on the server through a shell, a web panel, or both.

This directory holds TLA+ models of that program, TLC configurations that
check them on small instances, and theorems about them that TLAPS proves for
instances of every size. Line numbers refer to the files under `src/`.

## 1. Inventory

| part | state | operations | talks to |
|---|---|---|---|
| public listeners (`tunnel/proxy/proxy.go`) | a port per started rule; `Mapping.Status`, `Ctx`, `CtxCancel` | bind, accept loop, closing goroutine, deferred status reset | reads `Mapping.Enable`, `Mapping.Ctx`, `server.Ctx`, the default session |
| controller (`tunnel/controller.go`) | the control port; one heartbeat goroutine per session | start loop over the rules, accept loop, heartbeat, close on cancel | starts listeners, registers sessions, publishes events |
| service state (`core/server.go`) | `IsRun`, `Ctx`, `Cancel` | start, stop (shell, panel), exit | everything above reads them, without a lock |
| session manager (`session/manager.go`) | `table`, `sessions`, `defaultID`, `totalConns` | add, delete, update, enable, close a rule; set, get, remove a session | one lock per call; callers make several calls |
| rule table (`storage/models/mapping.go`) | SQLite rows | insert, select, update, delete | called by the commands, after or before the manager |
| shell (`shell/shellcmd.go`), panel (`web/web.go`) | none of their own | the commands | the shell runs one at a time; the panel runs one goroutine per request |
| client (`client/client.go`) | its session, the backoff delay | dial, back off, serve streams, answer PING | the control port |
| event bus and alert router (`eventbus`, `alert`) | handlers | publish (a goroutine per handler and event), mail | fed by the heartbeats and the pipes |
| data pipes and limiter (`proxy.go:77-155`, `client.go:112-166`) | four copying goroutines and three links per connection, a token bucket per rule | dial, copy, wait, count, close | the session, the event bus |
| traffic accounting (`core/server.go:53-108`) | a counter per rule and a total in memory, a column and a row on disk | add, snapshot, write every ten seconds | manager, rule table, settings |
| settings (`config`, `storage/models/config.go`) | the config table and its copy in memory | seed, load, set | shell, panel |
| certificates (`pkg/tlsgen`) | six files | `cert ca`, `cert gen`, check, load | controller, client |
| rolling log (`pkg/logger`) | the current file | write, roll with the day | everybody |

What is hard to test here, and what the properties are for:

* Two goroutines share each public port, and the commands write the fields
  those goroutines read. Nothing orders the writes: `Status`, `Ctx` and
  `Enable` change under different locks or none, and a command is several
  steps. Correctness: a port is open exactly as long as its rule is enabled in
  a running service; no goroutine is lost, none spins; the status shown is true.
* Every service start runs three goroutines that read the field `server.Ctx`
  whenever they get there, and a start may replace it. Correctness: one control
  port while the service runs, none afterwards, no panic.
* Each rule is kept in memory and on disk, changed by several statements with
  crashes and failures between them. Correctness: the two agree whenever no
  command is half done, and a crash loses no rule.
* Clients drop off and come back while the server still holds their old
  sessions; a late heartbeat of an old session can hit a new one. Correctness:
  the default session is a registered one, live sessions are registered, dead
  ones are found out, and traffic finds a client again.
* Four goroutines on two machines copy a connection over three links, and each
  of them may be the first to find that it has ended. Correctness: nothing is
  left over, a complete answer arrives, nothing crosses a stop.
* Counters are added to by one goroutine per event and written to disk by
  another, by name, while rules come and go; settings are seeded by four inserts
  any of which may be the last. Correctness: the disk never runs ahead, never
  falls back, and in the end has everything.
* Two consoles write the same six certificate files one after the other, a crash
  tears any of them, and a goroutine that panics reads them. Correctness: a
  panic has a cause the operator knows of, and an undisturbed command repairs.

`PROJECT.json` lists the hazards one by one, each at its line, with the
properties that cover it.

## 2. Modules

| module | what it is |
|---|---|
| `Listener` | the public side: rules' shared fields, listener and closing goroutines, contexts, commands, start loop |
| `PacedListener` | `Listener` under two disciplines of its operators |
| `HastyListener` | `PacedListener` with a record of the rules that were started in a hurry |
| `Gateway` | `Listener` composed with the list of rules: rules come, go and change their ports, which they may share |
| `RulePort` | the abstract specification `Gateway` implements: ports follow the rules that are wanted |
| `Service` | the life of the service: Controllers, the control port, `server.Ctx`, exit and panics |
| `RuleStore` | the rules in memory and on disk, commands in steps, failing statements, crashes |
| `Sessions` | clients, connections, heartbeats, the session table, the default session |
| `Pipes` | one public connection: links, copying goroutines, limiter, context |
| `Settings` | the config table and its copy in memory |
| `Traffic` | `Settings` composed with the traffic counters, the event handlers and the persister |
| `Certs` | the certificate files, the commands that write them, the goroutine that loads them |
| `ListenerProofs`, `GatewayProofs`, `ServiceProofs`, `RuleStoreProofs`, `SessionsProofs`, `PipesProofs`, `TrafficProofs`, `CertsProofs` | theorems and their proofs; `GatewayProofs` builds on `ListenerProofs`, `TrafficProofs` covers `Settings` |
| `MC...` | constants and symmetry for TLC |

Definitions called `X_Variant` (`StopClose_NoCancel`, `Accept_KeepDefault` ...)
are not part of the specifications. Each is an action with a plausible mistake
in it; put in place of the action it stands next to, it must break the property
`PROJECT.json` names.

Everywhere, slots (`Jobs`, `Ctxs`, `Runs`, `Conns`, `Objs`, `WebOps`, `CaKeys`,
...) stand for allocation: what nobody refers to is forgotten and its slot used
again, so that a bound limits what exists at one time and never how long the
program runs.

### Listener, PacedListener, HastyListener

`map[r]` holds the fields of a `*Mapping` that goroutines share, its port
among them. `job[w]` is one call of `StartPublicListener` with its two
goroutines: the accept loop (`pc`: `listen` before `net.Listen`, `activate`
before `Status = "active"`, `loop` at the test of `Enable`, `accept` in
`Accept`, `exit` before the deferred reset) and the closing goroutine
(`closer`: `new` until it has evaluated `mapping.Ctx.Done()`, then `wait`; the
context it waits for is `watch`). `sock` says that the port is open. `op[o]` is
where a command stands; a shell command is one of `ShellOps`, a web request one
of `WebOps`. `todo[k]` is what the loop of `Controller.Start` has left to
visit, `parent` and `done` are the contexts, `srvCtx` and `isRun` are
`server.Ctx` and `server.IsRun`.

A step ends where the code hands the processor over or reads shared state a
second time. `mapping start` is therefore three steps (test `IsRun`; set
`Enable`; make the context and spawn), `mapping stop` two (close, clear
`Enable`), a service start or stop two (test, act).

The disciplines only restrict when commands are given:

* *Solo*: one command after the other, as fast as the operator likes;
* *Patient*: moreover the operator waits until every goroutine waits for
  something only a command or a client can bring.

The code enforces neither. `HastyListener` adds `hasty`, the rules whose last
start was given while a goroutine of an earlier one was still at work; no step
reads it. Its run has the Solo discipline with a slot for the shell and one for
the panel: the shell gives `mapping start` in a running service, which is the
one command that derives a rule's context from nothing (`shellcmd.go:171`), the
panel everything else. `MCHasty` takes the free slots in a fixed order, which
leaves out behaviours that differ in nothing but the name of a slot.

### Gateway

`listed` are the rules in the table, `taken` those that found their port taken
when they were last started. `Add`, `Del` and `Upd` are `mapping add`, `del`
and `upd` with their test of `Status`, in one step each (`RuleStore` has their
steps). The operator is Patient, does not start a rule that is started, and
restarts a stopped service from the panel; the two runs in which he does not
are violations. The refinement takes as wanted the listed, enabled rules of a
running service that are not `taken`; a rule stops being wanted when its stop
command takes the first of its two locks.

### Service

`run[k]` is a Controller: `start` is `Controller.Start` from the end of its loop
over the rules (`new`), over the wait for the context it has taken (`await`) to
the closing of the default session (`close`); `accept` and `port` are
`waitControlConn`; `closer` and `watch` its closing goroutine. `cmd` is the
command being executed, `hasty` records that the last start was given before the
previous service had ended. The certificates fit, and nobody else uses the
control port.

### RuleStore

`table` and `heap` are the manager's map and the `*Mapping` objects, `row` the
SQLite table, `count` is `totalConns`, `op[o]` is where a command stands with
the object and values it has read. Every access under one lock, and every SQL
statement, is a step; `models.UpdateMap` is two statements. A statement whose
kind is in `Failing` may fail. `Restart` is a crash at any point followed by
`ConfigLoad`. A start looks its rule up twice and checks the first result only
(`FlagMem`, `FlagGet`; `EnableMem`, `StartGet`); a nil rule at the second look-up
ends the process if the shell has given the command (`panicked`) and the request
if the panel has (`FollowsNil`). `gone` records that another command has deleted
the rule of a start in between, `failed` the rules of which an operator was told
that an update failed. `Apart` names the kinds of commands the operators never
give while one of the other kind is executed for the same rule; the code keeps
none apart. Commands about different rules always overlap.
The test of `Status` before `del` and `upd` is an early return without effect;
the model follows the commands that go on (`Gateway` has the test).

### Sessions

`conn[s]` is a TCP connection with the smux session on it (`link`), its
heartbeat goroutine (`hb`, `fail`) and the handler of its disconnect event
(`alert`). `client[c]` is the loop of `client.Start`. `sessions` and
`defaultID` are the manager's. A session is registered when its TCP connection
is accepted, before the TLS handshake, so a dial that fails may still leave a
registered session (`DialFail`). `stable` becomes true at most once and
separates the time in which the network misbehaves from the time in which it
does not; clients may leave and return in both. `closing` counts the Controllers
of earlier starts that have their default session still to close, which by then
may be a new one. `AddrReuse` says whether a
remote address may come back while the server still remembers it. The length
of the backoff has no effect on any step and is left out.

### Pipes

A connection is three links, user - `pub` (TCP), `srv` - `cli` (a stream of the
session), `loc` - `svc` (TCP). `end[e]` is open, has sent its end (`fin`) or is
closed; `inbox[e]` counts the units that have reached `e`. `pipe[d]` is a copying
goroutine: `in` and `out` are the two calls of `rateLimitedProxy`, with the step
it is at (the test of the context, `Read`, the entry of `WaitN`, its wait,
`Write`), the chunk in its buffer and whether its context lives; `cin` and `cout`
are those of the client. `stage` is the accept loop, up to the second `go`
statement, each of which reads `mapping.Ctx` anew. Closing an end that has
units to read resets a TCP link, and what its peer has not read may be lost.
`owed` counts what was sent and not received, `after` what was sent after the
context was cancelled, `spoiled` that something has happened which excuses a
loss. Only the copy from the user is counted by `Traffic`
(`proxy.go:103-105`: the other call is given no mapping).

### Settings, Traffic

`cfg` and `disk` are the fields and the rows, `boot` is where `ConfigLoad`
stands, `set[o]` a changed setting whose row is still to be written, `trouble`
what has happened since the start and excuses a property (a statement of the
load failed, an update failed, two changes of one setting overlapped, a rule was
deleted while the persister held it). `late[n]` are the events of rule `n`
whose handler has not run, `half` handlers between their two additions, `saver`
the persister with the total it has read and the objects it has still to write,
`due` what the total should have grown to. `Restart` is a crash at any step.

### Certs

`file[f]` is missing, torn, or holds a key or certificate, of which only the key
pair and the signer count. `op[o]` is a command with the files it has still to
write; opening (which truncates) and writing are two steps, and either may fail.
`svc` is the goroutine that loads the server's files after a start; `panicked`
that it has died. `mixed` marks commands and loads that overlapped another
command, `damaged` that a command was cut off, failed or overlapped another one
and no undisturbed `cert gen` has succeeded since.

## 3. Runs

| run | instance | what it shows |
|---|---|---|
| `listener_solo` | 1 rule, 2 listeners, panel and `mapping start` of the shell, one command at a time | an open port always has a goroutine that will close it, no status outlives its listeners, a service stop reaches every listener and all of them return, also when the service and their rule are started again meanwhile, under whichever context; only a rule started in a hurry has an accept loop that goes round on its closed port |
| `gateway` | 2 rules, 2 ports, shell and panel, patient operator | once a command has taken effect, ports, statuses and the list agree exactly, with rules deleted, added and moved to shared ports; one goroutine per rule; the listeners implement `RulePort`, liveness included |
| `service` | 2 ports, 2 Controllers at a time, both consoles | only a hurried start can panic or spin; a settled service has exactly the control port it should have; after a last stop every goroutine returns |
| `store` | 2 names, 2 values, a shell command and a request that overlap, two deletes of a rule and two writers of a row kept apart, every statement may fail, crashes | a crash loses no rule; values agree unless a failure was reported; a start follows a nil rule only if the rule was deleted under it, which kills the shell; additions do not overwrite each other |
| `sessions` | 2 clients that leave and return, 2 connections, quick service restarts | the session table, the default and the heartbeats agree; dead sessions are announced, a dropped client redials, returning clients are served for good |
| `pipes` | 1 unit in, 2 out, a buffer of 2, a limit of 1 | nothing crosses a stop, a complete answer arrives, every end and goroutine goes when any part of the connection has gone |
| `traffic` | 1 rule, 2 objects, 2 settings, 3 chunks, every statement may fail, crashes | settings agree with the disk however a start ended; counters on disk never run ahead or fall; all traffic is saved once the server stays up |
| `certs` | 2 commands at a time, 3 CA and 3 other key pairs, failed writes, crashes | an undisturbed `cert gen` or `cert ca` repairs whatever there was; only undone damage, or a command at that moment, makes a start panic |

Four runs end in a violation; each checks what the program says of itself:

| run | what the program says | what the code does |
|---|---|---|
| `listener_double_start` | `mapping stop` stops the rule | starting a started rule replaces its context (`shellcmd.go:171`); the stop then cancels a context nobody waits for |
| `listener_shell_restart` | `service start` starts the tunnel | a restart from the shell runs under the cancelled context and closes every port at once (`shellcmd.go:45`) |
| `store_delete_race` | concurrent writes do not conflict (`docs/REQUIREMENTS.md:400`) | two deletes and an add leave a rule in memory only |
| `sessions_promotion` | several clients can be connected (`docs/REQUIREMENTS.md:128`) | when the latest leaves, the others stay connected without traffic (`manager.go:196`) |

Disagreements seen in the code that have no run of their own:

* listeners: a hurried stop and start of a rule replaces `mapping.Ctx` before the
  accept loop has looked at it, which then finds no context done and goes round
  on its closed port, writing a line each time, until the rule or the service is
  stopped again (`proxy.go:63-74`; `SpinNeedsHaste` says that this takes haste,
  and the run reaches it);
  a rule deleted, or given another port, before its listener has set `Status`
  passes the test of `Status` (`shellcmd.go:233`, `web.go:301`, `manager.go:133`),
  and its port stays open with a listener that belongs to no rule in the list;
  a hurried `mapping stop` between bind and `Status = "active"`
  cancels nothing (`manager.go:133`), and if the accept loop has passed its test
  of `Enable` the port stays open until somebody connects; a rule whose port is
  taken is shown as enabled and never tried again (`proxy.go:23-31`);
  `mapping.Ctx` "is already derived from server.Ctx" (`proxy.go:102`) only for
  rules the panel or the start loop has started, which is why the closing
  goroutine has to watch both;
* service: two overlapping starts lose a context (`web.go:112-126`) and the
  second finds the control port taken; a start right after a stop may panic
  (`controller.go:63`) or leave a loop spinning until the next stop
  (`controller.go:80`);
* rules: `mapping start` looks its rule up a second time without a check, and a
  delete from the panel in between makes it nil: the shell's process, that is the
  server, dies (`shellcmd.go:161-162,170-171`), a request of the panel ends in
  the framework's recovery (`web.go:180-182`); `NilNeedsDelete` says that this
  takes a delete, and the run reaches both; overlapping updates leave different values in memory and on disk
  (`web.go:339`); an update whose SELECT fails is reported as failed and has
  changed the row (`mapping.go:93`); a delete whose statement fails is reported
  as done and its rule is back after a restart (`shellcmd.go:238`); `Enable`
  reaches the disk only from a shell start of a stopped service
  (`shellcmd.go:162`); `totalConns` counts a rule down twice when two deletes
  overlap (`manager.go:85`);
* sessions: a heartbeat removes by address and hits a live session if the
  address has been used again (`controller.go:168`), which is why
  `ConnectedIsRegistered` is stated for `AddrReuse = FALSE`;
* pipes: a user who closes his writing side loses the answer, because the end
  of one direction closes both connections (`proxy.go:111-116`); idle
  connections survive the stop of their rule until one more unit arrives
  (`proxy.go:127`); a chunk above the rate limit ends the connection
  (`proxy.go:135`), and the buffer is half a megabyte;
* traffic and settings: a start whose query fails goes on with empty settings
  and a total of zero, which the persister then writes over the old one
  (`config.go:23-27`, `server.go:87-89`); a rule deleted while the persister
  holds it may give its last counter to a new rule of the same name
  (`server.go:96-98`);
* certificates: `cert ca` reports success and does nothing when both files
  exist, also when they are torn (`gen.go:52-55`).

### Bounds, and why they are enough

* *Two listeners of one rule, two Controllers.* Every hazard of `Listener` and
  of `Service` is between an old goroutine and a new one. A command that would
  start a third waits until a slot is free, so longer histories are covered and
  only three generations at once are not. The theorems have no such bound.
* *Two contexts of each kind* (three where two rules or two Controllers hold
  one): one that is watched and its successor.
* *Two rules and two ports in `gateway`*: a shared port needs two rules, moving
  off it a second port; the start loop visits rules in any order and other
  goroutines run while it does.
* *Two names, one shell command and one request in `store`*: the shell executes
  one command at a time, and what can go wrong is between two commands of one
  rule; a second rule shows that they leave it alone. Two objects: no rule is
  added again while a command holds its old object (`Apart`), so there are never
  more than the names. `store_delete_race` has two requests and three objects.
  The theorems have no such bounds.
* *Two clients, two connections in `sessions`*: a client's dying and its new
  session, or two clients'. Three failures in a row is the code's own constant.
  Two Controllers that have their default session still to close: the last one
  and the one before.
* *Limit 1, buffer 2, inbox 2 in `pipes`*: the limit is below the buffer, so
  both a chunk that passes and one that is refused occur; two units out are
  enough for one to be in a buffer while the other is in an inbox or lost. One
  unit in suffices to use a connection after a stop. Connections follow each
  other in the same slots; two at a time share only the limiter's time.
* *Two settings, one setter, two values in `traffic`*: every row but the total
  is treated alike; overlapping changes of one setting are exempt anyway. Two
  objects: a rule and the deleted one of the same name the persister still
  holds. Two chunks for a rule, three in all, end the traffic and nothing else.
* *Two cert commands, three key pairs of each kind in `certs`*: one pair on disk
  and one per command. Key pairs and commands are interchangeable.
* Symmetry is used in runs that check no liveness.

### Fairness

Weak fairness for every goroutine that can take a step: the Go scheduler runs
every runnable goroutine, a sleep, a ticker or a deadline ends, a select on a
cancelled context returns. `Service` assumes it while the process lives.
`Pipes` adds that the user and the service read what they are sent (`Receive`):
without it a write blocks and the goroutine outlives everything, which is the
hazard listed at `proxy.go:141`. `Traffic` has strong fairness for the
persister's statements: one that is tried again and again succeeds. None for
giving a command, opening a connection, sending, leaving, link failures,
crashes, or the network becoming stable: the liveness properties have what they
need of those as a premise.

All passing runs but `listener_solo` are checked for deadlock. There the code
leaves goroutines behind that never return (a hurried stop), they can hold
every slot of the model, and a command then waits for a slot where the program
would allocate; the two violating runs of the listener stop for the same reason.

## 4. Theorems

All are checked by TLAPS from the definitions and from the assumptions named in
the modules: the constants are disjoint from `Nil` and from each other where
the code's values are, `Names` is finite and `Vals` not empty.

* `ListenerProofs!TypeCorrect`, `PortsAreGuarded`, `StatusIsOwned`: for any
  number of rules, listeners and overlapping commands. The types need two facts
  more to be inductive (a command about a rule, and a goroutine in use, name a
  rule: `OpHasRule`, `JobHasRule`); the two properties are then inductive
  together with them.
* `SoloCancellable`, `SoloStopped`: for one command at a time. `SoloInv` adds
  that what a command has read of `IsRun` holds until it ends
  (`IsRunIsCurrent`), which is exactly what two overlapping starts break, and
  that before the first start no controller has anything to launch
  (`NothingBeforeStart`). `CollectKeeps` is the lemma about contexts: a
  cancelled one is not forgotten while anybody refers to it.
* `SpinNeedsHasteHolds`: for any rules, goroutines and commands, overlapping ones
  of both consoles included (`HastySpec` has no discipline). `HasteInv` says
  that a rule that is not hasty has one goroutine at most, that its closing
  goroutine watches the context the accept loop will look up, and that the port
  was closed because that context or the server's is done; so the loop leaves.
* `GatewayProofs!OneGoroutineEach`, `SettledTellsTruth`,
  `PromisesOutliveTheList`: for any number of rules, ports, goroutines, contexts
  and controllers. `GatewayInv` adds to the invariant of the guarded ports what
  the patient operator and the tests of the commands bring about. A slot in use
  belongs to a listed rule that is not `taken` and holds its current context and
  port (`Slot`); as long as neither context is cancelled the rule is enabled, the
  service runs and the goroutine's step tells whether its port is open, and
  afterwards only its closing goroutine keeps the port (`Life`). No two rules
  share a context, and what is cancelled is in use (`CtxShape`). What a command
  has read holds until it acts (`CommandKnows`), and what the loop of
  `Controller.Start` has still to visit has no goroutine (`ControllerKnows`).
  Every wanted rule has a goroutine, waits for that loop or for the `go`
  statement of its command (`Covered`). None of the properties is inductive by
  itself; TLC has checked `GatewayInv` on the instance of `gateway`.
* `PortsOnlyAsWanted`: the initial state and every step of `Gateway` map to
  those of `RulePort`, or to a stutter. A port is opened in one step only
  (`ListenAllowed`) and by `Slot` and `Life` for a rule that is wanted; it is
  closed by a closing goroutine whose context is cancelled, which by `Life` is
  of a rule that is not. The fairness of `RulePort`, that a wanted port is opened
  and an unwanted one closed in the end, is left to the run.
* `ServiceProofs!TypeCorrect`, `OnlyHastePanics`, `OnlyHasteSpins`,
  `ControlPortSettles`: for any number of Controllers and contexts, everything
  the run `service` checks but its liveness. None of the four is inductive. The
  invariant counts Controllers: a start that is not hasty finds none, so until
  the next start there is one and all contexts held are `server.Ctx` (`Lone`); a
  context that was replaced while somebody waits for it is cancelled
  (`OldDone`); a stopped service has a cancelled context or nothing left
  (`Stopped`); the Controller of a running one waits (`Running`). `Waits` and
  `DoneInUse` say what a goroutine holds at each of its steps and that a new
  context is never a cancelled one.
* `RuleStoreProofs!TypeCorrect`: every value a command writes and every object
  it follows is one it has (`OpKnows`).
* `NilRuleNeedsDelete`: for any commands that overlap in any way and any faults,
  with no hypothesis. A start enters its second look-up with the rule in the
  table, and the only step that takes it away tells the start (`DelMemTells`).
* `RulesAreOnDisk`, `AddsFindVacancy`: for any number of names and commands, if
  no two deletes of one rule overlap (`Calm`: no deletes are given, the operators
  keep them apart or commands come one at a time); everything else may overlap
  them. The run `store_delete_race` shows that this hypothesis cannot be
  dropped. The invariant says what a half-done add and a half-done delete leave
  behind (`HalfDone`): each finds the name in a state that keeps the other from
  starting; and that no two of them are half done for one name (`HalvesApart`,
  which for two adds is what the UNIQUE column is for). `KeptApart` carries the
  discipline: a command stays of its kind until it ends, and was given when
  nothing it is kept apart from was being executed for its rule.
* `RuleStoreProofs!MemoryAndDiskAgree`: if moreover an update of a rule overlaps
  no other command that writes its row, and an add of it no start that does
  (`CalmUpd`), with every statement failing, deletes beside all of them and
  crashes anywhere; two overlapping updates do break it. The invariant says that
  a rule has one object (`OneRule`), that what a command goes on with is in the
  row and that the object it will write from is still the rule's or the rule is
  gone (`RowKnown`), and that values agree except between the two halves of an
  update (`Agree`).
* `SessionsProofs!TypeCorrect`, `DefaultRegistered`, `RegisteredWatched`: with
  and without reuse of addresses. The steps are classified once by what they do
  to the connections (`Accepted`, `LinksOnly`, `Probed`, `Removed`, `Ended`),
  and each invariant is then shown against these five.
* `ConnectedRegistered`: if addresses are not used again. The invariant is
  stronger (`WatchedIsRegistered`: also for a session about to be removed);
  from it follows that two watched sessions have different addresses.

* `PipesProofs!TypeCorrect`, `NothingIsMadeUp`, `NothingCrossesAStop`,
  `AnswersArrive`: for any number of units, any sizes and limits. `Flow` counts
  what is under way in each direction against what is owed. `Late` says that the
  units which have passed the limiter, or are past its test of the context,
  together with those sent after the stop are no more than what is owed: hence
  none of the latter is received. `Clean` follows a connection nothing has
  spoiled: its ends are closed from the side of the service on, each after what
  was to be written to it, so that the whole answer has passed before the next
  end goes. `Shape` says what each goroutine holds at each of its steps.
* `TrafficProofs!MemoryAndDiskAgree` (`SettingsAgree`): for any settings and
  setters. `Seeding` says which rows the load has left behind it, `LastWins` that
  a field being changed has its new value and one writer, `Agreed` that the
  others agree.
* `TrafficProofs!TypeCorrect`, `NoChunkIsLost`, `RowBehindCounter`,
  `TotalOnDiskGrows`: for any rules, objects and amounts of traffic.
  `Conserved` is the balance of one process: every chunk is in the total,
  between the two additions of its handler, or in an event not handled yet; the
  lemmas about sums of events carry it over each step. That a row is not ahead
  needs `HeldIsListed` (what the persister holds is still in the table unless a
  rule was deleted meanwhile), that the total on disk does not fall needs
  `TotalNotAhead` (neither it nor the total the persister has read is ahead).
* `CertsProofs!TypeCorrect`, `OnlyDamagePanics`, `GenRepairs`, `CaRepairs`: for
  any number of commands and key pairs and any faults. The invariant describes a
  command by the files it has still to write (`Stages`): what it has written is
  there, unless it was disturbed, and an undisturbed command is the only one
  (`Alone`). As long as nothing is damaged or being written the files fit
  (`Whole`), so what the loading goroutine has read and has still to read fits
  too (`Started`); a process that has died is not doing anything (`Dead`). The
  two action properties follow from the stage before the last write.

Every invariant a passing run checks is thereby a theorem, with the hypotheses
above, and so is every action property. The hypotheses are those the runs have:
the disciplines of the operator in `Listener` and `Gateway`, `Calm` and
`CalmUpd` in `RuleStore` (none for `NilRuleNeedsDelete`), no reuse of addresses
in `ConnectedRegistered`; the
violating runs, or the list in section 3, show a behaviour without each of them.

Only model-checked: the liveness properties, and of the refinement of `RulePort`
its fairness (fairness and ENABLED are out of the prover's reach).

## 5. What is not modelled, and why

* The rolling log: it changes files with the calendar day and no other part
  depends on it. Mail is an outcome of the alert handler.
* Reading and parsing of commands, validation of addresses and ports, help,
  listings and static pages keep no state. A command that is refused has no
  effect in any of the models.
* The cryptography of certificates beyond which key belongs to and signed what,
  and their expiry.
* Connect and error events have no subscriber; `UpdateStatus`,
  `UpdateRateLimit` and `GetTraffic` have no caller; `HelloServe` is a
  demonstration.
* The time the limiter takes. Connections of a rule share it and only wait
  longer for each other.
* An `Accept` that fails although its port is open (a process out of file
  descriptors): the loop goes round until it succeeds and changes nothing.
* Rules or other programs on the control port, which `Service` takes to be free.
* The two memories a data race can show in Go beyond the order of whole reads
  and writes: fields are read and written in one piece.

## 6. Plan

1. The requests of the panel that overlap each other in `Gateway`: which of its
   theorems survive, with what hypothesis.
2. `RuleStore` with three commands at a time: the theorems cover them, the run has
   two.
3. Two connections of a rule at a time in `Pipes`, if a property is found that
   one connection cannot break.
