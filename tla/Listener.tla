------------------------------ MODULE Listener ------------------------------
(***************************************************************************)
(* The public side of the tunnel server: one goroutine per started rule    *)
(* (proxy.StartPublicListener) owns a TCP port, a second goroutine closes  *)
(* the port when a context is cancelled, and the shell and the web panel   *)
(* start and stop rules and the whole service by writing the fields those  *)
(* goroutines read (Enable, Status, Ctx, server.Ctx, IsRun), mostly        *)
(* without a lock.                                                         *)
(*                                                                         *)
(* Granularity: a step ends where the code hands the processor over or     *)
(* reads shared state a second time.  Rules are fixed here (Gateway adds,  *)
(* deletes and updates them, RuleStore keeps them on disk); what becomes   *)
(* of an accepted connection is in Pipes.                                  *)
(*                                                                         *)
(* Bounds: Jobs, Ctxs, SrvCtxs, Ctls and WebOps are slots that are reused, *)
(* so a command waits while every slot it needs is taken.                  *)
(***************************************************************************)
EXTENDS Naturals, FiniteSets

CONSTANTS
    Rules,      \* names of mapping rules
    Ports,      \* TCP ports
    Jobs,       \* goroutines running StartPublicListener (slots)
    Ctxs,       \* contexts of mappings (slots)
    SrvCtxs,    \* contexts of the server (slots)
    Ctls,       \* goroutines running Controller.Start (slots)
    ShellOps,   \* commands typed in the shell being executed: one at most
    WebOps,     \* requests of the web panel being executed (slots)
    Nil

ASSUME NilAssumption ==
    /\ Nil \notin Rules \cup Ports
    /\ Nil \notin Ctxs \cup SrvCtxs
ASSUME CtxAssumption == Ctxs \cap SrvCtxs = {}
ASSUME OpsAssumption == ShellOps \cap WebOps = {}

VARIABLES
    map,        \* map[r]: the fields of the *Mapping the goroutines share
    job,        \* job[w]: a StartPublicListener goroutine and its closer
    op,         \* op[o]: where a shell or web command stands
    todo,       \* todo[k]: rules the Start loop of controller k has not visited
    parent,     \* parent[c]: the server context that will cancel c, Nil: none
    done,       \* cancelled contexts
    srvCtx,     \* server.Ctx
    isRun       \* server.IsRun

Ops == ShellOps \cup WebOps

vars == <<map, job, op, todo, parent, done, srvCtx, isRun>>

IdleOp == [pc |-> "idle", rule |-> Nil]
FreeJob == [pc |-> "free", rule |-> Nil, srv |-> Nil, sock |-> FALSE, port |-> Nil,
            closer |-> "none", watch |-> Nil]

MappingType == [enable : BOOLEAN, status : {"active", "inactive"}, ctx : Ctxs \cup {Nil},
                port : Ports]
JobType == [pc : {"free", "listen", "activate", "loop", "accept", "exit"},
            rule : Rules \cup {Nil}, srv : SrvCtxs \cup {Nil}, sock : BOOLEAN,
            port : Ports \cup {Nil}, closer : {"none", "new", "wait"},
            watch : Ctxs \cup {Nil}]
OpType == [pc : {"idle", "flag", "enable", "spawn", "disable", "svcstart", "svcstop"},
           rule : Rules \cup {Nil}]

TypeOK ==
    /\ map \in [Rules -> MappingType]
    /\ job \in [Jobs -> JobType]
    /\ op \in [Ops -> OpType]
    /\ todo \in [Ctls -> SUBSET Rules]
    /\ parent \in [Ctxs -> SrvCtxs \cup {Nil}]
    /\ done \in SUBSET (Ctxs \cup SrvCtxs)
    /\ srvCtx \in SrvCtxs
    /\ isRun \in BOOLEAN

\* The server has loaded its rules and not started the service.
Init ==
    /\ map \in [Rules -> [enable : BOOLEAN, status : {"inactive"}, ctx : {Nil},
                     port : Ports]]
    /\ job = [w \in Jobs |-> FreeJob]
    /\ op = [o \in Ops |-> IdleOp]
    /\ todo = [k \in Ctls |-> {}]
    /\ parent = [c \in Ctxs |-> Nil]
    /\ done = {}
    /\ srvCtx \in SrvCtxs
    /\ isRun = FALSE

-----------------------------------------------------------------------------
(* Contexts.  A parent that is cancelled cancels its children and lets go   *)
(* of them; a child of a cancelled parent is cancelled from the start.      *)

Done(c) == c \in done

CtxInUse(c) ==
    \/ \E r \in Rules : map[r].ctx = c
    \/ \E w \in Jobs : job[w].watch = c

SrvCtxInUse(s) ==
    \/ srvCtx = s
    \/ \E w \in Jobs : job[w].srv = s
    \/ \E c \in Ctxs : parent[c] = s /\ CtxInUse(c)

\* Contexts that nothing refers to any more are collected.
Collect ==
    /\ parent' = [c \in Ctxs |-> IF CtxInUse(c)' THEN parent[c] ELSE Nil]
    /\ done' = {c \in done : CtxInUse(c)' \/ SrvCtxInUse(c)'}

\* go StartPublicListener(server.Ctx, r, server) after giving r a new context
Launch(r, p) ==
    \E w \in Jobs, c \in Ctxs :
        /\ job[w] = FreeJob
        /\ ~CtxInUse(c)
        /\ map' = [map EXCEPT ![r].ctx = c]
        /\ job' = [job EXCEPT ![w] = [FreeJob EXCEPT !.pc = "listen", !.rule = r,
                                                     !.srv = srvCtx]]
        /\ parent' = [d \in Ctxs |->
                         IF d = c THEN (IF Done(p) THEN Nil ELSE p)
                         ELSE IF CtxInUse(d)' THEN parent[d] ELSE Nil]
        /\ done' = {d \in done : CtxInUse(d)' \/ SrvCtxInUse(d)'}
                      \cup (IF Done(p) THEN {c} ELSE {})

-----------------------------------------------------------------------------
(* Commands.  The shell runs one command at a time; the web panel runs      *)
(* every request in a goroutine of its own.                                 *)

Begin(o, pc, r) ==
    /\ op[o] = IdleOp
    /\ op' = [op EXCEPT ![o] = [pc |-> pc, rule |-> r]]

End(o) == op' = [op EXCEPT ![o] = IdleOp]

\* mapping start, first half: is the service running?
StartCheck(o, r) ==
    /\ Begin(o, IF isRun THEN "enable" ELSE "flag", r)
    /\ UNCHANGED <<map, job, todo, parent, done, srvCtx, isRun>>

\* The service was not running: only Enable is set.
FlagRule(o) ==
    /\ op[o].pc = "flag"
    /\ map' = [map EXCEPT ![op[o].rule].enable = TRUE]
    /\ End(o)
    /\ UNCHANGED <<job, todo, parent, done, srvCtx, isRun>>

\* The service was running: Enable is set before the listener is started.
EnableRule(o) ==
    /\ op[o].pc = "enable"
    /\ map' = [map EXCEPT ![op[o].rule].enable = TRUE]
    /\ op' = [op EXCEPT ![o].pc = "spawn"]
    /\ UNCHANGED <<job, todo, parent, done, srvCtx, isRun>>

\* The shell derives the rule's context from Background, the panel from server.Ctx.
SpawnRule(o) ==
    /\ op[o].pc = "spawn"
    /\ End(o)
    /\ UNCHANGED <<todo, srvCtx, isRun>>
    /\ Launch(op[o].rule, IF o \in ShellOps THEN Nil ELSE srvCtx)

\* Variant: nil and "active" are not checked before CtxCancel is called.
StopClose_Unchecked(o, r) ==
    /\ Begin(o, "disable", r)
    /\ done' = done \cup {map[r].ctx}
    /\ UNCHANGED <<map, job, todo, parent, srvCtx, isRun>>

\* Variant: the context is never cancelled.
StopClose_NoCancel(o, r) ==
    /\ Begin(o, "disable", r)
    /\ UNCHANGED <<map, job, todo, parent, done, srvCtx, isRun>>

\* mapping stop: CloseMapping cancels only if Status reads "active" ...
StopClose(o, r) ==
    /\ Begin(o, "disable", r)
    /\ done' = IF map[r].status = "active" /\ map[r].ctx # Nil
               THEN done \cup {map[r].ctx} ELSE done
    /\ UNCHANGED <<map, job, todo, parent, srvCtx, isRun>>

\* ... and Enable is cleared afterwards, under a second lock.
DisableRule(o) ==
    /\ op[o].pc = "disable"
    /\ map' = [map EXCEPT ![op[o].rule].enable = FALSE]
    /\ End(o)
    /\ UNCHANGED <<job, todo, parent, done, srvCtx, isRun>>

\* service start: the panel makes a new server context, the shell does not.
SvcStartCheck(o) ==
    /\ ~isRun
    /\ Begin(o, "svcstart", Nil)
    /\ UNCHANGED <<map, job, todo, parent, done, srvCtx, isRun>>

SvcStart(o) ==
    /\ op[o].pc = "svcstart"
    /\ \/ o \in ShellOps /\ srvCtx' = srvCtx
       \/ o \in WebOps /\ srvCtx' \in {s \in SrvCtxs : ~SrvCtxInUse(s)}
    /\ \E k \in Ctls :
          /\ todo[k] = {}
          /\ todo' = [todo EXCEPT ![k] = Rules]
    /\ isRun' = TRUE
    /\ End(o)
    /\ UNCHANGED <<map, job>>
    /\ Collect

SvcStopCheck(o) ==
    /\ isRun
    /\ Begin(o, "svcstop", Nil)
    /\ UNCHANGED <<map, job, todo, parent, done, srvCtx, isRun>>

\* Variant: IsRun is cleared and Cancel is not called.
SvcStop_NoCancel(o) ==
    /\ op[o].pc = "svcstop"
    /\ isRun' = FALSE
    /\ End(o)
    /\ UNCHANGED <<map, job, todo, parent, done, srvCtx>>

SvcStop(o) ==
    /\ op[o].pc = "svcstop"
    /\ done' = done \cup {srvCtx} \cup {c \in Ctxs : parent[c] = srvCtx}
    /\ parent' = [c \in Ctxs |-> IF parent[c] = srvCtx THEN Nil ELSE parent[c]]
    /\ isRun' = FALSE
    /\ End(o)
    /\ UNCHANGED <<map, job, todo, srvCtx>>

-----------------------------------------------------------------------------
(* Controller.Start visits the rules in map order, that is in any order.    *)

ControllerSkip(k, r) ==
    /\ r \in todo[k]
    /\ ~map[r].enable
    /\ todo' = [todo EXCEPT ![k] = @ \ {r}]
    /\ UNCHANGED <<map, job, op, parent, done, srvCtx, isRun>>

\* Variant: every rule is started, enabled or not.
ControllerLaunch_All(k, r) ==
    /\ r \in todo[k]
    /\ todo' = [todo EXCEPT ![k] = @ \ {r}]
    /\ UNCHANGED <<op, srvCtx, isRun>>
    /\ Launch(r, srvCtx)

ControllerLaunch(k, r) ==
    /\ r \in todo[k]
    /\ map[r].enable
    /\ todo' = [todo EXCEPT ![k] = @ \ {r}]
    /\ UNCHANGED <<op, srvCtx, isRun>>
    /\ Launch(r, srvCtx)

-----------------------------------------------------------------------------
(* The listener goroutine.                                                  *)

PortTaken(p) == \E v \in Jobs : job[v].sock /\ job[v].port = p

Listen(w) ==
    /\ job[w].pc = "listen"
    /\ job' = [job EXCEPT ![w] =
                 IF PortTaken(map[job[w].rule].port) THEN FreeJob
                 ELSE [@ EXCEPT !.pc = "activate", !.sock = TRUE,
                                !.port = map[job[w].rule].port]]
    /\ UNCHANGED <<map, op, todo, srvCtx, isRun>>
    /\ Collect

\* Status becomes active and the closing goroutine is started.
Activate(w) ==
    /\ job[w].pc = "activate"
    /\ map' = [map EXCEPT ![job[w].rule].status = "active"]
    /\ job' = [job EXCEPT ![w] = [@ EXCEPT !.pc = "loop", !.closer = "new"]]
    /\ UNCHANGED <<op, todo, parent, done, srvCtx, isRun>>

\* Variant: a disabled rule's goroutine returns without closing the port.
CheckEnable_LeavesPort(w) ==
    /\ job[w].pc = "loop"
    /\ job' = [job EXCEPT ![w].pc = IF map[job[w].rule].enable THEN "accept" ELSE "exit"]
    /\ UNCHANGED <<map, op, todo, parent, done, srvCtx, isRun>>

\* Head of the accept loop: a rule found disabled closes its own port.
CheckEnable(w) ==
    /\ job[w].pc = "loop"
    /\ job' = [job EXCEPT ![w] =
                 IF map[job[w].rule].enable THEN [@ EXCEPT !.pc = "accept"]
                 ELSE [@ EXCEPT !.pc = "exit", !.sock = FALSE]]
    /\ UNCHANGED <<map, op, todo, parent, done, srvCtx, isRun>>

\* Accept returns a connection.  Left out: it fails although the port is open,
\* because the process has run out of descriptors.  The loop then goes round as it
\* does here or, if a context has just been cancelled, returns and leaves the port
\* to the closing goroutine.
AcceptConn(w) ==
    /\ job[w].pc = "accept"
    /\ job[w].sock
    /\ job' = [job EXCEPT ![w].pc = "loop"]
    /\ UNCHANGED <<map, op, todo, parent, done, srvCtx, isRun>>

\* Variant: only the mapping's context is looked at.
AcceptErr_NoServerCtx(w) ==
    /\ job[w].pc = "accept"
    /\ ~job[w].sock
    /\ job' = [job EXCEPT ![w].pc = IF Done(map[job[w].rule].ctx) THEN "exit" ELSE "loop"]
    /\ UNCHANGED <<map, op, todo, parent, done, srvCtx, isRun>>

\* Accept on a closed port: the contexts are looked up again, and the
\* mapping's may be another one than the closing goroutine waited for.
AcceptErr(w) ==
    /\ job[w].pc = "accept"
    /\ ~job[w].sock
    /\ job' = [job EXCEPT ![w].pc =
                 IF Done(job[w].srv) \/ Done(map[job[w].rule].ctx)
                 THEN "exit" ELSE "loop"]
    /\ UNCHANGED <<map, op, todo, parent, done, srvCtx, isRun>>

\* Variant: Status is not reset.
Exit_KeepsStatus(w) ==
    /\ job[w].pc = "exit"
    /\ job' = [job EXCEPT ![w] = IF @.closer = "none" THEN FreeJob
                                 ELSE [@ EXCEPT !.pc = "free"]]
    /\ UNCHANGED <<map, op, todo, srvCtx, isRun>>
    /\ Collect

\* The deferred write of Status; a closing goroutine may stay behind.
Exit(w) ==
    /\ job[w].pc = "exit"
    /\ map' = [map EXCEPT ![job[w].rule].status = "inactive"]
    /\ job' = [job EXCEPT ![w] = IF @.closer = "none" THEN FreeJob
                                 ELSE [@ EXCEPT !.pc = "free"]]
    /\ UNCHANGED <<op, todo, srvCtx, isRun>>
    /\ Collect

\* The closing goroutine evaluates mapping.Ctx once, when it first runs.
CloserArm(w) ==
    /\ job[w].closer = "new"
    /\ job' = [job EXCEPT ![w] = [@ EXCEPT !.closer = "wait",
                                        !.watch = map[job[w].rule].ctx]]
    /\ UNCHANGED <<map, op, todo, parent, done, srvCtx, isRun>>

CloserFire(w) ==
    /\ job[w].closer = "wait"
    /\ Done(job[w].srv) \/ Done(job[w].watch)
    /\ job' = [job EXCEPT ![w] =
                 IF @.pc = "free" THEN FreeJob
                 ELSE [@ EXCEPT !.closer = "none", !.watch = Nil, !.sock = FALSE]]
    /\ UNCHANGED <<map, op, todo, srvCtx, isRun>>
    /\ Collect

-----------------------------------------------------------------------------
Command(o) ==
    \/ \E r \in Rules : StartCheck(o, r) \/ StopClose(o, r)
    \/ SvcStartCheck(o)
    \/ SvcStopCheck(o)

OpStep(o) ==
    \/ FlagRule(o) \/ EnableRule(o) \/ SpawnRule(o) \/ DisableRule(o)
    \/ SvcStart(o) \/ SvcStop(o)

CtlStep(k) == \E r \in Rules : ControllerSkip(k, r) \/ ControllerLaunch(k, r)

JobStep(w) ==
    \/ Listen(w) \/ Activate(w) \/ CheckEnable(w) \/ AcceptErr(w) \/ Exit(w)

CloserStep(w) == CloserArm(w) \/ CloserFire(w)

Progress ==
    \/ \E o \in Ops : OpStep(o)
    \/ \E k \in Ctls : CtlStep(k)
    \/ \E w \in Jobs : JobStep(w) \/ CloserStep(w)

Connect == \E w \in Jobs : AcceptConn(w)

Next == (\E o \in Ops : Command(o)) \/ Progress \/ Connect

\* The Go scheduler runs every goroutine that can run.  Nobody has to type a
\* command or to open a connection.
Fairness ==
    /\ \A o \in Ops : WF_vars(OpStep(o))
    /\ \A k \in Ctls : WF_vars(CtlStep(k))
    /\ \A w \in Jobs : WF_vars(JobStep(w)) /\ WF_vars(CloserStep(w))

Spec == Init /\ [][Next]_vars
FairSpec == Spec /\ Fairness

-----------------------------------------------------------------------------
(* What the listeners promise whatever commands are given and however they  *)
(* interleave.                                                              *)

\* A port is never left open by a goroutine that has returned, and once the
\* accept loop runs the port can always still be closed: the closing goroutine
\* is about to wait on the contexts or waiting (proxy.go:43-62).
OpenPortIsGuarded ==
    \A w \in Jobs : job[w].sock =>
        \/ job[w].pc = "activate"
        \/ job[w].pc \in {"loop", "accept"} /\ job[w].closer # "none"

\* A rule shown as active is being served by a listener of its own that has
\* not run its deferred reset yet, however many listeners it has had
\* (proxy.go:34-37): no "active" survives the last of them.
StatusHasOwner ==
    \A r \in Rules : map[r].status = "active" =>
        \E w \in Jobs : job[w].rule = r /\ job[w].pc \in {"loop", "accept", "exit"}

\* Every running listener was started under the context the next service stop
\* will cancel, or under one already cancelled: no port is out of reach of
\* `service stop` (proxy.go:45, web.go:123,138).  It needs one operator at a
\* time: two overlapping service starts lose a context.
LiveJobIsCancellable ==
    \A w \in Jobs : job[w].pc # "free" => job[w].srv = srvCtx \/ job[w].srv \in done

\* While the service is stopped the server context is a cancelled one, unless
\* it was never started, in which case no listener exists either.
StoppedMeansCancelled ==
    ~isRun => srvCtx \in done \/ \A w \in Jobs : job[w] = FreeJob

\* A listener whose server context is cancelled gives its port back and
\* returns, whatever happens to its rule meanwhile (proxy.go:43-69).
CancelledServerExits ==
    \A w \in Jobs : (job[w].pc # "free" /\ Done(job[w].srv)) ~> job[w].pc = "free"

\* After a service stop that is not followed by a start, every public port is
\* closed and every goroutine of every listener returns, those of rules started
\* from the shell included (shellcmd.go:49-59, web.go:131-142).
StopReleasesPorts ==
    <>[]~isRun => <>[](\A w \in Jobs : job[w] = FreeJob)

\* `mapping stop <name>` stops the rule (shellcli.go:187): once a rule is and
\* stays disabled its public port is closed for good.
RuleStopCloses ==
    \A r \in Rules : <>[]~map[r].enable =>
        <>[](\A w \in Jobs : ~(job[w].rule = r /\ job[w].sock))
=============================================================================
