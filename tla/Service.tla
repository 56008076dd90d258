------------------------------- MODULE Service -------------------------------
(***************************************************************************)
(* The life of the tunnel service and of its control port.  Each `service  *)
(* start`, from the shell or the panel, runs a Controller of its own:      *)
(* Start waits for server.Ctx and closes the default session,              *)
(* waitControlConn opens the port and accepts, a third goroutine closes    *)
(* the port.  All three read the field server.Ctx whenever they get there, *)
(* and the panel replaces it at every start.                               *)
(*                                                                         *)
(* A failed tls.Listen panics: the process ends, as it does at `exit` or   *)
(* when it is killed, and is started again.  An accepted connection only   *)
(* brings the loop round again (Sessions models what becomes of it), and   *)
(* the rules that Start launches are in Listener.  Commands are given one  *)
(* after the other, but nobody waits for a command to take effect.  Rules  *)
(* and other programs are taken to leave the control port alone, and the   *)
(* certificates to fit (Certs).                                            *)
(*                                                                         *)
(* Bounds: Runs and Ctxs are slots, used again when nothing refers to      *)
(* them; a command waits while every slot it needs is taken.               *)
(***************************************************************************)
EXTENDS Naturals

CONSTANTS
    Ports,      \* TCP ports that may be configured as the control port
    Runs,       \* Controllers, one for each service start (slots)
    Ctxs,       \* contexts of the server (slots)
    Consoles,   \* "shell", "web"
    Nil

ASSUME NilAssumption == Nil \notin Ports \cup Ctxs
ASSUME ConsolesAssumption == Consoles \subseteq {"shell", "web"}

VARIABLES
    run,        \* run[k]: the goroutines of a Controller
    cmd,        \* the command being executed
    ctx,        \* server.Ctx
    done,       \* cancelled contexts
    isRun,      \* server.IsRun
    listenPort, \* Config.ListenPort
    panicked,   \* the process has died: a control port was taken
    hasty       \* the last start was given before the previous one had ended

vars == <<run, cmd, ctx, done, isRun, listenPort, panicked, hasty>>

Idle == [pc |-> "idle", from |-> Nil]
FreeRun == [start |-> "none", await |-> Nil, accept |-> "none", port |-> Nil,
            closer |-> "none", watch |-> Nil]

RunType == [start : {"none", "new", "await", "close"}, await : Ctxs \cup {Nil},
            accept : {"none", "listen", "accept", "failed"}, port : Ports \cup {Nil},
            closer : {"none", "new", "wait"}, watch : Ctxs \cup {Nil}]

TypeOK ==
    /\ run \in [Runs -> RunType]
    /\ cmd \in [pc : {"idle", "start", "stop", "exit"}, from : Consoles \cup {Nil}]
    /\ ctx \in Ctxs
    /\ done \in SUBSET Ctxs
    /\ {isRun, panicked, hasty} \subseteq BOOLEAN
    /\ listenPort \in Ports

Init ==
    /\ run = [k \in Runs |-> FreeRun]
    /\ cmd = Idle
    /\ ctx \in Ctxs
    /\ done = {}
    /\ isRun = FALSE
    /\ listenPort \in Ports
    /\ panicked = FALSE
    /\ hasty = FALSE

\* The process ends and is started again, with the port it was configured with.
Restart ==
    /\ run' = [k \in Runs |-> FreeRun]
    /\ cmd' = Idle
    /\ done' = {}
    /\ isRun' = FALSE
    /\ panicked' = FALSE
    /\ hasty' = FALSE
    /\ UNCHANGED <<ctx, listenPort>>

-----------------------------------------------------------------------------
InUse(c) == ctx = c \/ \E k \in Runs : run[k].await = c \/ run[k].watch = c

\* Contexts that nothing refers to any more are collected.
Collect == done' = {c \in done : InUse(c)'}

Begin(pc, from) == cmd = Idle /\ cmd' = [pc |-> pc, from |-> from]

-----------------------------------------------------------------------------
(* Commands.                                                                *)

StartCheck(from) ==
    /\ ~isRun
    /\ Begin("start", from)
    /\ UNCHANGED <<run, ctx, done, isRun, listenPort, panicked, hasty>>

\* Variant: the panel launches the Controller before it replaces the context.
StartRun_CtxLater ==
    /\ cmd.pc = "start"
    /\ IF cmd.from = "web" THEN \E c \in Ctxs : ~InUse(c) /\ ctx' = c ELSE ctx' = ctx
    /\ \E k \in Runs :
          /\ run[k] = FreeRun
          /\ run' = [run EXCEPT ![k] = [@ EXCEPT !.start = "await", !.await = ctx,
                                                 !.accept = "listen"]]
    /\ hasty' = \E k \in Runs : run[k] # FreeRun
    /\ isRun' = TRUE
    /\ cmd' = Idle
    /\ UNCHANGED <<listenPort, panicked>>
    /\ Collect

\* The panel makes a new context, the shell keeps the one there is.
StartRun ==
    /\ cmd.pc = "start"
    /\ IF cmd.from = "web" THEN \E c \in Ctxs : ~InUse(c) /\ ctx' = c ELSE ctx' = ctx
    /\ \E k \in Runs :
          /\ run[k] = FreeRun
          /\ run' = [run EXCEPT ![k].start = "new"]
    /\ hasty' = \E k \in Runs : run[k] # FreeRun
    /\ isRun' = TRUE
    /\ cmd' = Idle
    /\ UNCHANGED <<listenPort, panicked>>
    /\ Collect

StopCheck(from) ==
    /\ isRun
    /\ Begin("stop", from)
    /\ UNCHANGED <<run, ctx, done, isRun, listenPort, panicked, hasty>>

\* Variant: the cancelled context is dropped.
Stop_Drops ==
    /\ cmd.pc = "stop"
    /\ done' = done \cup {ctx}
    /\ ctx' = Nil
    /\ isRun' = FALSE
    /\ cmd' = Idle
    /\ UNCHANGED <<run, listenPort, panicked, hasty>>

Stop ==
    /\ cmd.pc = "stop"
    /\ done' = done \cup {ctx}
    /\ isRun' = FALSE
    /\ cmd' = Idle
    /\ UNCHANGED <<run, ctx, listenPort, panicked, hasty>>

\* `exit` in the shell: cancel, sleep for a second, end.
Exit ==
    /\ "shell" \in Consoles
    /\ Begin("exit", "shell")
    /\ done' = done \cup {ctx}
    /\ UNCHANGED <<run, ctx, isRun, listenPort, panicked, hasty>>

\* Variant: the open port is closed, to be opened anew.
SetPort_Closes(port) ==
    /\ cmd = Idle
    /\ listenPort' = port
    /\ run' = [k \in Runs |-> [run[k] EXCEPT !.port = Nil]]
    /\ UNCHANGED <<cmd, ctx, done, isRun, panicked, hasty>>

\* config set port, and the panel's settings: an open port is not moved.
SetPort(port) ==
    /\ cmd = Idle
    /\ listenPort' = port
    /\ UNCHANGED <<run, cmd, ctx, done, isRun, panicked, hasty>>

-----------------------------------------------------------------------------
(* A Controller.                                                            *)

\* Controller.Start has launched the rules; it launches waitControlConn and
\* takes server.Ctx to wait for.
StartWaits(k) ==
    /\ run[k].start = "new"
    /\ run' = [run EXCEPT ![k] = [@ EXCEPT !.start = "await", !.await = ctx,
                                           !.accept = "listen"]]
    /\ UNCHANGED <<cmd, ctx, done, isRun, listenPort, panicked, hasty>>

StartWakes(k) ==
    /\ run[k].start = "await"
    /\ run[k].await \in done
    /\ run' = [run EXCEPT ![k].start = "close", ![k].await = Nil]
    /\ UNCHANGED <<cmd, ctx, isRun, listenPort, panicked, hasty>>
    /\ Collect

\* It closes the default session, whichever Controller accepted it.
StartEnds(k) ==
    /\ run[k].start = "close"
    /\ run' = [run EXCEPT ![k].start = "none"]
    /\ UNCHANGED <<cmd, ctx, done, isRun, listenPort, panicked, hasty>>

PortTaken(port) == \E k \in Runs : run[k].port = port

\* Variant: the loop that tries to open the port goes on when it is open.
Listen_Again(k) ==
    /\ run[k].accept = "listen"
    /\ ~panicked
    /\ IF PortTaken(listenPort)
       THEN panicked' = TRUE /\ UNCHANGED run
       ELSE /\ run' = [run EXCEPT ![k].port = listenPort]
            /\ UNCHANGED panicked
    /\ UNCHANGED <<cmd, ctx, done, isRun, listenPort, hasty>>

\* waitControlConn opens the configured port, and panics if it is taken.
Listen(k) ==
    /\ run[k].accept = "listen"
    /\ ~panicked
    /\ IF PortTaken(listenPort)
       THEN panicked' = TRUE /\ UNCHANGED run
       ELSE /\ run' = [run EXCEPT ![k] = [@ EXCEPT !.accept = "accept", !.port = listenPort,
                                                   !.closer = "new"]]
            /\ UNCHANGED panicked
    /\ UNCHANGED <<cmd, ctx, done, isRun, listenPort, hasty>>

\* The closing goroutine takes server.Ctx when it first runs.
CloserWaits(k) ==
    /\ run[k].closer = "new"
    /\ run' = [run EXCEPT ![k] = [@ EXCEPT !.closer = "wait", !.watch = ctx]]
    /\ UNCHANGED <<cmd, ctx, done, isRun, listenPort, panicked, hasty>>

CloserCloses(k) ==
    /\ run[k].closer = "wait"
    /\ run[k].watch \in done
    /\ run' = [run EXCEPT ![k] = [@ EXCEPT !.closer = "none", !.watch = Nil, !.port = Nil]]
    /\ UNCHANGED <<cmd, ctx, isRun, listenPort, panicked, hasty>>
    /\ Collect

\* Accept fails on a closed port ...
AcceptFails(k) ==
    /\ run[k].accept = "accept"
    /\ run[k].port = Nil
    /\ run' = [run EXCEPT ![k].accept = "failed"]
    /\ UNCHANGED <<cmd, ctx, done, isRun, listenPort, panicked, hasty>>

\* Variant: the loop goes on whether or not the context is cancelled.
AcceptEnds_Never(k) ==
    /\ run[k].accept = "failed"
    /\ run' = [run EXCEPT ![k].accept = "accept"]
    /\ UNCHANGED <<cmd, ctx, done, isRun, listenPort, panicked, hasty>>

\* ... and server.Ctx, as it is by now, decides whether the loop ends or tries
\* again on the closed port.
AcceptEnds(k) ==
    /\ run[k].accept = "failed"
    /\ run' = [run EXCEPT ![k].accept = IF ctx \in done THEN "none" ELSE "accept"]
    /\ UNCHANGED <<cmd, ctx, done, isRun, listenPort, panicked, hasty>>

-----------------------------------------------------------------------------
Command ==
    \/ \E from \in Consoles : StartCheck(from) \/ StopCheck(from)
    \/ Exit
    \/ \E port \in Ports : SetPort(port)

StartStep(k) == StartWaits(k) \/ StartWakes(k) \/ StartEnds(k)
AcceptStep(k) == Listen(k) \/ AcceptFails(k) \/ AcceptEnds(k)
CloserStep(k) == CloserWaits(k) \/ CloserCloses(k)

Next ==
    \/ /\ ~panicked
       /\ \/ Command \/ StartRun \/ Stop
          \/ \E k \in Runs : StartStep(k) \/ AcceptStep(k) \/ CloserStep(k)
    \/ Restart

\* Goroutines run as long as the process does.
Fairness ==
    /\ WF_vars(~panicked /\ (StartRun \/ Stop))
    /\ \A k \in Runs :
          /\ WF_vars(~panicked /\ StartStep(k))
          /\ WF_vars(~panicked /\ AcceptStep(k))
          /\ WF_vars(~panicked /\ CloserStep(k))

Spec == Init /\ [][Next]_vars
FairSpec == Spec /\ Fairness

-----------------------------------------------------------------------------
\* Every goroutine waits for a command or a client.
Settled ==
    /\ cmd = Idle /\ ~panicked
    /\ \A k \in Runs :
          \/ run[k] = FreeRun
          \/ /\ run[k].start = "await" /\ run[k].await \notin done
             /\ run[k].accept = "accept" /\ run[k].port # Nil
             /\ run[k].closer = "wait" /\ run[k].watch \notin done

\* The control port is found taken, and the process dies, only when a service
\* is started before the previous one has ended (controller.go:63-67).
PanicNeedsHaste == panicked => hasty

\* Accept loops on a closed port only then: otherwise a loop whose port is
\* closed finds server.Ctx cancelled (controller.go:76-88).
SpinNeedsHaste ==
    \A k \in Runs : run[k].accept \in {"accept", "failed"} /\ run[k].port = Nil =>
        hasty \/ ctx \in done

\* Once a command has taken effect: a stopped service has no control port and
\* no goroutine left, however hurried the commands were; a running one has
\* exactly one control port, which the next stop closes, unless it was started
\* too early or, from the shell, under a cancelled context (controller.go:32-74,
\* web.go:122-142).
SettledControl ==
    /\ Settled /\ ~isRun => \A k \in Runs : run[k] = FreeRun
    /\ Settled /\ isRun /\ ~hasty /\ ctx \notin done =>
          \E k \in Runs :
              /\ run[k].port # Nil /\ run[k].watch = ctx /\ run[k].await = ctx
              /\ \A j \in Runs \ {k} : run[j] = FreeRun

\* After a service stop that is not followed by a start every goroutine of
\* every Controller returns, spinning ones included, however hurried the
\* commands were (controller.go:46-53,70-88).
StopReleasesControlPort ==
    <>[]~isRun => <>[](panicked \/ \A k \in Runs : run[k] = FreeRun)
=============================================================================
