---------------------------- MODULE ServiceProofs ----------------------------
(***************************************************************************)
(* What Service keeps for any number of Controllers, contexts and ports:   *)
(* its types, that only a hasty start can panic or spin, and that a        *)
(* settled service has exactly the control port it should have.            *)
(*                                                                         *)
(* The argument counts Controllers.  A start that is not hasty finds none, *)
(* so until the next start there is one, and every context its goroutines  *)
(* hold is server.Ctx; a context that was replaced before its Controller   *)
(* ended was cancelled by the stop that came between.                      *)
(***************************************************************************)
EXTENDS Service, TLAPS

Busy(k) == run[k] # FreeRun

\* A goroutine that waits, and no other, holds a context; the port is opened,
\* and its closing goroutine launched, after Start has got that far.
Waits ==
    \A k \in Runs :
        /\ run[k].start = "await" <=> run[k].await # Nil
        /\ run[k].closer = "wait" <=> run[k].watch # Nil
        /\ run[k].start = "new" => run[k].accept = "none"
        /\ (run[k].start = "new" \/ run[k].accept = "listen")
              => run[k].port = Nil /\ run[k].closer = "none"

\* Without haste there is one Controller, and it holds server.Ctx.
Lone ==
    ~hasty => \A k \in Runs :
        /\ run[k].await \in {Nil, ctx} /\ run[k].watch \in {Nil, ctx}
        /\ \A j \in Runs : Busy(j) /\ Busy(k) => j = k

\* A context that was replaced while it is waited for is cancelled.
OldDone ==
    \A k \in Runs :
        /\ run[k].await \notin {Nil, ctx} => run[k].await \in done
        /\ run[k].watch \notin {Nil, ctx} => run[k].watch \in done

\* The context of a stopped service is cancelled, unless nothing is left.
Stopped == ~isRun => ctx \in done \/ \A k \in Runs : ~Busy(k)

\* The Controller of a running service waits for its stop.
Running ==
    isRun /\ ~hasty /\ ctx \notin done =>
        \E k \in Runs : run[k].start \in {"new", "await"}

\* A new context is not a cancelled one.
DoneInUse == \A c \in done : InUse(c)

\* A start is carried out while the service is stopped.
Starting == cmd.pc = "start" => ~isRun

IInv == TypeOK /\ Starting /\ DoneInUse /\ Waits /\ Lone /\ OldDone /\ Stopped /\ Running
            /\ PanicNeedsHaste /\ SpinNeedsHaste

\* A slot without a Controller is a well-typed one and holds nothing.
LEMMA FreeRunType ==
  /\ FreeRun \in RunType
  /\ FreeRun.start = "none" /\ FreeRun.accept = "none" /\ FreeRun.closer = "none"
  /\ FreeRun.await = Nil /\ FreeRun.watch = Nil /\ FreeRun.port = Nil
BY DEF FreeRun, RunType

\* A step of one Controller, given what it makes of its slot.
LEMMA RunMoves ==
  ASSUME run \in [Runs -> RunType], NEW k \in Runs, NEW x \in RunType,
         run' = [run EXCEPT ![k] = x]
  PROVE  /\ run' \in [Runs -> RunType]
         /\ run'[k] = x
         /\ \A j \in Runs \ {k} : run'[j] = run[j]
OBVIOUS

\* What the steps of a Controller make of a well-typed slot is well typed.
LEMMA RunEdits ==
  ASSUME NEW r \in RunType
  PROVE  /\ \A c \in Ctxs :
               [r EXCEPT !.start = "await", !.await = c, !.accept = "listen"] \in RunType
         /\ [r EXCEPT !.start = "close", !.await = Nil] \in RunType
         /\ \A p \in Ports :
               [r EXCEPT !.accept = "accept", !.port = p, !.closer = "new"] \in RunType
         /\ \A c \in Ctxs : [r EXCEPT !.closer = "wait", !.watch = c] \in RunType
BY DEF RunType

\* The initial states satisfy IInv.
LEMMA IInvInit == Init => IInv
<1> SUFFICES ASSUME Init PROVE IInv
  OBVIOUS
<1>1. \A k \in Runs : run[k] = FreeRun
  BY DEF Init
<1>2. TypeOK
  <2>1. run \in [Runs -> RunType]
    BY FreeRunType DEF Init
  <2>2. QED
    BY <2>1 DEF Init, Idle, TypeOK
<1>3. DoneInUse /\ Waits /\ Lone /\ OldDone /\ SpinNeedsHaste
  BY <1>1, FreeRunType
     DEF Init, DoneInUse, Waits, Lone, OldDone, SpinNeedsHaste, Busy
<1>4. Starting /\ Stopped /\ Running /\ PanicNeedsHaste
  BY <1>1 DEF Init, Idle, Starting, Stopped, Running, PanicNeedsHaste, Busy
<1>5. QED
  BY <1>2, <1>3, <1>4 DEF IInv

-----------------------------------------------------------------------------
(* The steps.                                                               *)

\* Only a context nobody refers to leaves done.
LEMMA CollectIs ==
  ASSUME Collect
  PROVE  /\ done' \in SUBSET done
         /\ \A c \in done : InUse(c)' => c \in done'
BY DEF Collect

\* Commands that leave the Controllers alone.
LEMMA CommandKeeps ==
  ASSUME IInv, Command \/ Stop
  PROVE  IInv'
<1>1. CASE \E from \in Consoles : StartCheck(from) \/ StopCheck(from)
  BY <1>1, ConsolesAssumption
     DEF StartCheck, StopCheck, Begin, InUse, DoneInUse, Starting, IInv, TypeOK, Waits, Lone,
         OldDone, Stopped, Running, Busy, PanicNeedsHaste, SpinNeedsHaste
<1>2. CASE Exit
  BY <1>2
     DEF Exit, Begin, InUse, DoneInUse, Starting, IInv, TypeOK, Waits, Lone,
         OldDone, Stopped, Running, Busy, PanicNeedsHaste, SpinNeedsHaste
<1>3. CASE \E port \in Ports : SetPort(port)
  BY <1>3
     DEF SetPort, InUse, DoneInUse, Starting, IInv, TypeOK, Waits, Lone, OldDone,
         Stopped,
         Running, Busy, PanicNeedsHaste, SpinNeedsHaste
<1>4. CASE Stop
  BY <1>4
     DEF Stop, Idle, InUse, DoneInUse, Starting, IInv, TypeOK, Waits, Lone,
         OldDone, Stopped, Running, Busy, PanicNeedsHaste, SpinNeedsHaste
<1>5. QED
  BY <1>1, <1>2, <1>3, <1>4 DEF Command

\* A start finds nothing, or is hasty.
LEMMA StartRunKeeps ==
  ASSUME IInv, ~panicked, StartRun
  PROVE  IInv'
<1>1. PICK k \in Runs : run[k] = FreeRun /\ run' = [run EXCEPT ![k].start = "new"]
  BY DEF StartRun
<1>2. /\ \A j \in Runs \ {k} : run'[j] = run[j]
      /\ run'[k] = [FreeRun EXCEPT !.start = "new"]
      /\ run' \in [Runs -> RunType]
  BY <1>1 DEF IInv, TypeOK, RunType
<1>3. /\ run'[k].start = "new" /\ run'[k].accept = "none" /\ run'[k].closer = "none"
      /\ run'[k].await = Nil /\ run'[k].watch = Nil /\ run'[k].port = Nil
  BY <1>2 DEF FreeRun
<1>4. hasty' = \E j \in Runs : run[j] # FreeRun
  BY DEF StartRun
<1>5. ctx' \in Ctxs \ (done \cup {ctx}) \/ ctx' = ctx
  BY DEF StartRun, DoneInUse, InUse, IInv, TypeOK
<1>6. done' \in SUBSET done /\ \A c \in done : InUse(c)' => c \in done'
  BY CollectIs DEF StartRun
<1>7. isRun' /\ cmd' = Idle /\ UNCHANGED <<listenPort, panicked>>
  BY DEF StartRun
<1>8. hasty' \/ \A j \in Runs \ {k} : run'[j] = FreeRun
  BY <1>2, <1>4
<1>9. TypeOK'
  <2>1. cmd' \in [pc : {"idle", "start", "stop", "exit"}, from : Consoles \cup {Nil}]
    BY <1>7 DEF Idle
  <2>2. {isRun, panicked, hasty}' \subseteq BOOLEAN
    BY <1>4, <1>7 DEF IInv, TypeOK, StartRun
  <2>3. QED
    BY <1>2, <1>5, <1>6, <1>7, <2>1, <2>2 DEF IInv, TypeOK
<1>10. DoneInUse' /\ Starting'
  BY <1>7 DEF StartRun, Collect, DoneInUse, Starting, Idle
<1>11. Waits' /\ Lone' /\ Running'
  <2>1. Waits'
    <3>1. ASSUME NEW j \in Runs \ {k}
          PROVE  run'[j] = run[j]
      BY <1>2
    <3>2. QED
      BY <1>3, <3>1 DEF IInv, Waits
  <2>2. Lone'
    BY <1>2, <1>3, <1>8, FreeRunType DEF Lone, Busy
  <2>3. Running'
    BY <1>3 DEF Running
  <2>4. QED
    BY <2>1, <2>2, <2>3
<1>12. OldDone'
  <2>1. ASSUME NEW j \in Runs \ {k}, NEW c \in {run[j].await, run[j].watch}, c \notin {Nil, ctx'}
        PROVE  c \in done'
    <3>1. InUse(c)'
      BY <1>2, <2>1 DEF InUse
    <3>2. c \in done
      <4>1. CASE c = ctx
        BY <1>5, <2>1, <4>1, FreeRunType, <1>2
           DEF StartRun, Starting, IInv, Stopped, Busy
      <4>2. CASE c # ctx
        BY <2>1, <4>2 DEF IInv, OldDone
      <4>3. QED
        BY <4>1, <4>2
    <3>3. QED
      BY <1>6, <3>1, <3>2
  <2>2. QED
    BY <1>2, <1>3, <2>1 DEF OldDone
<1>13. Stopped' /\ PanicNeedsHaste' /\ SpinNeedsHaste'
  <2>1. Stopped' /\ PanicNeedsHaste'
    BY <1>7 DEF Stopped, PanicNeedsHaste
  <2>2. SpinNeedsHaste'
    BY <1>3, <1>8, FreeRunType DEF SpinNeedsHaste
  <2>3. QED
    BY <2>1, <2>2
<1>14. QED
  BY <1>9, <1>10, <1>11, <1>12, <1>13 DEF IInv

\* Controller.Start.
LEMMA StartKeeps ==
  ASSUME IInv, NEW k \in Runs, StartStep(k)
  PROVE  IInv'
<1>1. CASE StartWaits(k)
  <2>1. /\ Busy(k)
        /\ run' \in [Runs -> RunType]
        /\ \A j \in Runs \ {k} : run'[j] = run[j]
    <3> DEFINE x == [run[k] EXCEPT !.start = "await", !.await = ctx, !.accept = "listen"]
    <3>1. run \in [Runs -> RunType] /\ run[k] \in RunType /\ ctx \in Ctxs
      BY DEF IInv, TypeOK
    <3>2. x \in RunType
      BY <3>1, RunEdits
    <3>3. run' = [run EXCEPT ![k] = x] /\ run[k].start = "new"
      BY <1>1 DEF StartWaits
    <3> HIDE DEF x
    <3>4. QED
      BY <3>1, <3>2, <3>3, RunMoves, FreeRunType DEF Busy
  <2>2. /\ run[k].start = "new"
        /\ run'[k].start = "await" /\ run'[k].await = ctx
        /\ run'[k].accept = "listen" /\ run'[k].port = run[k].port
        /\ run'[k].closer = run[k].closer /\ run'[k].watch = run[k].watch
    BY <1>1 DEF StartWaits, IInv, TypeOK, RunType
  <2>3. UNCHANGED <<ctx, isRun, hasty, cmd, listenPort>> /\ done' = done
    BY <1>1 DEF StartWaits
  <2>4. TypeOK'
    BY <1>1, <2>1, <2>3 DEF StartWaits, IInv, TypeOK
  <2>5. DoneInUse' /\ Starting'
    <3>1. DoneInUse'
      BY <2>1, <2>2, <2>3, NilAssumption DEF InUse, DoneInUse, IInv, TypeOK, Waits
    <3>2. Starting'
      BY <2>3 DEF Starting, IInv
    <3>3. QED
      BY <3>1, <3>2
  <2>6. Waits'
    BY <2>1, <2>2, NilAssumption DEF IInv, TypeOK, Waits
  <2>7. Lone' /\ OldDone'
    BY <2>1, <2>2, <2>3 DEF InUse, Lone, OldDone, IInv, Busy
  <2>8. Stopped' /\ Running'
    BY <2>1, <2>2, <2>3
       DEF InUse, Stopped, Running, OldDone, Lone, Waits, IInv, Busy
  <2>9. PanicNeedsHaste' /\ SpinNeedsHaste'
    BY <1>1, <2>1, <2>2, <2>3, NilAssumption
       DEF StartWaits, InUse, PanicNeedsHaste, SpinNeedsHaste, Lone, Waits, IInv,
           TypeOK, Busy
  <2>10. QED
    BY <2>4, <2>5, <2>6, <2>7, <2>8, <2>9 DEF IInv
<1>2. CASE StartWakes(k)
  <2>1. /\ Busy(k)
        /\ run' \in [Runs -> RunType]
        /\ \A j \in Runs \ {k} : run'[j] = run[j]
    <3> DEFINE x == [run[k] EXCEPT !.start = "close", !.await = Nil]
    <3>1. run \in [Runs -> RunType] /\ run[k] \in RunType /\ ctx \in Ctxs
      BY DEF IInv, TypeOK
    <3>2. x \in RunType
      BY <3>1, RunEdits
    <3>3. run' = [run EXCEPT ![k] = x] /\ run[k].start = "await"
      BY <1>2 DEF StartWakes
    <3> HIDE DEF x
    <3>4. QED
      BY <3>1, <3>2, <3>3, RunMoves, FreeRunType DEF Busy
  <2>2. /\ run[k].start = "await" /\ run[k].await \in done
        /\ run'[k].start = "close" /\ run'[k].await = Nil
        /\ run'[k].accept = run[k].accept /\ run'[k].port = run[k].port
        /\ run'[k].closer = run[k].closer /\ run'[k].watch = run[k].watch
    BY <1>2 DEF StartWakes, IInv, TypeOK, RunType
  <2>3. /\ UNCHANGED <<ctx, isRun, hasty, cmd, listenPort>>
        /\ done' \in SUBSET done
        /\ \A c \in done : InUse(c)' => c \in done'
    BY <1>2, CollectIs DEF StartWakes
  <2>4. TypeOK'
    BY <1>2, <2>1, <2>3 DEF StartWakes, IInv, TypeOK
  <2>5. DoneInUse' /\ Starting'
    <3>1. DoneInUse'
      BY <2>1, <2>2, <2>3, NilAssumption, <1>2
         DEF StartWakes, Collect, InUse, DoneInUse, IInv, TypeOK, Waits
    <3>2. Starting'
      BY <2>3 DEF Starting, IInv
    <3>3. QED
      BY <3>1, <3>2
  <2>6. Waits'
    BY <2>1, <2>2, NilAssumption DEF IInv, TypeOK, Waits
  <2>7. Lone' /\ OldDone'
    BY <2>1, <2>2, <2>3 DEF InUse, Lone, OldDone, IInv, Busy
  <2>8. Stopped' /\ Running'
    BY <2>1, <2>2, <2>3
       DEF InUse, Stopped, Running, OldDone, Lone, Waits, IInv, Busy
  <2>9. PanicNeedsHaste' /\ SpinNeedsHaste'
    BY <1>2, <2>1, <2>2, <2>3, NilAssumption
       DEF StartWakes, InUse, PanicNeedsHaste, SpinNeedsHaste, Lone, Waits, IInv,
           TypeOK, Busy
  <2>10. QED
    BY <2>4, <2>5, <2>6, <2>7, <2>8, <2>9 DEF IInv
<1>3. CASE StartEnds(k)
  <2>1. /\ Busy(k)
        /\ run' \in [Runs -> RunType]
        /\ \A j \in Runs \ {k} : run'[j] = run[j]
    BY <1>3, FreeRunType DEF StartEnds, IInv, TypeOK, RunType, Busy
  <2>2. /\ run[k].start = "close"
        /\ run'[k].start = "none" /\ run'[k].await = run[k].await
        /\ run'[k].accept = run[k].accept /\ run'[k].port = run[k].port
        /\ run'[k].closer = run[k].closer /\ run'[k].watch = run[k].watch
    BY <1>3 DEF StartEnds, IInv, TypeOK, RunType
  <2>3. UNCHANGED <<ctx, isRun, hasty, cmd, listenPort>> /\ done' = done
    BY <1>3 DEF StartEnds
  <2>4. TypeOK'
    BY <1>3, <2>1, <2>3 DEF StartEnds, IInv, TypeOK
  <2>5. DoneInUse' /\ Starting'
    <3>1. DoneInUse'
      BY <2>1, <2>2, <2>3, NilAssumption DEF InUse, DoneInUse, IInv, TypeOK, Waits
    <3>2. Starting'
      BY <2>3 DEF Starting, IInv
    <3>3. QED
      BY <3>1, <3>2
  <2>6. Waits'
    BY <2>1, <2>2, NilAssumption DEF IInv, TypeOK, Waits
  <2>7. Lone' /\ OldDone'
    BY <2>1, <2>2, <2>3 DEF InUse, Lone, OldDone, IInv, Busy
  <2>8. Stopped' /\ Running'
    BY <2>1, <2>2, <2>3
       DEF InUse, Stopped, Running, OldDone, Lone, Waits, IInv, Busy
  <2>9. PanicNeedsHaste' /\ SpinNeedsHaste'
    BY <1>3, <2>1, <2>2, <2>3, NilAssumption
       DEF StartEnds, InUse, PanicNeedsHaste, SpinNeedsHaste, Lone, Waits, IInv,
           TypeOK, Busy
  <2>10. QED
    BY <2>4, <2>5, <2>6, <2>7, <2>8, <2>9 DEF IInv
<1>4. QED
  BY <1>1, <1>2, <1>3 DEF StartStep

\* waitControlConn finds a port taken only if there is another Controller.
LEMMA ListenKeeps ==
  ASSUME IInv, NEW k \in Runs, Listen(k)
  PROVE  IInv'
<1>1. CASE PortTaken(listenPort)
  <2>1. hasty
    BY <1>1, FreeRunType, NilAssumption
       DEF Listen, PortTaken, IInv, TypeOK, Waits, Lone, Busy
  <2>2. QED
    BY <1>1, <2>1 DEF Listen, InUse, DoneInUse, Starting, IInv, TypeOK, Waits, Lone,
          OldDone, Stopped, Running, Busy, PanicNeedsHaste, SpinNeedsHaste
<1>2. CASE ~PortTaken(listenPort)
  <2> DEFINE x == [run[k] EXCEPT !.accept = "accept", !.port = listenPort, !.closer = "new"]
  <2>0. run[k].accept = "listen" /\ run' = [run EXCEPT ![k] = x] /\ panicked' = panicked
    BY <1>2 DEF Listen
  <2>1. /\ Busy(k)
        /\ run' \in [Runs -> RunType]
        /\ \A j \in Runs \ {k} : run'[j] = run[j]
    <3>1. run \in [Runs -> RunType] /\ run[k] \in RunType /\ listenPort \in Ports
      BY DEF IInv, TypeOK
    <3>2. x \in RunType
      BY <3>1, RunEdits
    <3> HIDE DEF x
    <3>3. QED
      BY <2>0, <3>1, <3>2, RunMoves, FreeRunType DEF Busy
  <2>2. /\ run[k].accept = "listen"
        /\ run'[k].start = run[k].start /\ run'[k].await = run[k].await
        /\ run'[k].accept = "accept" /\ run'[k].port = listenPort
        /\ run'[k].closer = "new" /\ run'[k].watch = run[k].watch
    BY <2>0 DEF IInv, TypeOK, RunType
  <2>3. UNCHANGED <<ctx, isRun, hasty, cmd, listenPort>> /\ done' = done
    BY <1>2 DEF Listen
  <2>4. TypeOK'
    BY <2>0, <2>1, <2>3 DEF IInv, TypeOK
  <2>5. DoneInUse' /\ Starting'
    <3>1. DoneInUse'
      BY <2>1, <2>2, <2>3, NilAssumption DEF InUse, DoneInUse, IInv, TypeOK, Waits
    <3>2. Starting'
      BY <2>3 DEF Starting, IInv
    <3>3. QED
      BY <3>1, <3>2
  <2>6. Waits'
    BY <2>1, <2>2, NilAssumption DEF IInv, TypeOK, Waits
  <2>7. Lone' /\ OldDone'
    BY <2>1, <2>2, <2>3 DEF InUse, Lone, OldDone, IInv, Busy
  <2>8. Stopped' /\ Running'
    BY <2>1, <2>2, <2>3
       DEF InUse, Stopped, Running, OldDone, Lone, Waits, IInv, Busy
  <2>9. PanicNeedsHaste' /\ SpinNeedsHaste'
    BY <2>0, <2>1, <2>2, <2>3, NilAssumption
       DEF InUse, PanicNeedsHaste, SpinNeedsHaste, Lone, Waits, IInv, TypeOK, Busy
  <2>10. QED
    BY <2>4, <2>5, <2>6, <2>7, <2>8, <2>9 DEF IInv
<1>3. QED
  BY <1>1, <1>2

\* waitControlConn.
LEMMA AcceptKeeps ==
  ASSUME IInv, NEW k \in Runs, AcceptStep(k)
  PROVE  IInv'
<1>1. CASE AcceptFails(k)
  <2>1. /\ Busy(k)
        /\ run' \in [Runs -> RunType]
        /\ \A j \in Runs \ {k} : run'[j] = run[j]
    BY <1>1, FreeRunType DEF AcceptFails, IInv, TypeOK, RunType, Busy
  <2>2. /\ run[k].accept = "accept" /\ run[k].port = Nil
        /\ run'[k].start = run[k].start /\ run'[k].await = run[k].await
        /\ run'[k].accept = "failed" /\ run'[k].port = run[k].port
        /\ run'[k].closer = run[k].closer /\ run'[k].watch = run[k].watch
    BY <1>1 DEF AcceptFails, IInv, TypeOK, RunType
  <2>3. UNCHANGED <<ctx, isRun, hasty, cmd, listenPort>> /\ done' = done
    BY <1>1 DEF AcceptFails
  <2>4. TypeOK'
    BY <1>1, <2>1, <2>3 DEF AcceptFails, IInv, TypeOK
  <2>5. DoneInUse' /\ Starting'
    <3>1. DoneInUse'
      BY <2>1, <2>2, <2>3, NilAssumption DEF InUse, DoneInUse, IInv, TypeOK, Waits
    <3>2. Starting'
      BY <2>3 DEF Starting, IInv
    <3>3. QED
      BY <3>1, <3>2
  <2>6. Waits'
    BY <2>1, <2>2, NilAssumption DEF IInv, TypeOK, Waits
  <2>7. Lone' /\ OldDone'
    BY <2>1, <2>2, <2>3 DEF InUse, Lone, OldDone, IInv, Busy
  <2>8. Stopped' /\ Running'
    BY <2>1, <2>2, <2>3
       DEF InUse, Stopped, Running, OldDone, Lone, Waits, IInv, Busy
  <2>9. PanicNeedsHaste' /\ SpinNeedsHaste'
    BY <1>1, <2>1, <2>2, <2>3, NilAssumption
       DEF AcceptFails, InUse, PanicNeedsHaste, SpinNeedsHaste, Lone, Waits, IInv,
           TypeOK, Busy
  <2>10. QED
    BY <2>4, <2>5, <2>6, <2>7, <2>8, <2>9 DEF IInv
<1>2. CASE AcceptEnds(k)
  <2>1. /\ Busy(k)
        /\ run' \in [Runs -> RunType]
        /\ \A j \in Runs \ {k} : run'[j] = run[j]
    BY <1>2, FreeRunType DEF AcceptEnds, IInv, TypeOK, RunType, Busy
  <2>2. /\ run[k].accept = "failed"
        /\ run'[k].start = run[k].start /\ run'[k].await = run[k].await
        /\ run'[k].accept = (IF ctx \in done THEN "none" ELSE "accept") /\ run'[k].port = run[k].port
        /\ run'[k].closer = run[k].closer /\ run'[k].watch = run[k].watch
    BY <1>2 DEF AcceptEnds, IInv, TypeOK, RunType
  <2>3. UNCHANGED <<ctx, isRun, hasty, cmd, listenPort>> /\ done' = done
    BY <1>2 DEF AcceptEnds
  <2>4. TypeOK'
    BY <1>2, <2>1, <2>3 DEF AcceptEnds, IInv, TypeOK
  <2>5. DoneInUse' /\ Starting'
    <3>1. DoneInUse'
      BY <2>1, <2>2, <2>3, NilAssumption DEF InUse, DoneInUse, IInv, TypeOK, Waits
    <3>2. Starting'
      BY <2>3 DEF Starting, IInv
    <3>3. QED
      BY <3>1, <3>2
  <2>6. Waits'
    BY <2>1, <2>2, NilAssumption DEF IInv, TypeOK, Waits
  <2>7. Lone' /\ OldDone'
    BY <2>1, <2>2, <2>3 DEF InUse, Lone, OldDone, IInv, Busy
  <2>8. Stopped' /\ Running'
    BY <2>1, <2>2, <2>3
       DEF InUse, Stopped, Running, OldDone, Lone, Waits, IInv, Busy
  <2>9. PanicNeedsHaste' /\ SpinNeedsHaste'
    BY <1>2, <2>1, <2>2, <2>3, NilAssumption
       DEF AcceptEnds, InUse, PanicNeedsHaste, SpinNeedsHaste, Lone, Waits, IInv,
           TypeOK, Busy
  <2>10. QED
    BY <2>4, <2>5, <2>6, <2>7, <2>8, <2>9 DEF IInv
<1>3. CASE Listen(k)
  BY <1>3, ListenKeeps
<1>4. QED
  BY <1>1, <1>2, <1>3 DEF AcceptStep

\* The closing goroutine.
LEMMA CloserKeeps ==
  ASSUME IInv, NEW k \in Runs, CloserStep(k)
  PROVE  IInv'
<1>1. CASE CloserWaits(k)
  <2>1. /\ Busy(k)
        /\ run' \in [Runs -> RunType]
        /\ \A j \in Runs \ {k} : run'[j] = run[j]
    <3> DEFINE x == [run[k] EXCEPT !.closer = "wait", !.watch = ctx]
    <3>1. run \in [Runs -> RunType] /\ run[k] \in RunType /\ ctx \in Ctxs
      BY DEF IInv, TypeOK
    <3>2. x \in RunType
      BY <3>1, RunEdits
    <3>3. run' = [run EXCEPT ![k] = x] /\ run[k].closer = "new"
      BY <1>1 DEF CloserWaits
    <3> HIDE DEF x
    <3>4. QED
      BY <3>1, <3>2, <3>3, RunMoves, FreeRunType DEF Busy
  <2>2. /\ run[k].closer = "new"
        /\ run'[k].start = run[k].start /\ run'[k].await = run[k].await
        /\ run'[k].accept = run[k].accept /\ run'[k].port = run[k].port
        /\ run'[k].closer = "wait" /\ run'[k].watch = ctx
    BY <1>1 DEF CloserWaits, IInv, TypeOK, RunType
  <2>3. UNCHANGED <<ctx, isRun, hasty, cmd, listenPort>> /\ done' = done
    BY <1>1 DEF CloserWaits
  <2>4. TypeOK'
    BY <1>1, <2>1, <2>3 DEF CloserWaits, IInv, TypeOK
  <2>5. DoneInUse' /\ Starting'
    <3>1. DoneInUse'
      BY <2>1, <2>2, <2>3, NilAssumption DEF InUse, DoneInUse, IInv, TypeOK, Waits
    <3>2. Starting'
      BY <2>3 DEF Starting, IInv
    <3>3. QED
      BY <3>1, <3>2
  <2>6. Waits'
    BY <2>1, <2>2, NilAssumption DEF IInv, TypeOK, Waits
  <2>7. Lone' /\ OldDone'
    BY <2>1, <2>2, <2>3 DEF InUse, Lone, OldDone, IInv, Busy
  <2>8. Stopped' /\ Running'
    BY <2>1, <2>2, <2>3
       DEF InUse, Stopped, Running, OldDone, Lone, Waits, IInv, Busy
  <2>9. PanicNeedsHaste' /\ SpinNeedsHaste'
    BY <1>1, <2>1, <2>2, <2>3, NilAssumption
       DEF CloserWaits, InUse, PanicNeedsHaste, SpinNeedsHaste, Lone, Waits, IInv,
           TypeOK, Busy
  <2>10. QED
    BY <2>4, <2>5, <2>6, <2>7, <2>8, <2>9 DEF IInv
<1>2. CASE CloserCloses(k)
  <2>1. /\ Busy(k)
        /\ run' \in [Runs -> RunType]
        /\ \A j \in Runs \ {k} : run'[j] = run[j]
    BY <1>2, FreeRunType DEF CloserCloses, IInv, TypeOK, RunType, Busy
  <2>2. /\ run[k].closer = "wait" /\ run[k].watch \in done
        /\ run'[k].start = run[k].start /\ run'[k].await = run[k].await
        /\ run'[k].accept = run[k].accept /\ run'[k].port = Nil
        /\ run'[k].closer = "none" /\ run'[k].watch = Nil
    BY <1>2 DEF CloserCloses, IInv, TypeOK, RunType
  <2>3. /\ UNCHANGED <<ctx, isRun, hasty, cmd, listenPort>>
        /\ done' \in SUBSET done
        /\ \A c \in done : InUse(c)' => c \in done'
    BY <1>2, CollectIs DEF CloserCloses
  <2>4. TypeOK'
    BY <1>2, <2>1, <2>3 DEF CloserCloses, IInv, TypeOK
  <2>5. DoneInUse' /\ Starting'
    <3>1. DoneInUse'
      BY <2>1, <2>2, <2>3, NilAssumption, <1>2
         DEF CloserCloses, Collect, InUse, DoneInUse, IInv, TypeOK, Waits
    <3>2. Starting'
      BY <2>3 DEF Starting, IInv
    <3>3. QED
      BY <3>1, <3>2
  <2>6. Waits'
    BY <2>1, <2>2, NilAssumption DEF IInv, TypeOK, Waits
  <2>7. Lone' /\ OldDone'
    BY <2>1, <2>2, <2>3 DEF InUse, Lone, OldDone, IInv, Busy
  <2>8. Stopped' /\ Running'
    BY <2>1, <2>2, <2>3
       DEF InUse, Stopped, Running, OldDone, Lone, Waits, IInv, Busy
  <2>9. PanicNeedsHaste' /\ SpinNeedsHaste'
    BY <1>2, <2>1, <2>2, <2>3, NilAssumption
       DEF CloserCloses, InUse, PanicNeedsHaste, SpinNeedsHaste, Lone, Waits, IInv,
           TypeOK, Busy
  <2>10. QED
    BY <2>4, <2>5, <2>6, <2>7, <2>8, <2>9 DEF IInv
<1>3. QED
  BY <1>1, <1>2 DEF CloserStep

\* A process that has just started again.
LEMMA RestartKeeps ==
  ASSUME IInv, Restart
  PROVE  IInv'
<1>1. \A k \in Runs : run'[k] = FreeRun
  BY DEF Restart
<1>2. TypeOK'
  <2>1. run' \in [Runs -> RunType]
    BY FreeRunType DEF Restart
  <2>2. QED
    BY <2>1 DEF Restart, Idle, IInv, TypeOK
<1>3. DoneInUse' /\ Waits' /\ Lone' /\ OldDone' /\ SpinNeedsHaste'
  BY <1>1, FreeRunType
     DEF Restart, DoneInUse, Waits, Lone, OldDone, SpinNeedsHaste, Busy
<1>4. Starting' /\ Stopped' /\ Running' /\ PanicNeedsHaste'
  BY <1>1 DEF Restart, Idle, Starting, Stopped, Running, PanicNeedsHaste, Busy
<1>5. QED
  BY <1>2, <1>3, <1>4 DEF IInv

\* Every step keeps IInv.
LEMMA IInvStep == IInv /\ [Next]_vars => IInv'
<1> SUFFICES ASSUME IInv, [Next]_vars PROVE IInv'
  OBVIOUS
<1>1. CASE UNCHANGED vars
  BY <1>1
     DEF vars, InUse, DoneInUse, Starting, IInv, TypeOK, Waits, Lone, OldDone,
         Stopped,
              Running, Busy, PanicNeedsHaste, SpinNeedsHaste
<1>2. CASE Restart
  BY <1>2, RestartKeeps
<1>3. CASE ~panicked /\ (Command \/ Stop)
  BY <1>3, CommandKeeps
<1>4. CASE ~panicked /\ StartRun
  BY <1>4, StartRunKeeps
<1>5. CASE \E k \in Runs : StartStep(k) \/ AcceptStep(k) \/ CloserStep(k)
  BY <1>5, StartKeeps, AcceptKeeps, CloserKeeps
<1>6. QED
  BY <1>1, <1>2, <1>3, <1>4, <1>5 DEF Next

\* IInv is an invariant of the specification.
LEMMA IInvAlways == Spec => []IInv
BY IInvInit, IInvStep, PTL DEF Spec

-----------------------------------------------------------------------------
\* Every goroutine of a Controller holds contexts and ports of the right kind
\* and server.Ctx is never dropped, whoever stops, starts and exits
\* (controller.go:32-88).
THEOREM TypeCorrect == Spec => []TypeOK
BY IInvAlways, PTL DEF IInv

\* A control port is found taken only by a start that was given before the
\* previous service had ended (controller.go:63-67).
THEOREM OnlyHastePanics == Spec => []PanicNeedsHaste
BY IInvAlways, PTL DEF IInv

\* Without haste a loop whose port is closed finds server.Ctx cancelled
\* (controller.go:76-88).
THEOREM OnlyHasteSpins == Spec => []SpinNeedsHaste
BY IInvAlways, PTL DEF IInv

\* Once a command has taken effect, a stopped service has nothing left and a
\* running one exactly one control port, under server.Ctx
\* (controller.go:32-74, web.go:122-142).
THEOREM ControlPortSettles == Spec => []SettledControl
<1>1. IInv => SettledControl
  <2> SUFFICES ASSUME IInv, Settled PROVE SettledControl
    BY DEF SettledControl
  <2>1. ASSUME ~isRun, NEW k \in Runs
        PROVE  run[k] = FreeRun
    <3>1. SUFFICES ASSUME Busy(k) PROVE FALSE
      BY DEF Busy
    <3>2. run[k].await # Nil /\ run[k].await \notin done
      BY <3>1 DEF Busy, Settled, IInv, Waits
    <3>3. ctx \in done
      BY <2>1, <3>1 DEF IInv, Stopped
    <3>4. QED
      BY <3>2, <3>3 DEF IInv, OldDone
  <2>2. ASSUME isRun, ~hasty, ctx \notin done
        PROVE  \E k \in Runs :
                  /\ run[k].port # Nil /\ run[k].watch = ctx /\ run[k].await = ctx
                  /\ \A j \in Runs \ {k} : run[j] = FreeRun
    <3>1. PICK k \in Runs : run[k].start \in {"new", "await"}
      BY <2>2 DEF IInv, Running
    <3>2. Busy(k)
      BY <3>1, FreeRunType DEF Busy
    <3>3. run[k].port # Nil /\ run[k].watch # Nil /\ run[k].await # Nil
      BY <3>2 DEF Busy, Settled, IInv, Waits
    <3>4. run[k].watch = ctx /\ run[k].await = ctx
      BY <2>2, <3>3 DEF IInv, Lone
    <3>5. \A j \in Runs \ {k} : run[j] = FreeRun
      BY <2>2, <3>2 DEF IInv, Lone, Busy
    <3>6. QED
      BY <3>3, <3>4, <3>5
  <2>3. QED
    BY <2>1, <2>2 DEF SettledControl
<1>2. QED
  BY <1>1, IInvAlways, PTL
=============================================================================
