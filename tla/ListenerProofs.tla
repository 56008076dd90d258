--------------------------- MODULE ListenerProofs ---------------------------
(***************************************************************************)
(* Theorems about Listener, about its Solo discipline and about the record *)
(* of hasty starts, for any number of rules, ports, goroutines, contexts   *)
(* and commands.                                                           *)
(***************************************************************************)
EXTENDS HastyListener, TLAPS

\* A command about a rule and a goroutine that is in use name a rule.
OpHasRule ==
    \A o \in Ops : op[o].pc \in {"flag", "enable", "spawn", "disable"} => op[o].rule \in Rules

JobHasRule ==
    \A w \in Jobs : job[w].pc # "free" \/ job[w].closer # "none" =>
        job[w].rule \in Rules /\ job[w].srv \in SrvCtxs

\* The type invariant is inductive only with the facts that make map[...]
\* defined wherever it is read.
TypeInv == TypeOK /\ OpHasRule /\ JobHasRule

USE DEF Ops

\* A slot without a goroutine is a well-typed one.
LEMMA FreeJobType == FreeJob \in JobType
BY DEF FreeJob, JobType

\* What the steps of a goroutine make of a well-typed slot is well typed.
LEMMA JobEdits ==
  ASSUME NEW j \in JobType
  PROVE  /\ \A q \in Ports : [j EXCEPT !.pc = "activate", !.sock = TRUE, !.port = q] \in JobType
         /\ [j EXCEPT !.pc = "loop", !.closer = "new"] \in JobType
         /\ [j EXCEPT !.pc = "accept"] \in JobType
         /\ [j EXCEPT !.pc = "exit", !.sock = FALSE] \in JobType
         /\ [j EXCEPT !.pc = "free"] \in JobType
         /\ \A c \in Ctxs \cup {Nil} : [j EXCEPT !.closer = "wait", !.watch = c] \in JobType
         /\ [j EXCEPT !.closer = "none", !.watch = Nil, !.sock = FALSE] \in JobType
<1>1. \A q \in Ports : [j EXCEPT !.pc = "activate", !.sock = TRUE, !.port = q] \in JobType
  BY DEF JobType
<1>2. [j EXCEPT !.pc = "loop", !.closer = "new"] \in JobType
  BY DEF JobType
<1>3. [j EXCEPT !.pc = "accept"] \in JobType /\ [j EXCEPT !.pc = "free"] \in JobType
  BY DEF JobType
<1>4. [j EXCEPT !.pc = "exit", !.sock = FALSE] \in JobType
  BY DEF JobType
<1>5. \A c \in Ctxs \cup {Nil} : [j EXCEPT !.closer = "wait", !.watch = c] \in JobType
  BY DEF JobType
<1>6. [j EXCEPT !.closer = "none", !.watch = Nil, !.sock = FALSE] \in JobType
  BY DEF JobType
<1>7. QED
  BY <1>1, <1>2, <1>3, <1>4, <1>5, <1>6

\* A rule that is enabled or disabled stays a well-typed one.
LEMMA EnableEdit ==
  ASSUME NEW m \in MappingType, NEW b \in BOOLEAN
  PROVE  [m EXCEPT !.enable = b] \in MappingType
BY DEF MappingType

\* A step that enables or disables one rule keeps the rules well typed.
LEMMA EnableType ==
  ASSUME map \in [Rules -> MappingType], NEW r \in Rules, NEW b \in BOOLEAN,
         map' = [map EXCEPT ![r].enable = b]
  PROVE  map' \in [Rules -> MappingType]
<1>1. map[r] \in MappingType
  OBVIOUS
<1>2. [map[r] EXCEPT !.enable = b] \in MappingType
  BY <1>1, EnableEdit
<1>3. QED
  BY <1>2

\* A command that ends leaves its slot well typed, and names no rule.
LEMMA EndType ==
  ASSUME TypeInv, NEW o \in Ops, End(o)
  PROVE  op' \in [Ops -> OpType] /\ OpHasRule'
<1>1. IdleOp \in OpType /\ IdleOp.pc = "idle"
  BY DEF IdleOp, OpType
<1>2. op' = [op EXCEPT ![o] = IdleOp] /\ op \in [Ops -> OpType]
  BY DEF End, TypeInv, TypeOK
<1>3. op' \in [Ops -> OpType]
  BY <1>1, <1>2
<1>4. OpHasRule'
  BY <1>1, <1>2 DEF TypeInv, OpHasRule
<1>5. QED
  BY <1>3, <1>4

\* A launch puts a well-typed goroutine in its slot.
LEMMA LaunchType ==
  ASSUME TypeInv, NEW r \in Rules, NEW p \in SrvCtxs \cup {Nil}, Launch(r, p)
  PROVE  /\ map' \in [Rules -> MappingType]
         /\ job' \in [Jobs -> JobType]
         /\ parent' \in [Ctxs -> SrvCtxs \cup {Nil}]
         /\ done' \in SUBSET (Ctxs \cup SrvCtxs)
         /\ JobHasRule'
<1>1. PICK w \in Jobs, c \in Ctxs :
         /\ map' = [map EXCEPT ![r].ctx = c]
         /\ parent' = [d \in Ctxs |->
                          IF d = c THEN (IF Done(p) THEN Nil ELSE p)
                          ELSE IF CtxInUse(d)' THEN parent[d] ELSE Nil]
         /\ done' = {d \in done : CtxInUse(d)' \/ SrvCtxInUse(d)'}
                       \cup (IF Done(p) THEN {c} ELSE {})
         /\ job' = [job EXCEPT ![w] = [FreeJob EXCEPT !.pc = "listen", !.rule = r,
                                                      !.srv = srvCtx]]
  BY DEF Launch
<1>2. [FreeJob EXCEPT !.pc = "listen", !.rule = r, !.srv = srvCtx] \in JobType
  BY DEF TypeInv, TypeOK, FreeJob, JobType
<1>3. job' \in [Jobs -> JobType]
  BY <1>1, <1>2 DEF TypeInv, TypeOK
<1>4. map' \in [Rules -> MappingType]
  BY <1>1 DEF TypeInv, TypeOK, MappingType
<1>5. parent' \in [Ctxs -> SrvCtxs \cup {Nil}] /\ done' \in SUBSET (Ctxs \cup SrvCtxs)
  BY <1>1 DEF TypeInv, TypeOK
<1>6. JobHasRule'
  BY <1>1 DEF TypeInv, TypeOK, JobHasRule, FreeJob
<1>7. QED
  BY <1>3, <1>4, <1>5, <1>6

\* Collecting contexts keeps the types of what it leaves.
LEMMA CollectType ==
  ASSUME TypeOK, Collect
  PROVE  parent' \in [Ctxs -> SrvCtxs \cup {Nil}] /\ done' \in SUBSET (Ctxs \cup SrvCtxs)
BY DEF TypeOK, Collect

\* The initial states are well typed.
LEMMA TypeInvInit == Init => TypeInv
<1> SUFFICES ASSUME Init PROVE TypeInv
  OBVIOUS
<1>1. map \in [Rules -> MappingType]
  BY DEF Init, MappingType
<1>2. job \in [Jobs -> JobType] /\ op \in [Ops -> OpType]
  BY FreeJobType DEF Init, IdleOp, OpType
<1>3. OpHasRule /\ JobHasRule
  BY DEF Init, OpHasRule, JobHasRule, FreeJob, IdleOp
<1>4. QED
  BY <1>1, <1>2, <1>3 DEF Init, TypeInv, TypeOK

\* Every step keeps the types, by one case per action.
LEMMA TypeInvStep == TypeInv /\ [Next]_vars => TypeInv'
<1> SUFFICES ASSUME TypeInv, [Next]_vars PROVE TypeInv'
  OBVIOUS
<1> USE DEF TypeInv, TypeOK, OpHasRule, JobHasRule
<1>1. ASSUME NEW o \in Ops, NEW r \in Rules, StartCheck(o, r) PROVE TypeInv'
  BY <1>1 DEF StartCheck, Begin, IdleOp, OpType
<1>2. ASSUME NEW o \in Ops, NEW r \in Rules, StopClose(o, r) PROVE TypeInv'
  BY <1>2 DEF StopClose, Begin, IdleOp, OpType, MappingType
<1>3. ASSUME NEW o \in Ops, SvcStartCheck(o) PROVE TypeInv'
  BY <1>3 DEF SvcStartCheck, Begin, IdleOp, OpType
<1>4. ASSUME NEW o \in Ops, SvcStopCheck(o) PROVE TypeInv'
  BY <1>4 DEF SvcStopCheck, Begin, IdleOp, OpType
<1>5. ASSUME NEW o \in Ops, FlagRule(o) PROVE TypeInv'
  <2>1. op[o].rule \in Rules
    BY <1>5 DEF FlagRule
  <2>2. map' \in [Rules -> MappingType]
    BY <1>5, <2>1, EnableType DEF FlagRule
  <2>3. op' \in [Ops -> OpType] /\ OpHasRule'
    BY <1>5, EndType DEF FlagRule
  <2>4. QED
    BY <1>5, <2>2, <2>3 DEF FlagRule
<1>6. ASSUME NEW o \in Ops, EnableRule(o) PROVE TypeInv'
  <2>1. op[o].rule \in Rules
    BY <1>6 DEF EnableRule
  <2>2. map' \in [Rules -> MappingType]
    BY <1>6, <2>1, EnableType DEF EnableRule
  <2>3. op' \in [Ops -> OpType] /\ OpHasRule'
    BY <1>6, <2>1 DEF EnableRule, OpType
  <2>4. QED
    BY <1>6, <2>2, <2>3 DEF EnableRule
<1>7. ASSUME NEW o \in Ops, SpawnRule(o) PROVE TypeInv'
  <2>1. op[o].rule \in Rules
    BY <1>7 DEF SpawnRule
  <2>2. Launch(op[o].rule, IF o \in ShellOps THEN Nil ELSE srvCtx)
    BY <1>7 DEF SpawnRule
  <2>3. (IF o \in ShellOps THEN Nil ELSE srvCtx) \in SrvCtxs \cup {Nil}
    OBVIOUS
  <2>4. QED
    BY <1>7, <2>1, <2>2, <2>3, LaunchType DEF SpawnRule, End, IdleOp, OpType
<1>8. ASSUME NEW o \in Ops, DisableRule(o) PROVE TypeInv'
  <2>1. op[o].rule \in Rules
    BY <1>8 DEF DisableRule
  <2>2. map' \in [Rules -> MappingType]
    BY <1>8, <2>1, EnableType DEF DisableRule
  <2>3. op' \in [Ops -> OpType] /\ OpHasRule'
    BY <1>8, EndType DEF DisableRule
  <2>4. QED
    BY <1>8, <2>2, <2>3 DEF DisableRule
<1>9. ASSUME NEW o \in Ops, SvcStart(o) PROVE TypeInv'
  BY <1>9, CollectType DEF SvcStart, End, IdleOp, OpType
<1>10. ASSUME NEW o \in Ops, SvcStop(o) PROVE TypeInv'
  BY <1>10 DEF SvcStop, End, IdleOp, OpType
<1>11. ASSUME NEW k \in Ctls, NEW r \in Rules, ControllerSkip(k, r) PROVE TypeInv'
  BY <1>11 DEF ControllerSkip
<1>12. ASSUME NEW k \in Ctls, NEW r \in Rules, ControllerLaunch(k, r) PROVE TypeInv'
  BY <1>12, LaunchType DEF ControllerLaunch
<1>13. ASSUME NEW w \in Jobs, Listen(w) PROVE TypeInv'
  <2>0. \A q \in Ports :
          [job[w] EXCEPT !.pc = "activate", !.sock = TRUE, !.port = q] \in JobType
    BY JobEdits
  <2>a. map[job[w].rule].port \in Ports
    BY <1>13 DEF Listen, MappingType
  <2>1. job' \in [Jobs -> JobType]
    BY <1>13, <2>0, <2>a, FreeJobType DEF Listen
  <2>2. JobHasRule'
    BY <1>13 DEF Listen, FreeJob
  <2>3. QED
    BY <1>13, <2>1, <2>2, CollectType DEF Listen
<1>14. ASSUME NEW w \in Jobs, Activate(w) PROVE TypeInv'
  <2>0. [job[w] EXCEPT !.pc = "loop", !.closer = "new"] \in JobType
    BY JobEdits
  <2>1. job' \in [Jobs -> JobType]
    BY <1>14, <2>0 DEF Activate
  <2>2. JobHasRule'
    BY <1>14 DEF Activate
  <2>3. QED
    BY <1>14, <2>1, <2>2 DEF Activate, MappingType
<1>15. ASSUME NEW w \in Jobs, CheckEnable(w) PROVE TypeInv'
  <2>0. /\ [job[w] EXCEPT !.pc = "accept"] \in JobType
        /\ [job[w] EXCEPT !.pc = "exit", !.sock = FALSE] \in JobType
    BY JobEdits
  <2>1. job' \in [Jobs -> JobType]
    BY <1>15, <2>0 DEF CheckEnable
  <2>2. JobHasRule'
    BY <1>15 DEF CheckEnable
  <2>3. QED
    BY <1>15, <2>1, <2>2 DEF CheckEnable
<1>16. ASSUME NEW w \in Jobs, AcceptConn(w) PROVE TypeInv'
  <2>1. job' \in [Jobs -> JobType]
    BY <1>16 DEF AcceptConn, JobType
  <2>2. JobHasRule'
    BY <1>16 DEF AcceptConn
  <2>3. QED
    BY <1>16, <2>1, <2>2 DEF AcceptConn
<1>17. ASSUME NEW w \in Jobs, AcceptErr(w) PROVE TypeInv'
  <2>1. job' \in [Jobs -> JobType]
    BY <1>17 DEF AcceptErr, JobType
  <2>2. JobHasRule'
    BY <1>17 DEF AcceptErr
  <2>3. QED
    BY <1>17, <2>1, <2>2 DEF AcceptErr
<1>18. ASSUME NEW w \in Jobs, Exit(w) PROVE TypeInv'
  <2>0. [job[w] EXCEPT !.pc = "free"] \in JobType
    BY JobEdits
  <2>1. job' \in [Jobs -> JobType]
    BY <1>18, <2>0, FreeJobType DEF Exit
  <2>2. JobHasRule'
    BY <1>18 DEF Exit, FreeJob
  <2>3. QED
    BY <1>18, <2>1, <2>2, CollectType DEF Exit, MappingType
<1>19. ASSUME NEW w \in Jobs, CloserArm(w) PROVE TypeInv'
  <2>0. \A c \in Ctxs \cup {Nil} :
          [job[w] EXCEPT !.closer = "wait", !.watch = c] \in JobType
    BY JobEdits
  <2>1. map[job[w].rule].ctx \in Ctxs \cup {Nil}
    BY <1>19 DEF CloserArm, MappingType
  <2>2. job' \in [Jobs -> JobType]
    BY <1>19, <2>0, <2>1 DEF CloserArm
  <2>3. JobHasRule'
    BY <1>19 DEF CloserArm
  <2>4. QED
    BY <1>19, <2>2, <2>3 DEF CloserArm
<1>20. ASSUME NEW w \in Jobs, CloserFire(w) PROVE TypeInv'
  <2>0. [job[w] EXCEPT !.closer = "none", !.watch = Nil, !.sock = FALSE] \in JobType
    BY JobEdits
  <2>1. job' \in [Jobs -> JobType]
    BY <1>20, <2>0, FreeJobType DEF CloserFire
  <2>2. JobHasRule'
    BY <1>20 DEF CloserFire, FreeJob
  <2>3. QED
    BY <1>20, <2>1, <2>2, CollectType DEF CloserFire
<1>21. CASE UNCHANGED vars
  BY <1>21 DEF vars
<1>22. QED
  BY <1>1, <1>2, <1>3, <1>4, <1>5, <1>6, <1>7, <1>8, <1>9, <1>10, <1>11, <1>12, <1>13,
     <1>14, <1>15, <1>16, <1>17, <1>18, <1>19, <1>20, <1>21
     DEF Next, Command, Progress, Connect, OpStep, CtlStep, JobStep, CloserStep

\* Every variable keeps its type, whatever commands are given.
THEOREM TypeCorrect == Spec => []TypeOK
<1>1. TypeInv => TypeOK
  BY DEF TypeInv
<1>2. QED
  BY TypeInvInit, TypeInvStep, <1>1, PTL DEF Spec

-----------------------------------------------------------------------------
(* Ports and status, for all commands and all interleavings.                *)

\* Neither needs a strengthening: a step that could leave a port unguarded, or
\* a status behind, is excluded by the place of the goroutine that takes it.
PortInv == TypeInv /\ OpenPortIsGuarded /\ StatusHasOwner

\* The two steps that start a goroutine give it no port, and set no status.
LEMMA LaunchPort ==
  ASSUME PortInv, NEW r \in Rules, NEW p \in SrvCtxs \cup {Nil}, Launch(r, p)
  PROVE  OpenPortIsGuarded' /\ StatusHasOwner'
<1>1. PICK w \in Jobs, c \in Ctxs :
         /\ job[w] = FreeJob
         /\ map' = [map EXCEPT ![r].ctx = c]
         /\ job' = [job EXCEPT ![w] = [FreeJob EXCEPT !.pc = "listen", !.rule = r,
                                                      !.srv = srvCtx]]
  BY DEF Launch
<1>2. OpenPortIsGuarded'
  BY <1>1 DEF PortInv, TypeInv, TypeOK, OpenPortIsGuarded, FreeJob
<1>3. StatusHasOwner'
  <2>1. \A q \in Rules : map'[q].status = map[q].status
    BY <1>1 DEF PortInv, TypeInv, TypeOK, MappingType
  <2>2. \A v \in Jobs : job[v].pc \in {"loop", "accept", "exit"} => job'[v] = job[v]
    BY <1>1 DEF PortInv, TypeInv, TypeOK, FreeJob
  <2>3. QED
    BY <2>1, <2>2 DEF PortInv, StatusHasOwner
<1>4. QED
  BY <1>2, <1>3

\* A step that leaves the goroutines alone and sets no status disturbs neither.
LEMMA OtherPort ==
  ASSUME PortInv, job' = job, \A q \in Rules : map'[q].status = map[q].status
  PROVE  OpenPortIsGuarded' /\ StatusHasOwner'
BY DEF PortInv, OpenPortIsGuarded, StatusHasOwner

\* Every step keeps ports guarded and statuses owned, by one case per action.
LEMMA PortInvStep == PortInv /\ [Next]_vars => PortInv'
<1> SUFFICES ASSUME PortInv, [Next]_vars PROVE OpenPortIsGuarded' /\ StatusHasOwner'
  BY TypeInvStep DEF PortInv
<1> USE DEF PortInv, TypeInv, TypeOK
<1>1. ASSUME NEW o \in Ops, Command(o) PROVE OpenPortIsGuarded' /\ StatusHasOwner'
  BY <1>1, OtherPort DEF Command, StartCheck, StopClose, SvcStartCheck, SvcStopCheck
<1>2. ASSUME NEW o \in Ops, OpStep(o) PROVE OpenPortIsGuarded' /\ StatusHasOwner'
  <2>1. CASE FlagRule(o)
    BY <2>1, OtherPort DEF FlagRule, MappingType
  <2>2. CASE EnableRule(o)
    BY <2>2, OtherPort DEF EnableRule, MappingType
  <2>3. CASE SpawnRule(o)
    <3>1. op[o].rule \in Rules
      BY <2>3 DEF SpawnRule, OpHasRule
    <3>2. Launch(op[o].rule, IF o \in ShellOps THEN Nil ELSE srvCtx)
      BY <2>3 DEF SpawnRule
    <3>3. (IF o \in ShellOps THEN Nil ELSE srvCtx) \in SrvCtxs \cup {Nil}
      OBVIOUS
    <3>4. QED
      BY <3>1, <3>2, <3>3, LaunchPort
  <2>4. CASE DisableRule(o)
    BY <2>4, OtherPort DEF DisableRule, MappingType
  <2>5. CASE SvcStart(o) \/ SvcStop(o)
    BY <2>5, OtherPort DEF SvcStart, SvcStop
  <2>6. QED
    BY <1>2, <2>1, <2>2, <2>3, <2>4, <2>5 DEF OpStep
<1>3. ASSUME NEW k \in Ctls, CtlStep(k) PROVE OpenPortIsGuarded' /\ StatusHasOwner'
  BY <1>3, OtherPort, LaunchPort DEF CtlStep, ControllerSkip, ControllerLaunch
<1>4. ASSUME NEW w \in Jobs, Listen(w) PROVE OpenPortIsGuarded' /\ StatusHasOwner'
  BY <1>4 DEF Listen, OpenPortIsGuarded, StatusHasOwner, FreeJob, JobType
<1>5. ASSUME NEW w \in Jobs, Activate(w) PROVE OpenPortIsGuarded' /\ StatusHasOwner'
  <2>1. OpenPortIsGuarded'
    BY <1>5 DEF Activate, OpenPortIsGuarded, JobType
  <2>2. StatusHasOwner'
    BY <1>5 DEF Activate, StatusHasOwner, JobType, MappingType, JobHasRule
  <2>3. QED
    BY <2>1, <2>2
<1>6. ASSUME NEW w \in Jobs, CheckEnable(w) PROVE OpenPortIsGuarded' /\ StatusHasOwner'
  BY <1>6 DEF CheckEnable, OpenPortIsGuarded, StatusHasOwner, JobType
<1>7. ASSUME NEW w \in Jobs, AcceptConn(w) PROVE OpenPortIsGuarded' /\ StatusHasOwner'
  BY <1>7 DEF AcceptConn, OpenPortIsGuarded, StatusHasOwner, JobType
<1>8. ASSUME NEW w \in Jobs, AcceptErr(w) PROVE OpenPortIsGuarded' /\ StatusHasOwner'
  BY <1>8 DEF AcceptErr, OpenPortIsGuarded, StatusHasOwner, JobType
<1>9. ASSUME NEW w \in Jobs, Exit(w) PROVE OpenPortIsGuarded' /\ StatusHasOwner'
  <2>1. OpenPortIsGuarded'
    BY <1>9 DEF Exit, OpenPortIsGuarded, JobType, FreeJob
  <2>2. StatusHasOwner'
    <3>1. \A q \in Rules : map'[q].status = "active" =>
             map[q].status = "active" /\ q # job[w].rule
      BY <1>9 DEF Exit, MappingType, JobHasRule
    <3>2. \A v \in Jobs : v # w => job'[v] = job[v]
      BY <1>9 DEF Exit
    <3>3. QED
      BY <3>1, <3>2 DEF StatusHasOwner
  <2>3. QED
    BY <2>1, <2>2
<1>10. ASSUME NEW w \in Jobs, CloserStep(w) PROVE OpenPortIsGuarded' /\ StatusHasOwner'
  <2>1. CASE CloserArm(w)
    BY <2>1 DEF CloserArm, OpenPortIsGuarded, StatusHasOwner, JobType
  <2>2. CASE CloserFire(w)
    <3>1. OpenPortIsGuarded'
      BY <2>2 DEF CloserFire, OpenPortIsGuarded, FreeJob, JobType
    <3>2. StatusHasOwner'
      BY <2>2 DEF CloserFire, StatusHasOwner, FreeJob, JobType
    <3>3. QED
      BY <3>1, <3>2
  <2>3. QED
    BY <1>10, <2>1, <2>2 DEF CloserStep
<1>11. CASE UNCHANGED vars
  BY <1>11, OtherPort DEF vars
<1>12. QED
  BY <1>1, <1>2, <1>3, <1>4, <1>5, <1>6, <1>7, <1>8, <1>9, <1>10, <1>11
     DEF Next, Progress, Connect, JobStep

\* No port is open and no rule active before the first command.
LEMMA PortInvInit == Init => PortInv
BY TypeInvInit DEF Init, PortInv, OpenPortIsGuarded, StatusHasOwner, FreeJob

\* No port is left open by a goroutine that has returned, and every port of an
\* accept loop has a goroutine that will close it.
THEOREM PortsAreGuarded == Spec => []OpenPortIsGuarded
<1>1. PortInv => OpenPortIsGuarded
  BY DEF PortInv
<1>2. QED
  BY PortInvInit, PortInvStep, <1>1, PTL DEF Spec

\* No rule is shown as active after the last of its listeners has returned.
THEOREM StatusIsOwned == Spec => []StatusHasOwner
<1>1. PortInv => StatusHasOwner
  BY DEF PortInv
<1>2. QED
  BY PortInvInit, PortInvStep, <1>1, PTL DEF Spec

-----------------------------------------------------------------------------
(* One administrator: every listener can be reached by `service stop`.      *)

OneCommand == \A o, q \in Ops : op[o] # IdleOp /\ op[q] # IdleOp => o = q

\* With one command at a time, what a command has found out about IsRun holds
\* until it ends.
IsRunIsCurrent ==
    \A o \in Ops :
        /\ op[o].pc = "svcstart" => ~isRun
        /\ op[o].pc \in {"enable", "spawn"} => isRun

\* StoppedMeansCancelled, strengthened: as long as the service has not been
\* started no controller has anything to launch either.
NothingBeforeStart ==
    ~isRun => \/ srvCtx \in done
              \/ (\A w \in Jobs : job[w] = FreeJob) /\ (\A k \in Ctls : todo[k] = {})

SoloInv ==
    /\ TypeInv
    /\ OneCommand
    /\ IsRunIsCurrent
    /\ LiveJobIsCancellable
    /\ NothingBeforeStart

\* A cancelled context stays cancelled while a listener or the server refers
\* to it.
LEMMA CollectKeeps ==
  ASSUME {d \in done : CtxInUse(d)' \/ SrvCtxInUse(d)'} \subseteq done'
  PROVE  /\ srvCtx' \in done => srvCtx' \in done'
         /\ \A w \in Jobs : job'[w].srv \in done => job'[w].srv \in done'
BY DEF SrvCtxInUse

\* A listener is launched under the current server context, and only while
\* that is the running one or a cancelled one.
LEMMA LaunchSolo ==
  ASSUME SoloInv, NEW r \in Rules, NEW p \in SrvCtxs \cup {Nil}, Launch(r, p),
         srvCtx' = srvCtx, isRun' = isRun,
         isRun \/ srvCtx \in done
  PROVE  LiveJobIsCancellable' /\ NothingBeforeStart'
<1>1. PICK w \in Jobs, c \in Ctxs :
         /\ {d \in done : CtxInUse(d)' \/ SrvCtxInUse(d)'} \subseteq done'
         /\ job' = [job EXCEPT ![w] = [FreeJob EXCEPT !.pc = "listen", !.rule = r,
                                                      !.srv = srvCtx]]
  BY DEF Launch
<1>2. /\ srvCtx \in done => srvCtx \in done'
      /\ \A v \in Jobs : job'[v].srv \in done => job'[v].srv \in done'
  BY <1>1, CollectKeeps
<1>3. LiveJobIsCancellable'
  BY <1>1, <1>2 DEF SoloInv, TypeInv, TypeOK, LiveJobIsCancellable, FreeJob
<1>4. NothingBeforeStart'
  BY <1>2 DEF SoloInv, NothingBeforeStart
<1>5. QED
  BY <1>3, <1>4

\* A step of a goroutine keeps what SoloInv says if it starts no listener and
\* leaves the commands, the controllers and the service alone.
LEMMA GoroutineSolo ==
  ASSUME SoloInv, op' = op, todo' = todo, srvCtx' = srvCtx, isRun' = isRun,
         \/ done' = done
         \/ done' = {d \in done : CtxInUse(d)' \/ SrvCtxInUse(d)'},
         NEW w \in Jobs, job[w] # FreeJob,
         \A v \in Jobs \ {w} : job'[v] = job[v],
         job'[w].pc # "free" => job[w].pc # "free" /\ job'[w].srv = job[w].srv
  PROVE  OneCommand' /\ IsRunIsCurrent' /\ LiveJobIsCancellable' /\ NothingBeforeStart'
<1>1. /\ srvCtx \in done => srvCtx \in done'
      /\ \A v \in Jobs : job'[v].srv \in done => job'[v].srv \in done'
  BY CollectKeeps
<1>2. OneCommand' /\ IsRunIsCurrent'
  BY DEF SoloInv, OneCommand, IsRunIsCurrent
<1>3. LiveJobIsCancellable'
  BY <1>1 DEF SoloInv, LiveJobIsCancellable
<1>4. NothingBeforeStart'
  BY <1>1 DEF SoloInv, NothingBeforeStart
<1>5. QED
  BY <1>2, <1>3, <1>4

\* A step of one administrator is a step of the system.
LEMMA SoloNextIsNext == [SoloNext]_vars => [Next]_vars
BY DEF SoloNext, Next

\* The invariant of the Solo discipline holds before the first command.
LEMMA SoloInvInit == Init => SoloInv
BY TypeInvInit DEF Init, SoloInv, OneCommand, IsRunIsCurrent, LiveJobIsCancellable,
                   NothingBeforeStart, FreeJob, IdleOp

\* Every step of the Solo discipline keeps its invariant.
LEMMA SoloInvStep == SoloInv /\ [SoloNext]_vars => SoloInv'
<1> SUFFICES ASSUME SoloInv, [SoloNext]_vars
             PROVE  OneCommand' /\ IsRunIsCurrent' /\ LiveJobIsCancellable' /\ NothingBeforeStart'
  BY TypeInvStep, SoloNextIsNext DEF SoloInv
<1> DEFINE Goal == OneCommand' /\ IsRunIsCurrent' /\ LiveJobIsCancellable' /\ NothingBeforeStart'
<1> USE DEF SoloInv, TypeInv, TypeOK
<1>1. ASSUME NEW o \in Ops, AllIdle, Command(o) PROVE Goal
  <2>1. PICK pc \in {"enable", "flag", "disable", "svcstart", "svcstop"}, r \in Rules \cup {Nil} :
           /\ op' = [op EXCEPT ![o] = [pc |-> pc, rule |-> r]]
           /\ pc = "enable" => isRun
           /\ pc = "svcstart" => ~isRun
    BY <1>1 DEF Command, StartCheck, StopClose, SvcStartCheck, SvcStopCheck, Begin
  <2>2. \A q \in Ops : q # o => op'[q] = IdleOp
    BY <1>1, <2>1 DEF AllIdle
  <2>3. OneCommand'
    BY <2>2 DEF OneCommand
  <2>4. job' = job /\ todo' = todo /\ srvCtx' = srvCtx /\ isRun' = isRun /\ done \subseteq done'
    BY <1>1 DEF Command, StartCheck, StopClose, SvcStartCheck, SvcStopCheck
  <2>5. IsRunIsCurrent'
    BY <2>1, <2>2, <2>4 DEF IsRunIsCurrent, IdleOp
  <2>6. LiveJobIsCancellable' /\ NothingBeforeStart'
    BY <2>4 DEF LiveJobIsCancellable, NothingBeforeStart
  <2>7. QED
    BY <2>3, <2>5, <2>6
<1>2. ASSUME NEW o \in Ops, OpStep(o) PROVE Goal
  <2>1. CASE FlagRule(o) \/ EnableRule(o) \/ DisableRule(o)
    <3>1. UNCHANGED <<job, todo, done, srvCtx, isRun>>
      BY <2>1 DEF FlagRule, EnableRule, DisableRule
    <3>2. op[o] # IdleOp /\ \A q \in Ops : q # o => op'[q] = op[q]
      BY <2>1 DEF FlagRule, EnableRule, DisableRule, End, IdleOp
    <3>3. op'[o] = IdleOp \/ (op[o].pc = "enable" /\ op'[o].pc = "spawn")
      BY <2>1 DEF FlagRule, EnableRule, DisableRule, End, OpType
    <3>4. OneCommand' /\ IsRunIsCurrent'
      BY <3>1, <3>2, <3>3 DEF OneCommand, IsRunIsCurrent, IdleOp
    <3>5. LiveJobIsCancellable' /\ NothingBeforeStart'
      BY <3>1 DEF LiveJobIsCancellable, NothingBeforeStart
    <3>6. QED
      BY <3>4, <3>5
  <2>2. CASE SpawnRule(o)
    <3>1. op[o].rule \in Rules /\ isRun
      BY <2>2 DEF SpawnRule, OpHasRule, IsRunIsCurrent
    <3>2. /\ Launch(op[o].rule, IF o \in ShellOps THEN Nil ELSE srvCtx)
          /\ UNCHANGED <<srvCtx, isRun>>
          /\ op' = [op EXCEPT ![o] = IdleOp]
      BY <2>2 DEF SpawnRule, End
    <3>3. LiveJobIsCancellable' /\ NothingBeforeStart'
      BY <3>1, <3>2, LaunchSolo
    <3>4. OneCommand' /\ IsRunIsCurrent'
      BY <3>2 DEF OneCommand, IsRunIsCurrent, IdleOp
    <3>5. QED
      BY <3>3, <3>4
  <2>3. CASE SvcStart(o)
    <3>1. /\ op' = [op EXCEPT ![o] = IdleOp]
          /\ isRun' = TRUE
          /\ job' = job
          /\ done' = {d \in done : CtxInUse(d)' \/ SrvCtxInUse(d)'}
          /\ op[o].pc = "svcstart"
      BY <2>3 DEF SvcStart, End, Collect
    <3>2. \A q \in Ops : q # o => op[q] = IdleOp
      BY <3>1 DEF OneCommand, IdleOp
    <3>3. OneCommand' /\ IsRunIsCurrent'
      BY <3>1, <3>2 DEF OneCommand, IsRunIsCurrent, IdleOp
    <3>4. \A v \in Jobs : job[v].pc # "free" => job[v].srv \in done
      BY <3>1 DEF IsRunIsCurrent, NothingBeforeStart, LiveJobIsCancellable, FreeJob
    <3>5. LiveJobIsCancellable'
      BY <3>1, <3>4, CollectKeeps DEF LiveJobIsCancellable
    <3>6. QED
      BY <3>1, <3>3, <3>5 DEF NothingBeforeStart
  <2>4. CASE SvcStop(o)
    <3>1. OneCommand' /\ IsRunIsCurrent'
      BY <2>4 DEF SvcStop, End, OneCommand, IsRunIsCurrent, IdleOp
    <3>2. LiveJobIsCancellable' /\ NothingBeforeStart'
      BY <2>4 DEF SvcStop, LiveJobIsCancellable, NothingBeforeStart
    <3>3. QED
      BY <3>1, <3>2
  <2>5. QED
    BY <1>2, <2>1, <2>2, <2>3, <2>4 DEF OpStep
<1>3. ASSUME NEW k \in Ctls, NEW r \in Rules, ControllerSkip(k, r) PROVE Goal
  BY <1>3 DEF ControllerSkip, OneCommand, IsRunIsCurrent, LiveJobIsCancellable,
              NothingBeforeStart
<1>4. ASSUME NEW k \in Ctls, NEW r \in Rules, ControllerLaunch(k, r) PROVE Goal
  <2>1. isRun \/ srvCtx \in done
    BY <1>4 DEF ControllerLaunch, NothingBeforeStart
  <2>2. LiveJobIsCancellable' /\ NothingBeforeStart'
    BY <1>4, <2>1, LaunchSolo DEF ControllerLaunch
  <2>3. OneCommand' /\ IsRunIsCurrent'
    BY <1>4 DEF ControllerLaunch, OneCommand, IsRunIsCurrent
  <2>4. QED
    BY <2>2, <2>3
<1>5. ASSUME NEW w \in Jobs, Listen(w) PROVE Goal
  BY <1>5, GoroutineSolo DEF Listen, Collect, FreeJob, JobType
<1>6. ASSUME NEW w \in Jobs, Activate(w) PROVE Goal
  BY <1>6, GoroutineSolo DEF Activate, FreeJob, JobType
<1>7. ASSUME NEW w \in Jobs, CheckEnable(w) PROVE Goal
  BY <1>7, GoroutineSolo DEF CheckEnable, FreeJob, JobType
<1>8. ASSUME NEW w \in Jobs, AcceptConn(w) PROVE Goal
  BY <1>8, GoroutineSolo DEF AcceptConn, FreeJob, JobType
<1>9. ASSUME NEW w \in Jobs, AcceptErr(w) PROVE Goal
  BY <1>9, GoroutineSolo DEF AcceptErr, FreeJob, JobType
<1>10. ASSUME NEW w \in Jobs, Exit(w) PROVE Goal
  BY <1>10, GoroutineSolo DEF Exit, Collect, FreeJob, JobType
<1>11. ASSUME NEW w \in Jobs, CloserArm(w) PROVE Goal
  BY <1>11, GoroutineSolo DEF CloserArm, FreeJob, JobType
<1>12. ASSUME NEW w \in Jobs, CloserFire(w) PROVE Goal
  BY <1>12, GoroutineSolo DEF CloserFire, Collect, FreeJob, JobType
<1>13. CASE UNCHANGED vars
  BY <1>13 DEF vars, OneCommand, IsRunIsCurrent, LiveJobIsCancellable, NothingBeforeStart
<1>14. QED
  BY <1>1, <1>2, <1>3, <1>4, <1>5, <1>6, <1>7, <1>8, <1>9, <1>10, <1>11, <1>12, <1>13
     DEF SoloNext, Progress, Connect, CtlStep, JobStep, CloserStep

\* With one command at a time no listener is out of reach of `service stop`,
\* however fast the commands follow each other.
THEOREM SoloCancellable == SoloSpec => []LiveJobIsCancellable
<1>1. SoloInv => LiveJobIsCancellable
  BY DEF SoloInv
<1>2. QED
  BY SoloInvInit, SoloInvStep, <1>1, PTL DEF SoloSpec

\* With one command at a time a stopped service is a cancelled one.
THEOREM SoloStopped == SoloSpec => []StoppedMeansCancelled
<1>1. SoloInv => StoppedMeansCancelled
  BY DEF SoloInv, NothingBeforeStart, StoppedMeansCancelled
<1>2. QED
  BY SoloInvInit, SoloInvStep, <1>1, PTL DEF SoloSpec

-----------------------------------------------------------------------------
(* The spinning loop.  As long as a rule is not started in haste it has one *)
(* goroutine, whose closing goroutine watches the context the accept loop   *)
(* looks up: once the port is closed, one of the two contexts is cancelled, *)
(* and a cancelled context that is referred to stays cancelled.             *)

\* The two places of the port's goroutines agree about the rule's context.
Fits(w) ==
    LET c == map[job[w].rule].ctx IN
    /\ job[w].closer = "wait" => job[w].watch = c
    /\ job[w].pc \in {"loop", "accept"} /\ ~job[w].sock => Done(job[w].srv) \/ Done(c)

Unhurried(r) ==
    /\ \A v, w \in Jobs : job[v].rule = r /\ job[w].rule = r => v = w
    /\ \A w \in Jobs : job[w].rule = r => Fits(w)

\* The port is bound before the closing goroutine is started.
BoundFirst ==
    \A w \in Jobs :
        /\ job[w].pc = "activate" => job[w].sock
        /\ job[w].pc \in {"listen", "activate"} => job[w].closer = "none"

HasteInv == TypeInv /\ BoundFirst /\ \A r \in Rules \ hasty : Unhurried(r)

\* A goroutine that a step leaves alone goes on fitting its rule, if the rule
\* keeps its context.
LEMMA FitsStays ==
  ASSUME {d \in done : CtxInUse(d)' \/ SrvCtxInUse(d)'} \subseteq done',
         NEW w \in Jobs, job[w].rule \in Rules, Fits(w), job'[w] = job[w],
         map'[job[w].rule].ctx = map[job[w].rule].ctx
  PROVE  Fits(w)'
BY DEF Fits, Done, CtxInUse, SrvCtxInUse

\* A step of one goroutine that gives no rule a new context and leaves its own
\* fitting keeps the invariant.
LEMMA GoroutineHaste ==
  ASSUME HasteInv, TypeInv', Record,
         \/ done \subseteq done'
         \/ {d \in done : CtxInUse(d)' \/ SrvCtxInUse(d)'} \subseteq done',
         \A r \in Rules : map'[r].ctx = map[r].ctx,
         NEW w \in Jobs, job[w] # FreeJob,
         \A v \in Jobs \ {w} : job'[v] = job[v],
         job'[w].rule \in {job[w].rule, Nil},
         job'[w].pc = "activate" => job'[w].sock,
         job'[w].pc \in {"listen", "activate"} => job'[w].closer = "none",
         job[w].rule \in Rules /\ Fits(w) /\ job'[w].rule = job[w].rule => Fits(w)'
  PROVE  HasteInv'
<1>1. hasty' = hasty
  <2>1. Launched = {}
    BY DEF Launched
  <2>2. QED
    BY <2>1 DEF Record
<1>2. BoundFirst'
  BY DEF HasteInv, BoundFirst
<1>3. ASSUME NEW r \in Rules \ hasty PROVE Unhurried(r)'
  <2>1. Unhurried(r) /\ r # Nil
    BY NilAssumption DEF HasteInv
  <2>2. \A v \in Jobs : job'[v].rule = r => job[v].rule = r
    BY <2>1
  <2>3. {d \in done : CtxInUse(d)' \/ SrvCtxInUse(d)'} \subseteq done'
    OBVIOUS
  <2>4. ASSUME NEW v \in Jobs, job'[v].rule = r PROVE Fits(v)'
    <3>1. job[v].rule = r /\ Fits(v)
      BY <2>1, <2>2, <2>4 DEF Unhurried
    <3>2. CASE v = w
      BY <2>4, <3>1, <3>2
    <3>3. CASE v # w
      <4>1. job'[v] = job[v]
        BY <3>3
      <4>2. map'[job[v].rule].ctx = map[job[v].rule].ctx
        BY <3>1
      <4>3. QED
        BY <2>3, <3>1, <4>1, <4>2, FitsStays
    <3>4. QED
      BY <3>2, <3>3
  <2>5. QED
    BY <2>1, <2>2, <2>4 DEF Unhurried
<1>4. QED
  BY <1>1, <1>2, <1>3 DEF HasteInv

\* A step that touches neither goroutines nor contexts of rules and cancels
\* none the less keeps the invariant.
LEMMA OtherHaste ==
  ASSUME HasteInv, TypeInv', Record \/ hasty' = hasty, job' = job,
         \/ done \subseteq done'
         \/ {d \in done : CtxInUse(d)' \/ SrvCtxInUse(d)'} \subseteq done',
         \A r \in Rules : map'[r].ctx = map[r].ctx
  PROVE  HasteInv'
<1>1. hasty' = hasty
  <2>1. Launched = {}
    BY DEF Launched
  <2>2. QED
    BY <2>1 DEF Record
<1>2. BoundFirst'
  BY DEF HasteInv, BoundFirst
<1>3. ASSUME NEW r \in Rules \ hasty PROVE Unhurried(r)'
  <2>1. Unhurried(r)
    BY DEF HasteInv
  <2>2. {d \in done : CtxInUse(d)' \/ SrvCtxInUse(d)'} \subseteq done'
    OBVIOUS
  <2>3. \A v \in Jobs : job'[v] = job[v]
    OBVIOUS
  <2>4. \A v \in Jobs : job[v].rule = r => Fits(v)'
    BY <2>1, <2>2, <2>3, FitsStays DEF Unhurried
  <2>5. QED
    BY <2>1, <2>3, <2>4 DEF Unhurried
<1>4. QED
  BY <1>1, <1>2, <1>3 DEF HasteInv

\* A launch starts the record of its rule anew: the rule is hasty, or the
\* launched goroutine is its only one.
LEMMA LaunchHaste ==
  ASSUME HasteInv, TypeInv', Record, NEW r \in Rules, NEW p, Launch(r, p)
  PROVE  HasteInv'
<1>1. PICK w \in Jobs, c \in Ctxs :
         /\ job[w] = FreeJob
         /\ map' = [map EXCEPT ![r].ctx = c]
         /\ {d \in done : CtxInUse(d)' \/ SrvCtxInUse(d)'} \subseteq done'
         /\ job' = [job EXCEPT ![w] = [FreeJob EXCEPT !.pc = "listen", !.rule = r,
                                                      !.srv = srvCtx]]
  BY DEF Launch
<1>2. /\ job'[w].rule = r /\ job'[w].pc = "listen" /\ job'[w].closer = "none"
      /\ \A v \in Jobs \ {w} : job'[v] = job[v]
  BY <1>1 DEF HasteInv, TypeInv, TypeOK, FreeJob
<1>3. \A q \in Rules \ {r} : map'[q].ctx = map[q].ctx
  BY <1>1 DEF HasteInv, TypeInv, TypeOK
<1>4. Launched = {r}
  <2>1. job'[w] # FreeJob
    BY <1>2 DEF FreeJob
  <2>2. {v \in Jobs : job[v] = FreeJob /\ job'[v] # FreeJob} = {w}
    BY <1>1, <1>2, <2>1
  <2>3. QED
    BY <1>2, <2>2 DEF Launched
<1>5. hasty' = (hasty \ {r}) \cup {q \in {r} : AtWork(q)}
  BY <1>4 DEF Record
<1>6. BoundFirst'
  BY <1>2 DEF HasteInv, BoundFirst
<1>7. ASSUME NEW q \in Rules, q \notin hasty' PROVE Unhurried(q)'
  <2>1. CASE q = r
    <3>1. \A v \in Jobs : job[v].rule # r
      BY <1>5, <1>7, <2>1 DEF AtWork
    <3>2. \A v \in Jobs : job'[v].rule = r => v = w
      BY <1>2, <3>1
    <3>3. Fits(w)'
      BY <1>2 DEF Fits
    <3>4. QED
      BY <2>1, <3>2, <3>3 DEF Unhurried
  <2>2. CASE q # r
    <3>1. Unhurried(q)
      BY <1>5, <1>7, <2>2 DEF HasteInv
    <3>2. \A v \in Jobs : job'[v].rule = q => job[v].rule = q /\ job'[v] = job[v]
      BY <1>2, <2>2
    <3>3. \A v \in Jobs : job'[v].rule = q => Fits(v)'
      BY <1>1, <1>3, <2>2, <3>1, <3>2, FitsStays DEF Unhurried
    <3>4. QED
      BY <3>1, <3>2, <3>3 DEF Unhurried
  <2>3. QED
    BY <2>1, <2>2
<1>8. QED
  BY <1>6, <1>7 DEF HasteInv

\* No goroutine is at work before the first command.
LEMMA HasteInvInit == HastyInit => HasteInv
BY TypeInvInit, NilAssumption DEF HastyInit, Init, HasteInv, BoundFirst, Unhurried, FreeJob

\* Every step keeps the rules that were not started in haste unhurried.
LEMMA HasteInvStep == HasteInv /\ [Next /\ Record]_hurried => HasteInv'
<1> SUFFICES ASSUME HasteInv, [Next /\ Record]_hurried PROVE HasteInv'
  OBVIOUS
<1>0. TypeInv'
  BY TypeInvStep DEF HasteInv, hurried
<1>1. CASE UNCHANGED hurried
  BY <1>0, <1>1, OtherHaste DEF hurried, vars
<1> SUFFICES ASSUME Next, Record PROVE HasteInv'
  BY <1>1
<1> USE <1>0 DEF HasteInv, TypeInv, TypeOK
<1>2. ASSUME NEW o \in Ops, Command(o) PROVE HasteInv'
  <2>1. job' = job /\ map' = map /\ done \subseteq done'
    BY <1>2 DEF Command, StartCheck, StopClose, SvcStartCheck, SvcStopCheck
  <2>2. QED
    BY <2>1, OtherHaste
<1>3. ASSUME NEW o \in Ops, OpStep(o) PROVE HasteInv'
  <2>1. CASE FlagRule(o) \/ EnableRule(o) \/ DisableRule(o)
    <3>1. op[o].rule \in Rules
      BY <2>1 DEF FlagRule, EnableRule, DisableRule, OpHasRule
    <3>2. \A q \in Rules : map'[q].ctx = map[q].ctx
      BY <2>1, <3>1 DEF FlagRule, EnableRule, DisableRule, MappingType
    <3>3. job' = job /\ done' = done
      BY <2>1 DEF FlagRule, EnableRule, DisableRule
    <3>4. QED
      BY <3>2, <3>3, OtherHaste
  <2>2. CASE SpawnRule(o)
    <3>1. op[o].rule \in Rules /\ Launch(op[o].rule, IF o \in ShellOps THEN Nil ELSE srvCtx)
      BY <2>2 DEF SpawnRule, OpHasRule
    <3>2. QED
      BY <3>1, LaunchHaste
  <2>3. CASE SvcStart(o)
    BY <2>3, OtherHaste DEF SvcStart, Collect
  <2>4. CASE SvcStop(o)
    BY <2>4, OtherHaste DEF SvcStop
  <2>5. QED
    BY <1>3, <2>1, <2>2, <2>3, <2>4 DEF OpStep
<1>4. ASSUME NEW k \in Ctls, CtlStep(k) PROVE HasteInv'
  <2>1. CASE \E r \in Rules : ControllerSkip(k, r)
    BY <2>1, OtherHaste DEF ControllerSkip
  <2>2. CASE \E r \in Rules : ControllerLaunch(k, r)
    BY <2>2, LaunchHaste DEF ControllerLaunch
  <2>3. QED
    BY <1>4, <2>1, <2>2 DEF CtlStep
<1>5. ASSUME NEW w \in Jobs, Listen(w) PROVE HasteInv'
  <2>1. \A q \in Rules : map'[q].ctx = map[q].ctx
    BY <1>5 DEF Listen
  <2>2. job'[w].rule \in {job[w].rule, Nil} /\ job'[w].pc \notin {"loop", "accept"}
    BY <1>5 DEF Listen, FreeJob, JobType
  <2>3. /\ job'[w].pc = "activate" => job'[w].sock
        /\ job'[w].closer = "none"
    BY <1>5 DEF Listen, FreeJob, JobType, BoundFirst
  <2>4. job'[w].rule = job[w].rule =>
           job'[w].closer = job[w].closer /\ job'[w].watch = job[w].watch
    BY <1>5, NilAssumption DEF Listen, FreeJob, JobType, JobHasRule
  <2>5. job[w].rule \in Rules /\ Fits(w) /\ job'[w].rule = job[w].rule => Fits(w)'
    BY <2>1, <2>2, <2>4 DEF Fits
  <2>6. QED
    BY <1>5, <2>1, <2>2, <2>3, <2>5, GoroutineHaste DEF Listen, Collect, FreeJob
<1>6. ASSUME NEW w \in Jobs, Activate(w) PROVE HasteInv'
  <2>1. \A q \in Rules : map'[q].ctx = map[q].ctx
    BY <1>6 DEF Activate, MappingType, JobHasRule
  <2>2. job'[w].rule = job[w].rule /\ job'[w].pc = "loop" /\ job'[w].sock /\ job'[w].closer = "new"
    BY <1>6 DEF Activate, BoundFirst, JobType
  <2>3. Fits(w)'
    BY <2>2 DEF Fits
  <2>4. QED
    BY <1>6, <2>1, <2>2, <2>3, GoroutineHaste DEF Activate, FreeJob
<1>7. ASSUME NEW w \in Jobs, CheckEnable(w) \/ AcceptConn(w) \/ AcceptErr(w) PROVE HasteInv'
  <2>1. map' = map /\ done' = done /\ job[w] # FreeJob /\ \A v \in Jobs \ {w} : job'[v] = job[v]
    BY <1>7 DEF CheckEnable, AcceptConn, AcceptErr, FreeJob
  <2>2. /\ job'[w].rule = job[w].rule /\ job'[w].srv = job[w].srv
        /\ job'[w].closer = job[w].closer /\ job'[w].watch = job[w].watch
        /\ job'[w].pc \notin {"listen", "activate"}
        /\ job'[w].pc \in {"loop", "accept"} =>
              job[w].pc \in {"loop", "accept"} /\ job'[w].sock = job[w].sock
    <3>0. job[w] \in JobType
      OBVIOUS
    <3>1. CASE CheckEnable(w)
      <4>1. /\ job[w].pc = "loop"
            /\ \/ job'[w] = [job[w] EXCEPT !.pc = "accept"]
               \/ job'[w] = [job[w] EXCEPT !.pc = "exit", !.sock = FALSE]
        BY <3>1 DEF CheckEnable
      <4>2. CASE job'[w] = [job[w] EXCEPT !.pc = "accept"]
        BY <3>0, <4>1, <4>2 DEF JobType
      <4>3. CASE job'[w] = [job[w] EXCEPT !.pc = "exit", !.sock = FALSE]
        BY <3>0, <4>3 DEF JobType
      <4>4. QED
        BY <4>1, <4>2, <4>3
    <3>2. CASE AcceptConn(w)
      <4>1. job[w].pc = "accept" /\ job'[w] = [job[w] EXCEPT !.pc = "loop"]
        BY <3>2 DEF AcceptConn
      <4>2. QED
        BY <3>0, <4>1 DEF JobType
    <3>3. CASE AcceptErr(w)
      <4>1. PICK q \in {"exit", "loop"} :
               job[w].pc = "accept" /\ job'[w] = [job[w] EXCEPT !.pc = q]
        BY <3>3 DEF AcceptErr
      <4>2. QED
        BY <3>0, <4>1 DEF JobType
    <3>4. QED
      BY <1>7, <3>1, <3>2, <3>3
  <2>3. Fits(w) => Fits(w)'
    BY <2>1, <2>2 DEF Fits, Done
  <2>4. QED
    BY <2>1, <2>2, <2>3, GoroutineHaste
<1>8. ASSUME NEW w \in Jobs, Exit(w) PROVE HasteInv'
  <2>1. \A q \in Rules : map'[q].ctx = map[q].ctx
    BY <1>8 DEF Exit, MappingType, JobHasRule
  <2>2. CASE job[w].closer = "none"
    <3>1. job'[w] = FreeJob
      BY <1>8, <2>2 DEF Exit
    <3>2. QED
      BY <1>8, <2>1, <3>1, GoroutineHaste, NilAssumption DEF Exit, Collect, FreeJob
  <2>3. CASE job[w].closer # "none"
    <3>1. /\ job'[w].rule = job[w].rule /\ job'[w].pc = "free"
          /\ job'[w].closer = job[w].closer /\ job'[w].watch = job[w].watch
      BY <1>8, <2>3 DEF Exit, JobType
    <3>2. job[w].rule \in Rules /\ Fits(w) => Fits(w)'
      BY <2>1, <3>1 DEF Fits
    <3>3. QED
      BY <1>8, <2>1, <3>1, <3>2, GoroutineHaste DEF Exit, Collect, FreeJob
  <2>4. QED
    BY <2>2, <2>3
<1>9. ASSUME NEW w \in Jobs, CloserArm(w) PROVE HasteInv'
  <2>1. /\ map' = map /\ done' = done /\ job[w] # FreeJob
        /\ \A v \in Jobs \ {w} : job'[v] = job[v]
    BY <1>9 DEF CloserArm, FreeJob
  <2>2. /\ job'[w].rule = job[w].rule /\ job'[w].srv = job[w].srv
        /\ job'[w].pc = job[w].pc /\ job'[w].sock = job[w].sock
        /\ job'[w].watch = map[job[w].rule].ctx
    BY <1>9 DEF CloserArm, JobType
  <2>3. Fits(w) => Fits(w)'
    BY <2>1, <2>2 DEF Fits, Done
  <2>4. job[w].pc \notin {"listen", "activate"}
    BY <1>9 DEF CloserArm, BoundFirst
  <2>5. QED
    BY <2>1, <2>2, <2>3, <2>4, GoroutineHaste
<1>10. ASSUME NEW w \in Jobs, CloserFire(w) PROVE HasteInv'
  <2>1. CASE job[w].pc = "free"
    <3>1. job'[w] = FreeJob /\ map' = map /\ \A v \in Jobs \ {w} : job'[v] = job[v]
      BY <1>10, <2>1 DEF CloserFire
    <3>2. {d \in done : CtxInUse(d)' \/ SrvCtxInUse(d)'} \subseteq done'
      BY <1>10 DEF CloserFire, Collect
    <3>3. job[w] # FreeJob
      BY <1>10 DEF CloserFire, FreeJob
    <3>4. /\ job'[w].rule = Nil /\ job'[w].pc = "free"
      BY <3>1 DEF FreeJob
    <3>5. QED
      BY <3>1, <3>2, <3>3, <3>4, GoroutineHaste, NilAssumption
  <2>2. CASE job[w].pc # "free"
    <3>1. /\ job'[w].rule = job[w].rule /\ job'[w].srv = job[w].srv
          /\ job'[w].pc = job[w].pc /\ job'[w].closer = "none"
          /\ map' = map /\ {d \in done : CtxInUse(d)' \/ SrvCtxInUse(d)'} \subseteq done'
          /\ Done(job[w].srv) \/ Done(job[w].watch)
          /\ job[w].closer = "wait"
      BY <1>10, <2>2 DEF CloserFire, Collect, JobType
    <3>2. job[w].rule \in Rules /\ Fits(w) => Fits(w)'
      BY <3>1 DEF Fits, Done, CtxInUse, SrvCtxInUse
    <3>3. job[w].pc \notin {"listen", "activate"}
      BY <3>1 DEF BoundFirst
    <3>4. QED
      BY <1>10, <3>1, <3>2, <3>3, GoroutineHaste DEF CloserFire, FreeJob
  <2>3. QED
    BY <2>1, <2>2
<1>11. QED
  BY <1>2, <1>3, <1>4, <1>5, <1>6, <1>7, <1>8, <1>9, <1>10
     DEF Next, Progress, Connect, JobStep, CloserStep

\* Whatever commands are given, overlapping ones of both consoles included, an
\* accept loop goes round on its closed port only after a hasty start of its
\* rule.
THEOREM SpinNeedsHasteHolds == HastySpec => SpinNeedsHaste
<1>1. HasteInv /\ [Next /\ Record]_hurried =>
         [\A w \in Jobs :
             job[w].pc = "accept" /\ ~job[w].sock /\ job'[w].pc = "loop" =>
                 job[w].rule \in hasty]_hurried
  <2> SUFFICES ASSUME HasteInv, Next,
                      NEW w \in Jobs, job[w].pc = "accept", ~job[w].sock, job'[w].pc = "loop",
                      job[w].rule \notin hasty
               PROVE  FALSE
    BY DEF hurried, vars
  <2> USE DEF HasteInv, TypeInv, TypeOK
  <2>1. job[w].rule \in Rules /\ (Done(job[w].srv) \/ Done(map[job[w].rule].ctx))
    BY DEF JobHasRule, Unhurried, Fits
  <2>2. ASSUME NEW v \in Jobs, AcceptErr(v) PROVE FALSE
    BY <2>1, <2>2 DEF AcceptErr, JobType
  <2>3. ASSUME NEW v \in Jobs,
               Listen(v) \/ Activate(v) \/ CheckEnable(v) \/ Exit(v) \/ AcceptConn(v)
        PROVE  FALSE
    BY <2>3 DEF Listen, Activate, CheckEnable, Exit, AcceptConn, JobType
  <2>4. ASSUME NEW v \in Jobs, CloserStep(v) PROVE FALSE
    <3>1. CASE CloserArm(v)
      BY <3>1 DEF CloserArm, JobType
    <3>2. CASE CloserFire(v)
      BY <3>2 DEF CloserFire, FreeJob, JobType
    <3>3. QED
      BY <2>4, <3>1, <3>2 DEF CloserStep
  <2>5. ASSUME NEW o \in Ops, Command(o) PROVE FALSE
    BY <2>5 DEF Command, StartCheck, StopClose, SvcStartCheck, SvcStopCheck
  <2>6. ASSUME NEW r \in Rules, NEW p, Launch(r, p) PROVE FALSE
    BY <2>6 DEF Launch, FreeJob
  <2>7. ASSUME NEW o \in Ops, OpStep(o) PROVE FALSE
    <3>1. CASE SpawnRule(o)
      BY <3>1, <2>6 DEF SpawnRule, OpHasRule
    <3>2. CASE ~SpawnRule(o)
      BY <2>7, <3>2 DEF OpStep, FlagRule, EnableRule, DisableRule, SvcStart, SvcStop
    <3>3. QED
      BY <3>1, <3>2
  <2>8. ASSUME NEW k \in Ctls, CtlStep(k) PROVE FALSE
    BY <2>8, <2>6 DEF CtlStep, ControllerSkip, ControllerLaunch
  <2>9. QED
    BY <2>2, <2>3, <2>4, <2>5, <2>7, <2>8 DEF Next, Progress, Connect, JobStep
<1>2. QED
  BY HasteInvInit, HasteInvStep, <1>1, PTL DEF HastySpec, SpinNeedsHaste
=============================================================================
