----------------------------- MODULE GatewayProofs -----------------------------
(***************************************************************************)
(* What Gateway keeps for any number of rules, ports, goroutines, contexts *)
(* and controllers: one goroutine for a rule, no spinning accept loop, a   *)
(* settled server whose statuses tell the truth, and ports that open and   *)
(* close only as RulePort allows.                                          *)
(***************************************************************************)
EXTENDS Gateway, ListenerProofs

-----------------------------------------------------------------------------
(* The inductive invariant.                                                 *)

\* A slot in use: its listener has not returned, or its closer has not.
Busy(w) == job[w].pc # "free" \/ job[w].closer # "none"

\* Neither context of the listener has been cancelled.
Alive(w) == ~Done(job[w].srv) /\ ~Done(map[job[w].rule].ctx)

\* A command that is stopping the rule has cancelled and not yet disabled it.
Stopping(r) == \E o \in Ops : op[o].pc = "disable" /\ op[o].rule = r

ListShape ==
    /\ listed \in SUBSET Rules /\ taken \in SUBSET listed
    /\ \A r \in Rules \ listed : ~map[r].enable

\* Each rule has a context of its own; what is cancelled, and every parent, is in use.
CtxShape ==
    /\ \A r, q \in Rules : map[r].ctx = map[q].ctx /\ map[r].ctx # Nil => r = q
    /\ \A c \in done : CtxInUse(c) \/ SrvCtxInUse(c)
    /\ \A c \in Ctxs : parent[c] # Nil => CtxInUse(c)

\* A slot is free or holds the goroutines of one listed rule, with its current
\* contexts and port.
Slot(w) ==
    IF Busy(w)
    THEN LET j == job[w] m == map[job[w].rule] IN
         /\ j.rule \in listed \ taken /\ j.srv = srvCtx /\ m.ctx # Nil
         /\ j.watch = IF j.closer = "wait" THEN m.ctx ELSE Nil
         /\ j.sock => j.port = m.port
         /\ j.pc \in {"loop", "accept", "exit"} => m.status = "active"
    ELSE job[w] = FreeJob

\* While neither context is cancelled the rule is enabled and its port open, or
\* about to be; once one is, the rule is being stopped.
Life(w) ==
    IF Alive(w)
    THEN /\ map[job[w].rule].enable /\ isRun
         /\ \/ job[w].pc = "listen" /\ ~job[w].sock /\ job[w].closer = "none"
            \/ job[w].pc = "activate" /\ job[w].sock /\ job[w].closer = "none"
            \/ job[w].pc \in {"loop", "accept"} /\ job[w].sock /\ job[w].closer # "none"
    ELSE /\ job[w].pc \notin {"listen", "activate"} /\ job[w].closer # "new"
         /\ job[w].sock => job[w].closer = "wait" /\ job[w].pc \in {"loop", "accept"}
         /\ ~isRun \/ ~map[job[w].rule].enable \/ Stopping(job[w].rule)

\* What a command has found when it began still holds: there is no other, and
\* everything had settled.
CommandKnows(o) ==
    op[o].pc # "idle" =>
        /\ \A k \in Ctls : todo[k] = {}
        /\ \A w \in Jobs : job[w].pc \notin {"listen", "activate"} /\ job[w].closer # "new"
        /\ op[o].pc \in {"flag", "svcstart"} => ~isRun /\ \A w \in Jobs : ~Busy(w)
        /\ op[o].pc = "svcstart" /\ o \in ShellOps => srvCtx \notin done
        /\ op[o].pc \in {"enable", "spawn", "svcstop"} =>
              isRun /\ \A w \in Jobs : Busy(w) => Alive(w)
        /\ op[o].pc \in {"flag", "enable", "spawn", "disable"} => op[o].rule \in listed
        /\ op[o].pc \in {"enable", "spawn"} => \A w \in Jobs : job[w].rule # op[o].rule
        /\ op[o].pc = "spawn" => map[op[o].rule].enable
        /\ op[o].pc = "disable" =>
              \A w \in Jobs : Busy(w) /\ job[w].rule = op[o].rule => ~Alive(w)

\* One controller at a time has rules to visit, none of which has a goroutine.
ControllerKnows(k) ==
    todo[k] # {} =>
        /\ AllIdle /\ isRun
        /\ \A j \in Ctls : todo[j] # {} => j = k
        /\ \A w \in Jobs : job[w].rule \notin todo[k]

\* The running service has a live context; without a cancelled one it has never run.
RunShape ==
    /\ isRun => srvCtx \notin done
    /\ ~isRun => srvCtx \in done \/ \A w \in Jobs : ~Busy(w)

\* A wanted rule has a goroutine or is about to get one.
Covered ==
    \A r \in Wanted :
        \/ \E w \in Jobs : job[w].rule = r
        \/ \E k \in Ctls : r \in todo[k]
        \/ \E o \in Ops : op[o].pc = "spawn" /\ op[o].rule = r

\* What the discipline of the operator adds to the guarded ports.
Order ==
    /\ OneCommand /\ ListShape /\ CtxShape /\ RunShape /\ OneGoroutinePerRule
    /\ \A w \in Jobs : Slot(w) /\ (Busy(w) => Life(w))
    /\ \A o \in Ops : CommandKnows(o)
    /\ \A k \in Ctls : ControllerKnows(k)
    /\ Covered

GatewayInv == PortInv /\ Order

-----------------------------------------------------------------------------
(* Contexts.                                                                *)

\* No rule and no server has the nil context, and nil is never cancelled.
LEMMA NilIsNoContext ==
  ASSUME TypeOK
  PROVE  Nil \notin Ctxs /\ Nil \notin SrvCtxs /\ Nil \notin Rules /\ Nil \notin done
BY NilAssumption DEF TypeOK

\* A busy slot names a listed rule and works under the current server context.
LEMMA BusySlot ==
  ASSUME GatewayInv, NEW w \in Jobs, Busy(w)
  PROVE  /\ job[w].rule \in Rules /\ job[w].rule \in listed /\ job[w].rule \notin taken
         /\ job[w].srv = srvCtx /\ map[job[w].rule].ctx \in Ctxs
         /\ job[w].watch = IF job[w].closer = "wait" THEN map[job[w].rule].ctx ELSE Nil
         /\ job[w].sock => job[w].port = map[job[w].rule].port
         /\ job[w].pc \in {"loop", "accept", "exit"} => map[job[w].rule].status = "active"
<1>1. job[w].rule \in Rules
  BY DEF GatewayInv, PortInv, TypeInv, JobHasRule, Busy
<1>2. map[job[w].rule].ctx \in Ctxs \cup {Nil}
  BY <1>1 DEF GatewayInv, PortInv, TypeInv, TypeOK, MappingType
<1>3. Slot(w)
  BY DEF GatewayInv, Order
<1>4. QED
  BY <1>1, <1>2, <1>3 DEF Slot

\* A slot that is not busy is empty, and names no rule.
LEMMA IdleSlot ==
  ASSUME GatewayInv, NEW w \in Jobs, ~Busy(w)
  PROVE  /\ job[w] = FreeJob
         /\ job[w].rule = Nil /\ job[w].pc = "free" /\ job[w].closer = "none"
         /\ ~job[w].sock /\ job[w].watch = Nil
<1>1. job[w] = FreeJob
  BY DEF GatewayInv, Order, Slot
<1>2. QED
  BY <1>1 DEF FreeJob

\* A slot that names a rule is busy with it.
LEMMA NamedSlot ==
  ASSUME GatewayInv, NEW w \in Jobs, job[w].rule \in Rules
  PROVE  Busy(w)
BY IdleSlot, NilIsNoContext DEF GatewayInv, PortInv, TypeInv

\* The contexts in use are those of the rules: a closing goroutine waits on
\* the one its rule has.
LEMMA ContextsOfRules ==
  ASSUME GatewayInv, NEW c \in Ctxs
  PROVE  CtxInUse(c) <=> \E r \in Rules : map[r].ctx = c
<1>1. \A w \in Jobs : job[w].watch = c => \E r \in Rules : map[r].ctx = c
  BY BusySlot, IdleSlot, NilIsNoContext DEF GatewayInv, PortInv, TypeInv
<1>2. QED
  BY <1>1 DEF CtxInUse

\* Both contexts of a busy slot are told apart by done alone.
LEMMA AliveIs ==
  ASSUME GatewayInv, NEW w \in Jobs, Busy(w)
  PROVE  Alive(w) <=> srvCtx \notin done /\ map[job[w].rule].ctx \notin done
BY BusySlot DEF Alive, Done

\* A context nobody uses has not been cancelled.
LEMMA FreshContext ==
  ASSUME GatewayInv
  PROVE  /\ \A c \in Ctxs : ~CtxInUse(c) => c \notin done
         /\ \A s \in SrvCtxs : ~SrvCtxInUse(s) => s \notin done
<1>1. TypeOK /\ CtxShape
  BY DEF GatewayInv, PortInv, TypeInv, Order
<1>2. ASSUME NEW c \in Ctxs, SrvCtxInUse(c) PROVE FALSE
  <2>1. c \notin SrvCtxs \cup {Nil}
    BY CtxAssumption, NilAssumption
  <2>2. srvCtx # c /\ \A d \in Ctxs : parent[d] # c
    BY <1>1, <2>1 DEF TypeOK
  <2>3. \A w \in Jobs : job[w].srv # c
    BY <1>1, <2>1 DEF TypeOK, JobType
  <2>4. QED
    BY <1>2, <2>2, <2>3 DEF SrvCtxInUse
<1>3. ASSUME NEW s \in SrvCtxs, CtxInUse(s) PROVE FALSE
  <2>1. s \notin Ctxs \cup {Nil}
    BY CtxAssumption, NilAssumption
  <2>2. \A r \in Rules : map[r].ctx # s
    BY <1>1, <2>1 DEF TypeOK, MappingType
  <2>3. \A w \in Jobs : job[w].watch # s
    BY <1>1, <2>1 DEF TypeOK, JobType
  <2>4. QED
    BY <1>3, <2>2, <2>3 DEF CtxInUse
<1>4. QED
  BY <1>1, <1>2, <1>3 DEF CtxShape

\* What a collection or a step that cancels nothing makes of the contexts the
\* rules and the server have.
LEMMA ContextsKept ==
  ASSUME TypeOK, srvCtx' = srvCtx, UNCHANGED <<parent, done>> \/ Collect,
         \A r \in Rules : map'[r].ctx = map[r].ctx
  PROVE  /\ srvCtx \in done' <=> srvCtx \in done
         /\ \A r \in Rules : map[r].ctx \in done' <=> map[r].ctx \in done
BY DEF Collect, SrvCtxInUse, CtxInUse

\* A collection leaves only contexts that are in use.
LEMMA CollectShape ==
  ASSUME Collect
  PROVE  /\ \A c \in done' : CtxInUse(c)' \/ SrvCtxInUse(c)'
         /\ \A c \in Ctxs : parent'[c] # Nil => CtxInUse(c)'
BY DEF Collect

\* Before the next command every goroutine in use serves its rule.
LEMMA SettledServes ==
  ASSUME GatewayInv, Settled, NEW w \in Jobs, Busy(w)
  PROVE  /\ Alive(w) /\ job[w].pc = "accept" /\ job[w].sock /\ job[w].closer = "wait"
         /\ isRun /\ map[job[w].rule].enable /\ map[job[w].rule].status = "active"
<1>1. job[w] # FreeJob
  BY DEF Busy, FreeJob
<1>2. /\ job[w].closer = "wait" /\ ~Done(job[w].srv) /\ ~Done(job[w].watch)
      /\ job[w].pc = "free" \/ Serving(w)
  BY <1>1 DEF Settled, JobSettled
<1>3. Alive(w)
  BY <1>2, BusySlot DEF Alive
<1>4. Life(w)
  BY DEF GatewayInv, Order
<1>5. isRun /\ map[job[w].rule].enable /\ job[w].pc \in {"loop", "accept"}
  BY <1>2, <1>3, <1>4 DEF Life
<1>6. job[w].pc = "accept" /\ job[w].sock
  BY <1>2, <1>5 DEF Serving
<1>7. QED
  BY <1>2, <1>3, <1>5, <1>6, BusySlot

-----------------------------------------------------------------------------
(* The steps of a goroutine.                                                *)

\* What every step of the goroutine in slot w, or of its closer, has in common.
GoroutineStep(w) ==
    /\ UNCHANGED <<op, todo, srvCtx, isRun, listed>>
    /\ UNCHANGED <<parent, done>> \/ Collect
    /\ \A v \in Jobs \ {w} : job'[v] = job[v]
    /\ Busy(w)' => job'[w].rule = job[w].rule
    /\ job'[w].pc # "listen"
    /\ job'[w].pc = "activate" => job[w].pc = "listen"
    /\ job'[w].closer = "new" => job[w].pc = "activate" \/ job[w].closer = "new"
    /\ \A r \in Rules :
          /\ map'[r].enable = map[r].enable
          /\ map'[r].ctx = map[r].ctx
          /\ map'[r].port = map[r].port
          /\ r # job[w].rule => map'[r].status = map[r].status
    /\ taken' = taken \/ (taken' = taken \cup {job[w].rule} /\ ~Busy(w)')

\* The step leaves both contexts of every slot as they were.
LEMMA GoroutineAlive ==
  ASSUME GatewayInv, NEW w \in Jobs, GoroutineStep(w), NEW r \in Rules
  PROVE  /\ map'[r].ctx = map[r].ctx
         /\ srvCtx' \in done' <=> srvCtx \in done
         /\ map'[r].ctx \in done' <=> map[r].ctx \in done
BY ContextsKept DEF GoroutineStep, GatewayInv, PortInv, TypeInv

\* Such a step keeps the invariant if it does so for its own slot, and leaves
\* the slot only when the rule is no longer wanted.
LEMMA GoroutineKeeps ==
  ASSUME GatewayInv, NEW w \in Jobs, Busy(w), GoroutineStep(w),
         Slot(w)', Busy(w)' => Life(w)', ~Busy(w)' => job[w].rule \notin Wanted'
  PROVE  Order'
<1> DEFINE q == job[w].rule
<1>1. TypeOK /\ OneCommand /\ ListShape /\ CtxShape /\ RunShape /\ OneGoroutinePerRule
  BY DEF GatewayInv, Order, PortInv, TypeInv
<1>2. q \in Rules /\ q \in listed /\ Nil \notin Rules
  BY BusySlot, NilIsNoContext, <1>1
<1>3. op' = op /\ todo' = todo /\ srvCtx' = srvCtx /\ isRun' = isRun /\ listed' = listed
  BY DEF GoroutineStep
<1>4. \A v \in Jobs \ {w} : job'[v] = job[v]
  BY DEF GoroutineStep
<1>5. /\ Busy(w)' => job'[w].rule = q /\ job'[w].srv = srvCtx
      /\ ~Busy(w)' => job'[w] = FreeJob /\ job'[w].rule = Nil
  BY <1>3 DEF GoroutineStep, Slot, FreeJob
<1>6. \A r \in Rules : /\ map'[r].enable = map[r].enable
                       /\ map'[r].ctx = map[r].ctx
                       /\ map'[r].port = map[r].port
                       /\ r # q => map'[r].status = map[r].status
  BY DEF GoroutineStep
<1>7. taken' = taken \/ (taken' = taken \cup {q} /\ ~Busy(w)')
  BY DEF GoroutineStep
<1>8. /\ srvCtx \in done' <=> srvCtx \in done
      /\ \A r \in Rules : map'[r].ctx \in done' <=> map[r].ctx \in done
  BY GoroutineAlive, <1>3, <1>2
<1>9. OneCommand' /\ RunShape'
  <2>1. \A v \in Jobs : Busy(v)' => Busy(v)
    BY <1>4 DEF Busy
  <2>2. QED
    BY <1>1, <1>3, <1>8, <2>1 DEF OneCommand, RunShape
<1>10. ListShape'
  BY <1>1, <1>2, <1>3, <1>6, <1>7 DEF ListShape
<1>11. OneGoroutinePerRule'
  BY <1>1, <1>2, <1>4, <1>5 DEF OneGoroutinePerRule
<1>12. ASSUME NEW v \in Jobs, v # w, Busy(v)
       PROVE  job[v].rule # q /\ job[v].rule \in Rules
  BY <1>1, <1>2, <1>12, BusySlot DEF OneGoroutinePerRule
<1>13. ASSUME NEW v \in Jobs PROVE Slot(v)' /\ (Busy(v)' => Life(v)')
  <2>1. CASE v = w
    BY <2>1
  <2>2. CASE v # w /\ ~Busy(v)
    BY <2>2, <1>4, IdleSlot DEF Slot, Busy
  <2>3. CASE v # w /\ Busy(v)
    <3>1. job'[v] = job[v] /\ job[v].rule # q /\ job[v].rule \in Rules
      BY <2>3, <1>4, <1>12
    <3>2. Slot(v) /\ Life(v)
      BY <2>3 DEF GatewayInv, Order
    <3>3. Slot(v)'
      BY <2>3, <3>1, <3>2, <1>3, <1>6, <1>7 DEF Slot, Busy
    <3>4. Alive(v)' <=> Alive(v)
      BY <2>3, <3>1, <1>3, <1>6, <1>8, BusySlot DEF Alive, Done
    <3>5. Stopping(job[v].rule)' <=> Stopping(job[v].rule)
      BY <1>3, <3>1 DEF Stopping
    <3>6. Life(v)'
      BY <3>1, <3>2, <3>4, <3>5, <1>3, <1>6 DEF Life
    <3>7. QED
      BY <3>3, <3>6
  <2>4. QED
    BY <2>1, <2>2, <2>3
<1>14. CtxShape'
  <2>1. \A r, x \in Rules : map'[r].ctx = map'[x].ctx /\ map'[r].ctx # Nil => r = x
    BY <1>1, <1>6 DEF CtxShape
  <2>2. CASE Collect
    BY <2>1, <2>2, CollectShape DEF CtxShape
  <2>3. CASE UNCHANGED <<parent, done>>
    <3>1. \A c \in Ctxs : CtxInUse(c) => CtxInUse(c)'
      BY ContextsOfRules, <1>6 DEF CtxInUse
    <3>2. \A s \in SrvCtxs : CtxInUse(s) => FALSE
      <4>1. \A s \in SrvCtxs : s \notin Ctxs \cup {Nil}
        BY CtxAssumption, NilAssumption
      <4>2. QED
        BY <1>1, <4>1 DEF TypeOK, MappingType, JobType, CtxInUse
    <3>3. \A s \in done : SrvCtxInUse(s) => SrvCtxInUse(s)'
      <4>1. ASSUME NEW s \in done, NEW v \in Jobs, job[v].srv = s PROVE s = srvCtx'
        BY <4>1, <1>1, <1>3, BusySlot, IdleSlot, NilIsNoContext DEF FreeJob
      <4>2. ASSUME NEW s \in done, NEW c \in Ctxs, parent[c] = s, CtxInUse(c)
            PROVE  parent'[c] = s /\ CtxInUse(c)'
        BY <4>2, <2>3, <3>1
      <4>3. QED
        BY <4>1, <4>2, <1>3 DEF SrvCtxInUse
    <3>4. \A c \in done' : CtxInUse(c)' \/ SrvCtxInUse(c)'
      BY <1>1, <2>3, <3>1, <3>2, <3>3 DEF CtxShape, TypeOK
    <3>5. QED
      BY <1>1, <2>1, <2>3, <3>1, <3>4 DEF CtxShape
  <2>4. QED
    BY <2>2, <2>3 DEF GoroutineStep
<1>15. ASSUME NEW o \in Ops PROVE CommandKnows(o)'
  <2> SUFFICES ASSUME op[o].pc # "idle" PROVE CommandKnows(o)'
    BY <1>3 DEF CommandKnows
  <2>1. CommandKnows(o)
    BY DEF GatewayInv, Order
  <2>2. \A v \in Jobs : job'[v].pc \notin {"listen", "activate"} /\ job'[v].closer # "new"
    BY <2>1, <1>4 DEF CommandKnows, GoroutineStep
  <2>3. ~(op[o].pc \in {"flag", "svcstart"})
    BY <2>1 DEF CommandKnows
  <2>4. ASSUME NEW v \in Jobs, Busy(v)'
        PROVE  Busy(v) /\ job'[v].rule = job[v].rule /\ (Alive(v)' <=> Alive(v))
    <3>1. Busy(v) /\ job'[v].rule = job[v].rule /\ job'[v].srv = job[v].srv
      <4>1. CASE v = w
        BY <2>4, <4>1, <1>5, BusySlot
      <4>2. CASE v # w
        BY <2>4, <4>2, <1>4 DEF Busy
      <4>3. QED
        BY <4>1, <4>2
    <3>2. QED
      BY <3>1, <1>6, <1>8, BusySlot DEF Alive, Done
  <2>5. \A v \in Jobs : job'[v].rule = job[v].rule \/ job'[v].rule = Nil
    BY <1>4, <1>5
  <2>6. op[o].pc \in {"enable", "spawn", "svcstop"} =>
              isRun' /\ \A v \in Jobs : Busy(v)' => Alive(v)'
    BY <2>1, <2>4, <1>3 DEF CommandKnows
  <2>7. op[o].pc \in {"enable", "spawn"} => \A v \in Jobs : job'[v].rule # op[o].rule
    BY <1>1, <1>2, <2>1, <2>5 DEF CommandKnows, ListShape
  <2>8. op[o].pc = "spawn" => map'[op[o].rule].enable
    BY <1>1, <2>1, <1>6 DEF CommandKnows, ListShape
  <2>9. op[o].pc = "disable" =>
              \A v \in Jobs : Busy(v)' /\ job'[v].rule = op[o].rule => ~Alive(v)'
    BY <2>1, <2>4 DEF CommandKnows
  <2>10. QED
    BY <2>1, <2>2, <2>3, <2>6, <2>7, <2>8, <2>9, <1>3 DEF CommandKnows
<1>16. ASSUME NEW k \in Ctls PROVE ControllerKnows(k)'
  <2>1. ControllerKnows(k) /\ todo[k] \subseteq Rules
    BY <1>1 DEF GatewayInv, Order, TypeOK
  <2>2. \A v \in Jobs : job'[v].rule = job[v].rule \/ job'[v].rule = Nil
    BY <1>4, <1>5
  <2>3. QED
    BY <2>1, <2>2, <1>2, <1>3 DEF ControllerKnows, AllIdle
<1>17. Covered'
  <2>1. ASSUME NEW r \in Wanted'
        PROVE  /\ r \in Wanted
               /\ r = q => Busy(w)'
    BY <2>1, <1>1, <1>2, <1>3, <1>6, <1>7 DEF Wanted, ListShape
  <2>2. Covered
    BY DEF GatewayInv, Order
  <2>3. ASSUME NEW r \in Wanted', NEW v \in Jobs, job[v].rule = r
        PROVE  job'[v].rule = r
    BY <2>1, <2>3, <1>4, <1>5
  <2>4. QED
    BY <2>1, <2>2, <2>3, <1>3 DEF Covered
<1>18. QED
  BY <1>9, <1>10, <1>11, <1>13, <1>14, <1>15, <1>16, <1>17 DEF Order

\* The rules that found their port taken, after a step.
TakenNext == taken' = ((taken \cup Bounced) \ Started) \cap listed'

\* A goroutine that comes back from the bind without a port adds its rule.
LEMMA GoroutineTaken ==
  ASSUME GatewayInv, NEW w \in Jobs, Busy(w), TakenNext, listed' = listed,
         \A v \in Jobs \ {w} : job'[v] = job[v], job'[w].pc # "listen"
  PROVE  taken' = taken \cup (IF job[w].pc = "listen" /\ job'[w].pc = "free"
                              THEN {job[w].rule} ELSE {})
<1>1. taken \subseteq listed /\ job[w].rule \in listed
  BY BusySlot DEF GatewayInv, Order, ListShape
<1>2. Started = {}
  BY DEF Started
<1>3. Bounced = IF job[w].pc = "listen" /\ job'[w].pc = "free" THEN {job[w].rule} ELSE {}
  BY DEF Bounced
<1>4. QED
  BY <1>1, <1>2, <1>3 DEF TakenNext

\* A listener that cannot bind its port leaves its slot and marks the rule.
LEMMA ListenKeeps ==
  ASSUME GatewayInv, NEW w \in Jobs, Listen(w), UNCHANGED listed, TakenNext
  PROVE  Order'
<1> DEFINE q == job[w].rule
<1>1. job[w].pc = "listen" /\ Busy(w)
  BY DEF Listen, Busy
<1>2. q \in Rules /\ TypeOK
  BY <1>1, BusySlot DEF GatewayInv, PortInv, TypeInv
<1>3. Alive(w) /\ map[q].enable /\ isRun /\ ~job[w].sock /\ job[w].closer = "none"
  BY <1>1 DEF GatewayInv, Order, Life
<1>4. UNCHANGED <<map, op, todo, srvCtx, isRun>> /\ Collect
  BY DEF Listen
<1>5. \A v \in Jobs \ {w} : job'[v] = job[v]
  BY <1>2 DEF Listen, TypeOK
<1>6. \/ job'[w] = FreeJob
      \/ /\ job'[w].pc = "activate" /\ job'[w].sock /\ job'[w].port = map[q].port
         /\ job'[w].rule = q /\ job'[w].srv = job[w].srv
         /\ job'[w].closer = job[w].closer /\ job'[w].watch = job[w].watch
  BY <1>2 DEF Listen, TypeOK, JobType
<1>7. /\ job'[w].pc \in {"free", "activate"} /\ job'[w].closer = "none"
      /\ job'[w].pc = "free" => job'[w] = FreeJob /\ ~Busy(w)'
      /\ job'[w].pc = "activate" => Busy(w)' /\ job'[w].rule = q
  BY <1>3, <1>6 DEF FreeJob, Busy
<1>8. taken' = taken \cup (IF job'[w].pc = "free" THEN {q} ELSE {})
  BY <1>1, <1>5, <1>7, GoroutineTaken
<1>9. GoroutineStep(w)
  BY <1>1, <1>3, <1>4, <1>5, <1>7, <1>8 DEF GoroutineStep
<1>10. CASE job'[w].pc = "free"
  <2>1. Slot(w)' /\ ~Busy(w)'
    BY <1>7, <1>10 DEF Slot
  <2>2. q \notin Wanted'
    BY <1>8, <1>10 DEF Wanted
  <2>3. QED
    BY <1>1, <1>9, <2>1, <2>2, GoroutineKeeps
<1>11. CASE job'[w].pc = "activate"
  <2>1. /\ job'[w].sock /\ job'[w].port = map[q].port /\ job'[w].rule = q
        /\ job'[w].srv = job[w].srv /\ job'[w].watch = job[w].watch
    BY <1>6, <1>11 DEF FreeJob
  <2>2. Slot(w)'
    BY <1>1, <1>3, <1>4, <1>7, <1>8, <1>11, <2>1, BusySlot, NilIsNoContext, <1>2 DEF Slot
  <2>3. Alive(w)'
    BY <1>1, <1>2, <1>3, <1>4, <1>9, <2>1, BusySlot, GoroutineAlive DEF Alive, Done
  <2>4. Life(w)'
    BY <1>3, <1>4, <1>7, <1>11, <2>1, <2>3 DEF Life
  <2>5. QED
    BY <1>1, <1>7, <1>9, <1>11, <2>2, <2>4, GoroutineKeeps
<1>12. QED
  BY <1>7, <1>10, <1>11

\* A listener with a port of its own and live contexts shows its rule active.
LEMMA ActivateKeeps ==
  ASSUME GatewayInv, NEW w \in Jobs, Activate(w), UNCHANGED listed, TakenNext
  PROVE  Order'
<1> DEFINE q == job[w].rule
<1>1. job[w].pc = "activate" /\ Busy(w)
  BY DEF Activate, Busy
<1>2. q \in Rules /\ TypeOK
  BY <1>1, BusySlot DEF GatewayInv, PortInv, TypeInv
<1>3. Alive(w) /\ map[q].enable /\ isRun /\ job[w].sock /\ job[w].closer = "none"
  BY <1>1 DEF GatewayInv, Order, Life
<1>4. UNCHANGED <<op, todo, parent, done, srvCtx, isRun>>
  BY DEF Activate
<1>5. \A v \in Jobs \ {w} : job'[v] = job[v]
  BY <1>2 DEF Activate, TypeOK
<1>6. /\ job'[w].pc = "loop" /\ job'[w].closer = "new" /\ job'[w].sock
      /\ job'[w].port = job[w].port /\ job'[w].rule = q /\ job'[w].srv = job[w].srv
      /\ job'[w].watch = job[w].watch
  BY <1>2, <1>3 DEF Activate, TypeOK, JobType
<1>7. \A r \in Rules :
        /\ map'[r].enable = map[r].enable /\ map'[r].ctx = map[r].ctx
        /\ map'[r].port = map[r].port
        /\ map'[r].status = IF r = q THEN "active" ELSE map[r].status
  BY <1>2 DEF Activate, TypeOK, MappingType
<1>8. taken' = taken
  BY <1>1, <1>5, <1>6, GoroutineTaken
<1>9. Busy(w)'
  BY <1>6 DEF Busy
<1>10. GoroutineStep(w)
  BY <1>1, <1>4, <1>5, <1>6, <1>7, <1>8 DEF GoroutineStep
<1>11. Slot(w)'
  BY <1>1, <1>2, <1>3, <1>4, <1>6, <1>7, <1>8, <1>9, <1>10, BusySlot, NilIsNoContext
     DEF Slot, GoroutineStep
<1>12. Alive(w)'
  BY <1>2, <1>3, <1>4, <1>6, <1>7 DEF Alive, Done
<1>13. Life(w)'
  BY <1>2, <1>3, <1>4, <1>6, <1>7, <1>12 DEF Life
<1>14. QED
  BY <1>1, <1>9, <1>10, <1>11, <1>13, GoroutineKeeps

\* The steps of the accept loop keep the contexts and the rule; a rule found
\* disabled is one being stopped.
LEMMA LoopKeeps ==
  ASSUME GatewayInv, NEW w \in Jobs, UNCHANGED listed, TakenNext,
         CheckEnable(w) \/ AcceptConn(w) \/ AcceptErr(w)
  PROVE  Order'
<1> DEFINE q == job[w].rule
<1>1. job[w].pc \in {"loop", "accept"} /\ Busy(w)
  BY DEF CheckEnable, AcceptConn, AcceptErr, Busy
<1>2. q \in Rules /\ TypeOK
  BY <1>1, BusySlot DEF GatewayInv, PortInv, TypeInv
<1>3. Life(w)
  BY <1>1 DEF GatewayInv, Order
<1>4. UNCHANGED <<map, op, todo, parent, done, srvCtx, isRun>>
  BY DEF CheckEnable, AcceptConn, AcceptErr
<1>5. \A v \in Jobs \ {w} : job'[v] = job[v]
  BY <1>2 DEF CheckEnable, AcceptConn, AcceptErr, TypeOK
<1>6. /\ job'[w].rule = q /\ job'[w].srv = job[w].srv
      /\ job'[w].port = job[w].port
      /\ job'[w].closer = job[w].closer /\ job'[w].watch = job[w].watch
  <2>1. job \in [Jobs -> JobType] /\ job[w] \in JobType
    BY <1>2 DEF TypeOK
  <2>2. CASE CheckEnable(w)
    BY <2>1, <2>2 DEF CheckEnable, JobType
  <2>3. CASE AcceptConn(w)
    BY <2>1, <2>3 DEF AcceptConn, JobType
  <2>4. CASE AcceptErr(w)
    BY <2>1, <2>4 DEF AcceptErr, JobType
  <2>5. QED
    BY <2>2, <2>3, <2>4
<1>7. /\ job'[w].pc \in {"loop", "accept", "exit"}
      /\ job'[w].pc = "exit" => ~job'[w].sock
      /\ job'[w].pc # "exit" => job'[w].sock = job[w].sock
  <2>1. job \in [Jobs -> JobType] /\ job[w] \in JobType
    BY <1>2 DEF TypeOK
  <2>2. CASE CheckEnable(w)
    BY <2>1, <2>2 DEF CheckEnable, JobType
  <2>3. CASE AcceptConn(w)
    BY <2>1, <2>3 DEF AcceptConn, JobType
  <2>4. CASE AcceptErr(w)
    BY <2>1, <2>4 DEF AcceptErr, JobType
  <2>5. QED
    BY <2>2, <2>3, <2>4
<1>8. job'[w].pc = "exit" => ~map[q].enable \/ ~Alive(w)
  <2>1. job \in [Jobs -> JobType] /\ job[w] \in JobType
    BY <1>2 DEF TypeOK
  <2>2. CASE CheckEnable(w)
    BY <2>1, <2>2 DEF CheckEnable, JobType
  <2>3. CASE AcceptConn(w)
    BY <2>1, <2>3 DEF AcceptConn, JobType
  <2>4. CASE AcceptErr(w)
    <3>1. Done(job[w].srv) \/ Done(map[q].ctx) \/ job'[w].pc = "loop"
      BY <2>1, <2>4 DEF AcceptErr
    <3>2. QED
      BY <3>1 DEF Alive
  <2>5. QED
    BY <2>2, <2>3, <2>4
<1>9. job'[w].pc = "exit" => ~Alive(w)
  BY <1>3, <1>8 DEF Life
<1>10. taken' = taken
  BY <1>1, <1>5, <1>7, GoroutineTaken
<1>11. Busy(w)'
  BY <1>7 DEF Busy
<1>12. GoroutineStep(w)
  <2>1. job'[w].closer = "new" => job[w].pc = "activate" \/ job[w].closer = "new"
    BY <1>6
  <2>2. QED
    BY <1>4, <1>5, <1>6, <1>7, <1>10, <2>1 DEF GoroutineStep
<1>13. Slot(w)'
  BY <1>1, <1>2, <1>4, <1>6, <1>7, <1>10, <1>11, BusySlot, NilIsNoContext DEF Slot
<1>14. Alive(w)' <=> Alive(w)
  BY <1>4, <1>6 DEF Alive, Done
<1>15. \A r : Stopping(r)' <=> Stopping(r)
  BY <1>4 DEF Stopping
<1>16. Life(w)'
  BY <1>1, <1>3, <1>4, <1>6, <1>7, <1>9, <1>14, <1>15 DEF Life
<1>17. QED
  BY <1>1, <1>11, <1>12, <1>13, <1>16, GoroutineKeeps

\* A rule with a cancelled context is not wanted any more.
LEMMA CancelledNotWanted ==
  ASSUME GatewayInv, NEW w \in Jobs, Busy(w), ~Alive(w), op' = op, isRun' = isRun,
         map'[job[w].rule].enable = map[job[w].rule].enable
  PROVE  job[w].rule \notin Wanted'
<1>1. ~isRun \/ ~map[job[w].rule].enable \/ Stopping(job[w].rule)
  BY DEF GatewayInv, Order, Life
<1>2. QED
  BY <1>1 DEF Wanted, Stopping

\* A listener that returns has given its port back and resets the status.
LEMMA ExitKeeps ==
  ASSUME GatewayInv, NEW w \in Jobs, Exit(w), UNCHANGED listed, TakenNext
  PROVE  Order'
<1> DEFINE q == job[w].rule
<1>1. job[w].pc = "exit" /\ Busy(w)
  BY DEF Exit, Busy
<1>2. q \in Rules /\ TypeOK /\ job[w] \in JobType
  BY <1>1, BusySlot DEF GatewayInv, PortInv, TypeInv, TypeOK
<1>3. Life(w)
  BY <1>1 DEF GatewayInv, Order
<1>4. /\ ~Alive(w) /\ ~job[w].sock /\ job[w].closer \in {"none", "wait"}
      /\ ~isRun \/ ~map[q].enable \/ Stopping(q)
  BY <1>1, <1>2, <1>3 DEF Life, JobType
<1>5. UNCHANGED <<op, todo, srvCtx, isRun>> /\ Collect
  BY DEF Exit
<1>6. \A v \in Jobs \ {w} : job'[v] = job[v]
  BY <1>2 DEF Exit, TypeOK
<1>7. /\ job[w].closer = "none" => job'[w] = FreeJob
      /\ job[w].closer = "wait" =>
            /\ job'[w].pc = "free" /\ job'[w].rule = q /\ job'[w].srv = job[w].srv
            /\ job'[w].closer = "wait" /\ job'[w].watch = job[w].watch
            /\ ~job'[w].sock
  BY <1>2, <1>4 DEF Exit, TypeOK, JobType
<1>8. /\ job'[w].pc = "free" /\ job'[w].closer = job[w].closer
      /\ Busy(w)' <=> job[w].closer = "wait"
  BY <1>4, <1>7 DEF Busy, FreeJob
<1>9. \A r \in Rules :
        /\ map'[r].enable = map[r].enable /\ map'[r].ctx = map[r].ctx
        /\ map'[r].port = map[r].port
        /\ r # q => map'[r].status = map[r].status
  BY <1>2 DEF Exit, TypeOK, MappingType
<1>10. taken' = taken
  BY <1>1, <1>6, <1>8, GoroutineTaken
<1>11. GoroutineStep(w)
  BY <1>4, <1>5, <1>6, <1>7, <1>8, <1>9, <1>10 DEF GoroutineStep
<1>12. CASE job[w].closer = "none"
  <2>1. Slot(w)' /\ ~Busy(w)'
    BY <1>7, <1>8, <1>12 DEF Slot
  <2>2. q \notin Wanted'
    BY <1>1, <1>2, <1>4, <1>5, <1>9, CancelledNotWanted
  <2>3. QED
    BY <1>1, <1>11, <2>1, <2>2, GoroutineKeeps
<1>13. CASE job[w].closer = "wait"
  <2>1. /\ job'[w].rule = q /\ job'[w].srv = job[w].srv /\ Busy(w)'
        /\ job'[w].closer = "wait" /\ job'[w].watch = job[w].watch /\ ~job'[w].sock
    BY <1>7, <1>8, <1>13
  <2>2. Slot(w)'
    BY <1>1, <1>2, <1>5, <1>8, <1>9, <1>10, <1>11, <1>13, <2>1, BusySlot, NilIsNoContext
       DEF Slot, GoroutineStep
  <2>3. ~Alive(w)'
    BY <1>1, <1>2, <1>4, <1>5, <1>11, <2>1, BusySlot, GoroutineAlive DEF Alive, Done
  <2>4. \A r : Stopping(r)' <=> Stopping(r)
    BY <1>5 DEF Stopping
  <2>5. Life(w)'
    BY <1>2, <1>4, <1>5, <1>8, <1>9, <2>1, <2>3, <2>4 DEF Life
  <2>6. QED
    BY <1>1, <1>11, <2>1, <2>2, <2>5, GoroutineKeeps
<1>14. QED
  BY <1>4, <1>12, <1>13

\* The closing goroutine waits on the context its rule has.
LEMMA CloserArmKeeps ==
  ASSUME GatewayInv, NEW w \in Jobs, CloserArm(w), UNCHANGED listed, TakenNext
  PROVE  Order'
<1> DEFINE q == job[w].rule
<1>1. job[w].closer = "new" /\ Busy(w)
  BY DEF CloserArm, Busy
<1>2. q \in Rules /\ TypeOK /\ job[w] \in JobType
  BY <1>1, BusySlot DEF GatewayInv, PortInv, TypeInv, TypeOK
<1>3. /\ Alive(w) /\ map[q].enable /\ isRun
      /\ job[w].pc \in {"loop", "accept"} /\ job[w].sock
  BY <1>1 DEF GatewayInv, Order, Life
<1>4. UNCHANGED <<map, op, todo, parent, done, srvCtx, isRun>>
  BY DEF CloserArm
<1>5. \A v \in Jobs \ {w} : job'[v] = job[v]
  BY <1>2 DEF CloserArm, TypeOK
<1>6. /\ job'[w].pc = job[w].pc /\ job'[w].rule = q /\ job'[w].srv = job[w].srv
      /\ job'[w].sock /\ job'[w].port = job[w].port
      /\ job'[w].closer = "wait" /\ job'[w].watch = map[q].ctx
  <2> DEFINE x == map[q].ctx
  <2>1. job'[w] = [job[w] EXCEPT !.closer = "wait", !.watch = x]
    BY <1>2 DEF CloserArm, TypeOK
  <2> HIDE DEF x
  <2>2. /\ job'[w].pc = job[w].pc /\ job'[w].rule = q /\ job'[w].srv = job[w].srv
        /\ job'[w].sock /\ job'[w].port = job[w].port
        /\ job'[w].closer = "wait" /\ job'[w].watch = x
    BY <1>2, <1>3, <2>1 DEF JobType
  <2>3. QED
    BY <2>2 DEF x
<1>7. taken' = taken
  <2>1. job[w].pc # "listen" /\ job'[w].pc # "listen"
    BY <1>3, <1>6
  <2>2. QED
    BY <1>1, <1>5, <2>1, GoroutineTaken
<1>8. Busy(w)'
  BY <1>6 DEF Busy
<1>9. GoroutineStep(w)
  BY <1>3, <1>4, <1>5, <1>6, <1>7 DEF GoroutineStep
<1>10. Slot(w)'
  BY <1>1, <1>2, <1>3, <1>4, <1>6, <1>7, <1>8, BusySlot, NilIsNoContext DEF Slot
<1>11. Alive(w)'
  BY <1>3, <1>4, <1>6 DEF Alive, Done
<1>12. Life(w)'
  BY <1>3, <1>4, <1>6, <1>11 DEF Life
<1>13. QED
  BY <1>1, <1>8, <1>9, <1>10, <1>12, GoroutineKeeps

\* The closing goroutine ends when one of its contexts is cancelled, and takes
\* the port with it.
LEMMA CloserFireKeeps ==
  ASSUME GatewayInv, NEW w \in Jobs, CloserFire(w), UNCHANGED listed, TakenNext
  PROVE  Order'
<1> DEFINE q == job[w].rule
<1>1. job[w].closer = "wait" /\ Busy(w)
  BY DEF CloserFire, Busy
<1>2. q \in Rules /\ TypeOK /\ job[w] \in JobType
  BY <1>1, BusySlot DEF GatewayInv, PortInv, TypeInv, TypeOK
<1>3. ~Alive(w)
  BY <1>1, BusySlot DEF CloserFire, Alive
<1>4. /\ job[w].pc \in {"loop", "accept", "exit", "free"}
      /\ ~isRun \/ ~map[q].enable \/ Stopping(q)
  <2>1. Life(w)
    BY <1>1 DEF GatewayInv, Order
  <2>2. QED
    BY <1>2, <1>3, <2>1 DEF Life, JobType
<1>5. UNCHANGED <<map, op, todo, srvCtx, isRun>> /\ Collect
  BY DEF CloserFire
<1>6. \A v \in Jobs \ {w} : job'[v] = job[v]
  BY <1>2 DEF CloserFire, TypeOK
<1>7. /\ job[w].pc = "free" => job'[w] = FreeJob
      /\ job[w].pc # "free" =>
            /\ job'[w].pc = job[w].pc /\ job'[w].rule = q /\ job'[w].srv = job[w].srv
            /\ job'[w].closer = "none" /\ job'[w].watch = Nil /\ ~job'[w].sock
  BY <1>2 DEF CloserFire, TypeOK, JobType
<1>8. /\ job'[w].pc = job[w].pc /\ job'[w].closer = "none"
      /\ Busy(w)' <=> job[w].pc # "free"
  BY <1>7 DEF Busy, FreeJob
<1>9. taken' = taken
  <2>1. job[w].pc # "listen" /\ job'[w].pc # "listen"
    BY <1>4, <1>8
  <2>2. QED
    BY <1>1, <1>6, <2>1, GoroutineTaken
<1>10. GoroutineStep(w)
  BY <1>4, <1>5, <1>6, <1>7, <1>8, <1>9 DEF GoroutineStep
<1>11. CASE job[w].pc = "free"
  <2>1. Slot(w)' /\ ~Busy(w)'
    BY <1>7, <1>8, <1>11 DEF Slot
  <2>2. q \notin Wanted'
    BY <1>1, <1>2, <1>3, <1>5, CancelledNotWanted
  <2>3. QED
    BY <1>1, <1>10, <2>1, <2>2, GoroutineKeeps
<1>12. CASE job[w].pc # "free"
  <2>1. /\ job'[w].rule = q /\ job'[w].srv = job[w].srv /\ Busy(w)'
        /\ job'[w].closer = "none" /\ job'[w].watch = Nil /\ ~job'[w].sock
    BY <1>7, <1>8, <1>12
  <2>2. Slot(w)'
    BY <1>1, <1>2, <1>5, <1>8, <1>9, <1>10, <2>1, BusySlot, NilIsNoContext
       DEF Slot, GoroutineStep
  <2>3. ~Alive(w)'
    BY <1>1, <1>2, <1>3, <1>5, <1>10, <2>1, BusySlot, GoroutineAlive DEF Alive, Done
  <2>4. \A r : Stopping(r)' <=> Stopping(r)
    BY <1>5 DEF Stopping
  <2>5. Life(w)'
    BY <1>2, <1>4, <1>5, <1>8, <2>1, <2>3, <2>4 DEF Life
  <2>6. QED
    BY <1>1, <1>10, <2>1, <2>2, <2>5, GoroutineKeeps
<1>13. QED
  BY <1>11, <1>12

-----------------------------------------------------------------------------
(* The commands begin when everything has settled.                          *)

\* A step that starts and ends no goroutine finds no port taken.
LEMMA TakenSame ==
  ASSUME GatewayInv, TakenNext, job' = job
  PROVE  taken' = taken \cap listed'
<1>1. Bounced = {} /\ Started = {}
  BY DEF Bounced, Started
<1>2. QED
  BY <1>1 DEF TakenNext

\* Contexts that no step touches stay in use.
LEMMA CtxShapeSame ==
  ASSUME CtxShape, job' = job, srvCtx' = srvCtx, parent' = parent, done' = done,
         \A r \in Rules : map'[r].ctx = map[r].ctx
  PROVE  CtxShape'
BY DEF CtxShape, CtxInUse, SrvCtxInUse

\* A command that begins keeps the invariant if what it has found out is true
\* and it leaves the goroutines of other rules alive.
LEMMA BeginKeeps ==
  ASSUME GatewayInv, Settled, NEW o \in Ops, NEW pc, NEW r, pc # "spawn",
         op' = [op EXCEPT ![o] = [pc |-> pc, rule |-> r]],
         UNCHANGED <<map, job, todo, parent, srvCtx, isRun, listed>>, TakenNext,
         done \subseteq done', \A c \in done' \ done : c \in Ctxs /\ CtxInUse(c),
         CommandKnows(o)', \A w \in Jobs : Busy(w) => Life(w)'
  PROVE  Order'
<1>1. TypeOK /\ OneCommand /\ ListShape /\ CtxShape /\ RunShape /\ OneGoroutinePerRule
  BY DEF GatewayInv, Order, PortInv, TypeInv
<1>2. AllIdle /\ \A k \in Ctls : todo[k] = {}
  BY DEF Settled
<1>3. taken' = taken
  BY <1>1, TakenSame DEF ListShape
<1>4. \A q \in Ops : q # o => op'[q] = IdleOp
  BY <1>1, <1>2 DEF AllIdle, TypeOK
<1>5. op'[o].pc = pc
  BY <1>1 DEF TypeOK
<1>6. OneCommand'
  BY <1>4 DEF OneCommand
<1>7. ListShape' /\ OneGoroutinePerRule'
  BY <1>1, <1>3 DEF ListShape, OneGoroutinePerRule
<1>8. CtxShape'
  BY <1>1 DEF CtxShape, CtxInUse, SrvCtxInUse
<1>9. srvCtx \notin done => srvCtx \notin done'
  BY <1>1, CtxAssumption DEF TypeOK
<1>10. RunShape'
  BY <1>1, <1>9 DEF RunShape, Busy
<1>11. \A w \in Jobs : Slot(w)' /\ (Busy(w)' => Life(w)')
  <2>1. \A w \in Jobs : Slot(w)
    BY DEF GatewayInv, Order
  <2>2. QED
    BY <1>3, <2>1 DEF Slot, Busy
<1>12. \A q \in Ops : CommandKnows(q)'
  BY <1>4 DEF CommandKnows, IdleOp
<1>13. \A k \in Ctls : ControllerKnows(k)'
  BY <1>2 DEF ControllerKnows
<1>14. Covered'
  <2>1. Wanted' \subseteq Wanted
    BY <1>2, <1>3 DEF Wanted, AllIdle, IdleOp
  <2>2. \A q \in Ops : op[q].pc # "spawn"
    BY <1>2 DEF AllIdle, IdleOp
  <2>3. Covered
    BY DEF GatewayInv, Order
  <2>4. QED
    BY <2>1, <2>2, <2>3 DEF Covered
<1>15. QED
  BY <1>6, <1>7, <1>8, <1>10, <1>11, <1>12, <1>13, <1>14 DEF Order

\* A goroutine that serves goes on doing so when nothing it looks at changes.
LEMMA ServingGoesOn ==
  ASSUME GatewayInv, Settled, NEW w \in Jobs, Busy(w),
         UNCHANGED <<job, isRun>>, map'[job[w].rule] = map[job[w].rule],
         srvCtx \notin done', map[job[w].rule].ctx \notin done'
  PROVE  Alive(w)' /\ Life(w)'
<1>1. /\ job[w].pc = "accept" /\ job[w].sock /\ job[w].closer = "wait"
      /\ isRun /\ map[job[w].rule].enable /\ job[w].srv = srvCtx
  BY SettledServes, BusySlot
<1>2. Alive(w)'
  BY <1>1 DEF Alive, Done
<1>3. QED
  BY <1>1, <1>2 DEF Life

\* mapping start: a rule to be launched has no goroutine; of a stopped service
\* nothing runs at all.
LEMMA StartCheckKeeps ==
  ASSUME GatewayInv, Settled, NEW o \in Ops, NEW r \in listed,
         ~(isRun /\ map[r].enable), StartCheck(o, r), UNCHANGED listed, TakenNext
  PROVE  Order'
<1> DEFINE pc == IF isRun THEN "enable" ELSE "flag"
<1>1. UNCHANGED <<map, job, todo, parent, done, srvCtx, isRun>>
  BY DEF StartCheck
<1>2. op' = [op EXCEPT ![o] = [pc |-> pc, rule |-> r]]
  BY DEF StartCheck, Begin
<1>3. op'[o].pc = pc /\ op'[o].rule = r
  BY <1>2 DEF GatewayInv, PortInv, TypeInv, TypeOK
<1>4. \A w \in Jobs : Busy(w) => Alive(w)' /\ Life(w)'
  BY <1>1, SettledServes, AliveIs, ServingGoesOn
<1>5. r \in Rules /\ Nil \notin Rules /\ isRun \in BOOLEAN
  BY NilIsNoContext DEF GatewayInv, PortInv, TypeInv, TypeOK, Order, ListShape
<1>6. \A w \in Jobs : job[w].pc \notin {"listen", "activate"} /\ job[w].closer # "new"
  BY SettledServes, IdleSlot
<1>7. isRun => \A w \in Jobs : job[w].rule # r
  BY <1>5, SettledServes, NamedSlot
<1>8. ~isRun => \A w \in Jobs : ~Busy(w)
  BY SettledServes
<1>9. \A k \in Ctls : todo[k] = {}
  BY DEF Settled
<1>10. \A w \in Jobs : Busy(w)' <=> Busy(w)
  BY <1>1 DEF Busy
<1>11. CommandKnows(o)'
  BY <1>1, <1>3, <1>4, <1>6, <1>7, <1>8, <1>9, <1>10 DEF CommandKnows
<1>12. pc # "spawn"
  OBVIOUS
<1> HIDE DEF pc
<1>13. QED
  BY <1>1, <1>2, <1>4, <1>11, <1>12, BeginKeeps

\* service start: nothing runs, and the shell finds a context that is not cancelled.
LEMMA SvcStartCheckKeeps ==
  ASSUME GatewayInv, Settled, NEW o \in Ops, o \in ShellOps => srvCtx \notin done,
         SvcStartCheck(o), UNCHANGED listed, TakenNext
  PROVE  Order'
<1>1. UNCHANGED <<map, job, todo, parent, done, srvCtx, isRun>> /\ ~isRun
  BY DEF SvcStartCheck
<1>2. op' = [op EXCEPT ![o] = [pc |-> "svcstart", rule |-> Nil]]
  BY DEF SvcStartCheck, Begin
<1>3. op'[o].pc = "svcstart"
  BY <1>2 DEF GatewayInv, PortInv, TypeInv, TypeOK
<1>4. \A w \in Jobs : ~Busy(w)
  BY <1>1, SettledServes
<1>5. \A w \in Jobs : job[w].pc \notin {"listen", "activate"} /\ job[w].closer # "new"
  BY <1>4, IdleSlot
<1>6. \A k \in Ctls : todo[k] = {}
  BY DEF Settled
<1>7. \A w \in Jobs : Busy(w)' <=> Busy(w)
  BY <1>1 DEF Busy
<1>8. CommandKnows(o)'
  BY <1>1, <1>3, <1>4, <1>5, <1>6, <1>7 DEF CommandKnows
<1>9. QED
  BY <1>1, <1>2, <1>4, <1>8, BeginKeeps

\* service stop: every goroutine serves.
LEMMA SvcStopCheckKeeps ==
  ASSUME GatewayInv, Settled, NEW o \in Ops, SvcStopCheck(o), UNCHANGED listed, TakenNext
  PROVE  Order'
<1>1. UNCHANGED <<map, job, todo, parent, done, srvCtx, isRun>> /\ isRun
  BY DEF SvcStopCheck
<1>2. op' = [op EXCEPT ![o] = [pc |-> "svcstop", rule |-> Nil]]
  BY DEF SvcStopCheck, Begin
<1>3. op'[o].pc = "svcstop"
  BY <1>2 DEF GatewayInv, PortInv, TypeInv, TypeOK
<1>4. \A w \in Jobs : Busy(w) => Alive(w)' /\ Life(w)'
  BY <1>1, SettledServes, AliveIs, ServingGoesOn
<1>5. \A w \in Jobs : job[w].pc \notin {"listen", "activate"} /\ job[w].closer # "new"
  BY SettledServes, IdleSlot
<1>6. \A k \in Ctls : todo[k] = {}
  BY DEF Settled
<1>7. \A w \in Jobs : Busy(w)' <=> Busy(w)
  BY <1>1 DEF Busy
<1>8. CommandKnows(o)'
  BY <1>1, <1>3, <1>4, <1>5, <1>6, <1>7 DEF CommandKnows
<1>9. QED
  BY <1>1, <1>2, <1>4, <1>8, BeginKeeps

\* mapping stop: the context of a serving goroutine is cancelled, because its
\* rule is shown as active, and no other rule has that context.
LEMMA StopCloseKeeps ==
  ASSUME GatewayInv, Settled, NEW o \in Ops, NEW r \in listed,
         StopClose(o, r), UNCHANGED listed, TakenNext
  PROVE  Order'
<1>1. UNCHANGED <<map, job, todo, parent, srvCtx, isRun>>
  BY DEF StopClose
<1>2. op' = [op EXCEPT ![o] = [pc |-> "disable", rule |-> r]]
  BY DEF StopClose, Begin
<1>3. op'[o].pc = "disable" /\ op'[o].rule = r
  BY <1>2 DEF GatewayInv, PortInv, TypeInv, TypeOK
<1>4. r \in Rules /\ Nil \notin Rules /\ TypeOK /\ CtxShape
  BY NilIsNoContext DEF GatewayInv, PortInv, TypeInv, Order, ListShape
<1>5. \/ done' = done
      \/ (done' = done \cup {map[r].ctx} /\ map[r].ctx # Nil)
  BY DEF StopClose
<1>6. map[r].ctx # Nil => map[r].ctx \in Ctxs /\ CtxInUse(map[r].ctx)
  BY <1>4 DEF TypeOK, MappingType, CtxInUse
<1>7. ASSUME NEW w \in Jobs, Busy(w), job[w].rule = r
      PROVE  ~Alive(w)' /\ Life(w)'
  <2>1. /\ job[w].pc = "accept" /\ job[w].sock /\ job[w].closer = "wait"
        /\ map[r].status = "active" /\ map[r].ctx \in Ctxs
    BY <1>7, SettledServes, BusySlot
  <2>2. map[r].ctx \in done'
    BY <2>1, NilAssumption DEF StopClose
  <2>3. ~Alive(w)'
    BY <1>1, <1>7, <2>2 DEF Alive, Done
  <2>4. Stopping(r)'
    BY <1>3 DEF Stopping
  <2>5. QED
    BY <1>1, <1>7, <2>1, <2>3, <2>4 DEF Life
<1>8. ASSUME NEW w \in Jobs, Busy(w), job[w].rule # r PROVE Life(w)'
  <2>1. /\ srvCtx \notin done /\ map[job[w].rule].ctx \notin done
        /\ job[w].rule \in Rules /\ map[job[w].rule].ctx \in Ctxs
    BY <1>8, SettledServes, AliveIs, BusySlot
  <2>2. map[job[w].rule].ctx # map[r].ctx
    BY <1>4, <1>8, <2>1, NilAssumption DEF CtxShape
  <2>3. srvCtx # map[r].ctx
    BY <1>4, CtxAssumption, NilAssumption DEF TypeOK, MappingType
  <2>4. QED
    BY <1>1, <1>5, <1>8, <2>1, <2>2, <2>3, ServingGoesOn
<1>9. \A w \in Jobs : job[w].pc \notin {"listen", "activate"} /\ job[w].closer # "new"
  BY SettledServes, IdleSlot
<1>10. \A k \in Ctls : todo[k] = {}
  BY DEF Settled
<1>11. \A w \in Jobs : Busy(w)' <=> Busy(w)
  BY <1>1 DEF Busy
<1>12. CommandKnows(o)'
  BY <1>1, <1>3, <1>7, <1>9, <1>10, <1>11 DEF CommandKnows
<1>13. done \subseteq done' /\ \A c \in done' \ done : c \in Ctxs /\ CtxInUse(c)
  BY <1>5, <1>6
<1>14. QED
  BY <1>1, <1>2, <1>7, <1>8, <1>12, <1>13, BeginKeeps

-----------------------------------------------------------------------------
(* The list of rules changes when everything has settled.                   *)

\* A change of the list keeps the invariant if the rules that are served stay
\* as they are and no rule becomes enabled.
LEMMA ListKeeps ==
  ASSUME GatewayInv, Settled, UNCHANGED <<job, op, todo, srvCtx, isRun>>, TakenNext,
         (UNCHANGED <<parent, done>> /\ \A r \in Rules : map'[r].ctx = map[r].ctx) \/ Collect,
         listed' \in SUBSET Rules,
         \A r \in Rules \ listed' : ~map'[r].enable,
         \A r \in Rules : map'[r].ctx = map[r].ctx \/ map'[r].ctx = Nil,
         \A r \in Rules : map'[r].enable => map[r].enable,
         \A w \in Jobs : Busy(w) =>
            job[w].rule \in listed' /\ map'[job[w].rule] = map[job[w].rule]
  PROVE  Order'
<1>1. TypeOK /\ OneCommand /\ ListShape /\ CtxShape /\ RunShape /\ OneGoroutinePerRule
  BY DEF GatewayInv, Order, PortInv, TypeInv
<1>2. AllIdle /\ AllIdle' /\ \A k \in Ctls : todo[k] = {}
  BY DEF Settled, AllIdle
<1>3. taken' = taken \cap listed'
  BY TakenSame
<1>4. OneCommand' /\ OneGoroutinePerRule'
  BY <1>1 DEF OneCommand, OneGoroutinePerRule
<1>5. ListShape'
  BY <1>3 DEF ListShape
<1>6. CtxShape'
  <2>1. \A r, q \in Rules : map'[r].ctx = map'[q].ctx /\ map'[r].ctx # Nil => r = q
    BY <1>1 DEF CtxShape
  <2>2. CASE Collect
    BY <2>1, <2>2, CollectShape DEF CtxShape
  <2>3. CASE UNCHANGED <<parent, done>> /\ (\A r \in Rules : map'[r].ctx = map[r].ctx)
    BY <1>1, <2>3, CtxShapeSame
  <2>4. QED
    BY <2>2, <2>3
<1>7. srvCtx \in done' <=> srvCtx \in done
  BY DEF Collect, SrvCtxInUse
<1>8. RunShape'
  BY <1>1, <1>7 DEF RunShape, Busy
<1>9. ASSUME NEW w \in Jobs PROVE Slot(w)' /\ (Busy(w)' => Life(w)')
  <2>1. CASE ~Busy(w)
    BY <2>1, IdleSlot DEF Slot, Busy
  <2>2. CASE Busy(w)
    <3>1. /\ srvCtx \notin done /\ map[job[w].rule].ctx \notin done
          /\ job[w].rule \in Rules /\ map'[job[w].rule] = map[job[w].rule]
      BY <2>2, SettledServes, AliveIs, BusySlot
    <3>2. done' \subseteq done
      BY DEF Collect
    <3>3. Life(w)'
      BY <2>2, <3>1, <3>2, ServingGoesOn
    <3>4. /\ job' = job /\ srvCtx' = srvCtx /\ Slot(w)
          /\ job[w].rule \in listed' \ taken' /\ Busy(w)'
      BY <2>2, <1>3, BusySlot DEF GatewayInv, Order, Busy
    <3>5. Slot(w)'
      BY <2>2, <3>1, <3>4 DEF Slot
    <3>6. QED
      BY <3>3, <3>5
  <2>3. QED
    BY <2>1, <2>2
<1>10. \A o \in Ops : CommandKnows(o)'
  BY <1>2 DEF CommandKnows, AllIdle, IdleOp
<1>11. \A k \in Ctls : ControllerKnows(k)'
  BY <1>2 DEF ControllerKnows
<1>12. Covered'
  <2>1. \A r \in Wanted' : isRun /\ r \in Rules /\ map[r].enable /\ r \in listed
    BY <1>1, <1>5 DEF Wanted, ListShape
  <2>2. \A r \in Wanted' : r \notin taken
    BY <1>3 DEF Wanted
  <2>3. Wanted' \subseteq Wanted
    BY <2>1, <2>2 DEF Wanted
  <2>4. Covered
    BY DEF GatewayInv, Order
  <2>5. QED
    BY <2>3, <2>4 DEF Covered
<1>13. QED
  BY <1>4, <1>5, <1>6, <1>8, <1>9, <1>10, <1>11, <1>12 DEF Order

\* A change of the list that keeps the types and the statuses keeps what
\* Listener promises.
LEMMA ListPort ==
  ASSUME PortInv, UNCHANGED <<job, op, todo, srvCtx, isRun>>,
         map' \in [Rules -> MappingType],
         \A r \in Rules : map'[r].status = map[r].status,
         UNCHANGED <<parent, done>> \/ Collect
  PROVE  PortInv'
<1>1. parent' \in [Ctxs -> SrvCtxs \cup {Nil}] /\ done' \in SUBSET (Ctxs \cup SrvCtxs)
  BY CollectType DEF PortInv, TypeInv, TypeOK
<1>2. TypeInv'
  BY <1>1 DEF PortInv, TypeInv, TypeOK, OpHasRule, JobHasRule
<1>3. QED
  BY <1>2, OtherPort DEF PortInv

\* mapping add: a new rule is disabled and has no goroutine.
LEMMA AddKeeps ==
  ASSUME GatewayInv, Settled, NEW r \in Rules, NEW p \in Ports, Add(r, p), TakenNext
  PROVE  GatewayInv'
<1>1. TypeOK /\ ListShape
  BY DEF GatewayInv, Order, PortInv, TypeInv
<1>2. /\ r \notin listed /\ listed' = listed \cup {r}
      /\ UNCHANGED <<job, op, todo, parent, done, srvCtx, isRun>>
  BY DEF Add
<1>3. /\ map' \in [Rules -> MappingType]
      /\ \A q \in Rules :
            /\ map'[q].status = map[q].status /\ map'[q].ctx = map[q].ctx
            /\ map'[q].enable = map[q].enable
      /\ \A q \in Rules : q # r => map'[q] = map[q]
  BY <1>1 DEF Add, TypeOK, MappingType
<1>4. \A q \in Rules \ listed' : ~map'[q].enable
  BY <1>1, <1>2, <1>3 DEF ListShape
<1>5. \A w \in Jobs : Busy(w) => job[w].rule \in listed' /\ map'[job[w].rule] = map[job[w].rule]
  BY <1>2, <1>3, BusySlot
<1>6. listed' \in SUBSET Rules
  BY <1>1, <1>2 DEF ListShape
<1>7. Order'
  BY <1>2, <1>3, <1>4, <1>5, <1>6, ListKeeps
<1>8. PortInv'
  BY <1>2, <1>3, ListPort DEF GatewayInv
<1>9. QED
  BY <1>7, <1>8 DEF GatewayInv

\* mapping del: a rule that is not active has no goroutine.
LEMMA DelKeeps ==
  ASSUME GatewayInv, Settled, NEW r \in Rules, Del(r), TakenNext
  PROVE  GatewayInv'
<1>1. TypeOK /\ ListShape
  BY DEF GatewayInv, Order, PortInv, TypeInv
<1>2. /\ map[r].status # "active" /\ listed' = listed \ {r}
      /\ UNCHANGED <<job, op, todo, srvCtx, isRun>> /\ Collect
  BY DEF Del
<1>3. /\ map' \in [Rules -> MappingType]
      /\ \A q \in Rules : map'[q].status = map[q].status
      /\ \A q \in Rules : q # r => map'[q] = map[q]
      /\ ~map'[r].enable /\ map'[r].ctx = Nil
  <2> DEFINE mid == [map EXCEPT ![r].enable = FALSE]
  <2>1. /\ mid \in [Rules -> MappingType]
        /\ \A q \in Rules : mid[q].status = map[q].status
        /\ \A q \in Rules : q # r => mid[q] = map[q]
        /\ ~mid[r].enable
    BY <1>1 DEF TypeOK, MappingType
  <2>2. map' = [mid EXCEPT ![r].ctx = Nil]
    BY <1>1 DEF Del, TypeOK
  <2> HIDE DEF mid
  <2>3. QED
    BY <2>1, <2>2 DEF MappingType
<1>4. \A q \in Rules \ listed' : ~map'[q].enable
  BY <1>1, <1>2, <1>3 DEF ListShape
<1>5. \A w \in Jobs : Busy(w) => job[w].rule \in listed' /\ map'[job[w].rule] = map[job[w].rule]
  BY <1>2, <1>3, BusySlot, SettledServes
<1>6. listed' \in SUBSET Rules
  BY <1>1, <1>2 DEF ListShape
<1>7. /\ \A q \in Rules : map'[q].ctx = map[q].ctx \/ map'[q].ctx = Nil
      /\ \A q \in Rules : map'[q].enable => map[q].enable
  BY <1>3
<1>8. Order'
  BY <1>2, <1>4, <1>5, <1>6, <1>7, ListKeeps
<1>9. PortInv'
  BY <1>2, <1>3, ListPort DEF GatewayInv
<1>10. QED
  BY <1>8, <1>9 DEF GatewayInv

\* mapping upd: a rule that is not active has no goroutine whose port it shows.
LEMMA UpdKeeps ==
  ASSUME GatewayInv, Settled, NEW r \in Rules, NEW p \in Ports, Upd(r, p), TakenNext
  PROVE  GatewayInv'
<1>1. TypeOK /\ ListShape
  BY DEF GatewayInv, Order, PortInv, TypeInv
<1>2. /\ map[r].status # "active"
      /\ UNCHANGED <<job, op, todo, parent, done, srvCtx, isRun, listed>>
  BY DEF Upd
<1>3. /\ map' \in [Rules -> MappingType]
      /\ \A q \in Rules :
            /\ map'[q].status = map[q].status /\ map'[q].ctx = map[q].ctx
            /\ map'[q].enable = map[q].enable
      /\ \A q \in Rules : q # r => map'[q] = map[q]
  BY <1>1 DEF Upd, TypeOK, MappingType
<1>4. \A q \in Rules \ listed' : ~map'[q].enable
  BY <1>1, <1>2, <1>3 DEF ListShape
<1>5. \A w \in Jobs : Busy(w) => job[w].rule \in listed' /\ map'[job[w].rule] = map[job[w].rule]
  BY <1>2, <1>3, BusySlot, SettledServes
<1>6. listed' \in SUBSET Rules
  BY <1>1, <1>2 DEF ListShape
<1>7. Order'
  BY <1>2, <1>3, <1>4, <1>5, <1>6, ListKeeps
<1>8. PortInv'
  BY <1>2, <1>3, ListPort DEF GatewayInv
<1>9. QED
  BY <1>7, <1>8 DEF GatewayInv

-----------------------------------------------------------------------------
(* The commands go on, one at a time.                                       *)

\* While a command is executed no other one is and no controller starts rules.
LEMMA RunningCommand ==
  ASSUME GatewayInv, NEW o \in Ops, op[o].pc # "idle"
  PROVE  /\ CommandKnows(o) /\ \A q \in Ops : q # o => op[q] = IdleOp
         /\ \A k \in Ctls : todo[k] = {}
         /\ op[o].pc \in {"flag", "enable", "spawn", "disable"} =>
               op[o].rule \in listed /\ op[o].rule \in Rules
<1>1. CommandKnows(o)
  BY DEF GatewayInv, Order
<1>2. op[o] # IdleOp
  BY DEF IdleOp
<1>3. \A q \in Ops : q # o => op[q] = IdleOp
  BY <1>2 DEF GatewayInv, Order, OneCommand
<1>4. QED
  BY <1>1, <1>3 DEF CommandKnows, GatewayInv, Order, ListShape

\* A command that enables or disables its rule keeps the invariant if what it
\* knows afterwards is true, no goroutine loses its rule, and a rule that
\* becomes wanted is about to be launched.
LEMMA EnableKeeps ==
  ASSUME GatewayInv, NEW o \in Ops, NEW r \in listed, NEW b \in BOOLEAN, op[o].pc # "idle",
         map' = [map EXCEPT ![r].enable = b],
         UNCHANGED <<job, todo, parent, done, srvCtx, isRun, listed>>, TakenNext,
         \A q \in Ops : q # o => op'[q] = op[q],
         CommandKnows(o)', \A w \in Jobs : Busy(w) => Life(w)', Covered'
  PROVE  Order'
<1>1. TypeOK /\ OneCommand /\ ListShape /\ CtxShape /\ RunShape /\ OneGoroutinePerRule
  BY DEF GatewayInv, Order, PortInv, TypeInv
<1>2. /\ \A q \in Ops : q # o => op'[q] = IdleOp
      /\ \A k \in Ctls : todo[k] = {}
  BY RunningCommand
<1>3. taken' = taken
  BY <1>1, TakenSame DEF ListShape
<1>4. \A q \in Rules :
        /\ map'[q].status = map[q].status /\ map'[q].ctx = map[q].ctx
        /\ map'[q].port = map[q].port
        /\ map'[q].enable = IF q = r THEN b ELSE map[q].enable
  BY <1>1 DEF TypeOK, MappingType
<1>5. OneCommand' /\ OneGoroutinePerRule' /\ RunShape'
  BY <1>1, <1>2 DEF OneCommand, OneGoroutinePerRule, RunShape, Busy
<1>6. ListShape'
  BY <1>1, <1>3, <1>4 DEF ListShape
<1>7. CtxShape'
  BY <1>1, <1>4, CtxShapeSame
<1>8. \A w \in Jobs : Slot(w)' /\ (Busy(w)' => Life(w)')
  <2>1. ASSUME NEW w \in Jobs PROVE Slot(w)'
    <3>1. CASE ~Busy(w)
      BY <3>1, IdleSlot DEF Slot, Busy
    <3>2. CASE Busy(w)
      <4>1. Slot(w) /\ job[w].rule \in Rules /\ Busy(w)'
        BY <3>2, BusySlot DEF GatewayInv, Order, Busy
      <4>2. QED
        BY <3>2, <4>1, <1>3, <1>4 DEF Slot
    <3>3. QED
      BY <3>1, <3>2
  <2>2. QED
    BY <2>1 DEF Busy
<1>9. \A q \in Ops : CommandKnows(q)'
  BY <1>2 DEF CommandKnows, IdleOp
<1>10. \A k \in Ctls : ControllerKnows(k)'
  BY <1>2 DEF ControllerKnows
<1>11. QED
  BY <1>5, <1>6, <1>7, <1>8, <1>9, <1>10 DEF Order

\* mapping start of a stopped service: no goroutine runs, no rule is wanted.
LEMMA FlagRuleKeeps ==
  ASSUME GatewayInv, NEW o \in Ops, FlagRule(o), UNCHANGED listed, TakenNext
  PROVE  Order'
<1> DEFINE r == op[o].rule
<1>1. op[o].pc = "flag" /\ map' = [map EXCEPT ![r].enable = TRUE]
  BY DEF FlagRule
<1>2. UNCHANGED <<job, todo, parent, done, srvCtx, isRun>> /\ op' = [op EXCEPT ![o] = IdleOp]
  BY DEF FlagRule, End
<1>3. r \in listed /\ CommandKnows(o)
  BY <1>1, RunningCommand
<1>4. ~isRun /\ \A w \in Jobs : ~Busy(w)
  BY <1>1, <1>3 DEF CommandKnows
<1>5. op'[o] = IdleOp /\ \A q \in Ops : q # o => op'[q] = op[q]
  BY <1>2 DEF GatewayInv, PortInv, TypeInv, TypeOK
<1>6. CommandKnows(o)'
  BY <1>5 DEF CommandKnows, IdleOp
<1>7. Covered'
  BY <1>2, <1>4 DEF Covered, Wanted
<1> HIDE DEF r
<1>8. QED
  BY <1>1, <1>2, <1>3, <1>4, <1>5, <1>6, <1>7, EnableKeeps

\* mapping start of a running service: the enabled rule is launched next.
LEMMA EnableRuleKeeps ==
  ASSUME GatewayInv, NEW o \in Ops, EnableRule(o), UNCHANGED listed, TakenNext
  PROVE  Order'
<1> DEFINE r == op[o].rule
<1>1. op[o].pc = "enable" /\ map' = [map EXCEPT ![r].enable = TRUE]
  BY DEF EnableRule
<1>2. UNCHANGED <<job, todo, parent, done, srvCtx, isRun>> /\ op' = [op EXCEPT ![o].pc = "spawn"]
  BY DEF EnableRule
<1>3. r \in listed /\ r \in Rules /\ CommandKnows(o) /\ TypeOK /\ ListShape
      /\ \A q \in Ops : q # o => op[q] = IdleOp
  BY <1>1, RunningCommand DEF GatewayInv, PortInv, TypeInv, Order
<1>4. isRun /\ \A w \in Jobs : (Busy(w) => Alive(w)) /\ job[w].rule # r
  BY <1>1, <1>3 DEF CommandKnows
<1>5. /\ op'[o].pc = "spawn" /\ op'[o].rule = r
      /\ \A q \in Ops : q # o => op'[q] = op[q]
  BY <1>2, <1>3 DEF TypeOK, OpType
<1>6. /\ map'[r].enable
      /\ \A q \in Rules : map'[q].ctx = map[q].ctx /\ (q # r => map'[q] = map[q])
  BY <1>1, <1>3 DEF TypeOK, MappingType
<1>7. ASSUME NEW w \in Jobs, Busy(w) PROVE Alive(w)' /\ Life(w)'
  <2>1. Life(w) /\ Alive(w) /\ job[w].rule # r /\ job[w].rule \in Rules
    BY <1>4, <1>7, BusySlot DEF GatewayInv, Order
  <2>2. Alive(w)'
    BY <1>2, <1>6, <2>1 DEF Alive, Done
  <2>3. QED
    BY <1>2, <1>6, <2>1, <2>2 DEF Life
<1>8. CommandKnows(o)'
  <2>1. \A w \in Jobs : Busy(w)' <=> Busy(w)
    BY <1>2 DEF Busy
  <2>2. CommandKnows(o)
    BY <1>3
  <2>3. QED
    BY <1>1, <1>2, <1>3, <1>4, <1>5, <1>6, <1>7, <2>1, <2>2 DEF CommandKnows
<1>9. Covered'
  <2>1. taken' = taken
    BY <1>2, <1>3, TakenSame DEF ListShape
  <2>2. \A q \in Wanted' : q = r \/ q \in Wanted
    BY <1>1, <1>2, <1>3, <1>5, <1>6, <2>1 DEF Wanted, IdleOp, ListShape
  <2>3. Covered
    BY DEF GatewayInv, Order
  <2>4. \A q \in Ops : op[q].pc # "spawn"
    BY <1>1, <1>3 DEF IdleOp
  <2>5. \A q \in Wanted : (\E w \in Jobs : job[w].rule = q) \/ (\E k \in Ctls : q \in todo[k])
    BY <2>3, <2>4 DEF Covered
  <2>6. QED
    BY <1>2, <1>5, <2>2, <2>5 DEF Covered
<1> HIDE DEF r
<1>10. QED
  BY <1>1, <1>2, <1>3, <1>5, <1>7, <1>8, <1>9, EnableKeeps

\* mapping stop, second half: the goroutine of the rule has been cancelled.
LEMMA DisableRuleKeeps ==
  ASSUME GatewayInv, NEW o \in Ops, DisableRule(o), UNCHANGED listed, TakenNext
  PROVE  Order'
<1> DEFINE r == op[o].rule
<1>1. op[o].pc = "disable" /\ map' = [map EXCEPT ![r].enable = FALSE]
  BY DEF DisableRule
<1>2. UNCHANGED <<job, todo, parent, done, srvCtx, isRun>> /\ op' = [op EXCEPT ![o] = IdleOp]
  BY DEF DisableRule, End
<1>3. r \in listed /\ r \in Rules /\ CommandKnows(o) /\ TypeOK /\ ListShape
      /\ \A q \in Ops : q # o => op[q] = IdleOp
  BY <1>1, RunningCommand DEF GatewayInv, PortInv, TypeInv, Order
<1>4. \A w \in Jobs : Busy(w) /\ job[w].rule = r => ~Alive(w)
  BY <1>1, <1>3 DEF CommandKnows
<1>5. op'[o] = IdleOp /\ \A q \in Ops : q # o => op'[q] = op[q]
  BY <1>2, <1>3 DEF TypeOK
<1>6. /\ ~map'[r].enable
      /\ \A q \in Rules : map'[q].ctx = map[q].ctx /\ (q # r => map'[q] = map[q])
  BY <1>1, <1>3 DEF TypeOK, MappingType
<1>7. ASSUME NEW w \in Jobs, Busy(w) PROVE Life(w)'
  <2>1. Life(w) /\ job[w].rule \in Rules
    BY <1>7, BusySlot DEF GatewayInv, Order
  <2>2. Alive(w)' <=> Alive(w)
    BY <1>2, <1>6, <2>1 DEF Alive, Done
  <2>3. CASE job[w].rule = r
    BY <1>2, <1>4, <1>6, <1>7, <2>1, <2>2, <2>3 DEF Life
  <2>4. CASE job[w].rule # r
    <3>1. ~Stopping(job[w].rule)
      BY <1>3, <2>4 DEF Stopping, IdleOp
    <3>2. QED
      BY <1>2, <1>6, <2>1, <2>2, <2>4, <3>1 DEF Life
  <2>5. QED
    BY <2>3, <2>4
<1>8. CommandKnows(o)'
  BY <1>5 DEF CommandKnows, IdleOp
<1>9. Covered'
  <2>1. taken' = taken
    BY <1>2, <1>3, TakenSame DEF ListShape
  <2>2. \A q \in Wanted' : q \in Wanted
    BY <1>1, <1>2, <1>3, <1>6, <2>1 DEF Wanted, IdleOp, ListShape
  <2>3. \A q \in Ops : op[q].pc # "spawn"
    BY <1>1, <1>3 DEF IdleOp
  <2>4. \A q \in Wanted : (\E w \in Jobs : job[w].rule = q) \/ (\E k \in Ctls : q \in todo[k])
    BY <2>3 DEF Covered, GatewayInv, Order
  <2>5. QED
    BY <1>2, <2>2, <2>4 DEF Covered
<1> HIDE DEF r
<1>10. QED
  BY <1>1, <1>2, <1>3, <1>5, <1>7, <1>8, <1>9, EnableKeeps

-----------------------------------------------------------------------------
(* Launches, by a command or by a controller.                               *)

\* Everything but what the commands and the controllers know, for a launch of
\* an enabled rule of the running service that has no goroutine.
LEMMA LaunchKeeps ==
  ASSUME GatewayInv, NEW r \in listed, NEW p \in {srvCtx, Nil}, Launch(r, p),
         isRun, map[r].enable, \A w \in Jobs : job[w].rule # r,
         UNCHANGED <<srvCtx, isRun, listed>>, TakenNext,
         \A q \in Rules : Stopping(q)' <=> Stopping(q)
  PROVE  /\ ListShape' /\ CtxShape' /\ RunShape' /\ OneGoroutinePerRule'
         /\ \A w \in Jobs : Slot(w)' /\ (Busy(w)' => Life(w)')
         /\ taken' = taken \ {r}
         /\ \E w \in Jobs :
               job'[w].rule = r /\ \A v \in Jobs : v # w => job'[v] = job[v]
         /\ \A w \in Jobs : job[w].rule \in Rules => job'[w] = job[w]
         /\ \A q \in Rules : map'[q].enable = map[q].enable
<1>1. TypeOK /\ OneCommand /\ ListShape /\ CtxShape /\ RunShape /\ OneGoroutinePerRule
  BY DEF GatewayInv, Order, PortInv, TypeInv
<1>2. r \in Rules /\ Nil \notin Rules /\ Nil \notin Ctxs /\ Nil \notin done
  BY <1>1, NilIsNoContext DEF ListShape
<1>3. srvCtx \notin done /\ ~Done(p)
  BY <1>1, <1>2 DEF RunShape, Done
<1>4. PICK w \in Jobs, c \in Ctxs :
        /\ job[w] = FreeJob /\ ~CtxInUse(c)
        /\ map' = [map EXCEPT ![r].ctx = c]
        /\ job' = [job EXCEPT ![w] = [FreeJob EXCEPT !.pc = "listen", !.rule = r,
                                                     !.srv = srvCtx]]
        /\ parent' = [d \in Ctxs |->
                         IF d = c THEN p ELSE IF CtxInUse(d)' THEN parent[d] ELSE Nil]
        /\ done' = {d \in done : CtxInUse(d)' \/ SrvCtxInUse(d)'}
  <2>1. PICK w \in Jobs, c \in Ctxs :
          /\ job[w] = FreeJob /\ ~CtxInUse(c)
          /\ map' = [map EXCEPT ![r].ctx = c]
          /\ job' = [job EXCEPT ![w] = [FreeJob EXCEPT !.pc = "listen", !.rule = r,
                                                       !.srv = srvCtx]]
          /\ parent' = [d \in Ctxs |->
                           IF d = c THEN (IF Done(p) THEN Nil ELSE p)
                           ELSE IF CtxInUse(d)' THEN parent[d] ELSE Nil]
          /\ done' = {d \in done : CtxInUse(d)' \/ SrvCtxInUse(d)'}
                        \cup (IF Done(p) THEN {c} ELSE {})
    BY DEF Launch
  <2>2. QED
    BY <1>3, <2>1
<1>5. \A q \in Rules :
        /\ map'[q].enable = map[q].enable /\ map'[q].status = map[q].status
        /\ map'[q].port = map[q].port
        /\ map'[q].ctx = IF q = r THEN c ELSE map[q].ctx
  BY <1>1, <1>4 DEF TypeOK, MappingType
<1>6. /\ job'[w].pc = "listen" /\ job'[w].rule = r /\ job'[w].srv = srvCtx
      /\ job'[w].closer = "none" /\ job'[w].watch = Nil /\ ~job'[w].sock
      /\ job[w].pc = "free" /\ job[w].rule = Nil
  BY <1>1, <1>4 DEF TypeOK, FreeJob
<1>7. \A v \in Jobs : v # w => job'[v] = job[v]
  BY <1>1, <1>4 DEF TypeOK
<1>8. c \notin done /\ \A q \in Rules : map[q].ctx # c
  BY <1>4, FreshContext DEF CtxInUse
<1>9. /\ srvCtx \notin done' /\ c \notin done'
      /\ \A q \in Rules : q # r => (map[q].ctx \in done' <=> map[q].ctx \in done)
  <2>1. \A q \in Rules : q # r => CtxInUse(map[q].ctx)'
    BY <1>5 DEF CtxInUse
  <2>2. QED
    BY <1>3, <1>4, <1>8, <2>1
<1>10. taken' = taken \ {r}
  <2>1. Bounced = {}
    BY <1>6, <1>7 DEF Bounced
  <2>2. Started = {r}
    BY <1>6, <1>7 DEF Started
  <2>3. QED
    BY <1>1, <2>1, <2>2 DEF TakenNext, ListShape
<1>11. ListShape'
  BY <1>1, <1>5, <1>10 DEF ListShape
<1>12. RunShape'
  BY <1>9 DEF RunShape
<1>13. OneGoroutinePerRule'
  BY <1>1, <1>2, <1>6, <1>7 DEF OneGoroutinePerRule
<1>14. CtxShape'
  <2>1. \A q, x \in Rules : map'[q].ctx = map'[x].ctx /\ map'[q].ctx # Nil => q = x
    BY <1>1, <1>5, <1>8 DEF CtxShape
  <2>2. \A d \in done' : CtxInUse(d)' \/ SrvCtxInUse(d)'
    BY <1>4
  <2>3. CtxInUse(c)'
    BY <1>2, <1>5 DEF CtxInUse
  <2>4. \A d \in Ctxs : parent'[d] # Nil => CtxInUse(d)'
    BY <1>4, <2>3
  <2>5. QED
    BY <2>1, <2>2, <2>4 DEF CtxShape
<1>15. ASSUME NEW v \in Jobs PROVE Slot(v)' /\ (Busy(v)' => Life(v)')
  <2>1. CASE v = w
    <3>1. Busy(w)' /\ r \in listed' \ taken'
      BY <1>6, <1>10 DEF Busy
    <3>2. map'[r].ctx = c /\ map'[r].enable
      BY <1>2, <1>5
    <3>3. Slot(w)'
      BY <1>2, <1>6, <3>1, <3>2 DEF Slot
    <3>4. Alive(w)'
      BY <1>6, <1>9, <3>2 DEF Alive, Done
    <3>5. Life(w)'
      BY <1>6, <3>2, <3>4 DEF Life
    <3>6. QED
      BY <2>1, <3>3, <3>5
  <2>2. CASE v # w /\ ~Busy(v)
    BY <2>2, <1>7, IdleSlot DEF Slot, Busy
  <2>3. CASE v # w /\ Busy(v)
    <3>1. job'[v] = job[v] /\ job[v].rule # r /\ job[v].rule \in Rules /\ Busy(v)'
      BY <2>3, <1>7, BusySlot DEF Busy
    <3>2. Slot(v) /\ Life(v)
      BY <2>3 DEF GatewayInv, Order
    <3>3. Slot(v)'
      BY <2>3, <3>1, <3>2, <1>5, <1>10 DEF Slot
    <3>4. Alive(v)' <=> Alive(v)
      BY <2>3, <3>1, <1>3, <1>5, <1>9, BusySlot DEF Alive, Done
    <3>5. Life(v)'
      BY <3>1, <3>2, <3>4, <1>5 DEF Life
    <3>6. QED
      BY <3>3, <3>5
  <2>4. QED
    BY <2>1, <2>2, <2>3
<1>16. \A v \in Jobs : job[v].rule \in Rules => job'[v] = job[v]
  BY <1>2, <1>6, <1>7
<1>17. QED
  BY <1>5, <1>6, <1>7, <1>10, <1>11, <1>12, <1>13, <1>14, <1>15, <1>16

\* mapping start, the launch: the command has found no goroutine of its rule.
LEMMA SpawnRuleKeeps ==
  ASSUME GatewayInv, NEW o \in Ops, SpawnRule(o), UNCHANGED listed, TakenNext
  PROVE  Order'
<1> DEFINE r == op[o].rule
           p == IF o \in ShellOps THEN Nil ELSE srvCtx
<1>1. op[o].pc = "spawn" /\ UNCHANGED <<todo, srvCtx, isRun>> /\ Launch(r, p)
  BY DEF SpawnRule
<1>2. op' = [op EXCEPT ![o] = IdleOp]
  BY DEF SpawnRule, End
<1>3. /\ r \in listed /\ r \in Rules /\ CommandKnows(o) /\ TypeOK /\ ListShape
      /\ \A q \in Ops : q # o => op[q] = IdleOp
      /\ \A k \in Ctls : todo[k] = {}
  BY <1>1, RunningCommand DEF GatewayInv, PortInv, TypeInv, Order
<1>4. isRun /\ map[r].enable /\ \A w \in Jobs : job[w].rule # r
  BY <1>1, <1>3 DEF CommandKnows
<1>5. \A q \in Ops : op'[q] = IdleOp
  BY <1>2, <1>3 DEF TypeOK
<1>6. \A q \in Ops : op[q].pc # "disable"
  BY <1>1, <1>3 DEF IdleOp
<1>7. \A q \in Rules : Stopping(q)' <=> Stopping(q)
  BY <1>5, <1>6 DEF Stopping, IdleOp
<1>8. p \in {srvCtx, Nil}
  OBVIOUS
<1> HIDE DEF r, p
<1>9. /\ ListShape' /\ CtxShape' /\ RunShape' /\ OneGoroutinePerRule'
      /\ \A w \in Jobs : Slot(w)' /\ (Busy(w)' => Life(w)')
      /\ taken' = taken \ {r}
      /\ \E w \in Jobs : job'[w].rule = r
      /\ \A w \in Jobs : job[w].rule \in Rules => job'[w] = job[w]
      /\ \A q \in Rules : map'[q].enable = map[q].enable
  BY <1>1, <1>3, <1>4, <1>7, <1>8, LaunchKeeps
<1>10. OneCommand'
  BY <1>5 DEF OneCommand
<1>11. \A q \in Ops : CommandKnows(q)'
  BY <1>5 DEF CommandKnows, IdleOp
<1>12. \A k \in Ctls : ControllerKnows(k)'
  BY <1>1, <1>3 DEF ControllerKnows
<1>13. Covered'
  <2>1. \A q \in Wanted' : q \in Rules /\ (q = r \/ q \in Wanted)
    BY <1>1, <1>3, <1>6, <1>9 DEF Wanted, ListShape
  <2>2. \A q \in Ops : op[q].pc = "spawn" => op[q].rule = r
    BY <1>3 DEF IdleOp, r
  <2>3. \A q \in Wanted : q = r \/ \E w \in Jobs : job[w].rule = q
    BY <1>3, <2>2 DEF Covered, GatewayInv, Order
  <2>4. \A q \in Wanted' : \E w \in Jobs : job'[w].rule = q
    BY <1>9, <2>1, <2>3
  <2>5. QED
    BY <2>4 DEF Covered
<1>14. QED
  BY <1>9, <1>10, <1>11, <1>12, <1>13 DEF Order

\* While a controller has rules to visit there is no command and no other one.
LEMMA RunningController ==
  ASSUME GatewayInv, NEW k \in Ctls, NEW r \in todo[k]
  PROVE  /\ AllIdle /\ isRun /\ r \in Rules
         /\ \A j \in Ctls : todo[j] # {} => j = k
         /\ \A w \in Jobs : job[w].rule \notin todo[k]
<1>1. ControllerKnows(k) /\ todo[k] \subseteq Rules
  BY DEF GatewayInv, Order, PortInv, TypeInv, TypeOK
<1>2. QED
  BY <1>1 DEF ControllerKnows

\* A controller launches an enabled rule, and has not visited it before.
LEMMA ControllerLaunchKeeps ==
  ASSUME GatewayInv, NEW k \in Ctls, NEW r \in Rules, ControllerLaunch(k, r),
         UNCHANGED listed, TakenNext
  PROVE  Order'
<1>1. /\ r \in todo[k] /\ map[r].enable /\ todo' = [todo EXCEPT ![k] = @ \ {r}]
      /\ UNCHANGED <<op, srvCtx, isRun>> /\ Launch(r, srvCtx)
  BY DEF ControllerLaunch
<1>2. /\ AllIdle /\ isRun
      /\ \A j \in Ctls : todo[j] # {} => j = k
      /\ \A w \in Jobs : job[w].rule \notin todo[k]
  BY <1>1, RunningController
<1>3. TypeOK /\ ListShape /\ OneCommand
  BY DEF GatewayInv, PortInv, TypeInv, Order
<1>4. r \in listed /\ \A w \in Jobs : job[w].rule # r
  BY <1>1, <1>2, <1>3 DEF ListShape
<1>5. \A q \in Rules : Stopping(q)' <=> Stopping(q)
  BY <1>1 DEF Stopping
<1>6. srvCtx \in {srvCtx, Nil}
  OBVIOUS
<1>7. /\ ListShape' /\ CtxShape' /\ RunShape' /\ OneGoroutinePerRule'
      /\ \A w \in Jobs : Slot(w)' /\ (Busy(w)' => Life(w)')
      /\ taken' = taken \ {r}
      /\ \E w \in Jobs : job'[w].rule = r /\ \A v \in Jobs : v # w => job'[v] = job[v]
      /\ \A w \in Jobs : job[w].rule \in Rules => job'[w] = job[w]
      /\ \A q \in Rules : map'[q].enable = map[q].enable
  BY <1>1, <1>2, <1>4, <1>5, <1>6, LaunchKeeps
<1>8. OneCommand' /\ AllIdle'
  BY <1>1, <1>2, <1>3 DEF OneCommand, AllIdle
<1>9. \A q \in Ops : CommandKnows(q)'
  BY <1>8 DEF CommandKnows, IdleOp, AllIdle
<1>10. /\ todo'[k] = todo[k] \ {r}
       /\ \A j \in Ctls : j # k => todo'[j] = todo[j]
  BY <1>1, <1>3 DEF TypeOK
<1>11. \A w \in Jobs : job'[w].rule \notin todo'[k]
  BY <1>2, <1>7, <1>10
<1>12. \A j \in Ctls : ControllerKnows(j)'
  BY <1>1, <1>2, <1>8, <1>10, <1>11 DEF ControllerKnows
<1>13. Covered'
  <2>1. \A q \in Wanted' : q \in Rules /\ (q = r \/ q \in Wanted)
    BY <1>1, <1>3, <1>7 DEF Wanted, ListShape
  <2>2. \A q \in Ops : op[q].pc # "spawn"
    BY <1>2 DEF AllIdle, IdleOp
  <2>3. \A q \in Wanted : (\E w \in Jobs : job[w].rule = q) \/ (\E j \in Ctls : q \in todo[j])
    BY <2>2 DEF Covered, GatewayInv, Order
  <2>4. \A q \in Wanted' : (\E w \in Jobs : job'[w].rule = q) \/ (\E j \in Ctls : q \in todo'[j])
    BY <1>7, <1>10, <2>1, <2>3
  <2>5. QED
    BY <2>4 DEF Covered
<1>14. QED
  BY <1>7, <1>8, <1>9, <1>12, <1>13 DEF Order

\* A controller leaves out a rule that is not wanted.
LEMMA ControllerSkipKeeps ==
  ASSUME GatewayInv, NEW k \in Ctls, NEW r \in Rules, ControllerSkip(k, r),
         UNCHANGED listed, TakenNext
  PROVE  Order'
<1>1. /\ r \in todo[k] /\ ~map[r].enable /\ todo' = [todo EXCEPT ![k] = @ \ {r}]
      /\ UNCHANGED <<map, job, op, parent, done, srvCtx, isRun>>
  BY DEF ControllerSkip
<1>2. /\ AllIdle /\ isRun
      /\ \A j \in Ctls : todo[j] # {} => j = k
      /\ \A w \in Jobs : job[w].rule \notin todo[k]
  BY <1>1, RunningController
<1>3. TypeOK /\ ListShape /\ OneCommand /\ CtxShape /\ RunShape /\ OneGoroutinePerRule
  BY DEF GatewayInv, PortInv, TypeInv, Order
<1>4. taken' = taken
  BY <1>1, <1>3, TakenSame DEF ListShape
<1>5. /\ OneCommand' /\ ListShape' /\ RunShape' /\ OneGoroutinePerRule' /\ AllIdle'
  BY <1>1, <1>2, <1>3, <1>4
     DEF OneCommand, ListShape, RunShape, OneGoroutinePerRule, AllIdle, Busy
<1>6. CtxShape'
  BY <1>1, <1>3, CtxShapeSame
<1>7. \A w \in Jobs : Slot(w)' /\ (Busy(w)' => Life(w)')
  <2>1. \A w \in Jobs : Slot(w) /\ (Busy(w) => Life(w))
    BY DEF GatewayInv, Order
  <2>2. QED
    BY <1>1, <1>4, <2>1 DEF Slot, Busy, Life, Alive, Done, Stopping
<1>8. \A q \in Ops : CommandKnows(q)'
  BY <1>5 DEF CommandKnows, IdleOp, AllIdle
<1>9. /\ todo'[k] = todo[k] \ {r}
      /\ \A j \in Ctls : j # k => todo'[j] = todo[j]
  BY <1>1, <1>3 DEF TypeOK
<1>10. \A j \in Ctls : ControllerKnows(j)'
  BY <1>1, <1>2, <1>5, <1>9 DEF ControllerKnows
<1>11. Covered'
  <2>1. \A q \in Wanted' : q # r /\ q \in Wanted
    BY <1>1, <1>4 DEF Wanted
  <2>2. \A q \in Ops : op[q].pc # "spawn"
    BY <1>2 DEF AllIdle, IdleOp
  <2>3. \A q \in Wanted : (\E w \in Jobs : job[w].rule = q) \/ (\E j \in Ctls : q \in todo[j])
    BY <2>2 DEF Covered, GatewayInv, Order
  <2>4. \A q \in Wanted' : (\E w \in Jobs : job'[w].rule = q) \/ (\E j \in Ctls : q \in todo'[j])
    BY <1>1, <1>9, <2>1, <2>3
  <2>5. QED
    BY <2>4 DEF Covered
<1>12. QED
  BY <1>5, <1>6, <1>7, <1>8, <1>10, <1>11 DEF Order

-----------------------------------------------------------------------------
(* The service is started and stopped.                                      *)

\* service start: nothing runs, the context is live, a controller will visit
\* every rule.
LEMMA SvcStartKeeps ==
  ASSUME GatewayInv, NEW o \in Ops, SvcStart(o), UNCHANGED listed, TakenNext
  PROVE  Order'
<1>1. /\ op[o].pc = "svcstart" /\ op' = [op EXCEPT ![o] = IdleOp]
      /\ isRun' = TRUE /\ UNCHANGED <<map, job>> /\ Collect
  BY DEF SvcStart, End
<1>2. /\ CommandKnows(o) /\ \A q \in Ops : q # o => op[q] = IdleOp
      /\ \A j \in Ctls : todo[j] = {}
  BY <1>1, RunningCommand
<1>3. \A w \in Jobs : ~Busy(w) /\ job[w] = FreeJob /\ job[w].rule = Nil
  BY <1>1, <1>2, IdleSlot DEF CommandKnows
<1>4. TypeOK /\ ListShape /\ CtxShape
  BY DEF GatewayInv, PortInv, TypeInv, Order
<1>5. PICK k \in Ctls : todo' = [todo EXCEPT ![k] = Rules]
  BY DEF SvcStart
<1>6. /\ todo'[k] = Rules
      /\ \A j \in Ctls : j # k => todo'[j] = {}
  BY <1>2, <1>4, <1>5 DEF TypeOK
<1>7. srvCtx' \notin done
  <2>1. CASE o \in ShellOps /\ srvCtx' = srvCtx
    BY <1>1, <1>2, <2>1 DEF CommandKnows
  <2>2. CASE srvCtx' \in {s \in SrvCtxs : ~SrvCtxInUse(s)}
    BY <2>2, FreshContext
  <2>3. QED
    BY <2>1, <2>2 DEF SvcStart
<1>8. srvCtx' \notin done'
  BY <1>1, <1>7 DEF Collect
<1>9. taken' = taken
  BY <1>1, <1>4, TakenSame DEF ListShape
<1>10. \A q \in Ops : op'[q] = IdleOp
  BY <1>1, <1>2, <1>4 DEF TypeOK
<1>11. OneCommand' /\ AllIdle'
  BY <1>10 DEF OneCommand, AllIdle
<1>12. ListShape'
  BY <1>1, <1>4, <1>9 DEF ListShape
<1>13. CtxShape'
  BY <1>1, <1>4, CollectShape DEF CtxShape
<1>14. RunShape'
  BY <1>1, <1>8 DEF RunShape
<1>15. OneGoroutinePerRule'
  BY <1>1, <1>3 DEF OneGoroutinePerRule
<1>16. \A w \in Jobs : Slot(w)' /\ (Busy(w)' => Life(w)')
  BY <1>1, <1>3 DEF Slot, Busy
<1>17. \A q \in Ops : CommandKnows(q)'
  BY <1>10 DEF CommandKnows, IdleOp
<1>18. \A j \in Ctls : ControllerKnows(j)'
  BY <1>1, <1>3, <1>4, <1>6, <1>11, NilIsNoContext DEF ControllerKnows
<1>19. Covered'
  BY <1>4, <1>6 DEF Covered, Wanted, ListShape
<1>20. QED
  BY <1>11, <1>12, <1>13, <1>14, <1>15, <1>16, <1>17, <1>18, <1>19 DEF Order

\* service stop: the context of every goroutine is cancelled.
LEMMA SvcStopKeeps ==
  ASSUME GatewayInv, NEW o \in Ops, SvcStop(o), UNCHANGED listed, TakenNext
  PROVE  Order'
<1>1. /\ op[o].pc = "svcstop" /\ op' = [op EXCEPT ![o] = IdleOp] /\ isRun' = FALSE
      /\ UNCHANGED <<map, job, todo, srvCtx>>
      /\ done' = done \cup {srvCtx} \cup {c \in Ctxs : parent[c] = srvCtx}
      /\ parent' = [c \in Ctxs |-> IF parent[c] = srvCtx THEN Nil ELSE parent[c]]
  BY DEF SvcStop, End
<1>2. /\ CommandKnows(o) /\ \A q \in Ops : q # o => op[q] = IdleOp
      /\ \A j \in Ctls : todo[j] = {}
  BY <1>1, RunningCommand
<1>3. /\ \A w \in Jobs : Busy(w) => Alive(w)
      /\ \A w \in Jobs : job[w].pc \notin {"listen", "activate"} /\ job[w].closer # "new"
  BY <1>1, <1>2 DEF CommandKnows
<1>4. TypeOK /\ ListShape /\ CtxShape /\ OneGoroutinePerRule
  BY DEF GatewayInv, PortInv, TypeInv, Order
<1>5. taken' = taken
  BY <1>1, <1>4, TakenSame DEF ListShape
<1>6. \A q \in Ops : op'[q] = IdleOp
  BY <1>1, <1>2, <1>4 DEF TypeOK
<1>7. OneCommand' /\ ListShape' /\ OneGoroutinePerRule' /\ RunShape'
  BY <1>1, <1>4, <1>5, <1>6 DEF OneCommand, ListShape, OneGoroutinePerRule, RunShape
<1>8. CtxShape'
  <2>1. \A c : CtxInUse(c)' <=> CtxInUse(c)
    BY <1>1 DEF CtxInUse
  <2>2. \A c \in Ctxs : parent[c] = srvCtx => CtxInUse(c)
    BY <1>4, NilIsNoContext DEF CtxShape, TypeOK
  <2>3. ASSUME NEW c, SrvCtxInUse(c) PROVE SrvCtxInUse(c)'
    <3>1. CASE c = srvCtx
      BY <1>1, <3>1 DEF SrvCtxInUse
    <3>2. CASE c # srvCtx
      BY <1>1, <2>1, <2>3, <3>2 DEF SrvCtxInUse
    <3>3. QED
      BY <3>1, <3>2
  <2>4. SrvCtxInUse(srvCtx)'
    BY <1>1 DEF SrvCtxInUse
  <2>5. \A c \in done' : CtxInUse(c)' \/ SrvCtxInUse(c)'
    BY <1>1, <1>4, <2>1, <2>2, <2>3, <2>4 DEF CtxShape
  <2>6. QED
    BY <1>1, <1>4, <2>1, <2>5 DEF CtxShape
<1>9. ASSUME NEW w \in Jobs PROVE Slot(w)' /\ (Busy(w)' => Life(w)')
  <2>1. Slot(w)
    BY DEF GatewayInv, Order
  <2>2. Slot(w)'
    BY <1>1, <1>5, <2>1 DEF Slot, Busy
  <2>3. ASSUME Busy(w) PROVE Life(w)'
    <3>1. /\ job[w].pc \in {"loop", "accept"} /\ job[w].sock /\ job[w].closer # "none"
      BY <1>3, <2>3 DEF GatewayInv, Order, Life
    <3>2. job[w].closer = "wait"
      BY <1>3, <1>4, <3>1 DEF TypeOK, JobType
    <3>3. ~Alive(w)'
      BY <1>1, <2>3, BusySlot DEF Alive, Done
    <3>4. QED
      BY <1>1, <3>1, <3>2, <3>3 DEF Life
  <2>4. QED
    BY <1>1, <2>2, <2>3 DEF Busy
<1>10. \A q \in Ops : CommandKnows(q)'
  BY <1>6 DEF CommandKnows, IdleOp
<1>11. \A j \in Ctls : ControllerKnows(j)'
  BY <1>1, <1>2 DEF ControllerKnows
<1>12. Covered'
  BY <1>1 DEF Covered, Wanted
<1>13. QED
  BY <1>7, <1>8, <1>9, <1>10, <1>11, <1>12 DEF Order

-----------------------------------------------------------------------------
(* The invariant holds.                                                     *)

\* Before the first command the server has rules and nothing else.
LEMMA GatewayInvInit == GatewayInit => GatewayInv
<1> SUFFICES ASSUME GatewayInit PROVE GatewayInv
  OBVIOUS
<1>1. PortInv /\ TypeOK
  BY PortInvInit DEF GatewayInit, PortInv, TypeInv
<1>2. /\ map \in [Rules -> [enable : BOOLEAN, status : {"inactive"}, ctx : {Nil}, port : Ports]]
      /\ job = [w \in Jobs |-> FreeJob] /\ op = [o \in Ops |-> IdleOp]
      /\ todo = [k \in Ctls |-> {}] /\ parent = [c \in Ctxs |-> Nil] /\ done = {}
      /\ isRun = FALSE /\ taken = {} /\ listed \in SUBSET Rules
      /\ \A r \in Rules \ listed : ~map[r].enable
  BY DEF GatewayInit, Init
<1>3. \A w \in Jobs : job[w] = FreeJob /\ job[w].rule = Nil /\ ~Busy(w)
  BY <1>2 DEF FreeJob, Busy
<1>4. \A o \in Ops : op[o] = IdleOp /\ op[o].pc = "idle"
  BY <1>2 DEF IdleOp
<1>5. OneCommand /\ ListShape /\ RunShape /\ OneGoroutinePerRule
  BY <1>2, <1>3, <1>4 DEF OneCommand, ListShape, RunShape, OneGoroutinePerRule
<1>6. CtxShape
  BY <1>2 DEF CtxShape
<1>7. \A w \in Jobs : Slot(w) /\ (Busy(w) => Life(w))
  BY <1>3 DEF Slot
<1>8. (\A o \in Ops : CommandKnows(o)) /\ (\A k \in Ctls : ControllerKnows(k)) /\ Covered
  BY <1>2, <1>4 DEF CommandKnows, ControllerKnows, Covered, Wanted
<1>9. QED
  BY <1>1, <1>5, <1>6, <1>7, <1>8 DEF GatewayInv, Order

\* A step of Gateway that leaves the list alone is a step of Listener.
LEMMA GatewayStepIsNext ==
  ASSUME (Settled /\ \E o \in Ops : PacedCommand(o)) \/ Progress \/ Connect,
         GatewayInv
  PROVE  Next
BY DEF Next, PacedCommand, Command, GatewayInv, Order, ListShape

\* Every step keeps the invariant, by one case per action.
LEMMA GatewayInvStep == GatewayInv /\ [GatewayNext]_gateway => GatewayInv'
<1> SUFFICES ASSUME GatewayInv, [GatewayNext]_gateway PROVE GatewayInv'
  OBVIOUS
<1>1. ASSUME Settled, NEW o \in Ops, PacedCommand(o), UNCHANGED listed, TakenNext
      PROVE  Order'
  <2>1. ASSUME NEW r \in listed, ~(isRun /\ map[r].enable), StartCheck(o, r) PROVE Order'
    BY <1>1, <2>1, StartCheckKeeps
  <2>2. ASSUME NEW r \in listed, StopClose(o, r) PROVE Order'
    BY <1>1, <2>2, StopCloseKeeps
  <2>3. ASSUME o \in ShellOps => srvCtx \notin done, SvcStartCheck(o) PROVE Order'
    BY <1>1, <2>3, SvcStartCheckKeeps
  <2>4. ASSUME SvcStopCheck(o) PROVE Order'
    BY <1>1, <2>4, SvcStopCheckKeeps
  <2>5. QED
    BY <1>1, <2>1, <2>2, <2>3, <2>4 DEF PacedCommand
<1>2. ASSUME NEW o \in Ops, OpStep(o), UNCHANGED listed, TakenNext PROVE Order'
  BY <1>2, FlagRuleKeeps, EnableRuleKeeps, SpawnRuleKeeps, DisableRuleKeeps, SvcStartKeeps,
     SvcStopKeeps DEF OpStep
<1>3. ASSUME NEW k \in Ctls, CtlStep(k), UNCHANGED listed, TakenNext PROVE Order'
  BY <1>3, ControllerSkipKeeps, ControllerLaunchKeeps DEF CtlStep
<1>4. ASSUME NEW w \in Jobs, JobStep(w) \/ CloserStep(w) \/ AcceptConn(w),
             UNCHANGED listed, TakenNext
      PROVE  Order'
  BY <1>4, ListenKeeps, ActivateKeeps, LoopKeeps, ExitKeeps, CloserArmKeeps, CloserFireKeeps
     DEF JobStep, CloserStep
<1>5. ASSUME Settled, ListChange, TakenNext PROVE GatewayInv'
  BY <1>5, AddKeeps, DelKeeps, UpdKeeps DEF ListChange
<1>6. ASSUME (Settled /\ \E o \in Ops : PacedCommand(o)) \/ Progress \/ Connect,
             UNCHANGED listed, TakenNext
      PROVE  GatewayInv'
  <2>1. PortInv'
    BY <1>6, GatewayStepIsNext, PortInvStep DEF GatewayInv
  <2>2. Order'
    BY <1>1, <1>2, <1>3, <1>4, <1>6 DEF Progress, Connect
  <2>3. QED
    BY <2>1, <2>2 DEF GatewayInv
<1>7. CASE GatewayNext
  <2>1. TakenNext
    BY <1>7 DEF GatewayNext, TakenNext
  <2>2. QED
    BY <1>5, <1>6, <1>7, <2>1 DEF GatewayNext
<1>8. CASE UNCHANGED gateway
  <2>1. PortInv'
    BY <1>8, PortInvStep DEF gateway, GatewayInv
  <2>2. Order'
    BY <1>8 DEF gateway, vars, GatewayInv, Order, OneCommand, ListShape, CtxShape, RunShape,
                OneGoroutinePerRule, Slot, Life, Alive, Done, Busy, Stopping, CommandKnows,
                ControllerKnows, AllIdle, Covered, Wanted, CtxInUse, SrvCtxInUse
  <2>3. QED
    BY <2>1, <2>2 DEF GatewayInv
<1>9. QED
  BY <1>7, <1>8

\* A rule has at most one goroutine at work, from its launch to the end of its
\* last closing goroutine, whatever the patient operator does.
THEOREM OneGoroutineEach == GatewaySpec => []OneGoroutinePerRule
<1>1. GatewayInv => OneGoroutinePerRule
  BY DEF GatewayInv, Order
<1>2. QED
  BY GatewayInvInit, GatewayInvStep, <1>1, PTL DEF GatewaySpec

\* Once the last command has taken effect every status tells the truth, and
\* every enabled rule of a running service has its port or found it taken.
THEOREM SettledTellsTruth == GatewaySpec => []SettledExact
<1>1. ASSUME GatewayInv PROVE SettledExact
  <2> SUFFICES ASSUME Settled, NEW r \in Rules
               PROVE  /\ map[r].status = "active" <=> Serves(r)
                      /\ (\E w \in Jobs : job[w].rule = r /\ job[w].sock) =>
                            Serves(r) /\ r \in listed /\ isRun /\ map[r].enable
                      /\ r \in listed /\ isRun /\ map[r].enable => Serves(r) \/ r \in taken
    BY DEF SettledExact
  <2>1. ASSUME NEW w \in Jobs, job[w].rule = r
        PROVE  /\ Serves(r) /\ map[r].status = "active"
               /\ r \in listed /\ isRun /\ map[r].enable
    BY <1>1, <2>1, NamedSlot, SettledServes, BusySlot DEF Serves
  <2>2. map[r].status = "active" => \E w \in Jobs : job[w].rule = r
    BY <1>1 DEF GatewayInv, PortInv, StatusHasOwner
  <2>3. Serves(r) => \E w \in Jobs : job[w].rule = r
    BY DEF Serves
  <2>4. ASSUME r \in listed, isRun, map[r].enable, r \notin taken
        PROVE  \E w \in Jobs : job[w].rule = r
    <3>1. (\A o \in Ops : op[o].pc = "idle") /\ \A k \in Ctls : todo[k] = {}
      BY DEF Settled, AllIdle, IdleOp
    <3>2. r \in Wanted
      BY <2>4, <3>1 DEF Wanted
    <3>3. QED
      BY <1>1, <3>1, <3>2 DEF GatewayInv, Order, Covered
  <2>5. QED
    BY <2>1, <2>2, <2>3, <2>4
<1>2. QED
  BY GatewayInvInit, GatewayInvStep, <1>1, PTL DEF GatewaySpec

\* What the listeners promise goes on holding while the list changes: ports are
\* guarded, statuses owned, and no listener is out of reach of `service stop`.
THEOREM PromisesOutliveTheList ==
  GatewaySpec => [](/\ TypeOK /\ OpenPortIsGuarded /\ StatusHasOwner
                    /\ LiveJobIsCancellable /\ StoppedMeansCancelled)
<1>1. ASSUME GatewayInv
      PROVE  /\ TypeOK /\ OpenPortIsGuarded /\ StatusHasOwner
             /\ LiveJobIsCancellable /\ StoppedMeansCancelled
  <2>1. LiveJobIsCancellable
    BY <1>1, BusySlot DEF LiveJobIsCancellable, Busy
  <2>2. StoppedMeansCancelled
    BY <1>1, IdleSlot DEF StoppedMeansCancelled, GatewayInv, Order, RunShape
  <2>3. QED
    BY <1>1, <2>1, <2>2 DEF GatewayInv, PortInv, TypeInv
<1>2. QED
  BY GatewayInvInit, GatewayInvStep, <1>1, PTL DEF GatewaySpec

-----------------------------------------------------------------------------
(* The ports open and close as RulePort allows.                             *)

\* A step that opens and closes no port changes at most what is wanted.
LEMMA SamePorts ==
  ASSUME GatewayInv, GatewayInv',
         \A v \in Jobs : /\ job'[v].sock <=> job[v].sock
                         /\ job[v].sock => job'[v].rule = job[v].rule
  PROVE  [Abstract!Next]_(Abstract!vars)
<1>1. OpenRules' = OpenRules
  BY DEF OpenRules
<1>2. Wanted' \in SUBSET Rules
  BY DEF Wanted, GatewayInv, Order, ListShape
<1>3. QED
  BY <1>1, <1>2 DEF Abstract!Next, Abstract!Wish, Abstract!vars

\* What is wanted changes with the commands, the list and the ports found taken.
LEMMA SameWishes ==
  ASSUME GatewayInv, UNCHANGED <<op, isRun, listed, taken>>,
         \A r \in Rules : map'[r].enable = map[r].enable
  PROVE  Wanted' = Wanted
BY DEF Wanted, GatewayInv, Order, ListShape

\* A listener opens its port for a wanted rule that had none.
LEMMA ListenAllowed ==
  ASSUME GatewayInv, GatewayInv', NEW w \in Jobs, Listen(w), UNCHANGED listed, TakenNext
  PROVE  [Abstract!Next]_(Abstract!vars)
<1> DEFINE q == job[w].rule
<1>1. job[w].pc = "listen" /\ Busy(w)
  BY DEF Listen, Busy
<1>2. q \in Rules /\ q \in listed /\ q \notin taken /\ TypeOK
  BY <1>1, BusySlot DEF GatewayInv, PortInv, TypeInv
<1>3. map[q].enable /\ isRun /\ ~job[w].sock
  BY <1>1 DEF GatewayInv, Order, Life
<1>4. UNCHANGED <<map, op, isRun>>
  BY DEF Listen
<1>5. \A v \in Jobs \ {w} : job'[v] = job[v]
  BY <1>2 DEF Listen, TypeOK
<1>6. \/ job'[w] = FreeJob
      \/ job'[w].pc = "activate" /\ job'[w].sock /\ job'[w].rule = q
  BY <1>2 DEF Listen, TypeOK, JobType
<1>7. CASE job'[w] = FreeJob
  <2>1. job'[w].sock <=> job[w].sock
    BY <1>2, <1>3, <1>7 DEF FreeJob, TypeOK, JobType
  <2>2. QED
    BY <1>3, <1>5, <2>1, SamePorts
<1>8. CASE job'[w].pc = "activate" /\ job'[w].sock /\ job'[w].rule = q
  <2>1. taken' = taken
    BY <1>1, <1>5, <1>8, GoroutineTaken
  <2>2. Wanted' = Wanted
    BY <1>4, <2>1, SameWishes
  <2>3. ~\E o \in Ops : op[o].pc = "disable" /\ op[o].rule = q
    BY <1>1 DEF GatewayInv, Order, CommandKnows
  <2>4. q \in Wanted
    BY <1>2, <1>3, <2>3 DEF Wanted
  <2>5. q \notin OpenRules
    BY <1>2, <1>3, NilIsNoContext DEF OpenRules, GatewayInv, Order, OneGoroutinePerRule
  <2>6. OpenRules' = OpenRules \cup {q}
    BY <1>2, <1>3, <1>5, <1>8 DEF OpenRules
  <2>7. Abstract!Open(q)
    BY <2>2, <2>4, <2>5, <2>6 DEF Abstract!Open
  <2> HIDE DEF q
  <2>8. QED
    BY <1>2, <2>7 DEF Abstract!Next
<1>9. QED
  BY <1>6, <1>7, <1>8

\* A step that closes the port of a slot with a cancelled context closes one
\* that is not wanted.
LEMMA CloseAllowed ==
  ASSUME GatewayInv, GatewayInv', NEW w \in Jobs, Busy(w), ~Alive(w),
         UNCHANGED <<map, op, isRun, listed, taken>>,
         \A v \in Jobs \ {w} : job'[v] = job[v], ~job'[w].sock
  PROVE  [Abstract!Next]_(Abstract!vars)
<1> DEFINE q == job[w].rule
<1>1. q \in Rules /\ Nil \notin Rules /\ TypeOK
  BY BusySlot, NilIsNoContext DEF GatewayInv, PortInv, TypeInv
<1>2. Wanted' = Wanted
  BY SameWishes
<1>3. q \notin Wanted
  <2>1. q \notin Wanted'
    BY CancelledNotWanted
  <2>2. QED
    BY <1>2, <2>1
<1>4. CASE ~job[w].sock
  <2>1. job'[w].sock <=> job[w].sock
    BY <1>1, <1>4 DEF TypeOK, JobType, GatewayInv, PortInv, TypeInv
  <2>2. QED
    BY <1>4, <2>1, SamePorts
<1>5. CASE job[w].sock
  <2>1. q \in OpenRules
    BY <1>1, <1>5 DEF OpenRules
  <2>2. \A v \in Jobs : v # w => job[v].rule # q
    BY <1>1 DEF GatewayInv, Order, OneGoroutinePerRule
  <2>3. OpenRules' = OpenRules \ {q}
    BY <2>2, <1>1 DEF OpenRules
  <2>4. Abstract!Close(q)
    BY <1>2, <1>3, <2>1, <2>3 DEF Abstract!Close
  <2> HIDE DEF q
  <2>5. QED
    BY <1>1, <2>4 DEF Abstract!Next
<1>6. QED
  BY <1>4, <1>5

\* The accept loop closes the port of a rule found disabled, the closing
\* goroutine that of a cancelled one; the other steps of a goroutine leave the
\* ports alone.
LEMMA GoroutineAllowed ==
  ASSUME GatewayInv, GatewayInv', NEW w \in Jobs, UNCHANGED listed, TakenNext,
         Activate(w) \/ CheckEnable(w) \/ AcceptConn(w) \/ AcceptErr(w) \/ Exit(w)
            \/ CloserArm(w) \/ CloserFire(w)
  PROVE  [Abstract!Next]_(Abstract!vars)
<1>1. TypeOK /\ job \in [Jobs -> JobType] /\ job[w] \in JobType
  BY DEF GatewayInv, PortInv, TypeInv, TypeOK
<1>2. /\ Slot(w) /\ (Busy(w) => Life(w))
      /\ job[w].pc = "free" /\ job[w].closer = "none" => ~Busy(w)
  BY DEF GatewayInv, Order, Busy
<1>3. CASE Activate(w) \/ CloserArm(w)
  <2>1. (job'[w].sock <=> job[w].sock) /\ job'[w].rule = job[w].rule
    <3>1. CASE Activate(w)
      BY <1>1, <3>1 DEF Activate, JobType
    <3>2. CASE CloserArm(w)
      BY <1>1, <3>2 DEF CloserArm, JobType
    <3>3. QED
      BY <1>3, <3>1, <3>2
  <2>2. \A v \in Jobs \ {w} : job'[v] = job[v]
    BY <1>1, <1>3 DEF Activate, CloserArm
  <2>3. QED
    BY <2>1, <2>2, SamePorts
<1>4. CASE AcceptConn(w)
  BY <1>1, <1>4, SamePorts DEF AcceptConn, JobType
<1>5. CASE AcceptErr(w)
  BY <1>1, <1>5, SamePorts DEF AcceptErr, JobType
<1>6. CASE Exit(w)
  <2>1. job[w].pc = "exit" /\ Busy(w)
    BY <1>6 DEF Exit, Busy
  <2>2. ~job[w].sock
    BY <1>1, <1>2, <2>1 DEF Life, JobType
  <2>3. ~job'[w].sock /\ \A v \in Jobs \ {w} : job'[v] = job[v]
    BY <1>1, <1>6, <2>2 DEF Exit, FreeJob, JobType
  <2>4. QED
    BY <2>2, <2>3, SamePorts
<1>7. CASE CheckEnable(w)
  <2>1. job[w].pc = "loop" /\ Busy(w) /\ Life(w)
    BY <1>2, <1>7 DEF CheckEnable, Busy
  <2>2. UNCHANGED <<map, op, isRun>> /\ \A v \in Jobs \ {w} : job'[v] = job[v]
    BY <1>1, <1>7 DEF CheckEnable
  <2>3. CASE map[job[w].rule].enable
    <3>1. (job'[w].sock <=> job[w].sock) /\ job'[w].rule = job[w].rule
      BY <1>1, <1>7, <2>3 DEF CheckEnable, JobType
    <3>2. QED
      BY <2>2, <3>1, SamePorts
  <2>4. CASE ~map[job[w].rule].enable
    <3>1. job'[w].pc = "exit" /\ ~job'[w].sock
      BY <1>1, <1>7, <2>4 DEF CheckEnable, JobType
    <3>2. ~Alive(w)
      BY <2>1, <2>4 DEF Life
    <3>3. taken' = taken
      BY <2>1, <2>2, <3>1, GoroutineTaken
    <3>4. QED
      BY <2>1, <2>2, <3>1, <3>2, <3>3, CloseAllowed
  <2>5. QED
    BY <2>3, <2>4
<1>8. CASE CloserFire(w)
  <2>1. job[w].closer = "wait" /\ Busy(w) /\ Life(w)
    BY <1>2, <1>8 DEF CloserFire, Busy
  <2>2. ~Alive(w)
    BY <1>8, <2>1, BusySlot DEF CloserFire, Alive
  <2>3. UNCHANGED <<map, op, isRun>> /\ \A v \in Jobs \ {w} : job'[v] = job[v]
    BY <1>1, <1>8 DEF CloserFire
  <2>4. ~job'[w].sock /\ job'[w].pc = job[w].pc
    BY <1>1, <1>8 DEF CloserFire, FreeJob, JobType
  <2>5. taken' = taken
    <3>1. job[w].pc # "listen" /\ job'[w].pc # "listen"
      BY <2>1, <2>2, <2>4 DEF Life
    <3>2. QED
      BY <2>1, <2>3, <3>1, GoroutineTaken
  <2>6. QED
    BY <2>1, <2>2, <2>3, <2>4, <2>5, CloseAllowed
<1>9. QED
  BY <1>3, <1>4, <1>5, <1>6, <1>7, <1>8

\* A launch opens no port yet.
LEMMA LaunchAllowed ==
  ASSUME GatewayInv, GatewayInv', NEW r \in Rules, NEW p, Launch(r, p)
  PROVE  [Abstract!Next]_(Abstract!vars)
<1>1. PICK w \in Jobs :
        /\ job[w] = FreeJob
        /\ job' = [job EXCEPT ![w] = [FreeJob EXCEPT !.pc = "listen", !.rule = r,
                                                     !.srv = srvCtx]]
  BY DEF Launch
<1>2. ~job[w].sock /\ ~job'[w].sock /\ \A v \in Jobs \ {w} : job'[v] = job[v]
  BY <1>1 DEF GatewayInv, PortInv, TypeInv, TypeOK, FreeJob
<1>3. QED
  BY <1>2, SamePorts

\* Every step is a step of RulePort or leaves its variables alone.
LEMMA StepAllowed ==
  GatewayInv /\ GatewayInv' /\ [GatewayNext]_gateway => [Abstract!Next]_(Abstract!vars)
<1> SUFFICES ASSUME GatewayInv, GatewayInv', [GatewayNext]_gateway
             PROVE  [Abstract!Next]_(Abstract!vars)
  OBVIOUS
<1>1. CASE job' = job
  BY <1>1, SamePorts
<1>2. ASSUME NEW o \in Ops, OpStep(o) PROVE [Abstract!Next]_(Abstract!vars)
  <2>1. CASE SpawnRule(o)
    <3>1. op[o].pc = "spawn"
      BY <2>1 DEF SpawnRule
    <3>2. op[o].rule \in Rules
      BY <3>1, RunningCommand
    <3>3. QED
      BY <2>1, <3>2, LaunchAllowed DEF SpawnRule
  <2>2. CASE job' = job
    BY <2>2, <1>1
  <2>3. QED
    BY <1>2, <2>1, <2>2 DEF OpStep, FlagRule, EnableRule, DisableRule, SvcStart, SvcStop
<1>3. ASSUME NEW k \in Ctls, CtlStep(k) PROVE [Abstract!Next]_(Abstract!vars)
  BY <1>1, <1>3, LaunchAllowed DEF CtlStep, ControllerSkip, ControllerLaunch
<1>4. ASSUME NEW w \in Jobs, JobStep(w) \/ CloserStep(w) \/ AcceptConn(w),
             UNCHANGED listed, TakenNext
      PROVE  [Abstract!Next]_(Abstract!vars)
  BY <1>4, ListenAllowed, GoroutineAllowed DEF JobStep, CloserStep
<1>5. ASSUME NEW o \in Ops, PacedCommand(o) PROVE job' = job
  BY <1>5 DEF PacedCommand, StartCheck, StopClose, SvcStartCheck, SvcStopCheck
<1>6. ListChange => job' = job
  BY DEF ListChange, Add, Del, Upd
<1>7. CASE GatewayNext
  <2>1. TakenNext
    BY <1>7 DEF GatewayNext, TakenNext
  <2>2. QED
    BY <1>1, <1>2, <1>3, <1>4, <1>5, <1>6, <1>7, <2>1 DEF GatewayNext, Progress, Connect
<1>8. CASE UNCHANGED gateway
  BY <1>1, <1>8 DEF gateway, vars
<1>9. QED
  BY <1>7, <1>8

\* The public ports are those RulePort allows: opened only for a rule that is
\* wanted, closed only for one that is not.
THEOREM PortsOnlyAsWanted == GatewaySpec => Abstract!Init /\ [][Abstract!Next]_(Abstract!vars)
<1>1. GatewayInit => Abstract!Init
  <2> SUFFICES ASSUME GatewayInit PROVE Wanted = {} /\ OpenRules = {}
    BY DEF Abstract!Init
  <2>1. isRun = FALSE /\ \A w \in Jobs : ~job[w].sock
    BY DEF GatewayInit, Init, FreeJob
  <2>2. QED
    BY <2>1 DEF Wanted, OpenRules
<1>2. QED
  BY GatewayInvInit, GatewayInvStep, StepAllowed, <1>1, PTL DEF GatewaySpec
=============================================================================
