---------------------------- MODULE PacedListener ----------------------------
(***************************************************************************)
(* Listener under two disciplines of its operators.                        *)
(*                                                                         *)
(*   Solo    commands are given one after the other, from either console,  *)
(*           as fast as the operator likes;                                *)
(*   Patient moreover the operator waits until the last command has taken  *)
(*           effect.                                                       *)
(*                                                                         *)
(* The code enforces none.  Solo is what a single administrator does; what *)
(* it takes for the commands to do what they say is in Gateway.            *)
(***************************************************************************)
EXTENDS Listener

AllIdle == \A o \in Ops : op[o] = IdleOp

SoloNext == (AllIdle /\ \E o \in Ops : Command(o)) \/ Progress \/ Connect
SoloSpec == Init /\ [][SoloNext]_vars
FairSoloSpec == SoloSpec /\ Fairness

-----------------------------------------------------------------------------
Serving(w) == job[w].pc = "accept" /\ job[w].sock /\ job[w].closer = "wait"

\* Every goroutine waits for something only a command or a client can bring.
JobSettled(w) ==
    \/ job[w] = FreeJob
    \/ /\ job[w].closer = "wait"
       /\ ~Done(job[w].srv) /\ ~Done(job[w].watch)
       /\ job[w].pc = "free" \/ Serving(w)

Settled ==
    /\ AllIdle
    /\ \A k \in Ctls : todo[k] = {}
    /\ \A w \in Jobs : JobSettled(w)

PatientNext == (Settled /\ \E o \in Ops : Command(o)) \/ Progress \/ Connect
PatientSpec == Init /\ [][PatientNext]_vars
FairPatientSpec == PatientSpec /\ Fairness

-----------------------------------------------------------------------------
\* "service start" starts the tunnel (shellcli.go:170): once a start has taken
\* effect, the ports of the enabled rules are open.
RunningServes ==
    Settled /\ isRun => \A r \in Rules :
        map[r].enable => \E w \in Jobs : job[w].rule = r /\ job[w].sock
=============================================================================
