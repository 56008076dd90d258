------------------------------- MODULE Gateway -------------------------------
(***************************************************************************)
(* Listener composed with the list of rules: while the service runs, rules *)
(* are added, deleted and updated, and two rules may be given one port.    *)
(* The objects of Listener are the *Mapping of the table and those that    *)
(* have left it.                                                           *)
(*                                                                         *)
(* The operator is Patient and moreover does not start a rule that is      *)
(* started already and restarts a stopped service from the panel, not from *)
(* the shell.  The code enforces none of it; it is what it takes for the   *)
(* commands to do what they say.  The list is changed in one step, on disk *)
(* and in memory (RuleStore has the steps).                                *)
(***************************************************************************)
EXTENDS PacedListener

VARIABLES
    listed,     \* rules in the table
    taken       \* rules that found their port taken when they were last started

gateway == <<vars, listed, taken>>

GatewayInit ==
    /\ Init
    /\ listed \in SUBSET Rules
    /\ \A r \in Rules \ listed : ~map[r].enable
    /\ taken = {}

-----------------------------------------------------------------------------
(* mapping add, del and upd.  A rule whose Status reads "active" is neither *)
(* deleted nor updated.                                                     *)

Add(r, p) ==
    /\ r \notin listed
    /\ listed' = listed \cup {r}
    /\ map' = [map EXCEPT ![r].port = p]
    /\ UNCHANGED <<job, op, todo, parent, done, srvCtx, isRun>>

\* The object of a settled rule that does not serve is garbage.
Del(r) ==
    /\ r \in listed /\ map[r].status # "active"
    /\ listed' = listed \ {r}
    /\ map' = [map EXCEPT ![r].enable = FALSE, ![r].ctx = Nil]
    /\ UNCHANGED <<job, op, todo, srvCtx, isRun>>
    /\ Collect

\* Variant: Status is not looked at.
Upd_Blind(r, p) ==
    /\ r \in listed
    /\ map' = [map EXCEPT ![r].port = p]
    /\ UNCHANGED <<job, op, todo, parent, done, srvCtx, isRun, listed>>

Upd(r, p) ==
    /\ r \in listed /\ map[r].status # "active"
    /\ map' = [map EXCEPT ![r].port = p]
    /\ UNCHANGED <<job, op, todo, parent, done, srvCtx, isRun, listed>>

ListChange == \E r \in Rules : Del(r) \/ \E p \in Ports : Add(r, p) \/ Upd(r, p)

-----------------------------------------------------------------------------
PacedCommand(o) ==
    \/ \E r \in listed :
          \/ ~(isRun /\ map[r].enable) /\ StartCheck(o, r)
          \/ StopClose(o, r)
    \/ (o \in ShellOps => srvCtx \notin done) /\ SvcStartCheck(o)
    \/ SvcStopCheck(o)

\* A listener that returns from the bind found the port taken; a new one may not.
Bounced == {job[w].rule : w \in {v \in Jobs : job[v].pc = "listen" /\ job'[v].pc = "free"}}
Started == {job'[w].rule : w \in {v \in Jobs : job[v].pc = "free" /\ job'[v].pc = "listen"}}

GatewayNext ==
    /\ \/ Settled /\ (\E o \in Ops : PacedCommand(o)) /\ UNCHANGED listed
       \/ Settled /\ ListChange
       \/ (Progress \/ Connect) /\ UNCHANGED listed
    /\ taken' = ((taken \cup Bounced) \ Started) \cap listed'

GatewaySpec == GatewayInit /\ [][GatewayNext]_gateway /\ Fairness

-----------------------------------------------------------------------------
\* At most one goroutine works for a rule, from its launch to its last
\* closing goroutine: the unsynchronised Status and Ctx fields of a mapping
\* have one writer at a time (proxy.go:19,34-37,43-56).
OneGoroutinePerRule ==
    \A v, w \in Jobs :
        job[v].rule = job[w].rule /\ job[v].rule # Nil => v = w

\* Once the last command has taken effect, the status of every rule in the
\* list tells whether the port it shows is open for it; no other port is open;
\* and every enabled rule of a running service serves, except that one which
\* found its port taken when it was started stays without it, even when the
\* port becomes free (proxy.go:20-37, manager.go:126-137, shellcmd.go:233,255).
Serves(r) == \E w \in Jobs : job[w].rule = r /\ job[w].sock /\ job[w].port = map[r].port
SettledExact ==
    Settled => \A r \in Rules :
        /\ map[r].status = "active" <=> Serves(r)
        /\ (\E w \in Jobs : job[w].rule = r /\ job[w].sock) =>
              Serves(r) /\ r \in listed /\ isRun /\ map[r].enable
        /\ r \in listed /\ isRun /\ map[r].enable => Serves(r) \/ r \in taken

-----------------------------------------------------------------------------
(* The listeners implement RulePort.  A rule stops being wanted when its    *)
(* stop command takes the first of its two locks, or when its port is taken.*)

Wanted == {r \in listed \ taken :
              /\ isRun /\ map[r].enable
              /\ ~\E o \in Ops : op[o].pc = "disable" /\ op[o].rule = r}
OpenRules == {r \in Rules : \E w \in Jobs : job[w].rule = r /\ job[w].sock}

Abstract == INSTANCE RulePort WITH wanted <- Wanted, open <- OpenRules

\* Ports open and close only as the rules are wanted, and always follow.
ImplementsRulePort == Abstract!Spec
=============================================================================
