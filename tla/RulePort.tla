------------------------------ MODULE RulePort ------------------------------
(***************************************************************************)
(* What the operator of the tunnel is promised: the public port of a rule  *)
(* is opened only while the rule is wanted (enabled, in a running          *)
(* service), closed only while it is not, and the ports follow the wishes. *)
(***************************************************************************)
CONSTANT Rules

VARIABLES
    wanted,     \* rules that should be reachable
    open        \* rules whose public port is open

vars == <<wanted, open>>

Init == wanted = {} /\ open = {}

\* The operator changes his mind about any number of rules: one rule when it
\* is started or stopped, all enabled ones when the service is.
Wish ==
    /\ wanted' \in SUBSET Rules
    /\ wanted' # wanted
    /\ UNCHANGED open

Open(r) ==
    /\ r \in wanted \ open
    /\ open' = open \cup {r}
    /\ UNCHANGED wanted

Close(r) ==
    /\ r \in open \ wanted
    /\ open' = open \ {r}
    /\ UNCHANGED wanted

Next == Wish \/ \E r \in Rules : Open(r) \/ Close(r)

Spec ==
    /\ Init
    /\ [][Next]_vars
    /\ \A r \in Rules : WF_vars(Open(r)) /\ WF_vars(Close(r))
=============================================================================
