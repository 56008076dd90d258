--------------------------- MODULE HastyListener ---------------------------
(***************************************************************************)
(* Listener with a record of the starts that were given before the last    *)
(* listener of their rule had returned.  The record changes nothing: it    *)
(* tells the behaviours of an operator in a hurry from those of another.   *)
(***************************************************************************)
EXTENDS PacedListener

VARIABLE
    hasty       \* rules last started while a goroutine of theirs was at work

hurried == <<vars, hasty>>

AtWork(r) == \E w \in Jobs : job[w].rule = r
Launched == {job'[w].rule : w \in {v \in Jobs : job[v] = FreeJob /\ job'[v] # FreeJob}}

Record == hasty' = (hasty \ Launched) \cup {r \in Launched : AtWork(r)}

HastyInit == Init /\ hasty = {}
HastySpec == HastyInit /\ [][Next /\ Record]_hurried
FairSoloHastySpec == HastyInit /\ [][SoloNext /\ Record]_hurried /\ Fairness

-----------------------------------------------------------------------------
\* The accept loop goes round on a closed port only if its rule was started
\* anew before the goroutines of its last start had returned: then the loop
\* looks at the new context and finds it alive (proxy.go:63-74,
\* shellcmd.go:171, web.go:182).
SpinNeedsHaste ==
    [][\A w \in Jobs :
          job[w].pc = "accept" /\ ~job[w].sock /\ job'[w].pc = "loop" =>
              job[w].rule \in hasty]_hurried
=============================================================================
