------------------------------- MODULE MCHasty -------------------------------
(* HastyListener on small instances.                                        *)
EXTENDS HastyListener

\* Which of the free slots is taken makes no difference: one of them stands for
\* all.  (Symmetry would say the same, and is unsound where liveness is checked.)
InOrder ==
    /\ \A w \in Jobs : job[w] = FreeJob /\ job'[w] # FreeJob =>
          w = CHOOSE v \in Jobs : job[v] = FreeJob
    /\ \A r \in Rules : map'[r].ctx # map[r].ctx =>
          map'[r].ctx = CHOOSE c \in Ctxs : ~CtxInUse(c)
    /\ srvCtx' # srvCtx => srvCtx' = CHOOSE s \in SrvCtxs : ~SrvCtxInUse(s)

\* Of the commands both consoles have the shell gives the one that is different
\* there: `mapping start` in a running service.  (Its restart of the service is
\* different too; listener_shell_restart has that.)
ShellStarts == \A o \in ShellOps : op'[o].pc \in {"idle", "enable", "spawn"}

SoloInOrder ==
    /\ HastyInit /\ srvCtx = CHOOSE s \in SrvCtxs : TRUE
    /\ [][SoloNext /\ Record /\ InOrder /\ ShellStarts]_hurried
    /\ Fairness
=============================================================================
