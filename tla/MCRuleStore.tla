----------------------------- MODULE MCRuleStore -----------------------------
(* RuleStore on small instances.                                            *)
EXTENDS RuleStore, TLC

\* Names, settings, objects and slots for requests are interchangeable.
Symmetry ==
    Permutations(Names) \cup Permutations(Vals) \cup Permutations(Objs)
        \cup Permutations(WebOps)
=============================================================================
