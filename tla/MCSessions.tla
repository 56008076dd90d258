----------------------------- MODULE MCSessions -----------------------------
(* Sessions on small instances.                                             *)
EXTENDS Sessions, TLC

\* Clients, connections and addresses are interchangeable; used for runs
\* without liveness.
Symmetry == Permutations(Clients) \cup Permutations(Conns) \cup Permutations(Addrs)
=============================================================================
