------------------------------- MODULE MCCerts -------------------------------
(* Certs on small instances.                                                *)
EXTENDS Certs, TLC

\* Key pairs of one kind and command slots are interchangeable.
Symmetry == Permutations(CaKeys) \cup Permutations(Leafs) \cup Permutations(Ops)
=============================================================================
