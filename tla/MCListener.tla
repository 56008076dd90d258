----------------------------- MODULE MCListener -----------------------------
(* Listener and PacedListener on small instances.                           *)
EXTENDS PacedListener
=============================================================================
