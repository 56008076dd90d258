------------------------------- MODULE MCPipes -------------------------------
(* Pipes on small instances.                                                *)
EXTENDS Pipes
=============================================================================
