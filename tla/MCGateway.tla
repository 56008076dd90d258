------------------------------ MODULE MCGateway ------------------------------
(* Gateway on small instances.                                              *)
EXTENDS Gateway
=============================================================================
