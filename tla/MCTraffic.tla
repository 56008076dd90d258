------------------------------ MODULE MCTraffic ------------------------------
(* Traffic and Settings on small instances.                                 *)
EXTENDS Traffic

MCKeys == <<"listen_port", "total_traffic">>
=============================================================================
