------------------------------ MODULE MCMotion ------------------------------
(* Motion with a batch of two ports. *)
EXTENDS Motion

TwoPorts == <<3, 5>>
OnePort == <<3>>
=============================================================================
