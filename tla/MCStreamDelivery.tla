-------------------------- MODULE MCStreamDelivery --------------------------
(* Two gateways.                                                           *)
EXTENDS StreamDelivery

CONSTANTS g1, g2
=============================================================================
