--------------------------- MODULE MCOutboxRelay ---------------------------
(* Instances of OutboxRelay for TLC.                                       *)
EXTENDS OutboxRelay

CONSTANTS r1, r2
=============================================================================
