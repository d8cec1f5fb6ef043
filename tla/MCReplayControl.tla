-------------------------- MODULE MCReplayControl --------------------------
(* Two pages with a session each, or one with a session it left behind.    *)
EXTENDS ReplayControl

CONSTANTS p1, p2, s1, s2
=============================================================================
