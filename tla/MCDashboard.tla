---------------------------- MODULE MCDashboard ----------------------------
(* Three transactions in a triangle of edges, one of which only the lower  *)
(* threshold flags; lists, pending list and graph hold two.                *)
EXTENDS Dashboard

CONSTANTS a, b, c

MCContents ==
    {[tx |-> a, score |-> 2, neighbors |-> <<b>>],
     [tx |-> b, score |-> 2, neighbors |-> <<a, c>>],
     [tx |-> c, score |-> 1, neighbors |-> <<a>>]}
=============================================================================
