--------------------------- MODULE MCInvestigation ---------------------------
(* Five transactions on a path, 4 - 1 - 2 - 3 - 5, whose branch at 1 comes  *)
(* late with an earlier step: each of the query's three cuts can happen.   *)
EXTENDS Investigation

MCBatches ==
    {[step |-> 1, nodes |-> {1, 2},    edges |-> {<<1, 2>>}],
     [step |-> 1, nodes |-> {4},       edges |-> {<<1, 4>>}],
     [step |-> 2, nodes |-> {3, 5},    edges |-> {<<2, 3>>, <<3, 5>>, <<5, 3>>}]}
=============================================================================
