----------------------------- MODULE MCPipeline -----------------------------
(* Either t1 is in both batches, or the first one has an edge to t2, which *)
(* only the second brings into the graph.                                  *)
EXTENDS Pipeline

CONSTANTS t1, t2, w1, w2

Sent(step, nodes, ends) == [step |-> step, nodes |-> nodes, ends |-> ends, copy |-> 0]

MCScenarios ==
    { [batches |-> << Sent(1, {t1}, {}), Sent(2, {t1}, {t1}) >>, faults |-> 2, replays |-> 1],
      [batches |-> << Sent(1, {t1}, {t2}), Sent(2, {t1, t2}, {}) >>, faults |-> 1, replays |-> 2] }
=============================================================================
