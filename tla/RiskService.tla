----------------------------- MODULE RiskService -----------------------------
(***************************************************************************)
(* What the whole pipeline promises of a transaction: the graph has it at  *)
(* a time step, its score was computed for a time step, and the dashboard  *)
(* was last sent a score for a time step.  No score is ahead of the graph, *)
(* no dashboard ahead of the scores, none of the three ever goes back, and *)
(* the dashboard catches up with the scores.                               *)
(***************************************************************************)
EXTENDS Integers

CONSTANT Txs

VARIABLES observed, scored, shown    \* a time step for each transaction, 0 for none

serviceVars == <<observed, scored, shown>>

Init == observed = [t \in Txs |-> 0] /\ scored = observed /\ shown = observed

(* The transactions of a batch get its time step, unless theirs is later.  *)
Observe ==
    /\ \A t \in Txs : observed'[t] >= observed[t]
    /\ UNCHANGED <<scored, shown>>

Score(t) ==
    /\ scored' = [scored EXCEPT ![t] = scored'[t]]
    /\ scored[t] < scored'[t] /\ scored'[t] <= observed[t]
    /\ UNCHANGED <<observed, shown>>

Show(t) ==
    /\ shown' = [shown EXCEPT ![t] = shown'[t]]
    /\ shown[t] < shown'[t] /\ shown'[t] <= scored[t]
    /\ UNCHANGED <<observed, scored>>

Next == Observe \/ \E t \in Txs : Score(t) \/ Show(t)

CatchesUp == \A t \in Txs : []<>(shown[t] = scored[t])

Spec == Init /\ [][Next]_serviceVars /\ CatchesUp
=============================================================================
