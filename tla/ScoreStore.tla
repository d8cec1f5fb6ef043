----------------------------- MODULE ScoreStore -----------------------------
(***************************************************************************)
(* What the result projector promises of risk_scores: every result takes   *)
(* effect at most once, whatever Kafka redelivers, and a transaction's     *)
(* canonical score is replaced only by one that is as recent both in the   *)
(* graph it was computed for and in the time it was computed at.           *)
(*                                                                         *)
(* A "transaction" here is a primary key (tx_id, model_version).           *)
(***************************************************************************)
EXTENDS Integers

CONSTANTS
    Txs,        \* the keys of risk_scores
    Results     \* scoring results that may arrive

(* A result is a record of its deterministic event id, its transaction,    *)
(* and the watermark and scoring time that the upsert compares.            *)

(* No row: older than every result.                                        *)
NoScore == [event |-> "none", watermark |-> 0, scoredAt |-> 0]

VARIABLES
    seen,       \* events that have taken effect
    canonical   \* the score of each transaction

storeVars == <<seen, canonical>>

Row(m) == [event |-> m.event, watermark |-> m.watermark, scoredAt |-> m.scoredAt]

(* excluded.graph_watermark >= current AND excluded.scored_at >= current.  *)
Supersedes(m, row) == m.watermark >= row.watermark /\ m.scoredAt >= row.scoredAt

Init ==
    /\ seen = {}
    /\ canonical = [t \in Txs |-> NoScore]

Take(m) ==
    /\ m.event \notin seen
    /\ seen' = seen \cup {m.event}
    /\ canonical' = IF Supersedes(m, canonical[m.tx])
                    THEN [canonical EXCEPT ![m.tx] = Row(m)]
                    ELSE canonical

Next == \E m \in Results : Take(m)

Spec == Init /\ [][Next]_storeVars
=============================================================================
