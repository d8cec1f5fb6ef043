-------------------------- MODULE MCRedisPublisher --------------------------
(* Instances of RedisPublisher for TLC.                                    *)
EXTENDS RedisPublisher, TLC

CONSTANTS r1, r2, t1, t2

(* Two scores of one transaction with one of another between them.         *)
ThreeIntents == (1 :> t1) @@ (2 :> t2) @@ (3 :> t1)
=============================================================================
