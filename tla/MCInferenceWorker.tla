-------------------------- MODULE MCInferenceWorker --------------------------
(* Instances of InferenceWorker for TLC.                                   *)
EXTENDS InferenceWorker

CONSTANTS w1, w2

(* One record more than the queue holds, the last of which ends the worker. *)
ThreeRequests == <<"permanent", "good", "slow">>

(* One record of each kind.                                                *)
FourRequests == <<"malformed", "permanent", "good", "slow">>
=============================================================================
