------------------------- MODULE MCResultProjector -------------------------
(* Instances of ResultProjector for TLC.                                   *)
EXTENDS ResultProjector

CONSTANTS r1, r2, t1, t2

Result(e, t, w, s) ==
    [event |-> e, form |-> "valid", tx |-> t, watermark |-> w, scoredAt |-> s]

(* Two results of t1 that may arrive in either order; the first of them    *)
(* scored again, later than the second was; a result of a transaction that *)
(* is not in the graph; and bytes that do not validate.                    *)
Early   == Result("early", t1, 1, 1)
EarlyRe == Result("early", t1, 1, 3)
Late    == Result("late", t1, 2, 2)
Unknown == Result("unknown", t2, 1, 1)
Garbage == [event |-> "garbage", form |-> "malformed", tx |-> t1,
            watermark |-> 1, scoredAt |-> 0]

AllMessages == {Early, EarlyRe, Late, Unknown, Garbage}
=============================================================================
