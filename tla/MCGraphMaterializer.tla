------------------------ MODULE MCGraphMaterializer ------------------------
(* Instances of GraphMaterializer for TLC.                                 *)
EXTENDS GraphMaterializer

CONSTANTS r1, r2, t1, t2, s1

Message(e, f, n, ns, es) ==
    [event |-> e, form |-> f, stream |-> s1, step |-> n,
     nodes |-> ns, edges |-> es]

(* Earlier needs t2 for its edge: it is refused before Later is applied,   *)
(* and after it is a late batch that must not take t1 back.  Garbage does  *)
(* not validate, and PostgreSQL never takes Repeat.                        *)
Earlier == Message("earlier", "valid", 1, {t1}, {<<t1, t2>>})
Later   == Message("later", "valid", 2, {t1, t2}, {<<t2, t1>>})
Garbage == Message("garbage", "malformed", 1, {}, {})
Repeat  == Message("repeat", "repeated_row", 1, {t1}, {})

ValidBatches == {Earlier, Later}
AllBatches == {Earlier, Later, Garbage, Repeat}
=============================================================================
