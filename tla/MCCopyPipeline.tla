--------------------------- MODULE MCCopyPipeline ---------------------------
(* CopyPipeline for TLC.  Threads, permissions and, when one trader is       *)
(* followed, fills are interchangeable.                                      *)
EXTENDS CopyPipeline, TLC

CONSTANTS p1, p2, f1, f2, f3, t1, t2, g1, g2, none

MCPoller == {p1}
MCPollers == {p1, p2}
MCGrant == {g1}
MCGrants == {g1, g2}
MCTrader == {t1}
MCTraders == {t1, t2}
MCFills2 == {f1, f2}
MCFills3 == {f1, f2, f3}
OneTrader == [s \in Sources |-> t1]
TwoTraders == [s \in Sources |-> IF s = f1 THEN t1 ELSE t2]

Symmetry == Permutations(Pollers) \cup Permutations(Grants)
            \cup Permutations(Sources)
=============================================================================
