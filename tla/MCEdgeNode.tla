----------------------------- MODULE MCEdgeNode -----------------------------
(* Small instances of EdgeNode for TLC.                                    *)
EXTENDS EdgeNode, TLC

CONSTANTS e1, e2, e3, e4

(* e2 and e3 carry the same sensor timestamp.                              *)
MCTimestamp == [e \in Event |-> IF e = e1 THEN 1 ELSE IF e = e4 THEN 3 ELSE 2]
=============================================================================
