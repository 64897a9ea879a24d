-------------------------------- MODULE MCEdge --------------------------------
(* Instances of Edge for TLC: values of its constants. *)
EXTENDS Edge, TLC

CONSTANTS e1, c1, c2

OneEdge == (e1 :> {1, 2})
OperatorAndStop == (c1 :> Methods \ {"Stop"}) @@ (c2 :> {"Stop"})
=============================================================================
