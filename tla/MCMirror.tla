------------------------------- MODULE MCMirror -------------------------------
(* Instances of Mirror for TLC: values of its constants. *)
EXTENDS Mirror, TLC

CONSTANTS e1, e2, c1, c2

OneEdge  == (e1 :> {1, 2})
TwoEdges == (e1 :> {1, 2}) @@ (e2 :> {2, 3})
OneSweep == <<e1>>
TwoSweep == <<e1, e2>>
SmallerOfOne == (e1 :> 1)
SmallerOfTwo == (e1 :> 1) @@ (e2 :> 2)

NoEdgeMethods == (c1 :> {}) @@ (c2 :> {})
ReadOnly      == (c1 :> {"Read"}) @@ (c2 :> {})

MirrorAndStop == (c1 :> MirrorMethods \ {"Stop"}) @@ (c2 :> {"Stop"})
MotionsOnly   == (c1 :> MotionMethods) @@ (c2 :> {})
SequenceOnly  == (c1 :> {"AlignSequential"}) @@ (c2 :> {})
=============================================================================
