------------------------------ MODULE MCPlatform ------------------------------
(* Instances of Platform for TLC: values of its constants. *)
EXTENDS Platform, TLC

CONSTANTS c1, c2

Searching == {"FindHome"}

\* Two callers of the panel, which is never off.
TwoMovers == (c1 :> Moves \cup Searching)
               @@ (c2 :> Clears \cup {"MoveDeltaLengths", "TurnOn", "FindHome"})
\* Everything but the search for home, of which a stop may be unaware, and
\* moves to lengths, which differ from the others in the goal.
NoSearch == (c1 :> {"MoveDeltaLengths", "TurnOn", "TurnOff"})
              @@ (c2 :> ActMethods \cup Clears \cup {"Stop"})
FindAndStop == (c1 :> Searching) @@ (c2 :> {"Stop"})

\* A long move of one actuator with a short one of the other, and moves of
\* both in opposite directions, past the ends of the range when repeated.
MCDeltas == {<<5, -2>>, <<-3, 4>>}
ShortDeltas == {<<-3, 1>>}
TwoChunks == {<<-2, 1>>}
MCTargets == {<<1, 4>>}
MCMinPosition == -4
=============================================================================
