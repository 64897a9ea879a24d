-------------------------------- MODULE MCMpes --------------------------------
(***************************************************************************)
(* Two sensors for TLC, with exposures from 2 to 4 and a precision of 3/2   *)
(* in place of 50 to 4999 and 1.258.                                       *)
(***************************************************************************)
EXTENDS Mpes, TLC

CONSTANTS o1, o2

\* One operator works with the first sensor and the panel, the other switches
\* sensors on.
AllCalls ==
  o1 :> (({"Read", "SetExposure", "TurnOff"} \X {1})
          \cup {<<"Clear", 2>>} \cup (PanelMethods \X {PanelItself}))
  @@ o2 :> ({"TurnOn"} \X Sensors)
\* Too bright at every exposure, or right at the default one; severely uneven.
Seen(gain, shape) == [gain |-> gain, shape |-> shape]
Views == <<{Seen(12, "even"), Seen(3, "even")}, {Seen(3, "severe")}>>
Failing == <<{"dead", "dark", "timeout"}, {}>>
=============================================================================
