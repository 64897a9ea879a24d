------------------------------ MODULE MCActuator ------------------------------
(***************************************************************************)
(* A small actuator for TLC: twelve encoder codes per revolution, chunks   *)
(* of five steps and a travel of about two revolutions, with the same      *)
(* order of magnitudes as the real constants (200, 80 and 20600 steps).    *)
(***************************************************************************)
EXTENDS ActuatorRefinement

ExtendStop == -7
ExtendHard == -6
Requests == {-9, 3, 7}
\* Half a travel away from where a default file puts the actuator.
StartFar == {-5}

\* For the runs with faults: six codes, chunks of two steps.
TinyExtend == -3

\* Bound of the fault runs: an interrupted search lets recorded position and
\* shaft drift apart for ever, one forceRecover at a time.
NearTravel ==
  act.position \in ExtendHardStop - 1 .. RetractHardStop + 1
=============================================================================
