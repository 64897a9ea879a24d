-------------------------- MODULE MCActuatorPosition --------------------------
(***************************************************************************)
(* The position arithmetic driven the way the actuator drives it: a        *)
(* recorded position only ever changes through predictNewPosition, by the  *)
(* steps of one chunk, while the shaft is somewhere within one chunk of it.*)
(***************************************************************************)
EXTENDS ActuatorPosition

CONSTANTS
  MaxSteps,    \* bound: positions within MaxSteps of home on either side
  MaxMove      \* largest number of steps added at once

ASSUME WalkAssumption == MaxSteps \in Nat /\ MaxMove \in Nat

VARIABLES position, missed

vars == <<position, missed>>

Init == position = PositionOf(0) /\ missed = 0

\* One chunk: the counter is advanced, the shaft lags or leads by "missed".
Walk ==
  \E n \in -MaxMove .. MaxMove, m \in -MaxMove .. MaxMove :
    /\ Magnitude(convertPositionToSteps(position) + n) <= MaxSteps
    /\ position' = predictNewPosition(position, n)
    /\ missed' = m

Spec == Init /\ [][Walk]_vars

Shaft == convertPositionToSteps(position) + missed
InTable == position.angle < StepsPerRevolution

-----------------------------------------------------------------------------
\* The pair is always one that the code can store: an angle from 0 up to and
\* including StepsPerRevolution (predictNewPosition).
TypeOK ==
  /\ position \in Position
  /\ missed \in -MaxMove .. MaxMove

\* predictNewPosition moves by exactly the number of steps it is given, on
\* both sides of home and across it: nothing is lost where C++ division
\* changes direction.
StepsPreserved ==
  \A n \in -MaxMove .. MaxMove :
    convertPositionToSteps(predictNewPosition(position, n))
      = convertPositionToSteps(position) + n

\* A shaft less than half a revolution from the recorded position is found
\* exactly, whichever of the two searches answers and wherever the angle
\* wraps round (checkAngleQuick, checkAngleSlow).
DeviationExact ==
  2 * Magnitude(missed) < StepsPerRevolution =>
    /\ checkAngleQuick(position.angle, ShaftAngle(Shaft), FALSE) = missed
    /\ checkAngleSlow(position.angle, ShaftAngle(Shaft)) = missed

\* Any answer is congruent to the true deviation: correcting a position by it
\* always makes the recorded angle agree with the encoder.
DeviationCongruent ==
  LET d == checkAngleQuick(position.angle, ShaftAngle(Shaft), FALSE)
  IN  /\ (missed - d) % StepsPerRevolution = 0
      /\ 2 * Magnitude(d) <= StepsPerRevolution
=============================================================================
