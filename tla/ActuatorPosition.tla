--------------------------- MODULE ActuatorPosition ---------------------------
(***************************************************************************)
(* The position arithmetic of an actuator                                  *)
(* (src/common/alignment/actuator.cpp).                                    *)
(*                                                                         *)
(* A position is a pair (revolution, angle) on the counter of the encoder: *)
(* home is (0,0) and the counter grows as the actuator retracts.  The      *)
(* encoder only ever shows the angle, so every check of a position against *)
(* the encoder is a question modulo StepsPerRevolution.                    *)
(***************************************************************************)
EXTENDS Integers

CONSTANTS
  StepsPerRevolution,     \* encoder codes in one revolution of the shaft
  QuickAngleCheckRange    \* how far checkAngleQuick looks to either side

ASSUME PositionAssumption ==
  /\ StepsPerRevolution \in Nat \ {0, 1}
  /\ QuickAngleCheckRange \in Nat
  /\ 2 * QuickAngleCheckRange < StepsPerRevolution

Magnitude(n) == IF n < 0 THEN -n ELSE n

Position == [revolution : Int, angle : 0 .. StepsPerRevolution]

convertPositionToSteps(p) == p.revolution * StepsPerRevolution + p.angle

\* C++ division rounds towards zero and its remainder has the dividend's sign.
TruncatedQuotient(n) ==
  IF n < 0 THEN -((-n) \div StepsPerRevolution) ELSE n \div StepsPerRevolution
TruncatedRemainder(n) ==
  IF n < 0 THEN -((-n) % StepsPerRevolution) ELSE n % StepsPerRevolution

\* Errors: the correction below home is dropped, or made for the angle only.
TruncatedPositionOf(n) ==
  [revolution |-> TruncatedQuotient(n), angle |-> TruncatedRemainder(n)]
HalfCorrectedPositionOf(n) ==
  [revolution |-> TruncatedQuotient(n),
   angle |-> TruncatedRemainder(n) + (IF n < 0 THEN StepsPerRevolution ELSE 0)]

\* The pair that predictNewPosition builds for a number of steps from home.
PositionOf(n) ==
  IF n < 0
    THEN [revolution |-> TruncatedQuotient(n) - 1,
          angle      |-> TruncatedRemainder(n) + StepsPerRevolution]
    ELSE [revolution |-> TruncatedQuotient(n),
          angle      |-> TruncatedRemainder(n)]

predictNewPosition(p, steps) == PositionOf(convertPositionToSteps(p) + steps)

\* The encoder code the shaft really shows when it is n steps from home.
ShaftAngle(n) == n % StepsPerRevolution

-----------------------------------------------------------------------------
\* Error: the wrap from one revolution to the next is forgotten.
UnwrappedAngleSlow(expected, measured) == measured - expected

(* Signed distance from the expected angle to the measured one: the code   *)
(* compares the expected angle with the measured one shifted by minus one, *)
(* zero and plus one revolution and takes the nearest of the three.        *)
checkAngleSlow(expected, measured) ==
  LET first  == Magnitude(expected - (measured - StepsPerRevolution))
      second == Magnitude(expected - measured)
      third  == Magnitude(expected - (measured + StepsPerRevolution))
  IN  IF first < second /\ first < third
        THEN -(expected - measured + StepsPerRevolution)
      ELSE IF third < first /\ third < second
        THEN -(expected - measured - StepsPerRevolution)
      ELSE -(expected - measured)

\* Error: the two sides of the expected angle are confused.
MirroredQuickMatches(expected, measured) ==
  { d \in -QuickAngleCheckRange .. QuickAngleCheckRange :
      (expected - d) % StepsPerRevolution = measured }

\* The offsets whose table entry matches the measured code.  The window is
\* shorter than a revolution, so there is at most one, whatever the order the
\* loop tries them in.
QuickMatches(expected, measured) ==
  { d \in -QuickAngleCheckRange .. QuickAngleCheckRange :
      (expected + d) % StepsPerRevolution = measured
      /\ (expected = StepsPerRevolution => d # 0) }

\* What checkAngleQuick may return.  An expected angle of StepsPerRevolution
\* reads one past the end of the calibration table: what it finds there may
\* match the voltage (stale TRUE) or not.
checkAngleQuick(expected, measured, stale) ==
  IF stale /\ expected = StepsPerRevolution THEN 0
  ELSE IF QuickMatches(expected, measured) = {}
    THEN checkAngleSlow(expected, measured)
  ELSE CHOOSE d \in QuickMatches(expected, measured) : TRUE

=============================================================================
