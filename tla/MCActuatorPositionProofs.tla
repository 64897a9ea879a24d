----------------------- MODULE MCActuatorPositionProofs -----------------------
(***************************************************************************)
(* The position arithmetic under any sequence of chunks, for every number  *)
(* of encoder codes and every bound.                                       *)
(***************************************************************************)
EXTENDS MCActuatorPosition, ActuatorPositionProofs

\* A recorded position is one that predictNewPosition has built.
Built == /\ \E n \in Int : position = PositionOf(n)
         /\ missed \in -MaxMove .. MaxMove

LEMMA StaysBuilt == Spec => []Built
<1>1. Init => Built
  BY WalkAssumption DEF Init, Built
<1>2. Built /\ [Walk]_vars => Built'
  <2> SUFFICES ASSUME Built, [Walk]_vars
               PROVE  Built'
    OBVIOUS
  <2>1. position \in Position
    BY PositionOfSteps DEF Built
  <2>2. CASE Walk
    <3>1. PICK n \in -MaxMove .. MaxMove, m \in -MaxMove .. MaxMove :
            /\ position' = predictNewPosition(position, n)
            /\ missed' = m
      BY <2>2 DEF Walk
    <3>2. convertPositionToSteps(position) + n \in Int
      BY <2>1, <3>1, PositionAssumption, WalkAssumption
      DEF Position, convertPositionToSteps
    <3> QED BY <3>1, <3>2 DEF Built, predictNewPosition
  <2>3. CASE UNCHANGED vars
    BY <2>3 DEF vars, Built
  <2> QED BY <2>2, <2>3
<1> QED BY <1>1, <1>2, PTL DEF Spec

\* Every stored pair is one that the code can store (predictNewPosition).
THEOREM WalkTypeCorrect == Spec => []TypeOK
<1>1. Built => TypeOK
  BY PositionOfSteps DEF Built, TypeOK
<1> QED BY <1>1, StaysBuilt, PTL

\* No chunk, on either side of home or across it, loses a step
\* (predictNewPosition, convertPositionToSteps).
THEOREM WalkPreservesSteps == Spec => []StepsPreserved
<1>1. TypeOK => StepsPreserved
  BY PredictPreservesSteps, WalkAssumption DEF TypeOK, StepsPreserved
<1> QED BY <1>1, WalkTypeCorrect, PTL

-----------------------------------------------------------------------------
\* What the two checks compare: the steps recorded and those of the shaft.
LEMMA BuiltSteps ==
  ASSUME NEW n \in Int, position = PositionOf(n), missed \in Int
  PROVE  Shaft = n + missed /\ Shaft \in Int
BY PositionOfSteps DEF Shaft

\* A shaft less than half a revolution away is found exactly, wherever the
\* angle wraps (checkAngleQuick, checkAngleSlow).
THEOREM WalkDeviationExact == Spec => []DeviationExact
<1>1. Built => DeviationExact
  <2> SUFFICES ASSUME Built, 2 * Magnitude(missed) < StepsPerRevolution
               PROVE  /\ checkAngleQuick(position.angle, ShaftAngle(Shaft), FALSE)
                            = missed
                      /\ checkAngleSlow(position.angle, ShaftAngle(Shaft)) = missed
    BY DEF DeviationExact
  <2>1. PICK n \in Int : position = PositionOf(n)
    BY DEF Built
  <2>2. missed \in Int
    BY WalkAssumption DEF Built
  <2>3. Shaft \in Int /\ Shaft - n = missed
    BY <2>1, <2>2, BuiltSteps
  <2> QED BY <2>1, <2>3, SlowDeviationExact, QuickDeviationExact
<1> QED BY <1>1, StaysBuilt, PTL

\* The slow check answers with the nearest distance, to which any true one is
\* congruent.
LEMMA SlowCongruent ==
  ASSUME NEW e \in 0 .. StepsPerRevolution,
         NEW a \in 0 .. StepsPerRevolution - 1
  PROVE  /\ checkAngleSlow(e, a) \in Int
         /\ 2 * Magnitude(checkAngleSlow(e, a)) <= StepsPerRevolution
         /\ \E j \in {-1, 0, 1} :
              checkAngleSlow(e, a) = (a - e) + StepsPerRevolution * j
<1>1. \/ checkAngleSlow(e, a) = (a - e) + StepsPerRevolution * (-1)
      \/ checkAngleSlow(e, a) = (a - e) + StepsPerRevolution * 0
      \/ checkAngleSlow(e, a) = (a - e) + StepsPerRevolution * 1
  BY PositionAssumption DEF checkAngleSlow
<1>2. 2 * Magnitude(checkAngleSlow(e, a)) <= StepsPerRevolution
  BY PositionAssumption DEF checkAngleSlow, Magnitude
<1> QED BY <1>1, <1>2, PositionAssumption

\* So does the quick one.
LEMMA QuickCongruent ==
  ASSUME NEW e \in 0 .. StepsPerRevolution,
         NEW a \in 0 .. StepsPerRevolution - 1
  PROVE  LET d == checkAngleQuick(e, a, FALSE)
         IN  /\ d \in Int /\ 2 * Magnitude(d) <= StepsPerRevolution
             /\ \E j \in Int : d = (a - e) + StepsPerRevolution * j
<1>1. CASE QuickMatches(e, a) = {}
  BY <1>1, SlowCongruent DEF checkAngleQuick
<1>2. CASE QuickMatches(e, a) # {}
  <2> DEFINE d == CHOOSE d \in QuickMatches(e, a) : TRUE
  <2>1. d \in QuickMatches(e, a) /\ checkAngleQuick(e, a, FALSE) = d
    BY <1>2 DEF checkAngleQuick
  <2> HIDE DEF d
  <2>2. /\ d \in Int /\ (e + d) % StepsPerRevolution = a
        /\ 2 * Magnitude(d) <= StepsPerRevolution
    BY <2>1, PositionAssumption DEF QuickMatches, Magnitude
  <2>3. PICK j \in Int : e + d = StepsPerRevolution * j + a
    BY <2>2, DivisionFacts
  <2>4. d = (a - e) + StepsPerRevolution * j
    BY <2>2, <2>3, PositionAssumption
  <2> QED BY <2>1, <2>2, <2>3, <2>4
<1> QED BY <1>1, <1>2

\* Whatever the shaft has done, correcting a position by the answer makes its
\* angle agree with the encoder (checkAngleQuick).
THEOREM WalkDeviationCongruent == Spec => []DeviationCongruent
<1>1. Built => DeviationCongruent
  <2> SUFFICES ASSUME Built
               PROVE  DeviationCongruent
    OBVIOUS
  <2> DEFINE e == position.angle
             a == ShaftAngle(Shaft)
             d == checkAngleQuick(e, a, FALSE)
  <2>1. PICK n \in Int : position = PositionOf(n)
    BY DEF Built
  <2>2. missed \in Int
    BY WalkAssumption DEF Built
  <2>3. Shaft \in Int /\ Shaft - n = missed
    BY <2>1, <2>2, BuiltSteps
  <2>4. e \in 0 .. StepsPerRevolution /\ a \in 0 .. StepsPerRevolution - 1
    BY <2>1, <2>3, PositionOfSteps, DivisionFacts DEF Position, ShaftAngle
  <2>5. PICK k \in Int : a - e = missed + StepsPerRevolution * k
    BY <2>1, <2>3, AngleDifference
  <2>6. /\ d \in Int /\ 2 * Magnitude(d) <= StepsPerRevolution
        /\ \E j \in Int : d = (a - e) + StepsPerRevolution * j
    BY <2>4, QuickCongruent
  <2>7. PICK j \in Int : d = (a - e) + StepsPerRevolution * j
    BY <2>6
  <2>8. missed - d = StepsPerRevolution * (-(k + j)) + 0
    <3> HIDE DEF d, a, e
    <3> DEFINE u == StepsPerRevolution * k
               v == StepsPerRevolution * j
    <3>1. u \in Int /\ v \in Int /\ StepsPerRevolution * (-(k + j)) = -u - v
      BY PositionAssumption
    <3>2. d = missed + u + v
      BY <2>2, <2>4, <2>5, <2>7, <3>1
    <3> HIDE DEF u, v
    <3> QED BY <2>2, <3>1, <3>2
  <2>9. (missed - d) % StepsPerRevolution = 0
    <3> HIDE DEF d
    <3>1. -(k + j) \in Int /\ 0 \in 0 .. StepsPerRevolution - 1
      BY PositionAssumption
    <3> QED BY <2>8, <3>1, RemainderUnique
  <2> QED BY <2>6, <2>9 DEF DeviationCongruent
<1> QED BY <1>1, StaysBuilt, PTL
=============================================================================
