------------------------ MODULE ActuatorPositionProofs ------------------------
(***************************************************************************)
(* What the position arithmetic guarantees for every number of encoder     *)
(* codes per revolution.                                                   *)
(***************************************************************************)
EXTENDS ActuatorPosition, TLAPS

\* Division with remainder, and the only remainder a number can have.
LEMMA DivisionFacts ==
  ASSUME NEW n \in Int
  PROVE  /\ n \div StepsPerRevolution \in Int
         /\ n % StepsPerRevolution \in 0 .. StepsPerRevolution - 1
         /\ n = StepsPerRevolution * (n \div StepsPerRevolution)
                  + (n % StepsPerRevolution)
BY PositionAssumption

LEMMA RemainderUnique ==
  ASSUME NEW k \in Int, NEW r \in 0 .. StepsPerRevolution - 1
  PROVE  (StepsPerRevolution * k + r) % StepsPerRevolution = r
BY PositionAssumption

\* The pair built for n steps stands for n steps, and its angle may reach
\* StepsPerRevolution but never leaves 0 .. StepsPerRevolution
\* (predictNewPosition).
LEMMA PositionOfSteps ==
  ASSUME NEW n \in Int
  PROVE  /\ PositionOf(n) \in Position
         /\ convertPositionToSteps(PositionOf(n)) = n
<1>1. CASE n >= 0
  BY <1>1, DivisionFacts, PositionAssumption
  DEF PositionOf, Position, convertPositionToSteps, TruncatedQuotient,
      TruncatedRemainder
<1>2. CASE n < 0
  <2> DEFINE q == (-n) \div StepsPerRevolution
             r == (-n) % StepsPerRevolution
  <2>1. /\ q \in Int /\ r \in 0 .. StepsPerRevolution - 1
        /\ -n = StepsPerRevolution * q + r
    BY DivisionFacts
  <2>2. PositionOf(n) = [revolution |-> -q - 1,
                         angle |-> -r + StepsPerRevolution]
    BY <1>2 DEF PositionOf, TruncatedQuotient, TruncatedRemainder
  <2>3. PositionOf(n) \in Position
    BY <2>1, <2>2, PositionAssumption DEF Position
  <2>4. (-q - 1) * StepsPerRevolution + (-r + StepsPerRevolution)
          = -(StepsPerRevolution * q + r)
    BY <2>1, PositionAssumption
  <2>5. convertPositionToSteps(PositionOf(n))
          = (-q - 1) * StepsPerRevolution + (-r + StepsPerRevolution)
    BY <2>2 DEF convertPositionToSteps
  <2> QED BY <2>1, <2>3, <2>4, <2>5
<1> QED BY <1>1, <1>2

\* predictNewPosition advances the counter by exactly the steps it is given,
\* on both sides of home and across it.
THEOREM PredictPreservesSteps ==
  ASSUME NEW p \in Position, NEW n \in Int
  PROVE  /\ predictNewPosition(p, n) \in Position
         /\ convertPositionToSteps(predictNewPosition(p, n))
              = convertPositionToSteps(p) + n
<1>1. convertPositionToSteps(p) + n \in Int
  BY PositionAssumption DEF convertPositionToSteps, Position
<1> QED BY <1>1, PositionOfSteps DEF predictNewPosition

\* The comment in predictNewPosition asks for floor behaviour.  Below home an
\* exact number of revolutions gets one revolution less and the angle of a
\* whole one, which lies past the end of the calibration table.
THEOREM WholeRevolutionsBelowHome ==
  ASSUME NEW k \in Nat \ {0}
  PROVE  PositionOf(-(StepsPerRevolution * k))
           = [revolution |-> -k - 1, angle |-> StepsPerRevolution]
<1> DEFINE n == StepsPerRevolution * k
<1>1. n \in Int /\ n > 0 /\ -n < 0 /\ -(-n) = n
  <2>1. n >= StepsPerRevolution
    BY PositionAssumption
  <2> QED BY <2>1, PositionAssumption
<1>2. n % StepsPerRevolution = 0
  BY RemainderUnique, PositionAssumption
<1>3. n \div StepsPerRevolution = k
  BY PositionAssumption
<1> HIDE DEF n
<1>4. PositionOf(-n) = [revolution |-> -k - 1, angle |-> StepsPerRevolution]
  <2>1. TruncatedQuotient(-n) = -k /\ TruncatedRemainder(-n) = 0
    BY <1>1, <1>2, <1>3 DEF TruncatedQuotient, TruncatedRemainder
  <2> QED BY <1>1, <2>1, PositionAssumption DEF PositionOf
<1> QED BY <1>4 DEF n

-----------------------------------------------------------------------------
\* The angle of a position differs from the encoder's by whole revolutions
\* plus the true distance.
LEMMA AngleDifference ==
  ASSUME NEW n \in Int, NEW m \in Int
  PROVE  \E k \in Int :
           ShaftAngle(m) - PositionOf(n).angle
             = (m - n) + StepsPerRevolution * k
<1> DEFINE p == PositionOf(n)
           q == m \div StepsPerRevolution
<1>1. /\ p.revolution \in Int /\ p.angle \in 0 .. StepsPerRevolution
      /\ n = p.revolution * StepsPerRevolution + p.angle
  BY PositionOfSteps DEF convertPositionToSteps, Position
<1>2. /\ q \in Int /\ ShaftAngle(m) \in Int
      /\ m = StepsPerRevolution * q + ShaftAngle(m)
  BY DivisionFacts DEF ShaftAngle
<1> HIDE DEF p, q
<1>3. StepsPerRevolution * (p.revolution - q)
        = p.revolution * StepsPerRevolution - StepsPerRevolution * q
  BY <1>1, <1>2, PositionAssumption
<1>4. ShaftAngle(m) - p.angle
        = (m - n) + StepsPerRevolution * (p.revolution - q)
  <2>1. /\ p.revolution * StepsPerRevolution \in Int
        /\ StepsPerRevolution * q \in Int
    BY <1>1, <1>2, PositionAssumption
  <2> QED BY <1>1, <1>2, <1>3, <2>1
<1>5. p.revolution - q \in Int
  BY <1>1, <1>2
<1> QED BY <1>4, <1>5 DEF p

\* A shaft less than half a revolution away is measured exactly
\* (checkAngleSlow).
THEOREM SlowDeviationExact ==
  ASSUME NEW n \in Int, NEW m \in Int,
         2 * Magnitude(m - n) < StepsPerRevolution
  PROVE  checkAngleSlow(PositionOf(n).angle, ShaftAngle(m)) = m - n
<1> DEFINE e == PositionOf(n).angle
           a == ShaftAngle(m)
           d == m - n
<1>1. /\ e \in 0 .. StepsPerRevolution
      /\ a \in 0 .. StepsPerRevolution - 1
  BY PositionOfSteps, DivisionFacts DEF Position, ShaftAngle
<1>2. PICK k \in Int : a - e = d + StepsPerRevolution * k
  BY AngleDifference
<1>3. k \in {-1, 0, 1}
  <2>1. /\ -StepsPerRevolution <= a - e /\ a - e < StepsPerRevolution
        /\ -StepsPerRevolution < 2 * d /\ 2 * d < StepsPerRevolution
    BY <1>1, PositionAssumption DEF Magnitude
  <2>2. ASSUME k >= 2 PROVE FALSE
    <3>1. StepsPerRevolution * k >= StepsPerRevolution * 2
      BY <2>2, PositionAssumption
    <3> QED BY <3>1, <2>1, <1>1, <1>2, PositionAssumption
  <2>3. ASSUME k <= -2 PROVE FALSE
    <3>1. StepsPerRevolution * k <= StepsPerRevolution * (-2)
      BY <2>3, PositionAssumption
    <3> QED BY <3>1, <2>1, <1>1, <1>2, PositionAssumption
  <2> QED BY <2>2, <2>3
<1>4. d \in Int /\ -StepsPerRevolution < 2 * d /\ 2 * d < StepsPerRevolution
  BY PositionAssumption DEF Magnitude
<1>5. CASE k = 0
  BY <1>1, <1>2, <1>4, <1>5, PositionAssumption DEF checkAngleSlow, Magnitude
<1>6. CASE k = 1
  BY <1>1, <1>2, <1>4, <1>6, PositionAssumption DEF checkAngleSlow, Magnitude
<1>7. CASE k = -1
  BY <1>1, <1>2, <1>4, <1>7, PositionAssumption DEF checkAngleSlow, Magnitude
<1> QED BY <1>3, <1>5, <1>6, <1>7

\* The quick check agrees: it finds the shaft exactly as well, for every
\* window shorter than half a revolution (checkAngleQuick).
THEOREM QuickDeviationExact ==
  ASSUME NEW n \in Int, NEW m \in Int,
         2 * Magnitude(m - n) < StepsPerRevolution
  PROVE  checkAngleQuick(PositionOf(n).angle, ShaftAngle(m), FALSE) = m - n
<1> DEFINE e == PositionOf(n).angle
           a == ShaftAngle(m)
<1>1. /\ e \in 0 .. StepsPerRevolution
      /\ a \in 0 .. StepsPerRevolution - 1
  BY PositionOfSteps, DivisionFacts DEF Position, ShaftAngle
<1>2. PICK k \in Int : a - e = (m - n) + StepsPerRevolution * k
  BY AngleDifference
<1>3. CASE QuickMatches(e, a) = {}
  BY <1>3, SlowDeviationExact DEF checkAngleQuick
<1>4. CASE QuickMatches(e, a) # {}
  <2>1. ASSUME NEW d \in QuickMatches(e, a)
        PROVE  d = m - n
    <3>1. /\ d \in Int /\ 2 * d < StepsPerRevolution
          /\ -StepsPerRevolution < 2 * d
          /\ (e + d) % StepsPerRevolution = a
      BY PositionAssumption DEF QuickMatches
    <3>2. PICK j \in Int : e + d = StepsPerRevolution * j + a
      BY <1>1, <3>1, DivisionFacts
    <3>3. d - (m - n) = StepsPerRevolution * j + StepsPerRevolution * k
      <4> DEFINE u == StepsPerRevolution * k
                 v == StepsPerRevolution * j
                 x == m - n
      <4>1. u \in Int /\ v \in Int /\ x \in Int
        BY <1>2, <3>2, PositionAssumption
      <4>2. e \in Int /\ a \in Int /\ d \in Int
        BY <1>1, <3>1
      <4>3. a - e = x + u /\ e + d = v + a
        BY <1>2, <3>2
      <4> HIDE DEF e, a, u, v, x
      <4>4. d - x = v + u
        BY <4>1, <4>2, <4>3
      <4> QED BY <4>4 DEF u, v, x
    <3>4. d - (m - n) = StepsPerRevolution * (j + k)
      BY <1>2, <3>2, <3>3, PositionAssumption
    <3>5. /\ d - (m - n) < StepsPerRevolution
          /\ -StepsPerRevolution < d - (m - n)
      BY <3>1, PositionAssumption DEF Magnitude
    <3>6. j + k = 0
      <4>1. ASSUME j + k >= 1 PROVE FALSE
        <5>1. StepsPerRevolution * (j + k) >= StepsPerRevolution
          BY <4>1, <1>2, <3>2, PositionAssumption
        <5> QED BY <5>1, <3>4, <3>5, <3>1, PositionAssumption
      <4>2. ASSUME j + k <= -1 PROVE FALSE
        <5>1. StepsPerRevolution * (j + k) <= -StepsPerRevolution
          BY <4>2, <1>2, <3>2, PositionAssumption
        <5> QED BY <5>1, <3>4, <3>5, <3>1, PositionAssumption
      <4> QED BY <4>1, <4>2, <1>2, <3>2
    <3>7. d - (m - n) = 0
      BY <3>4, <3>6, PositionAssumption
    <3> QED BY <3>1, <3>7
  <2>2. (CHOOSE d \in QuickMatches(e, a) : TRUE) \in QuickMatches(e, a)
    BY <1>4
  <2> QED BY <1>4, <2>1, <2>2 DEF checkAngleQuick
<1> QED BY <1>3, <1>4

\* Whatever the shaft does, a check answers with an integer.
LEMMA DeviationInteger ==
  ASSUME NEW n \in Int, NEW m \in Int, NEW stale \in BOOLEAN
  PROVE  /\ checkAngleSlow(PositionOf(n).angle, ShaftAngle(m)) \in Int
         /\ checkAngleQuick(PositionOf(n).angle, ShaftAngle(m), stale) \in Int
<1> DEFINE e == PositionOf(n).angle
           a == ShaftAngle(m)
<1>1. e \in Int /\ a \in Int
  BY PositionOfSteps, DivisionFacts DEF Position, ShaftAngle
<1>2. checkAngleSlow(e, a) \in Int
  BY <1>1, PositionAssumption DEF checkAngleSlow
<1>3. QuickMatches(e, a) # {} =>
        (CHOOSE d \in QuickMatches(e, a) : TRUE) \in QuickMatches(e, a)
  OBVIOUS
<1>4. QuickMatches(e, a) \subseteq Int
  BY PositionAssumption DEF QuickMatches
<1> QED BY <1>2, <1>3, <1>4 DEF checkAngleQuick
=============================================================================
