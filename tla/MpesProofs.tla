------------------------------ MODULE MpesProofs ------------------------------
(***************************************************************************)
(* The sensors of a panel for every number of sensors and operators: their *)
(* types, and, where no two ports are toggled together, that a sensor      *)
(* knows its camera, that its position is its own, and the exposure that   *)
(* __setExposure leaves.                                                   *)
(***************************************************************************)
EXTENDS Mpes, FiniteSetTheorems, SequenceTheorems, WellFoundedInduction, TLAPS

-----------------------------------------------------------------------------
(* The types, and what the threads and sensors have in common *)

Steps == Working \cup {"down", "idle", "next"}
Shapes == {"even", "mild", "severe"}
Readings ==
  [kind : {"unread", "failed", "none", "measured", "mixed", "stale"},
   of : Sensors, intensity : Int, shape : Shapes]
Devices == [id : Nodes \cup {NoNode}, exposure : Limits, shot : Readings]
Ops == {"initialize", "turnOn", "turnOff", "updatePosition", "setExposure", "readjust"}
Jobs == [op : Ops, s : Sensors]
Locals ==
  [method : SensorMethods \cup PanelMethods \cup {"idle", "Start"},
   todo : Seq(Jobs), old : SUBSET Nodes, extreme : BOOLEAN,
   scene : [gain : Nat, shape : Shapes]]

Typed ==
  /\ usb \in [Sensors -> BOOLEAN]
  /\ node \in [Sensors -> Nodes \cup {NoNode}]
  /\ panel \in [on : BOOLEAN, busy : BOOLEAN]
  /\ busy \in [Sensors -> BOOLEAN]
  /\ device \in [Sensors -> Devices]
  /\ position \in [Sensors -> Readings]
  /\ errors \in [Sensors -> SUBSET (0 .. 7)]
  /\ pc \in [Threads -> Steps]
  /\ loc \in [Threads -> Locals]
  /\ dismissed \in [Sensors -> BOOLEAN]

\* A thread is in a method as long as it has an operation left in it.
Queued == \A t \in Threads : pc[t] \in Working \cup {"next"} <=> loc[t].todo # <<>>

\* A busy sensor is one that a thread, and no other, works at.
Worker(t, s) == pc[t] \in Working /\ Now(t) = s
Locked ==
  /\ \A s \in Sensors : busy[s] => \E t \in Threads : Worker(t, s)
  /\ \A t \in Threads, s \in Sensors : Worker(t, s) => busy[s]
  /\ \A t, u \in Threads, s \in Sensors : Worker(t, s) /\ Worker(u, s) => t = u

\* No method is served before the server has started.
StartAlone == pc[Main] # "idle" => \A c \in Callers : pc[c] = "idle"

\* No two cameras have one number, and a port that is off has none.
Cameras ==
  /\ \A t \in Threads : pc[t] = "enable" => node[Now(t)] = NoNode
  /\ \A s, x \in Sensors : node[s] # NoNode /\ node[s] = node[x] => s = x

Sound == Typed /\ Queued /\ Locked /\ StartAlone /\ Cameras

-----------------------------------------------------------------------------
(* Exposures: products and quotients, and where the loop of __setExposure ends *)

LEMMA Times ==
  ASSUME NEW a \in Nat, NEW b \in Nat, NEW c \in Nat
  PROVE  /\ a * c \in Nat /\ a * c = c * a
         /\ a <= b => a * c <= b * c
         /\ a < b /\ c # 0 => a * c < b * c
         /\ a * c <= b * c /\ c # 0 => a <= b
         /\ a * c < b * c => a < b
<1>1. a * c \in Nat /\ b * c \in Nat /\ a * c = c * a
  OBVIOUS
<1>2. a <= b => a * c <= b * c
  OBVIOUS
<1>3. a < b /\ c # 0 => a * c < b * c
  OBVIOUS
<1>4. b < a /\ c # 0 => b * c < a * c
  OBVIOUS
<1>5. b <= a => b * c <= a * c
  OBVIOUS
<1> QED BY <1>1, <1>2, <1>3, <1>4, <1>5

LEMMA Quotient ==
  ASSUME NEW a \in Nat, NEW b \in Nat \ {0}
  PROVE  /\ a \div b \in Nat
         /\ b * (a \div b) <= a
         /\ a < b * ((a \div b) + 1)
OBVIOUS

LEMMA Assoc ==
  ASSUME NEW a \in Nat, NEW b \in Nat, NEW c \in Nat
  PROVE  (a * b) * c = a * (b * c) /\ (a * b) * c = (a * c) * b
OBVIOUS

LEMMA ExposureConstants ==
  /\ MinExposure \in Nat \ {0} /\ MaxExposure \in Nat
  /\ Target \in Nat \ {0} /\ Num \in Nat \ {0} /\ Den \in Nat \ {0} /\ Den <= Num
  /\ (MinExposure + 1) * Den <= MinExposure * Num
<1>1. MinExposure \in Nat /\ Num \in Nat /\ Den \in Nat \ {0} /\ Den < Num
      /\ MaxExposure \in Nat /\ Target \in Nat \ {0}
      /\ (MinExposure * Num) \div Den > MinExposure
  BY MpesAssumption
<1> DEFINE q == (MinExposure * Num) \div Den
<1>2. MinExposure * Num \in Nat
  BY <1>1, Times
<1>3. q \in Nat /\ Den * q <= MinExposure * Num
  BY <1>1, <1>2, Quotient
<1>4. MinExposure + 1 <= q
  BY <1>1, <1>3
<1> HIDE DEF q
<1>5. (MinExposure + 1) * Den <= q * Den /\ q * Den = Den * q
      /\ (MinExposure + 1) * Den \in Nat /\ q * Den \in Nat
  BY <1>1, <1>3, <1>4, Times
<1>6. (MinExposure + 1) * Den <= MinExposure * Num
  BY <1>2, <1>3, <1>5
<1>7. MinExposure # 0
  <2>1. CASE MinExposure = 0
    <3>1. (0 + 1) * Den = Den /\ 0 * Num = 0
      BY <1>1
    <3> QED BY <1>1, <1>6, <2>1, <3>1
  <2> QED BY <2>1
<1> QED BY <1>1, <1>6, <1>7

\* The range around the target.
LEMMA Ranges ==
  ASSUME NEW j \in Nat
  PROVE  /\ j <= Target => ~TooLight(j)
         /\ j >= Target => ~TooDim(j)
         /\ \A k \in Nat : j <= k /\ ~TooDim(j) => ~TooDim(k)
         /\ \A k \in Nat : k <= j /\ ~TooLight(j) => ~TooLight(k)
<1>1. /\ Target * Den <= Target * Num
      /\ Target * Den \in Nat /\ Target * Num \in Nat
      /\ j * Num \in Nat /\ j * Den \in Nat
  BY ExposureConstants, Times
<1>2. j <= Target => j * Den <= Target * Den
  BY ExposureConstants, Times
<1>3. j >= Target => Target * Num <= j * Num
  BY ExposureConstants, Times
<1>4. ASSUME NEW k \in Nat
      PROVE  /\ k * Num \in Nat /\ k * Den \in Nat
             /\ j <= k => j * Num <= k * Num
             /\ k <= j => k * Den <= j * Den
  BY ExposureConstants, Times
<1> QED BY <1>1, <1>2, <1>3, <1>4 DEF TooDim, TooLight

\* An exposure that is right to less than a unit is right to the precision.
LEMMA RoundedInRange ==
  ASSUME NEW g \in Nat, NEW n \in Limits, g * n <= Target, Target < g * (n + 1)
  PROVE  InRange(g * n)
<1>1. n \in Nat /\ n >= MinExposure
  BY ExposureConstants DEF Limits
<1>2. (n + 1) * Den <= n * Num
  <2>1. n = MinExposure + (n - MinExposure) /\ n - MinExposure \in Nat
    BY <1>1, ExposureConstants
  <2> DEFINE d == n - MinExposure
  <2>2. d * Den <= d * Num
    BY <2>1, ExposureConstants, Times
  <2>3. (n + 1) * Den = (MinExposure + 1) * Den + d * Den
        /\ n * Num = MinExposure * Num + d * Num
    BY <1>1, ExposureConstants
  <2>4. /\ d * Den \in Nat /\ d * Num \in Nat
        /\ (MinExposure + 1) * Den \in Nat /\ MinExposure * Num \in Nat
    BY <2>1, ExposureConstants, Times
  <2> HIDE DEF d
  <2> QED BY <2>2, <2>3, <2>4, ExposureConstants
<1>3. g * ((n + 1) * Den) <= g * (n * Num)
  BY <1>1, <1>2, ExposureConstants, Times
<1>4. Target * Den <= (g * (n + 1)) * Den
  <2>1. g * (n + 1) \in Nat
    BY <1>1, Times
  <2> QED BY <2>1, ExposureConstants, Times
<1>5. g * ((n + 1) * Den) = (g * (n + 1)) * Den /\ g * (n * Num) = (g * n) * Num
  BY <1>1, ExposureConstants, Assoc
<1>6. /\ Target * Den \in Nat /\ (g * (n + 1)) * Den \in Nat /\ (g * n) * Num \in Nat
      /\ g * n \in Nat
  BY <1>1, ExposureConstants, Times
<1>7. ~TooDim(g * n)
  BY <1>3, <1>4, <1>5, <1>6 DEF TooDim
<1> QED BY <1>6, <1>7, Ranges DEF InRange

LEMMA NextDim ==
  ASSUME NEW g \in Nat, NEW e \in Limits, NEW x \in BOOLEAN, ExtremelyDim(g * e, e)
  PROVE  /\ g * MaxExposure <= Target
         /\ NextExposure(g * e, e, x) \in Nat /\ e <= NextExposure(g * e, e, x)
<1>1. e \in Nat \ {0} /\ e <= MaxExposure
  BY ExposureConstants DEF Limits
<1>2. g * MaxExposure <= Target
  <2>1. (g * e) * MaxExposure = (g * MaxExposure) * e
    BY <1>1, ExposureConstants, Assoc
  <2>2. (g * MaxExposure) * e <= Target * e
    BY <2>1 DEF ExtremelyDim
  <2>3. g * MaxExposure \in Nat
    BY ExposureConstants, Times
  <2> QED BY <1>1, <2>2, <2>3, ExposureConstants, Times
<1>3. NextExposure(g * e, e, x) = IF x THEN MaxExposure ELSE (e * Num) \div Den
  BY DEF NextExposure
<1> DEFINE q == (e * Num) \div Den
<1>4. q \in Nat /\ e * Num < Den * (q + 1)
  <2>1. e * Num \in Nat
    BY <1>1, ExposureConstants, Times
  <2> QED BY <2>1, ExposureConstants, Quotient
<1> HIDE DEF q
<1>5. e * Den <= e * Num /\ e * Den \in Nat /\ e * Num \in Nat
  BY <1>1, ExposureConstants, Times
<1>6. Den * (q + 1) = (q + 1) * Den /\ (q + 1) * Den \in Nat
  BY <1>4, ExposureConstants, Times
<1>7. e * Den < (q + 1) * Den
  BY <1>4, <1>5, <1>6
<1>8. e < q + 1
  BY <1>1, <1>4, <1>7, ExposureConstants, Times
<1> QED BY <1>1, <1>2, <1>3, <1>4, <1>8, ExposureConstants DEF q

LEMMA NextLight ==
  ASSUME NEW g \in Nat, NEW e \in Limits, NEW x \in BOOLEAN,
         ~ExtremelyDim(g * e, e), ExtremelyLight(g * e, e)
  PROVE  /\ Target <= g * MinExposure
         /\ NextExposure(g * e, e, x) \in Nat /\ NextExposure(g * e, e, x) <= e
<1>1. e \in Nat \ {0} /\ MinExposure <= e
  BY ExposureConstants DEF Limits
<1>2. Target <= g * MinExposure
  <2>1. (g * e) * MinExposure = (g * MinExposure) * e
    BY <1>1, ExposureConstants, Assoc
  <2>2. g * MinExposure \in Nat
    BY ExposureConstants, Times
  <2>3. Target * e \in Nat /\ (g * MinExposure) * e \in Nat
    BY <1>1, <2>2, ExposureConstants, Times
  <2>4. Target * e <= (g * MinExposure) * e
    BY <2>1, <2>3 DEF ExtremelyLight
  <2> QED BY <1>1, <2>2, <2>4, ExposureConstants, Times
<1>3. NextExposure(g * e, e, x) = IF x THEN MinExposure ELSE (e * Den) \div Num
  BY DEF NextExposure
<1> DEFINE q == (e * Den) \div Num
<1>4. q \in Nat /\ Num * q <= e * Den
  <2>1. e * Den \in Nat
    BY <1>1, ExposureConstants, Times
  <2> QED BY <2>1, ExposureConstants, Quotient
<1> HIDE DEF q
<1>5. e * Den <= e * Num /\ e * Den \in Nat /\ e * Num \in Nat
  BY <1>1, ExposureConstants, Times
<1>6. Num * q = q * Num /\ q * Num \in Nat
  BY <1>4, ExposureConstants, Times
<1>7. q * Num <= e * Num
  BY <1>4, <1>5, <1>6
<1>8. q <= e
  BY <1>1, <1>4, <1>7, ExposureConstants, Times
<1> QED BY <1>1, <1>2, <1>3, <1>4, <1>8, ExposureConstants DEF q

LEMMA NextNear ==
  ASSUME NEW g \in Nat, NEW e \in Limits, NEW x \in BOOLEAN,
         ~ExtremelyDim(g * e, e), ~ExtremelyLight(g * e, e)
  PROVE  LET n == NextExposure(g * e, e, x)
         IN  n \in Nat /\ g * n <= Target /\ Target < g * (n + 1)
<1>1. e \in Nat \ {0}
  BY ExposureConstants DEF Limits
<1>2. g * e \in Nat \ {0}
  <2>1. g * e \in Nat
    BY <1>1, Times
  <2>2. CASE g * e = 0
    <3>1. 0 * MaxExposure = 0 /\ Target * e \in Nat
      BY <1>1, ExposureConstants, Times
    <3> QED BY <2>2, <3>1 DEF ExtremelyDim
  <2> QED BY <2>1, <2>2
<1> DEFINE n == (e * Target) \div (g * e)
<1>3. NextExposure(g * e, e, x) = n
  BY DEF NextExposure
<1>4. n \in Nat /\ (g * e) * n <= e * Target /\ e * Target < (g * e) * (n + 1)
  <2>1. e * Target \in Nat
    BY <1>1, ExposureConstants, Times
  <2> QED BY <1>2, <2>1, Quotient
<1> HIDE DEF n
<1>5. /\ (g * e) * n = (g * n) * e /\ (g * e) * (n + 1) = (g * (n + 1)) * e
      /\ e * Target = Target * e
  BY <1>1, <1>4, ExposureConstants, Assoc, Times
<1>6. g * n \in Nat /\ g * (n + 1) \in Nat
  BY <1>4, Times
<1>7. (g * n) * e <= Target * e /\ Target * e < (g * (n + 1)) * e
  BY <1>4, <1>5
<1> QED BY <1>1, <1>3, <1>4, <1>6, <1>7, ExposureConstants, Times

\* When the loop of __setExposure ends the exposure it leaves is right, or an
\* error says that the limits do not reach it.
LEMMA LeftInRange ==
  ASSUME NEW g \in Nat, NEW e \in Limits, NEW x \in BOOLEAN,
         ~LoopsOn(g * e, NextExposure(g * e, e, x))
  PROVE  \/ InRange(g * ExposureLeft(e, NextExposure(g * e, e, x)))
         \/ 2 \in ExposureErrors(g * e, NextExposure(g * e, e, x))
         \/ 4 \in ExposureErrors(g * e, NextExposure(g * e, e, x))
<1> DEFINE i == g * e
           n == NextExposure(i, e, x)
<1>1. /\ e \in Nat \ {0} /\ MinExposure <= e /\ e <= MaxExposure
      /\ \A k \in Nat : k \in Limits <=> MinExposure <= k /\ k <= MaxExposure
  BY ExposureConstants DEF Limits
<1>2. i \in Nat
  BY <1>1, Times
<1>3. n \in Nat
  BY NextDim, NextLight, NextNear
<1>4. n \notin Limits /\ InRange(i) => InRange(g * ExposureLeft(e, n))
  BY DEF ExposureLeft
<1>5. /\ n > MaxExposure /\ TooDim(i) => 2 \in ExposureErrors(i, n)
      /\ n < MinExposure /\ TooLight(i) => 4 \in ExposureErrors(i, n)
  <2>1. i * Num \in Nat /\ i * Den \in Nat /\ Target * Den \in Nat /\ Target * Num \in Nat
    BY <1>2, ExposureConstants, Times
  <2>2. MinExposure <= MaxExposure
    BY <1>1, ExposureConstants
  <2> HIDE DEF i, n
  <2> QED BY <1>3, <2>1, <2>2, ExposureConstants DEF TooDim, TooLight, ExposureErrors
<1>6. n \in Limits => InRange(i) /\ ExposureLeft(e, n) = n
  BY DEF LoopsOn, ExposureLeft
<1>7. g * n \in Nat /\ g * (n + 1) \in Nat
  BY <1>3, Times
<1>8. CASE ExtremelyDim(i, e)
  <2>1. g * MaxExposure <= Target /\ e <= n
    BY <1>8, NextDim
  <2>2. g * e <= g * MaxExposure /\ g * e <= g * n /\ g * MaxExposure \in Nat
    BY <1>1, <1>3, <2>1, ExposureConstants, Times
  <2>3. ~TooLight(i)
    BY <1>2, <2>1, <2>2, Ranges, ExposureConstants
  <2> HIDE DEF n
  <2>4. CASE n \in Limits
    <3>1. g * n <= g * MaxExposure
      BY <1>1, <1>3, <2>4, ExposureConstants, Times
    <3>2. g * n <= Target
      BY <1>7, <2>1, <2>2, <3>1, ExposureConstants
    <3>3. ~TooDim(g * n)
      BY <1>2, <1>6, <1>7, <2>2, <2>4, Ranges DEF InRange
    <3> QED BY <1>6, <1>7, <2>4, <3>2, <3>3, Ranges DEF InRange, n
  <2>5. CASE n \notin Limits
    <3>1. n > MaxExposure
      BY <1>1, <1>3, <2>1, <2>5, ExposureConstants
    <3> QED BY <1>4, <1>5, <2>3, <2>5, <3>1 DEF InRange, n
  <2> QED BY <2>4, <2>5
<1>9. CASE ~ExtremelyDim(i, e) /\ ExtremelyLight(i, e)
  <2>1. Target <= g * MinExposure /\ n <= e
    BY <1>9, NextLight
  <2>2. g * MinExposure <= g * e /\ g * n <= g * e /\ g * MinExposure \in Nat
    BY <1>1, <1>3, <2>1, ExposureConstants, Times
  <2>3. ~TooDim(i)
    BY <1>2, <2>1, <2>2, Ranges, ExposureConstants
  <2> HIDE DEF n
  <2>4. CASE n \in Limits
    <3>1. g * MinExposure <= g * n
      BY <1>1, <1>3, <2>4, ExposureConstants, Times
    <3>2. Target <= g * n
      BY <1>7, <2>1, <2>2, <3>1, ExposureConstants
    <3>3. ~TooLight(g * n)
      BY <1>2, <1>6, <1>7, <2>2, <2>4, Ranges DEF InRange
    <3> QED BY <1>6, <1>7, <2>4, <3>2, <3>3, Ranges DEF InRange, n
  <2>5. CASE n \notin Limits
    <3>1. n < MinExposure
      BY <1>1, <1>3, <2>1, <2>5, ExposureConstants
    <3> QED BY <1>4, <1>5, <2>3, <2>5, <3>1 DEF InRange, n
  <2> QED BY <2>4, <2>5
<1>10. CASE ~ExtremelyDim(i, e) /\ ~ExtremelyLight(i, e)
  <2>1. g * n <= Target /\ Target < g * (n + 1)
    BY <1>10, NextNear
  <2> HIDE DEF n
  <2>2. CASE n \in Limits
    BY <1>6, <2>1, <2>2, RoundedInRange DEF n
  <2>3. CASE n > MaxExposure
    <3>1. g * e <= g * n
      BY <1>1, <1>3, <2>3, ExposureConstants, Times
    <3>2. ~TooLight(i)
      BY <1>2, <1>7, <2>1, <3>1, Ranges, ExposureConstants
    <3>3. n \notin Limits
      BY <1>1, <1>3, <2>3, ExposureConstants
    <3> QED BY <1>4, <1>5, <2>3, <3>2, <3>3 DEF InRange, n
  <2>4. CASE n < MinExposure
    <3>1. g * (n + 1) <= g * e
      BY <1>1, <1>3, <2>4, ExposureConstants, Times
    <3>2. ~TooDim(i)
      BY <1>2, <1>7, <2>1, <3>1, Ranges, ExposureConstants
    <3>3. n \notin Limits
      BY <1>1, <1>3, <2>4, ExposureConstants
    <3> QED BY <1>4, <1>5, <2>4, <3>2, <3>3 DEF InRange, n
  <2> QED BY <1>1, <1>3, <2>2, <2>3, <2>4, ExposureConstants
<1> QED BY <1>8, <1>9, <1>10

-----------------------------------------------------------------------------
(* Operators of the model *)

LEMMA NowTyped ==
  ASSUME Typed, Queued, NEW t \in Threads, pc[t] \in Working \cup {"next"}
  PROVE  /\ loc[t].todo \in Seq(Jobs) /\ loc[t].todo # <<>>
         /\ Len(loc[t].todo) \in Nat \ {0}
         /\ loc[t].todo[1] \in Jobs
         /\ Now(t) \in Sensors /\ Doing(t) \in Ops
<1>1. loc[t].todo \in Seq(Jobs) /\ loc[t].todo # <<>>
  BY DEF Typed, Queued, Locals
<1>2. Len(loc[t].todo) \in Nat \ {0} /\ loc[t].todo[1] \in Jobs
  BY <1>1
<1> QED BY <1>1, <1>2 DEF Now, Doing, Jobs

LEMMA ConstantsTyped ==
  /\ MinExposure \in Nat \ {0} /\ MaxExposure \in Nat /\ DefaultExposure \in Limits
  /\ NoLocals \in Locals /\ NoLocals.todo = <<>> /\ Main \in Threads
  /\ \A s \in Sensors : /\ NoDevice(s) \in Devices /\ None(s) \in Readings
                        /\ Unread(s) \in Readings /\ Failed(s) \in Readings
<1>1. MinExposure \in Nat \ {0}
  BY ExposureConstants
<1>2. MaxExposure \in Nat /\ DefaultExposure \in Limits
  BY MpesAssumption DEF Limits
<1>3. NoLocals \in Locals /\ NoLocals.todo = <<>>
  <2>1. <<>> \in Seq(Jobs)
    OBVIOUS
  <2> HIDE DEF Jobs
  <2> QED BY <2>1 DEF NoLocals, Locals, Dark, Shapes
<1>4. ASSUME NEW s \in Sensors
      PROVE  /\ None(s) \in Readings
             /\ Unread(s) \in Readings /\ Failed(s) \in Readings
  BY DEF None, Unread, Failed, Reading, Readings, Shapes
<1>5. ASSUME NEW s \in Sensors
      PROVE  NoDevice(s) \in Devices
  BY <1>2, <1>4 DEF NoDevice, Devices
<1> QED BY <1>1, <1>2, <1>3, <1>4, <1>5 DEF Threads

\* A nonempty set of numbers has a least element.
LEMMA LeastNumber ==
  ASSUME NEW S \in SUBSET Nat, S # {}
  PROVE  Min(S) \in S
<1> DEFINE R == OpToRel(<, Nat)
<1>1. IsWellFoundedOn(R, Nat)
  BY NatLessThanWellFounded
<1>2. \A x, y \in S : y < x => <<y, x>> \in R
  BY DEF OpToRel
<1> HIDE DEF R
<1>3. PICK x \in S : \A y \in S : ~(<<y, x>> \in R)
  BY <1>1, WFMin
<1>4. \A y \in S : ~(y < x)
  BY <1>2, <1>3
<1>5. \E z \in S : \A y \in S : z <= y
  BY <1>4, SMT
<1> QED
  BY <1>5 DEF Min

\* There is a number for the camera of a port that is off: there are as many
\* numbers as there are sensors.
LEMMA FreeNode ==
  ASSUME Typed, NEW s \in Sensors, node[s] = NoNode
  PROVE  LowestFree \in Nodes \ Used
<1>1. IsFiniteSet(Sensors) /\ Cardinality(Sensors) = NumSensors
  BY FS_Interval, MpesAssumption DEF Sensors
<1>2. IsFiniteSet(Sensors \ {s}) /\ Cardinality(Sensors \ {s}) = NumSensors - 1
  BY <1>1, FS_RemoveElement
<1>3. IsFiniteSet(Nodes) /\ Cardinality(Nodes) = NumSensors
  BY FS_Interval, MpesAssumption DEF Nodes
<1>4. Nodes \ Used # {}
  <2> SUFFICES ASSUME Nodes \subseteq Used PROVE FALSE
    OBVIOUS
  <2> DEFINE owner == [n \in Nodes |-> CHOOSE x \in Sensors \ {s} : node[x] = n]
  <2>1. ASSUME NEW n \in Nodes
        PROVE  \E x \in Sensors \ {s} : node[x] = n
    BY DEF Used, NoNode, Nodes
  <2>2. \A n \in Nodes : owner[n] \in Sensors \ {s} /\ node[owner[n]] = n
    BY <2>1
  <2>3. owner \in [Nodes -> Sensors \ {s}]
    BY <2>2
  <2> HIDE DEF owner
  <2>4. NumSensors - 1 < NumSensors
    BY MpesAssumption
  <2>5. \E m, n \in Nodes : m # n /\ owner[m] = owner[n]
    BY <1>2, <1>3, <2>3, <2>4, FS_PigeonHole
  <2> QED BY <2>2, <2>5
<1>5. Nodes \subseteq Nat
  BY MpesAssumption DEF Nodes
<1> QED BY <1>4, <1>5, LeastNumber DEF LowestFree

\* A thread that is through with an operation has the rest of them to do.
LEMMA DropRest ==
  ASSUME Typed, Queued, NEW t \in Threads, pc[t] \in Working \cup {"next"}, Drop(t)
  PROVE  /\ pc' \in [Threads -> Steps] /\ loc' \in [Threads -> Locals]
         /\ panel' \in [on : BOOLEAN, busy : BOOLEAN]
         /\ pc'[t] \in {"idle", "next"}
         /\ pc'[t] = "next" <=> loc'[t].todo # <<>>
         /\ loc'[t].todo = Tail(loc[t].todo)
         /\ \A u \in Threads \ {t} : pc'[u] = pc[u] /\ loc'[u] = loc[u]
<1> DEFINE rest == Tail(loc[t].todo)
<1>1. rest \in Seq(Jobs)
  BY NowTyped
<1>2. CASE rest = <<>>
  <2>1. loc' = [loc EXCEPT ![t] = NoLocals] /\ pc' = [pc EXCEPT ![t] = "idle"]
        /\ panel' \in {[on |-> TRUE, busy |-> FALSE], panel}
    BY <1>2 DEF Drop, At
  <2>2. panel' \in [on : BOOLEAN, busy : BOOLEAN]
    <3>1. [on |-> TRUE, busy |-> FALSE] \in [on : BOOLEAN, busy : BOOLEAN]
      OBVIOUS
    <3>2. panel' = [on |-> TRUE, busy |-> FALSE] \/ panel' = panel
      BY <2>1
    <3> QED BY <3>1, <3>2, Zenon DEF Typed
  <2>3. NoLocals \in Locals /\ NoLocals.todo = rest
    BY <1>2, ConstantsTyped
  <2> HIDE DEF rest
  <2>4. pc' \in [Threads -> Steps] /\ loc' \in [Threads -> Locals]
        /\ pc'[t] = "idle" /\ loc'[t] = NoLocals
        /\ \A u \in Threads \ {t} : pc'[u] = pc[u] /\ loc'[u] = loc[u]
    BY <2>1, <2>3 DEF Typed, Steps
  <2> QED BY <1>2, <2>2, <2>3, <2>4 DEF rest
<1>3. CASE rest # <<>>
  <2> DEFINE l == [NoLocals EXCEPT !.method = loc[t].method, !.todo = rest]
  <2>1. loc' = [loc EXCEPT ![t] = l] /\ pc' = [pc EXCEPT ![t] = "next"]
        /\ panel' = panel
    BY <1>3 DEF Drop, At
  <2>2. l \in Locals /\ l.todo = rest
    <3>1. NoLocals \in Locals /\ loc[t] \in Locals
      BY ConstantsTyped DEF Typed
    <3> HIDE DEF rest
    <3> QED BY <1>1, <3>1 DEF Locals
  <2> HIDE DEF l
  <2> QED BY <1>3, <2>1, <2>2 DEF Typed, Steps
<1> QED BY <1>2, <1>3

LEMMA ShotsTyped ==
  ASSUME Typed, Queued, NEW t \in Threads, NEW s \in Sensors, NEW c \in Sensors,
         NEW x \in Shots(t, s, c)
  PROVE  x \in Readings
<1> DEFINE full == Intensity(t, device[s].exposure)
<1>1. full \in Nat /\ loc[t].scene.shape \in Shapes
  <2>1. loc[t].scene.gain \in Nat /\ loc[t].scene.shape \in Shapes
    BY DEF Typed, Locals
  <2>2. device[s].exposure \in Nat
    BY ConstantsTyped DEF Typed, Devices, Limits
  <2> QED BY <2>1, <2>2 DEF Intensity
<1> HIDE DEF full
<1>2. x \in {Reading("measured", c, full, loc[t].scene.shape), None(s),
             Reading("failed", c, -2, "even")}
      \/ \E k \in 1 .. Images - 1 :
           x = Reading("mixed", c, (k * full - 2) \div (k + 1), loc[t].scene.shape)
  BY DEF Shots, full
<1>3. ASSUME NEW k \in 1 .. Images - 1
      PROVE  (k * full - 2) \div (k + 1) \in Int
  <2>1. k * full - 2 \in Int /\ k + 1 \in Nat \ {0}
    BY <1>1, MpesAssumption
  <2> HIDE DEF full
  <2> QED BY <2>1
<1>4. None(s) \in Readings /\ "even" \in Shapes
  BY ConstantsTyped DEF Shapes
<1>5. ASSUME NEW kind \in {"measured", "failed", "mixed"}, NEW i \in Int,
             NEW shape \in Shapes
      PROVE  Reading(kind, c, i, shape) \in Readings
  BY DEF Reading, Readings
<1> QED BY <1>1, <1>2, <1>3, <1>4, <1>5

LEMMA CapturesTyped ==
  ASSUME Typed, Queued, NEW t \in Threads, NEW s \in Sensors, NEW x \in Captures(t, s)
  PROVE  x.shot \in Readings /\ x.shown \in Readings
<1>1. CASE CamerasOf(s) = {}
  <2>1. x = [shot |-> device[s].shot,
             shown |-> IF device[s].shot.kind = "none" THEN Failed(s)
                       ELSE [device[s].shot EXCEPT !.kind = "stale"]]
    BY <1>1 DEF Captures
  <2>2. device[s].shot \in Readings /\ Failed(s) \in Readings
    BY ConstantsTyped DEF Typed, Devices
  <2>3. [device[s].shot EXCEPT !.kind = "stale"] \in Readings
    BY <2>2 DEF Readings
  <2> QED BY <2>1, <2>2, <2>3
<1>2. CASE CamerasOf(s) # {}
  <2>1. PICK c \in Sensors : \E y \in Shots(t, s, c) :
          x = [shot |-> y,
               shown |-> IF y.kind = "none" THEN Failed(s) ELSE y]
    BY <1>2 DEF Captures, CamerasOf
  <2>2. PICK y \in Shots(t, s, c) :
          x = [shot |-> y,
               shown |-> IF y.kind = "none" THEN Failed(s) ELSE y]
    BY <2>1
  <2>3. y \in Readings /\ Failed(s) \in Readings
    BY ShotsTyped, ConstantsTyped
  <2> QED BY <2>2, <2>3
<1> QED BY <1>1, <1>2

LEMMA ErrorsTyped ==
  /\ \A p : ReadingErrors(p) \subseteq 0 .. 7
  /\ \A i, next : ExposureErrors(i, next) \subseteq 0 .. 7
<1>1. ASSUME NEW p PROVE ReadingErrors(p) \subseteq 0 .. 7
  BY DEF ReadingErrors
<1>2. ASSUME NEW i, NEW next PROVE ExposureErrors(i, next) \subseteq 0 .. 7
  BY DEF ExposureErrors
<1> QED BY <1>1, <1>2

-----------------------------------------------------------------------------
(* What holds for all constants, and which steps keep it *)

\* A step of one thread that is in a method.
LEMMA AloneKept ==
  ASSUME Typed, StartAlone, NEW t \in Threads, pc[t] # "idle",
         \A u \in Threads \ {t} : pc'[u] = pc[u]
  PROVE  StartAlone'
BY MpesAssumption DEF StartAlone, Threads

LEMMA LockedKept ==
  ASSUME Locked, busy' = busy,
         \A u \in Threads : pc'[u] \in Working <=> pc[u] \in Working,
         \A u \in Threads : pc[u] \in Working => loc'[u].todo = loc[u].todo
  PROVE  Locked'
BY DEF Locked, Worker, Now

\* Ports are switched off, and nobody begins to toggle one.
LEMMA CamerasKept ==
  ASSUME Typed, Cameras, node' \in [Sensors -> Nodes \cup {NoNode}],
         \A s \in Sensors : node'[s] \in {node[s], NoNode},
         \A u \in Threads : pc'[u] = "enable" =>
           pc[u] = "enable" /\ loc'[u].todo = loc[u].todo /\ Now(u) \in Sensors
  PROVE  Cameras'
BY DEF Cameras, Now

LEMMA FinishSound ==
  ASSUME Sound, NEW t \in Threads, pc[t] \in Working, Finish(t)
  PROVE  /\ pc' \in [Threads -> Steps] /\ loc' \in [Threads -> Locals]
         /\ panel' \in [on : BOOLEAN, busy : BOOLEAN]
         /\ busy' \in [Sensors -> BOOLEAN]
         /\ Queued' /\ Locked' /\ StartAlone'
         /\ pc'[t] \in {"idle", "next"}
         /\ loc'[t].todo = Tail(loc[t].todo)
         /\ \A u \in Threads \ {t} : pc'[u] = pc[u] /\ loc'[u] = loc[u]
<1>1. Typed /\ Queued /\ Locked /\ StartAlone /\ Now(t) \in Sensors
  BY NowTyped DEF Sound
<1>2. Drop(t) /\ busy' = [busy EXCEPT ![Now(t)] = FALSE]
  BY DEF Finish
<1>3. /\ pc' \in [Threads -> Steps] /\ loc' \in [Threads -> Locals]
      /\ panel' \in [on : BOOLEAN, busy : BOOLEAN]
      /\ pc'[t] \in {"idle", "next"}
      /\ pc'[t] = "next" <=> loc'[t].todo # <<>>
      /\ loc'[t].todo = Tail(loc[t].todo)
      /\ \A u \in Threads \ {t} : pc'[u] = pc[u] /\ loc'[u] = loc[u]
  BY <1>1, <1>2, DropRest
<1>4. pc'[t] \notin Working
  BY <1>3 DEF Working, Toggling
<1>5. Queued'
  BY <1>1, <1>3, <1>4 DEF Queued
<1>6. StartAlone'
  BY <1>1, <1>3, AloneKept DEF Working, Toggling
<1>7. Locked'
  <2>1. \A u \in Threads, s \in Sensors :
          Worker(u, s)' <=> u # t /\ Worker(u, s)
    BY <1>3, <1>4 DEF Worker, Now
  <2>2. Worker(t, Now(t)) /\ \A s \in Sensors : Worker(t, s) => s = Now(t)
    BY DEF Worker
  <2>3. /\ busy'[Now(t)] = FALSE
        /\ \A s \in Sensors \ {Now(t)} : busy'[s] = busy[s]
    BY <1>1, <1>2 DEF Typed
  <2>4. ASSUME NEW s \in Sensors, busy'[s]
        PROVE  \E u \in Threads : Worker(u, s)'
    <3>1. s # Now(t) /\ busy[s]
      BY <2>3, <2>4
    <3>2. PICK u \in Threads : Worker(u, s)
      BY <1>1, <3>1 DEF Locked
    <3> QED BY <2>1, <2>2, <3>1, <3>2
  <2>5. ASSUME NEW u \in Threads, NEW s \in Sensors, Worker(u, s)'
        PROVE  busy'[s]
    <3>1. u # t /\ Worker(u, s)
      BY <2>1, <2>5
    <3>2. s # Now(t) /\ busy[s]
      BY <1>1, <2>2, <3>1 DEF Locked
    <3> QED BY <2>3, <3>2
  <2>6. ASSUME NEW u \in Threads, NEW v \in Threads, NEW s \in Sensors,
               Worker(u, s)', Worker(v, s)'
        PROVE  u = v
    BY <1>1, <2>1, <2>6 DEF Locked
  <2> QED BY <2>4, <2>5, <2>6 DEF Locked
<1>8. busy' \in [Sensors -> BOOLEAN]
  BY <1>1, <1>2 DEF Typed
<1> QED BY <1>3, <1>5, <1>6, <1>7, <1>8

\* An operation ends: what it has left in the sensor has the right type.
LEMMA EndSound ==
  ASSUME Sound, NEW t \in Threads, pc[t] \in Working, Finish(t),
         usb' \in [Sensors -> BOOLEAN],
         node' \in [Sensors -> Nodes \cup {NoNode}],
         \A s \in Sensors : node'[s] \in {node[s], NoNode},
         device' \in [Sensors -> Devices], position' \in [Sensors -> Readings],
         errors' \in [Sensors -> SUBSET (0 .. 7)], UNCHANGED dismissed
  PROVE  Sound'
<1>1. Typed /\ Queued /\ Cameras
  BY DEF Sound
<1>2. /\ pc' \in [Threads -> Steps] /\ loc' \in [Threads -> Locals]
      /\ panel' \in [on : BOOLEAN, busy : BOOLEAN]
      /\ busy' \in [Sensors -> BOOLEAN]
      /\ Queued' /\ Locked' /\ StartAlone'
      /\ pc'[t] \in {"idle", "next"}
      /\ \A u \in Threads \ {t} : pc'[u] = pc[u] /\ loc'[u] = loc[u]
  BY FinishSound
<1>3. Typed'
  BY <1>1, <1>2 DEF Typed
<1>4. ASSUME NEW u \in Threads, pc'[u] = "enable"
      PROVE  pc[u] = "enable" /\ loc'[u].todo = loc[u].todo /\ Now(u) \in Sensors
  BY <1>1, <1>2, <1>4, NowTyped DEF Working, Toggling
<1>5. Cameras'
  BY <1>1, <1>4, CamerasKept
<1> QED BY <1>2, <1>3, <1>5 DEF Sound

LEMMA RefuseSound ==
  ASSUME Sound, NEW t \in Threads, Refuse(t)
  PROVE  Sound'
<1>1. Typed /\ Queued /\ Locked /\ StartAlone /\ Cameras /\ pc[t] = "next" /\ Drop(t)
  BY DEF Sound, Refuse
<1>2. UNCHANGED <<usb, node, busy, device, position, errors, dismissed>>
  BY DEF Refuse, hardware, sensor
<1>3. /\ pc' \in [Threads -> Steps] /\ loc' \in [Threads -> Locals]
      /\ panel' \in [on : BOOLEAN, busy : BOOLEAN]
      /\ pc'[t] \in {"idle", "next"}
      /\ pc'[t] = "next" <=> loc'[t].todo # <<>>
      /\ \A u \in Threads \ {t} : pc'[u] = pc[u] /\ loc'[u] = loc[u]
  BY <1>1, DropRest
<1>4. Typed'
  BY <1>1, <1>2, <1>3 DEF Typed
<1>5. Queued'
  BY <1>1, <1>3 DEF Queued, Working, Toggling
<1>6. StartAlone'
  BY <1>1, <1>3, AloneKept
<1>7. Locked'
  <2>1. pc[t] \notin Working /\ pc'[t] \notin Working
    BY <1>1, <1>3 DEF Working, Toggling
  <2> QED BY <1>1, <1>2, <1>3, <2>1, LockedKept
<1>8. Cameras'
  <2>1. ASSUME NEW u \in Threads, pc'[u] = "enable"
        PROVE  pc[u] = "enable" /\ loc'[u].todo = loc[u].todo /\ Now(u) \in Sensors
    BY <1>1, <1>3, <2>1, NowTyped DEF Working, Toggling
  <2> QED BY <1>1, <1>2, <2>1, CamerasKept DEF Typed
<1> QED BY <1>4, <1>5, <1>6, <1>7, <1>8 DEF Sound

LEMMA FirstStepTyped ==
  ASSUME NEW op \in Ops
  PROVE  FirstStep(op) \in {"disable", "expose", "capture", "shut"}
BY DEF FirstStep, Ops

LEMMA LockSound ==
  ASSUME Sound, NEW t \in Threads, Lock(t)
  PROVE  Sound'
<1>1. Typed /\ Queued /\ Locked /\ StartAlone /\ Cameras /\ pc[t] = "next"
  BY DEF Sound, Lock
<1> DEFINE s == Now(t)
           first == FirstStep(Doing(t))
<1>2. s \in Sensors /\ first \in {"disable", "expose", "capture", "shut"}
  BY <1>1, NowTyped, FirstStepTyped
<1>3. PICK x \in Scenes[s] :
        loc' = [loc EXCEPT ![t].extreme = TRUE, ![t].scene = x]
  BY DEF Lock
<1>4. /\ ~busy[s] /\ busy' = [busy EXCEPT ![s] = TRUE]
      /\ pc' = [pc EXCEPT ![t] = first]
      /\ UNCHANGED <<usb, node, panel, device, position, errors, dismissed>>
  BY DEF Lock, At, hardware
<1> HIDE DEF first
<1>5. x \in [gain : Nat, shape : Shapes]
  BY <1>2, MpesAssumption DEF Shapes
<1>6. /\ loc' \in [Threads -> Locals]
      /\ \A u \in Threads : loc'[u].todo = loc[u].todo
      /\ pc' \in [Threads -> Steps] /\ pc'[t] = first
      /\ \A u \in Threads \ {t} : pc'[u] = pc[u]
  <2>1. pc' \in [Threads -> Steps] /\ pc'[t] = first
        /\ \A u \in Threads \ {t} : pc'[u] = pc[u]
    BY <1>1, <1>2, <1>4 DEF Typed, Steps, Working, Toggling
  <2>2. loc \in [Threads -> Locals]
    BY <1>1 DEF Typed
  <2>3. [loc[t] EXCEPT !.extreme = TRUE, !.scene = x] \in Locals
    BY <1>5, <2>2 DEF Locals
  <2>4. loc' = [loc EXCEPT ![t] = [loc[t] EXCEPT !.extreme = TRUE, !.scene = x]]
    BY <1>3, <2>2
  <2>5. loc[t] \in Locals
    BY <2>2
  <2>6. [loc[t] EXCEPT !.extreme = TRUE, !.scene = x].todo = loc[t].todo
    BY <2>5 DEF Locals
  <2>7. loc' \in [Threads -> Locals]
    BY <2>2, <2>3, <2>4
  <2>8. \A u \in Threads : loc'[u].todo = loc[u].todo
    BY <2>2, <2>4, <2>6
  <2> QED BY <2>1, <2>7, <2>8
<1>7. busy' \in [Sensors -> BOOLEAN] /\ busy'[s]
      /\ \A y \in Sensors \ {s} : busy'[y] = busy[y]
  BY <1>1, <1>2, <1>4 DEF Typed
<1>8. Typed'
  BY <1>1, <1>4, <1>6, <1>7 DEF Typed
<1>9. Queued' /\ StartAlone'
  <2>1. first \in Working
    BY <1>2 DEF Working, Toggling
  <2> QED BY <1>1, <1>6, <2>1, AloneKept DEF Queued
<1>10. Locked'
  <2>1. first \in Working /\ pc[t] \notin Working
    BY <1>1, <1>2 DEF Working, Toggling
  <2>2. \A u \in Threads, y \in Sensors :
          Worker(u, y)' <=> Worker(u, y) \/ (u = t /\ y = s)
    BY <1>6, <2>1 DEF Worker, Now
  <2>3. \A u \in Threads : ~Worker(u, s)
    BY <1>1, <1>2, <1>4 DEF Locked
  <2> HIDE DEF s
  <2>4. \A y \in Sensors : busy'[y] => \E u \in Threads : Worker(u, y)'
    BY <1>1, <1>7, <2>2 DEF Locked
  <2>5. \A u \in Threads, y \in Sensors : Worker(u, y)' => busy'[y]
    BY <1>1, <1>7, <2>2 DEF Locked
  <2>6. \A u, v \in Threads, y \in Sensors : Worker(u, y)' /\ Worker(v, y)' => u = v
    BY <1>1, <2>2, <2>3 DEF Locked
  <2> QED BY <2>4, <2>5, <2>6 DEF Locked
<1>11. Cameras'
  <2>1. ASSUME NEW u \in Threads, pc'[u] = "enable"
        PROVE  pc[u] = "enable" /\ loc'[u].todo = loc[u].todo /\ Now(u) \in Sensors
    BY <1>1, <1>2, <1>6, <2>1, NowTyped DEF Working, Toggling
  <2> QED BY <1>1, <1>4, <2>1, CamerasKept DEF Typed
<1> QED BY <1>8, <1>9, <1>10, <1>11 DEF Sound

\* A thread goes on with the operation it is at.
LEMMA GoOnSound ==
  ASSUME Typed, Queued, Locked, StartAlone, NEW t \in Threads, pc[t] \in Working,
         NEW next \in Working, pc' = [pc EXCEPT ![t] = next],
         loc' \in [Threads -> Locals],
         \A u \in Threads : loc'[u].todo = loc[u].todo,
         busy' = busy
  PROVE  /\ pc' \in [Threads -> Steps] /\ pc'[t] = next
         /\ \A u \in Threads \ {t} : pc'[u] = pc[u]
         /\ Queued' /\ StartAlone' /\ Locked'
<1>1. pc' \in [Threads -> Steps] /\ pc'[t] = next
      /\ \A u \in Threads \ {t} : pc'[u] = pc[u]
  BY DEF Typed, Steps
<1>2. Queued'
  BY <1>1 DEF Queued
<1>3. StartAlone'
  BY <1>1, AloneKept DEF Working, Toggling
<1>4. Locked'
  BY <1>1, LockedKept
<1> QED BY <1>1, <1>2, <1>3, <1>4

LEMMA DisableSound ==
  ASSUME Sound, NEW t \in Threads, Disable(t)
  PROVE  Sound'
<1>1. Typed /\ Queued /\ Locked /\ StartAlone /\ Cameras /\ pc[t] = "disable"
  BY DEF Sound, Disable
<1> DEFINE s == Now(t)
           l == [loc[t] EXCEPT !.old = Used \ {node[s]}]
<1>2. s \in Sensors /\ pc[t] \in Working /\ "enable" \in Working
  BY <1>1, NowTyped DEF Working, Toggling
<1>3. /\ errors' = [errors EXCEPT ![s] = {}]
      /\ usb' = [usb EXCEPT ![s] = FALSE]
      /\ node' = [node EXCEPT ![s] = NoNode]
      /\ dismissed' = [dismissed EXCEPT ![s] = FALSE]
      /\ pc' = [pc EXCEPT ![t] = "enable"]
      /\ loc' = [loc EXCEPT ![t].old = Used \ {node[s]}]
      /\ UNCHANGED <<panel, busy, device, position>>
  BY DEF Disable, At
<1> HIDE DEF s
<1>4. loc \in [Threads -> Locals] /\ Used \in SUBSET Nodes
  BY <1>1 DEF Typed, Used
<1>5. loc' = [loc EXCEPT ![t] = l]
  BY <1>3, <1>4
<1>6. l \in Locals /\ l.todo = loc[t].todo
  <2>1. loc[t] \in Locals
    BY <1>4
  <2> QED BY <1>4, <2>1 DEF Locals
<1> HIDE DEF l
<1>7. loc' \in [Threads -> Locals] /\ \A u \in Threads : loc'[u].todo = loc[u].todo
  BY <1>4, <1>5, <1>6
<1>8. /\ pc' \in [Threads -> Steps] /\ pc'[t] = "enable"
      /\ \A u \in Threads \ {t} : pc'[u] = pc[u]
      /\ Queued' /\ StartAlone' /\ Locked'
  BY <1>1, <1>2, <1>3, <1>7, GoOnSound
<1>9. Typed'
  <2>1. usb' \in [Sensors -> BOOLEAN] /\ dismissed' \in [Sensors -> BOOLEAN]
        /\ errors' \in [Sensors -> SUBSET (0 .. 7)]
        /\ node' \in [Sensors -> Nodes \cup {NoNode}]
    BY <1>1, <1>2, <1>3 DEF Typed
  <2> QED BY <1>1, <1>3, <1>7, <1>8, <2>1 DEF Typed
<1>10. Cameras'
  <2>1. node'[s] = NoNode /\ \A x \in Sensors \ {s} : node'[x] = node[x]
    BY <1>1, <1>2, <1>3 DEF Typed
  <2>2. ASSUME NEW u \in Threads, pc'[u] = "enable"
        PROVE  node'[loc'[u].todo[1].s] = NoNode
    <3>1. loc'[u].todo[1].s = Now(u)
      BY <1>7 DEF Now
    <3>2. CASE u = t
      BY <2>1, <3>1, <3>2 DEF s
    <3>3. CASE u # t
      <4>1. pc[u] = "enable" /\ Now(u) \in Sensors
        BY <1>1, <1>8, <2>2, <3>3, NowTyped DEF Working, Toggling
      <4> QED BY <1>1, <2>1, <3>1, <4>1 DEF Cameras
    <3> QED BY <3>2, <3>3
  <2>3. \A x, y \in Sensors : node'[x] # NoNode /\ node'[x] = node'[y] => x = y
    BY <1>1, <2>1 DEF Cameras
  <2> QED BY <2>2, <2>3 DEF Cameras, Now
<1> QED BY <1>8, <1>9, <1>10 DEF Sound

LEMMA EnableSound ==
  ASSUME Sound, NEW t \in Threads, Enable(t)
  PROVE  Sound'
<1>1. Typed /\ Queued /\ Locked /\ StartAlone /\ Cameras /\ pc[t] = "enable"
  BY DEF Sound, Enable
<1> DEFINE s == Now(t)
<1>2. s \in Sensors /\ pc[t] \in Working /\ "find" \in Working
  BY <1>1, NowTyped DEF Working, Toggling
<1>3. /\ usb' = [usb EXCEPT ![s] = TRUE]
      /\ pc' = [pc EXCEPT ![t] = "find"]
      /\ UNCHANGED <<panel, busy, device, position, errors, loc, dismissed>>
  BY DEF Enable, At, sensor
<1>4. PICK n : n \in {LowestFree, NoNode} /\ node' = [node EXCEPT ![s] = n]
  BY DEF Enable
<1>5. node[s] = NoNode
  BY <1>1 DEF Cameras
<1>6. n \in Nodes \ Used \/ n = NoNode
  BY <1>1, <1>2, <1>4, <1>5, FreeNode
<1> HIDE DEF s
<1>7. /\ pc' \in [Threads -> Steps] /\ pc'[t] = "find"
      /\ \A u \in Threads \ {t} : pc'[u] = pc[u]
      /\ Queued' /\ StartAlone' /\ Locked'
  BY <1>1, <1>2, <1>3, GoOnSound DEF Typed
<1>8. Typed'
  BY <1>1, <1>2, <1>3, <1>4, <1>6, <1>7 DEF Typed
<1>9. Cameras'
  <2>1. node'[s] = n /\ \A x \in Sensors \ {s} : node'[x] = node[x]
    BY <1>1, <1>2, <1>4 DEF Typed
  <2>2. ASSUME NEW u \in Threads, pc'[u] = "enable"
        PROVE  node'[Now(u)] = NoNode
    <3>1. u # t /\ pc[u] = "enable"
      BY <1>7, <2>2
    <3>2. Now(u) \in Sensors /\ pc[u] \in Working
      BY <1>1, <3>1, NowTyped DEF Working, Toggling
    <3>3. Now(u) # s
      BY <1>1, <1>2, <3>1, <3>2 DEF Locked, Worker, s
    <3> QED BY <1>1, <2>1, <3>1, <3>2, <3>3 DEF Cameras
  <2>3. \A x \in Sensors : node[x] # NoNode => node[x] \in Used
    BY DEF Used
  <2>4. \A x, y \in Sensors : node'[x] # NoNode /\ node'[x] = node'[y] => x = y
    BY <1>1, <1>6, <2>1, <2>3 DEF Cameras
  <2> QED BY <1>3, <2>2, <2>4 DEF Cameras, Now
<1> QED BY <1>7, <1>8, <1>9 DEF Sound

\* The two ends of Find.
Finds(t) ==
  LET toggled == Used \ loc[t].old IN
  /\ Cardinality(toggled) = 1
  /\ device' = [device EXCEPT ![Now(t)] =
       [NoDevice(Now(t)) EXCEPT !.id = CHOOSE n \in toggled : TRUE]]
  /\ IF Doing(t) = "turnOn"
     THEN At(t, "expose") /\ UNCHANGED <<panel, busy, loc>>
     ELSE Finish(t)
  /\ UNCHANGED errors
FindsNot(t) ==
  /\ Cardinality(Used \ loc[t].old) # 1
  /\ errors' = [errors EXCEPT ![Now(t)] = @ \cup {0}]
  /\ Finish(t)
  /\ UNCHANGED device

LEMMA FindEnds ==
  ASSUME NEW t \in Threads, Find(t)
  PROVE  /\ pc[t] = "find" /\ UNCHANGED <<usb, node, position, dismissed>>
         /\ Finds(t) \/ FindsNot(t)
BY DEF Find, Finds, FindsNot, hardware

LEMMA FindsDevice ==
  ASSUME Typed, NEW t \in Threads, Now(t) \in Sensors, Finds(t)
  PROVE  \E n \in Used \ loc[t].old :
           /\ Used \ loc[t].old = {n} /\ n \in Nodes
           /\ device' \in [Sensors -> Devices]
           /\ device'[Now(t)] = [NoDevice(Now(t)) EXCEPT !.id = n]
           /\ \A x \in Sensors \ {Now(t)} : device'[x] = device[x]
<1> DEFINE toggled == Used \ loc[t].old
           n == CHOOSE n \in toggled : TRUE
           s == Now(t)
<1>1. IsFiniteSet(Nodes) /\ toggled \in SUBSET Nodes
  <2>1. IsFiniteSet(Nodes)
    BY FS_Interval, MpesAssumption DEF Nodes
  <2> QED BY <2>1 DEF Typed, Used
<1>2. IsFiniteSet(toggled) /\ Cardinality(toggled) = 1
  BY <1>1, FS_Subset DEF Finds
<1> HIDE DEF toggled
<1>3. \E x : toggled = {x}
  BY <1>2, FS_Singleton
<1>4. toggled = {n} /\ n \in Nodes
  BY <1>1, <1>3
<1>5. device' = [device EXCEPT ![s] = [NoDevice(s) EXCEPT !.id = n]]
  BY DEF Finds, toggled
<1> HIDE DEF n
<1>6. NoDevice(s) \in Devices
  BY ConstantsTyped
<1>7. [NoDevice(s) EXCEPT !.id = n] \in Devices
  BY <1>4, <1>6 DEF Devices
<1> HIDE DEF s
<1>8. /\ device' \in [Sensors -> Devices]
      /\ device'[s] = [NoDevice(s) EXCEPT !.id = n]
      /\ \A x \in Sensors \ {s} : device'[x] = device[x]
  BY <1>5, <1>7 DEF Typed, s
<1> QED BY <1>4, <1>8 DEF toggled, s

LEMMA FindSound ==
  ASSUME Sound, NEW t \in Threads, Find(t)
  PROVE  Sound'
<1>1. Typed /\ Queued /\ Locked /\ StartAlone /\ Cameras /\ pc[t] = "find"
      /\ UNCHANGED <<usb, node, position, dismissed>>
  BY FindEnds DEF Sound
<1>2. Now(t) \in Sensors /\ pc[t] \in Working /\ "expose" \in Working
  BY <1>1, NowTyped DEF Working, Toggling
<1>3. CASE Finds(t) /\ Doing(t) = "turnOn"
  <2>1. device' \in [Sensors -> Devices]
    BY <1>1, <1>2, <1>3, FindsDevice
  <2>2. pc' = [pc EXCEPT ![t] = "expose"] /\ UNCHANGED <<panel, busy, loc, errors>>
    BY <1>3 DEF Finds, At
  <2>3. /\ pc' \in [Threads -> Steps] /\ pc'[t] = "expose"
        /\ \A u \in Threads \ {t} : pc'[u] = pc[u]
        /\ Queued' /\ StartAlone' /\ Locked'
    BY <1>1, <1>2, <2>2, GoOnSound DEF Typed
  <2>4. Typed'
    BY <1>1, <2>1, <2>2, <2>3 DEF Typed
  <2>5. Cameras'
    BY <1>1, <2>2, <2>3 DEF Cameras, Now
  <2> QED BY <2>3, <2>4, <2>5 DEF Sound
<1>4. CASE Finds(t) /\ Doing(t) # "turnOn"
  <2>1. device' \in [Sensors -> Devices]
    BY <1>1, <1>2, <1>4, FindsDevice
  <2>2. Finish(t) /\ UNCHANGED errors
    BY <1>4 DEF Finds
  <2> QED BY <1>1, <1>2, <2>1, <2>2, EndSound DEF Typed
<1>5. CASE FindsNot(t)
  <2>1. Finish(t) /\ UNCHANGED device /\ errors' \in [Sensors -> SUBSET (0 .. 7)]
    BY <1>1, <1>2, <1>5 DEF FindsNot, Typed
  <2> QED BY <1>1, <1>2, <2>1, EndSound DEF Typed
<1> QED BY <1>3, <1>4, <1>5, FindEnds

LEMMA GiveUpSound ==
  ASSUME Sound, NEW t \in Threads, GiveUp(t)
  PROVE  Sound'
<1>1. Typed /\ Queued /\ pc[t] = "expose" /\ Finish(t)
      /\ UNCHANGED <<usb, node, device, position, dismissed>>
  BY DEF Sound, GiveUp, hardware
<1>2. Now(t) \in Sensors /\ pc[t] \in Working
  BY <1>1, NowTyped DEF Working, Toggling
<1>3. errors' \in [Sensors -> SUBSET (0 .. 7)]
  BY <1>1, <1>2 DEF GiveUp, Typed
<1> QED BY <1>1, <1>2, <1>3, EndSound DEF Typed

\* What a pass or a reading leaves in the sensor.
LEMMA LeftTyped ==
  ASSUME Typed, Queued, NEW t \in Threads, NEW s \in Sensors, NEW x \in Captures(t, s),
         NEW e \in Limits, NEW errs \in SUBSET (0 .. 7),
         position' = [position EXCEPT ![s] = x.shown],
         \/ device' = [device EXCEPT ![s].shot = x.shot, ![s].exposure = e]
         \/ device' = [device EXCEPT ![s].shot = x.shot],
         errors' = [errors EXCEPT ![s] = errs]
  PROVE  /\ device' \in [Sensors -> Devices] /\ position' \in [Sensors -> Readings]
         /\ errors' \in [Sensors -> SUBSET (0 .. 7)]
<1>1. x.shot \in Readings /\ x.shown \in Readings
  BY CapturesTyped
<1>2. position' \in [Sensors -> Readings] /\ errors' \in [Sensors -> SUBSET (0 .. 7)]
  BY <1>1 DEF Typed
<1>3. device \in [Sensors -> Devices] /\ device[s] \in Devices
  BY DEF Typed
<1>4. [device[s] EXCEPT !.shot = x.shot, !.exposure = e] \in Devices
      /\ [device[s] EXCEPT !.shot = x.shot] \in Devices
  BY <1>1, <1>3 DEF Devices
<1>5. device' = [device EXCEPT ![s] = [device[s] EXCEPT !.shot = x.shot, !.exposure = e]]
      \/ device' = [device EXCEPT ![s] = [device[s] EXCEPT !.shot = x.shot]]
  BY <1>3
<1>6. device' \in [Sensors -> Devices]
  BY <1>3, <1>4, <1>5
<1> QED BY <1>2, <1>6

LEMMA AdjustSound ==
  ASSUME Sound, NEW t \in Threads, Adjust(t)
  PROVE  Sound'
<1> DEFINE s == Now(t)
           exposure == device[s].exposure
           Next1(x) == NextExposure(x.shown.intensity, exposure, loc[t].extreme)
<1>1. Typed /\ Queued /\ Locked /\ StartAlone /\ Cameras /\ pc[t] = "expose"
      /\ UNCHANGED <<usb, node, panel, busy, pc, dismissed>>
  BY DEF Sound, Adjust, Measures, hardware
<1>2. s \in Sensors /\ pc[t] \in Working /\ pc' = [pc EXCEPT ![t] = "expose"]
  BY <1>1, NowTyped DEF Working, Toggling, Typed
<1>3. PICK x \in Captures(t, s) :
        /\ LoopsOn(x.shown.intensity, Next1(x))
        /\ position' = [position EXCEPT ![s] = x.shown]
        /\ device' = [device EXCEPT ![s].shot = x.shot, ![s].exposure = Next1(x)]
        /\ errors' = [errors EXCEPT ![s] = (@ \ {4, 5, 6}) \cup ReadingErrors(x.shown)]
        /\ loc' = [loc EXCEPT ![t].extreme =
             @ /\ ~ExtremelyDim(x.shown.intensity, exposure)
               /\ ~ExtremelyLight(x.shown.intensity, exposure)]
  BY DEF Adjust
<1> DEFINE next == Next1(x)
           more == /\ loc[t].extreme
                   /\ ~ExtremelyDim(x.shown.intensity, exposure)
                   /\ ~ExtremelyLight(x.shown.intensity, exposure)
           errs == (errors[s] \ {4, 5, 6}) \cup ReadingErrors(x.shown)
<1>4. next \in Limits
  BY <1>3 DEF LoopsOn
<1>5. errs \in SUBSET (0 .. 7) /\ errors' = [errors EXCEPT ![s] = errs]
  BY <1>1, <1>2, <1>3, ErrorsTyped DEF Typed
<1>6. device' = [device EXCEPT ![s].shot = x.shot, ![s].exposure = next]
      /\ position' = [position EXCEPT ![s] = x.shown]
      /\ loc' = [loc EXCEPT ![t].extreme = more]
  BY <1>1, <1>3 DEF Typed
<1>7. more \in BOOLEAN
  OBVIOUS
<1> HIDE DEF next, more, errs, s
<1>8. /\ device' \in [Sensors -> Devices] /\ position' \in [Sensors -> Readings]
      /\ errors' \in [Sensors -> SUBSET (0 .. 7)]
  BY <1>1, <1>2, <1>4, <1>5, <1>6, LeftTyped
<1>9. loc' \in [Threads -> Locals] /\ \A u \in Threads : loc'[u].todo = loc[u].todo
  <2>1. loc \in [Threads -> Locals] /\ loc[t] \in Locals
    BY <1>1 DEF Typed
  <2>2. [loc[t] EXCEPT !.extreme = more] \in Locals
        /\ [loc[t] EXCEPT !.extreme = more].todo = loc[t].todo
    BY <1>7, <2>1 DEF Locals
  <2>3. loc' = [loc EXCEPT ![t] = [loc[t] EXCEPT !.extreme = more]]
    BY <1>6, <2>1
  <2> QED BY <2>1, <2>2, <2>3
<1>10. /\ pc' \in [Threads -> Steps] /\ Queued' /\ StartAlone' /\ Locked'
  <2>1. "expose" \in Working
    BY DEF Working
  <2> QED BY <1>1, <1>2, <1>9, <2>1, GoOnSound
<1>11. Typed'
  BY <1>1, <1>8, <1>9, <1>10 DEF Typed
<1>12. Cameras'
  BY <1>1, <1>9 DEF Cameras, Now
<1> QED BY <1>10, <1>11, <1>12 DEF Sound

LEMMA ConcludeSound ==
  ASSUME Sound, NEW t \in Threads, Conclude(t)
  PROVE  Sound'
<1> DEFINE s == Now(t)
           exposure == device[s].exposure
           Next1(x) == NextExposure(x.shown.intensity, exposure, loc[t].extreme)
<1>1. Typed /\ Queued /\ pc[t] = "expose" /\ UNCHANGED <<usb, node, dismissed>>
  BY DEF Sound, Conclude, Measures, hardware
<1>2. s \in Sensors /\ pc[t] \in Working
  BY <1>1, NowTyped DEF Working, Toggling
<1>3. PICK x \in Captures(t, s) :
        /\ position' = [position EXCEPT ![s] = x.shown]
        /\ device' = [device EXCEPT ![s].shot = x.shot,
                                   ![s].exposure = ExposureLeft(exposure, Next1(x))]
        /\ errors' = [errors EXCEPT ![s] =
             (@ \ {4, 5, 6}) \cup ReadingErrors(x.shown)
               \cup ExposureErrors(x.shown.intensity, Next1(x))]
        /\ Finish(t)
  BY DEF Conclude
<1> DEFINE left == ExposureLeft(exposure, Next1(x))
           errs == (errors[s] \ {4, 5, 6}) \cup ReadingErrors(x.shown)
                     \cup ExposureErrors(x.shown.intensity, Next1(x))
<1>4. left \in Limits
  BY <1>1, <1>2 DEF ExposureLeft, Typed, Devices
<1>5. errs \in SUBSET (0 .. 7) /\ errors' = [errors EXCEPT ![s] = errs]
  BY <1>1, <1>2, <1>3, ErrorsTyped DEF Typed
<1>6. device' = [device EXCEPT ![s].shot = x.shot, ![s].exposure = left]
      /\ position' = [position EXCEPT ![s] = x.shown]
  BY <1>3
<1> HIDE DEF left, errs, s
<1>7. /\ device' \in [Sensors -> Devices] /\ position' \in [Sensors -> Readings]
      /\ errors' \in [Sensors -> SUBSET (0 .. 7)]
  BY <1>1, <1>2, <1>4, <1>5, <1>6, LeftTyped
<1> QED BY <1>1, <1>2, <1>3, <1>7, EndSound DEF Typed

LEMMA ReadCameraSound ==
  ASSUME Sound, NEW t \in Threads, ReadCamera(t)
  PROVE  Sound'
<1> DEFINE s == Now(t)
<1>1. Typed /\ Queued /\ pc[t] = "capture" /\ Finish(t)
      /\ UNCHANGED <<usb, node, dismissed>>
  BY DEF Sound, ReadCamera, hardware
<1>2. s \in Sensors /\ pc[t] \in Working
  BY <1>1, NowTyped DEF Working, Toggling
<1>3. PICK x \in Captures(t, s) :
        /\ device' = [device EXCEPT ![s].shot = x.shot]
        /\ position' = [position EXCEPT ![s] = x.shown]
        /\ errors' = [errors EXCEPT ![s] = @ \cup ReadingErrors(x.shown)]
  BY DEF ReadCamera
<1> DEFINE errs == errors[s] \cup ReadingErrors(x.shown)
<1>4. errs \in SUBSET (0 .. 7) /\ errors' = [errors EXCEPT ![s] = errs]
  BY <1>1, <1>2, <1>3, ErrorsTyped DEF Typed
<1> HIDE DEF errs, s
<1>5. /\ device' \in [Sensors -> Devices] /\ position' \in [Sensors -> Readings]
      /\ errors' \in [Sensors -> SUBSET (0 .. 7)]
  BY <1>1, <1>2, <1>3, <1>4, LeftTyped, ConstantsTyped
<1> QED BY <1>1, <1>2, <1>5, EndSound DEF Typed

LEMMA ShutSound ==
  ASSUME Sound, NEW t \in Threads, Shut(t)
  PROVE  Sound'
<1>1. Typed /\ Queued /\ pc[t] = "shut" /\ Finish(t)
      /\ UNCHANGED <<device, position, errors, dismissed>>
  BY DEF Sound, Shut
<1>2. Now(t) \in Sensors /\ pc[t] \in Working
  BY <1>1, NowTyped DEF Working, Toggling
<1>3. /\ usb' \in [Sensors -> BOOLEAN]
      /\ node' \in [Sensors -> Nodes \cup {NoNode}]
      /\ \A s \in Sensors : node'[s] \in {node[s], NoNode}
  BY <1>1, <1>2 DEF Shut, Typed
<1> QED BY <1>1, <1>2, <1>3, EndSound DEF Typed

LEMMA CrashSound ==
  ASSUME Sound, NEW t \in Threads, Crash(t)
  PROVE  Sound'
<1>1. Typed /\ Cameras
  BY DEF Sound
<1>2. /\ pc' = [u \in Threads |-> IF u = Main THEN "down" ELSE "idle"]
      /\ loc' = [u \in Threads |-> NoLocals]
      /\ panel' = [on |-> TRUE, busy |-> FALSE]
      /\ busy' = [s \in Sensors |-> FALSE]
      /\ device' = [s \in Sensors |-> NoDevice(s)]
      /\ position' = [s \in Sensors |-> Unread(s)]
      /\ errors' = [s \in Sensors |-> {}]
      /\ dismissed' = [s \in Sensors |-> FALSE]
      /\ UNCHANGED <<usb, node>>
  BY DEF Crash, hardware
<1>3. Typed'
  <2>1. pc' \in [Threads -> Steps] /\ loc' \in [Threads -> Locals]
        /\ device' \in [Sensors -> Devices] /\ position' \in [Sensors -> Readings]
    BY <1>2, ConstantsTyped DEF Steps
  <2>2. /\ panel' \in [on : BOOLEAN, busy : BOOLEAN]
        /\ busy' \in [Sensors -> BOOLEAN]
        /\ errors' \in [Sensors -> SUBSET (0 .. 7)]
        /\ dismissed' \in [Sensors -> BOOLEAN]
    BY <1>2
  <2> QED BY <1>1, <1>2, <2>1, <2>2 DEF Typed
<1>4. \A u \in Threads : pc'[u] \notin Working \cup {"next"}
  BY <1>2 DEF Working, Toggling
<1>5. Queued' /\ Locked'
  BY <1>2, <1>4, ConstantsTyped DEF Queued, Locked, Worker
<1>6. StartAlone'
  BY <1>2, MpesAssumption DEF StartAlone, Threads
<1>7. Cameras'
  BY <1>1, <1>2, <1>4 DEF Cameras, Working, Toggling
<1> QED BY <1>3, <1>5, <1>6, <1>7 DEF Sound

\* A method begins.
LEMMA BeginsTyped ==
  ASSUME Typed, NEW t \in Threads,
         NEW method \in SensorMethods \cup PanelMethods \cup {"idle", "Start"},
         NEW todo \in Seq(Jobs), Begins(t, method, todo)
  PROVE  /\ pc' \in [Threads -> Steps] /\ loc' \in [Threads -> Locals]
         /\ pc'[t] = "next" /\ loc'[t].todo = todo
         /\ \A u \in Threads \ {t} : pc'[u] = pc[u] /\ loc'[u] = loc[u]
<1> DEFINE l == [NoLocals EXCEPT !.method = method, !.todo = todo]
<1>1. l \in Locals /\ l.todo = todo
  <2>1. NoLocals \in Locals
    BY ConstantsTyped
  <2> QED BY <2>1 DEF Locals
<1>2. loc' = [loc EXCEPT ![t] = l] /\ pc' = [pc EXCEPT ![t] = "next"]
  BY DEF Begins, At
<1> HIDE DEF l
<1> QED BY <1>1, <1>2 DEF Typed, Steps

LEMMA BeginsSound ==
  ASSUME Sound, NEW t \in Threads, pc[t] = IF t = Main THEN "down" ELSE "idle",
         NEW method \in SensorMethods \cup PanelMethods \cup {"idle", "Start"},
         NEW todo \in Seq(Jobs), todo # <<>>, Begins(t, method, todo),
         t = Main \/ pc[Main] = "idle",
         usb' \in [Sensors -> BOOLEAN],
         node' \in [Sensors -> Nodes \cup {NoNode}],
         \A s \in Sensors : node'[s] \in {node[s], NoNode},
         panel' \in [on : BOOLEAN, busy : BOOLEAN],
         UNCHANGED <<busy, device, position, errors, dismissed>>
  PROVE  Sound'
<1>1. Typed /\ Queued /\ Locked /\ StartAlone /\ Cameras
  BY DEF Sound
<1>2. /\ pc' \in [Threads -> Steps] /\ loc' \in [Threads -> Locals]
      /\ pc'[t] = "next" /\ loc'[t].todo = todo
      /\ \A u \in Threads \ {t} : pc'[u] = pc[u] /\ loc'[u] = loc[u]
  BY <1>1, BeginsTyped
<1>3. Typed'
  BY <1>1, <1>2 DEF Typed
<1>4. Queued'
  BY <1>1, <1>2 DEF Queued
<1>5. StartAlone'
  <2>1. CASE t = Main
    BY <1>1, <1>2, <2>1, MpesAssumption DEF StartAlone, Threads
  <2>2. CASE t # Main
    BY <1>2, <2>2 DEF StartAlone, Threads
  <2> QED BY <2>1, <2>2
<1>6. Locked'
  BY <1>1, <1>2, LockedKept DEF Working, Toggling
<1>7. Cameras'
  <2>1. ASSUME NEW u \in Threads, pc'[u] = "enable"
        PROVE  pc[u] = "enable" /\ loc'[u].todo = loc[u].todo /\ Now(u) \in Sensors
    BY <1>1, <1>2, <2>1, NowTyped DEF Working, Toggling
  <2> QED BY <1>1, <2>1, CamerasKept
<1> QED BY <1>3, <1>4, <1>5, <1>6, <1>7 DEF Sound

LEMMA ForEachTyped ==
  ASSUME NEW name \in Ops
  PROVE  /\ ForEach(name) \in Seq(Jobs) /\ ForEach(name) # <<>>
         /\ Len(ForEach(name)) = NumSensors
         /\ \A s \in Sensors : ForEach(name)[s] = Op(name, s)
<1>1. ForEach(name) \in [1 .. NumSensors -> Jobs]
  BY DEF ForEach, Op, Jobs, Sensors
<1>2. ForEach(name) \in Seq(Jobs) /\ Len(ForEach(name)) = NumSensors
  BY <1>1, MpesAssumption
<1>3. ForEach(name) # <<>>
  BY <1>2, MpesAssumption
<1> QED BY <1>2, <1>3 DEF ForEach

LEMMA OperationsTyped ==
  ASSUME NEW method \in SensorMethods, NEW s \in Sensors
  PROVE  Operations(method, s) \in Seq(Jobs) /\ Operations(method, s) # <<>>
<1>1. \A name \in Ops : Op(name, s) \in Jobs
  BY DEF Op, Jobs
<1>2. {"turnOn", "turnOff", "readjust", "updatePosition", "setExposure"} \subseteq Ops
  BY DEF Ops
<1> HIDE DEF Jobs, Ops
<1>3. \A a, b \in Jobs : <<a>> \in Seq(Jobs) /\ <<a, b>> \in Seq(Jobs)
                          /\ <<a>> # <<>> /\ <<a, b>> # <<>>
  OBVIOUS
<1> QED BY <1>1, <1>2, <1>3 DEF Operations, SensorMethods

LEMMA StartSound ==
  ASSUME Sound, Start
  PROVE  Sound'
<1> DEFINE todo == ForEach("initialize") \o ForEach("readjust")
<1>1. todo \in Seq(Jobs) /\ todo # <<>>
  <2>1. /\ ForEach("initialize") \in Seq(Jobs) /\ ForEach("initialize") # <<>>
        /\ ForEach("readjust") \in Seq(Jobs)
    BY ForEachTyped DEF Ops
  <2> HIDE DEF Jobs
  <2> QED BY <2>1
<1>2. /\ pc[Main] = "down" /\ Begins(Main, "Start", todo)
      /\ usb' = [s \in Sensors |-> FALSE] /\ node' = [s \in Sensors |-> NoNode]
      /\ UNCHANGED <<panel, busy, device, position, errors, dismissed>>
  BY DEF Start, sensor
<1> HIDE DEF todo
<1>3. /\ usb' \in [Sensors -> BOOLEAN] /\ node' \in [Sensors -> Nodes \cup {NoNode}]
      /\ \A s \in Sensors : node'[s] \in {node[s], NoNode}
      /\ panel' \in [on : BOOLEAN, busy : BOOLEAN]
  BY <1>2 DEF Sound, Typed
<1> QED BY <1>1, <1>2, <1>3, BeginsSound, ConstantsTyped

LEMMA CallSound ==
  ASSUME Sound, NEW c \in Callers, Call(c)
  PROVE  Sound'
<1>1. PICK method \in SensorMethods, s \in Sensors :
        Ready(c, method, s) /\ Begins(c, method, Operations(method, s))
  BY DEF Call
<1>2. c \in Threads /\ c # Main /\ pc[Main] = "idle" /\ pc[c] = "idle"
  BY <1>1, MpesAssumption DEF Ready, Threads
<1>3. UNCHANGED <<usb, node, panel, busy, device, position, errors, dismissed>>
  BY DEF Call, hardware, sensor
<1>4. Operations(method, s) \in Seq(Jobs) /\ Operations(method, s) # <<>>
  BY OperationsTyped
<1> QED BY <1>1, <1>2, <1>3, <1>4, BeginsSound DEF Sound, Typed

LEMMA PanelTurnOnSound ==
  ASSUME Sound, NEW c \in Callers, PanelTurnOn(c)
  PROVE  Sound'
<1>1. /\ Ready(c, "PanelTurnOn", PanelItself)
      /\ Begins(c, "PanelTurnOn", ForEach("turnOn"))
      /\ panel' = [panel EXCEPT !.busy = TRUE]
      /\ UNCHANGED <<usb, node, busy, device, position, errors, dismissed>>
  BY DEF PanelTurnOn, hardware, sensor
<1>2. c \in Threads /\ c # Main /\ pc[Main] = "idle" /\ pc[c] = "idle"
  BY <1>1, MpesAssumption DEF Ready, Threads
<1>3. ForEach("turnOn") \in Seq(Jobs) /\ ForEach("turnOn") # <<>>
  BY ForEachTyped DEF Ops
<1>4. panel' \in [on : BOOLEAN, busy : BOOLEAN]
  BY <1>1 DEF Sound, Typed
<1>5. "PanelTurnOn" \in PanelMethods
  BY DEF PanelMethods
<1> QED BY <1>1, <1>2, <1>3, <1>4, <1>5, BeginsSound DEF Sound, Typed

LEMMA ClearErrorsSound ==
  ASSUME Sound, NEW c \in Callers, ClearErrors(c)
  PROVE  Sound'
<1>1. UNCHANGED <<usb, node, panel, busy, device, position, pc, loc>>
  BY DEF ClearErrors, hardware
<1>2. PICK s \in Sensors :
        /\ \E cleared : errors' = [errors EXCEPT ![s] = @ \ cleared]
        /\ dismissed' = [dismissed EXCEPT ![s] = TRUE]
  BY DEF ClearErrors
<1>3. errors' \in [Sensors -> SUBSET (0 .. 7)] /\ dismissed' \in [Sensors -> BOOLEAN]
  BY <1>2 DEF Sound, Typed
<1> QED
  BY <1>1, <1>3 DEF Sound, Typed, Queued, Locked, Worker, StartAlone, Cameras, Now

LEMMA PanelTurnOffSound ==
  ASSUME Sound, NEW c \in Callers, PanelTurnOff(c)
  PROVE  Sound'
<1>1. /\ usb' = [s \in Sensors |-> FALSE] /\ node' = [s \in Sensors |-> NoNode]
      /\ panel' = [panel EXCEPT !.on = FALSE]
      /\ UNCHANGED <<busy, device, position, errors, pc, loc, dismissed>>
  BY DEF PanelTurnOff, sensor
<1>2. Typed'
  <2>1. panel' \in [on : BOOLEAN, busy : BOOLEAN]
    BY <1>1 DEF Sound, Typed
  <2> QED BY <1>1, <2>1 DEF Sound, Typed
<1>3. Queued' /\ Locked' /\ StartAlone'
  BY <1>1 DEF Sound, Queued, Locked, Worker, StartAlone, Now
<1>4. Cameras'
  <2>1. ASSUME NEW u \in Threads, pc'[u] = "enable"
        PROVE  pc[u] = "enable" /\ loc'[u].todo = loc[u].todo /\ Now(u) \in Sensors
    BY <1>1, <2>1, NowTyped DEF Sound, Working, Toggling
  <2>2. \A s \in Sensors : node'[s] \in {node[s], NoNode}
    BY <1>1
  <2> QED BY <1>2, <2>1, <2>2, CamerasKept DEF Sound, Typed
<1> QED BY <1>2, <1>3, <1>4 DEF Sound

-----------------------------------------------------------------------------
(* The types, for all constants *)

LEMMA InitSound == Init => Sound
<1> SUFFICES ASSUME Init PROVE Sound
  OBVIOUS
<1>1. Typed
  <2>1. pc \in [Threads -> Steps] /\ loc \in [Threads -> Locals]
        /\ device \in [Sensors -> Devices] /\ position \in [Sensors -> Readings]
    BY ConstantsTyped DEF Init, Steps
  <2>2. /\ panel \in [on : BOOLEAN, busy : BOOLEAN]
        /\ busy \in [Sensors -> BOOLEAN] /\ usb \in [Sensors -> BOOLEAN]
        /\ node \in [Sensors -> Nodes \cup {NoNode}]
        /\ errors \in [Sensors -> SUBSET (0 .. 7)]
        /\ dismissed \in [Sensors -> BOOLEAN]
    BY DEF Init
  <2> QED BY <2>1, <2>2 DEF Typed
<1>2. \A u \in Threads : pc[u] \notin Working \cup {"next"}
  BY DEF Init, Working, Toggling
<1>3. Queued /\ Locked
  BY <1>2, ConstantsTyped DEF Init, Queued, Locked, Worker
<1>4. StartAlone
  BY MpesAssumption DEF Init, StartAlone, Threads
<1>5. Cameras
  BY <1>2 DEF Init, Cameras, Working, Toggling
<1> QED BY <1>1, <1>3, <1>4, <1>5 DEF Sound

LEMMA NextSound == Sound /\ [Next]_vars => Sound'
<1> SUFFICES ASSUME Sound, [Next]_vars PROVE Sound'
  OBVIOUS
<1>1. CASE Start
  BY <1>1, StartSound
<1>2. ASSUME NEW t \in Threads, Step(t) PROVE Sound'
  BY <1>2, RefuseSound, LockSound, DisableSound, EnableSound, FindSound, GiveUpSound,
     AdjustSound, ConcludeSound, ReadCameraSound, ShutSound, CrashSound
  DEF Step, Initializing, Exposing
<1>3. ASSUME NEW c \in Callers, Calls(c) PROVE Sound'
  BY <1>3, CallSound, ClearErrorsSound, PanelTurnOnSound, PanelTurnOffSound DEF Calls
<1>4. CASE UNCHANGED vars
  BY <1>4 DEF vars, hardware, sensor, Sound, Typed, Queued, Locked, Worker,
     StartAlone, Cameras, Now
<1> QED BY <1>1, <1>2, <1>3, <1>4 DEF Next

\* A busy sensor is worked at by one thread, no two cameras have one number,
\* and nothing is served before the server has started.
THEOREM SpecSound == Spec => []Sound
<1>1. Init => Sound
  BY InitSound
<1>2. Sound /\ [Next]_vars => Sound'
  BY NextSound
<1> QED BY <1>1, <1>2, PTL DEF Spec

LEMMA SoundTypes == Sound => MpesTypeOK
<1> SUFFICES ASSUME Sound PROVE MpesTypeOK
  OBVIOUS
<1>1. Typed
  BY DEF Sound
<1>2. ASSUME NEW s \in Sensors
      PROVE  /\ device[s].id \in Nodes \cup {NoNode} /\ device[s].exposure \in Limits
             /\ position[s].intensity \in Int /\ errors[s] \subseteq 0 .. 7
  BY <1>1 DEF Typed, Devices, Readings
<1> QED BY <1>1, <1>2 DEF Typed, MpesTypeOK, Steps

\* Every variable of the sensors has its type, whoever calls and whatever the
\* cameras do; the number a camera comes up with is always one of the board's
\* (MPES::__initialize).
THEOREM MpesTypes == Spec => []MpesTypeOK
<1>1. Sound => MpesTypeOK
  BY SoundTypes
<1> QED BY <1>1, SpecSound, PTL

-----------------------------------------------------------------------------
(* What a thread has still to do in its method *)

\* A caller with a method that switches sensors on.
Switches(c) == \E call \in CallsOf[c] : call[1] \in {"TurnOn", "PanelTurnOn"}

\* A port is toggled by initialize, which only the start of the server calls,
\* and which has a readjustment of the sensor to follow, or by turnOn.
TodoOf(t) ==
  \A i \in DOMAIN loc[t].todo :
    /\ loc[t].todo[i].op = "initialize" =>
         t = Main /\ \E j \in DOMAIN loc[t].todo :
                       j > i /\ loc[t].todo[j] = Op("readjust", loc[t].todo[i].s)
    /\ loc[t].todo[i].op = "turnOn" => t \in Callers /\ Switches(t)
Sequel ==
  \A t \in Threads : /\ pc[t] \in Toggling => Doing(t) \in {"initialize", "turnOn"}
                     /\ TodoOf(t)

\* Threads wait until no other toggles a port, or only one caller has methods
\* that do.
OneSwitches == Overlap => \A c, d \in Callers : Switches(c) /\ Switches(d) => c = d

LEMMA TodoShrinks ==
  ASSUME NEW t \in Threads, TodoOf(t),
         loc[t].todo \in Seq(Jobs), loc[t].todo # <<>>,
         loc'[t].todo = Tail(loc[t].todo)
  PROVE  TodoOf(t)'
<1> DEFINE q == loc[t].todo
<1>1. /\ Len(q) \in Nat \ {0} /\ DOMAIN q = 1 .. Len(q)
      /\ DOMAIN Tail(q) = 1 .. Len(q) - 1
      /\ \A i \in 1 .. Len(q) - 1 : Tail(q)[i] = q[i + 1]
  <2>1. q \in Seq(Jobs) /\ q # <<>>
    OBVIOUS
  <2> HIDE DEF q, Jobs
  <2> QED BY <2>1
<1> SUFFICES ASSUME NEW i \in 1 .. Len(q) - 1
             PROVE  /\ Tail(q)[i].op = "initialize" =>
                         t = Main /\ \E j \in DOMAIN Tail(q) :
                           j > i /\ Tail(q)[j] = Op("readjust", Tail(q)[i].s)
                    /\ Tail(q)[i].op = "turnOn" => t \in Callers /\ Switches(t)
  BY <1>1 DEF TodoOf, Switches
<1>2. i + 1 \in DOMAIN q /\ Tail(q)[i] = q[i + 1]
  BY <1>1
<1>3. Tail(q)[i].op = "turnOn" => t \in Callers /\ Switches(t)
  BY <1>2 DEF TodoOf
<1>4. ASSUME Tail(q)[i].op = "initialize"
      PROVE  t = Main /\ \E j \in DOMAIN Tail(q) :
               j > i /\ Tail(q)[j] = Op("readjust", Tail(q)[i].s)
  <2>1. t = Main /\ \E j \in DOMAIN q : j > i + 1 /\ q[j] = Op("readjust", q[i + 1].s)
    BY <1>2, <1>4 DEF TodoOf
  <2>2. PICK j \in DOMAIN q : j > i + 1 /\ q[j] = Op("readjust", q[i + 1].s)
    BY <2>1
  <2> HIDE DEF q
  <2>3. j - 1 \in 1 .. Len(q) - 1 /\ j - 1 > i /\ (j - 1) + 1 = j
    BY <1>1, <2>2
  <2>4. Tail(q)[j - 1] = q[j]
    BY <1>1, <2>3
  <2> QED BY <1>1, <1>2, <2>1, <2>2, <2>3, <2>4
<1> QED BY <1>3, <1>4

\* A thread goes on as it was, or drops its operation.
LEMMA SequelKept ==
  ASSUME Sequel,
         \A u \in Threads :
           \/ /\ loc'[u].todo = loc[u].todo
              /\ pc'[u] \in Toggling => pc[u] \in Toggling
           \/ /\ loc[u].todo \in Seq(Jobs) /\ loc[u].todo # <<>>
              /\ loc'[u].todo = Tail(loc[u].todo)
              /\ pc'[u] \notin Toggling
  PROVE  Sequel'
<1> SUFFICES ASSUME NEW u \in Threads
             PROVE  /\ pc'[u] \in Toggling =>
                         loc'[u].todo[1].op \in {"initialize", "turnOn"}
                    /\ TodoOf(u)'
  BY DEF Sequel, Doing
<1>1. CASE loc'[u].todo = loc[u].todo /\ (pc'[u] \in Toggling => pc[u] \in Toggling)
  BY <1>1 DEF Sequel, Doing, TodoOf, Switches
<1>2. CASE /\ loc[u].todo \in Seq(Jobs) /\ loc[u].todo # <<>>
           /\ loc'[u].todo = Tail(loc[u].todo) /\ pc'[u] \notin Toggling
  BY <1>2, TodoShrinks DEF Sequel
<1> QED BY <1>1, <1>2

LEMMA FinishSequel ==
  ASSUME Sound, Sequel, NEW t \in Threads, pc[t] \in Working, Finish(t)
  PROVE  Sequel'
<1>1. /\ pc'[t] \in {"idle", "next"} /\ loc'[t].todo = Tail(loc[t].todo)
      /\ \A u \in Threads \ {t} : pc'[u] = pc[u] /\ loc'[u] = loc[u]
  BY FinishSound
<1>2. loc[t].todo \in Seq(Jobs) /\ loc[t].todo # <<>>
  BY NowTyped DEF Sound
<1>3. pc'[t] \notin Toggling
  BY <1>1 DEF Toggling
<1> QED BY <1>1, <1>2, <1>3, SequelKept

\* What a thread leaves alone when it locks a sensor.
LEMMA LockLeaves ==
  ASSUME Sound, NEW t \in Threads, Lock(t)
  PROVE  /\ pc[t] = "next" /\ pc'[t] = FirstStep(Doing(t))
         /\ FirstStep(Doing(t)) \in {"disable", "expose", "capture", "shut"}
         /\ \A u \in Threads \ {t} : pc'[u] = pc[u] /\ loc'[u] = loc[u]
         /\ loc'[t].todo = loc[t].todo
         /\ UNCHANGED <<usb, node, device, position, errors, dismissed>>
<1>1. Typed /\ Queued /\ pc[t] = "next"
  BY DEF Sound, Lock
<1>2. FirstStep(Doing(t)) \in {"disable", "expose", "capture", "shut"}
  BY <1>1, NowTyped, FirstStepTyped
<1>3. \E x : loc' = [loc EXCEPT ![t].extreme = TRUE, ![t].scene = x]
  BY DEF Lock
<1>4. pc' = [pc EXCEPT ![t] = FirstStep(Doing(t))]
      /\ UNCHANGED <<usb, node, device, position, errors, dismissed>>
  BY DEF Lock, At, hardware
<1>5. \A u \in Threads \ {t} : loc'[u] = loc[u]
  BY <1>1, <1>3 DEF Typed
<1>6. loc'[t].todo = loc[t].todo
  <2>1. loc[t] \in Locals
    BY <1>1 DEF Typed
  <2> QED BY <1>1, <1>3, <2>1 DEF Typed, Locals
<1> QED BY <1>1, <1>2, <1>4, <1>5, <1>6 DEF Typed

LEMMA LockSequel ==
  ASSUME Sound, Sequel, NEW t \in Threads, Lock(t)
  PROVE  Sequel'
<1>1. /\ pc[t] = "next" /\ pc'[t] = FirstStep(Doing(t))
      /\ \A u \in Threads \ {t} : pc'[u] = pc[u] /\ loc'[u] = loc[u]
      /\ loc'[t].todo = loc[t].todo
  BY LockLeaves
<1>2. Doing(t) \in Ops
  BY <1>1, NowTyped DEF Sound
<1>3. FirstStep(Doing(t)) \in Toggling => Doing(t) \in {"initialize", "turnOn"}
  BY <1>2 DEF FirstStep, Ops, Toggling
<1>4. ASSUME NEW u \in Threads
      PROVE  /\ pc'[u] \in Toggling => loc'[u].todo[1].op \in {"initialize", "turnOn"}
             /\ TodoOf(u)'
  BY <1>1, <1>3 DEF Sequel, Doing, TodoOf, Switches
<1> QED BY <1>4 DEF Sequel, Doing

LEMMA BeginsSequel ==
  ASSUME Sound, Sequel, NEW t \in Threads,
         NEW method \in SensorMethods \cup PanelMethods \cup {"idle", "Start"},
         NEW todo \in Seq(Jobs), Begins(t, method, todo),
         \A i \in DOMAIN todo :
           /\ todo[i].op = "initialize" =>
                t = Main /\ \E j \in DOMAIN todo :
                              j > i /\ todo[j] = Op("readjust", todo[i].s)
           /\ todo[i].op = "turnOn" => t \in Callers /\ Switches(t)
  PROVE  Sequel'
<1>1. /\ pc'[t] = "next" /\ loc'[t].todo = todo
      /\ \A u \in Threads \ {t} : pc'[u] = pc[u] /\ loc'[u] = loc[u]
  BY BeginsTyped DEF Sound
<1>2. ASSUME NEW u \in Threads
      PROVE  /\ pc'[u] \in Toggling => loc'[u].todo[1].op \in {"initialize", "turnOn"}
             /\ TodoOf(u)'
  <2>1. CASE u = t
    BY <1>1, <2>1 DEF TodoOf, Switches, Toggling
  <2>2. CASE u # t
    BY <1>1, <2>2 DEF Sequel, Doing, TodoOf, Switches
  <2> QED BY <2>1, <2>2
<1> QED BY <1>2 DEF Sequel, Doing

LEMMA StartSequel ==
  ASSUME Sound, Sequel, Start
  PROVE  Sequel'
<1> DEFINE a == ForEach("initialize")
           b == ForEach("readjust")
           todo == a \o b
<1>1. /\ a \in Seq(Jobs) /\ b \in Seq(Jobs) /\ Len(a) = NumSensors /\ Len(b) = NumSensors
      /\ \A s \in Sensors : a[s] = Op("initialize", s) /\ b[s] = Op("readjust", s)
  BY ForEachTyped DEF Ops
<1>2. Begins(Main, "Start", todo)
  BY DEF Start
<1> HIDE DEF a, b, Jobs
<1>3. /\ todo \in Seq(Jobs) /\ Len(todo) = NumSensors + NumSensors
      /\ DOMAIN todo = 1 .. (NumSensors + NumSensors)
      /\ \A i \in 1 .. (NumSensors + NumSensors) :
           todo[i] = IF i <= NumSensors THEN a[i] ELSE b[i - NumSensors]
  <2>1. /\ todo \in Seq(Jobs) /\ Len(todo) = Len(a) + Len(b)
        /\ \A i \in 1 .. Len(a) + Len(b) :
             todo[i] = IF i <= Len(a) THEN a[i] ELSE b[i - Len(a)]
    BY <1>1, ConcatProperties
  <2> HIDE DEF todo
  <2> QED BY <1>1, <2>1
<1> HIDE DEF todo
<1>4. \A i \in 1 .. NumSensors : todo[i] = a[i] /\ todo[i + NumSensors] = b[i]
  BY <1>3, MpesAssumption
<1>5. \A i \in 1 .. NumSensors :
        /\ todo[i] = Op("initialize", i)
        /\ todo[i + NumSensors] = Op("readjust", i)
  BY <1>1, <1>4 DEF Sensors
<1>6. ASSUME NEW i \in DOMAIN todo
      PROVE  /\ todo[i].op = "initialize" =>
                  \E j \in DOMAIN todo : j > i /\ todo[j] = Op("readjust", todo[i].s)
             /\ todo[i].op # "turnOn"
  <2>1. CASE i \in 1 .. NumSensors
    <3>1. i + NumSensors \in DOMAIN todo /\ i + NumSensors > i
      BY <1>3, <2>1, MpesAssumption
    <3>2. todo[i] = Op("initialize", i)
      BY <1>5, <2>1
    <3>3. todo[i].s = i /\ todo[i].op # "turnOn"
      <4>1. Op("initialize", i).s = i /\ Op("initialize", i).op # "turnOn"
        BY DEF Op
      <4> QED BY <3>2, <4>1
    <3> QED BY <1>5, <2>1, <3>1, <3>3
  <2>2. CASE i \notin 1 .. NumSensors
    <3>1. i \in 1 .. (NumSensors + NumSensors) /\ NumSensors \in Nat
      BY <1>3, MpesAssumption
    <3>2. i - NumSensors \in 1 .. NumSensors /\ (i - NumSensors) + NumSensors = i
      BY <2>2, <3>1
    <3>3. todo[i] = Op("readjust", i - NumSensors)
      BY <1>5, <3>2
    <3> QED BY <3>3 DEF Op
  <2> QED BY <2>1, <2>2
<1> QED BY <1>2, <1>3, <1>6, BeginsSequel, ConstantsTyped

LEMMA CallsSequel ==
  ASSUME Sound, Sequel, NEW c \in Callers, Calls(c)
  PROVE  Sequel'
<1>1. CASE Call(c)
  <2>1. PICK method \in SensorMethods, s \in Sensors :
          Ready(c, method, s) /\ Begins(c, method, Operations(method, s))
    BY <1>1 DEF Call
  <2> DEFINE todo == Operations(method, s)
  <2>2. todo \in Seq(Jobs)
    BY OperationsTyped
  <2>3. \A i \in DOMAIN todo : /\ todo[i].op # "initialize"
                               /\ todo[i].op = "turnOn" => method = "TurnOn"
    <3>1. CASE method = "TurnOn"
      <4>1. todo = <<Op("turnOn", s), Op("readjust", s)>>
        BY <3>1 DEF Operations
      <4> HIDE DEF todo
      <4> QED BY <3>1, <4>1 DEF Op
    <3>2. CASE method # "TurnOn"
      <4>1. PICK name \in {"turnOff", "updatePosition", "setExposure"} :
              todo = <<Op(name, s)>>
        BY <3>2 DEF Operations, SensorMethods
      <4> HIDE DEF todo
      <4> QED BY <4>1 DEF Op
    <3> QED BY <3>1, <3>2
  <2>4. method = "TurnOn" => Switches(c)
    BY <2>1 DEF Ready, Switches
  <2> HIDE DEF todo
  <2> QED BY <2>1, <2>2, <2>3, <2>4, BeginsSequel DEF Threads, todo
<1>2. CASE PanelTurnOn(c)
  <2> DEFINE todo == ForEach("turnOn")
  <2>1. Ready(c, "PanelTurnOn", PanelItself) /\ Begins(c, "PanelTurnOn", todo)
    BY <1>2 DEF PanelTurnOn
  <2>2. Switches(c)
    BY <2>1 DEF Ready, Switches
  <2>3. todo \in Seq(Jobs) /\ \A i \in DOMAIN todo : todo[i].op = "turnOn"
    BY ForEachTyped DEF Ops, ForEach, Op
  <2> HIDE DEF todo
  <2>4. "PanelTurnOn" \in PanelMethods
    BY DEF PanelMethods
  <2> QED BY <2>1, <2>2, <2>3, <2>4, BeginsSequel DEF Threads
<1>3. CASE PanelTurnOff(c) \/ ClearErrors(c)
  <2>1. UNCHANGED <<pc, loc>>
    BY <1>3 DEF PanelTurnOff, ClearErrors
  <2> QED BY <2>1, SequelKept
<1> QED BY <1>1, <1>2, <1>3 DEF Calls

LEMMA StepSequel ==
  ASSUME Sound, Sequel, NEW t \in Threads, Step(t)
  PROVE  Sequel'
<1>1. Typed /\ Queued
  BY DEF Sound
<1>2. CASE Refuse(t)
  <2>1. /\ pc'[t] \in {"idle", "next"} /\ loc'[t].todo = Tail(loc[t].todo)
        /\ \A u \in Threads \ {t} : pc'[u] = pc[u] /\ loc'[u] = loc[u]
    BY <1>1, <1>2, DropRest DEF Refuse
  <2>2. loc[t].todo \in Seq(Jobs) /\ loc[t].todo # <<>>
    BY <1>1, <1>2, NowTyped DEF Refuse
  <2>3. pc'[t] \notin Toggling
    BY <2>1 DEF Toggling
  <2> QED BY <2>1, <2>2, <2>3, SequelKept
<1>3. CASE Lock(t)
  BY <1>3, LockSequel
<1>4. CASE Disable(t) \/ Enable(t)
  <2>1. pc[t] \in Toggling
    BY <1>4 DEF Disable, Enable, Toggling
  <2>2. \A u \in Threads : loc'[u].todo = loc[u].todo
    <3>1. \A u \in Threads : loc[u] \in Locals
      BY <1>1 DEF Typed
    <3> QED BY <1>1, <1>4, <3>1 DEF Disable, Enable, Typed, Locals
  <2>3. \A u \in Threads \ {t} : pc'[u] = pc[u]
    BY <1>1, <1>4 DEF Disable, Enable, At, Typed
  <2> QED BY <2>1, <2>2, <2>3, SequelKept
<1>5. CASE Adjust(t)
  <2>1. UNCHANGED pc
    BY <1>5 DEF Adjust
  <2>2. \A u \in Threads : loc'[u].todo = loc[u].todo
    <3>1. \A u \in Threads : loc[u] \in Locals
      BY <1>1 DEF Typed
    <3>2. \E x : loc' = [loc EXCEPT ![t].extreme = x]
      BY <1>5, Zenon DEF Adjust
    <3> QED BY <1>1, <3>1, <3>2 DEF Typed, Locals
  <2> QED BY <2>1, <2>2, SequelKept
<1>6. CASE Find(t)
  <2>1. pc[t] \in Working
    BY <1>6 DEF Find, Working, Toggling
  <2>2. CASE Finish(t)
    BY <2>1, <2>2, FinishSequel
  <2>3. CASE ~Finish(t)
    <3>1. At(t, "expose") /\ UNCHANGED loc
      BY <1>6, <2>3, FindEnds DEF Finds, FindsNot
    <3>2. \A u \in Threads : pc'[u] \in Toggling => pc[u] \in Toggling
      BY <1>1, <3>1 DEF At, Typed, Toggling
    <3> QED BY <3>1, <3>2, SequelKept
  <2> QED BY <2>2, <2>3
<1>7. CASE GiveUp(t) \/ Conclude(t) \/ ReadCamera(t) \/ Shut(t)
  BY <1>7, FinishSequel DEF GiveUp, Conclude, ReadCamera, Shut, Measures, Working
<1>8. CASE Crash(t)
  <2>1. \A u \in Threads : loc'[u].todo = <<>> /\ pc'[u] \notin Toggling
    BY <1>8, ConstantsTyped DEF Crash, Toggling
  <2> QED BY <2>1 DEF Sequel, TodoOf
<1> QED BY <1>2, <1>3, <1>4, <1>5, <1>6, <1>7, <1>8 DEF Step, Initializing, Exposing

LEMMA InitSequel == Init => Sequel
<1> SUFFICES ASSUME Init PROVE Sequel
  OBVIOUS
<1>1. \A u \in Threads : loc[u].todo = <<>> /\ pc[u] \notin Toggling
  BY ConstantsTyped DEF Init, Toggling
<1> QED BY <1>1 DEF Sequel, TodoOf

LEMMA NextSequel == Sound /\ Sequel /\ [Next]_vars => Sequel'
<1> SUFFICES ASSUME Sound, Sequel, [Next]_vars PROVE Sequel'
  OBVIOUS
<1>1. CASE UNCHANGED vars
  BY <1>1, SequelKept DEF vars
<1> QED BY <1>1, StartSequel, StepSequel, CallsSequel DEF Next

-----------------------------------------------------------------------------
(* One thread at a time toggles a port *)

\* The video devices that a thread has seen before it switched its port on are
\* all there are but its own.
Toggles ==
  /\ \A t, u \in Threads : pc[t] \in Toggling /\ pc[u] \in Toggling => t = u
  /\ \A t \in Threads : pc[t] \in {"enable", "find"} =>
       \A x \in Sensors \ {Now(t)} : node[x] \in loc[t].old \cup {NoNode}

\* No thread is at one of these steps with the sensor.
Settled(s, steps) == \A t \in Threads : ~(pc[t] \in steps /\ Now(t) = s)

\* OwnCamera, also while the sensor is worked at.
Knows(s) ==
  pc[Main] # "down" /\ usb[s] /\ ~dismissed[s] /\ 0 \notin errors[s]
    /\ Settled(s, Toggling)
    => device[s].id # NoNode /\ node[s] = device[s].id
Known == Toggles /\ \A s \in Sensors : Knows(s)

LEMMA TogglesKept ==
  ASSUME Toggles, \A s \in Sensors : node'[s] \in {node[s], NoNode},
         \A u \in Threads : pc'[u] \in Toggling => pc'[u] = pc[u] /\ loc'[u] = loc[u]
  PROVE  Toggles'
<1>1. "enable" \in Toggling /\ "find" \in Toggling
  BY DEF Toggling
<1>2. \A t, u \in Threads : pc'[t] \in Toggling /\ pc'[u] \in Toggling => t = u
  BY DEF Toggles
<1>3. ASSUME NEW t \in Threads, pc'[t] \in {"enable", "find"}, NEW x \in Sensors,
             x # loc'[t].todo[1].s
      PROVE  node'[x] \in loc'[t].old \cup {NoNode}
  BY <1>1, <1>3 DEF Toggles, Now
<1> QED BY <1>2, <1>3 DEF Toggles, Now

LEMMA KnowsKept ==
  ASSUME NEW s \in Sensors, Knows(s),
         pc'[Main] # "down" => pc[Main] # "down",
         usb'[s] => usb[s] /\ node'[s] = node[s],
         dismissed[s] => dismissed'[s], 0 \in errors[s] => 0 \in errors'[s],
         device'[s].id = device[s].id,
         \A u \in Threads : pc[u] \in Toggling /\ Now(u) = s =>
           pc'[u] \in Toggling /\ loc'[u].todo = loc[u].todo
  PROVE  Knows(s)'
<1>1. Settled(s, Toggling)' => Settled(s, Toggling)
  BY DEF Settled, Now
<1> QED BY <1>1 DEF Knows

\* A thread steps that neither toggles a port nor begins to.
LEMMA KnownKept ==
  ASSUME Sound, Known, NEW t \in Threads,
         pc[t] \notin Toggling \cup {"down"}, pc'[t] \notin Toggling \cup {"down"},
         \A u \in Threads \ {t} : pc'[u] = pc[u] /\ loc'[u] = loc[u],
         \A s \in Sensors : node'[s] \in {node[s], NoNode},
         \A s \in Sensors : usb'[s] => usb[s] /\ node'[s] = node[s],
         \A s \in Sensors : dismissed[s] => dismissed'[s],
         \A s \in Sensors : 0 \in errors[s] => 0 \in errors'[s],
         \A s \in Sensors : device'[s].id = device[s].id
  PROVE  Known'
<1>1. \A u \in Threads : pc'[u] \in Toggling => pc'[u] = pc[u] /\ loc'[u] = loc[u]
  OBVIOUS
<1>2. Toggles'
  BY <1>1, TogglesKept DEF Known
<1>3. ASSUME NEW s \in Sensors
      PROVE  Knows(s)'
  <2>1. pc'[Main] # "down" => pc[Main] # "down"
    BY DEF Threads
  <2>2. \A u \in Threads : pc[u] \in Toggling /\ Now(u) = s =>
          pc'[u] \in Toggling /\ loc'[u].todo = loc[u].todo
    OBVIOUS
  <2> QED BY <2>1, <2>2, KnowsKept DEF Known
<1> QED BY <1>2, <1>3 DEF Known

LEMMA RefuseKnown ==
  ASSUME Sound, Known, NEW t \in Threads, Refuse(t)
  PROVE  Known'
<1>1. Typed /\ Queued /\ pc[t] = "next" /\ Drop(t)
      /\ UNCHANGED <<usb, node, busy, device, position, errors, dismissed>>
  BY DEF Sound, Refuse, hardware, sensor
<1>2. /\ pc'[t] \in {"idle", "next"}
      /\ \A u \in Threads \ {t} : pc'[u] = pc[u] /\ loc'[u] = loc[u]
  BY <1>1, DropRest
<1> QED BY <1>1, <1>2, KnownKept DEF Toggling

LEMMA LockKnown ==
  ASSUME Sound, Sequel, Known, OneSwitches, NEW t \in Threads, Lock(t)
  PROVE  Known'
<1>1. /\ pc[t] = "next" /\ pc'[t] \in {"disable", "expose", "capture", "shut"}
      /\ \A u \in Threads \ {t} : pc'[u] = pc[u] /\ loc'[u] = loc[u]
      /\ UNCHANGED <<usb, node, device, position, errors, dismissed>>
  BY LockLeaves
<1>2. CASE pc'[t] = "disable"
  <2>1. \A u \in Threads : pc[u] \notin Toggling
    <3>1. CASE Overlap
      <4> SUFFICES ASSUME NEW u \in Threads, pc[u] \in Toggling PROVE FALSE
        OBVIOUS
      <4>1. u # t /\ pc[u] # "idle" /\ pc[t] # "idle"
        BY <1>1 DEF Toggling
      <4>2. u \in Callers /\ t \in Callers
        BY <4>1, MpesAssumption DEF Sound, StartAlone, Threads
      <4>3. Doing(u) \in {"initialize", "turnOn"} /\ Doing(t) \in {"initialize", "turnOn"}
        <5>1. Doing(t) \in {"initialize", "turnOn"}
          <6>1. Doing(t) \in Ops /\ FirstStep(Doing(t)) = "disable"
            BY <1>1, <1>2, LockLeaves, NowTyped DEF Sound
          <6> QED BY <6>1 DEF FirstStep, Ops
        <5> QED BY <5>1 DEF Sequel
      <4>4. 1 \in DOMAIN loc[u].todo /\ 1 \in DOMAIN loc[t].todo
        <5>1. pc[u] \in Working /\ pc[t] = "next"
          BY <1>1 DEF Working
        <5> QED BY <5>1, NowTyped DEF Sound
      <4>5. Switches(u) /\ Switches(t)
        BY <4>2, <4>3, <4>4, MpesAssumption DEF Sequel, TodoOf, Doing
      <4> QED BY <3>1, <4>1, <4>2, <4>5 DEF OneSwitches
    <3>2. CASE ~Overlap
      BY <1>2, <3>2, LockLeaves DEF Lock
    <3> QED BY <3>1, <3>2
  <2>2. Toggles'
    BY <1>1, <1>2, <2>1 DEF Toggles, Toggling
  <2>3. ASSUME NEW s \in Sensors
        PROVE  Knows(s)'
    BY <1>1, <1>2, <2>1, KnowsKept DEF Known, Threads
  <2> QED BY <2>2, <2>3 DEF Known
<1>3. CASE pc'[t] # "disable"
  BY <1>1, <1>3, KnownKept DEF Toggling
<1> QED BY <1>2, <1>3

LEMMA DisableKnown ==
  ASSUME Sound, Known, NEW t \in Threads, Disable(t)
  PROVE  Known'
<1>1. Typed /\ Queued /\ Cameras /\ Toggles /\ pc[t] = "disable"
  BY DEF Sound, Known, Disable
<1> DEFINE s == Now(t)
<1>2. s \in Sensors
  BY <1>1, NowTyped DEF Working, Toggling
<1>3. /\ errors' = [errors EXCEPT ![s] = {}]
      /\ usb' = [usb EXCEPT ![s] = FALSE]
      /\ node' = [node EXCEPT ![s] = NoNode]
      /\ dismissed' = [dismissed EXCEPT ![s] = FALSE]
      /\ pc' = [pc EXCEPT ![t] = "enable"]
      /\ loc' = [loc EXCEPT ![t].old = Used \ {node[s]}]
      /\ UNCHANGED device
  BY DEF Disable, At
<1>4. pc'[t] = "enable" /\ \A u \in Threads \ {t} : pc'[u] = pc[u] /\ loc'[u] = loc[u]
  BY <1>1, <1>3 DEF Typed
<1>5. loc'[t].old = Used \ {node[s]} /\ loc'[t].todo = loc[t].todo
  <2>1. loc[t] \in Locals
    BY <1>1 DEF Typed
  <2> HIDE DEF s
  <2> QED BY <1>1, <1>3, <2>1 DEF Typed, Locals
<1> HIDE DEF s
<1>6. /\ ~usb'[s] /\ node'[s] = NoNode
      /\ \A x \in Sensors \ {s} :
           /\ usb'[x] = usb[x] /\ node'[x] = node[x]
           /\ errors'[x] = errors[x] /\ dismissed'[x] = dismissed[x]
  BY <1>1, <1>2, <1>3 DEF Typed
<1>7. Toggles'
  <2>1. \A u \in Threads : pc'[u] \in Toggling => u = t
    BY <1>1, <1>4 DEF Toggles, Toggling
  <2>2. \A x \in Sensors \ {s} : node'[x] \in loc'[t].old \cup {NoNode}
    <3>1. ASSUME NEW x \in Sensors \ {s}, node[x] # NoNode
          PROVE  node[x] \in Used \ {node[s]}
      BY <1>1, <1>2, <3>1 DEF Cameras, Used
    <3> QED BY <1>5, <1>6, <3>1
  <2>3. loc'[t].todo[1].s = s
    BY <1>5 DEF s, Now
  <2>4. "enable" \in Toggling /\ "find" \in Toggling
    BY DEF Toggling
  <2> QED BY <2>1, <2>2, <2>3, <2>4 DEF Toggles, Now
<1>8. ASSUME NEW x \in Sensors
      PROVE  Knows(x)'
  <2>1. CASE x = s
    BY <1>6, <2>1 DEF Knows
  <2>2. CASE x # s
    <3>1. \A u \in Threads : pc[u] \in Toggling /\ Now(u) = x =>
            pc'[u] \in Toggling /\ loc'[u].todo = loc[u].todo
      BY <1>4, <1>5 DEF Toggling
    <3>2. pc'[Main] # "down" => pc[Main] # "down"
      BY <1>1, <1>4 DEF Threads
    <3> QED BY <1>3, <1>6, <2>2, <3>1, <3>2, KnowsKept DEF Known
  <2> QED BY <2>1, <2>2
<1> QED BY <1>7, <1>8 DEF Known

LEMMA EnableKnown ==
  ASSUME Sound, Known, NEW t \in Threads, Enable(t)
  PROVE  Known'
<1>1. Typed /\ Queued /\ Toggles /\ pc[t] = "enable"
      /\ UNCHANGED <<device, errors, dismissed, loc>>
  BY DEF Sound, Known, Enable, sensor
<1> DEFINE s == Now(t)
<1>2. s \in Sensors
  BY <1>1, NowTyped DEF Working, Toggling
<1>3. PICK n : node' = [node EXCEPT ![s] = n]
  BY DEF Enable
<1>4. usb' = [usb EXCEPT ![s] = TRUE] /\ pc' = [pc EXCEPT ![t] = "find"]
  BY DEF Enable, At
<1>5. pc'[t] = "find" /\ \A u \in Threads \ {t} : pc'[u] = pc[u]
  BY <1>1, <1>4 DEF Typed
<1> HIDE DEF s
<1>6. \A x \in Sensors \ {s} : usb'[x] = usb[x] /\ node'[x] = node[x]
  BY <1>1, <1>2, <1>3, <1>4 DEF Typed
<1>7. Toggles'
  <2>1. \A u \in Threads : pc'[u] \in Toggling => u = t
    BY <1>1, <1>5 DEF Toggles, Toggling
  <2>2. \A x \in Sensors \ {s} : node'[x] \in loc[t].old \cup {NoNode}
    BY <1>1, <1>6 DEF Toggles, s
  <2>3. "enable" \in Toggling /\ "find" \in Toggling
    BY DEF Toggling
  <2> QED BY <1>1, <2>1, <2>2, <2>3 DEF Toggles, Now, s
<1>8. ASSUME NEW x \in Sensors
      PROVE  Knows(x)'
  <2>1. CASE x = s
    <3>1. ~Settled(x, Toggling)'
      BY <1>1, <1>5, <2>1 DEF Settled, Toggling, Now, s
    <3> QED BY <2>1, <3>1 DEF Knows
  <2>2. CASE x # s
    <3>1. \A u \in Threads : pc[u] \in Toggling /\ Now(u) = x =>
            pc'[u] \in Toggling /\ loc'[u].todo = loc[u].todo
      BY <1>1, <1>5 DEF Toggling
    <3>2. pc'[Main] # "down" => pc[Main] # "down"
      BY <1>1, <1>5 DEF Threads
    <3> QED BY <1>1, <1>6, <2>2, <3>1, <3>2, KnowsKept DEF Known
  <2> QED BY <2>1, <2>2
<1> QED BY <1>7, <1>8 DEF Known

\* Of the video devices that have come since, a thread finds that of its own
\* sensor.
LEMMA FindsOwn ==
  ASSUME Sound, Toggles, NEW t \in Threads, pc[t] = "find",
         NEW n, Used \ loc[t].old = {n}
  PROVE  n = node[Now(t)] /\ n # NoNode
<1>1. n \in Used /\ n \notin loc[t].old
  OBVIOUS
<1>2. PICK x \in Sensors : n = node[x] /\ n # NoNode
  BY <1>1 DEF Used
<1> QED BY <1>1, <1>2 DEF Toggles

\* With the end of an operation that toggled no port nothing is forgotten.
LEMMA EndKnown ==
  ASSUME Sound, Known, NEW t \in Threads, pc[t] \in {"expose", "capture", "shut"},
         Finish(t),
         \A s \in Sensors : node'[s] \in {node[s], NoNode},
         \A s \in Sensors : usb'[s] => usb[s] /\ node'[s] = node[s],
         \A s \in Sensors : 0 \in errors[s] => 0 \in errors'[s],
         \A s \in Sensors : device'[s].id = device[s].id,
         UNCHANGED dismissed
  PROVE  Known'
<1>1. /\ pc'[t] \in {"idle", "next"}
      /\ \A u \in Threads \ {t} : pc'[u] = pc[u] /\ loc'[u] = loc[u]
  BY FinishSound DEF Working
<1> QED BY <1>1, KnownKept DEF Toggling

LEMMA FindKnown ==
  ASSUME Sound, Known, NEW t \in Threads, Find(t)
  PROVE  Known'
<1>1. Typed /\ Queued /\ Toggles /\ pc[t] = "find"
      /\ UNCHANGED <<usb, node, position, dismissed>>
  BY FindEnds DEF Sound, Known
<1> DEFINE s == Now(t)
<1>2. s \in Sensors /\ pc[t] \in Working
  BY <1>1, NowTyped DEF Working, Toggling
<1>3. pc'[t] \in {"expose", "idle", "next"}
      /\ \A u \in Threads \ {t} : pc'[u] = pc[u] /\ loc'[u] = loc[u]
  <2>1. CASE Finish(t)
    BY <1>2, <2>1, FinishSound
  <2>2. CASE ~Finish(t)
    <3>1. At(t, "expose") /\ UNCHANGED loc
      BY <2>2, FindEnds DEF Finds, FindsNot
    <3> QED BY <1>1, <3>1 DEF At, Typed
  <2> QED BY <2>1, <2>2
<1>4. \/ /\ device'[s].id = node[s] /\ node[s] # NoNode
         /\ \A x \in Sensors \ {s} : device'[x] = device[x]
         /\ UNCHANGED errors
      \/ /\ 0 \in errors'[s] /\ UNCHANGED device
         /\ \A x \in Sensors \ {s} : errors'[x] = errors[x]
  <2>1. CASE Finds(t)
    <3>1. PICK n \in Used \ loc[t].old :
            /\ Used \ loc[t].old = {n} /\ n \in Nodes
            /\ device' \in [Sensors -> Devices]
            /\ device'[s] = [NoDevice(s) EXCEPT !.id = n]
            /\ \A x \in Sensors \ {s} : device'[x] = device[x]
      BY <1>1, <1>2, <2>1, FindsDevice
    <3>2. n = node[s] /\ n # NoNode
      BY <1>1, <3>1, FindsOwn
    <3>3. device'[s].id = n
      <4>1. [NoDevice(s) EXCEPT !.id = n].id = n
        BY DEF NoDevice
      <4> HIDE DEF s
      <4> QED BY <3>1, <4>1
    <3> QED BY <2>1, <3>1, <3>2, <3>3 DEF Finds
  <2>2. CASE FindsNot(t)
    BY <1>1, <1>2, <2>2 DEF FindsNot, Typed
  <2> QED BY <2>1, <2>2, FindEnds
<1>5. Toggles'
  <2>1. \A u \in Threads : pc'[u] \in Toggling => pc'[u] = pc[u] /\ loc'[u] = loc[u]
    BY <1>3 DEF Toggling
  <2> QED BY <1>1, <2>1, TogglesKept
<1> HIDE DEF s
<1>6. ASSUME NEW x \in Sensors
      PROVE  Knows(x)'
  <2>1. CASE x = s
    BY <1>1, <1>4, <2>1 DEF Knows
  <2>2. CASE x # s
    <3>1. \A u \in Threads : pc[u] \in Toggling /\ Now(u) = x =>
            pc'[u] \in Toggling /\ loc'[u].todo = loc[u].todo
      BY <1>3, <2>2 DEF s
    <3>2. pc'[Main] # "down" => pc[Main] # "down"
      BY <1>1, <1>3 DEF Threads
    <3> QED BY <1>1, <1>4, <2>2, <3>1, <3>2, KnowsKept DEF Known
  <2> QED BY <2>1, <2>2
<1> QED BY <1>5, <1>6 DEF Known

\* A pass, a reading or giving up leaves the number of the device alone, and
\* does not take back that the connection was lost.
LEMMA ReadingLeaves ==
  ASSUME Sound, NEW t \in Threads,
         Adjust(t) \/ Conclude(t) \/ ReadCamera(t) \/ GiveUp(t)
  PROVE  /\ pc[t] \in {"expose", "capture"} /\ Now(t) \in Sensors
         /\ UNCHANGED <<usb, node, dismissed>>
         /\ \A s \in Sensors : device'[s].id = device[s].id
         /\ \A s \in Sensors : errors[s] \ {4, 5, 6} \subseteq errors'[s]
         /\ \A s \in Sensors \ {Now(t)} :
              errors'[s] = errors[s] /\ position'[s] = position[s]
<1>1. Typed /\ Queued /\ pc[t] \in {"expose", "capture"}
      /\ UNCHANGED <<usb, node, dismissed>>
  BY DEF Sound, Adjust, Conclude, ReadCamera, GiveUp, Measures, hardware
<1> DEFINE s == Now(t)
<1>2. s \in Sensors
  BY <1>1, NowTyped DEF Working
<1>3. \E x, e : \/ device' = [device EXCEPT ![s].shot = x, ![s].exposure = e]
                \/ device' = [device EXCEPT ![s].shot = x]
                \/ device' = device
  <2>1. CASE Adjust(t)
    <3>1. \E x \in Captures(t, s) :
            device' = [device EXCEPT ![s].shot = x.shot,
                                     ![s].exposure =
                                       NextExposure(x.shown.intensity,
                                                    device[s].exposure,
                                                    loc[t].extreme)]
      BY <2>1 DEF Adjust
    <3> QED BY <3>1, Zenon
  <2>2. CASE Conclude(t)
    <3>1. \E x, e : device' = [device EXCEPT ![s].shot = x, ![s].exposure = e]
      BY <2>2, Zenon DEF Conclude
    <3> QED BY <3>1
  <2>3. CASE ReadCamera(t)
    <3>1. \E x : device' = [device EXCEPT ![s].shot = x]
      BY <2>3, Zenon DEF ReadCamera
    <3> QED BY <3>1
  <2>4. CASE GiveUp(t)
    BY <2>4 DEF GiveUp
  <2> QED BY <2>1, <2>2, <2>3, <2>4
<1>4. \E x : position' = [position EXCEPT ![s] = x] \/ position' = position
  BY DEF Adjust, Conclude, ReadCamera, GiveUp
<1>5. \E a : \/ errors' = [errors EXCEPT ![s] = (@ \ {4, 5, 6}) \cup a]
             \/ errors' = [errors EXCEPT ![s] = @ \cup a]
             \/ errors' = [errors EXCEPT ![s] = @ \ {4, 5, 6}]
  <2>1. CASE Adjust(t)
    BY <2>1 DEF Adjust
  <2>2. CASE Conclude(t)
    <3>1. \E a, b : errors' = [errors EXCEPT ![s] = (@ \ {4, 5, 6}) \cup a \cup b]
      BY <2>2 DEF Conclude
    <3>2. PICK a, b : errors' = [errors EXCEPT ![s] = (@ \ {4, 5, 6}) \cup a \cup b]
      BY <3>1
    <3>3. errors' = [errors EXCEPT ![s] = (@ \ {4, 5, 6}) \cup (a \cup b)]
      BY <3>2, Zenon
    <3> QED BY <3>3
  <2>3. CASE ReadCamera(t)
    BY <2>3 DEF ReadCamera
  <2>4. CASE GiveUp(t)
    BY <2>4 DEF GiveUp
  <2> QED BY <2>1, <2>2, <2>3, <2>4
<1> HIDE DEF s
<1>6. \A y \in Sensors : device'[y].id = device[y].id
  <2>1. device \in [Sensors -> Devices]
    BY <1>1 DEF Typed
  <2>2. device[s] \in Devices
    BY <1>2, <2>1
  <2> QED BY <1>2, <1>3, <2>1, <2>2 DEF Devices
<1>7. \A y \in Sensors : errors[y] \ {4, 5, 6} \subseteq errors'[y]
  BY <1>1, <1>2, <1>5 DEF Typed
<1>8. \A y \in Sensors \ {s} : errors'[y] = errors[y] /\ position'[y] = position[y]
  BY <1>1, <1>2, <1>4, <1>5 DEF Typed
<1> QED BY <1>1, <1>2, <1>6, <1>7, <1>8 DEF s

LEMMA ReadingKnown ==
  ASSUME Sound, Known, NEW t \in Threads,
         Adjust(t) \/ Conclude(t) \/ ReadCamera(t) \/ GiveUp(t)
  PROVE  Known'
<1>1. /\ pc[t] \in {"expose", "capture"} /\ UNCHANGED <<usb, node, dismissed>>
      /\ \A s \in Sensors : device'[s].id = device[s].id
      /\ \A s \in Sensors : 0 \in errors[s] => 0 \in errors'[s]
  BY ReadingLeaves
<1>2. CASE Finish(t)
  BY <1>1, <1>2, EndKnown
<1>3. CASE Adjust(t)
  <2>1. UNCHANGED pc /\ \A u \in Threads \ {t} : loc'[u] = loc[u]
    BY <1>3 DEF Adjust, Sound, Typed
  <2>2. pc[t] \notin Toggling \cup {"down"}
    BY <1>1 DEF Toggling
  <2> QED BY <1>1, <2>1, <2>2, KnownKept
<1> QED BY <1>2, <1>3 DEF Conclude, ReadCamera, GiveUp

LEMMA ShutKnown ==
  ASSUME Sound, Known, NEW t \in Threads, Shut(t)
  PROVE  Known'
<1>1. Typed /\ Queued /\ pc[t] = "shut" /\ Finish(t)
      /\ UNCHANGED <<device, position, errors, dismissed>>
  BY DEF Sound, Shut
<1>2. Now(t) \in Sensors
  BY <1>1, NowTyped DEF Working
<1>3. /\ \A s \in Sensors : node'[s] \in {node[s], NoNode}
      /\ \A s \in Sensors : usb'[s] => usb[s] /\ node'[s] = node[s]
  BY <1>1, <1>2 DEF Shut, Typed
<1> QED BY <1>1, <1>3, EndKnown

LEMMA CrashKnown ==
  ASSUME Sound, Known, NEW t \in Threads, Crash(t)
  PROVE  Known'
<1>1. \A u \in Threads : pc'[u] \notin Toggling
  BY DEF Crash, Toggling
<1>2. pc'[Main] = "down"
  BY DEF Crash, Threads
<1>3. "enable" \in Toggling /\ "find" \in Toggling
  BY DEF Toggling
<1> QED BY <1>1, <1>2, <1>3 DEF Known, Toggles, Knows

\* A method begins that switches no port on.
LEMMA BeginsKnown ==
  ASSUME Sound, Known, NEW t \in Threads, pc[t] \in {"idle", "down"},
         NEW method \in SensorMethods \cup PanelMethods \cup {"idle", "Start"},
         NEW todo \in Seq(Jobs), Begins(t, method, todo),
         \/ pc[t] = "idle" /\ UNCHANGED <<usb, node>>
         \/ usb' = [s \in Sensors |-> FALSE] /\ node' = [s \in Sensors |-> NoNode],
         UNCHANGED <<device, errors, dismissed>>
  PROVE  Known'
<1>1. /\ pc'[t] = "next"
      /\ \A u \in Threads \ {t} : pc'[u] = pc[u] /\ loc'[u] = loc[u]
  BY BeginsTyped DEF Sound
<1>2. CASE pc[t] = "idle" /\ UNCHANGED <<usb, node>>
  BY <1>1, <1>2, KnownKept DEF Toggling
<1>3. CASE usb' = [s \in Sensors |-> FALSE] /\ node' = [s \in Sensors |-> NoNode]
  <2>1. \A u \in Threads : pc'[u] \in Toggling => pc'[u] = pc[u] /\ loc'[u] = loc[u]
    BY <1>1 DEF Toggling
  <2>2. Toggles'
    BY <1>3, <2>1, TogglesKept DEF Known
  <2> QED BY <1>3, <2>2 DEF Known, Knows
<1> QED BY <1>2, <1>3

LEMMA StartKnown ==
  ASSUME Sound, Known, Start
  PROVE  Known'
<1> DEFINE todo == ForEach("initialize") \o ForEach("readjust")
<1>1. todo \in Seq(Jobs)
  <2>1. ForEach("initialize") \in Seq(Jobs) /\ ForEach("readjust") \in Seq(Jobs)
    BY ForEachTyped DEF Ops
  <2> HIDE DEF Jobs
  <2> QED BY <2>1
<1>2. /\ pc[Main] = "down" /\ Begins(Main, "Start", todo)
      /\ usb' = [s \in Sensors |-> FALSE] /\ node' = [s \in Sensors |-> NoNode]
      /\ UNCHANGED <<device, errors, dismissed>>
  BY DEF Start, sensor
<1> HIDE DEF todo
<1> QED BY <1>1, <1>2, BeginsKnown, ConstantsTyped

LEMMA CallsKnown ==
  ASSUME Sound, Known, NEW c \in Callers, Calls(c)
  PROVE  Known'
<1>1. CASE Call(c)
  <2>1. PICK method \in SensorMethods, s \in Sensors :
          Ready(c, method, s) /\ Begins(c, method, Operations(method, s))
    BY <1>1 DEF Call
  <2>2. Operations(method, s) \in Seq(Jobs)
    BY OperationsTyped
  <2>3. UNCHANGED <<usb, node, device, errors, dismissed>>
    BY <1>1 DEF Call, hardware, sensor
  <2> QED BY <2>1, <2>2, <2>3, BeginsKnown DEF Ready, Threads
<1>2. CASE PanelTurnOn(c)
  <2>1. /\ Ready(c, "PanelTurnOn", PanelItself)
        /\ Begins(c, "PanelTurnOn", ForEach("turnOn"))
        /\ UNCHANGED <<usb, node, device, errors, dismissed>>
    BY <1>2 DEF PanelTurnOn, hardware, sensor
  <2>2. ForEach("turnOn") \in Seq(Jobs) /\ "PanelTurnOn" \in PanelMethods
    BY ForEachTyped DEF Ops, PanelMethods
  <2> QED BY <2>1, <2>2, BeginsKnown DEF Ready, Threads
<1>3. CASE PanelTurnOff(c)
  <2>1. /\ usb' = [s \in Sensors |-> FALSE] /\ node' = [s \in Sensors |-> NoNode]
        /\ UNCHANGED <<pc, loc>>
    BY <1>3 DEF PanelTurnOff
  <2>2. Toggles'
    BY <2>1, TogglesKept DEF Known
  <2> QED BY <2>1, <2>2 DEF Known, Knows
<1>4. CASE ClearErrors(c)
  <2>1. UNCHANGED <<usb, node, device, pc, loc>>
    BY <1>4 DEF ClearErrors, hardware
  <2>2. PICK s \in Sensors :
          /\ \E cleared : errors' = [errors EXCEPT ![s] = @ \ cleared]
          /\ dismissed' = [dismissed EXCEPT ![s] = TRUE]
    BY <1>4 DEF ClearErrors
  <2>3. dismissed'[s]
        /\ \A x \in Sensors \ {s} : dismissed'[x] = dismissed[x] /\ errors'[x] = errors[x]
    BY <2>2 DEF Sound, Typed
  <2>4. Toggles'
    BY <2>1, TogglesKept DEF Known
  <2>5. ASSUME NEW x \in Sensors
        PROVE  Knows(x)'
    <3>1. CASE x = s
      BY <2>3, <3>1 DEF Knows
    <3>2. CASE x # s
      BY <2>1, <2>3, <3>2, KnowsKept DEF Known
    <3> QED BY <3>1, <3>2
  <2> QED BY <2>4, <2>5 DEF Known
<1> QED BY <1>1, <1>2, <1>3, <1>4 DEF Calls

LEMMA InitKnown == Init => Known
<1> SUFFICES ASSUME Init PROVE Known
  OBVIOUS
<1>1. \A u \in Threads : pc[u] \notin Toggling
  BY DEF Init, Toggling
<1>2. pc[Main] = "down"
  BY DEF Init, Threads
<1>3. "enable" \in Toggling /\ "find" \in Toggling
  BY DEF Toggling
<1> QED BY <1>1, <1>2, <1>3 DEF Known, Toggles, Knows

LEMMA NextKnown ==
  ASSUME OneSwitches
  PROVE  Sound /\ Sequel /\ Known /\ [Next]_vars => Known'
<1> SUFFICES ASSUME Sound, Sequel, Known, [Next]_vars PROVE Known'
  OBVIOUS
<1>1. CASE Start
  BY <1>1, StartKnown
<1>2. ASSUME NEW t \in Threads, Step(t) PROVE Known'
  BY <1>2, RefuseKnown, LockKnown, DisableKnown, EnableKnown, FindKnown, ReadingKnown,
     ShutKnown, CrashKnown
  DEF Step, Initializing, Exposing
<1>3. ASSUME NEW c \in Callers, Calls(c) PROVE Known'
  BY <1>3, CallsKnown
<1>4. CASE UNCHANGED vars
  BY <1>4 DEF vars, hardware, sensor, Known, Toggles, Knows, Settled, Now
<1> QED BY <1>1, <1>2, <1>3, <1>4 DEF Next

LEMMA KnownOwn == Sound /\ Known => OwnCamera
<1> SUFFICES ASSUME Sound, Known, NEW s \in Sensors,
                    AtRest(s), pc[Main] = "idle", 0 \notin errors[s]
             PROVE  device[s].id # NoNode /\ node[s] = device[s].id
  BY DEF OwnCamera
<1>1. usb[s] /\ ~busy[s] /\ ~dismissed[s]
  BY DEF AtRest, DeviceState
<1>2. Settled(s, Toggling)
  BY <1>1 DEF Settled, Sound, Locked, Worker, Working
<1> QED BY <1>1, <1>2 DEF Known, Knows

\* Where one operator at a time switches sensors on, a sensor at rest that is
\* on and has not lost its connection reads its own camera, for every number of
\* sensors and whatever was switched on, off, lost and found before
\* (MPES::__initialize).
THEOREM SensorsKnowTheirCameras ==
  ASSUME OneSwitches
  PROVE  Spec => []OwnCamera
<1>1. Init => Sound /\ Sequel /\ Known
  BY InitSound, InitSequel, InitKnown
<1>2. Sound /\ Sequel /\ Known /\ [Next]_vars => (Sound /\ Sequel /\ Known)'
  BY NextSound, NextSequel, NextKnown
<1>3. Sound /\ Sequel /\ Known => OwnCamera
  BY KnownOwn
<1> QED BY <1>1, <1>2, <1>3, PTL DEF Spec

-----------------------------------------------------------------------------
(* What a reading tells *)

NoSeriesCut == \A s \in Sensors : "cut" \notin Faults[s]

LEMMA OneCamera ==
  ASSUME Sound, Known, NEW t \in Threads, pc[t] \in {"expose", "capture"},
         usb[Now(t)], ~dismissed[Now(t)], 0 \notin errors[Now(t)]
  PROVE  CamerasOf(Now(t)) = {Now(t)} /\ Now(t) \in Sensors
<1> DEFINE s == Now(t)
<1>1. pc[t] \in Working /\ pc[t] \notin Toggling /\ pc[t] # "idle"
  BY DEF Working, Toggling
<1>2. s \in Sensors
  BY <1>1, NowTyped DEF Sound
<1>3. pc[Main] # "down"
  BY MpesAssumption DEF Sound, StartAlone, Threads
<1>4. Settled(s, Toggling)
  <2> SUFFICES ASSUME NEW u \in Threads, pc[u] \in Toggling, Now(u) = s
               PROVE  FALSE
    BY DEF Settled
  <2>1. Worker(u, s) /\ Worker(t, s)
    BY <1>1 DEF Worker, Working
  <2>2. u = t
    BY <1>2, <2>1 DEF Sound, Locked
  <2> QED BY <1>1, <2>2
<1>5. device[s].id # NoNode /\ node[s] = device[s].id
  BY <1>2, <1>3, <1>4 DEF Known, Knows
<1>6. ASSUME NEW c \in Sensors, node[c] = device[s].id
      PROVE  c = s
  BY <1>2, <1>5, <1>6 DEF Sound, Cameras
<1> QED BY <1>2, <1>5, <1>6 DEF CamerasOf

LEMMA FailuresAreErrors ==
  ASSUME NEW p
  PROVE  /\ p.intensity = -3 => 0 \in ReadingErrors(p)
         /\ p.intensity = -2 => 1 \in ReadingErrors(p)
<1> DEFINE i == p.intensity
           a == CASE i = -2 -> {1} [] i = -3 -> {0}
                  [] i > Bright /\ i < TooBright -> {4}
                  [] i > TooBright -> {3} [] OTHER -> {}
<1>1. a \subseteq ReadingErrors(p)
  BY DEF ReadingErrors
<1> HIDE DEF i
<1>2. (i = -3 => 0 \in a) /\ (i = -2 => 1 \in a)
  BY MpesAssumption
<1> QED BY <1>1, <1>2 DEF i

\* A capture with the sensor's own camera measures what it sees, or an error
\* says that it has failed.
LEMMA CaptureTells ==
  ASSUME NoSeriesCut, Sound, Known, NEW t \in Threads, pc[t] \in {"expose", "capture"},
         usb[Now(t)], ~dismissed[Now(t)], 0 \notin errors[Now(t)],
         NEW x \in Captures(t, Now(t))
  PROVE  \/ x.shown = Reading("measured", Now(t),
                              Intensity(t, device[Now(t)].exposure), loc[t].scene.shape)
         \/ 0 \in ReadingErrors(x.shown) \/ 1 \in ReadingErrors(x.shown)
<1> DEFINE s == Now(t)
           full == Intensity(t, device[s].exposure)
<1>1. CamerasOf(s) = {s} /\ s \in Sensors
  BY OneCamera
<1> HIDE DEF s
<1>2. PICK y \in Shots(t, s, s) :
        x = [shot |-> y, shown |-> IF y.kind = "none" THEN Failed(s) ELSE y]
  <2>1. UNION {Shots(t, s, c) : c \in CamerasOf(s)} = Shots(t, s, s)
    BY <1>1
  <2>2. x \in {[shot |-> y, shown |-> IF y.kind = "none" THEN Failed(s) ELSE y] :
                 y \in UNION {Shots(t, s, c) : c \in CamerasOf(s)}}
    BY <1>1 DEF Captures, s
  <2> QED BY <2>1, <2>2
<1>3. y \in {Reading("measured", s, full, loc[t].scene.shape), None(s),
             Reading("failed", s, -2, "even")}
  BY <1>1 DEF Shots, NoSeriesCut
<1>4. CASE y = Reading("measured", s, full, loc[t].scene.shape)
  BY <1>2, <1>4 DEF Reading, s
<1>5. CASE y = None(s)
  <2>1. x.shown = Failed(s)
    BY <1>2, <1>5 DEF None, Reading
  <2>2. x.shown.intensity = -3
    BY <2>1 DEF Failed, Reading
  <2> QED BY <2>2, FailuresAreErrors
<1>6. CASE y = Reading("failed", s, -2, "even")
  <2>1. x.shown.intensity = -2
    BY <1>2, <1>6 DEF Reading
  <2> QED BY <2>1, FailuresAreErrors
<1> QED BY <1>3, <1>4, <1>5, <1>6

-----------------------------------------------------------------------------
(* The position of a sensor *)

\* The start of the server has still to readjust the sensor.
WillReadjust(s) ==
  \E i \in DOMAIN loc[Main].todo : loc[Main].todo[i] = Op("readjust", s)

\* TruePosition, also while the sensor is worked at.
Tells(s) ==
  /\ pc[Main] # "down" /\ usb[s] /\ ~dismissed[s] /\ errors[s] \cap Fatal = {}
  /\ Settled(s, Toggling \cup {"expose"})
  /\ position[s].shape # "severe" /\ ~WillReadjust(s)
  => position[s].kind = "measured" /\ position[s].of = s
Told == \A s \in Sensors : Tells(s)

LEMMA TellsKept ==
  ASSUME NEW s \in Sensors, Tells(s),
         pc'[Main] # "down" => pc[Main] # "down",
         usb'[s] => usb[s], dismissed[s] => dismissed'[s],
         errors'[s] = errors[s], position'[s] = position[s],
         \A u \in Threads : pc[u] \in Toggling \cup {"expose"} /\ Now(u) = s =>
           pc'[u] \in Toggling \cup {"expose"} /\ loc'[u].todo = loc[u].todo,
         WillReadjust(s) => WillReadjust(s)'
  PROVE  Tells(s)'
<1>1. Settled(s, Toggling \cup {"expose"})' => Settled(s, Toggling \cup {"expose"})
  BY DEF Settled, Now
<1> QED BY <1>1 DEF Tells

\* A thread drops an operation other than the readjustment of the sensor.
LEMMA ReadjustKept ==
  ASSUME NEW t \in Threads, NEW s \in Sensors, WillReadjust(s),
         loc[t].todo \in Seq(Jobs), loc[t].todo # <<>>,
         loc'[t].todo = Tail(loc[t].todo),
         \A u \in Threads \ {t} : loc'[u] = loc[u],
         loc[t].todo[1] # Op("readjust", s)
  PROVE  WillReadjust(s)'
<1>1. CASE t # Main
  BY <1>1, ConstantsTyped DEF WillReadjust
<1>2. CASE t = Main
  <2> DEFINE q == loc[t].todo
  <2>1. /\ Len(q) \in Nat \ {0} /\ DOMAIN q = 1 .. Len(q)
        /\ DOMAIN Tail(q) = 1 .. Len(q) - 1
        /\ \A i \in 1 .. Len(q) - 1 : Tail(q)[i] = q[i + 1]
    <3>1. q \in Seq(Jobs) /\ q # <<>>
      OBVIOUS
    <3> HIDE DEF q, Jobs
    <3> QED BY <3>1
  <2>2. PICK i \in DOMAIN q : q[i] = Op("readjust", s)
    BY <1>2 DEF WillReadjust
  <2>3. i # 1
    BY <2>2
  <2>4. loc'[Main].todo = Tail(q)
    BY <1>2
  <2> HIDE DEF q
  <2>5. i - 1 \in 1 .. Len(q) - 1 /\ (i - 1) + 1 = i
    BY <2>1, <2>2, <2>3
  <2>6. Tail(q)[i - 1] = Op("readjust", s)
    BY <2>1, <2>2, <2>5
  <2> QED BY <2>1, <2>4, <2>5, <2>6 DEF WillReadjust
<1> QED BY <1>1, <1>2

\* A thread has done something to its sensor and to no other.
LEMMA OthersTell ==
  ASSUME Sound, Told, NEW t \in Threads, pc[t] \in Working,
         \A u \in Threads \ {t} : pc'[u] = pc[u] /\ loc'[u] = loc[u],
         pc'[t] # "down",
         loc'[t].todo = loc[t].todo \/ loc'[t].todo = Tail(loc[t].todo),
         NEW s \in Sensors, s # Now(t),
         usb'[s] => usb[s], dismissed'[s] = dismissed[s],
         errors'[s] = errors[s], position'[s] = position[s]
  PROVE  Tells(s)'
<1>1. loc[t].todo \in Seq(Jobs) /\ loc[t].todo # <<>>
  BY NowTyped DEF Sound
<1>2. WillReadjust(s) => WillReadjust(s)'
  <2>1. CASE loc'[t].todo = loc[t].todo
    BY <2>1 DEF WillReadjust, Threads
  <2>2. CASE loc'[t].todo = Tail(loc[t].todo)
    <3>1. loc[t].todo[1] # Op("readjust", s)
      BY DEF Now, Op
    <3> QED BY <1>1, <2>2, <3>1, ReadjustKept
  <2> QED BY <2>1, <2>2
<1>3. pc'[Main] # "down" => pc[Main] # "down"
  BY DEF Working, Toggling, Threads
<1> QED BY <1>2, <1>3, TellsKept DEF Told


LEMMA RefuseTells ==
  ASSUME Sound, Told, NEW t \in Threads, Refuse(t)
  PROVE  Told'
<1>1. Typed /\ Queued /\ pc[t] = "next" /\ Drop(t)
      /\ UNCHANGED <<usb, node, busy, device, position, errors, dismissed>>
  BY DEF Sound, Refuse, hardware, sensor
<1>2. /\ pc'[t] \in {"idle", "next"} /\ loc'[t].todo = Tail(loc[t].todo)
      /\ \A u \in Threads \ {t} : pc'[u] = pc[u] /\ loc'[u] = loc[u]
  BY <1>1, DropRest
<1>3. loc[t].todo \in Seq(Jobs) /\ loc[t].todo # <<>> /\ Now(t) \in Sensors
  BY <1>1, NowTyped
<1>4. ASSUME NEW s \in Sensors
      PROVE  Tells(s)'
  <2>1. pc'[Main] # "down" => pc[Main] # "down"
    BY <1>1, <1>2 DEF Threads
  <2>2. \A u \in Threads : pc[u] \in Toggling \cup {"expose"} /\ Now(u) = s =>
          pc'[u] \in Toggling \cup {"expose"} /\ loc'[u].todo = loc[u].todo
    BY <1>1, <1>2 DEF Toggling
  <2>3. CASE t = Main /\ loc[t].todo[1] = Op("readjust", s)
    <3>1. Now(t) = s /\ Doing(t) = "readjust"
      BY <2>3 DEF Now, Doing, Op
    <3>2. ~busy[s]
      <4>1. \A u \in Threads : pc[u] \notin Working
        BY <1>1, <2>3 DEF Sound, StartAlone, Threads, Working, Toggling
      <4> QED BY <4>1 DEF Sound, Locked, Worker
    <3>3. errors[s] \cap Fatal # {}
      BY <3>1, <3>2 DEF Refuse, ErrorState
    <3> QED BY <1>1, <3>3 DEF Tells
  <2>4. CASE t # Main \/ loc[t].todo[1] # Op("readjust", s)
    <3>1. WillReadjust(s) => WillReadjust(s)'
      <4>1. CASE t # Main
        BY <1>2, <4>1 DEF WillReadjust, Threads
      <4>2. CASE loc[t].todo[1] # Op("readjust", s)
        BY <1>2, <1>3, <4>2, ReadjustKept
      <4> QED BY <2>4, <4>1, <4>2
    <3> QED BY <1>1, <2>1, <2>2, <3>1, TellsKept DEF Told
  <2> QED BY <2>3, <2>4
<1> QED BY <1>4 DEF Told

LEMMA LockTells ==
  ASSUME Sound, Told, NEW t \in Threads, Lock(t)
  PROVE  Told'
<1>1. /\ pc[t] = "next" /\ pc'[t] \in {"disable", "expose", "capture", "shut"}
      /\ \A u \in Threads \ {t} : pc'[u] = pc[u] /\ loc'[u] = loc[u]
      /\ loc'[t].todo = loc[t].todo
      /\ UNCHANGED <<usb, node, device, position, errors, dismissed>>
  BY LockLeaves
<1>2. ASSUME NEW s \in Sensors
      PROVE  Tells(s)'
  <2>1. pc'[Main] # "down" => pc[Main] # "down"
    BY <1>1 DEF Threads
  <2>2. \A u \in Threads : pc[u] \in Toggling \cup {"expose"} /\ Now(u) = s =>
          pc'[u] \in Toggling \cup {"expose"} /\ loc'[u].todo = loc[u].todo
    BY <1>1 DEF Toggling
  <2>3. WillReadjust(s) => WillReadjust(s)'
    BY <1>1 DEF WillReadjust, Threads
  <2> QED BY <1>1, <2>1, <2>2, <2>3, TellsKept DEF Told
<1> QED BY <1>2 DEF Told

\* While a thread toggles the port of a sensor, or sets its exposure, nothing is
\* claimed of that sensor.
LEMMA AtWorkTells ==
  ASSUME Sound, Told, NEW t \in Threads, pc[t] \in Working,
         pc'[t] \in Toggling \cup {"expose"}, loc'[t].todo = loc[t].todo,
         \A u \in Threads \ {t} : pc'[u] = pc[u] /\ loc'[u] = loc[u],
         \A s \in Sensors \ {Now(t)} :
           /\ usb'[s] => usb[s]
           /\ dismissed'[s] = dismissed[s]
           /\ errors'[s] = errors[s] /\ position'[s] = position[s]
  PROVE  Told'
<1>1. ASSUME NEW s \in Sensors, s = Now(t)
      PROVE  Tells(s)'
  <2>1. ~Settled(s, Toggling \cup {"expose"})'
    BY <1>1 DEF Settled, Now
  <2> QED BY <2>1 DEF Tells
<1>2. ASSUME NEW s \in Sensors, s # Now(t)
      PROVE  Tells(s)'
  <2>1. pc'[t] # "down"
    BY DEF Toggling
  <2> QED BY <1>2, <2>1, OthersTell
<1> QED BY <1>1, <1>2 DEF Told

LEMMA DisableTells ==
  ASSUME Sound, Told, NEW t \in Threads, Disable(t)
  PROVE  Told'
<1>1. Typed /\ Queued /\ pc[t] = "disable" /\ UNCHANGED position
  BY DEF Sound, Disable
<1>2. Now(t) \in Sensors /\ pc[t] \in Working
  BY <1>1, NowTyped DEF Working, Toggling
<1>3. pc'[t] = "enable" /\ \A u \in Threads \ {t} : pc'[u] = pc[u] /\ loc'[u] = loc[u]
  BY <1>1 DEF Disable, At, Typed
<1>4. loc'[t].todo = loc[t].todo
  <2>1. loc[t] \in Locals
    BY <1>1 DEF Typed
  <2>2. \E x : loc' = [loc EXCEPT ![t].old = x]
    BY DEF Disable
  <2> QED BY <1>1, <2>1, <2>2 DEF Typed, Locals
<1>5. \A x \in Sensors \ {Now(t)} :
        usb'[x] = usb[x] /\ errors'[x] = errors[x] /\ dismissed'[x] = dismissed[x]
  BY <1>1, <1>2 DEF Disable, Typed
<1> QED BY <1>1, <1>2, <1>3, <1>4, <1>5, AtWorkTells DEF Toggling

LEMMA EnableTells ==
  ASSUME Sound, Told, NEW t \in Threads, Enable(t)
  PROVE  Told'
<1>1. Typed /\ Queued /\ pc[t] = "enable"
      /\ UNCHANGED <<position, errors, dismissed, loc>>
  BY DEF Sound, Enable, sensor
<1>2. Now(t) \in Sensors /\ pc[t] \in Working
  BY <1>1, NowTyped DEF Working, Toggling
<1>3. pc'[t] = "find" /\ \A u \in Threads \ {t} : pc'[u] = pc[u]
  BY <1>1 DEF Enable, At, Typed
<1>4. \A x \in Sensors \ {Now(t)} : usb'[x] = usb[x]
  BY <1>1, <1>2 DEF Enable, Typed
<1> QED BY <1>1, <1>2, <1>3, <1>4, AtWorkTells DEF Toggling

\* With the end of an operation it is left to show what its own sensor tells.
LEMMA EndTells ==
  ASSUME Sound, Told, NEW t \in Threads, pc[t] \in Working, Finish(t),
         UNCHANGED dismissed,
         \A s \in Sensors \ {Now(t)} :
           /\ usb'[s] => usb[s]
           /\ errors'[s] = errors[s] /\ position'[s] = position[s],
         \A s \in Sensors : s = Now(t) => Tells(s)'
  PROVE  Told'
<1>1. /\ pc'[t] \in {"idle", "next"} /\ loc'[t].todo = Tail(loc[t].todo)
      /\ \A u \in Threads \ {t} : pc'[u] = pc[u] /\ loc'[u] = loc[u]
  BY FinishSound
<1>2. ASSUME NEW s \in Sensors, s # Now(t)
      PROVE  Tells(s)'
  BY <1>1, <1>2, OthersTell
<1> QED BY <1>2 DEF Told

LEMMA FindTells ==
  ASSUME Sound, Sequel, Told, NEW t \in Threads, Find(t)
  PROVE  Told'
<1>1. Typed /\ Queued /\ pc[t] = "find"
      /\ UNCHANGED <<usb, node, position, dismissed>>
  BY FindEnds DEF Sound
<1>2. Now(t) \in Sensors /\ pc[t] \in Working /\ pc[t] \in Toggling
  BY <1>1, NowTyped DEF Working, Toggling
<1>3. CASE Finds(t) /\ Doing(t) = "turnOn"
  <2>1. At(t, "expose") /\ UNCHANGED <<loc, errors>>
    BY <1>3 DEF Finds
  <2>2. pc'[t] = "expose" /\ \A u \in Threads \ {t} : pc'[u] = pc[u]
    BY <1>1, <2>1 DEF At, Typed
  <2> QED BY <1>1, <1>2, <2>1, <2>2, AtWorkTells
<1>4. CASE Finds(t) /\ Doing(t) # "turnOn"
  <2>1. Finish(t) /\ UNCHANGED errors
    BY <1>4 DEF Finds
  <2>2. ASSUME NEW s \in Sensors, s = Now(t)
        PROVE  Tells(s)'
    <3>1. 1 \in DOMAIN loc[t].todo /\ loc[t].todo[1].op = "initialize"
          /\ loc[t].todo[1].s = s
      BY <1>1, <1>2, <1>4, <2>2, NowTyped DEF Sequel, Doing, Now
    <3>2. t = Main /\ \E j \in DOMAIN loc[t].todo :
                        j > 1 /\ loc[t].todo[j] = Op("readjust", s)
      BY <3>1 DEF Sequel, TodoOf
    <3>3. loc'[t].todo = Tail(loc[t].todo)
          /\ \A u \in Threads \ {t} : loc'[u] = loc[u]
      BY <1>2, <2>1, FinishSound
    <3>4. loc[t].todo \in Seq(Jobs) /\ loc[t].todo # <<>>
      BY <1>1, <1>2, NowTyped
    <3>5. loc[t].todo[1] # Op("readjust", s)
      BY <3>1 DEF Op
    <3>6. WillReadjust(s)
      BY <3>2 DEF WillReadjust
    <3>7. WillReadjust(s)'
      BY <3>3, <3>4, <3>5, <3>6, ReadjustKept
    <3> QED BY <3>7 DEF Tells
  <2> QED BY <1>1, <1>2, <2>1, <2>2, EndTells
<1>5. CASE FindsNot(t)
  <2>1. Finish(t) /\ errors' = [errors EXCEPT ![Now(t)] = @ \cup {0}]
    BY <1>5 DEF FindsNot
  <2>2. 0 \in errors'[Now(t)] /\ \A s \in Sensors \ {Now(t)} : errors'[s] = errors[s]
    BY <1>1, <1>2, <2>1 DEF Typed
  <2>3. ASSUME NEW s \in Sensors, s = Now(t)
        PROVE  Tells(s)'
    BY <2>2, <2>3 DEF Tells, Fatal
  <2> QED BY <1>1, <1>2, <2>1, <2>2, <2>3, EndTells
<1> QED BY <1>3, <1>4, <1>5, FindEnds

LEMMA AdjustTells ==
  ASSUME Sound, Told, NEW t \in Threads, Adjust(t)
  PROVE  Told'
<1>1. /\ pc[t] \in {"expose", "capture"} /\ UNCHANGED <<usb, dismissed, pc>>
      /\ \A s \in Sensors \ {Now(t)} :
           errors'[s] = errors[s] /\ position'[s] = position[s]
  BY ReadingLeaves DEF Adjust
<1>2. pc[t] = "expose"
  BY DEF Adjust, Measures
<1>3. \A u \in Threads \ {t} : loc'[u] = loc[u]
  BY DEF Adjust, Sound, Typed
<1>4. loc'[t].todo = loc[t].todo
  <2>1. loc[t] \in Locals
    BY DEF Sound, Typed
  <2>2. \E x : loc' = [loc EXCEPT ![t].extreme = x]
    BY Zenon DEF Adjust
  <2> QED BY <2>1, <2>2 DEF Sound, Typed, Locals
<1> QED BY <1>1, <1>2, <1>3, <1>4, AtWorkTells DEF Working

LEMMA GiveUpTells ==
  ASSUME Sound, Told, NEW t \in Threads, GiveUp(t)
  PROVE  Told'
<1>1. /\ pc[t] \in {"expose", "capture"} /\ UNCHANGED <<usb, dismissed>>
      /\ \A s \in Sensors \ {Now(t)} :
           errors'[s] = errors[s] /\ position'[s] = position[s]
  BY ReadingLeaves
<1>2. Finish(t) /\ UNCHANGED position /\ position[Now(t)].shape = "severe"
  BY DEF GiveUp
<1>3. ASSUME NEW s \in Sensors, s = Now(t)
      PROVE  Tells(s)'
  BY <1>2, <1>3 DEF Tells
<1> QED BY <1>1, <1>2, <1>3, EndTells DEF Working

\* A reading that is the last of its operation.
LEMMA ReadTells ==
  ASSUME NoSeriesCut, Sound, Known, Told, NEW t \in Threads,
         Conclude(t) \/ ReadCamera(t)
  PROVE  Told'
<1>1. /\ pc[t] \in {"expose", "capture"} /\ Now(t) \in Sensors
      /\ UNCHANGED <<usb, dismissed>>
      /\ errors[Now(t)] \ {4, 5, 6} \subseteq errors'[Now(t)]
      /\ \A s \in Sensors \ {Now(t)} :
           errors'[s] = errors[s] /\ position'[s] = position[s]
  BY ReadingLeaves
<1>2. Finish(t)
  BY DEF Conclude, ReadCamera
<1>3. PICK x \in Captures(t, Now(t)) :
        /\ position'[Now(t)] = x.shown
        /\ ReadingErrors(x.shown) \subseteq errors'[Now(t)]
  <2>0. position \in [Sensors -> Readings] /\ errors \in [Sensors -> SUBSET (0 .. 7)]
    BY DEF Sound, Typed
  <2>1. CASE Conclude(t)
    <3>1. \E x \in Captures(t, Now(t)) : \E e :
            /\ position' = [position EXCEPT ![Now(t)] = x.shown]
            /\ errors' = [errors EXCEPT ![Now(t)] =
                            (@ \ {4, 5, 6}) \cup ReadingErrors(x.shown) \cup e]
      BY <2>1, Zenon DEF Conclude
    <3> QED BY <1>1, <2>0, <3>1
  <2>2. CASE ReadCamera(t)
    BY <1>1, <2>0, <2>2 DEF ReadCamera
  <2> QED BY <2>1, <2>2
<1>4. ASSUME NEW s \in Sensors, s = Now(t)
      PROVE  Tells(s)'
  <2> SUFFICES ASSUME usb[s], ~dismissed[s], errors'[s] \cap Fatal = {}
               PROVE  position'[s].kind = "measured" /\ position'[s].of = s
    BY <1>1 DEF Tells
  <2>1. 0 \notin errors[s] /\ 0 \notin ReadingErrors(x.shown)
        /\ 1 \notin ReadingErrors(x.shown)
    BY <1>1, <1>3, <1>4 DEF Fatal
  <2>2. \E i, shape : x.shown = Reading("measured", s, i, shape)
    BY <1>1, <1>4, <2>1, CaptureTells
  <2> QED BY <1>3, <1>4, <2>2 DEF Reading
<1> QED BY <1>1, <1>2, <1>4, EndTells DEF Working

LEMMA ShutTells ==
  ASSUME Sound, Told, NEW t \in Threads, Shut(t)
  PROVE  Told'
<1>1. Typed /\ Queued /\ pc[t] = "shut" /\ Finish(t)
      /\ UNCHANGED <<device, position, errors, dismissed>>
  BY DEF Sound, Shut
<1>2. Now(t) \in Sensors /\ pc[t] \in Working
  BY <1>1, NowTyped DEF Working
<1>3. ~usb'[Now(t)] /\ \A s \in Sensors \ {Now(t)} : usb'[s] = usb[s]
  BY <1>1, <1>2 DEF Shut, Typed
<1>4. ASSUME NEW s \in Sensors, s = Now(t)
      PROVE  Tells(s)'
  BY <1>3, <1>4 DEF Tells
<1> QED BY <1>1, <1>2, <1>3, <1>4, EndTells

LEMMA CallsTell ==
  ASSUME Sound, Told, NEW c \in Callers, Calls(c)
  PROVE  Told'
<1>1. c \in Threads /\ c # Main
  BY MpesAssumption DEF Threads
<1>2. CASE Call(c) \/ PanelTurnOn(c)
  <2>1. UNCHANGED <<usb, position, errors, dismissed>>
    BY <1>2 DEF Call, PanelTurnOn, hardware, sensor
  <2>2. pc[c] = "idle" /\ \E method, todo : Begins(c, method, todo)
    BY <1>2 DEF Call, PanelTurnOn, Ready
  <2>3. \A u \in Threads \ {c} : pc'[u] = pc[u] /\ loc'[u] = loc[u]
    BY <2>2 DEF Begins, At, Sound, Typed
  <2>4. ASSUME NEW s \in Sensors
        PROVE  Tells(s)'
    <3>1. WillReadjust(s) => WillReadjust(s)'
      BY <1>1, <2>3 DEF WillReadjust, Threads
    <3>2. pc'[Main] = pc[Main]
      BY <1>1, <2>3 DEF Threads
    <3>3. \A u \in Threads : pc[u] \in Toggling \cup {"expose"} /\ Now(u) = s =>
            pc'[u] \in Toggling \cup {"expose"} /\ loc'[u].todo = loc[u].todo
      BY <2>2, <2>3 DEF Toggling
    <3> QED BY <2>1, <3>1, <3>2, <3>3, TellsKept DEF Told
  <2> QED BY <2>4 DEF Told
<1>3. CASE PanelTurnOff(c)
  BY <1>3 DEF PanelTurnOff, Told, Tells
<1>4. CASE ClearErrors(c)
  <2>1. UNCHANGED <<usb, position, pc, loc>>
    BY <1>4 DEF ClearErrors, hardware
  <2>2. PICK s \in Sensors :
          /\ \E cleared : errors' = [errors EXCEPT ![s] = @ \ cleared]
          /\ dismissed' = [dismissed EXCEPT ![s] = TRUE]
    BY <1>4 DEF ClearErrors
  <2>3. dismissed'[s]
        /\ \A x \in Sensors \ {s} : dismissed'[x] = dismissed[x] /\ errors'[x] = errors[x]
    BY <2>2 DEF Sound, Typed
  <2>4. ASSUME NEW x \in Sensors
        PROVE  Tells(x)'
    <3>1. CASE x = s
      BY <2>3, <3>1 DEF Tells
    <3>2. CASE x # s
      BY <2>1, <2>3, <3>2, TellsKept DEF Told, WillReadjust
    <3> QED BY <3>1, <3>2
  <2> QED BY <2>4 DEF Told
<1> QED BY <1>2, <1>3, <1>4 DEF Calls

LEMMA InitTells == Init => Told
<1> SUFFICES ASSUME Init PROVE Told
  OBVIOUS
<1>1. pc[Main] = "down"
  BY DEF Init, Threads
<1> QED BY <1>1 DEF Told, Tells

LEMMA NextTells ==
  ASSUME NoSeriesCut
  PROVE  Sound /\ Sequel /\ Known /\ Told /\ [Next]_vars => Told'
<1> SUFFICES ASSUME Sound, Sequel, Known, Told, [Next]_vars PROVE Told'
  OBVIOUS
<1>1. CASE Start
  BY <1>1 DEF Start, Told, Tells
<1>2. ASSUME NEW t \in Threads, Crash(t) PROVE Told'
  <2>1. pc'[Main] = "down"
    BY <1>2 DEF Crash, Threads
  <2> QED BY <2>1 DEF Told, Tells
<1>3. ASSUME NEW t \in Threads, Step(t) PROVE Told'
  BY <1>2, <1>3, RefuseTells, LockTells, DisableTells, EnableTells, FindTells,
     AdjustTells, GiveUpTells, ReadTells, ShutTells
  DEF Step, Initializing, Exposing
<1>4. ASSUME NEW c \in Callers, Calls(c) PROVE Told'
  BY <1>4, CallsTell
<1>5. CASE UNCHANGED vars
  BY <1>5 DEF vars, hardware, sensor, Told, Tells, Settled, WillReadjust, Now
<1> QED BY <1>1, <1>3, <1>4, <1>5 DEF Next

LEMMA ToldTrue == Sound /\ Told => TruePosition
<1> SUFFICES ASSUME Sound, Told, NEW s \in Sensors, AtRest(s), pc[Main] = "idle",
                    ErrorState(s) # "fatal", position[s].shape # "severe"
             PROVE  position[s].kind = "measured" /\ position[s].of = s
  BY DEF TruePosition
<1>1. usb[s] /\ ~busy[s] /\ ~dismissed[s] /\ errors[s] \cap Fatal = {}
  BY DEF AtRest, DeviceState, ErrorState
<1>2. Settled(s, Toggling \cup {"expose"})
  BY <1>1 DEF Settled, Sound, Locked, Worker, Working
<1>3. ~WillReadjust(s)
  <2>1. loc[Main].todo = <<>>
    BY ConstantsTyped DEF Sound, Queued, Working, Toggling
  <2> QED BY <2>1 DEF WillReadjust
<1> QED BY <1>1, <1>2, <1>3 DEF Told, Tells

\* Where one operator at a time switches sensors on and no camera stops in the
\* middle of a series of images, the position of a sensor that is on, at rest and
\* without a fatal error was measured, and by its own camera, or is severely
\* uneven (MPES::__updatePosition).
THEOREM PositionsAreTrue ==
  ASSUME OneSwitches, NoSeriesCut
  PROVE  Spec => []TruePosition
<1>1. Init => Sound /\ Sequel /\ Known /\ Told
  BY InitSound, InitSequel, InitKnown, InitTells
<1>2. Sound /\ Sequel /\ Known /\ Told /\ [Next]_vars
        => (Sound /\ Sequel /\ Known /\ Told)'
  BY NextSound, NextSequel, NextKnown, NextTells
<1>3. Sound /\ Sequel /\ Known /\ Told => TruePosition
  BY ToldTrue
<1> QED BY <1>1, <1>2, <1>3, PTL DEF Spec

-----------------------------------------------------------------------------
(* The exposure that __setExposure leaves *)

RightExposure(t) ==
  LET s == Now(t) IN
  \/ ~usb[s] \/ dismissed[s]
  \/ CamerasOf(s) # {} /\ InRange(Intensity(t, device'[s].exposure))
  \/ errors'[s] \cap {0, 1, 2, 3, 4} # {}

LEMMA ConcludeRight ==
  ASSUME NoSeriesCut, Sound, Known, NEW t \in Threads, Conclude(t)
  PROVE  RightExposure(t)
<1> DEFINE s == Now(t)
           g == loc[t].scene.gain
           e == device[s].exposure
           extreme == loc[t].extreme
<1> SUFFICES ASSUME usb[s], ~dismissed[s], errors'[s] \cap {0, 1, 2, 3, 4} = {}
             PROVE  CamerasOf(s) # {} /\ InRange(Intensity(t, device'[s].exposure))
  BY DEF RightExposure
<1>1. /\ pc[t] \in {"expose", "capture"} /\ s \in Sensors
      /\ errors[s] \ {4, 5, 6} \subseteq errors'[s]
  BY ReadingLeaves
<1>2. 0 \notin errors[s]
  BY <1>1
<1>3. CamerasOf(s) = {s}
  BY <1>1, <1>2, OneCamera
<1>4. PICK x \in Captures(t, s) :
        LET i == x.shown.intensity
            next == NextExposure(i, e, extreme)
        IN  /\ ~LoopsOn(i, next)
            /\ device' = [device EXCEPT ![s].shot = x.shot,
                                       ![s].exposure = ExposureLeft(e, next)]
            /\ errors' = [errors EXCEPT ![s] = (@ \ {4, 5, 6}) \cup ReadingErrors(x.shown)
                                                 \cup ExposureErrors(i, next)]
  BY DEF Conclude
<1> DEFINE i == x.shown.intensity
           next == NextExposure(i, e, extreme)
<1>5. /\ ReadingErrors(x.shown) \subseteq errors'[s]
      /\ ExposureErrors(i, next) \subseteq errors'[s]
  BY <1>1, <1>4 DEF Sound, Typed
<1>6. i = g * e
  <2>1. x.shown = Reading("measured", s, Intensity(t, e), loc[t].scene.shape)
    BY <1>1, <1>2, <1>5, CaptureTells
  <2> QED BY <2>1 DEF Reading, Intensity
<1>7. g \in Nat /\ e \in Limits /\ extreme \in BOOLEAN
  <2>1. loc[t] \in Locals /\ device[s] \in Devices
    BY <1>1 DEF Sound, Typed
  <2> QED BY <2>1 DEF Locals, Devices
<1>8. device'[s].exposure = ExposureLeft(e, next)
  <2>1. device[s] \in Devices /\ device \in [Sensors -> Devices]
    BY <1>1 DEF Sound, Typed
  <2>2. device' = [device EXCEPT ![s].shot = x.shot, ![s].exposure = ExposureLeft(e, next)]
    BY <1>4
  <2> DEFINE left == ExposureLeft(e, next)
  <2> HIDE DEF s, next, left
  <2> QED BY <1>1, <2>1, <2>2 DEF Devices, left
<1>9. ~LoopsOn(i, next)
  BY <1>4
<1>10. InRange(g * ExposureLeft(e, next))
  <2> HIDE DEF s, g, e, extreme
  <2>1. \/ InRange(g * ExposureLeft(e, next))
        \/ 2 \in ExposureErrors(i, next) \/ 4 \in ExposureErrors(i, next)
    BY <1>6, <1>7, <1>9, LeftInRange
  <2> QED BY <1>5, <2>1
<1> QED BY <1>1, <1>3, <1>8, <1>10 DEF Intensity

\* Under the same conditions, whatever a sensor sees, from any exposure it
\* starts at: the exposure that __setExposure leaves is right for what the
\* sensor sees, or the sensor has an error (MPES::__setExposure).
THEOREM ExposuresAreRight ==
  ASSUME OneSwitches, NoSeriesCut
  PROVE  Spec => ExposureRight
<1>1. Init => Sound /\ Sequel /\ Known
  BY InitSound, InitSequel, InitKnown
<1>2. Sound /\ Sequel /\ Known /\ [Next]_vars => (Sound /\ Sequel /\ Known)'
  BY NextSound, NextSequel, NextKnown
<1>3. Sound /\ Sequel /\ Known /\ [Next]_vars =>
        [\A t \in Threads : Conclude(t) => RightExposure(t)]_vars
  BY ConcludeRight
<1>4. Spec => [][\A t \in Threads : Conclude(t) => RightExposure(t)]_vars
  BY <1>1, <1>2, <1>3, PTL DEF Spec
<1> QED BY <1>4 DEF ExposureRight, RightExposure
=============================================================================
