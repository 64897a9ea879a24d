---------------------------- MODULE PlatformProofs ----------------------------
(***************************************************************************)
(* The platform for every number of actuators, every software range and    *)
(* every set of callers: its types, its drivers, when its methods exclude  *)
(* one another, what a stop halts, and when a motion arrives.              *)
(***************************************************************************)
EXTENDS Platform, WellFoundedInduction, TLAPS

-----------------------------------------------------------------------------
(* Least and greatest numbers *)

\* The least-number principle, which also stands in for induction.
LEMMA LeastNatural ==
  ASSUME NEW T \in SUBSET Nat, T # {}
  PROVE  \E x \in T : \A y \in T : x <= y
<1> DEFINE R == OpToRel(<, Nat)
<1>1. IsWellFoundedOn(R, Nat)
  BY NatLessThanWellFounded
<1>2. \A x, y \in T : y < x => <<y, x>> \in R
  BY DEF OpToRel
<1> HIDE DEF R
<1>3. PICK x \in T : \A y \in T : ~(<<y, x>> \in R)
  BY <1>1, WFMin
<1>4. \A y \in T : ~(y < x)
  BY <1>2, <1>3
<1> QED
  BY <1>4, SMT

LEMMA LeastActuator ==
  ASSUME NEW S \in SUBSET Actuators, S # {}
  PROVE  Min(S) \in S
<1>1. S \in SUBSET Nat
  BY PlatformAssumption DEF Actuators
<1>2. \E x \in S : \A y \in S : x <= y
  BY <1>1, LeastNatural
<1> QED
  BY <1>2 DEF Min

\* One of the actuators has the greatest value.
LEMMA GreatestExists ==
  ASSUME NEW f \in [Actuators -> Nat]
  PROVE  \E a \in Actuators : \A b \in Actuators : f[b] <= f[a]
<1> DEFINE Bad == {n \in Actuators :
                     ~ \E a \in 1 .. n : \A b \in 1 .. n : f[b] <= f[a]}
<1>0. NumActuators \in Actuators /\ Actuators \subseteq Nat
  BY PlatformAssumption DEF Actuators
<1>1. SUFFICES ASSUME Bad # {} PROVE FALSE
  BY <1>0 DEF Actuators
<1>2. PICK m \in Bad : \A n \in Bad : m <= n
  BY <1>0, <1>1, LeastNatural
<1>3. m \in Actuators /\ m \in Nat
  BY <1>0
<1>4. CASE m = 1
  <2>1. \A b \in 1 .. 1 : b = 1 /\ f[b] <= f[1]
    BY <1>3, <1>4
  <2> QED BY <1>4, <2>1
<1>5. CASE m # 1
  <2>0. m - 1 \in Actuators
    BY <1>3, <1>5, PlatformAssumption DEF Actuators
  <2>1. m - 1 \notin Bad
    <3>1. ~(m <= m - 1)
      BY <1>3
    <3> QED BY <1>2, <3>1
  <2>2. PICK a \in 1 .. (m - 1) : \A b \in 1 .. (m - 1) : f[b] <= f[a]
    BY <2>0, <2>1
  <2>3. /\ a \in Actuators /\ a \in 1 .. m /\ m \in 1 .. m
        /\ f[a] \in Nat /\ f[m] \in Nat
    BY <1>3, PlatformAssumption DEF Actuators
  <2>4. \A b \in 1 .. m : f[b] \in Nat /\ (b \in 1 .. (m - 1) \/ b = m)
    BY <1>3, PlatformAssumption DEF Actuators
  <2>5. CASE f[m] <= f[a]
    BY <2>2, <2>3, <2>4, <2>5
  <2>6. CASE f[a] <= f[m]
    <3>1. \A b \in 1 .. m : f[b] <= f[m]
      BY <2>2, <2>3, <2>4, <2>6
    <3> QED BY <2>3, <3>1
  <2> QED BY <2>3, <2>5, <2>6
<1> QED BY <1>4, <1>5

-----------------------------------------------------------------------------
(* Steps, rounds and what is owed *)

LEMMA IterationsNatural ==
  ASSUME NEW n \in Int
  PROVE  Iterations(n) \in Nat
<1>1. Magnitude(n) \in Nat
  BY DEF Magnitude
<1>2. CASE n = 0
  BY <1>2 DEF Iterations
<1>3. CASE n # 0
  <2>1. Magnitude(n) - 1 \in Nat
    BY <1>3 DEF Magnitude
  <2>2. (Magnitude(n) - 1) \div RecordingInterval \in Nat
    BY <2>1, PlatformAssumption
  <2> QED BY <1>3, <2>2 DEF Iterations
<1> QED BY <1>2, <1>3

LEMMA MostIterationsGreatest ==
  ASSUME NEW left \in PerActuator
  PROVE  /\ MostIterations(left) \in Nat
         /\ \A a \in Actuators : Iterations(left[a]) <= MostIterations(left)
<1> DEFINE f == [a \in Actuators |-> Iterations(left[a])]
           S == {Iterations(left[a]) : a \in Actuators}
<1>1. f \in [Actuators -> Nat]
  BY IterationsNatural DEF PerActuator
<1>2. \E x \in S : \A y \in S : x >= y
  BY <1>1, GreatestExists
<1>3. Max(S) \in S /\ \A y \in S : Max(S) >= y
  BY <1>2 DEF Max
<1> QED BY <1>1, <1>3 DEF MostIterations

LEMMA QuotientInteger ==
  ASSUME NEW n \in Int, NEW d \in Nat, d > 0
  PROVE  Quotient(n, d) \in Int
<1>1. Magnitude(n) \in Nat /\ Sign(n) \in Int
  BY DEF Magnitude, Sign
<1>2. Magnitude(n) \div d \in Int
  BY <1>1
<1> QED BY <1>1, <1>2 DEF Quotient

LEMMA BoundedInteger ==
  ASSUME NEW n \in Int
  PROVE  Bounded(n) \in Int
<1>1. Sign(n) \in {-1, 0, 1}
  BY DEF Sign
<1> QED BY <1>1, PlatformAssumption DEF Bounded

-----------------------------------------------------------------------------
(* The type invariant *)

DeviceTyped ==
  /\ on \in BOOLEAN /\ powered \in BOOLEAN /\ busy \in BOOLEAN
  /\ latched \subseteq Actuators \cup {OutOfRange}
  /\ act \in [Actuators -> Actuator]

\* A motion in its loop has rounds left to divide its steps by.
CallersTyped ==
  /\ pc \in [Callers -> Phases]
  /\ loc \in [Callers -> Locals]
  /\ told \in [Callers -> SUBSET Callers]
  /\ \A c \in Callers : pc[c] \in {"loop", "chunk"} => loc[c].rounds > 0

Typed == DeviceTyped /\ CallersTyped

LEMMA NoLocalsTyped ==
  NoLocals \in Locals
BY PlatformAssumption
DEF NoLocals, Locals, Methods, PanelMethods, Zero, PerActuator, Actuators

LEMMA GoOnTyped ==
  ASSUME CallersTyped, NEW c \in Callers, NEW phase \in Phases,
         NEW l \in Locals, phase \in {"loop", "chunk"} => l.rounds > 0,
         GoOn(c, phase, l)
  PROVE  CallersTyped'
BY DEF CallersTyped, GoOn

LEMMA ReturnTyped ==
  ASSUME CallersTyped, NEW c \in Callers, Return(c)
  PROVE  CallersTyped'
BY NoLocalsTyped
DEF CallersTyped, Return, Phases

LEMMA NextUpTyped ==
  ASSUME CallersTyped, NEW c \in Callers, NEW l \in Locals, NEW j,
         l.rounds > 0 \/ l.rounds = MostIterations(l.left), NextUp(c, l, j)
  PROVE  CallersTyped'
<1> DEFINE more == {a \in Actuators : Iterations(l.left[a]) > 1}
           here == {a \in more : a >= j}
<1>0. l.left \in PerActuator /\ l.rounds \in Nat
  BY DEF Locals
<1>1. /\ MostIterations(l.left) \in Nat
      /\ more # {} => MostIterations(l.left) > 0
  <2>1. \A a \in Actuators : Iterations(l.left[a]) \in Nat
    BY <1>0, IterationsNatural DEF PerActuator
  <2> QED BY <1>0, <2>1, MostIterationsGreatest
<1>2. CASE here # {}
  <2>1. Min(here) \in Actuators
    BY <1>2, LeastActuator
  <2>2. [l EXCEPT !.i = Min(here)] \in Locals
    BY <2>1 DEF Locals
  <2>3. l.rounds > 0
    BY <1>1, <1>2
  <2>4. GoOn(c, "loop", [l EXCEPT !.i = Min(here)])
    BY <1>2 DEF NextUp
  <2>5. [l EXCEPT !.i = Min(here)].rounds = l.rounds
    BY DEF Locals
  <2>6. "loop" \in Phases
    BY DEF Phases, Moving, Heeding
  <2> QED BY <2>2, <2>3, <2>4, <2>5, <2>6, GoOnTyped
<1>3. CASE more = {}
  <2>0. 1 \in Actuators
    BY PlatformAssumption DEF Actuators
  <2>1. [l EXCEPT !.i = 1] \in Locals
    BY <2>0 DEF Locals
  <2>2. GoOn(c, "settling", [l EXCEPT !.i = 1])
    BY <1>3 DEF NextUp
  <2>3. "settling" \in Phases
    BY DEF Phases, Moving, Heeding
  <2> QED BY <2>1, <2>2, <2>3, GoOnTyped
<1>4. CASE here = {} /\ more # {}
  <2> DEFINE k == [l EXCEPT !.i = Min(more), !.rounds = MostIterations(l.left)]
  <2>1. Min(more) \in Actuators
    BY <1>4, LeastActuator
  <2>2. k \in Locals /\ k.rounds = MostIterations(l.left)
    BY <1>1, <2>1 DEF Locals
  <2>3. GoOn(c, "loop", k)
    BY <1>4 DEF NextUp
  <2>4. "loop" \in Phases
    BY DEF Phases, Moving, Heeding
  <2> HIDE DEF k
  <2> QED BY <1>1, <1>4, <2>2, <2>3, <2>4, GoOnTyped
<1> QED BY <1>2, <1>3, <1>4

LEMMA SetDriversTyped ==
  ASSUME DeviceTyped, NEW enabled \in BOOLEAN, setDrivers(enabled)
  PROVE  act' \in [Actuators -> Actuator]
BY DEF DeviceTyped, setDrivers, Actuator

LEMMA LatchedTyped ==
  ASSUME DeviceTyped, LookAtErrors
  PROVE  latched' \subseteq Actuators \cup {OutOfRange}
BY DEF DeviceTyped, LookAtErrors, checkActuatorStatus

LEMMA EndMotionTyped ==
  ASSUME Typed, NEW c \in Callers, EndMotion(c)
  PROVE  /\ CallersTyped'
         /\ busy' \in BOOLEAN
         /\ act' \in [Actuators -> Actuator]
BY ReturnTyped, SetDriversTyped DEF EndMotion, Typed

LEMMA LocalsFields ==
  ASSUME Typed, NEW c \in Callers
  PROVE  /\ loc[c] \in Locals
         /\ loc[c].method \in Methods
         /\ loc[c].a \in Actuators /\ loc[c].i \in Actuators
         /\ loc[c].steps \in PerActuator /\ loc[c].goal \in PerActuator
         /\ loc[c].owed \in PerActuator /\ loc[c].left \in PerActuator
         /\ loc[c].rounds \in Nat
BY DEF Typed, CallersTyped, Locals

LEMMA ActuatorFields ==
  ASSUME Typed, NEW a \in Actuators
  PROVE  /\ act[a] \in Actuator
         /\ act[a].position \in Int
         /\ act[a].fatal \in BOOLEAN /\ act[a].busy \in BOOLEAN
         /\ act[a].driver \in BOOLEAN
BY DEF Typed, DeviceTyped, Actuator

LEMMA CallTyped ==
  ASSUME Typed, NEW c \in Callers, Call(c)
  PROVE  Typed'
<1>1. PICK m \in MethodsOf[c] \ {"Stop"}, a \in Actuators :
        \E s \in Arguments(m) :
          GoOn(c, "admitted", [NoLocals EXCEPT !.method = m, !.a = a,
                                               !.steps = s])
  BY DEF Call
<1>2. PICK s \in Arguments(m) :
        GoOn(c, "admitted", [NoLocals EXCEPT !.method = m, !.a = a,
                                             !.steps = s])
  BY <1>1
<1>3. m \in Methods
  BY PlatformAssumption
<1>4. s \in PerActuator
  BY PlatformAssumption DEF Arguments, PerActuator, Zero
<1>5. [NoLocals EXCEPT !.method = m, !.a = a, !.steps = s] \in Locals
  BY <1>3, <1>4, NoLocalsTyped DEF Locals
<1>6. "admitted" \in Phases
  BY DEF Phases
<1>7. CallersTyped'
  BY <1>2, <1>5, <1>6, GoOnTyped DEF Typed
<1> QED
  BY <1>7 DEF Typed, DeviceTyped, Call

LEMMA PowerTyped ==
  ASSUME Typed, NEW c \in Callers, TurnOn(c) \/ TurnOff(c)
  PROVE  Typed'
<1>1. CASE TurnOn(c)
  <2>1. CallersTyped'
    BY <1>1, ReturnTyped DEF Typed, TurnOn
  <2> QED BY <1>1, <2>1 DEF Typed, DeviceTyped, TurnOn
<1>2. CASE TurnOff(c)
  <2>1. CallersTyped'
    BY <1>2, ReturnTyped DEF Typed, TurnOff
  <2>2. act' \in [Actuators -> Actuator]
    BY <1>2, SetDriversTyped DEF TurnOff, Typed, DeviceTyped
  <2> QED BY <1>2, <2>1, <2>2 DEF Typed, DeviceTyped, TurnOff
<1> QED BY <1>1, <1>2

LEMMA ClearingTyped ==
  ASSUME Typed, NEW c \in Callers,
         ClearErrors(c) \/ ActClearAllErrors(c) \/ ActTurnOff(c)
  PROVE  Typed'
<1>0. loc[c].a \in Actuators
  BY LocalsFields
<1>1. CallersTyped'
  BY ReturnTyped DEF Typed, ClearErrors, ActClearAllErrors, ActTurnOff
<1>2. CASE ClearErrors(c)
  <2>1. act' \in [Actuators -> Actuator]
    BY <1>2 DEF ClearErrors, Typed, DeviceTyped, Actuator
  <2> QED BY <1>1, <1>2, <2>1 DEF Typed, DeviceTyped, ClearErrors
<1>3. CASE ActClearAllErrors(c)
  <2>1. act' \in [Actuators -> Actuator]
    BY <1>0, <1>3 DEF ActClearAllErrors, Change, Typed, DeviceTyped, Actuator
  <2> QED BY <1>1, <1>3, <2>1 DEF Typed, DeviceTyped, ActClearAllErrors
<1>4. CASE ActTurnOff(c)
  <2>1. act' \in [Actuators -> Actuator]
    BY <1>0, <1>4 DEF ActTurnOff, Change, Typed, DeviceTyped, Actuator
  <2> QED BY <1>1, <1>4, <2>1 DEF Typed, DeviceTyped, ActTurnOff
<1> QED BY <1>2, <1>3, <1>4

LEMMA StopTyped ==
  ASSUME Typed, NEW c \in Callers, StopBegin(c) \/ StopEnd(c)
  PROVE  Typed'
<1>1. CASE StopBegin(c)
  BY <1>1 DEF StopBegin, Typed, DeviceTyped, CallersTyped, Phases
<1>2. CASE StopEnd(c)
  <2>1. CallersTyped'
    BY <1>2, ReturnTyped DEF Typed, StopEnd
  <2> QED BY <1>2, <2>1 DEF Typed, DeviceTyped, StopEnd
<1> QED BY <1>1, <1>2

LEMMA GoalTyped ==
  ASSUME Typed, NEW c \in Callers
  PROVE  /\ Goal(c) \in PerActuator
         /\ Measured(c) \in [Actuators -> Actuator]
         /\ \A a \in Actuators, g \in Int : act[a].position - g \in Int
<1>1. \A a \in Actuators : /\ act[a] \in Actuator
                           /\ act[a].position \in Int
                           /\ act[a].busy \in BOOLEAN
  BY ActuatorFields
<1>2. loc[c].steps \in PerActuator
  BY LocalsFields
<1>3. Goal(c) \in PerActuator
  BY <1>1, <1>2, PlatformAssumption DEF Goal, PerActuator
<1>4. Measured(c) \in [Actuators -> Actuator]
  BY <1>1 DEF Measured, Actuator
<1> QED BY <1>1, <1>3, <1>4

LEMMA BeginMoveTyped ==
  ASSUME Typed, NEW c \in Callers,
         MeasureFirst(c) \/ RefuseMove(c) \/ BeginMove(c)
  PROVE  Typed'
<1>0. loc[c] \in Locals
  BY LocalsFields
<1>1. CASE MeasureFirst(c)
  <2>1. "measured" \in Phases
    BY DEF Phases
  <2>2. CallersTyped'
    BY <1>0, <1>1, <2>1, GoOnTyped DEF MeasureFirst, Typed
  <2>3. act' \in [Actuators -> Actuator]
    BY <1>1 DEF MeasureFirst, Typed, DeviceTyped, Actuator
  <2> QED BY <1>1, <2>2, <2>3 DEF MeasureFirst, Typed, DeviceTyped
<1>2. CASE RefuseMove(c)
  <2>1. CallersTyped'
    BY <1>2, ReturnTyped DEF RefuseMove, Typed
  <2> QED BY <1>2, <2>1, GoalTyped DEF RefuseMove, Typed, DeviceTyped
<1>3. CASE BeginMove(c)
  <2> DEFINE left == [a \in Actuators |-> StepsRemaining(a, Goal(c))]
             l == [loc[c] EXCEPT !.steps = Zero, !.goal = Goal(c),
                                 !.left = left, !.owed = Zero,
                                 !.rounds = MostIterations(left)]
  <2>1. left \in PerActuator
    BY GoalTyped DEF StepsRemaining, PerActuator
  <2>2. Zero \in PerActuator
    BY DEF Zero, PerActuator
  <2>3. MostIterations(left) \in Nat
    BY <2>1, MostIterationsGreatest
  <2>4. /\ l \in Locals
        /\ l.rounds = MostIterations(l.left)
    <3> HIDE DEF left
    <3> QED BY <1>0, <2>1, <2>2, <2>3, GoalTyped DEF Locals
  <2>5. NextUp(c, l, 1)
    BY <1>3 DEF BeginMove
  <2>6. CallersTyped'
    <3> HIDE DEF l
    <3> QED BY <2>4, <2>5, NextUpTyped DEF Typed
  <2>7. act' \in [Actuators -> Actuator]
    <3>1. act' = [b \in Actuators |-> [Measured(c)[b] EXCEPT !.driver = TRUE]]
      BY <1>3 DEF BeginMove
    <3>2. \A r \in Actuator : [r EXCEPT !.driver = TRUE] \in Actuator
      BY DEF Actuator
    <3>3. \A b \in Actuators : Measured(c)[b] \in Actuator
      BY GoalTyped
    <3> QED BY <3>1, <3>2, <3>3
  <2> QED BY <1>3, <2>6, <2>7 DEF BeginMove, Typed, DeviceTyped
<1> QED BY <1>1, <1>2, <1>3

LEMMA ChangeTyped ==
  ASSUME Typed, NEW a \in Actuators, NEW after \in Actuator
  PROVE  /\ [act EXCEPT ![a] = after] \in [Actuators -> Actuator]
         /\ \A value \in BOOLEAN :
              /\ Change(a, "busy", value) => act' \in [Actuators -> Actuator]
              /\ Change(a, "driver", value) => act' \in [Actuators -> Actuator]
         /\ [b \in Actuators |-> [(IF b = a THEN after ELSE act[b])
                                    EXCEPT !.driver = FALSE]]
              \in [Actuators -> Actuator]
<1>1. [act EXCEPT ![a] = after] \in [Actuators -> Actuator]
  BY DEF Typed, DeviceTyped
<1>2. \A value \in BOOLEAN :
        /\ Change(a, "busy", value) => act' \in [Actuators -> Actuator]
        /\ Change(a, "driver", value) => act' \in [Actuators -> Actuator]
  BY DEF Change, Typed, DeviceTyped, Actuator
<1>3. \A b \in Actuators : (IF b = a THEN after ELSE act[b]) \in Actuator
  BY ActuatorFields
<1>4. \A r \in Actuator : [r EXCEPT !.driver = FALSE] \in Actuator
  BY DEF Actuator
<1> QED BY <1>1, <1>2, <1>3, <1>4

LEMMA OutcomesTyped ==
  ASSUME Typed, NEW a \in Actuators, NEW steps \in Int,
         NEW after \in Outcomes(a, steps)
  PROVE  after \in Actuator /\ after.position \in Int
<1>0. act[a] \in Actuator /\ act[a].position \in Int
  BY ActuatorFields
<1>1. Sign(steps) \in {-1, 0, 1} /\ Magnitude(steps) \in Int
  BY DEF Sign, Magnitude
<1>2. \A t \in {0, Magnitude(steps)} : Sign(steps) * t \in Int
  BY <1>1
<1>3. CASE \E miss \in -Tolerance .. Tolerance :
             after = [act[a] EXCEPT !.busy = FALSE,
                                    !.position = @ - steps + miss]
  <2>1. PICK miss \in -Tolerance .. Tolerance :
             after = [act[a] EXCEPT !.busy = FALSE,
                                    !.position = @ - steps + miss]
    BY <1>3
  <2>2. act[a].position - steps + miss \in Int
    BY <1>0, PlatformAssumption
  <2> QED BY <1>0, <2>1, <2>2 DEF Actuator
<1>4. CASE \E taken \in {0, Magnitude(steps)} :
             after = [act[a] EXCEPT !.busy = FALSE, !.fatal = TRUE,
                                    !.position = @ - Sign(steps) * taken]
  <2>1. PICK taken \in {0, Magnitude(steps)} :
             after = [act[a] EXCEPT !.busy = FALSE, !.fatal = TRUE,
                                    !.position = @ - Sign(steps) * taken]
    BY <1>4
  <2>2. act[a].position - Sign(steps) * taken \in Int
    BY <1>0, <1>2
  <2> QED BY <1>0, <2>1, <2>2 DEF Actuator
<1> QED BY <1>3, <1>4 DEF Outcomes

LEMMA StopMotionTyped ==
  ASSUME Typed, NEW c \in Callers, StopMotion(c) \/ BeginSettling(c)
  PROVE  Typed'
<1>0. loc[c] \in Locals /\ "settle" \in Phases
  BY LocalsFields DEF Phases, Moving, Heeding
<1>1. CASE StopMotion(c)
  <2>1. latched' \subseteq Actuators \cup {OutOfRange}
    BY <1>1, LatchedTyped DEF StopMotion, Typed, DeviceTyped
  <2> QED BY <1>1, <2>1, EndMotionTyped DEF StopMotion, Typed, DeviceTyped
<1>2. CASE BeginSettling(c)
  <2>1. latched' \subseteq Actuators \cup {OutOfRange}
    BY <1>2, LatchedTyped DEF BeginSettling, Typed
  <2>2. CASE FatalNow
    BY <1>2, <2>1, <2>2, EndMotionTyped DEF BeginSettling, Typed, DeviceTyped
  <2>3. CASE ~FatalNow
    <3>1. CallersTyped'
      BY <1>0, <1>2, <2>3, GoOnTyped DEF BeginSettling, Typed
    <3> QED BY <1>2, <2>1, <2>3, <3>1 DEF BeginSettling, Typed, DeviceTyped
  <2> QED BY <2>2, <2>3
<1> QED BY <1>1, <1>2

LEMMA VisitTyped ==
  ASSUME Typed, NEW c \in Callers, Visit(c)
  PROVE  Typed'
<1> DEFINE l == loc[c]
           a == l.i
           owed == Bounded(l.owed[a] + Quotient(l.left[a], l.rounds))
           due == Magnitude(owed) > RecordingInterval
           now == [l EXCEPT !.owed[a] = owed]
           off == [now EXCEPT !.left[a] = StepsRemaining(a, l.goal)]
<1>0. /\ l \in Locals /\ a \in Actuators
      /\ l.owed \in PerActuator /\ l.left \in PerActuator
      /\ l.goal \in PerActuator
      /\ l.rounds \in Nat /\ l.rounds > 0
  <2>1. l.rounds > 0
    BY DEF Typed, CallersTyped, Visit
  <2> QED BY <2>1, LocalsFields
<1>1. owed \in Int
  <2>1. l.owed[a] \in Int /\ l.left[a] \in Int
    BY <1>0 DEF PerActuator
  <2>2. Quotient(l.left[a], l.rounds) \in Int
    BY <1>0, <2>1, QuotientInteger
  <2>3. l.owed[a] + Quotient(l.left[a], l.rounds) \in Int
    BY <2>1, <2>2
  <2> QED BY <2>3, BoundedInteger
<1>2. now \in Locals /\ now.rounds = l.rounds /\ now.left = l.left
  <2> HIDE DEF owed, l
  <2>1. [l.owed EXCEPT ![a] = owed] \in PerActuator
    BY <1>0, <1>1 DEF PerActuator
  <2> QED BY <1>0, <2>1 DEF Locals
<1>3. off \in Locals /\ off.rounds = l.rounds
  <2>1. StepsRemaining(a, l.goal) \in Int
    BY <1>0, ActuatorFields DEF StepsRemaining, PerActuator
  <2>2. [now.left EXCEPT ![a] = StepsRemaining(a, l.goal)] \in PerActuator
    BY <1>0, <1>2, <2>1 DEF PerActuator
  <2> HIDE DEF now
  <2> QED BY <1>2, <2>2 DEF Locals
<1> HIDE DEF now, off
<1>4. CASE due /\ act[a].driver
  <2>1. Change(a, "busy", TRUE) /\ GoOn(c, "chunk", now)
    BY <1>4 DEF Visit, now
  <2>2. "chunk" \in Phases
    BY DEF Phases, Moving, Heeding
  <2>3. CallersTyped'
    BY <1>0, <1>2, <2>1, <2>2, GoOnTyped DEF Typed
  <2>4. act' \in [Actuators -> Actuator]
    BY <1>0, <2>1, ChangeTyped, ActuatorFields
  <2> QED BY <2>3, <2>4 DEF Visit, Typed, DeviceTyped
<1>5. CASE due /\ ~act[a].driver
  <2>1. NextUp(c, off, a + 1) /\ UNCHANGED act
    BY <1>5 DEF Visit, now, off
  <2>2. CallersTyped'
    BY <1>0, <1>3, <2>1, NextUpTyped DEF Typed
  <2> QED BY <2>1, <2>2 DEF Visit, Typed, DeviceTyped
<1>6. CASE ~due
  <2>1. NextUp(c, now, a + 1) /\ UNCHANGED act
    BY <1>6 DEF Visit, now
  <2>2. CallersTyped'
    BY <1>0, <1>2, <2>1, NextUpTyped DEF Typed
  <2> QED BY <2>1, <2>2 DEF Visit, Typed, DeviceTyped
<1> QED BY <1>4, <1>5, <1>6

LEMMA FinishChunkTyped ==
  ASSUME Typed, NEW c \in Callers, FinishChunk(c)
  PROVE  Typed'
<1> DEFINE l == loc[c]
           a == l.i
           chunk == Sign(l.owed[a]) * RecordingInterval
<1>0. /\ l \in Locals /\ a \in Actuators
      /\ l.owed \in PerActuator /\ l.left \in PerActuator
      /\ l.goal \in PerActuator
      /\ l.rounds \in Nat /\ l.rounds > 0
      /\ act[a].position \in Int
  <2>1. l.rounds > 0
    BY DEF Typed, CallersTyped, FinishChunk
  <2> QED BY <2>1, LocalsFields, ActuatorFields
<1>1. chunk \in Int
  <2>1. Sign(l.owed[a]) \in {-1, 0, 1}
    BY DEF Sign
  <2> QED BY <2>1, PlatformAssumption
<1>2. PICK after \in Outcomes(a, chunk) :
        /\ act' = [act EXCEPT ![a] = after]
        /\ NextUp(c, [l EXCEPT
                        !.owed[a] = Bounded(@ - (act[a].position - after.position)),
                        !.left[a] = after.position - l.goal[a]], a + 1)
  BY DEF FinishChunk
<1>3. after \in Actuator /\ after.position \in Int
  BY <1>0, <1>1, OutcomesTyped
<1> DEFINE owed == Bounded(l.owed[a] - (act[a].position - after.position))
           left == after.position - l.goal[a]
           k == [l EXCEPT !.owed[a] = owed, !.left[a] = left]
<1>4. owed \in Int /\ left \in Int
  BY <1>0, <1>3, BoundedInteger DEF PerActuator
<1>5. k \in Locals /\ k.rounds = l.rounds
  <2> HIDE DEF owed, left, l
  <2>1. /\ [l.owed EXCEPT ![a] = owed] \in PerActuator
        /\ [l.left EXCEPT ![a] = left] \in PerActuator
    BY <1>0, <1>4 DEF PerActuator
  <2> QED BY <1>0, <2>1 DEF Locals
<1>6. NextUp(c, k, a + 1)
  BY <1>2
<1>7. CallersTyped'
  <2> HIDE DEF k
  <2> QED BY <1>0, <1>5, <1>6, NextUpTyped DEF Typed
<1>8. act' \in [Actuators -> Actuator]
  BY <1>0, <1>2, <1>3, ChangeTyped
<1> QED BY <1>7, <1>8 DEF FinishChunk, Typed, DeviceTyped

LEMMA SettleTyped ==
  ASSUME Typed, NEW c \in Callers, Settle(c) \/ FinishHysteresis(c)
  PROVE  Typed'
<1> DEFINE l == loc[c]
           a == l.i
           next == [l EXCEPT !.i = @ + 1]
<1>0. /\ l \in Locals /\ a \in Actuators /\ l.left[a] \in Int
      /\ {"settle", "hysteresis"} \subseteq Phases
  BY LocalsFields DEF Phases, Moving, Heeding, Driving, PerActuator
<1>1. a # NumActuators => next \in Locals
  <2>1. a # NumActuators => a + 1 \in Actuators
    BY <1>0, PlatformAssumption DEF Actuators
  <2> QED BY <1>0, <2>1 DEF Locals
<1>2. CASE Settle(c)
  <2>1. CASE l.left[a] # 0 /\ act[a].driver
    <3>1. Change(a, "busy", TRUE) /\ GoOn(c, "hysteresis", l) /\ UNCHANGED busy
      BY <1>2, <2>1 DEF Settle
    <3>2. CallersTyped'
      BY <1>0, <3>1, GoOnTyped DEF Typed
    <3>3. act' \in [Actuators -> Actuator]
      BY <1>0, <3>1, ChangeTyped, ActuatorFields
    <3> QED BY <1>2, <3>1, <3>2, <3>3 DEF Settle, Typed, DeviceTyped
  <2>2. CASE ~(l.left[a] # 0 /\ act[a].driver) /\ a = NumActuators
    <3>1. EndMotion(c)
      BY <1>2, <2>2 DEF Settle, SettleNext
    <3> QED BY <1>2, <3>1, EndMotionTyped DEF Settle, Typed, DeviceTyped
  <2>3. CASE ~(l.left[a] # 0 /\ act[a].driver) /\ a # NumActuators
    <3>1. GoOn(c, "settle", next) /\ UNCHANGED <<busy, act>>
      BY <1>2, <2>3 DEF Settle, SettleNext
    <3>2. CallersTyped'
      BY <1>0, <1>1, <2>3, <3>1, GoOnTyped DEF Typed
    <3> QED BY <1>2, <3>1, <3>2 DEF Settle, Typed, DeviceTyped
  <2> QED BY <2>1, <2>2, <2>3
<1>3. CASE FinishHysteresis(c)
  <2>1. PICK after \in Outcomes(a, l.left[a]) :
          IF a = NumActuators
          THEN /\ act' = [b \in Actuators |->
                            [(IF b = a THEN after ELSE act[b])
                               EXCEPT !.driver = FALSE]]
               /\ busy' = FALSE
               /\ Return(c)
          ELSE /\ act' = [act EXCEPT ![a] = after]
               /\ GoOn(c, "settle", next)
               /\ UNCHANGED busy
    BY <1>3 DEF FinishHysteresis
  <2>2. after \in Actuator
    BY <1>0, OutcomesTyped
  <2>3. act' \in [Actuators -> Actuator]
    BY <1>0, <2>1, <2>2, ChangeTyped
  <2>4. CallersTyped' /\ busy' \in BOOLEAN
    <3>1. CASE a = NumActuators
      BY <2>1, <3>1, ReturnTyped DEF Typed
    <3>2. CASE a # NumActuators
      BY <1>0, <1>1, <2>1, <3>2, GoOnTyped DEF Typed, DeviceTyped
    <3> QED BY <3>1, <3>2
  <2> QED BY <1>3, <2>3, <2>4 DEF FinishHysteresis, Typed, DeviceTyped
<1> QED BY <1>2, <1>3

\* What a search for the end stop leaves in an actuator.
LEMMA FoundTyped ==
  ASSUME Typed, NEW a \in Actuators, NEW fatal \in BOOLEAN, NEW p \in Int
  PROVE  [act EXCEPT ![a].busy = FALSE, ![a].fatal = fatal, ![a].position = p]
           \in [Actuators -> Actuator]
<1> DEFINE f == [act EXCEPT ![a].busy = FALSE]
           g == [f EXCEPT ![a].fatal = fatal]
<1>1. f \in [Actuators -> Actuator]
  BY DEF Typed, DeviceTyped, Actuator
<1> HIDE DEF f
<1>2. g \in [Actuators -> Actuator]
  BY <1>1 DEF Actuator
<1> HIDE DEF g
<1>3. [g EXCEPT ![a].position = p] \in [Actuators -> Actuator]
  BY <1>2 DEF Actuator
<1> QED BY <1>3 DEF f, g

LEMMA FindHomeTyped ==
  ASSUME Typed, NEW c \in Callers, FindHome(c)
  PROVE  Typed'
<1>0. /\ loc[c] \in Locals /\ loc[c].i \in Actuators
      /\ {"coarse", "searched", "fine", "homing"} \subseteq Phases
  BY LocalsFields DEF Phases, Moving, Heeding, Driving
<1>1. CASE BeginFindHome(c)
  <2>1. latched' \subseteq Actuators \cup {OutOfRange}
    BY <1>1, LatchedTyped DEF BeginFindHome, Typed
  <2>2. CallersTyped'
    BY <1>0, <1>1, ReturnTyped, GoOnTyped DEF BeginFindHome, Typed
  <2>3. act' \in [Actuators -> Actuator]
    BY <1>1, SetDriversTyped DEF BeginFindHome, Typed, DeviceTyped
  <2> QED BY <1>1, <2>1, <2>2, <2>3 DEF BeginFindHome, Typed, DeviceTyped
<1>2. CASE EndCoarseSearch(c)
  <2>1. CallersTyped'
    BY <1>0, <1>2, GoOnTyped DEF EndCoarseSearch, Typed
  <2>2. act' \in [Actuators -> Actuator]
    BY <1>2, SetDriversTyped DEF EndCoarseSearch, Typed
  <2> QED BY <1>2, <2>1, <2>2 DEF EndCoarseSearch, Typed, DeviceTyped
<1>3. CASE Searched(c)
  <2>1. latched' \subseteq Actuators \cup {OutOfRange}
    BY <1>3, LatchedTyped DEF Searched, Typed
  <2>2. CallersTyped'
    BY <1>0, <1>3, ReturnTyped, GoOnTyped DEF Searched, Typed
  <2>3. act' \in [Actuators -> Actuator]
    BY <1>3, SetDriversTyped DEF Searched, Typed, DeviceTyped
  <2> QED BY <1>3, <2>1, <2>2, <2>3 DEF Searched, Typed, DeviceTyped
<1>4. CASE BeginHoming(c)
  <2>1. CallersTyped'
    BY <1>0, <1>4, GoOnTyped DEF BeginHoming, Typed
  <2>2. act' \in [Actuators -> Actuator]
    BY <1>0, <1>4, ChangeTyped, ActuatorFields DEF BeginHoming
  <2> QED BY <1>4, <2>1, <2>2 DEF BeginHoming, Typed, DeviceTyped
<1>5. CASE FinishHoming(c)
  <2> DEFINE a == loc[c].i
             next == [loc[c] EXCEPT !.i = @ + 1]
             Found(fatal, miss) ==
               [act EXCEPT ![a].busy = FALSE, ![a].fatal = fatal,
                           ![a].position = StopPosition + miss]
  <2>1. PICK fatal \in BOOLEAN, miss \in -Tolerance .. Tolerance :
          IF a = NumActuators
          THEN /\ act' = [b \in Actuators |->
                            [Found(fatal, miss)[b] EXCEPT !.driver = FALSE]]
               /\ busy' = FALSE
               /\ Return(c)
          ELSE /\ act' = Found(fatal, miss)
               /\ GoOn(c, "fine", next)
               /\ UNCHANGED busy
    BY <1>5 DEF FinishHoming
  <2>2. StopPosition + miss \in Int
    BY PlatformAssumption
  <2>3. Found(fatal, miss) \in [Actuators -> Actuator]
    BY <1>0, <2>2, FoundTyped
  <2>4. a # NumActuators => next \in Locals
    <3>1. a # NumActuators => a + 1 \in Actuators
      BY <1>0, PlatformAssumption DEF Actuators
    <3> QED BY <1>0, <3>1 DEF Locals
  <2>5. act' \in [Actuators -> Actuator]
    <3> HIDE DEF Found
    <3>1. \A r \in Actuator : [r EXCEPT !.driver = FALSE] \in Actuator
      BY DEF Actuator
    <3> QED BY <2>1, <2>3, <3>1
  <2>6. CallersTyped' /\ busy' \in BOOLEAN
    <3> HIDE DEF Found, next
    <3>1. CASE a = NumActuators
      BY <2>1, <3>1, ReturnTyped DEF Typed
    <3>2. CASE a # NumActuators
      BY <1>0, <2>1, <2>4, <3>2, GoOnTyped DEF Typed, DeviceTyped
    <3> QED BY <3>1, <3>2
  <2> QED BY <1>5, <2>5, <2>6 DEF FinishHoming, Typed, DeviceTyped
<1> QED BY <1>1, <1>2, <1>3, <1>4, <1>5 DEF FindHome

LEMMA ReadsTyped ==
  ASSUME Typed, ReadErrorState \/ MeasureLength
  PROVE  Typed'
<1>1. CASE ReadErrorState
  BY <1>1, LatchedTyped DEF ReadErrorState, Typed, DeviceTyped, CallersTyped
<1>2. CASE MeasureLength
  <2>0. PICK a \in Actuators, found \in BOOLEAN :
          act' = [act EXCEPT ![a].busy = FALSE, ![a].fatal = @ \/ found]
    BY <1>2 DEF MeasureLength
  <2>1. act' \in [Actuators -> Actuator]
    <3>1. (act[a].fatal \/ found) \in BOOLEAN
      OBVIOUS
    <3> QED BY <2>0, <3>1 DEF Typed, DeviceTyped, Actuator
  <2> QED BY <1>2, <2>1 DEF MeasureLength, Typed, DeviceTyped, CallersTyped
<1> QED BY <1>1, <1>2

LEMMA InitTyped ==
  Init => Typed
<1> SUFFICES ASSUME Init PROVE Typed
  OBVIOUS
<1>1. StopPosition \in Int /\ "idle" \in Phases
  BY PlatformAssumption DEF Phases
<1>2. DeviceTyped
  BY <1>1 DEF Init, DeviceTyped, Actuator
<1>3. CallersTyped
  BY <1>1, NoLocalsTyped DEF Init, CallersTyped
<1> QED BY <1>2, <1>3 DEF Typed

LEMMA NextTyped ==
  Typed /\ [Next]_vars => Typed'
<1> SUFFICES ASSUME Typed, [Next]_vars PROVE Typed'
  OBVIOUS
<1>1. ASSUME NEW c \in Callers,
             Call(c) \/ StopBegin(c) \/ Quick(c) \/ Motion(c) \/ FindHome(c)
      PROVE  Typed'
  <2>1. CASE Call(c)
    BY <2>1, CallTyped
  <2>2. CASE StopBegin(c)
    BY <2>2, StopTyped
  <2>3. CASE Quick(c)
    BY <2>3, PowerTyped, ClearingTyped, StopTyped DEF Quick
  <2>4. CASE Motion(c)
    BY <2>4, BeginMoveTyped, StopMotionTyped, VisitTyped, FinishChunkTyped,
       SettleTyped DEF Motion
  <2>5. CASE FindHome(c)
    BY <2>5, FindHomeTyped
  <2> QED BY <1>1, <2>1, <2>2, <2>3, <2>4, <2>5
<1>2. CASE ReadErrorState \/ MeasureLength
  BY <1>2, ReadsTyped
<1>3. CASE UNCHANGED vars
  BY <1>3 DEF vars, Typed, DeviceTyped, CallersTyped
<1> QED BY <1>1, <1>2, <1>3 DEF Next

LEMMA AlwaysTyped ==
  Spec => []Typed
BY InitTyped, NextTyped, PTL DEF Spec

\* The variables of the platform keep their types, whatever its callers do
\* (in particular no loop over the actuators runs past the last one, and no
\* motion divides by zero rounds).
THEOREM PlatformTypeCorrect ==
  Spec => []TypeOK
<1>1. Typed => TypeOK
  BY DEF Typed, DeviceTyped, CallersTyped, TypeOK
<1> QED BY <1>1, AlwaysTyped, PTL

-----------------------------------------------------------------------------
(* Drivers *)

\* Drivers are enabled only while some motion is under way which is not the
\* one between the two searches of findHomeFromEndStopAll.
DriversFollowMotions ==
  (\A c \in Callers : pc[c] \notin Moving \ {"searched"}) =>
    \A a \in Actuators : ~act[a].driver

LEMMA ChangeKeepsDrivers ==
  ASSUME Typed, NEW a \in Actuators, NEW b \in Actuators
  PROVE  /\ \A v : Change(a, "fatal", v) => act'[b].driver = act[b].driver
         /\ \A v : Change(a, "busy", v) => act'[b].driver = act[b].driver
         /\ Change(a, "driver", FALSE) => (act'[b].driver => act[b].driver)
         /\ setDrivers(FALSE) => ~act'[b].driver
BY DEF Typed, DeviceTyped, Actuator, Change, setDrivers

LEMMA QuickKeepsDrivers ==
  ASSUME Typed, NEW c \in Callers, Call(c) \/ StopBegin(c) \/ Quick(c),
         NEW b \in Actuators, act'[b].driver
  PROVE  act[b].driver
<1>1. CASE Call(c) \/ StopBegin(c) \/ TurnOn(c) \/ StopEnd(c)
  BY <1>1 DEF Call, StopBegin, TurnOn, StopEnd
<1>2. CASE TurnOff(c)
  BY <1>2, ChangeKeepsDrivers DEF TurnOff
<1>3. CASE ClearErrors(c)
  BY <1>3 DEF ClearErrors, Typed, DeviceTyped, Actuator
<1>4. CASE ActClearAllErrors(c)
  BY <1>4, LocalsFields, ChangeKeepsDrivers DEF ActClearAllErrors
<1>5. CASE ActTurnOff(c)
  BY <1>5, LocalsFields, ChangeKeepsDrivers DEF ActTurnOff
<1> QED BY <1>1, <1>2, <1>3, <1>4, <1>5 DEF Quick

LEMMA QuickKeepsMotions ==
  ASSUME Typed, NEW c \in Callers, Call(c) \/ StopBegin(c) \/ Quick(c)
  PROVE  /\ pc[c] \notin Moving
         /\ \A d \in Callers : d # c => pc'[d] = pc[d]
<1>1. pc \in [Callers -> Phases]
  BY DEF Typed, CallersTyped
<1>2. pc[c] \in {"idle", "admitted", "pulse"}
  BY DEF Call, StopBegin, Quick, TurnOn, TurnOff, ClearErrors,
     ActClearAllErrors, ActTurnOff, StopEnd, Admitted
<1>3. \A d \in Callers : d # c => pc'[d] = pc[d]
  BY <1>1 DEF Call, StopBegin, Quick, TurnOn, TurnOff, ClearErrors,
     ActClearAllErrors, ActTurnOff, StopEnd, GoOn, Return
<1> QED BY <1>2, <1>3 DEF Moving, Heeding

LEMMA NextUpPhase ==
  ASSUME CallersTyped, NEW c \in Callers, NEW l, NEW j, NextUp(c, l, j)
  PROVE  pc'[c] \in {"loop", "settling"}
BY DEF NextUp, GoOn, CallersTyped

\* A step of a motion stays in it, or disables all drivers, or was at a place
\* where the motion had not enabled them.
LEMMA MotionStep ==
  ASSUME Typed, NEW c \in Callers, Motion(c) \/ FindHome(c)
  PROVE  \/ pc'[c] \in Moving \ {"searched"}
         \/ \A b \in Actuators : ~act'[b].driver
         \/ /\ pc[c] \notin Moving \ {"searched"}
            /\ \A d \in Callers : d # c => pc'[d] = pc[d]
            /\ \A b \in Actuators : act'[b].driver => act[b].driver
<1>0. /\ pc \in [Callers -> Phases]
      /\ act \in [Actuators -> Actuator]
      /\ {"loop", "settling", "chunk", "settle", "hysteresis", "coarse",
          "fine", "homing"} \subseteq Moving \ {"searched"}
      /\ {"admitted", "measured", "searched"} \cap (Moving \ {"searched"}) = {}
  BY DEF Typed, DeviceTyped, CallersTyped, Moving, Heeding
<1>1. \A d \in Callers, p \in Phases : \A l :
        GoOn(c, p, l) => pc'[c] = p /\ (d # c => pc'[d] = pc[d])
  BY <1>0 DEF GoOn
<1>2. \A d \in Callers : Return(c) /\ d # c => pc'[d] = pc[d]
  BY <1>0 DEF Return
<1>3. EndMotion(c) => \A b \in Actuators : ~act'[b].driver
  BY ChangeKeepsDrivers DEF EndMotion
<1>4. \A l, j : NextUp(c, l, j) => pc'[c] \in Moving \ {"searched"}
  BY <1>0, NextUpPhase DEF Typed
<1>5. CASE MeasureFirst(c) \/ RefuseMove(c)
  <2>1. pc[c] \in {"admitted", "measured"}
    BY <1>5 DEF MeasureFirst, RefuseMove, MayBegin, Admitted
  <2>2. \A d \in Callers : d # c => pc'[d] = pc[d]
    BY <1>1, <1>2, <1>5 DEF MeasureFirst, RefuseMove, Phases
  <2>3. \A b \in Actuators : act'[b].driver = act[b].driver
    BY <1>0, <1>5 DEF MeasureFirst, RefuseMove, Measured, Actuator
  <2> QED BY <1>0, <2>1, <2>2, <2>3
<1>6. CASE BeginMove(c) \/ Visit(c) \/ FinishChunk(c)
  <2>1. "chunk" \in Phases
    BY DEF Phases, Moving, Heeding
  <2>2. CASE BeginMove(c)
    BY <1>0, <1>4, <2>2 DEF BeginMove
  <2>3. CASE Visit(c)
    <3>1. \/ \E l : GoOn(c, "chunk", l)
          \/ \E l, j : NextUp(c, l, j)
      BY <2>3 DEF Visit
    <3> QED BY <1>0, <1>1, <1>4, <2>1, <3>1
  <2>4. CASE FinishChunk(c)
    BY <1>0, <1>4, <2>4 DEF FinishChunk
  <2> QED BY <1>6, <2>2, <2>3, <2>4
<1>7. CASE StopMotion(c) \/ BeginSettling(c) \/ Settle(c)
  <2>1. {"settle", "hysteresis"} \subseteq Phases
    BY DEF Phases, Moving, Heeding
  <2>2. CASE StopMotion(c)
    BY <1>3, <2>2 DEF StopMotion
  <2>3. ASSUME NEW p \in {"settle", "hysteresis"}, NEW l, GoOn(c, p, l)
        PROVE  pc'[c] \in Moving \ {"searched"}
    BY <1>0, <1>1, <2>1, <2>3
  <2>4. CASE BeginSettling(c)
    BY <1>3, <2>3, <2>4 DEF BeginSettling
  <2>5. CASE Settle(c)
    BY <1>3, <2>3, <2>5 DEF Settle, SettleNext
  <2> QED BY <1>7, <2>2, <2>4, <2>5
<1>8. CASE FinishHysteresis(c)
  <2> DEFINE a == loc[c].i
  <2>1. PICK after \in Outcomes(a, loc[c].left[a]) :
          \/ act' = [b \in Actuators |->
                      [(IF b = a THEN after ELSE act[b]) EXCEPT !.driver = FALSE]]
          \/ GoOn(c, "settle", [loc[c] EXCEPT !.i = @ + 1])
    BY <1>8 DEF FinishHysteresis
  <2>2. a \in Actuators /\ loc[c].left[a] \in Int /\ "settle" \in Phases
    BY LocalsFields DEF PerActuator, Phases, Moving, Heeding
  <2>3. \A b \in Actuators : (IF b = a THEN after ELSE act[b]) \in Actuator
    BY <1>0, <2>2, OutcomesTyped
  <2>4. \A r \in Actuator : ~[r EXCEPT !.driver = FALSE].driver
    BY DEF Actuator
  <2>5. CASE act' = [b \in Actuators |->
                      [(IF b = a THEN after ELSE act[b]) EXCEPT !.driver = FALSE]]
    <3>1. \A b \in Actuators : ~act'[b].driver
      BY <2>3, <2>4, <2>5
    <3> QED BY <3>1
  <2>6. CASE GoOn(c, "settle", [loc[c] EXCEPT !.i = @ + 1])
    BY <1>0, <1>1, <2>2, <2>6
  <2> QED BY <2>1, <2>5, <2>6
<1>9. CASE BeginFindHome(c) \/ Searched(c)
  <2>1. CASE Return(c) /\ UNCHANGED act
    <3>1. pc[c] \in {"admitted", "searched"}
      BY <1>9 DEF BeginFindHome, Searched, Admitted
    <3> QED BY <1>0, <1>2, <2>1, <3>1
  <2>2. CASE pc'[c] \in {"coarse", "fine"}
    BY <1>0, <2>2
  <2>3. {"coarse", "fine"} \subseteq Phases
    BY DEF Phases, Moving, Heeding
  <2> QED BY <1>1, <1>9, <2>1, <2>2, <2>3 DEF BeginFindHome, Searched
<1>10. CASE EndCoarseSearch(c)
  BY <1>10, ChangeKeepsDrivers DEF EndCoarseSearch
<1>11. CASE BeginHoming(c)
  <2>1. "homing" \in Phases
    BY DEF Phases, Moving, Heeding
  <2> QED BY <1>0, <1>1, <1>11, <2>1 DEF BeginHoming
<1>12. CASE FinishHoming(c)
  <2> DEFINE a == loc[c].i
             Found(fatal, miss) ==
               [act EXCEPT ![a].busy = FALSE, ![a].fatal = fatal,
                           ![a].position = StopPosition + miss]
  <2>1. PICK fatal \in BOOLEAN, miss \in -Tolerance .. Tolerance :
          \/ act' = [b \in Actuators |->
                      [Found(fatal, miss)[b] EXCEPT !.driver = FALSE]]
          \/ GoOn(c, "fine", [loc[c] EXCEPT !.i = @ + 1])
    BY <1>12 DEF FinishHoming
  <2>2. StopPosition + miss \in Int
    BY PlatformAssumption
  <2>3. Found(fatal, miss) \in [Actuators -> Actuator]
    <3>1. a \in Actuators
      BY LocalsFields
    <3> QED BY <2>2, <3>1, FoundTyped
  <2>4. \A r \in Actuator : ~[r EXCEPT !.driver = FALSE].driver
    BY DEF Actuator
  <2>5. "fine" \in Phases
    BY DEF Phases, Moving, Heeding
  <2> HIDE DEF Found
  <2>6. CASE act' = [b \in Actuators |->
                      [Found(fatal, miss)[b] EXCEPT !.driver = FALSE]]
    <3>1. \A b \in Actuators : Found(fatal, miss)[b] \in Actuator
      BY <2>3
    <3> QED BY <2>4, <2>6, <3>1
  <2>7. CASE GoOn(c, "fine", [loc[c] EXCEPT !.i = @ + 1])
    BY <1>0, <1>1, <2>5, <2>7
  <2> QED BY <2>1, <2>6, <2>7
<1> QED BY <1>5, <1>6, <1>7, <1>8, <1>9, <1>10, <1>11, <1>12
        DEF Motion, FindHome

LEMMA DriversFollowStep ==
  Typed /\ DriversFollowMotions /\ [Next]_vars => DriversFollowMotions'
<1> SUFFICES ASSUME Typed, DriversFollowMotions, [Next]_vars,
                    \A c \in Callers : pc'[c] \notin Moving \ {"searched"}
             PROVE  \A a \in Actuators : ~act'[a].driver
  BY DEF DriversFollowMotions
<1>1. ASSUME \A a \in Actuators : act'[a].driver => act[a].driver,
             \A d \in Callers : pc[d] \in Moving \ {"searched"}
                                 => pc'[d] \in Moving \ {"searched"}
      PROVE  \A a \in Actuators : ~act'[a].driver
  BY <1>1 DEF DriversFollowMotions
<1>2. ASSUME NEW c \in Callers, Call(c) \/ StopBegin(c) \/ Quick(c)
      PROVE  \A a \in Actuators : ~act'[a].driver
  BY <1>1, <1>2, QuickKeepsDrivers, QuickKeepsMotions
<1>3. ASSUME NEW c \in Callers, Motion(c) \/ FindHome(c)
      PROVE  \A a \in Actuators : ~act'[a].driver
  BY <1>1, <1>3, MotionStep
<1>4. CASE ReadErrorState \/ UNCHANGED vars
  BY <1>1, <1>4 DEF ReadErrorState, vars
<1>5. CASE MeasureLength
  <2>1. \A a \in Actuators : act'[a].driver = act[a].driver
    BY <1>5 DEF MeasureLength, Typed, DeviceTyped, Actuator
  <2> QED BY <1>1, <1>5, <2>1 DEF MeasureLength
<1> QED BY <1>2, <1>3, <1>4, <1>5 DEF Next

\* However many motions run at once and however they end, no driver is enabled
\* when none is under way (enableAll and disableAll, platform.cpp:434-482).
THEOREM DriversRest ==
  Spec => []DriversOffAtRest
<1>1. Init => DriversFollowMotions
  BY DEF Init, DriversFollowMotions
<1>2. DriversFollowMotions => DriversOffAtRest
  BY DEF DriversFollowMotions, DriversOffAtRest
<1> QED BY <1>1, <1>2, AlwaysTyped, DriversFollowStep, PTL DEF Spec

-----------------------------------------------------------------------------
(* Steps of a motion *)

\* A motion drives only when it has just seen that nothing tells it to stop.
MotionPhase(c, p) ==
  \/ p \in {"loop", "settling", "settle"}
  \/ p \in {"chunk", "hysteresis"} /\ ~Told(c)
  \/ p = "measured" /\ Admitted(c, ActMoves)

LEMMA MotionGoesOn ==
  ASSUME Typed, NEW c \in Callers, Motion(c)
  PROVE  /\ on' = on
         /\ \/ Return(c)
            \/ \E p, l : GoOn(c, p, l) /\ MotionPhase(c, p)
                           /\ (busy' = busy \/ busy' \/ p = "measured")
<1>1. CASE MeasureFirst(c)
  BY <1>1 DEF MeasureFirst, MotionPhase, Admitted, ActMoves
<1>2. CASE RefuseMove(c) \/ StopMotion(c) \/ FinishHysteresis(c)
  BY <1>2 DEF RefuseMove, StopMotion, EndMotion, FinishHysteresis, MotionPhase
<1>3. ASSUME NEW l, NEW j, NextUp(c, l, j)
      PROVE  \E p, k : GoOn(c, p, k) /\ p \in {"loop", "settling"}
  BY <1>3 DEF NextUp
<1>4. CASE BeginMove(c)
  BY <1>3, <1>4 DEF BeginMove, MotionPhase
<1>5. CASE Visit(c)
  BY <1>3, <1>5 DEF Visit, MotionPhase
<1>6. CASE FinishChunk(c)
  BY <1>3, <1>6 DEF FinishChunk, MotionPhase
<1>7. CASE BeginSettling(c) \/ Settle(c)
  BY <1>7 DEF BeginSettling, Settle, SettleNext, EndMotion, MotionPhase
<1> QED BY <1>1, <1>2, <1>4, <1>5, <1>6, <1>7 DEF Motion

LEMMA MotionFrom ==
  ASSUME NEW c \in Callers, Motion(c)
  PROVE  \/ Admitted(c, Moves \cup ActMoves)
         \/ pc[c] \in {"measured", "loop", "chunk", "settling", "settle",
                       "hysteresis"}
BY DEF Motion, MeasureFirst, RefuseMove, BeginMove, StopMotion, Visit,
   FinishChunk, BeginSettling, Settle, FinishHysteresis, MayBegin, Admitted,
   ActMoves

LEMMA FindHomeGoesOn ==
  ASSUME NEW c \in Callers, FindHome(c)
  PROVE  /\ on' = on
         /\ \/ Return(c)
            \/ \E p \in {"coarse", "searched", "fine", "homing"} : \E l :
                 GoOn(c, p, l) /\ (busy' = busy \/ busy')
         /\ \/ Admitted(c, {"FindHome"})
            \/ pc[c] \in {"coarse", "searched", "fine", "homing"}
BY DEF FindHome, BeginFindHome, EndCoarseSearch, Searched, BeginHoming,
   FinishHoming, Admitted

-----------------------------------------------------------------------------
(* One motion at a time *)

\* Whoever moves, or has been let in to call a method of the panel.
InCharge(c) == pc[c] \in Moving \/ Admitted(c, PanelMethods)

\* The panel is busy as long as its one motion lasts.
BusyInMotion ==
  /\ on
  /\ \A c \in Callers :
       /\ pc[c] \notin {"measured", "pulse"}
       /\ pc[c] = "admitted" => loc[c].method \in MethodsOf[c]
       /\ pc[c] \in Moving => busy
  /\ \A c, d \in Callers : InCharge(c) /\ InCharge(d) => c = d

\* What the guards of the panel rely on.
Undisturbed ==
  \A c \in Callers : MethodsOf[c] \cap ({"Stop", "TurnOff"} \cup ActMoves) = {}

LEMMA OthersStay ==
  ASSUME Typed, NEW c \in Callers, Return(c) \/ \E p, l : GoOn(c, p, l)
  PROVE  /\ \A d \in Callers : d # c => pc'[d] = pc[d] /\ loc'[d] = loc[d]
                                          /\ told'[d] = told[d]
         /\ Return(c) => pc'[c] = "idle" /\ told'[c] = {}
         /\ \A p, l : GoOn(c, p, l) => pc'[c] = p /\ loc'[c] = l
                                         /\ told'[c] = told[c]
BY DEF Typed, CallersTyped, Return, GoOn

\* One caller is in charge before and after: nobody else's step.
LEMMA ChargeKept ==
  ASSUME Typed, BusyInMotion, NEW c \in Callers, InCharge(c), on',
         Return(c) \/ \E p \in Moving : \E l : GoOn(c, p, l) /\ busy'
  PROVE  BusyInMotion'
<1>1. \A d \in Callers : d # c => pc'[d] = pc[d] /\ loc'[d] = loc[d]
  BY OthersStay
<1>2. \A d \in Callers : d # c => ~InCharge(d) /\ pc[d] \notin Moving
  BY DEF BusyInMotion, InCharge
<1>3. \A d \in Callers : d # c => ~InCharge(d)' /\ pc'[d] \notin Moving
  BY <1>1, <1>2 DEF InCharge, Admitted
<1>4. pc'[c] = "idle" \/ (pc'[c] \in Moving /\ busy')
  BY OthersStay
<1>5. \A p \in Moving : p \notin {"measured", "pulse", "admitted"}
  BY DEF Moving, Heeding
<1>6. ASSUME NEW d \in Callers
      PROVE  /\ pc'[d] \notin {"measured", "pulse"}
             /\ pc'[d] = "admitted" => loc'[d].method \in MethodsOf[d]
             /\ pc'[d] \in Moving => busy'
  <2>1. CASE d = c
    <3>1. "idle" \notin Moving
      BY DEF Moving, Heeding
    <3> QED BY <1>4, <1>5, <2>1, <3>1
  <2>2. CASE d # c
    BY <1>1, <1>3, <2>2 DEF BusyInMotion
  <2> QED BY <2>1, <2>2
<1>7. \A d, e \in Callers : InCharge(d)' /\ InCharge(e)' => d = e
  BY <1>3
<1> QED BY <1>6, <1>7 DEF BusyInMotion

LEMMA CallAdmits ==
  ASSUME NEW c \in Callers, Call(c)
  PROVE  /\ pc[c] = "idle" /\ on' = on /\ busy' = busy
         /\ \E m \in MethodsOf[c] : \E l :
              /\ m \in PanelMethods => PanelMay(m)
              /\ m # "Stop"
              /\ GoOn(c, "admitted", l) /\ l.method = m
         /\ Race \/ \A d \in Callers : pc[d] # "admitted"
<1>1. PICK m \in MethodsOf[c] \ {"Stop"}, a \in Actuators :
        /\ Race \/ \A d \in Callers : pc[d] # "admitted"
        /\ m \in PanelMethods => PanelMay(m)
        /\ \E s \in Arguments(m) :
             GoOn(c, "admitted", [NoLocals EXCEPT !.method = m, !.a = a,
                                                  !.steps = s])
  BY DEF Call
<1>2. PICK s \in Arguments(m) :
        GoOn(c, "admitted", [NoLocals EXCEPT !.method = m, !.a = a,
                                             !.steps = s])
  BY <1>1
<1>3. [NoLocals EXCEPT !.method = m, !.a = a, !.steps = s].method = m
  BY DEF NoLocals
<1>4. \E l : GoOn(c, "admitted", l) /\ l.method = m
  BY <1>2, <1>3
<1> QED BY <1>1, <1>4 DEF Call

LEMMA CallKeepsCharge ==
  ASSUME ~Race, Typed, BusyInMotion, NEW c \in Callers, Call(c)
  PROVE  BusyInMotion'
<1>0. PICK m \in MethodsOf[c] : \E l :
        /\ m \in PanelMethods => PanelMay(m)
        /\ m # "Stop"
        /\ GoOn(c, "admitted", l) /\ l.method = m
  BY CallAdmits
<1>1. PICK l : /\ m \in PanelMethods => PanelMay(m)
               /\ m # "Stop"
               /\ GoOn(c, "admitted", l) /\ l.method = m
  BY <1>0
<1>2. \A d \in Callers : pc[d] # "admitted"
  BY CallAdmits
<1>3. /\ \A d \in Callers : d # c => pc'[d] = pc[d] /\ loc'[d] = loc[d]
      /\ pc'[c] = "admitted"
      /\ loc'[c].method = m
  BY <1>1, OthersStay
<1>4. on' = on /\ busy' = busy /\ pc[c] = "idle"
  BY CallAdmits
<1>5. "admitted" \notin Moving
  BY DEF Moving, Heeding
<1>6. m \in PanelMethods => \A d \in Callers : pc[d] \notin Moving
  BY <1>1 DEF PanelMay, deviceState, BusyInMotion
<1>7. \A d \in Callers : d # c /\ InCharge(d)' => pc[d] \in Moving
  BY <1>2, <1>3 DEF InCharge, Admitted
<1>8. InCharge(c)' => m \in PanelMethods
  BY <1>3, <1>5 DEF InCharge, Admitted
<1>9. \A d, e \in Callers : InCharge(d)' /\ InCharge(e)' => d = e
  <2>1. ASSUME NEW d \in Callers, NEW e \in Callers,
               InCharge(d)', InCharge(e)', d # e
        PROVE  FALSE
    <3>1. CASE d = c \/ e = c
      BY <1>6, <1>7, <1>8, <2>1, <3>1
    <3>2. CASE d # c /\ e # c
      BY <1>7, <2>1, <3>2 DEF BusyInMotion, InCharge
    <3> QED BY <3>1, <3>2
  <2> QED BY <2>1
<1> QED BY <1>3, <1>4, <1>5, <1>9 DEF BusyInMotion

LEMMA BusyInMotionStep ==
  ASSUME ~Race, Undisturbed
  PROVE  Typed /\ BusyInMotion /\ [Next]_vars => BusyInMotion'
<1> SUFFICES ASSUME Typed, BusyInMotion, [Next]_vars PROVE BusyInMotion'
  OBVIOUS
<1>0. \A c \in Callers : \A S : Admitted(c, S) => loc[c].method \in MethodsOf[c]
  BY DEF BusyInMotion, Admitted
<1>1. ASSUME NEW c \in Callers, Call(c) \/ StopBegin(c)
      PROVE  BusyInMotion'
  BY <1>1, CallKeepsCharge DEF StopBegin, Undisturbed
<1>2. ASSUME NEW c \in Callers, Quick(c)
      PROVE  BusyInMotion'
  <2>1. ~TurnOff(c) /\ ~StopEnd(c)
    BY <1>0 DEF TurnOff, StopEnd, Undisturbed, BusyInMotion, Admitted
  <2>2. on' /\ busy' = busy /\ Return(c)
    BY <1>2, <2>1 DEF Quick, TurnOn, ClearErrors, ActClearAllErrors,
       ActTurnOff, deviceState, BusyInMotion
  <2>3. pc'[c] = "idle"
    BY <2>2, OthersStay
  <2>4. \A d \in Callers : d # c => pc'[d] = pc[d] /\ loc'[d] = loc[d]
    BY <2>2, OthersStay
  <2>5. \A d \in Callers : InCharge(d)' => InCharge(d)
    BY <2>3, <2>4 DEF InCharge, Admitted, Moving, Heeding
  <2> QED BY <2>2, <2>3, <2>4, <2>5 DEF BusyInMotion, Moving, Heeding
<1>3. ASSUME NEW c \in Callers, Motion(c)
      PROVE  BusyInMotion'
  <2>1. ~Admitted(c, ActMoves)
    BY <1>0 DEF Undisturbed, Admitted
  <2>2. /\ InCharge(c)
        /\ Admitted(c, PanelMethods) \/ busy
    BY <1>3, <2>1, MotionFrom
       DEF InCharge, Admitted, BusyInMotion, Moving, Heeding, PanelMethods
  <2>3. \/ Return(c)
        \/ \E p \in Moving : \E l : GoOn(c, p, l) /\ (busy' = busy \/ busy')
    BY <1>3, <2>1, MotionGoesOn DEF MotionPhase, Moving, Heeding
  <2>4. Return(c) \/ busy'
    <3>1. CASE busy
      BY <2>3, <3>1
    <3>2. CASE Admitted(c, PanelMethods)
      BY <1>3, <2>1, <3>2 DEF Motion, MeasureFirst, RefuseMove, BeginMove,
         StopMotion, Visit, FinishChunk, BeginSettling, Settle,
         FinishHysteresis, Admitted, ActMoves
    <3> QED BY <2>2, <3>1, <3>2
  <2>5. on'
    BY <1>3, MotionGoesOn DEF BusyInMotion
  <2> QED BY <2>2, <2>3, <2>4, <2>5, ChargeKept
<1>4. ASSUME NEW c \in Callers, FindHome(c)
      PROVE  BusyInMotion'
  <2>1. InCharge(c) /\ on'
    BY <1>4, FindHomeGoesOn
       DEF InCharge, Admitted, BusyInMotion, Moving, Heeding, PanelMethods
  <2>2. Return(c) \/ \E p \in Moving : \E l : GoOn(c, p, l)
    BY <1>4, FindHomeGoesOn DEF Moving, Heeding
  <2>3. Return(c) \/ busy'
    BY <1>4 DEF FindHome, BeginFindHome, EndCoarseSearch, Searched,
       BeginHoming, FinishHoming, BusyInMotion, Moving, Heeding
  <2> QED BY <2>1, <2>2, <2>3, ChargeKept
<1>5. CASE ReadErrorState \/ MeasureLength \/ UNCHANGED vars
  <2>1. on' = on /\ busy' = busy /\ pc' = pc /\ loc' = loc
    BY <1>5 DEF ReadErrorState, MeasureLength, vars
  <2>2. \A c \in Callers : InCharge(c)' = InCharge(c)
    BY <2>1 DEF InCharge, Admitted
  <2> QED BY <2>1, <2>2 DEF BusyInMotion
<1> QED BY <1>1, <1>2, <1>3, <1>4, <1>5 DEF Next

\* One motion at a time (panelcontroller.cpp:94 and 99), for any number of
\* callers: provided that two calls do not race to the lock, and that nobody
\* stops or turns off the panel or moves a single actuator.
THEOREM MotionsExclude ==
  ASSUME ~Race, Undisturbed
  PROVE  Spec => []OneMotion
<1>1. Init => BusyInMotion
  BY DEF Init, BusyInMotion, InCharge, Admitted, Moving, Heeding
<1>2. BusyInMotion => OneMotion
  BY DEF BusyInMotion, OneMotion, InCharge, Moving, Heeding, Driving
<1>3. Typed /\ BusyInMotion /\ [Next]_vars => BusyInMotion'
  BY BusyInMotionStep
<1> QED BY <1>1, <1>2, <1>3, AlwaysTyped, PTL DEF Spec

-----------------------------------------------------------------------------
(* The stop *)

\* The one caller that stops, while nobody turns the panel on or searches home.
Stopper(s) ==
  \A c \in Callers : /\ "Stop" \in MethodsOf[c] => c = s
                     /\ MethodsOf[c] \cap {"TurnOn", "FindHome"} = {}

\* As long as a motion knows of a stop, the panel is off.
StopLasts(s) ==
  \A c \in Callers :
    /\ pc[c] = "pulse" => c = s
    /\ pc[c] = "admitted" => loc[c].method \in MethodsOf[c]
    /\ pc[c] \notin {"coarse", "searched", "fine", "homing"}
    /\ told[c] # {} => /\ told[c] = {s} /\ pc[c] \in Heeding
                       /\ ~on /\ pc[s] = "pulse"

LEMMA StopLastsStep ==
  ASSUME NEW s \in Callers, Stopper(s)
  PROVE  Typed /\ StopLasts(s) /\ [Next]_vars => StopLasts(s)'
<1> SUFFICES ASSUME Typed, StopLasts(s), [Next]_vars PROVE StopLasts(s)'
  OBVIOUS
<1>0. \A c \in Callers : \A S : Admitted(c, S) => loc[c].method \in MethodsOf[c]
  BY DEF StopLasts, Admitted
<1>1. ASSUME NEW c \in Callers, Call(c)
      PROVE  StopLasts(s)'
  <2>0. PICK m \in MethodsOf[c] : \E l :
          GoOn(c, "admitted", l) /\ l.method = m
    BY <1>1, CallAdmits
  <2>1. PICK l : GoOn(c, "admitted", l) /\ l.method = m
    BY <2>0
  <2>2. pc[c] = "idle" /\ on' = on
    BY <1>1, CallAdmits
  <2> QED BY <2>1, <2>2, OthersStay DEF StopLasts, Heeding
<1>2. ASSUME NEW c \in Callers, StopBegin(c)
      PROVE  StopLasts(s)'
  <2>1. /\ c = s /\ ~on' /\ pc[s] = "idle" /\ pc'[s] = "pulse"
        /\ loc' = loc
        /\ \A d \in Callers : d # s => pc'[d] = pc[d]
    BY <1>2 DEF StopBegin, Stopper, Typed, CallersTyped
  <2>2. \A d \in Callers :
          told'[d] = IF pc[d] \in Moving THEN told[d] \cup {s} ELSE told[d]
    BY <1>2, <2>1 DEF StopBegin
  <2>3. \A d \in Callers : told[d] = {} \/ told[d] = {s}
    BY DEF StopLasts
  <2>4. \A d \in Callers : pc[d] \in Moving => pc[d] \in Heeding /\ d # s
    BY <2>1 DEF StopLasts, Moving, Heeding
  <2>5. \A d \in Callers : told[d] # {} => pc[d] \in Heeding /\ d # s
    BY <2>1 DEF StopLasts, Heeding
  <2> QED BY <2>1, <2>2, <2>3, <2>4, <2>5 DEF StopLasts
<1>3. ASSUME NEW c \in Callers, Quick(c)
      PROVE  StopLasts(s)'
  <2>0. ~TurnOn(c)
    BY <1>0 DEF TurnOn, Stopper, Admitted
  <2>1. Return(c) /\ (on' => on \/ StopEnd(c))
    <3>1. CASE TurnOff(c)
      BY <3>1 DEF TurnOff
    <3>2. CASE ClearErrors(c) \/ ActClearAllErrors(c) \/ ActTurnOff(c)
      <4>1. ClearErrors(c) => Return(c) /\ on' = on
        BY DEF ClearErrors
      <4>2. ActClearAllErrors(c) => Return(c) /\ on' = on
        BY DEF ActClearAllErrors
      <4>3. ActTurnOff(c) => Return(c) /\ on' = on
        BY DEF ActTurnOff
      <4> QED BY <3>2, <4>1, <4>2, <4>3
    <3>3. CASE StopEnd(c)
      BY <3>3 DEF StopEnd
    <3> QED BY <1>3, <2>0, <3>1, <3>2, <3>3 DEF Quick
  <2>2. CASE StopEnd(c)
    <3>1. c = s /\ pc[s] = "pulse"
      BY <2>2 DEF StopEnd, StopLasts
    <3>2. \A d \in Callers : told[d] = {}
      BY <2>2, <3>1 DEF StopEnd, StopLasts
    <3> QED BY <2>1, <3>1, <3>2, OthersStay DEF StopLasts
  <2>3. CASE ~StopEnd(c)
    <3>1. pc[c] # "pulse"
      BY <1>3, <2>3 DEF Quick, TurnOn, TurnOff, ClearErrors,
         ActClearAllErrors, ActTurnOff, Admitted
    <3> QED BY <2>1, <2>3, <3>1, OthersStay DEF StopLasts
  <2> QED BY <2>2, <2>3
<1>4. ASSUME NEW c \in Callers, Motion(c)
      PROVE  StopLasts(s)'
  <2>1. on' = on /\ pc[c] # "pulse"
    BY <1>4, MotionGoesOn, MotionFrom DEF Admitted
  <2>2. CASE Return(c)
    BY <2>1, <2>2, OthersStay DEF StopLasts
  <2>3. ASSUME NEW p, NEW l, GoOn(c, p, l), MotionPhase(c, p)
        PROVE  StopLasts(s)'
    <3>1. p \in Heeding \/ (p = "measured" /\ pc[c] = "admitted")
      BY <2>3 DEF MotionPhase, Heeding, Admitted
    <3>2. /\ p \notin {"coarse", "searched", "fine", "homing", "pulse",
                       "admitted"}
      BY <2>3 DEF MotionPhase
    <3>3. told[c] # {} => p \in Heeding
      BY <3>1 DEF StopLasts, Heeding
    <3> QED BY <2>1, <2>3, <3>2, <3>3, OthersStay DEF StopLasts
  <2> QED BY <1>4, <2>2, <2>3, MotionGoesOn
<1>5. ASSUME NEW c \in Callers, FindHome(c)
      PROVE  FALSE
  BY <1>0, <1>5, FindHomeGoesOn DEF Stopper, StopLasts, Admitted
<1>6. CASE ReadErrorState \/ MeasureLength \/ UNCHANGED vars
  BY <1>6 DEF ReadErrorState, MeasureLength, vars, StopLasts
<1> QED BY <1>1, <1>2, <1>3, <1>4, <1>5, <1>6 DEF Next

LEMMA StopLastsHalts ==
  ASSUME NEW s \in Callers, Stopper(s), Typed, StopLasts(s), [Next]_vars,
         NEW c \in Callers, told[c] # {}, pc'[c] \in Driving
  PROVE  pc[c] = pc'[c]
<1>0. /\ pc[c] \in Heeding /\ ~on
      /\ \A d \in Callers : \A S : Admitted(d, S) => loc[d].method \in MethodsOf[d]
  BY DEF StopLasts, Admitted
<1>1. ASSUME NEW d \in Callers,
             Call(d) \/ StopBegin(d) \/ Quick(d) \/ Motion(d) \/ FindHome(d)
      PROVE  pc[c] = pc'[c]
  <2>1. CASE Call(d) \/ StopBegin(d) \/ Quick(d)
    BY <1>0, <2>1, QuickKeepsMotions DEF Moving
  <2>2. CASE Motion(d)
    <3>1. ASSUME d = c
          PROVE  FALSE
      <4>1. Told(c)
        BY <1>0 DEF Told
      <4>2. \A p : MotionPhase(c, p) => p \notin Driving
        BY <4>1 DEF MotionPhase, Driving
      <4> QED BY <2>2, <3>1, <4>2, MotionGoesOn, OthersStay DEF Driving
    <3> QED BY <2>2, <3>1, MotionGoesOn, OthersStay
  <2>3. CASE FindHome(d)
    BY <1>0, <2>3, FindHomeGoesOn DEF Stopper, StopLasts, Admitted
  <2> QED BY <1>1, <2>1, <2>2, <2>3
<1>2. CASE ReadErrorState \/ MeasureLength \/ UNCHANGED vars
  BY <1>2 DEF ReadErrorState, MeasureLength, vars
<1> QED BY <1>1, <1>2 DEF Next

\* A stop halts every motion under way for good (emergencyStop,
\* platform.cpp:176), for any number of callers and actuators: provided that
\* nobody else stops too, turns the panel on or searches home.
THEOREM StopIsHeeded ==
  ASSUME NEW s \in Callers, Stopper(s)
  PROVE  Spec => StopHalts
<1>1. Init => StopLasts(s)
  BY DEF Init, StopLasts
<1>2. Typed /\ StopLasts(s) /\ [Next]_vars => StopLasts(s)'
  BY StopLastsStep
<1>3. Typed /\ StopLasts(s) /\ [Next]_vars
        => [\A c \in Callers :
              told[c] # {} /\ pc'[c] \in Driving => pc[c] = pc'[c]]_vars
  BY StopLastsHalts
<1> QED BY <1>1, <1>2, <1>3, AlwaysTyped, PTL DEF Spec, StopHalts

-----------------------------------------------------------------------------
(* Arriving *)

\* Nobody turns off a single actuator or clears its errors, which is not refused
\* between two chunks of a motion of the panel.
ActuatorsLeftAlone ==
  \A c \in Callers : MethodsOf[c] \cap {"ActTurnOff", "ActClearAllErrors"} = {}

Adjusting == {"settle", "hysteresis"}
Approach == {"loop", "chunk", "settling"} \cup Adjusting

\* What the motion takes to be left of the way is what is left of it.
Placed(c, a) == loc[c].left[a] = StepsRemaining(a, loc[c].goal)
Close(c, a) == Magnitude(act[a].position - loc[c].goal[a]) <= Tolerance
Failed == \E a \in Actuators : act[a].fatal

\* A motion has the drivers enabled and knows how far every actuator is from
\* its goal; those whose hysteresis motion is over are there, but for an error.
OnCourse(c, a) ==
  /\ act[a].driver
  /\ IF pc[c] \in Adjusting /\ a < loc[c].i THEN Close(c, a) \/ Failed
                                            ELSE Placed(c, a)

Approaching ==
  \A c \in Callers :
    /\ pc[c] = "settling" => loc[c].i = 1
    /\ pc[c] \in Approach => \A a \in Actuators : OnCourse(c, a)

LEMMA OutcomesReach ==
  ASSUME Typed, NEW a \in Actuators, NEW steps \in Int,
         NEW after \in Outcomes(a, steps)
  PROVE  /\ after.driver = act[a].driver
         /\ act[a].fatal => after.fatal
         /\ \/ after.fatal
            \/ Magnitude(after.position - (act[a].position - steps)) <= Tolerance
<1>0. act[a] \in Actuator /\ act[a].position \in Int /\ Tolerance \in Nat
  BY ActuatorFields, PlatformAssumption
<1>1. CASE \E miss \in -Tolerance .. Tolerance :
             after = [act[a] EXCEPT !.busy = FALSE,
                                    !.position = @ - steps + miss]
  <2>1. PICK miss \in -Tolerance .. Tolerance :
             after = [act[a] EXCEPT !.busy = FALSE,
                                    !.position = @ - steps + miss]
    BY <1>1
  <2>2. /\ after.driver = act[a].driver /\ after.fatal = act[a].fatal
        /\ after.position = act[a].position - steps + miss
    BY <1>0, <2>1 DEF Actuator
  <2>3. after.position - (act[a].position - steps) = miss
    BY <1>0, <2>2
  <2>4. Magnitude(miss) <= Tolerance
    BY <1>0 DEF Magnitude
  <2> QED BY <2>2, <2>3, <2>4
<1>2. CASE \E taken \in {0, Magnitude(steps)} :
             after = [act[a] EXCEPT !.busy = FALSE, !.fatal = TRUE,
                                    !.position = @ - Sign(steps) * taken]
  <2>1. PICK taken \in {0, Magnitude(steps)} :
             after = [act[a] EXCEPT !.busy = FALSE, !.fatal = TRUE,
                                    !.position = @ - Sign(steps) * taken]
    BY <1>2
  <2> QED BY <1>0, <2>1 DEF Actuator
<1> QED BY <1>1, <1>2 DEF Outcomes

LEMMA NextUpKeeps ==
  ASSUME CallersTyped, NEW c \in Callers, NEW l \in Locals, NEW j,
         NextUp(c, l, j)
  PROVE  /\ pc'[c] \in {"loop", "settling"}
         /\ pc'[c] = "settling" => loc'[c].i = 1
         /\ loc'[c].left = l.left /\ loc'[c].goal = l.goal
<1>1. \A p, k : GoOn(c, p, k) => pc'[c] = p /\ loc'[c] = k
  BY DEF CallersTyped, GoOn
<1>2. \A v, w : LET k == [l EXCEPT !.i = v, !.rounds = w]
                IN  k.left = l.left /\ k.goal = l.goal
  BY DEF Locals
<1>3. \A v : LET k == [l EXCEPT !.i = v]
             IN  k.left = l.left /\ k.goal = l.goal
  BY DEF Locals
<1>4. \E v, w : \/ loc'[c] = [l EXCEPT !.i = v]
                \/ loc'[c] = [l EXCEPT !.i = v, !.rounds = w]
  BY <1>1 DEF NextUp
<1>5. loc'[c].left = l.left /\ loc'[c].goal = l.goal
  <2>1. PICK v, w : \/ loc'[c] = [l EXCEPT !.i = v]
                    \/ loc'[c] = [l EXCEPT !.i = v, !.rounds = w]
    BY <1>4
  <2>2. CASE loc'[c] = [l EXCEPT !.i = v]
    BY <1>3, <2>2
  <2>3. CASE loc'[c] = [l EXCEPT !.i = v, !.rounds = w]
    BY <1>2, <2>3
  <2> QED BY <2>1, <2>2, <2>3
<1>6. pc'[c] = "settling" => loc'[c].i = 1
  BY <1>1 DEF NextUp, Locals
<1> QED BY <1>5, <1>6, NextUpPhase

\* A motion that has been given its goals knows the way to them.
LEMMA BeginMoveApproaches ==
  ASSUME Typed, NEW c \in Callers, BeginMove(c), NEW a \in Actuators
  PROVE  /\ act'[a].driver /\ Placed(c, a)'
         /\ pc'[c] \in {"loop", "settling"}
         /\ pc'[c] = "settling" => loc'[c].i = 1
<1> DEFINE left == [b \in Actuators |-> StepsRemaining(b, Goal(c))]
           l == [loc[c] EXCEPT !.steps = Zero, !.goal = Goal(c),
                               !.left = left, !.owed = Zero,
                               !.rounds = MostIterations(left)]
<1>1. /\ loc[c] \in Locals /\ Goal(c) \in PerActuator
      /\ Zero \in PerActuator /\ left \in PerActuator
  BY LocalsFields, GoalTyped DEF StepsRemaining, PerActuator, Zero
<1>2. MostIterations(left) \in Nat
  BY <1>1, MostIterationsGreatest
<1>3. l \in Locals /\ l.left = left /\ l.goal = Goal(c)
  <2> HIDE DEF left
  <2> QED BY <1>1, <1>2 DEF Locals
<1>4. NextUp(c, l, 1)
  BY DEF BeginMove
<1>5. /\ loc'[c].left = left /\ loc'[c].goal = Goal(c)
      /\ pc'[c] \in {"loop", "settling"}
      /\ pc'[c] = "settling" => loc'[c].i = 1
  <2> HIDE DEF l
  <2> QED BY <1>3, <1>4, NextUpKeeps DEF Typed
<1>6. /\ act'[a].driver
      /\ act'[a].position = act[a].position
  <2>1. Measured(c)[a] \in Actuator /\ act[a] \in Actuator
    BY GoalTyped, ActuatorFields
  <2>2. Measured(c)[a].position = act[a].position
    BY <2>1 DEF Measured, Actuator
  <2>3. act'[a] = [Measured(c)[a] EXCEPT !.driver = TRUE]
    BY DEF BeginMove
  <2> QED BY <2>1, <2>2, <2>3 DEF Actuator
<1> QED BY <1>5, <1>6 DEF Placed, StepsRemaining

\* A visit looks at the actuator again when it makes no steps of its own.
LEMMA VisitApproaches ==
  ASSUME Typed, Approaching, NEW c \in Callers, Visit(c), NEW a \in Actuators
  PROVE  /\ act'[a].driver /\ Placed(c, a)'
         /\ pc'[c] \in {"loop", "settling", "chunk"}
         /\ pc'[c] = "settling" => loc'[c].i = 1
<1> DEFINE l == loc[c]
           b == l.i
           owed == Bounded(l.owed[b] + Quotient(l.left[b], l.rounds))
           now == [l EXCEPT !.owed[b] = owed]
<1>0. /\ l \in Locals /\ b \in Actuators /\ l.owed \in PerActuator
      /\ pc[c] = "loop" /\ act[b].driver
      /\ act[a].driver /\ Placed(c, a)
  BY LocalsFields DEF Visit, Approaching, OnCourse, Approach, Adjusting
<1>1. now.left = l.left /\ now.goal = l.goal
  <2> HIDE DEF l, owed
  <2> QED BY <1>0 DEF Locals
<1>2. now \in Locals
  <2>1. l.rounds > 0 /\ l.rounds \in Nat /\ l.left \in PerActuator
    BY <1>0, LocalsFields DEF Typed, CallersTyped
  <2>2. Quotient(l.left[b], l.rounds) \in Int
    BY <1>0, <2>1, QuotientInteger DEF PerActuator
  <2>3. l.owed[b] + Quotient(l.left[b], l.rounds) \in Int
    BY <1>0, <2>2 DEF PerActuator
  <2>4. owed \in Int
    BY <2>3, BoundedInteger
  <2> HIDE DEF l, owed
  <2>5. [l.owed EXCEPT ![b] = owed] \in PerActuator
    BY <1>0, <2>4 DEF PerActuator
  <2> QED BY <1>0, <2>5 DEF Locals
<1> HIDE DEF now
<1>3. CASE Change(b, "busy", TRUE) /\ GoOn(c, "chunk", now)
  <2>1. loc'[c] = now /\ pc'[c] = "chunk"
    BY <1>3 DEF GoOn, Typed, CallersTyped
  <2>2. act'[a].driver = act[a].driver /\ act'[a].position = act[a].position
    BY <1>0, <1>3 DEF Change, Typed, DeviceTyped, Actuator
  <2> QED BY <1>0, <1>1, <2>1, <2>2 DEF Placed, StepsRemaining
<1>4. CASE NextUp(c, now, b + 1) /\ UNCHANGED act
  <2>1. /\ loc'[c].left = l.left /\ loc'[c].goal = l.goal
        /\ pc'[c] \in {"loop", "settling"}
        /\ pc'[c] = "settling" => loc'[c].i = 1
    BY <1>1, <1>2, <1>4, NextUpKeeps DEF Typed
  <2> QED BY <1>0, <1>4, <2>1 DEF Placed, StepsRemaining
<1> QED BY <1>0, <1>3, <1>4 DEF Visit, now

\* After a chunk the actuator is looked at, however far it went.
LEMMA FinishChunkApproaches ==
  ASSUME Typed, Approaching, NEW c \in Callers, FinishChunk(c),
         NEW a \in Actuators
  PROVE  /\ act'[a].driver /\ Placed(c, a)'
         /\ pc'[c] \in {"loop", "settling"}
         /\ pc'[c] = "settling" => loc'[c].i = 1
<1> DEFINE l == loc[c]
           b == l.i
           chunk == Sign(l.owed[b]) * RecordingInterval
<1>0. /\ l \in Locals /\ b \in Actuators /\ pc[c] = "chunk"
      /\ l.owed \in PerActuator /\ l.left \in PerActuator
      /\ l.goal \in PerActuator /\ act[b].position \in Int
      /\ act[a].driver /\ act[b].driver /\ Placed(c, a)
  BY LocalsFields, ActuatorFields
  DEF FinishChunk, Approaching, OnCourse, Approach, Adjusting
<1>1. chunk \in Int
  BY PlatformAssumption DEF Sign
<1>2. PICK after \in Outcomes(b, chunk) :
        /\ act' = [act EXCEPT ![b] = after]
        /\ NextUp(c, [l EXCEPT
                        !.owed[b] = Bounded(@ - (act[b].position - after.position)),
                        !.left[b] = after.position - l.goal[b]], b + 1)
  BY DEF FinishChunk
<1>3. after.position \in Int /\ after.driver
  BY <1>0, <1>1, <1>2, OutcomesTyped, OutcomesReach
<1> DEFINE owed == Bounded(l.owed[b] - (act[b].position - after.position))
           left == after.position - l.goal[b]
           k == [l EXCEPT !.owed[b] = owed, !.left[b] = left]
<1>4. owed \in Int /\ left \in Int
  BY <1>0, <1>3, BoundedInteger DEF PerActuator
<1>5. /\ k \in Locals /\ k.goal = l.goal
      /\ k.left = [l.left EXCEPT ![b] = left]
  <2> HIDE DEF owed, left, l
  <2>1. /\ [l.owed EXCEPT ![b] = owed] \in PerActuator
        /\ [l.left EXCEPT ![b] = left] \in PerActuator
    BY <1>0, <1>4 DEF PerActuator
  <2> QED BY <1>0, <2>1 DEF Locals
<1>6. NextUp(c, k, b + 1)
  BY <1>2
<1>7. /\ loc'[c].left = [l.left EXCEPT ![b] = left]
      /\ loc'[c].goal = l.goal
      /\ pc'[c] \in {"loop", "settling"}
      /\ pc'[c] = "settling" => loc'[c].i = 1
  <2> HIDE DEF k
  <2> QED BY <1>5, <1>6, NextUpKeeps DEF Typed
<1>8. act'[a] = IF a = b THEN after ELSE act[a]
  BY <1>0, <1>2 DEF Typed, DeviceTyped
<1> QED BY <1>0, <1>3, <1>7, <1>8 DEF Placed, StepsRemaining, PerActuator


LEMMA SettleApproaches ==
  ASSUME Typed, Approaching, NEW c \in Callers,
         BeginSettling(c) \/ Settle(c), pc'[c] # "idle", NEW a \in Actuators
  PROVE  /\ act'[a].driver
         /\ pc'[c] \in Adjusting
         /\ IF a < loc'[c].i THEN Close(c, a)' \/ Failed' ELSE Placed(c, a)'
<1> DEFINE l == loc[c]
           b == l.i
           next == [l EXCEPT !.i = @ + 1]
<1>0. /\ l \in Locals /\ b \in Actuators /\ b \in Int /\ a \in Int
      /\ act[a].driver /\ act[b].driver
      /\ act[b].position \in Int /\ l.goal[b] \in Int
  <2>1. pc[c] \in Approach
    BY DEF BeginSettling, Settle, Approach, Adjusting
  <2>2. /\ b \in Int /\ a \in Int
        /\ l.goal[b] \in Int
    BY LocalsFields, PlatformAssumption DEF PerActuator, Actuators
  <2>3. act[a].driver /\ act[b].driver
    BY <2>1, LocalsFields DEF Approaching, OnCourse
  <2> QED BY <2>2, <2>3, LocalsFields, ActuatorFields
<1>1. ~EndMotion(c)
  BY DEF EndMotion, Return, Typed, CallersTyped
<1>2. CASE BeginSettling(c)
  <2>1. /\ loc'[c] = l /\ pc'[c] = "settle" /\ act' = act
    BY <1>1, <1>2 DEF BeginSettling, GoOn, Typed, CallersTyped
  <2>2. Placed(c, a) /\ l.i = 1
    BY <1>2 DEF BeginSettling, Approaching, OnCourse, Approach, Adjusting
  <2>3. ~(a < 1)
    BY <1>0, PlatformAssumption DEF Actuators
  <2> QED BY <1>0, <2>1, <2>2, <2>3 DEF Placed, StepsRemaining, Adjusting
<1>3. ASSUME pc[c] = "settle"
      PROVE  IF a < b THEN Close(c, a) \/ Failed ELSE Placed(c, a)
  BY <1>3 DEF Approaching, OnCourse, Approach, Adjusting
<1>4. CASE Settle(c) /\ l.left[b] # 0
  <2>1. /\ loc'[c] = l /\ pc'[c] = "hysteresis"
        /\ Change(b, "busy", TRUE)
    BY <1>0, <1>4 DEF Settle, GoOn, Typed, CallersTyped
  <2>2. \A x \in Actuators : /\ act'[x].driver = act[x].driver
                             /\ act'[x].position = act[x].position
                             /\ act'[x].fatal = act[x].fatal
    BY <1>0, <2>1 DEF Change, Typed, DeviceTyped, Actuator
  <2>3. Failed' <=> Failed
    BY <2>2 DEF Failed
  <2>4. pc[c] = "settle"
    BY <1>4 DEF Settle
  <2> QED BY <1>0, <1>3, <2>1, <2>2, <2>3, <2>4
          DEF Placed, StepsRemaining, Close, Adjusting
<1>5. CASE Settle(c) /\ l.left[b] = 0
  <2>1. /\ loc'[c] = next /\ pc'[c] = "settle" /\ act' = act
        /\ pc[c] = "settle"
    BY <1>1, <1>5 DEF Settle, SettleNext, GoOn, Typed, CallersTyped
  <2>2. next.i = b + 1 /\ next.left = l.left /\ next.goal = l.goal
    BY <1>0 DEF Locals
  <2>3. Placed(c, b) => Close(c, b)
    <3>1. ASSUME Placed(c, b)
          PROVE  Close(c, b)
      <4>1. act[b].position - l.goal[b] = 0
        BY <1>5, <3>1 DEF Placed, StepsRemaining
      <4>2. Magnitude(0) <= Tolerance
        BY PlatformAssumption DEF Magnitude
      <4> QED BY <4>1, <4>2 DEF Close
    <3> QED BY <3>1
  <2>4. a < b + 1 <=> a < b \/ a = b
    BY <1>0
  <2> QED BY <1>0, <1>3, <2>1, <2>2, <2>3, <2>4
          DEF Placed, StepsRemaining, Close, Failed, Adjusting
<1> QED BY <1>2, <1>4, <1>5

\* What the end of a hysteresis motion finds.
LEMMA FinishHysteresisArrives ==
  ASSUME Typed, Approaching, NEW c \in Callers, FinishHysteresis(c)
  PROVE  /\ Failed => Failed'
         /\ \A a \in Actuators :
              IF a > loc[c].i
              THEN act'[a].position = act[a].position /\ Placed(c, a)
              ELSE \/ Failed'
                   \/ Magnitude(act'[a].position - loc[c].goal[a]) <= Tolerance
         /\ \/ pc'[c] = "idle" /\ loc[c].i = NumActuators
            \/ /\ pc'[c] = "settle"
               /\ loc'[c].i = loc[c].i + 1
               /\ loc'[c].left = loc[c].left /\ loc'[c].goal = loc[c].goal
               /\ \A a \in Actuators : act'[a].driver
<1> DEFINE l == loc[c]
           b == l.i
           next == [l EXCEPT !.i = @ + 1]
<1>0. /\ l \in Locals /\ b \in Actuators /\ b \in Int
      /\ Actuators \subseteq Int
      /\ pc[c] = "hysteresis"
      /\ l.left[b] \in Int /\ l.goal[b] \in Int
      /\ act \in [Actuators -> Actuator]
      /\ \A a \in Actuators : act[a] \in Actuator /\ act[a].position \in Int
  <2>1. Actuators \subseteq Int /\ b \in Int
    BY LocalsFields, PlatformAssumption DEF Actuators
  <2>2. l.left[b] \in Int /\ l.goal[b] \in Int
    BY LocalsFields DEF PerActuator
  <2>3. pc[c] = "hysteresis"
    BY DEF FinishHysteresis
  <2> QED BY <2>1, <2>2, <2>3, LocalsFields, ActuatorFields
          DEF Typed, DeviceTyped
<1>1. \A a \in Actuators :
        /\ act[a].driver
        /\ IF a < b THEN Close(c, a) \/ Failed ELSE Placed(c, a)
  BY <1>0 DEF Approaching, OnCourse, Approach, Adjusting
<1>2. PICK after \in Outcomes(b, l.left[b]) :
        IF b = NumActuators
        THEN /\ act' = [x \in Actuators |->
                          [(IF x = b THEN after ELSE act[x])
                             EXCEPT !.driver = FALSE]]
             /\ busy' = FALSE
             /\ Return(c)
        ELSE /\ act' = [act EXCEPT ![b] = after]
             /\ GoOn(c, "settle", next)
             /\ UNCHANGED busy
  BY DEF FinishHysteresis
<1>3. /\ after \in Actuator /\ after.position \in Int
      /\ after.driver = act[b].driver
      /\ act[b].fatal => after.fatal
      /\ \/ after.fatal
         \/ Magnitude(after.position - (act[b].position - l.left[b])) <= Tolerance
  BY <1>0, OutcomesTyped, OutcomesReach
<1>4. \A x \in Actuators :
        LET now == IF x = b THEN after ELSE act[x]
        IN  /\ act'[x].position = now.position
            /\ act'[x].fatal = now.fatal
            /\ b # NumActuators => act'[x].driver = now.driver
  <2>1. CASE b = NumActuators
    <3>1. \A x \in Actuators : (IF x = b THEN after ELSE act[x]) \in Actuator
      BY <1>0, <1>3
    <3>2. \A r \in Actuator : LET s == [r EXCEPT !.driver = FALSE]
                              IN  s.position = r.position /\ s.fatal = r.fatal
      BY DEF Actuator
    <3> QED BY <1>2, <2>1, <3>1, <3>2
  <2>2. CASE b # NumActuators
    BY <1>0, <1>2, <2>2
  <2> QED BY <2>1, <2>2
<1>5. Failed => Failed'
  BY <1>3, <1>4 DEF Failed
<1>6. \/ pc'[c] = "idle" /\ b = NumActuators
      \/ /\ pc'[c] = "settle" /\ b # NumActuators
         /\ loc'[c].i = b + 1
         /\ loc'[c].left = l.left /\ loc'[c].goal = l.goal
  <2>1. next.i = b + 1 /\ next.left = l.left /\ next.goal = l.goal
    BY <1>0 DEF Locals
  <2>2. CASE b = NumActuators
    BY <1>2, <2>2 DEF Return, Typed, CallersTyped
  <2>3. CASE b # NumActuators
    <3>1. loc'[c] = next /\ pc'[c] = "settle"
      BY <1>2, <2>3 DEF GoOn, Typed, CallersTyped
    <3> QED BY <2>1, <2>3, <3>1
  <2> QED BY <2>2, <2>3
<1>7. ASSUME NEW a \in Actuators
      PROVE  IF a > b
             THEN act'[a].position = act[a].position /\ Placed(c, a)
             ELSE \/ Failed'
                  \/ Magnitude(act'[a].position - l.goal[a]) <= Tolerance
  <2>1. CASE a > b
    <3>1. ~(a < b) /\ a # b
      BY <1>0, <2>1
    <3> QED BY <1>1, <1>4, <2>1, <3>1
  <2>2. CASE a = b
    <3>1. ~(a < b) /\ ~(a > b)
      BY <1>0, <2>2
    <3>2. act[b].position - l.left[b] = l.goal[b]
      BY <1>0, <1>1, <2>2, <3>1 DEF Placed, StepsRemaining
    <3>3. act'[b].position = after.position /\ act'[b].fatal = after.fatal
      BY <1>0, <1>4
    <3>4. after.fatal => Failed'
      BY <1>0, <3>3 DEF Failed
    <3> QED BY <1>3, <2>2, <3>1, <3>2, <3>3, <3>4
  <2>3. CASE a < b
    <3>1. a \in Int
      BY <1>0
    <3>2. a # b /\ ~(a > b)
      BY <1>0, <2>3, <3>1
    <3> QED BY <1>1, <1>4, <1>5, <2>3, <3>2 DEF Close
  <2>4. a \in Int
    BY <1>0
  <2> QED BY <1>0, <2>1, <2>2, <2>3, <2>4
<1> QED BY <1>1, <1>3, <1>4, <1>5, <1>6, <1>7


\* While somebody is in charge, all that the others do is call.
LEMMA OthersOnlyCall ==
  ASSUME Typed, BusyInMotion, Undisturbed, ActuatorsLeftAlone,
         NEW c \in Callers, Quick(c) \/ Motion(c) \/ FindHome(c)
  PROVE  /\ InCharge(c)
         /\ ~MeasureFirst(c) /\ ~ActClearAllErrors(c) /\ ~ActTurnOff(c)
<1>1. /\ pc[c] \notin {"measured", "pulse"}
      /\ pc[c] = "admitted" => loc[c].method \in MethodsOf[c]
  BY DEF BusyInMotion
<1>2. pc[c] = "admitted" => loc[c].method \in PanelMethods
  BY <1>1, PlatformAssumption
  DEF Undisturbed, ActuatorsLeftAlone, Methods, ActMethods
<1>3. pc[c] = "admitted" \/ pc[c] \in Moving
  <2>1. CASE Quick(c)
    BY <1>1, <2>1 DEF Quick, TurnOn, TurnOff, ClearErrors, ActClearAllErrors,
       ActTurnOff, StopEnd, Admitted
  <2>2. CASE Motion(c)
    BY <1>1, <2>2, MotionFrom DEF Admitted, Moving, Heeding
  <2>3. CASE FindHome(c)
    BY <2>3, FindHomeGoesOn DEF Admitted, Moving, Heeding
  <2> QED BY <2>1, <2>2, <2>3
<1>4. PanelMethods \cap ({"ActMoveDelta"} \cup ActMethods) = {}
  BY DEF PanelMethods, ActMethods, ActMoves, Moves, Clears
<1> QED BY <1>2, <1>3, <1>4
        DEF InCharge, Admitted, MeasureFirst, ActClearAllErrors, ActTurnOff,
            ActMethods

LEMMA MotionApproaches ==
  ASSUME Typed, Approaching, NEW c \in Callers, Motion(c), ~MeasureFirst(c),
         pc'[c] \in Approach
  PROVE  /\ pc'[c] = "settling" => loc'[c].i = 1
         /\ \A a \in Actuators : OnCourse(c, a)'
<1>0. /\ {"loop", "chunk", "settling"} \cap Adjusting = {}
      /\ "settling" \notin Adjusting /\ "idle" \notin Approach
      /\ 1 \in Actuators
  BY PlatformAssumption DEF Adjusting, Approach, Actuators
<1>1. ~RefuseMove(c) /\ ~StopMotion(c)
  BY <1>0, OthersStay DEF RefuseMove, StopMotion, EndMotion
<1>2. CASE BeginMove(c) \/ Visit(c) \/ FinishChunk(c)
  <2>1. \A a \in Actuators :
          /\ act'[a].driver /\ Placed(c, a)'
          /\ pc'[c] \in {"loop", "settling", "chunk"}
          /\ pc'[c] = "settling" => loc'[c].i = 1
    BY <1>2, BeginMoveApproaches, VisitApproaches, FinishChunkApproaches
  <2> QED BY <1>0, <2>1 DEF OnCourse
<1>3. CASE BeginSettling(c) \/ Settle(c)
  <2>1. \A a \in Actuators :
         /\ act'[a].driver
         /\ pc'[c] \in Adjusting
         /\ IF a < loc'[c].i THEN Close(c, a)' \/ Failed' ELSE Placed(c, a)'
    BY <1>0, <1>3, SettleApproaches
  <2> QED BY <1>0, <2>1 DEF OnCourse
<1>4. CASE FinishHysteresis(c)
  <2>1. /\ pc'[c] = "settle"
        /\ loc'[c].i = loc[c].i + 1
        /\ loc'[c].left = loc[c].left /\ loc'[c].goal = loc[c].goal
        /\ \A a \in Actuators : act'[a].driver
    BY <1>0, <1>4, FinishHysteresisArrives
  <2>2. ASSUME NEW a \in Actuators
        PROVE  IF a < loc'[c].i THEN Close(c, a)' \/ Failed' ELSE Placed(c, a)'
    <3>1. IF a > loc[c].i
          THEN act'[a].position = act[a].position /\ Placed(c, a)
          ELSE \/ Failed'
               \/ Magnitude(act'[a].position - loc[c].goal[a]) <= Tolerance
      BY <1>4, FinishHysteresisArrives
    <3>2. /\ a \in Int /\ loc[c].i \in Int
          /\ a < loc[c].i + 1 <=> a <= loc[c].i
          /\ a > loc[c].i <=> ~(a <= loc[c].i)
      BY LocalsFields DEF Actuators
    <3>3. CASE ~(a > loc[c].i)
      BY <2>1, <3>1, <3>2, <3>3 DEF Close
    <3>4. CASE a > loc[c].i
      <4>1. act'[a].position = act[a].position /\ Placed(c, a)
        BY <3>1, <3>4
      <4> QED BY <2>1, <3>2, <3>4, <4>1 DEF Placed, StepsRemaining
    <3> QED BY <3>3, <3>4
  <2> QED BY <1>0, <2>1, <2>2 DEF OnCourse, Adjusting
<1> QED BY <1>1, <1>2, <1>3, <1>4 DEF Motion


LEMMA ApproachingStep ==
  ASSUME ~Race, Undisturbed, ActuatorsLeftAlone
  PROVE  Typed /\ BusyInMotion /\ Approaching /\ [Next]_vars => Approaching'
<1> SUFFICES ASSUME Typed, BusyInMotion, Approaching, [Next]_vars
             PROVE  Approaching'
  OBVIOUS
<1>0. /\ Approach \subseteq Moving
      /\ {"idle", "admitted", "coarse", "searched", "fine", "homing"}
           \cap Approach = {}
      /\ "settling" \in Approach
  BY DEF Approach, Adjusting, Moving, Heeding
\* A caller that stays where it is while the positions and the drivers stay too.
<1>1. ASSUME NEW d \in Callers, pc'[d] = pc[d], loc'[d] = loc[d],
             \A a \in Actuators : /\ act'[a].driver = act[a].driver
                                  /\ act'[a].position = act[a].position
                                  /\ act[a].fatal => act'[a].fatal
      PROVE  /\ pc'[d] = "settling" => loc'[d].i = 1
             /\ pc'[d] \in Approach => \A a \in Actuators : OnCourse(d, a)'
  <2>1. Failed => Failed'
    BY <1>1 DEF Failed
  <2> QED BY <1>1, <2>1
          DEF Approaching, OnCourse, Placed, StepsRemaining, Close
<1>2. ASSUME NEW c \in Callers, Call(c) \/ StopBegin(c)
      PROVE  Approaching'
  <2>1. Call(c) /\ act' = act
    BY <1>2 DEF Call, StopBegin, Undisturbed
  <2>2. /\ pc'[c] = "admitted"
        /\ \A d \in Callers : d # c => pc'[d] = pc[d] /\ loc'[d] = loc[d]
    <3>1. PICK m \in MethodsOf[c] : \E l : GoOn(c, "admitted", l)
      BY <2>1, CallAdmits
    <3> QED BY <3>1, OthersStay
  <2> QED BY <1>0, <1>1, <2>1, <2>2 DEF Approaching
<1>3. ASSUME NEW c \in Callers, Quick(c) \/ Motion(c) \/ FindHome(c)
      PROVE  Approaching'
  <2>1. InCharge(c) /\ ~MeasureFirst(c)
    BY <1>3, OthersOnlyCall
  <2>2. Return(c) \/ \E p, l : GoOn(c, p, l)
    BY <1>3, MotionGoesOn, FindHomeGoesOn
    DEF Quick, TurnOn, TurnOff, ClearErrors, ActClearAllErrors, ActTurnOff,
        StopEnd
  <2>3. \A d \in Callers : d # c => pc'[d] \notin Approach
    BY <1>0, <2>1, <2>2, OthersStay DEF BusyInMotion, InCharge
  <2>4. CASE Motion(c)
    <3>1. pc'[c] \in Approach \/ pc'[c] \notin Approach
      OBVIOUS
    <3> QED BY <1>0, <2>1, <2>3, <2>4, MotionApproaches DEF Approaching
  <2>5. CASE Quick(c) \/ FindHome(c)
    <3>1. Return(c)
            \/ \E p \in {"coarse", "searched", "fine", "homing"} : \E l :
                 GoOn(c, p, l)
      BY <2>5, FindHomeGoesOn
      DEF Quick, TurnOn, TurnOff, ClearErrors, ActClearAllErrors, ActTurnOff,
          StopEnd
    <3>2. pc'[c] \notin Approach
      BY <1>0, <3>1, OthersStay
    <3> QED BY <1>0, <2>3, <3>2 DEF Approaching
  <2> QED BY <1>3, <2>4, <2>5
<1>4. CASE ReadErrorState \/ UNCHANGED vars
  BY <1>1, <1>4 DEF ReadErrorState, vars, Approaching
<1>5. CASE MeasureLength
  <2>1. PICK x \in Actuators, found \in BOOLEAN :
          act' = [act EXCEPT ![x].busy = FALSE, ![x].fatal = @ \/ found]
    BY <1>5 DEF MeasureLength
  <2>2. \A a \in Actuators : /\ act'[a].driver = act[a].driver
                             /\ act'[a].position = act[a].position
                             /\ act[a].fatal => act'[a].fatal
    BY <2>1 DEF Typed, DeviceTyped, Actuator
  <2>3. pc' = pc /\ loc' = loc
    BY <1>5 DEF MeasureLength
  <2> QED BY <1>1, <2>2, <2>3 DEF Approaching
<1> QED BY <1>2, <1>3, <1>4, <1>5 DEF Next

\* A motion that ends has been told to, or has failed, or has arrived.
LEMMA ApproachingArrives ==
  ASSUME ~Race, Undisturbed, ActuatorsLeftAlone,
         Typed, BusyInMotion, Approaching, [Next]_vars,
         NEW c \in Callers, pc[c] \in Adjusting, pc'[c] = "idle",
         on, ~FatalNow', NEW a \in Actuators
  PROVE  Magnitude(act'[a].position - loc[c].goal[a]) <= Tolerance
<1>0. /\ pc[c] \in Moving /\ InCharge(c) /\ pc[c] # "idle"
      /\ \A x \in Actuators : OnCourse(c, x)
      /\ pc[c] \notin {"admitted", "pulse", "measured", "coarse", "searched",
                       "fine", "homing", "loop", "chunk", "settling"}
  BY DEF Adjusting, Moving, Heeding, InCharge, Approaching, Approach
<1>1. ~Failed'
  BY DEF Failed, FatalNow, checkActuatorStatus
<1>2. PICK d \in Callers : \/ Call(d) \/ StopBegin(d)
                           \/ Quick(d) \/ Motion(d) \/ FindHome(d)
  BY <1>0 DEF Next, ReadErrorState, MeasureLength, vars
<1>3. d = c
  <2>1. CASE Call(d) \/ StopBegin(d)
    BY <1>0, <2>1, QuickKeepsMotions
  <2>2. CASE Quick(d) \/ Motion(d) \/ FindHome(d)
    BY <1>0, <2>2, OthersOnlyCall DEF BusyInMotion
  <2> QED BY <1>2, <2>1, <2>2
<1>4. Motion(c)
  <2>1. ~Call(c) /\ ~StopBegin(c) /\ ~Quick(c)
    BY <1>0, QuickKeepsMotions
  <2>2. ~FindHome(c)
    BY <1>0, FindHomeGoesOn DEF Admitted
  <2> QED BY <1>2, <1>3, <2>1, <2>2
<1>5. ~MeasureFirst(c) /\ ~RefuseMove(c) /\ ~BeginMove(c) /\ ~Visit(c)
        /\ ~FinishChunk(c) /\ ~BeginSettling(c)
  BY <1>0 DEF MeasureFirst, RefuseMove, BeginMove, Visit, FinishChunk,
     BeginSettling, MayBegin, Admitted
<1>6. /\ loc[c].i \in Actuators /\ loc[c].i \in Int /\ a \in Int
      /\ a <= NumActuators /\ NumActuators \in Int
  BY LocalsFields, PlatformAssumption DEF Actuators
\* A motion that is told to end finds the platform off or an error.
<1>7. CASE StopMotion(c)
  <2>1. FatalNow /\ LookAtErrors
    BY <1>7 DEF StopMotion, Told
  <2> QED BY <2>1 DEF FatalNow, LookAtErrors, checkActuatorStatus
<1>8. CASE Settle(c)
  <2>1. /\ loc[c].i = NumActuators /\ setDrivers(FALSE)
        /\ loc[c].left[NumActuators] = 0
    <3>1. SettleNext(c) /\ loc[c].left[loc[c].i] = 0
      <4>1. \A p, l : GoOn(c, p, l) => p = "idle"
        BY OthersStay
      <4>2. act[loc[c].i].driver
        BY <1>0, <1>6 DEF OnCourse
      <4> QED BY <1>8, <4>1, <4>2 DEF Settle
    <3>2. \A p, l : GoOn(c, p, l) => p = "idle"
      BY OthersStay
    <3> QED BY <3>1, <3>2 DEF SettleNext, EndMotion
  <2>2. \A x \in Actuators : /\ act'[x].position = act[x].position
                             /\ act'[x].fatal = act[x].fatal
    BY <2>1 DEF setDrivers, Typed, DeviceTyped, Actuator
  <2>3. ~Failed
    BY <1>1, <2>2 DEF Failed
  <2>4. pc[c] = "settle"
    BY <1>8 DEF Settle
  <2>5. CASE a < NumActuators
    BY <1>0, <2>1, <2>2, <2>3, <2>4, <2>5 DEF OnCourse, Close, Adjusting
  <2>6. CASE a = NumActuators
    <3>1. ~(a < loc[c].i)
      BY <1>6, <2>1, <2>6
    <3>2. act[a].position - loc[c].goal[a] = 0
      BY <1>0, <2>1, <2>6, <3>1 DEF OnCourse, Placed, StepsRemaining
    <3>3. Magnitude(0) <= Tolerance
      BY PlatformAssumption DEF Magnitude
    <3> QED BY <2>2, <3>2, <3>3
  <2> QED BY <1>6, <2>5, <2>6
<1>9. CASE FinishHysteresis(c)
  <2>1. loc[c].i = NumActuators
    BY <1>9, FinishHysteresisArrives
  <2>2. ~(a > loc[c].i)
    BY <1>6, <2>1
  <2> QED BY <1>1, <1>9, <2>2, FinishHysteresisArrives
<1> QED BY <1>4, <1>5, <1>7, <1>8, <1>9 DEF Motion

\* A motion of __step (platform.cpp:384) that runs to its end has every
\* actuator at its goal, for any number of actuators and callers and whatever
\* the chunks miss: provided that two calls do not race to the lock, that
\* nobody stops or turns off the panel, and that nobody calls the methods of a
\* single actuator, which are let in during a motion.
THEOREM MotionsArrive ==
  ASSUME ~Race, Undisturbed, ActuatorsLeftAlone
  PROVE  Spec => Arrives
<1>1. Init => BusyInMotion /\ Approaching
  BY DEF Init, BusyInMotion, InCharge, Admitted, Moving, Heeding,
     Approaching, Approach, Adjusting
<1>2. Typed /\ BusyInMotion /\ [Next]_vars => BusyInMotion'
  BY BusyInMotionStep
<1>3. Typed /\ BusyInMotion /\ Approaching /\ [Next]_vars => Approaching'
  BY ApproachingStep
<1>4. Typed /\ BusyInMotion /\ Approaching /\ [Next]_vars
        => [\A c \in Callers :
              /\ pc[c] \in {"settle", "hysteresis"} /\ pc'[c] = "idle"
              /\ on /\ ~FatalNow'
              => \A a \in Actuators :
                   Magnitude(act'[a].position - loc[c].goal[a]) <= Tolerance]_vars
  BY ApproachingArrives DEF Adjusting
<1> QED BY <1>1, <1>2, <1>3, <1>4, AlwaysTyped, PTL DEF Spec, Arrives

=============================================================================
