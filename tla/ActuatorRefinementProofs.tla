----------------------- MODULE ActuatorRefinementProofs -----------------------
(***************************************************************************)
(* An actuator in which none of the excluded faults occurs implements the  *)
(* abstract one, for every value of the constants.                         *)
(***************************************************************************)
EXTENDS ActuatorRefinement, ActuatorProofs

LEMMA InitMaps == Init => Promise!Init
<1> SUFFICES ASSUME Init PROVE Promise!Init
  OBVIOUS
<1>1. /\ shaft \in Int /\ pc = "down" /\ op.final = 0
  BY ActuatorAssumption DEF Init, NoLocals
<1>2. AbstractPhase = "down"
  BY <1>1 DEF AbstractPhase, Searching
<1>3. ~ReportsPosition
  BY <1>1 DEF ReportsPosition
<1> QED BY <1>1, <1>2, <1>3 DEF Promise!Init

\* Where the invariant holds after a step, what is reported is near, or exact
\* during a motion.
LEMMA ReportIsNear ==
  ASSUME TypeOK', Parts', pc' = "idle"
  PROVE  Promise!ReportsNear
<1>1. /\ shaft' \in Int /\ act'.position \in Int
      /\ StepsPerRevolution \in Int
  BY ActuatorAssumption, PositionAssumption DEF TypeOK, Status
<1>2. ReportsPosition' => 2 * Magnitude(shaft' - act'.position) < StepsPerRevolution
  BY DEF ReportsPosition, Parts, IdlePart, Honest, Located
<1>3. ReportsPosition' => Promise!Near(act'.position, shaft')
  BY <1>1, <1>2 DEF Promise!Near, Magnitude
<1>4. ReportsPosition' \in BOOLEAN
  BY DEF ReportsPosition
<1> QED BY <1>3, <1>4 DEF Promise!ReportsNear

LEMMA ReportIsExact ==
  ASSUME Parts', pc' \in {"loop", "returned"}
  PROVE  Promise!ReportsExact
<1>1. ReportsPosition' => act'.position = shaft'
  BY DEF ReportsPosition, Parts, MotionPart, Exact
<1>2. ReportsPosition' \in BOOLEAN
  BY DEF ReportsPosition
<1> QED BY <1>1, <1>2 DEF Promise!ReportsExact

\* Entering __step begins a motion, whatever was under way.
LEMMA EnterStepMaps ==
  ASSUME TypeOK', Parts', pc \in {"idle", "returned"},
         NEW steps \in Int, NEW next, NEW direction,
         EnterStep(steps, next, direction), UNCHANGED shaft
  PROVE  Promise!BeginMotion /\ GoalPart'
<1>1. pc' = "loop" /\ op'.final \in Int
  BY DEF EnterStep, TypeOK, Locals
<1>2. Promise!ReportsExact
  BY <1>1, ReportIsExact
<1>3. Promise!BeginMotion
  BY <1>1, <1>2 DEF Promise!BeginMotion, AbstractPhase, Searching
<1>4. /\ op'.final = act'.position - steps
      /\ op'.toTake = IF steps < 0 THEN -RecordingInterval
                                   ELSE RecordingInterval
  BY DEF EnterStep
<1>5. StepsRemaining' = steps
  BY <1>4 DEF StepsRemaining, TypeOK, Status
<1>6. GoalPart'
  BY <1>1, <1>4, <1>5, ActuatorAssumption
  DEF GoalPart, Stepping, Magnitude
<1> QED BY <1>3, <1>6

\* A step on what is not promised.
LEMMA Stutters ==
  ASSUME UNCHANGED <<shaft, act, op, dismissed>>,
         \/ UNCHANGED pc
         \/ pc = "loop" /\ pc' = "returned"
  PROVE  UNCHANGED Promise!vars
BY DEF Promise!vars, AbstractPhase, ReportsPosition, Searching

\* A step that leaves the actuator idle, and whose position is not moved.
LEMMA AttendMaps ==
  ASSUME TypeOK', Parts', GoalPart, pc = "idle", pc' = "idle",
         UNCHANGED <<shaft, op>>
  PROVE  Promise!Attend /\ GoalPart'
<1>1. Promise!ReportsNear
  BY ReportIsNear
<1>2. Promise!Attend
  BY <1>1 DEF Promise!Attend, AbstractPhase, Searching
<1>3. op.final = 0
  BY DEF GoalPart, Stepping
<1>4. GoalPart'
  BY <1>3 DEF GoalPart, Stepping
<1> QED BY <1>2, <1>4

\* A step of a search.
LEMMA SearchMaps ==
  ASSUME GoalPart, pc \in Searching, pc' \in Searching, shaft' \in Int,
         op'.final = op.final
  PROVE  Promise!Search /\ GoalPart'
<1>1. Promise!Search
  BY DEF Promise!Search, Promise!ReportsNothing, AbstractPhase,
     ReportsPosition, Searching
<1>2. op.final = 0
  BY DEF GoalPart, Stepping, Searching
<1>3. GoalPart'
  BY <1>2 DEF GoalPart, Stepping, Searching
<1> QED BY <1>1, <1>3

\* A search ends with a position or an error.
LEMMA EndSearchMaps ==
  ASSUME TypeOK', Parts', GoalPart, pc \in Searching, pc' = "idle",
         op' = NoLocals, UNCHANGED shaft
  PROVE  Promise!EndSearch /\ GoalPart'
<1>1. op.final = 0 /\ op'.final = 0
  BY DEF GoalPart, Stepping, Searching, NoLocals
<1>2. Promise!ReportsNear
  BY ReportIsNear
<1>3. Promise!EndSearch
  BY <1>1, <1>2 DEF Promise!EndSearch, AbstractPhase, Searching
<1>4. GoalPart'
  BY <1>1 DEF GoalPart, Stepping
<1> QED BY <1>3, <1>4

Maps == [Promise!Next]_(Promise!vars) /\ GoalPart'

LEMMA EnvironmentMaps ==
  ASSUME TypeOK, Parts, GoalPart, TypeOK', Parts', Environment
  PROVE  Maps
<1>1. CASE Start
  <2>1. pc = "down" /\ pc' = "idle" /\ UNCHANGED <<shaft, op>>
    BY <1>1 DEF Start
  <2>2. Promise!ReportsNear
    BY <2>1, ReportIsNear
  <2>3. Promise!Restart
    BY <2>1, <2>2 DEF Promise!Restart, AbstractPhase, Searching
  <2>4. op.final = 0
    BY <2>1 DEF GoalPart, Stepping
  <2>5. GoalPart'
    BY <2>1, <2>4 DEF GoalPart, Stepping
  <2> QED BY <2>3, <2>5 DEF Maps, Promise!Next
<1>2. CASE Crash
  <2>1. pc' = "down" /\ UNCHANGED shaft /\ op'.final = 0
    BY <1>2 DEF Crash, NoLocals
  <2>2. Promise!Crash
    BY <2>1 DEF Promise!Crash, Promise!ReportsNothing, AbstractPhase,
       ReportsPosition, Searching
  <2>3. GoalPart'
    BY <2>1 DEF GoalPart, Stepping
  <2> QED BY <2>2, <2>3 DEF Maps, Promise!Next
<1>3. CASE EnableDriver \/ DisableDriver \/ emergencyStop
  <2>1. UNCHANGED <<shaft, act, op, dismissed, pc>>
    BY <1>3 DEF EnableDriver, DisableDriver, emergencyStop
  <2>2. UNCHANGED Promise!vars
    BY <2>1, Stutters
  <2>3. GoalPart'
    BY <2>1 DEF GoalPart, ReportsPosition, StepsRemaining, Promise!Within
  <2> QED BY <2>2, <2>3 DEF Maps
<1>4. CASE turnOn \/ turnOff
  <2>1. pc = "idle" /\ pc' = "idle" /\ UNCHANGED <<shaft, op>>
    BY <1>4 DEF turnOn, turnOff
  <2> QED BY <2>1, AttendMaps DEF Maps, Promise!Next
<1> QED BY <1>1, <1>2, <1>3, <1>4 DEF Environment

LEMMA OperatorMaps ==
  ASSUME TypeOK, Parts, GoalPart, TypeOK', Parts', Operator
  PROVE  Maps
<1>1. CASE measureLength \/ forceRecover \/ clearErrors
           \/ \E e \in ClearRequests : clearError(e)
  <2>1. pc = "idle" /\ pc' = "idle" /\ UNCHANGED <<shaft, op>>
    BY <1>1 DEF measureLength, forceRecover, clearErrors, clearError
  <2> QED BY <2>1, AttendMaps DEF Maps, Promise!Next
<1>2. ASSUME NEW n \in StepRequests,
             step(n) \/ moveDeltaLength(n) \/ performHysteresisMotion(n)
      PROVE  Maps
  <2>1. n \in Int /\ n - HysteresisSteps \in Int
    BY ActuatorAssumption
  <2> QED BY <1>2, <2>1, EnterStepMaps
          DEF step, moveDeltaLength, performHysteresisMotion, Maps, Promise!Next
<1>3. ASSUME NEW direction \in {1, -1}, NEW kind \in {"findHome", "probeHome"},
             BeginSearch(direction, kind)
      PROVE  Maps
  <2>1. pc = "idle" /\ pc' = "coarse" /\ UNCHANGED shaft
    BY <1>3 DEF BeginSearch
  <2>2. op.final = 0 /\ op'.final = 0
    BY <1>3, <2>1 DEF GoalPart, Stepping, BeginSearch, NoLocals
  <2>3. Promise!BeginSearch
    BY <2>1, <2>2 DEF Promise!BeginSearch, Promise!ReportsNothing,
       AbstractPhase, ReportsPosition, Searching
  <2>4. GoalPart'
    BY <2>1, <2>2 DEF GoalPart, Stepping
  <2> QED BY <2>3, <2>4 DEF Maps, Promise!Next
<1> QED BY <1>1, <1>2, <1>3 DEF Operator

-----------------------------------------------------------------------------
(* Motions *)

\* A chunk goes towards the goal: a full one if more than one is left.
LEMMA DriveMaps ==
  ASSUME TypeOK, Parts, GoalPart, DriveChunk
  PROVE  Maps
<1> DEFINE last   == Magnitude(StepsRemaining) <= RecordingInterval
           toTake == IF last THEN StepsRemaining ELSE op.toTake
<1>1. /\ pc = "loop" /\ pc' = "moved" /\ UNCHANGED <<act, dismissed>>
      /\ shaft' \in DrivenTo(toTake)
      /\ op'.toTake = toTake /\ op'.final = op.final
  <2>1. op \in Locals
    BY DEF TypeOK
  <2>2. op' = [op EXCEPT !.toTake = toTake]
    BY DEF DriveChunk
  <2>3. op'.toTake = toTake /\ op'.final = op.final
    BY <2>1, <2>2 DEF Locals
  <2> QED BY <2>3 DEF DriveChunk
<1>2. /\ shaft \in Int /\ act.position \in Int /\ op.final \in Int
      /\ op.toTake \in Int /\ StepsRemaining = act.position - op.final
      /\ RecordingInterval \in Nat
  <2>1. shaft \in Int /\ act \in Status /\ op \in Locals
    BY ActuatorAssumption DEF TypeOK
  <2> QED BY <2>1, ActuatorAssumption DEF Status, Locals, StepsRemaining
<1>3. toTake \in Int /\ Magnitude(toTake) <= RecordingInterval
  <2>1. Magnitude(op.toTake) <= RecordingInterval
    BY <1>1 DEF Parts, MotionPart
  <2> QED BY <1>2, <2>1
<1>4. ReportsPosition' = ReportsPosition
  BY <1>1 DEF ReportsPosition, Searching
<1>5. ReportsPosition =>
        /\ act.position = shaft
        /\ Promise!Within(act.position - toTake, act.position, op.final)
        /\ \/ act.position - toTake = op.final
           \/ Magnitude(toTake) = RecordingInterval
  <2> SUFFICES ASSUME ReportsPosition
               PROVE  /\ act.position = shaft
                      /\ Promise!Within(act.position - toTake, act.position,
                                        op.final)
                      /\ \/ act.position - toTake = op.final
                         \/ Magnitude(toTake) = RecordingInterval
    OBVIOUS
  <2>1. act.position = shaft
    BY <1>1 DEF ReportsPosition, Parts, MotionPart, Exact
  <2>2. CASE last
    BY <1>2, <2>1, <2>2 DEF Promise!Within
  <2>3. CASE ~last
    <3>1. /\ Magnitude(op.toTake) = RecordingInterval
          /\ op.toTake > 0 <=> StepsRemaining > 0
      <4>1. Magnitude(StepsRemaining) > RecordingInterval
        BY <1>2, <2>3 DEF Magnitude
      <4> QED BY <1>1, <4>1 DEF GoalPart
    <3> QED BY <1>2, <2>1, <2>3, <3>1 DEF Promise!Within, Magnitude
  <2> QED BY <2>2, <2>3
<1> HIDE DEF toTake, last
<1>6. shaft' \in Between(shaft, shaft - toTake)
  BY <1>1, <1>3, DrivenBetween
<1>7. Promise!Drive
  <2>1. AbstractPhase = "moving" /\ AbstractPhase' = "driven"
    BY <1>1 DEF AbstractPhase, Searching
  <2>2. toTake \in -RecordingInterval .. RecordingInterval
    BY <1>2, <1>3 DEF Magnitude
  <2>3. Promise!Within(shaft', shaft, shaft - toTake)
    BY <1>2, <1>3, <1>6 DEF Promise!Within, Between
  <2>4. ReportsPosition => Promise!Within(shaft - toTake, shaft, op.final)
    BY <1>5
  <2> QED BY <1>1, <1>4, <2>1, <2>2, <2>3, <2>4 DEF Promise!Drive
<1>8. GoalPart'
  BY <1>1, <1>4, <1>5 DEF GoalPart, Stepping, Promise!Within
<1> QED BY <1>7, <1>8 DEF Maps, Promise!Next

\* What is recorded after a chunk is exact, or an error is raised.
LEMMA RecordMaps ==
  ASSUME Faults = {}, TypeOK, Parts, GoalPart, TypeOK', Parts', CheckChunk
  PROVE  Maps
<1>1. /\ pc = "moved" /\ pc' \in {"loop", "returned"}
      /\ UNCHANGED <<shaft, dismissed>>
      /\ op'.final = op.final
      /\ pc' = "loop" => op' = op
  <2>1. op \in Locals
    BY DEF TypeOK
  <2> QED BY <2>1 DEF CheckChunk, StepReturns, Locals
<1>2. /\ shaft \in Int /\ act \in Status /\ act.position \in Int
      /\ op.final \in Int /\ op.toTake \in Int
      /\ act.position - op.toTake \in Int
      /\ RecordingInterval \in Nat \ {0} /\ MinimumMissedSteps \in Nat
      /\ ~Fatal(act.errors)
      /\ Magnitude(op.toTake) <= RecordingInterval
  <2>1. shaft \in Int /\ act \in Status /\ op \in Locals
    BY ActuatorAssumption DEF TypeOK
  <2>2. act.position \in Int /\ op.final \in Int /\ op.toTake \in Int
    BY <2>1 DEF Status, Locals
  <2> QED BY <1>1, <2>1, <2>2, ActuatorAssumption DEF Parts, MotionPart
<1>3. ReportsPosition <=> ~dismissed
  BY <1>1, <1>2 DEF ReportsPosition, Searching
<1>4. ReportsPosition' => /\ ReportsPosition /\ pc' = "loop"
                          /\ act'.position = shaft
                          /\ \E d \in Int :
                               /\ act'.position
                                    = act.position - (op.toTake - d)
                               /\ Magnitude(d) <= TolerableMissed(op.toTake)
  <2> SUFFICES ASSUME ReportsPosition'
               PROVE  /\ pc' = "loop"
                      /\ \E d \in Int :
                           /\ act'.position
                                = act.position - (op.toTake - d)
                           /\ Magnitude(d) <= TolerableMissed(op.toTake)
    BY <1>1, <1>3 DEF ReportsPosition, Parts, MotionPart, Exact
  <2>1. ~Fatal(act'.errors)
    BY DEF ReportsPosition
  <2>2. act' # VoltageFault(act)
    BY <1>2, <2>1, FaultTyped, FatalCodes
  <2>3. PICK d \in Deviations(act.position - op.toTake, shaft) :
          LET s == setCurrentPosition(act, act.position - (op.toTake - d))
          IN  \/ act' \in {saveStatusToASF(setError(s, {6})),
                           saveStatusToASF(setError(s, {8}))}
              \/ /\ act' = saveStatusToASF(s) /\ pc' = "loop"
                 /\ Magnitude(d) <= TolerableMissed(op.toTake)
    BY <2>2 DEF CheckChunk
  <2> DEFINE s == setCurrentPosition(act, act.position - (op.toTake - d))
  <2>4. d \in Int
    BY ChunkDeviationTyped
  <2>5. act.position - (op.toTake - d) \in Int
    BY <1>2, <2>4
  <2>6. s \in Status /\ s.position = act.position - (op.toTake - d)
    BY <1>2, <2>5, PlaceTyped
  <2> HIDE DEF s
  <2>7. ASSUME NEW e \in {6, 8}, act' = saveStatusToASF(setError(s, {e}))
        PROVE  FALSE
    <3>1. setError(s, {e}) \in Status /\ e \in setError(s, {e}).errors
      BY <2>6, Codes, ErrorTyped
    <3>2. e \in act'.errors
      BY <2>7, <3>1, SaveTyped
    <3> QED BY <2>1, <3>2, FatalCodes
  <2>8. /\ act' = saveStatusToASF(s) /\ pc' = "loop"
        /\ Magnitude(d) <= TolerableMissed(op.toTake)
    BY <2>3, <2>7 DEF s
  <2>9. act'.position = act.position - (op.toTake - d)
    BY <2>6, <2>8, SaveTyped
  <2> QED BY <2>4, <2>8, <2>9
<1>5. Promise!Record
  <2>1. AbstractPhase = "driven" /\ AbstractPhase' = "moving"
    BY <1>1 DEF AbstractPhase, Searching
  <2>2. Promise!ReportsExact
    BY <1>1, ReportIsExact
  <2>3. TolerableMissed(op.toTake) \in Int
    <3>1. Magnitude(op.toTake) \in Int
      BY <1>2 DEF Magnitude
    <3> QED BY <1>2, <3>1 DEF TolerableMissed
  <2>4. ReportsPosition' =>
          Promise!Within(act'.position - (act.position - op.toTake),
                         -TolerableMissed(op.toTake),
                         TolerableMissed(op.toTake))
    <3> SUFFICES ASSUME ReportsPosition', NEW d \in Int,
                        act'.position = act.position - (op.toTake - d),
                        Magnitude(d) <= TolerableMissed(op.toTake)
                 PROVE  Promise!Within(
                          act'.position - (act.position - op.toTake),
                          -TolerableMissed(op.toTake),
                          TolerableMissed(op.toTake))
      BY <1>4
    <3>1. act'.position - (act.position - op.toTake) = d
      BY <1>2
    <3> QED BY <2>3, <3>1 DEF Promise!Within, Magnitude
  <2> QED BY <1>1, <1>4, <2>1, <2>2, <2>4 DEF Promise!Record
<1>6. GoalPart'
  <2> SUFFICES ASSUME pc' = "loop", ReportsPosition',
                      Magnitude(StepsRemaining') > RecordingInterval
               PROVE  /\ Magnitude(op'.toTake) = RecordingInterval
                      /\ op'.toTake > 0 <=> StepsRemaining' > 0
    BY <1>1 DEF GoalPart, Stepping
  <2>1. /\ op' = op /\ act'.position = shaft /\ ReportsPosition
        /\ StepsRemaining' = shaft - op.final
    BY <1>1, <1>4 DEF StepsRemaining
  <2>2. shaft \in Between(act.position, act.position - op.toTake)
    BY <1>1, <1>3, <2>1 DEF Parts, MotionPart
  <2>3. /\ Promise!Within(act.position - op.toTake, act.position, op.final)
        /\ \/ act.position - op.toTake = op.final
           \/ Magnitude(op.toTake) = RecordingInterval
    BY <1>1, <2>1 DEF GoalPart
  <2>4. Magnitude(shaft - op.final) > RecordingInterval
    BY <2>1
  <2>5. Magnitude(op.toTake) = RecordingInterval
    BY <1>2, <2>2, <2>3, <2>4 DEF Between, Magnitude
  <2>6. op.toTake > 0 <=> shaft - op.final > 0
    BY <1>2, <2>2, <2>3, <2>4, <2>5 DEF Between, Magnitude, Promise!Within
  <2> QED BY <2>1, <2>5, <2>6
<1> QED BY <1>5, <1>6 DEF Maps, Promise!Next

\* A motion ends with its position, or with an error.
LEMMA EndMotionMaps ==
  ASSUME TypeOK, Parts, pc = "returned", pc' = "idle", op' = NoLocals,
         UNCHANGED <<shaft, dismissed>>, act' = act \/ Fatal(act'.errors)
  PROVE  Promise!EndMotion /\ GoalPart'
<1>1. ReportsPosition' =>
        act'.position = shaft' /\ ReportsPosition
  BY DEF ReportsPosition, Parts, MotionPart, Exact, Searching
<1>2. ReportsPosition' \in BOOLEAN
  BY DEF ReportsPosition
<1>3. op'.final = 0
  BY DEF NoLocals
<1>4. AbstractPhase = "moving" /\ AbstractPhase' = "idle"
  BY DEF AbstractPhase, Searching
<1>5. Promise!EndMotion
  BY <1>1, <1>2, <1>3, <1>4 DEF Promise!EndMotion, Promise!ReportsExact
<1>6. GoalPart'
  BY <1>3 DEF GoalPart, Stepping
<1> QED BY <1>5, <1>6

LEMMA MotionMaps ==
  ASSUME Faults = {}, TypeOK, Parts, GoalPart, TypeOK', Parts', Motion
  PROVE  Maps
<1>1. CASE DriveChunk
  BY <1>1, DriveMaps
<1>2. CASE CheckChunk
  BY <1>2, RecordMaps
<1>3. CASE LeaveLoop
  <2>1. /\ pc = "loop" /\ pc' = "returned" /\ UNCHANGED <<shaft, act, dismissed>>
        /\ op'.final = op.final
    BY <1>3 DEF LeaveLoop, StepReturns, TypeOK, Locals
  <2>2. UNCHANGED Promise!vars
    BY <2>1 DEF Promise!vars, AbstractPhase, ReportsPosition, Searching
  <2>3. GoalPart'
    BY <2>1 DEF GoalPart, Stepping
  <2> QED BY <2>2, <2>3 DEF Maps
<1>4. CASE FinishStep
  BY <1>4, EndMotionMaps DEF FinishStep, Maps, Promise!Next
<1>5. CASE FinishHysteresis
  <2>1. HysteresisSteps + op.remaining \in Int
    BY ActuatorAssumption DEF TypeOK, Locals
  <2> QED BY <1>5, <2>1, EnterStepMaps DEF FinishHysteresis, Maps, Promise!Next
<1>6. CASE StuckAtStop
  <2>1. setError(act, {0}) \in Status /\ 0 \in setError(act, {0}).errors
    BY Codes, ErrorTyped DEF TypeOK
  <2>2. act' = saveStatusToASF(setError(act, {0}))
    BY <1>6 DEF StuckAtStop
  <2>3. 0 \in act'.errors
    BY <2>1, <2>2, SaveTyped
  <2>4. Fatal(act'.errors)
    BY <2>3, FatalCodes
  <2> QED BY <1>6, <2>4, EndMotionMaps DEF StuckAtStop, Maps, Promise!Next
<1>7. CASE ReturnToStop
  <2>1. op.direction * RecordingInterval \in Int
    BY ActuatorAssumption DEF TypeOK, Locals
  <2> QED BY <1>7, <2>1, EnterStepMaps DEF ReturnToStop, Maps, Promise!Next
<1> QED BY <1>1, <1>2, <1>3, <1>4, <1>5, <1>6, <1>7 DEF Motion

-----------------------------------------------------------------------------
(* Searches *)

LEMMA HomeSetMaps ==
  ASSUME TypeOK, Parts, GoalPart, TypeOK', Parts', SetHomeFromStop
  PROVE  Maps
<1>1. pc \in Searching /\ UNCHANGED shaft
  BY DEF SetHomeFromStop, Searching
<1>2. CASE pc' = "idle"
  <2>1. op' = NoLocals
    BY <1>2 DEF SetHomeFromStop
  <2> QED BY <1>1, <1>2, <2>1, EndSearchMaps DEF Maps, Promise!Next
<1>3. CASE pc' = "loop"
  <2> DEFINE steps == -op.direction * RecordingInterval
  <2>1. op' = [NoLocals EXCEPT !.final = act'.position - steps,
                 !.toTake = steps, !.next = "leaveStop",
                 !.direction = op.direction]
    BY <1>3 DEF SetHomeFromStop
  <2>2. op'.final = act'.position - steps
    BY <2>1 DEF NoLocals
  <2>3. /\ act'.position \in Int /\ op'.final \in Int
        /\ op.direction \in {1, -1} /\ RecordingInterval \in Nat
    BY ActuatorAssumption DEF TypeOK, Status, Locals
  <2>4. Magnitude(StepsRemaining') = RecordingInterval
    BY <2>2, <2>3 DEF StepsRemaining, Magnitude
  <2>5. Promise!ReportsExact
    BY <1>3, ReportIsExact
  <2>6. Promise!BeginMotion
    BY <1>1, <1>3, <2>3, <2>5
    DEF Promise!BeginMotion, AbstractPhase, Searching
  <2>7. GoalPart'
    BY <1>3, <2>3, <2>4 DEF GoalPart, Stepping
  <2> QED BY <2>6, <2>7 DEF Maps, Promise!Next
<1> QED BY <1>2, <1>3 DEF SetHomeFromStop

LEMMA SearchMapped ==
  ASSUME TypeOK, Parts, GoalPart, TypeOK', Parts', Search
  PROVE  Maps
<1>0. shaft' \in Int
  BY ActuatorAssumption DEF TypeOK
<1>1. CASE CoarseStep
  <2>1. pc = "coarse" /\ op' = op /\ pc' \in Searching
    <3>1. pc = "coarse" /\ (op.next = "findHome" => ~Fatal(act.errors))
      BY <1>1 DEF CoarseStep, CoarsePass, Parts, SearchPart
    <3> QED BY <1>1, <3>1
            DEF CoarseStep, CoarsePass, BeginFineSearch, Searching
  <2> QED BY <1>0, <2>1, SearchMaps DEF Maps, Promise!Next, Searching
<1>2. CASE FineStep \/ FineStopped
  <2>1. pc \in Searching /\ pc' \in Searching /\ op' = op
    BY <1>2 DEF FineStep, FineStopped, Searching
  <2> QED BY <1>0, <2>1, SearchMaps DEF Maps, Promise!Next
<1>3. CASE SetHomeFromStop
  BY <1>3, HomeSetMaps
<1>4. CASE BeginHoming
  <2>1. pc = "fineDone" /\ 7 \notin act.errors
    BY <1>4 DEF BeginHoming, Parts, SearchPart, Searching
  <2>2. pc \in Searching /\ pc' \in Searching /\ op' = op
    BY <1>4, <2>1 DEF BeginHoming, Searching
  <2> QED BY <1>0, <2>2, SearchMaps DEF Maps, Promise!Next
<1>5. CASE HomingStep
  <2>1. op'.final = op.final
    BY <1>5 DEF HomingStep, TypeOK, Locals
  <2>2. pc \in Searching /\ pc' \in Searching
    BY <1>5 DEF HomingStep, Homing, Searching
  <2> QED BY <1>0, <2>1, <2>2, SearchMaps DEF Maps, Promise!Next
<1>6. CASE HomingStuck \/ HomeReached
  <2>1. /\ pc \in Searching /\ pc' = "idle" /\ op' = NoLocals
        /\ UNCHANGED shaft
    BY <1>6 DEF HomingStuck, HomeReached, Homing, AbandonSearch, Searching
  <2> QED BY <2>1, EndSearchMaps DEF Maps, Promise!Next
<1> QED BY <1>1, <1>2, <1>3, <1>4, <1>5, <1>6 DEF Search

-----------------------------------------------------------------------------
\* An actuator keeps what the abstract one promises: at rest the position it
\* reports is near the true one, a motion starts and records exactly, drives
\* in bounded chunks towards its goal, and a position that is lost is not
\* reported (Actuator, all operations).
THEOREM ActuatorImplements ==
  ASSUME Faults = {}
  PROVE  Spec => Implements
<1>1. Init => Promise!Init /\ GoalPart
  BY InitMaps DEF Init, NoLocals, GoalPart, Stepping
<1>2. ASSUME SafetyInvariant, SafetyInvariant', GoalPart, [Next]_vars
      PROVE  Maps
  <2>1. TypeOK /\ Parts /\ TypeOK' /\ Parts'
    BY <1>2 DEF SafetyInvariant, Parts
  <2>2. CASE Next
    BY <1>2, <2>1, <2>2, EnvironmentMaps, OperatorMaps, MotionMaps,
       SearchMapped, NoDisturbance
    DEF Next
  <2>3. CASE UNCHANGED vars
    <3>1. UNCHANGED Promise!vars
      BY <2>3, Stutters DEF vars
    <3>2. GoalPart'
      BY <1>2, <2>3
      DEF vars, GoalPart, ReportsPosition, StepsRemaining, Promise!Within
    <3> QED BY <3>1, <3>2 DEF Maps
  <2> QED BY <1>2, <2>2, <2>3
<1>3. SafetyInvariant /\ SafetyInvariant' /\ GoalPart /\ [Next]_vars =>
        [Promise!Next]_(Promise!vars) /\ GoalPart'
  BY <1>2 DEF Maps
<1> QED BY <1>1, <1>3, SafetyInductive, PTL DEF Spec, Implements, Promise!Spec
=============================================================================
