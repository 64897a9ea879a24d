---------------------------- MODULE ActuatorProofs ----------------------------
(***************************************************************************)
(* What holds of an actuator for every value of the constants: its types,  *)
(* the safety properties of one in which none of the excluded faults       *)
(* occurs, and that no fatal error gets lost.                              *)
(***************************************************************************)
EXTENDS ActuatorInvariant, ActuatorPositionProofs

-----------------------------------------------------------------------------
(* The helpers give a status of the right type. *)

LEMMA SaveTyped ==
  ASSUME NEW s \in Status
  PROVE  /\ saveStatusToASF(s) \in Status
         /\ saveStatusToASF(s).position = s.position
         /\ saveStatusToASF(s).errors = s.errors
         /\ saveStatusToASF(s).asf = [kind |-> "good", position |-> s.position,
                                      errors |-> s.errors]
BY DEF Status, ASFContents, saveStatusToASF

LEMMA ErrorTyped ==
  ASSUME NEW s \in Status, NEW E \in SUBSET ErrorCodes
  PROVE  /\ setError(s, E) \in Status
         /\ setError(s, E).errors = s.errors \cup E
         /\ setError(s, E).position = s.position
         /\ setError(s, E).asf = s.asf
         /\ unsetError(s, E) \in Status
         /\ unsetError(s, E).errors = s.errors \ E
         /\ unsetError(s, E).position = s.position
         /\ unsetError(s, E).asf = s.asf
BY DEF Status, setError, unsetError

LEMMA PlaceTyped ==
  ASSUME NEW s \in Status, NEW n \in Int
  PROVE  /\ setCurrentPosition(s, n) \in Status
         /\ setCurrentPosition(s, n).errors = s.errors
         /\ setCurrentPosition(s, n).position = n
         /\ setCurrentPosition(s, n).asf = s.asf
BY DEF Status, setCurrentPosition

LEMMA Codes ==
  /\ {0} \in SUBSET ErrorCodes /\ {5} \in SUBSET ErrorCodes
  /\ {6} \in SUBSET ErrorCodes /\ {7} \in SUBSET ErrorCodes
  /\ {8} \in SUBSET ErrorCodes /\ {9, 0} \in SUBSET ErrorCodes
  /\ {10} \in SUBSET ErrorCodes /\ {11} \in SUBSET ErrorCodes
  /\ {12} \in SUBSET ErrorCodes /\ {13} \in SUBSET ErrorCodes
  /\ \A e \in DatabaseErrors : {e} \in SUBSET ErrorCodes
BY ActuatorAssumption DEF ErrorCodes

LEMMA FaultTyped ==
  ASSUME NEW s \in Status
  PROVE  /\ VoltageFault(s) \in Status
         /\ VoltageFault(s).errors = s.errors \cup {7}
         /\ VoltageFault(s).position = s.position
         /\ VoltageFault(s).asf = [kind |-> "good", position |-> s.position,
                                   errors |-> s.errors \cup {7}]
<1>1. /\ setError(s, {7}) \in Status
      /\ setError(s, {7}).errors = s.errors \cup {7}
      /\ setError(s, {7}).position = s.position
  BY Codes, ErrorTyped
<1> QED BY <1>1, SaveTyped DEF VoltageFault

\* What loading gives for each kind of file.
LEMMA LoadCases ==
  ASSUME NEW s \in Status
  PROVE  LET loaded == loadStatusFromASF(s)
         IN  /\ s.asf.kind = "good" =>
                  /\ loaded.position = s.asf.position
                  /\ loaded.errors = s.asf.errors
                  /\ loaded.asf = s.asf
             /\ s.asf.kind = "missing" =>
                  /\ loaded.errors = {0}
                  /\ loaded.asf = [kind |-> "good",
                                   position |-> InitialPosition,
                                   errors |-> {0}]
             /\ s.asf.kind = "torn" =>
                  /\ loaded.errors = s.errors \cup {5}
                  /\ loaded.asf = s.asf
             /\ loaded \in Status
<1>1. s.asf.kind \in {"good", "torn", "missing"}
  BY DEF Status, ASFContents
<1>2. CASE s.asf.kind = "good"
  <2>1. loadStatusFromASF(s)
          = [s EXCEPT !.position = s.asf.position, !.errors = s.asf.errors]
    BY <1>2 DEF loadStatusFromASF
  <2>2. s.asf.position \in Int /\ s.asf.errors \in SUBSET ErrorCodes
    BY DEF Status, ASFContents
  <2> QED BY <1>2, <2>1, <2>2 DEF Status
<1>3. CASE s.asf.kind = "missing"
  <2>1. loadStatusFromASF(s)
          = [position |-> InitialPosition, errors |-> {0},
             asf |-> [kind |-> "good", position |-> InitialPosition,
                      errors |-> {0}]]
    BY <1>3 DEF loadStatusFromASF
  <2>2. {0} \in SUBSET ErrorCodes
    BY DEF ErrorCodes
  <2> QED BY <1>3, <2>1, <2>2, ActuatorAssumption DEF Status, ASFContents
<1>4. CASE s.asf.kind = "torn"
  <2>1. loadStatusFromASF(s) = setError(s, {5})
    BY <1>4 DEF loadStatusFromASF
  <2>2. /\ loadStatusFromASF(s) \in Status
        /\ loadStatusFromASF(s).errors = s.errors \cup {5}
        /\ loadStatusFromASF(s).asf = s.asf
    BY <2>1, Codes, ErrorTyped
  <2> QED BY <1>4, <2>2
<1> QED BY <1>1, <1>2, <1>3, <1>4

LEMMA DeviationsTyped ==
  ASSUME NEW n \in Int, NEW at \in Int
  PROVE  Deviations(n, at) \subseteq Int
<1>1. (IF "staleRead" \in Faults THEN BOOLEAN ELSE {FALSE}) \subseteq BOOLEAN
  OBVIOUS
<1> QED BY <1>1, DeviationInteger DEF Deviations

LEMMA RecoverTyped ==
  ASSUME NEW s \in Status, shaft \in Int
  PROVE  recoverPosition(s) \subseteq Status
<1>1. ASSUME NEW d \in Int PROVE Recovered(s, d) \in Status
  <2>1. s.position + d \in Int
    BY DEF Status
  <2>2. /\ setCurrentPosition(s, s.position + d) \in Status
        /\ setError(setCurrentPosition(s, s.position + d), {10}) \in Status
        /\ setError(s, {9, 0}) \in Status
    BY <2>1, Codes, PlaceTyped, ErrorTyped
  <2> QED BY <2>2, SaveTyped DEF Recovered
<1>2. s.position \in Int
  BY DEF Status
<1>3. Deviations(s.position, shaft) \subseteq Int
  BY <1>2, DeviationsTyped
<1>4. {Recovered(s, d) : d \in Deviations(s.position, shaft)} \subseteq Status
  BY <1>1, <1>3
<1> QED BY <1>4, FaultTyped DEF recoverPosition

LEMMA LoadAndRecoverTyped ==
  ASSUME TypeOK
  PROVE  LoadAndRecover(act) \subseteq Status
<1>1. act \in Status /\ shaft \in Int
  BY ActuatorAssumption DEF TypeOK
<1> QED BY <1>1, LoadCases, RecoverTyped DEF LoadAndRecover

\* The mechanical stops bound the travel.
LEMMA StopsBound ==
  ASSUME NEW n \in Int
  PROVE  WithinStops(n) \in ExtendHardStop .. RetractHardStop
BY ActuatorAssumption DEF WithinStops

LEMMA DrivenTyped ==
  ASSUME TypeOK, NEW n \in Int
  PROVE  DrivenTo(n) \subseteq ExtendHardStop .. RetractHardStop
<1>1. /\ shaft \in Int
      /\ shaft \in ExtendHardStop .. RetractHardStop
  BY ActuatorAssumption DEF TypeOK
<1>2. Between(0, n) \subseteq Int
  BY DEF Between
<1> QED BY <1>1, <1>2, StopsBound DEF DrivenTo

LEMMA SearchMovesTyped ==
  ASSUME TypeOK, NEW direction \in {1, -1}
  PROVE  SearchMoves(direction) \subseteq ExtendHardStop .. RetractHardStop
<1>1. /\ direction * EndstopSearchStepsize \in Int
      /\ shaft - direction * EndstopSearchStepsize \in Int
  BY ActuatorAssumption DEF TypeOK
<1> QED BY <1>1, StopsBound, DrivenTyped DEF SearchMoves

\* Every entry of __step leaves the state well typed.
LEMMA EnterStepTyped ==
  ASSUME TypeOK, NEW steps \in Int, NEW next \in Continuations,
         NEW direction \in {1, -1}, EnterStep(steps, next, direction)
  PROVE  act' \in Status /\ keepStepping' \in BOOLEAN /\ pc' \in Phases
           /\ op' \in Locals
<1>1. act' \in Status
  BY LoadAndRecoverTyped DEF EnterStep
<1>2. act'.position - steps \in Int
  BY <1>1 DEF Status
<1>3. op' \in Locals
  BY <1>2, ActuatorAssumption DEF EnterStep, Locals
<1> QED BY <1>1, <1>3 DEF EnterStep, Phases, Stepping

LEMMA NoLocalsTyped == NoLocals \in Locals
BY DEF NoLocals, Locals, Continuations

LEMMA RemainingTyped ==
  ASSUME TypeOK
  PROVE  StepsRemaining \in Int
BY DEF TypeOK, Status, Locals, StepsRemaining

LEMMA ReturnTyped ==
  ASSUME TypeOK, StepReturns(StepsRemaining)
  PROVE  pc' \in Phases /\ op' \in Locals
<1>1. StepsRemaining \in Int /\ op \in Locals
  BY RemainingTyped DEF TypeOK
<1> QED BY <1>1 DEF StepReturns, Locals, Phases, Stepping

LEMMA ChunkDeviationTyped ==
  ASSUME TypeOK
  PROVE  Deviations(act.position - op.toTake, shaft) \subseteq Int
<1>1. /\ act.position - op.toTake \in Int
      /\ shaft \in Int
  BY ActuatorAssumption DEF TypeOK, Status, Locals
<1> QED BY <1>1, DeviationsTyped

-----------------------------------------------------------------------------
(* Type correctness *)

LEMMA NewTyped == NewErrors \subseteq ErrorCodes
BY Codes DEF NewErrors

LEMMA InitializeTyped ==
  ASSUME TypeOK, initialize
  PROVE  act' \in Status
<1> USE DEF TypeOK
<1>1. loadStatusFromASF(act) \in Status /\ shaft \in Int
  BY LoadCases, ActuatorAssumption
<1>2. ConfigurationLoaded(loadStatusFromASF(act)) \subseteq Status
  <2> DEFINE t == loadStatusFromASF(act)
  <2>1. \A e \in DatabaseErrors :
          setError(t, {e}) \in Status /\ saveStatusToASF(setError(t, {e})) \in Status
    BY <1>1, Codes, ErrorTyped, SaveTyped
  <2>2. saveStatusToASF(t) \in Status
    BY <1>1, SaveTyped
  <2> QED BY <1>1, <2>1, <2>2 DEF ConfigurationLoaded
<1> QED BY <1>1, <1>2, RecoverTyped DEF initialize

LEMMA InitTyped == Init => TypeOK
<1> SUFFICES ASSUME Init PROVE TypeOK
  OBVIOUS
<1>1. shaft \in ExtendHardStop .. RetractHardStop
  BY ActuatorAssumption DEF Init
<1>2. act \in Status
  BY <1>1, NewTyped, ActuatorAssumption DEF Init, EmptyASF, Status, ASFContents
<1> QED BY <1>1, <1>2, NoLocalsTyped DEF Init, TypeOK, Phases

LEMMA EnvironmentTyped ==
  ASSUME TypeOK, Environment
  PROVE  TypeOK'
<1> USE DEF TypeOK
<1>1. CASE Start
  BY <1>1, InitializeTyped DEF Start, Phases
<1>2. CASE Crash
  <2>1. act' \in Status
    BY <1>2, NewTyped, ActuatorAssumption
    DEF Crash, EmptyASF, Status, ASFContents
  <2> QED BY <1>2, <2>1, NoLocalsTyped DEF Crash, Phases
<1>3. CASE EnableDriver
  BY <1>3 DEF EnableDriver
<1>4. CASE DisableDriver
  BY <1>4 DEF DisableDriver
<1>5. CASE emergencyStop
  BY <1>5 DEF emergencyStop
<1>6. CASE turnOn
  BY <1>6, InitializeTyped DEF turnOn
<1>7. CASE turnOff
  BY <1>7, SaveTyped DEF turnOff
<1> QED BY <1>1, <1>2, <1>3, <1>4, <1>5, <1>6, <1>7 DEF Environment

LEMMA OperatorTyped ==
  ASSUME TypeOK, Operator
  PROVE  TypeOK'
<1> USE DEF TypeOK
<1>1. CASE measureLength
  BY <1>1, LoadAndRecoverTyped DEF measureLength, Phases
<1>2. CASE forceRecover
  <2>1. Deviations(act.position, shaft) \subseteq Int
    BY DeviationsTyped, ActuatorAssumption DEF Status
  <2>2. \A d \in Int :
          saveStatusToASF(setCurrentPosition(act, act.position + d)) \in Status
    <3>1. \A d \in Int : act.position + d \in Int
      BY DEF Status
    <3> QED BY <3>1, PlaceTyped, SaveTyped
  <2>3. act' \in Status
    <3>1. \/ act' = VoltageFault(act)
          \/ \E d \in Deviations(act.position, shaft) :
               act' = saveStatusToASF(setCurrentPosition(act, act.position + d))
      BY <1>2 DEF forceRecover
    <3> QED BY <2>1, <2>2, <3>1, FaultTyped
  <2> QED BY <1>2, <2>3 DEF forceRecover
<1>3. CASE clearErrors
  BY <1>3, ErrorTyped, SaveTyped DEF clearErrors, Dismisses, Fatal
<1>4. ASSUME NEW e \in ClearRequests, clearError(e) PROVE TypeOK'
  <2>1. {e} \in SUBSET ErrorCodes
    BY ActuatorAssumption
  <2> QED BY <1>4, <2>1, ErrorTyped DEF clearError, Dismisses, Fatal
<1>5. ASSUME NEW n \in StepRequests,
             step(n) \/ moveDeltaLength(n) \/ performHysteresisMotion(n)
      PROVE  TypeOK'
  <2>1. n \in Int /\ n - HysteresisSteps \in Int
    BY ActuatorAssumption
  <2>2. "done" \in Continuations /\ "hysteresis" \in Continuations
    BY DEF Continuations
  <2> QED BY <1>5, <2>1, <2>2, EnterStepTyped
          DEF step, moveDeltaLength, performHysteresisMotion
<1>6. ASSUME NEW direction \in {1, -1}, NEW kind \in {"findHome", "probeHome"},
             BeginSearch(direction, kind)
      PROVE  TypeOK'
  <2>1. op' \in Locals
    <3>1. kind \in Continuations
      BY DEF Continuations
    <3> QED BY <1>6, <3>1, NoLocalsTyped DEF BeginSearch, Locals
  <2> QED BY <1>6, <2>1 DEF BeginSearch, Phases, Searching
<1> QED BY <1>1, <1>2, <1>3, <1>4, <1>5, <1>6 DEF Operator

LEMMA MotionTyped ==
  ASSUME TypeOK, Motion
  PROVE  TypeOK'
<1> USE DEF TypeOK
<1>1. CASE DriveChunk
  <2> DEFINE toTake == IF Magnitude(StepsRemaining) <= RecordingInterval
                         THEN StepsRemaining ELSE op.toTake
  <2>1. toTake \in Int
    BY RemainingTyped DEF Locals
  <2>2. shaft' \in ExtendHardStop .. RetractHardStop
    BY <1>1, <2>1, DrivenTyped DEF DriveChunk
  <2>3. op' \in Locals
    BY <1>1, <2>1 DEF DriveChunk, Locals
  <2> QED BY <1>1, <2>2, <2>3 DEF DriveChunk, Phases, Stepping
<1>2. CASE CheckChunk
  <2>1. CASE act' = VoltageFault(act) /\ StepReturns(StepsRemaining)
    BY <1>2, <2>1, FaultTyped, ReturnTyped DEF CheckChunk
  <2>2. ASSUME NEW d \in Deviations(act.position - op.toTake, shaft)
        PROVE  LET s == setCurrentPosition(act,
                          act.position - (op.toTake - d))
               IN  /\ saveStatusToASF(s) \in Status
                   /\ saveStatusToASF(setError(s, {6})) \in Status
                   /\ saveStatusToASF(setError(s, {8})) \in Status
    <3> DEFINE n == act.position - (op.toTake - d)
    <3>1. n \in Int
      BY ChunkDeviationTyped DEF Status, Locals
    <3> HIDE DEF n
    <3>2. setCurrentPosition(act, n) \in Status
      BY <3>1, PlaceTyped
    <3> QED BY <3>2, Codes, ErrorTyped, SaveTyped DEF n
  <2>3. act' \in Status /\ pc' \in Phases /\ op' \in Locals
    BY <1>2, <2>1, <2>2, ReturnTyped DEF CheckChunk, Phases, Stepping
  <2> QED BY <1>2, <2>3 DEF CheckChunk
<1>3. CASE LeaveLoop
  BY <1>3, ReturnTyped DEF LeaveLoop
<1>4. CASE FinishStep
  BY <1>4, NoLocalsTyped DEF FinishStep, Phases
<1>5. CASE FinishHysteresis
  <2>1. HysteresisSteps + op.remaining \in Int
    BY ActuatorAssumption DEF Locals
  <2> QED BY <1>5, <2>1, EnterStepTyped DEF FinishHysteresis, Continuations
<1>6. CASE StuckAtStop
  <2>1. act' \in Status
    BY <1>6, Codes, ErrorTyped, SaveTyped DEF StuckAtStop
  <2> QED BY <1>6, <2>1, NoLocalsTyped DEF StuckAtStop, Phases
<1>7. CASE ReturnToStop
  <2>1. op.direction * RecordingInterval \in Int
    BY ActuatorAssumption DEF Locals
  <2> QED BY <1>7, <2>1, EnterStepTyped DEF ReturnToStop, Continuations
<1> QED BY <1>1, <1>2, <1>3, <1>4, <1>5, <1>6, <1>7 DEF Motion

LEMMA AbandonTyped ==
  ASSUME NEW s \in Status, AbandonSearch(s)
  PROVE  act' \in Status /\ pc' \in Phases /\ op' \in Locals
           /\ enabled' \in BOOLEAN
BY NoLocalsTyped DEF AbandonSearch, Phases

LEMMA BeginFineTyped ==
  ASSUME NEW s \in Status, BeginFineSearch(s)
  PROVE  act' \in Status /\ pc' \in Phases /\ keepStepping' \in BOOLEAN
           /\ probing' \in BOOLEAN
<1>1. act' \in Status
  BY Codes, ErrorTyped DEF BeginFineSearch
<1> QED BY <1>1 DEF BeginFineSearch, Phases, Searching

LEMMA RecordedStopTyped ==
  ASSUME NEW direction \in {1, -1}
  PROVE  /\ RecordedStop(direction) \in Int
         /\ HardStop(direction) \in ExtendHardStop .. RetractHardStop
BY ActuatorAssumption DEF RecordedStop, HardStop

LEMMA CoarsePassTyped ==
  ASSUME TypeOK, NEW s \in Status, CoarsePass(s)
  PROVE  TypeOK'
<1> USE DEF TypeOK
<1>1. PICK to \in SearchMoves(op.direction) :
        /\ shaft' = to
        /\ \/ act' = s /\ UNCHANGED <<pc, op, keepStepping, enabled, probing>>
           \/ AbandonSearch(s) /\ UNCHANGED <<keepStepping, probing>>
           \/ BeginFineSearch(s) /\ UNCHANGED <<op, enabled>>
  BY DEF CoarsePass
<1>2. shaft' \in ExtendHardStop .. RetractHardStop
  <2>1. op.direction \in {1, -1} /\ shaft \in Int
    BY ActuatorAssumption DEF Locals
  <2> QED BY <1>1, <2>1, SearchMovesTyped
<1> QED BY <1>1, <1>2, AbandonTyped, BeginFineTyped DEF CoarsePass

LEMMA SearchTyped ==
  ASSUME TypeOK, Search
  PROVE  TypeOK'
<1> USE DEF TypeOK
<1>0. /\ VoltageFault(act) \in Status
      /\ op.direction \in {1, -1} /\ op.cycles \in Nat
      /\ shaft \in Int /\ shaft + 1 \in Int
  <2>1. VoltageFault(act) \in Status
    BY FaultTyped
  <2>2. op.direction \in {1, -1} /\ op.cycles \in Nat
    BY DEF Locals
  <2>3. shaft \in Int /\ shaft + 1 \in Int
    BY ActuatorAssumption
  <2> QED BY <2>1, <2>2, <2>3
<1>1. CASE CoarseStep
  BY <1>1, CoarsePassTyped DEF CoarseStep
<1>3. CASE FineStep
  <2>1. shaft' \in ExtendHardStop .. RetractHardStop
    BY <1>0, <1>3, SearchMovesTyped DEF FineStep
  <2> QED BY <1>0, <1>3, <2>1 DEF FineStep, Phases, Searching
<1>4. CASE FineStopped
  BY <1>4 DEF FineStopped, Phases, Searching
<1>5. CASE SetHomeFromStop
  <2> DEFINE target == RecordedStop(op.direction)
             d == checkAngleSlow(PositionOf(target).angle, ShaftAngle(shaft))
             s(read) == setCurrentPosition(read, target + d)
             steps == -op.direction * RecordingInterval
  <2>1. target + d \in Int
    <3>1. target \in Int
      BY <1>0, RecordedStopTyped
    <3>2. d \in Int
      BY <1>0, <3>1, DeviationInteger
    <3> QED BY <3>1, <3>2
  <2>2. ASSUME NEW read \in {act, VoltageFault(act)}
        PROVE  /\ saveStatusToASF(setError(s(read), {12})) \in Status
               /\ saveStatusToASF(unsetError(s(read), {0})) \in Status
    <3>1. s(read) \in Status
      BY <1>0, <2>1, PlaceTyped
    <3> HIDE DEF s
    <3> QED BY <3>1, Codes, ErrorTyped, SaveTyped
  <2>3. ASSUME NEW t \in Status
        PROVE  LoadAndRecover(t) \subseteq Status
    BY <1>0, LoadCases, RecoverTyped DEF LoadAndRecover
  <2>4. PICK read \in {act, VoltageFault(act)} :
          \/ /\ act' = saveStatusToASF(setError(s(read), {12}))
             /\ pc' = "idle"
             /\ op' = NoLocals
             /\ UNCHANGED <<keepStepping, dismissed, probing>>
          \/ /\ act' \in LoadAndRecover(saveStatusToASF(unsetError(s(read), {0})))
             /\ op' = [NoLocals EXCEPT
                         !.final = act'.position - steps,
                         !.toTake = steps,
                         !.next = "leaveStop",
                         !.direction = op.direction]
             /\ keepStepping' = TRUE
             /\ pc' = "loop"
             /\ dismissed' = FALSE
             /\ probing' = (probing /\ shaft # HardStop(op.direction))
    BY <1>5 DEF SetHomeFromStop
  <2>5. act' \in Status
    BY <2>2, <2>3, <2>4
  <2>6. steps \in Int /\ act'.position - steps \in Int
    BY <1>0, <2>5, ActuatorAssumption DEF Status
  <2>7. op' \in Locals
    <3>1. [NoLocals EXCEPT !.final = act'.position - steps, !.toTake = steps,
             !.next = "leaveStop", !.direction = op.direction] \in Locals
      BY <1>0, <2>6, NoLocalsTyped DEF Locals, Continuations
    <3> QED BY <2>4, <3>1, NoLocalsTyped
  <2> QED BY <1>5, <2>4, <2>5, <2>7 DEF SetHomeFromStop, Phases, Stepping
<1>6. CASE BeginHoming
  <2>1. saveStatusToASF(setError(act, {11})) \in Status
    BY Codes, ErrorTyped, SaveTyped
  <2> QED BY <1>6, <2>1, AbandonTyped DEF BeginHoming, Phases, Searching
<1>7. CASE HomingStep
  <2>1. WithinStops(shaft + 1) \in ExtendHardStop .. RetractHardStop
    BY <1>0, StopsBound
  <2>2. \A n \in Nat : [op EXCEPT !.cycles = n] \in Locals
    BY DEF Locals
  <2>3. op' \in Locals
    BY <1>0, <1>7, <2>2 DEF HomingStep
  <2> QED BY <1>7, <2>1, <2>3 DEF HomingStep
<1>9. CASE HomingStuck
  <2>1. saveStatusToASF(setError(act, {0})) \in Status
    BY Codes, ErrorTyped, SaveTyped
  <2> QED BY <1>9, <2>1, AbandonTyped DEF HomingStuck
<1>8. CASE HomeReached
  <2>1. ASSUME NEW e \in {{}, {13}}
        PROVE  saveStatusToASF(
                 unsetError(setCurrentPosition(setError(act, e), 0), {0}))
                 \in Status
    <3>1. e \in SUBSET ErrorCodes
      BY Codes
    <3>2. setCurrentPosition(setError(act, e), 0) \in Status
      BY <3>1, ErrorTyped, PlaceTyped
    <3> QED BY <3>2, Codes, ErrorTyped, SaveTyped
  <2> QED BY <1>8, <2>1, AbandonTyped DEF HomeReached
<1> QED BY <1>1, <1>3, <1>4, <1>5, <1>6, <1>7, <1>8, <1>9 DEF Search

LEMMA DisturbanceTyped ==
  ASSUME TypeOK, Disturbance
  PROVE  TypeOK'
<1> USE DEF TypeOK
<1>0. /\ VoltageFault(act) \in Status
      /\ op.direction \in {1, -1}
      /\ shaft \in Int /\ shaft + 1 \in Int
  <2>1. VoltageFault(act) \in Status
    BY FaultTyped
  <2>2. op.direction \in {1, -1}
    BY DEF Locals
  <2>3. shaft \in Int /\ shaft + 1 \in Int
    BY ActuatorAssumption
  <2> QED BY <2>1, <2>2, <2>3
<1>1. CASE CoarseStopped
  BY <1>1, AbandonTyped, BeginFineTyped DEF CoarseStopped
<1>2. CASE CoarseUnread
  BY <1>0, <1>2, CoarsePassTyped DEF CoarseUnread
<1>3. CASE FineUnread
  <2>1. shaft' \in ExtendHardStop .. RetractHardStop
    BY <1>0, <1>3, SearchMovesTyped DEF FineUnread
  <2> QED BY <1>0, <1>3, <2>1 DEF FineUnread, Phases, Searching
<1>4. CASE HomingUnread
  <2>1. WithinStops(shaft + 1) \in ExtendHardStop .. RetractHardStop
    BY <1>0, StopsBound
  <2> QED BY <1>0, <1>4, <2>1, AbandonTyped DEF HomingUnread
<1> QED BY <1>1, <1>2, <1>3, <1>4 DEF Disturbance

\* Every variable of an actuator keeps its type and the shaft never leaves the
\* travel between the mechanical stops, with all the faults let in.
THEOREM TypeCorrect == Spec => []TypeOK
<1>1. TypeOK /\ [Next]_vars => TypeOK'
  <2> SUFFICES ASSUME TypeOK, [Next]_vars PROVE TypeOK'
    OBVIOUS
  <2>1. CASE UNCHANGED vars
    BY <2>1 DEF vars, TypeOK
  <2> QED BY <2>1, EnvironmentTyped, OperatorTyped, MotionTyped, SearchTyped,
          DisturbanceTyped
          DEF Next
<1> QED BY <1>1, InitTyped, PTL DEF Spec

-----------------------------------------------------------------------------
(* What the helpers do to an honest status. *)

LEMMA FatalMonotone ==
  ASSUME NEW small, NEW large, small \subseteq large
  PROVE  /\ Fatal(small) => Fatal(large)
         /\ SaysHomeUnknown(small) => SaysHomeUnknown(large)
BY DEF Fatal, SaysHomeUnknown

LEMMA FatalCodes ==
  ASSUME NEW errors
  PROVE  /\ 0 \in errors => Fatal(errors) /\ SaysHomeUnknown(errors)
         /\ 5 \in errors => Fatal(errors) /\ SaysHomeUnknown(errors)
         /\ 6 \in errors => Fatal(errors)
         /\ 7 \in errors => Fatal(errors)
         /\ 8 \in errors => Fatal(errors)
         /\ 9 \in errors => Fatal(errors)
<1>1. {0, 5, 6, 7, 8, 9} \subseteq FatalErrors
  BY DEF FatalErrors
<1> QED BY <1>1 DEF Fatal, SaysHomeUnknown, HomeUnknown

LEMMA ExactLocates ==
  ASSUME shaft \in Int
  PROVE  Located(shaft)
<1>1. Magnitude(shaft - shaft) = 0
  BY DEF Magnitude
<1> QED BY <1>1, PositionAssumption DEF Located

\* A located shaft is measured exactly.
LEMMA ExactDeviations ==
  ASSUME Faults = {}, NEW n \in Int, shaft \in Int, Located(n)
  PROVE  Deviations(n, shaft) = {shaft - n}
<1>1. (IF "staleRead" \in Faults THEN BOOLEAN ELSE {FALSE}) = {FALSE}
  OBVIOUS
<1>2. checkAngleQuick(PositionOf(n).angle, ShaftAngle(shaft), FALSE) = shaft - n
  BY QuickDeviationExact DEF Located
<1> QED BY <1>1, <1>2 DEF Deviations

\* Recovering keeps every error and either leaves the file alone or makes it a
\* copy; an honest status becomes an exact one (recoverPosition).
LEMMA RecoverFacts ==
  ASSUME Faults = {}, shaft \in Int, NEW s \in Status,
         NEW r \in recoverPosition(s)
  PROVE  /\ r \in Status
         /\ s.errors \subseteq r.errors
         /\ r = s \/ r.asf = CopyOf(r)
         /\ Honest(s.position, s.errors) => Exact(r.position, r.errors)
<1>1. r \in Status
  BY RecoverTyped
<1>2. CASE r = VoltageFault(s)
  <2>1. /\ r.errors = s.errors \cup {7}
        /\ r.position = s.position
        /\ r.asf = [kind |-> "good", position |-> s.position,
                    errors |-> s.errors \cup {7}]
    BY <1>2, FaultTyped
  <2>2. Fatal(r.errors)
    BY <2>1, FatalCodes
  <2> QED BY <1>1, <2>1, <2>2 DEF CopyOf, Exact
<1>3. CASE 7 \in s.errors /\ r = s
  BY <1>1, <1>3, FatalCodes DEF Exact
<1>4. ASSUME NEW d \in Deviations(s.position, shaft), r = Recovered(s, d)
      PROVE  /\ s.errors \subseteq r.errors
             /\ r = s \/ r.asf = CopyOf(r)
             /\ Honest(s.position, s.errors) => Exact(r.position, r.errors)
  <2>1. s.position \in Int /\ d \in Int
    BY DeviationsTyped DEF Status
  <2>2. Located(s.position) => s.position + d = shaft
    BY <2>1, ExactDeviations
  <2>3. CASE d = 0
    <3>1. r = s
      BY <1>4, <2>3 DEF Recovered
    <3> QED BY <2>1, <2>2, <2>3, <3>1 DEF Honest, Exact
  <2>4. ASSUME NEW E \in SUBSET ErrorCodes,
               \/ r = saveStatusToASF(setError(
                        setCurrentPosition(s, s.position + d), E))
               \/ r = saveStatusToASF(setCurrentPosition(s, s.position + d))
        PROVE  /\ s.errors \subseteq r.errors
               /\ r.asf = CopyOf(r)
               /\ Honest(s.position, s.errors) => Exact(r.position, r.errors)
    <3> DEFINE t == setCurrentPosition(s, s.position + d)
    <3>0. s.position + d \in Int
      BY <2>1
    <3>1. t \in Status /\ t.errors = s.errors /\ t.position = s.position + d
      BY <3>0, PlaceTyped
    <3> HIDE DEF t
    <3>2. /\ setError(t, E) \in Status
          /\ setError(t, E).errors = s.errors \cup E
          /\ setError(t, E).position = s.position + d
      BY <3>1, ErrorTyped
    <3>3. PICK u \in {t, setError(t, E)} : r = saveStatusToASF(u)
      BY <2>4 DEF t
    <3>4. /\ s.errors \subseteq r.errors
          /\ r.position = s.position + d
          /\ r.asf = CopyOf(r)
      <4>1. /\ u \in Status
            /\ s.errors \subseteq u.errors
            /\ u.position = s.position + d
        BY <3>1, <3>2
      <4> QED BY <3>3, <4>1, SaveTyped DEF CopyOf
    <3> QED BY <2>2, <3>4, FatalMonotone DEF Honest, Exact
  <2>5. CASE r = saveStatusToASF(setError(s, {9, 0}))
    <3>1. setError(s, {9, 0}) \in Status
          /\ setError(s, {9, 0}).errors = s.errors \cup {9, 0}
      BY Codes, ErrorTyped
    <3>2. r.errors = s.errors \cup {9, 0} /\ r.asf = CopyOf(r)
      BY <2>5, <3>1, SaveTyped DEF CopyOf
    <3>3. Fatal(r.errors)
      BY <3>2, FatalCodes
    <3> QED BY <3>2, <3>3 DEF Exact
  <2> QED BY <1>4, <2>3, <2>4, <2>5, Codes DEF Recovered
<1> QED BY <1>1, <1>2, <1>3, <1>4, FatalMonotone DEF recoverPosition

\* Loading a file that is honest gives an honest status; a file that cannot be
\* read gives a fatal error (loadStatusFromASF).
LEMMA LoadFacts ==
  ASSUME NEW s \in Status, NEW t, t = loadStatusFromASF(s)
  PROVE  /\ t \in Status
         /\ FileHonest(s.asf) =>
              Honest(t.position, t.errors) /\ FileHonest(t.asf)
         /\ FileSaysHomeUnknown(s.asf) =>
              SaysHomeUnknown(t.errors) /\ FileSaysHomeUnknown(t.asf)
         /\ ~Fatal(t.errors) => t.asf = CopyOf(t)
<1>1. s.asf \in ASFContents /\ t \in Status
  BY LoadCases DEF Status
<1>2. s.asf.kind \in {"good", "torn", "missing"}
  BY <1>1 DEF ASFContents
<1>3. CASE s.asf.kind = "good"
  <2>1. t.position = s.asf.position /\ t.errors = s.asf.errors /\ t.asf = s.asf
    BY <1>3, LoadCases
  <2>2. s.asf = [kind |-> "good", position |-> s.asf.position,
                 errors |-> s.asf.errors]
    BY <1>1, <1>3 DEF ASFContents
  <2> QED BY <1>1, <1>3, <2>1, <2>2
          DEF FileHonest, FileSaysHomeUnknown, CopyOf
<1>4. CASE s.asf.kind = "missing"
  <2>1. /\ t.errors = {0}
        /\ t.asf = [kind |-> "good", position |-> InitialPosition,
                    errors |-> {0}]
    BY <1>4, LoadCases
  <2>2. Fatal({0}) /\ SaysHomeUnknown({0})
    BY FatalCodes
  <2> QED BY <1>1, <2>1, <2>2 DEF FileHonest, FileSaysHomeUnknown, Honest
<1>5. CASE s.asf.kind = "torn"
  <2>1. t.errors = s.errors \cup {5} /\ t.asf = s.asf
    BY <1>5, LoadCases
  <2>2. Fatal(t.errors) /\ SaysHomeUnknown(t.errors)
    BY <2>1, FatalCodes
  <2> QED BY <1>1, <1>5, <2>1, <2>2
          DEF FileHonest, FileSaysHomeUnknown, Honest
<1> QED BY <1>2, <1>3, <1>4, <1>5

LEMMA LoadAndRecoverFacts ==
  ASSUME Faults = {}, shaft \in Int, NEW s \in Status,
         NEW r \in LoadAndRecover(s)
  PROVE  /\ r \in Status
         /\ FileHonest(s.asf) => /\ Exact(r.position, r.errors)
                                 /\ Honest(r.position, r.errors)
                                 /\ FileHonest(r.asf)
         /\ FileSaysHomeUnknown(s.asf) =>
              SaysHomeUnknown(r.errors) /\ FileSaysHomeUnknown(r.asf)
         /\ ~Fatal(r.errors) => r.asf = CopyOf(r)
<1> DEFINE t == loadStatusFromASF(s)
<1>1. /\ t \in Status
      /\ FileHonest(s.asf) => Honest(t.position, t.errors) /\ FileHonest(t.asf)
      /\ FileSaysHomeUnknown(s.asf) =>
           SaysHomeUnknown(t.errors) /\ FileSaysHomeUnknown(t.asf)
      /\ ~Fatal(t.errors) => t.asf = CopyOf(t)
  BY LoadFacts
<1>2. r \in recoverPosition(t)
  BY DEF LoadAndRecover
<1> HIDE DEF t
<1>3. /\ r \in Status
      /\ t.errors \subseteq r.errors
      /\ r = t \/ r.asf = CopyOf(r)
      /\ Honest(t.position, t.errors) => Exact(r.position, r.errors)
  BY <1>1, <1>2, RecoverFacts
<1>4. Exact(r.position, r.errors) => Honest(r.position, r.errors)
  BY ExactLocates DEF Exact, Honest
<1>5. r.asf = CopyOf(r) =>
        /\ Honest(r.position, r.errors) => FileHonest(r.asf)
        /\ SaysHomeUnknown(r.errors) => FileSaysHomeUnknown(r.asf)
  BY DEF CopyOf, FileHonest, FileSaysHomeUnknown
<1> QED BY <1>1, <1>3, <1>4, <1>5, FatalMonotone

-----------------------------------------------------------------------------
(* The angle of the encoder over one search step and over one revolution. *)

LEMMA AngleStep ==
  ASSUME NEW m \in Int, NEW e \in Nat \ {0}, 2 * e < StepsPerRevolution
  PROVE  ShaftAngle(m - e) - ShaftAngle(m) \in {-e, StepsPerRevolution - e}
<1> DEFINE S  == StepsPerRevolution
           a  == ShaftAngle(m)
           b  == ShaftAngle(m - e)
           qa == m \div S
           qb == (m - e) \div S
<1>1. qa \in Int /\ a \in 0 .. S - 1 /\ m = S * qa + a
  BY DivisionFacts DEF ShaftAngle
<1>2. qb \in Int /\ b \in 0 .. S - 1 /\ m - e = S * qb + b
  <2>1. m - e \in Int
    OBVIOUS
  <2> QED BY <2>1, DivisionFacts DEF ShaftAngle
<1>3. S \in Nat /\ S > 1
  BY PositionAssumption
<1> HIDE DEF S, a, b, qa, qb
<1>4. S * qa - S * qb = S * (qa - qb)
  BY <1>1, <1>2, <1>3
<1>5. b - a = S * (qa - qb) - e
  <2>1. S * qa \in Int /\ S * qb \in Int /\ a \in Int /\ b \in Int
    BY <1>1, <1>2, <1>3
  <2> QED BY <1>1, <1>2, <1>4, <2>1
<1>6. qa - qb \in {0, 1}
  <2> DEFINE w == S * (qa - qb)
  <2>1. /\ w \in Int /\ a \in Int /\ b \in Int
        /\ b - a = w - e /\ b - a < S /\ b - a > -S
        /\ 2 * e < S
    BY <1>1, <1>2, <1>3, <1>5 DEF S
  <2>2. ASSUME qa - qb >= 2 PROVE FALSE
    <3>1. w >= S * 2
      BY <1>1, <1>2, <1>3, <2>2
    <3> HIDE DEF w
    <3> QED BY <1>3, <2>1, <3>1
  <2>3. ASSUME qa - qb <= -1 PROVE FALSE
    <3>1. w <= S * (-1)
      BY <1>1, <1>2, <1>3, <2>3
    <3> HIDE DEF w
    <3> QED BY <1>3, <2>1, <3>1
  <2> QED BY <1>1, <1>2, <2>2, <2>3
<1>7. b - a \in {-e, S - e}
  BY <1>3, <1>5, <1>6
<1> QED BY <1>7 DEF S, a, b

\* A search step after which the voltage has hardly changed ended at the hard
\* stop (the test for atStop in __probeEndStop).
LEMMA AtStopIsHardStop ==
  ASSUME Faults = {}, TypeOK, NEW direction \in {1, -1},
         NEW to \in SearchMoves(direction), AtStop(shaft, to)
  PROVE  to = HardStop(direction)
<1> DEFINE E == EndstopSearchStepsize
           far == shaft - direction * E
<1>1. /\ shaft \in Int /\ ExtendHardStop <= shaft /\ shaft <= RetractHardStop
      /\ E \in Nat \ {0} /\ 2 * E < StepsPerRevolution
      /\ StepsPerRevolution \in Nat
      /\ ExtendHardStop \in Int /\ RetractHardStop \in Int
  BY ActuatorAssumption, PositionAssumption DEF TypeOK
<1>2. far \in Int /\ to = WithinStops(far)
  BY <1>1 DEF SearchMoves
<1> DEFINE a == ShaftAngle(shaft)
           b == ShaftAngle(far)
<1>3. a \in Int /\ b \in Int
  BY <1>1, <1>2, DivisionFacts DEF ShaftAngle
<1>4. b - a \in {E, -E, StepsPerRevolution - E, E - StepsPerRevolution}
  <2>1. CASE direction = 1
    <3>1. far = shaft - E
      BY <1>1, <2>1
    <3>2. b - a \in {-E, StepsPerRevolution - E}
      BY <1>1, <3>1, AngleStep
    <3> QED BY <3>2
  <2>2. CASE direction = -1
    <3>1. far = shaft + E /\ shaft = far - E
      BY <1>1, <2>2
    <3>2. a - b \in {-E, StepsPerRevolution - E}
      BY <1>1, <1>2, <3>1, AngleStep
    <3> HIDE DEF a, b, E
    <3> QED BY <1>1, <1>3, <3>2
  <2> QED BY <2>1, <2>2
<1>5. ~AtStop(shaft, far)
  <2> HIDE DEF a, b, E
  <2>1. Magnitude(b - a) >= E
    BY <1>1, <1>3, <1>4 DEF Magnitude
  <2>2. ~(2 * Magnitude(b - a) < E)
    BY <1>1, <1>3, <2>1 DEF Magnitude
  <2> QED BY <2>2 DEF AtStop, a, b, E
<1>6. to # far
  BY <1>5
<1>7. CASE direction = 1
  <2>1. far = shaft - E
    BY <1>1, <1>7
  <2> QED BY <1>1, <1>2, <1>6, <1>7, <2>1 DEF WithinStops, HardStop
<1>8. CASE direction = -1
  <2>1. far = shaft + E
    BY <1>1, <1>8
  <2> QED BY <1>1, <1>2, <1>6, <1>8, <2>1, ActuatorAssumption
          DEF WithinStops, HardStop
<1> QED BY <1>7, <1>8

\* Within one revolution the angle grows by one a step and falls only where
\* the revolution ends (the loop of probeHome).
LEMMA HomingAngle ==
  ASSUME NEW k \in Nat \ {0}, NEW x \in Int,
         -k * StepsPerRevolution <= x, x < -(k - 1) * StepsPerRevolution
  PROVE  /\ ShaftAngle(x + 1) < ShaftAngle(x)
              <=> x + 1 = -(k - 1) * StepsPerRevolution
         /\ x + 1 <= -(k - 1) * StepsPerRevolution
         /\ x + 1 <= 0
<1> DEFINE S == StepsPerRevolution
           kS == k * S
<1>1. S \in Nat /\ S > 1 /\ kS \in Int
  BY PositionAssumption
<1>2. /\ -k * S = -kS
      /\ -(k - 1) * S = S - kS
      /\ S * (-k) = -kS
      /\ S * (-(k - 1)) = S - kS
      /\ kS >= S
  BY <1>1, PositionAssumption
<1>3. -kS <= x /\ x < S - kS
  BY <1>2
<1>4. ShaftAngle(x) = x + kS
  <2>1. x + kS \in 0 .. S - 1 /\ x = -kS + (x + kS)
    BY <1>1, <1>3
  <2>2. x = S * (-k) + (x + kS) /\ -k \in Int
    BY <1>2, <2>1
  <2> QED BY <2>1, <2>2, RemainderUnique DEF ShaftAngle
<1>5. CASE x + 1 = S - kS
  <2>1. x + 1 = S * (-(k - 1)) + 0 /\ -(k - 1) \in Int /\ 0 \in 0 .. S - 1
    BY <1>1, <1>2, <1>5
  <2>2. ShaftAngle(x + 1) = 0
    BY <2>1, RemainderUnique DEF ShaftAngle
  <2> HIDE DEF S, kS
  <2>3. x + kS = S - 1
    BY <1>1, <1>5
  <2> QED BY <1>1, <1>2, <1>4, <1>5, <2>2, <2>3 DEF S
<1>6. CASE x + 1 # S - kS
  <2>1. x + 1 + kS \in 0 .. S - 1 /\ x + 1 = -kS + (x + 1 + kS)
    BY <1>1, <1>3, <1>6
  <2>2. x + 1 = S * (-k) + (x + 1 + kS) /\ -k \in Int
    BY <1>2, <2>1
  <2>3. ShaftAngle(x + 1) = x + 1 + kS
    BY <2>1, <2>2, RemainderUnique DEF ShaftAngle
  <2> HIDE DEF kS
  <2> QED BY <1>1, <1>2, <1>3, <1>4, <1>6, <2>3
<1> QED BY <1>5, <1>6

-----------------------------------------------------------------------------
(* The invariant holds initially and every step preserves it. *)

Parts == IdlePart /\ MotionPart /\ SearchPart /\ HomingPart

LEMMA InitSafe == Init => Parts
<1> SUFFICES ASSUME Init PROVE Parts
  OBVIOUS
<1>1. shaft \in Int
  BY ActuatorAssumption DEF Init
<1>2. PICK file \in {EmptyASF("missing"),
                     [kind |-> "good", position |-> shaft, errors |-> {}]} :
        act = [position |-> InitialPosition, errors |-> NewErrors, asf |-> file]
  BY DEF Init
<1>3. act.asf = file
  BY <1>2
<1>4. FileHonest(file)
  BY <1>1, <1>2, ExactLocates DEF EmptyASF, FileHonest, Honest
<1>5. pc = "down" /\ probing = FALSE
  BY DEF Init
<1>6. IdlePart
  BY <1>3, <1>4, <1>5 DEF IdlePart
<1>7. MotionPart /\ SearchPart /\ HomingPart
  BY <1>5 DEF MotionPart, SearchPart, HomingPart, Searching
<1> QED BY <1>6, <1>7 DEF Parts

\* Entering __step reconciles memory, file and shaft.
LEMMA EnterStepSafe ==
  ASSUME Faults = {}, TypeOK, Parts, pc \notin Searching,
         NEW steps \in Int, NEW next \in Continuations,
         NEW direction \in {1, -1}, EnterStep(steps, next, direction),
         UNCHANGED <<shaft, dismissed, probing>>
  PROVE  Parts'
<1>1. /\ act \in Status /\ shaft \in Int
      /\ act' \in LoadAndRecover(act) /\ pc' = "loop"
  BY ActuatorAssumption DEF TypeOK, EnterStep
<1>2. /\ FileHonest(act.asf) => /\ Exact(act'.position, act'.errors)
                                /\ FileHonest(act'.asf)
      /\ FileSaysHomeUnknown(act.asf) =>
           SaysHomeUnknown(act'.errors) /\ FileSaysHomeUnknown(act'.asf)
      /\ ~Fatal(act'.errors) => act'.asf = CopyOf(act')
  BY <1>1, LoadAndRecoverFacts
<1>3. Magnitude(op'.toTake) <= RecordingInterval
  <2>1. op'.toTake \in {-RecordingInterval, RecordingInterval}
    BY DEF EnterStep
  <2> QED BY <2>1, ActuatorAssumption DEF Magnitude
<1>4. IdlePart'
  BY <1>1, <1>2 DEF Parts, IdlePart, FileHonest, Honest, Located,
     FileSaysHomeUnknown
<1>5. MotionPart'
  BY <1>1, <1>2, <1>3 DEF Parts, IdlePart, MotionPart, Exact
<1>6. SearchPart' /\ HomingPart'
  BY <1>1 DEF SearchPart, HomingPart, Searching
<1> QED BY <1>4, <1>5, <1>6 DEF Parts

\* A step that ends in "idle" or "down" only has to keep the idle part.
LEMMA RestSafe ==
  ASSUME pc' \in {"idle", "down"}, IdlePart'
  PROVE  Parts'
BY DEF Parts, MotionPart, SearchPart, HomingPart, Searching

LEMMA InitializeFacts ==
  ASSUME Faults = {}, TypeOK, initialize
  PROVE  /\ FileHonest(act.asf) => /\ Honest(act'.position, act'.errors)
                                   /\ FileHonest(act'.asf)
         /\ FileSaysHomeUnknown(act.asf) =>
              SaysHomeUnknown(act'.errors) /\ FileSaysHomeUnknown(act'.asf)
<1>0. act \in Status /\ shaft \in Int
  BY ActuatorAssumption DEF TypeOK
<1> DEFINE t == loadStatusFromASF(act)
<1>1. /\ t \in Status
      /\ FileHonest(act.asf) =>
           Honest(t.position, t.errors) /\ FileHonest(t.asf)
      /\ FileSaysHomeUnknown(act.asf) =>
           SaysHomeUnknown(t.errors) /\ FileSaysHomeUnknown(t.asf)
  BY <1>0, LoadFacts
<1>2. PICK s \in ConfigurationLoaded(t) : act' \in recoverPosition(s)
  BY DEF initialize
<1> HIDE DEF t
<1>3. /\ s \in Status /\ t.errors \subseteq s.errors
      /\ s.position = t.position
      /\ s.asf = t.asf \/ s.asf = CopyOf(s)
  <2>1. \A e \in DatabaseErrors :
          /\ setError(t, {e}) \in Status
          /\ setError(t, {e}).errors = t.errors \cup {e}
          /\ setError(t, {e}).position = t.position
          /\ setError(t, {e}).asf = t.asf
    BY <1>1, Codes, ErrorTyped
  <2>2. PICK u \in {t} \cup {setError(t, {e}) : e \in DatabaseErrors} :
          s = u \/ s = saveStatusToASF(u)
    BY <1>2 DEF ConfigurationLoaded
  <2>3. /\ u \in Status /\ t.errors \subseteq u.errors
        /\ u.position = t.position /\ u.asf = t.asf
    <3>1. CASE u = t
      BY <1>1, <3>1
    <3>2. ASSUME NEW e \in DatabaseErrors, u = setError(t, {e})
          PROVE  /\ u \in Status /\ t.errors \subseteq u.errors
                 /\ u.position = t.position /\ u.asf = t.asf
      BY <2>1, <3>2
    <3> QED BY <2>2, <3>1, <3>2
  <2>4. CASE s = u
    BY <2>3, <2>4
  <2>5. CASE s = saveStatusToASF(u)
    <3>1. /\ s \in Status /\ s.errors = u.errors /\ s.position = u.position
          /\ s.asf = CopyOf(s)
      BY <2>3, <2>5, SaveTyped DEF CopyOf
    <3> QED BY <2>3, <3>1
  <2> QED BY <2>2, <2>4, <2>5
<1>4. /\ s.errors \subseteq act'.errors
      /\ act' = s \/ act'.asf = CopyOf(act')
      /\ Honest(s.position, s.errors) => Exact(act'.position, act'.errors)
  BY <1>0, <1>2, <1>3, RecoverFacts
<1>5. FileHonest(act.asf) =>
        Honest(act'.position, act'.errors) /\ FileHonest(act'.asf)
  <2>1. FileHonest(act.asf) => Honest(s.position, s.errors) /\ FileHonest(s.asf)
    BY <1>1, <1>3, FatalMonotone DEF Honest, FileHonest, CopyOf
  <2>2. Exact(act'.position, act'.errors) => Honest(act'.position, act'.errors)
    BY <1>0, ExactLocates DEF Exact, Honest
  <2> QED BY <1>4, <2>1, <2>2 DEF FileHonest, CopyOf
<1>6. FileSaysHomeUnknown(act.asf) =>
        SaysHomeUnknown(act'.errors) /\ FileSaysHomeUnknown(act'.asf)
  <2>1. FileSaysHomeUnknown(act.asf) =>
          SaysHomeUnknown(s.errors) /\ FileSaysHomeUnknown(s.asf)
    BY <1>1, <1>3, FatalMonotone DEF FileSaysHomeUnknown, CopyOf
  <2> QED BY <1>4, <2>1, FatalMonotone DEF FileSaysHomeUnknown, CopyOf
<1> QED BY <1>5, <1>6

LEMMA EnvironmentSafe ==
  ASSUME Faults = {}, TypeOK, Parts, Environment
  PROVE  Parts'
<1>0. act \in Status /\ shaft \in Int
  BY ActuatorAssumption DEF TypeOK
<1>1. CASE Start
  <2>1. IdlePart'
    BY <1>1, InitializeFacts
    DEF Start, Parts, IdlePart, Searching, Honest, FileHonest, Located,
        FileSaysHomeUnknown
  <2> QED BY <1>1, <2>1, RestSafe DEF Start
<1>6. CASE turnOn
  <2>1. IdlePart'
    BY <1>6, InitializeFacts
    DEF turnOn, Parts, IdlePart, Searching, Honest, FileHonest, Located,
        FileSaysHomeUnknown
  <2> QED BY <1>6, <2>1, RestSafe DEF turnOn
<1>7. CASE turnOff
  <2>1. /\ act'.position = act.position /\ act'.errors = act.errors
        /\ act'.asf = CopyOf(act)
    BY <1>0, <1>7, SaveTyped DEF turnOff, CopyOf
  <2>2. IdlePart'
    BY <1>7, <2>1
    DEF turnOff, Parts, IdlePart, Searching, Honest, FileHonest, Located,
        FileSaysHomeUnknown, CopyOf
  <2> QED BY <1>7, <2>2, RestSafe DEF turnOff
<1>2. CASE Crash
  <2>1. pc \notin Searching
    BY <1>2 DEF Crash
  <2>2. act'.asf = act.asf \/ act'.asf.kind = "torn"
    BY <1>2 DEF Crash, EmptyASF
  <2>3. pc' = "down" /\ UNCHANGED <<shaft, dismissed, probing>>
    BY <1>2 DEF Crash
  <2>4. IdlePart'
    BY <2>1, <2>2, <2>3 DEF Parts, IdlePart, FileHonest, Honest, Located,
       FileSaysHomeUnknown
  <2> QED BY <2>3, <2>4, RestSafe
<1>3. CASE EnableDriver
  BY <1>3 DEF EnableDriver, Parts, IdlePart, MotionPart, SearchPart,
     HomingPart, FileHonest, Honest, Exact, Located, RevolutionsLeft, HardStop
<1>4. CASE DisableDriver
  BY <1>4 DEF DisableDriver, Parts, IdlePart, MotionPart, SearchPart,
     HomingPart, FileHonest, Honest, Exact, Located, RevolutionsLeft, HardStop
<1>5. CASE emergencyStop
  <2>1. pc \notin Searching
    BY <1>5 DEF emergencyStop
  <2> QED BY <1>5, <2>1 DEF emergencyStop, Parts, IdlePart, MotionPart,
          SearchPart, HomingPart, FileHonest, Honest, Exact, Located,
          RevolutionsLeft, HardStop, Searching
<1> QED BY <1>1, <1>2, <1>3, <1>4, <1>5, <1>6, <1>7 DEF Environment

LEMMA OperatorSafe ==
  ASSUME Faults = {}, TypeOK, Parts, Operator
  PROVE  Parts'
<1>0. act \in Status /\ shaft \in Int
  BY ActuatorAssumption DEF TypeOK
<1>1. CASE measureLength
  <2>1. pc = "idle" /\ pc' = "idle" /\ UNCHANGED <<shaft, dismissed, probing>>
    BY <1>1 DEF measureLength
  <2>2. /\ FileHonest(act.asf) => /\ Honest(act'.position, act'.errors)
                                  /\ FileHonest(act'.asf)
        /\ FileSaysHomeUnknown(act.asf) =>
             SaysHomeUnknown(act'.errors) /\ FileSaysHomeUnknown(act'.asf)
    BY <1>0, <1>1, LoadAndRecoverFacts DEF measureLength
  <2>3. IdlePart'
    BY <2>1, <2>2 DEF Parts, IdlePart, Searching, Honest, FileHonest, Located,
       FileSaysHomeUnknown
  <2> QED BY <2>1, <2>3, RestSafe
<1>2. CASE forceRecover
  <2>1. pc = "idle" /\ pc' = "idle" /\ UNCHANGED <<shaft, dismissed, probing>>
    BY <1>2 DEF forceRecover
  <2>2. /\ act.errors \subseteq act'.errors
        /\ act'.asf = CopyOf(act')
        /\ Honest(act.position, act.errors) =>
             Honest(act'.position, act'.errors)
    <3>1. CASE act' = VoltageFault(act)
      <4>1. /\ act'.errors = act.errors \cup {7}
            /\ act'.position = act.position
            /\ act'.asf = CopyOf(act')
        BY <1>0, <3>1, FaultTyped DEF CopyOf
      <4> QED BY <4>1, FatalCodes DEF Honest
    <3>2. ASSUME NEW d \in Deviations(act.position, shaft),
                 act' = saveStatusToASF(
                          setCurrentPosition(act, act.position + d))
          PROVE  /\ act.errors \subseteq act'.errors
                 /\ act'.asf = CopyOf(act')
                 /\ Honest(act.position, act.errors) =>
                      Honest(act'.position, act'.errors)
      <4>1. act.position \in Int /\ d \in Int /\ act.position + d \in Int
        BY <1>0, DeviationsTyped DEF Status
      <4>2. /\ setCurrentPosition(act, act.position + d) \in Status
            /\ setCurrentPosition(act, act.position + d).errors = act.errors
            /\ setCurrentPosition(act, act.position + d).position
                 = act.position + d
        BY <1>0, <4>1, PlaceTyped
      <4>3. /\ act'.errors = act.errors
            /\ act'.position = act.position + d
            /\ act'.asf = CopyOf(act')
        BY <3>2, <4>2, SaveTyped DEF CopyOf
      <4>4. Located(act.position) => act.position + d = shaft
        BY <1>0, <4>1, ExactDeviations
      <4> QED BY <1>0, <4>3, <4>4, ExactLocates DEF Honest
    <3> QED BY <1>2, <3>1, <3>2 DEF forceRecover
  <2>3. IdlePart'
    BY <2>1, <2>2, FatalMonotone
    DEF Parts, IdlePart, Searching, Honest, FileHonest, Located,
        FileSaysHomeUnknown, CopyOf
  <2> QED BY <2>1, <2>3, RestSafe
<1>3. CASE clearErrors
  <2>1. /\ pc = "idle" /\ pc' = "idle" /\ UNCHANGED shaft
        /\ dismissed' = (dismissed \/ Dismisses(act.errors))
        /\ probing' = (probing /\ ~SaysHomeUnknown(act.errors))
    BY <1>3 DEF clearErrors, SaysHomeUnknown
  <2>2. /\ unsetError(act, ErrorCodes) \in Status
        /\ unsetError(act, ErrorCodes).position = act.position
    BY <1>0, ErrorTyped
  <2>3. act'.position = act.position /\ act'.asf = CopyOf(act')
    BY <1>3, <2>2, SaveTyped DEF clearErrors, CopyOf
  <2>4. probing' = FALSE
    BY <2>1 DEF Parts, IdlePart, Searching
  <2>5. ~dismissed' => Located(act.position)
    BY <2>1 DEF Parts, IdlePart, Dismisses, Honest
  <2>6. IdlePart'
    BY <2>1, <2>3, <2>4, <2>5
    DEF IdlePart, Honest, FileHonest, Located, CopyOf
  <2> QED BY <2>1, <2>6, RestSafe
<1>4. ASSUME NEW e \in ClearRequests, clearError(e) PROVE Parts'
  <2>1. /\ pc = "idle" /\ pc' = "idle" /\ UNCHANGED shaft
        /\ dismissed' = (dismissed \/ Dismisses({e}))
        /\ probing' = (probing /\ e \notin HomeUnknown)
    BY <1>4 DEF clearError
  <2>2. /\ act'.position = act.position /\ act'.asf = act.asf
        /\ act'.errors = act.errors \ {e}
    <3>1. {e} \in SUBSET ErrorCodes
      BY ActuatorAssumption
    <3> QED BY <1>0, <1>4, <3>1, ErrorTyped DEF clearError
  <2>3. probing' => SaysHomeUnknown(act'.errors)
    BY <2>1, <2>2 DEF Parts, IdlePart, Searching, SaysHomeUnknown
  <2>4. ~dismissed' => Honest(act'.position, act'.errors)
    <3>1. Located(act.position) => Honest(act'.position, act'.errors)
      BY <2>2 DEF Honest
    <3>2. CASE e \in FatalErrors
      BY <2>1, <3>1, <3>2 DEF Dismisses, Fatal
    <3>3. CASE e \notin FatalErrors
      <4>1. Fatal(act.errors) => Fatal(act'.errors)
        BY <2>2, <3>3 DEF Fatal
      <4> QED BY <2>1, <2>2, <4>1 DEF Parts, IdlePart, Honest
    <3> QED BY <3>2, <3>3
  <2>5. IdlePart'
    BY <2>1, <2>2, <2>3, <2>4
    DEF Parts, IdlePart, Searching, Honest, FileHonest, Located,
        FileSaysHomeUnknown
  <2> QED BY <2>1, <2>5, RestSafe
<1>5. ASSUME NEW n \in StepRequests,
             step(n) \/ moveDeltaLength(n) \/ performHysteresisMotion(n)
      PROVE  Parts'
  <2>1. n \in Int /\ n - HysteresisSteps \in Int
    BY ActuatorAssumption
  <2>2. "done" \in Continuations /\ "hysteresis" \in Continuations
    BY DEF Continuations
  <2>3. pc \notin Searching
    BY <1>5 DEF step, moveDeltaLength, performHysteresisMotion, Searching
  <2> QED BY <1>5, <2>1, <2>2, <2>3, EnterStepSafe
          DEF step, moveDeltaLength, performHysteresisMotion
<1>6. ASSUME NEW direction \in {1, -1}, NEW kind \in {"findHome", "probeHome"},
             BeginSearch(direction, kind)
      PROVE  Parts'
  <2>1. /\ pc = "idle" /\ pc' = "coarse" /\ UNCHANGED act
        /\ kind = "findHome" => ~Fatal(act.errors)
        /\ kind = "probeHome" => direction = 1 /\ 7 \notin act.errors
    BY <1>6 DEF BeginSearch
  <2>2. op'.next = kind /\ op'.direction = direction /\ op'.cycles = 0
    BY <1>6 DEF BeginSearch, NoLocals
  <2>3. 7 \notin act.errors
    BY <2>1, FatalCodes
  <2>4. IdlePart' /\ MotionPart' /\ HomingPart'
    BY <2>1 DEF IdlePart, MotionPart, HomingPart, Searching
  <2>5. SearchPart'
    BY <2>1, <2>2, <2>3 DEF SearchPart, Searching
  <2> QED BY <2>4, <2>5 DEF Parts
<1> QED BY <1>1, <1>2, <1>3, <1>4, <1>5, <1>6 DEF Operator

\* The motor stops between where it started and where it was sent.
LEMMA DrivenBetween ==
  ASSUME TypeOK, NEW n \in Int, NEW to \in DrivenTo(n)
  PROVE  to \in Between(shaft, shaft - n)
<1>1. /\ shaft \in Int /\ ExtendHardStop <= shaft /\ shaft <= RetractHardStop
      /\ ExtendHardStop \in Int /\ RetractHardStop \in Int
  BY ActuatorAssumption DEF TypeOK
<1>2. CASE to = shaft
  BY <1>1, <1>2 DEF Between
<1>3. ASSUME NEW m \in Between(0, n), to = WithinStops(shaft - m)
      PROVE  to \in Between(shaft, shaft - n)
  <2>1. m \in Int /\ ((0 <= m /\ m <= n) \/ (n <= m /\ m <= 0))
    BY DEF Between
  <2>2. to \in Int /\ (\/ shaft - m <= to /\ to <= shaft
                       \/ shaft <= to /\ to <= shaft - m)
    BY <1>1, <1>3, <2>1 DEF WithinStops
  <2> QED BY <1>1, <2>1, <2>2 DEF Between
<1> QED BY <1>2, <1>3 DEF DrivenTo

\* A chunk is shorter than half a revolution, so the file still locates the
\* shaft while the chunk is driven, and so does the predicted position.
LEMMA ChunkShort ==
  ASSUME NEW at \in Int, NEW position \in Int, NEW toTake \in Int,
         Magnitude(toTake) <= RecordingInterval,
         at \in Between(position, position - toTake)
  PROVE  /\ 2 * Magnitude(at - position) < StepsPerRevolution
         /\ 2 * Magnitude(at - (position - toTake)) < StepsPerRevolution
<1>1. /\ RecordingInterval \in Nat /\ StepsPerRevolution \in Nat
      /\ 2 * RecordingInterval < StepsPerRevolution
  BY ActuatorAssumption, PositionAssumption
<1> QED BY <1>1 DEF Magnitude, Between

LEMMA CheckChunkSafe ==
  ASSUME Faults = {}, TypeOK, Parts, CheckChunk
  PROVE  Parts'
<1>0. /\ act \in Status /\ shaft \in Int /\ act.position \in Int
      /\ op.toTake \in Int /\ act.position - op.toTake \in Int
      /\ pc = "moved" /\ UNCHANGED <<shaft, dismissed, probing>>
      /\ ~Fatal(act.errors)
      /\ Magnitude(op.toTake) <= RecordingInterval
  <2>1. act \in Status /\ shaft \in Int /\ op \in Locals
    BY ActuatorAssumption DEF TypeOK
  <2>2. pc = "moved" /\ UNCHANGED <<shaft, dismissed, probing>>
    BY DEF CheckChunk
  <2>3. act.position \in Int /\ op.toTake \in Int
    BY <2>1 DEF Status, Locals
  <2> QED BY <2>1, <2>2, <2>3 DEF Parts, MotionPart
<1>1. ~probing
  BY <1>0, FatalCodes
  DEF Parts, IdlePart, Searching, SaysHomeUnknown, HomeUnknown
<1>2. ~dismissed =>
        \A d \in Deviations(act.position - op.toTake, shaft) :
          act.position - (op.toTake - d) = shaft
  <2> SUFFICES ASSUME ~dismissed,
                      NEW d \in Deviations(act.position - op.toTake, shaft)
               PROVE  act.position - (op.toTake - d) = shaft
    OBVIOUS
  <2>1. Located(act.position - op.toTake)
    BY <1>0, ChunkShort DEF Parts, MotionPart, Located
  <2>2. d = shaft - (act.position - op.toTake)
    BY <1>0, <2>1, ExactDeviations
  <2> QED BY <1>0, <2>2
<1>3. CASE act' = VoltageFault(act) /\ StepReturns(StepsRemaining)
  <2>1. Fatal(act'.errors) /\ act'.asf = CopyOf(act') /\ pc' = "returned"
    <3>1. act'.errors = act.errors \cup {7} /\ act'.asf = CopyOf(act')
      BY <1>0, <1>3, FaultTyped DEF CopyOf
    <3> QED BY <1>3, <3>1, FatalCodes DEF StepReturns
  <2> QED BY <1>0, <1>1, <2>1
          DEF Parts, IdlePart, MotionPart, SearchPart, HomingPart, Searching,
              FileHonest, Honest, Exact, CopyOf
<1>4. ASSUME NEW d \in Deviations(act.position - op.toTake, shaft),
             NEW E \in {{}, {6}, {8}}, NEW s,
             s = setCurrentPosition(act, act.position - (op.toTake - d)),
             \/ /\ E # {} /\ act' = saveStatusToASF(setError(s, E))
                /\ pc' = "returned"
             \/ act' = saveStatusToASF(s) /\ pc' = "loop" /\ UNCHANGED op
      PROVE  Parts'
  <2>1. act.position - (op.toTake - d) \in Int
    <3>1. d \in Int
      BY ChunkDeviationTyped
    <3> QED BY <1>0, <3>1
  <2>2. /\ s \in Status /\ s.position = act.position - (op.toTake - d)
    BY <1>0, <1>4, <2>1, PlaceTyped
  <2>3. /\ setError(s, E) \in Status /\ setError(s, E).position = s.position
        /\ setError(s, E).errors = s.errors \cup E
    BY <2>2, Codes, ErrorTyped
  <2>4. /\ act'.asf = CopyOf(act') /\ act'.position = s.position
        /\ pc' = "returned" => Fatal(act'.errors)
    <3>1. CASE E # {} /\ act' = saveStatusToASF(setError(s, E))
      <4>1. /\ act'.asf = CopyOf(act') /\ act'.position = s.position
            /\ act'.errors = s.errors \cup E
        BY <2>3, <3>1, SaveTyped DEF CopyOf
      <4> QED BY <3>1, <4>1, FatalCodes
    <3>2. CASE act' = saveStatusToASF(s) /\ pc' = "loop"
      BY <2>2, <3>2, SaveTyped DEF CopyOf
    <3> QED BY <1>4, <3>1, <3>2
  <2>5. ~dismissed => act'.position = shaft
    BY <1>2, <2>2, <2>4
  <2>6. pc' \in {"returned", "loop"} /\ (pc' = "loop" => UNCHANGED op)
    BY <1>4
  <2>7. IdlePart'
    BY <1>0, <1>1, <2>4, <2>5, <2>6, ExactLocates
    DEF IdlePart, FileHonest, Honest, CopyOf, Located
  <2>8. MotionPart'
    BY <1>0, <2>4, <2>5, <2>6 DEF MotionPart, Exact
  <2>9. SearchPart' /\ HomingPart'
    BY <2>6 DEF SearchPart, HomingPart, Searching
  <2> QED BY <2>7, <2>8, <2>9 DEF Parts
<1> QED BY <1>3, <1>4 DEF CheckChunk, StepReturns

\* Leaving the loop keeps everything; a step that only returns cannot harm.
LEMMA ReturnSafe ==
  ASSUME Parts, pc = "loop", pc' = "returned",
         UNCHANGED <<shaft, act, dismissed, probing>>
  PROVE  Parts'
BY DEF Parts, IdlePart, MotionPart, SearchPart, HomingPart, Searching,
   FileHonest, Honest, Exact, Located

LEMMA MotionSafe ==
  ASSUME Faults = {}, TypeOK, Parts, Motion
  PROVE  Parts'
<1>0. /\ act \in Status /\ shaft \in Int /\ op \in Locals
      /\ act.position \in Int /\ op.toTake \in Int
  <2>1. act \in Status /\ shaft \in Int /\ op \in Locals
    BY ActuatorAssumption DEF TypeOK
  <2> QED BY <2>1 DEF Status, Locals
<1>1. CASE DriveChunk
  <2> DEFINE toTake == IF Magnitude(StepsRemaining) <= RecordingInterval
                         THEN StepsRemaining ELSE op.toTake
  <2>1. /\ pc = "loop" /\ pc' = "moved" /\ UNCHANGED <<act, dismissed, probing>>
        /\ ~Fatal(act.errors)
        /\ shaft' \in DrivenTo(toTake) /\ op'.toTake = toTake
    <3>1. [op EXCEPT !.toTake = toTake].toTake = toTake
      BY <1>0 DEF Locals
    <3> QED BY <1>1, <3>1 DEF DriveChunk, MayStep
  <2>2. toTake \in Int /\ Magnitude(toTake) <= RecordingInterval
    <3>1. StepsRemaining \in Int
      BY RemainingTyped
    <3>2. Magnitude(op.toTake) <= RecordingInterval
      BY <2>1 DEF Parts, MotionPart
    <3> QED BY <1>0, <3>1, <3>2
  <2> HIDE DEF toTake
  <2>3. shaft' \in Between(shaft, shaft - toTake) /\ shaft' \in Int
    <3>1. shaft' \in Between(shaft, shaft - toTake)
      BY <2>1, <2>2, DrivenBetween
    <3> QED BY <1>0, <2>2, <3>1 DEF Between
  <2>4. ~dismissed => act.position = shaft /\ act.asf = CopyOf(act)
    BY <2>1 DEF Parts, MotionPart, Exact
  <2>5. ~dismissed => 2 * Magnitude(shaft' - act.position) < StepsPerRevolution
    <3>1. 2 * Magnitude(shaft' - shaft) < StepsPerRevolution
      BY <1>0, <2>2, <2>3, ChunkShort
    <3> QED BY <2>4, <3>1
  <2>6. IdlePart'
    BY <2>1, <2>4, <2>5
    DEF Parts, IdlePart, Searching, FileHonest, Honest, Located, CopyOf,
        FileSaysHomeUnknown
  <2>7. MotionPart'
    BY <2>1, <2>2, <2>3, <2>4 DEF Parts, MotionPart
  <2>8. SearchPart' /\ HomingPart'
    BY <2>1 DEF SearchPart, HomingPart, Searching
  <2> QED BY <2>6, <2>7, <2>8 DEF Parts
<1>2. CASE CheckChunk
  BY <1>2, CheckChunkSafe
<1>3. CASE LeaveLoop
  BY <1>3, ReturnSafe DEF LeaveLoop, StepReturns
<1>4. CASE FinishStep
  <2>1. /\ pc = "returned" /\ pc' = "idle"
        /\ UNCHANGED <<shaft, act, dismissed, probing>>
    BY <1>4 DEF FinishStep
  <2>2. Exact(act.position, act.errors) => Honest(act.position, act.errors)
    BY <1>0, ExactLocates DEF Exact, Honest
  <2>3. IdlePart'
    BY <2>1, <2>2
    DEF Parts, IdlePart, MotionPart, Searching, FileHonest, Honest, Located
  <2> QED BY <2>1, <2>3, RestSafe
<1>5. CASE FinishHysteresis
  <2>1. HysteresisSteps + op.remaining \in Int
    BY <1>0, ActuatorAssumption DEF Locals
  <2> QED BY <1>5, <2>1, EnterStepSafe
          DEF FinishHysteresis, Continuations, Searching
<1>6. CASE StuckAtStop
  <2>1. pc' = "idle" /\ UNCHANGED <<shaft, dismissed, probing>>
    BY <1>6 DEF StuckAtStop
  <2>2. /\ act'.asf = CopyOf(act')
        /\ Fatal(act'.errors) /\ SaysHomeUnknown(act'.errors)
    <3>1. /\ setError(act, {0}) \in Status
          /\ setError(act, {0}).errors = act.errors \cup {0}
      BY <1>0, Codes, ErrorTyped
    <3>2. act'.errors = act.errors \cup {0} /\ act'.asf = CopyOf(act')
      BY <1>6, <3>1, SaveTyped DEF StuckAtStop, CopyOf
    <3> QED BY <3>2, FatalCodes
  <2>3. IdlePart'
    BY <2>1, <2>2
    DEF IdlePart, FileHonest, Honest, CopyOf, FileSaysHomeUnknown
  <2> QED BY <2>1, <2>3, RestSafe
<1>7. CASE ReturnToStop
  <2>1. op.direction * RecordingInterval \in Int /\ op.direction \in {1, -1}
    BY <1>0, ActuatorAssumption DEF Locals
  <2> QED BY <1>7, <2>1, EnterStepSafe
          DEF ReturnToStop, Continuations, Searching
<1> QED BY <1>1, <1>2, <1>3, <1>4, <1>5, <1>6, <1>7 DEF Motion

\* The fine search begins with a readable encoder and sets error 0.
LEMMA BeginFineSafe ==
  ASSUME Faults = {}, TypeOK, Parts, pc = "coarse", BeginFineSearch(act),
         UNCHANGED <<op, dismissed>>
  PROVE  Parts'
<1>1. /\ act \in Status /\ 7 \notin act.errors /\ op.cycles = 0
      /\ op.next \in {"findHome", "probeHome"}
      /\ op.next = "probeHome" => op.direction = 1
  BY DEF TypeOK, Parts, SearchPart, Searching
<1>2. act'.errors = act.errors \cup {0}
  BY <1>1, Codes, ErrorTyped DEF BeginFineSearch
<1>3. pc' = "fine" /\ keepStepping'
  BY <1>1 DEF BeginFineSearch
<1>4. IdlePart' /\ MotionPart' /\ HomingPart'
  BY <1>3 DEF IdlePart, MotionPart, HomingPart, Searching
<1>5. SearchPart'
  BY <1>1, <1>2, <1>3 DEF SearchPart, Searching
<1> QED BY <1>4, <1>5 DEF Parts

\* The recorded stop is near enough to the real one to be measured exactly.
LEMMA StopMeasured ==
  ASSUME TypeOK, Parts, pc = "fineDone"
  PROVE  checkAngleSlow(PositionOf(RecordedStop(op.direction)).angle,
                        ShaftAngle(shaft))
           = shaft - RecordedStop(op.direction)
<1>1. op.direction \in {1, -1} /\ shaft \in Int
  BY ActuatorAssumption DEF TypeOK, Locals
<1>2. shaft = HardStop(op.direction)
  BY DEF Parts, SearchPart
<1>3. 2 * Magnitude(shaft - RecordedStop(op.direction)) < StepsPerRevolution
  BY <1>1, <1>2, ActuatorAssumption DEF HardStop, RecordedStop
<1> QED BY <1>1, <1>3, RecordedStopTyped, SlowDeviationExact

LEMMA SetHomeSafe ==
  ASSUME Faults = {}, TypeOK, Parts, SetHomeFromStop
  PROVE  Parts'
<1> DEFINE target == RecordedStop(op.direction)
           d == checkAngleSlow(PositionOf(target).angle, ShaftAngle(shaft))
           s == setCurrentPosition(act, target + d)
<1>0. /\ act \in Status /\ op.direction \in {1, -1} /\ shaft \in Int
      /\ pc = "fineDone" /\ shaft' = shaft
  BY ActuatorAssumption DEF TypeOK, Locals, SetHomeFromStop
<1>1. target + d = shaft
  BY <1>0, StopMeasured, RecordedStopTyped
<1>2. s \in Status /\ s.position = shaft /\ s.errors = act.errors
  BY <1>0, <1>1, PlaceTyped
<1>3. 0 \in act.errors
  BY <1>0 DEF Parts, SearchPart, Searching
<1>4. {act} \cup (IF "searchEncoder" \in Faults
                    THEN {VoltageFault(act)} ELSE {}) = {act}
  OBVIOUS
<1> HIDE DEF target, d, s
<1>5. CASE /\ act' = saveStatusToASF(setError(s, {12}))
           /\ pc' = "idle"
           /\ UNCHANGED <<dismissed, probing>>
  <2>1. /\ setError(s, {12}) \in Status
        /\ setError(s, {12}).errors = s.errors \cup {12}
    BY <1>2, Codes, ErrorTyped
  <2>2. act'.errors = s.errors \cup {12} /\ act'.asf = CopyOf(act')
    BY <1>5, <2>1, SaveTyped DEF CopyOf
  <2>3. Fatal(act'.errors) /\ SaysHomeUnknown(act'.errors)
    BY <1>2, <1>3, <2>2, FatalCodes
  <2>4. IdlePart'
    BY <1>5, <2>2, <2>3
    DEF IdlePart, FileHonest, Honest, FileSaysHomeUnknown, CopyOf
  <2> QED BY <1>5, <2>4, RestSafe
<1>6. CASE /\ act' \in LoadAndRecover(saveStatusToASF(unsetError(s, {0})))
           /\ op'.toTake = -op.direction * RecordingInterval
           /\ pc' = "loop"
           /\ dismissed' = FALSE
           /\ probing' = FALSE
  <2> DEFINE home == saveStatusToASF(unsetError(s, {0}))
  <2>1. home \in Status /\ home.asf.position = shaft
    <3>1. unsetError(s, {0}) \in Status /\ unsetError(s, {0}).position = shaft
      BY <1>2, Codes, ErrorTyped
    <3> DEFINE u == unsetError(s, {0})
    <3> HIDE DEF u
    <3>2. /\ saveStatusToASF(u) \in Status
          /\ saveStatusToASF(u).asf = [kind |-> "good", position |-> u.position,
                                      errors |-> u.errors]
      BY <3>1, SaveTyped DEF u
    <3>3. saveStatusToASF(u).asf.position = u.position
      BY <3>2
    <3> QED BY <3>1, <3>2, <3>3 DEF u
  <2>2. FileHonest(home.asf)
    BY <1>0, <2>1, ExactLocates DEF FileHonest, Honest
  <2> HIDE DEF home
  <2>3. /\ Exact(act'.position, act'.errors) /\ FileHonest(act'.asf)
        /\ ~Fatal(act'.errors) => act'.asf = CopyOf(act')
    BY <1>0, <1>6, <2>1, <2>2, LoadAndRecoverFacts DEF home
  <2>4. Magnitude(op'.toTake) <= RecordingInterval
    BY <1>0, <1>6, ActuatorAssumption DEF Magnitude
  <2>5. IdlePart'
    BY <1>0, <1>6, <2>3 DEF IdlePart, FileHonest, Honest, Located
  <2>6. MotionPart'
    BY <1>0, <1>6, <2>3, <2>4 DEF MotionPart, Exact
  <2>7. SearchPart' /\ HomingPart'
    BY <1>6 DEF SearchPart, HomingPart, Searching
  <2> QED BY <2>5, <2>6, <2>7 DEF Parts
<1>7. shaft = HardStop(op.direction)
  BY <1>0 DEF Parts, SearchPart
<1> QED
  <2>1. \/ /\ act' = saveStatusToASF(setError(s, {12}))
           /\ pc' = "idle"
           /\ UNCHANGED <<dismissed, probing>>
        \/ /\ act' \in LoadAndRecover(saveStatusToASF(unsetError(s, {0})))
           /\ \E f \in {act'.position - (-op.direction * RecordingInterval)} :
                op' = [NoLocals EXCEPT !.final = f,
                         !.toTake = -op.direction * RecordingInterval,
                         !.next = "leaveStop", !.direction = op.direction]
           /\ pc' = "loop"
           /\ dismissed' = FALSE
           /\ probing' = (probing /\ shaft # HardStop(op.direction))
    BY <1>4 DEF SetHomeFromStop, target, d, s
  <2>2. \A f, t, dir : [NoLocals EXCEPT !.final = f, !.toTake = t,
                      !.next = "leaveStop", !.direction = dir].toTake = t
    BY DEF NoLocals
  <2>3. (\E f : op' = [NoLocals EXCEPT !.final = f,
                        !.toTake = -op.direction * RecordingInterval,
                        !.next = "leaveStop", !.direction = op.direction])
          => op'.toTake = -op.direction * RecordingInterval
    BY <2>2
  <2> QED BY <1>5, <1>6, <1>7, <2>1, <2>3

LEMMA HomingStepSafe ==
  ASSUME Faults = {}, TypeOK, Parts, HomingStep
  PROVE  Parts'
<1> DEFINE k == RevolutionsLeft
<1>1. /\ pc = "homing" /\ pc' = "homing" /\ shaft \in Int
      /\ UNCHANGED <<act, keepStepping, dismissed, probing>>
      /\ op.cycles < CyclesDefiningHome
      /\ shaft' = WithinStops(shaft + 1)
      /\ op' = [op EXCEPT !.cycles =
                  IF ShaftAngle(shaft') < ShaftAngle(shaft) THEN @ + 1 ELSE @]
  BY ActuatorAssumption DEF HomingStep, Homing, NotReachedHome, TypeOK
<1>2. /\ op' = [op EXCEPT !.cycles = op'.cycles]
      /\ op'.next = op.next /\ op'.direction = op.direction
      /\ op'.cycles = IF ShaftAngle(shaft') < ShaftAngle(shaft)
                        THEN op.cycles + 1 ELSE op.cycles
  <2>1. op \in Locals
    BY DEF TypeOK
  <2> QED BY <1>1, <2>1 DEF Locals
<1>3. /\ op.cycles \in Nat /\ k \in Nat \ {0}
      /\ -k * StepsPerRevolution <= shaft
      /\ shaft < -(k - 1) * StepsPerRevolution
      /\ op.next = "probeHome"
  <2>1. op.cycles \in Nat
    BY DEF TypeOK, Locals
  <2>2. k \in Nat \ {0}
    BY <1>1, <2>1, ActuatorAssumption DEF RevolutionsLeft
  <2> QED BY <1>1, <2>1, <2>2 DEF Parts, HomingPart
<1> HIDE DEF k
<1>4. /\ ShaftAngle(shaft + 1) < ShaftAngle(shaft)
            <=> shaft + 1 = -(k - 1) * StepsPerRevolution
      /\ shaft + 1 <= -(k - 1) * StepsPerRevolution
      /\ shaft + 1 <= 0
  BY <1>1, <1>3, HomingAngle
<1>5. shaft' = shaft + 1
  <2>1. ExtendHardStop <= shaft
    BY ActuatorAssumption DEF TypeOK
  <2> QED BY <1>1, <1>4, <2>1, ActuatorAssumption DEF WithinStops
<1>6. HomingPart'
  <2>1. CASE shaft + 1 = -(k - 1) * StepsPerRevolution
    <3>1. op'.cycles = op.cycles + 1 /\ RevolutionsLeft' = k - 1
      BY <1>2, <1>3, <1>4, <1>5, <2>1, ActuatorAssumption
      DEF RevolutionsLeft, k
    <3>2. k - 1 = 0 => shaft' = 0
      BY <1>5, <2>1, PositionAssumption
    <3>3. shaft' < -(k - 1 - 1) * StepsPerRevolution
      BY <1>1, <1>3, <1>5, <2>1, PositionAssumption
    <3>4. -(k - 1) * StepsPerRevolution <= shaft'
      BY <1>1, <1>5, <2>1
    <3>5. op'.cycles <= CyclesDefiningHome
      BY <1>1, <1>3, <3>1, ActuatorAssumption
    <3>6. RevolutionsLeft' = 0 => shaft' = 0
      BY <3>1, <3>2
    <3>7. /\ -RevolutionsLeft' * StepsPerRevolution <= shaft'
          /\ shaft' < -(RevolutionsLeft' - 1) * StepsPerRevolution
      BY <3>1, <3>3, <3>4, Zenon
    <3> QED BY <1>2, <1>3, <3>5, <3>6, <3>7 DEF HomingPart
  <2>2. CASE shaft + 1 # -(k - 1) * StepsPerRevolution
    <3>1. op'.cycles = op.cycles /\ RevolutionsLeft' = k
      BY <1>2, <1>4, <1>5, <2>2 DEF RevolutionsLeft, k
    <3>2. -k * StepsPerRevolution <= shaft'
      BY <1>1, <1>3, <1>5, PositionAssumption
    <3>3. shaft' < -(k - 1) * StepsPerRevolution
      BY <1>1, <1>3, <1>4, <1>5, <2>2, PositionAssumption
    <3>4. op'.cycles <= CyclesDefiningHome
      BY <1>1, <1>3, <3>1, ActuatorAssumption
    <3>5. RevolutionsLeft' # 0
      BY <1>3, <3>1
    <3>6. /\ -RevolutionsLeft' * StepsPerRevolution <= shaft'
          /\ shaft' < -(RevolutionsLeft' - 1) * StepsPerRevolution
      BY <3>1, <3>2, <3>3, Zenon
    <3> QED BY <1>2, <1>3, <3>4, <3>5, <3>6 DEF HomingPart
  <2> QED BY <2>1, <2>2
<1>7. IdlePart' /\ MotionPart'
  BY <1>1 DEF IdlePart, MotionPart, Searching
<1>8. SearchPart'
  BY <1>1, <1>2 DEF Parts, SearchPart, Searching
<1> QED BY <1>6, <1>7, <1>8 DEF Parts

LEMMA NoDisturbance ==
  ASSUME Faults = {}
  PROVE  ~Disturbance
BY DEF Disturbance, CoarseStopped, CoarseUnread, FineUnread, HomingUnread

LEMMA SearchSafe ==
  ASSUME Faults = {}, TypeOK, Parts, Search
  PROVE  Parts'
<1>0. /\ act \in Status /\ shaft \in Int /\ op \in Locals
      /\ op.direction \in {1, -1}
  BY ActuatorAssumption DEF TypeOK, Locals
<1>1. CASE CoarseStep
  <2>1. /\ pc = "coarse" /\ UNCHANGED dismissed
        /\ \/ act' = act /\ UNCHANGED <<pc, op, keepStepping, enabled, probing>>
           \/ BeginFineSearch(act) /\ UNCHANGED <<op, enabled>>
    BY <1>1 DEF CoarseStep, CoarsePass, Parts, SearchPart
  <2>2. CASE act' = act /\ UNCHANGED <<pc, op, keepStepping, enabled, probing>>
    BY <2>1, <2>2
    DEF Parts, IdlePart, MotionPart, SearchPart, HomingPart, Searching
  <2> QED BY <2>1, <2>2, BeginFineSafe
<1>3. CASE FineStep
  <2>1. /\ pc = "fine" /\ shaft' \in SearchMoves(op.direction)
        /\ act' = act /\ UNCHANGED <<keepStepping, op, dismissed, probing>>
        /\ pc' = IF AtStop(shaft, shaft') THEN "fineDone" ELSE "fine"
    BY <1>3 DEF FineStep
  <2>2. AtStop(shaft, shaft') => shaft' = HardStop(op.direction)
    BY <1>0, <2>1, AtStopIsHardStop
  <2>3. IdlePart' /\ MotionPart' /\ HomingPart'
    BY <2>1 DEF IdlePart, MotionPart, HomingPart, Searching
  <2>4. SearchPart'
    BY <2>1, <2>2 DEF Parts, SearchPart, Searching, HardStop
  <2> QED BY <2>3, <2>4 DEF Parts
<1>4. CASE FineStopped
  BY <1>4 DEF FineStopped, Parts, SearchPart
<1>5. CASE SetHomeFromStop
  BY <1>5, SetHomeSafe
<1>6. CASE BeginHoming
  <2>1. /\ pc = "fineDone" /\ op.next = "probeHome" /\ 7 \notin act.errors
        /\ op.cycles = 0 /\ op.direction = 1 /\ 0 \in act.errors
        /\ shaft = ExtendHardStop
    BY <1>6 DEF BeginHoming, Parts, SearchPart, Searching, HardStop
  <2>2. /\ act' = act \/ act' = saveStatusToASF(setError(act, {11}))
        /\ keepStepping' = TRUE /\ pc' = "homing"
        /\ UNCHANGED <<op, shaft, dismissed, probing>>
    BY <1>6, <2>1 DEF BeginHoming
  <2>3. 0 \in act'.errors /\ 7 \notin act'.errors
    <3>1. /\ setError(act, {11}) \in Status
          /\ setError(act, {11}).errors = act.errors \cup {11}
      BY <1>0, Codes, ErrorTyped
    <3>2. saveStatusToASF(setError(act, {11})).errors = act.errors \cup {11}
      BY <3>1, SaveTyped
    <3> QED BY <2>1, <2>2, <3>2
  <2>4. HomingPart'
    <3>1. RevolutionsLeft' = CyclesDefiningHome /\ CyclesDefiningHome \in Nat \ {0}
      BY <2>1, <2>2, ActuatorAssumption DEF RevolutionsLeft
    <3>2. /\ -CyclesDefiningHome * StepsPerRevolution <= shaft'
          /\ shaft' < -(CyclesDefiningHome - 1) * StepsPerRevolution
      BY <2>1, <2>2, ActuatorAssumption
    <3>3. op'.next = "probeHome" /\ op'.cycles <= CyclesDefiningHome
      BY <2>1, <2>2, ActuatorAssumption
    <3> QED BY <3>1, <3>2, <3>3 DEF HomingPart
  <2>5. IdlePart' /\ MotionPart'
    BY <2>2 DEF IdlePart, MotionPart, Searching
  <2>6. SearchPart'
    BY <2>1, <2>2, <2>3 DEF SearchPart, Searching
  <2> QED BY <2>4, <2>5, <2>6 DEF Parts
<1>7. CASE HomingStep
  BY <1>7, HomingStepSafe
<1>2. CASE HomingStuck
  <2>1. /\ shaft = RetractHardStop /\ pc = "homing"
        /\ op.cycles < CyclesDefiningHome /\ op.cycles \in Nat
    BY <1>0, <1>2 DEF HomingStuck, Homing, NotReachedHome, Locals
  <2> DEFINE k == RevolutionsLeft
  <2>2. k \in Nat \ {0} /\ shaft < -(k - 1) * StepsPerRevolution
    BY <2>1, ActuatorAssumption DEF Parts, HomingPart, RevolutionsLeft
  <2> HIDE DEF k
  <2>3. -(k - 1) * StepsPerRevolution <= 0
    BY <2>2, PositionAssumption
  <2>4. shaft < 0
    BY <1>0, <2>2, <2>3, PositionAssumption
  <2> QED BY <2>1, <2>4, ActuatorAssumption
<1>8. CASE HomeReached
  <2>1. /\ pc = "homing" /\ UNCHANGED shaft /\ dismissed' = FALSE
        /\ probing' = (probing /\ shaft # 0) /\ pc' = "idle"
        /\ ~NotReachedHome
    BY <1>8 DEF HomeReached, AbandonSearch, Parts, SearchPart
  <2>2. shaft = 0
    <3>1. op.cycles \in Nat /\ op.cycles <= CyclesDefiningHome
      BY <1>0, <2>1 DEF Locals, Parts, HomingPart
    <3>2. RevolutionsLeft = 0
      BY <2>1, <3>1, ActuatorAssumption DEF NotReachedHome, RevolutionsLeft
    <3> QED BY <2>1, <3>2 DEF Parts, HomingPart
  <2>3. act'.position = 0 /\ act'.asf = CopyOf(act')
    <3>1. PICK e \in {{}, {13}} :
            act' = saveStatusToASF(
                     unsetError(setCurrentPosition(setError(act, e), 0), {0}))
      BY <1>8 DEF HomeReached, AbandonSearch
    <3>2. setError(act, e) \in Status
      BY <1>0, Codes, ErrorTyped
    <3> DEFINE u == setCurrentPosition(setError(act, e), 0)
    <3>3. u \in Status /\ u.position = 0
      BY <3>2, PlaceTyped
    <3> HIDE DEF u
    <3>4. unsetError(u, {0}) \in Status /\ unsetError(u, {0}).position = 0
      BY <3>3, Codes, ErrorTyped
    <3> QED BY <3>1, <3>4, SaveTyped DEF u, CopyOf
  <2>4. 2 * Magnitude(shaft' - act'.position) < StepsPerRevolution
    <3>1. shaft' - act'.position = 0
      BY <2>1, <2>2, <2>3
    <3> QED BY <3>1, PositionAssumption DEF Magnitude
  <2>5. act'.asf.position = act'.position
    BY <2>3 DEF CopyOf
  <2>6. probing' = FALSE
    BY <2>1, <2>2
  <2>7. IdlePart'
    BY <2>1, <2>4, <2>5, <2>6 DEF IdlePart, FileHonest, Honest, Located
  <2> QED BY <2>1, <2>7, RestSafe
<1> QED BY <1>1, <1>2, <1>3, <1>4, <1>5, <1>6, <1>7, <1>8 DEF Search

-----------------------------------------------------------------------------
(* The theorems *)

\* The invariant is inductive as long as none of the excluded faults occurs.
THEOREM SafetyInductive ==
  ASSUME Faults = {}
  PROVE  Spec => []SafetyInvariant
<1>1. Init => SafetyInvariant
  BY InitTyped, InitSafe DEF SafetyInvariant, Parts
<1>2. SafetyInvariant /\ [Next]_vars => SafetyInvariant'
  <2> SUFFICES ASSUME SafetyInvariant, [Next]_vars PROVE SafetyInvariant'
    OBVIOUS
  <2>1. TypeOK /\ Parts
    BY DEF SafetyInvariant, Parts
  <2>2. CASE Next
    <3>1. TypeOK'
      BY <2>1, <2>2, EnvironmentTyped, OperatorTyped, MotionTyped, SearchTyped,
         DisturbanceTyped
      DEF Next
    <3>2. Parts'
      BY <2>1, <2>2, EnvironmentSafe, OperatorSafe, MotionSafe, SearchSafe,
         NoDisturbance
      DEF Next
    <3> QED BY <3>1, <3>2 DEF SafetyInvariant, Parts
  <2>3. CASE UNCHANGED vars
    BY <2>3 DEF vars, SafetyInvariant, TypeOK, IdlePart, MotionPart, SearchPart,
       HomingPart, FileHonest, Honest, Exact, Located, RevolutionsLeft, HardStop
  <2> QED BY <2>2, <2>3
<1> QED BY <1>1, <1>2, PTL DEF Spec

\* An idle actuator without a fatal error is less than half a revolution from
\* where it says it is (recoverPosition, __step, __findHomeFromEndStop).
THEOREM IdleIsLocated ==
  ASSUME Faults = {}
  PROVE  Spec => []NoSilentMislocation
<1>1. SafetyInvariant => NoSilentMislocation
  BY DEF SafetyInvariant, IdlePart, Honest, NoSilentMislocation
<1> QED BY <1>1, SafetyInductive, PTL

\* Every chunk of a motion starts from the exact position (__step).
THEOREM ChunksStartExact ==
  ASSUME Faults = {}
  PROVE  Spec => []StepsFromTruth
<1>1. SafetyInvariant => StepsFromTruth
  BY DEF SafetyInvariant, MotionPart, Exact, StepsFromTruth, MayStep
<1> QED BY <1>1, SafetyInductive, PTL

\* Whenever the process dies outside a search, the file it leaves behind is
\* enough to find the position again (saveStatusToASF, loadStatusFromASF).
THEOREM FileIsEnough ==
  ASSUME Faults = {}
  PROVE  Spec => []FileLocates
<1>1. SafetyInvariant => FileLocates
  BY DEF SafetyInvariant, IdlePart, FileHonest, Honest, FileLocates
<1> QED BY <1>1, SafetyInductive, PTL

\* A search that has begun is reported until home is found (__probeEndStop).
THEOREM SearchIsReported ==
  ASSUME Faults = {}
  PROVE  Spec => []HomeErrorUntilProbeComplete
<1>1. SafetyInvariant => HomeErrorUntilProbeComplete
  BY DEF SafetyInvariant, IdlePart, SaysHomeUnknown, Searching,
     HomeErrorUntilProbeComplete
<1> QED BY <1>1, SafetyInductive, PTL

-----------------------------------------------------------------------------
(* No fatal error gets lost, also when searches are stopped, stall or crash *)
(* and when the calibration table is read past its end.                     *)

\* The status file would give every fatal error back.
Recorded(s) ==
  /\ s.asf.kind # "missing"
  /\ s.asf.kind = "good" => s.errors \cap FatalErrors \subseteq s.asf.errors

Keeps(small, large) == small \cap FatalErrors \subseteq large

\* Outside the searches that follow the coarse one, every fatal error is on
\* record; and a search never runs with an unreadable encoder.
ErrorsPart ==
  /\ pc = "down" => act.errors \cap FatalErrors = {}
  /\ pc \in {"idle", "coarse"} \cup Stepping => Recorded(act)
  /\ pc \in Searching => 7 \notin act.errors

ErrorInvariant == TypeOK /\ ErrorsPart

LEMMA CopyRecorded ==
  ASSUME NEW s, s.asf = CopyOf(s)
  PROVE  Recorded(s)
BY DEF CopyOf, Recorded

LEMMA SaveRecorded ==
  ASSUME NEW s \in Status, NEW t, t = saveStatusToASF(s)
  PROVE  t.errors = s.errors /\ Recorded(t)
<1>1. t.errors = s.errors /\ t.position = s.position
  BY SaveTyped
<1>2. t.asf = [kind |-> "good", position |-> s.position, errors |-> s.errors]
  BY SaveTyped
<1> QED BY <1>1, <1>2, CopyRecorded DEF CopyOf

\* Loading gives a recorded status, and gives back what was on record.
LEMMA LoadRecorded ==
  ASSUME NEW s \in Status, NEW t, t = loadStatusFromASF(s)
  PROVE  /\ t \in Status /\ Recorded(t)
         /\ Recorded(s) => Keeps(s.errors, t.errors)
<1>1. s.asf \in ASFContents /\ t \in Status
  BY LoadCases DEF Status
<1>2. s.asf.kind \in {"good", "torn", "missing"}
  BY <1>1 DEF ASFContents
<1>3. CASE s.asf.kind = "good"
  <2>1. t.errors = s.asf.errors /\ t.asf = s.asf
    BY <1>3, LoadCases
  <2> QED BY <1>1, <1>3, <2>1 DEF Recorded, Keeps
<1>4. CASE s.asf.kind = "missing"
  <2>1. t.errors = {0} /\ t.asf.kind = "good" /\ t.asf.errors = {0}
    BY <1>4, LoadCases
  <2> QED BY <1>1, <1>4, <2>1 DEF Recorded
<1>5. CASE s.asf.kind = "torn"
  <2>1. t.errors = s.errors \cup {5} /\ t.asf = s.asf
    BY <1>5, LoadCases
  <2> QED BY <1>1, <1>5, <2>1 DEF Recorded, Keeps
<1> QED BY <1>2, <1>3, <1>4, <1>5

\* Recovering adds errors and records what it changes.
LEMMA RecoverRecorded ==
  ASSUME shaft \in Int, NEW s \in Status, Recorded(s),
         NEW r \in recoverPosition(s)
  PROVE  r \in Status /\ Recorded(r) /\ s.errors \subseteq r.errors
<1>1. r \in Status
  BY RecoverTyped
<1>2. CASE r = VoltageFault(s)
  <2>1. /\ setError(s, {7}) \in Status
        /\ setError(s, {7}).errors = s.errors \cup {7}
    BY Codes, ErrorTyped
  <2> QED BY <1>1, <1>2, <2>1, SaveRecorded DEF VoltageFault
<1>3. ASSUME NEW d \in Deviations(s.position, shaft), r = Recovered(s, d),
             r # s
      PROVE  Recorded(r) /\ s.errors \subseteq r.errors
  <2>1. s.position \in Int /\ d \in Int /\ s.position + d \in Int
    BY DeviationsTyped DEF Status
  <2> DEFINE u == setCurrentPosition(s, s.position + d)
  <2>2. u \in Status /\ u.errors = s.errors
    BY <2>1, PlaceTyped
  <2>3. r \in {saveStatusToASF(u), saveStatusToASF(setError(u, {10})),
               saveStatusToASF(setError(s, {9, 0}))}
    BY <1>3 DEF Recovered
  <2> HIDE DEF u
  <2>4. /\ setError(u, {10}) \in Status
        /\ setError(u, {10}).errors = s.errors \cup {10}
        /\ setError(s, {9, 0}) \in Status
        /\ setError(s, {9, 0}).errors = s.errors \cup {9, 0}
    BY <2>2, Codes, ErrorTyped
  <2>5. PICK v \in Status :
          r = saveStatusToASF(v) /\ s.errors \subseteq v.errors
    BY <2>2, <2>3, <2>4
  <2> QED BY <2>5, SaveRecorded
<1> QED BY <1>1, <1>2, <1>3 DEF recoverPosition

LEMMA LoadAndRecoverRecorded ==
  ASSUME shaft \in Int, NEW s \in Status, NEW r \in LoadAndRecover(s)
  PROVE  /\ r \in Status /\ Recorded(r)
         /\ Recorded(s) => Keeps(s.errors, r.errors)
<1> DEFINE t == loadStatusFromASF(s)
<1>1. /\ t \in Status /\ Recorded(t)
      /\ Recorded(s) => Keeps(s.errors, t.errors)
  BY LoadRecorded
<1>2. r \in recoverPosition(t)
  BY DEF LoadAndRecover
<1> HIDE DEF t
<1>3. r \in Status /\ Recorded(r) /\ t.errors \subseteq r.errors
  BY <1>1, <1>2, RecoverRecorded
<1> QED BY <1>1, <1>3 DEF Keeps

\* What configuring adds without saving it is not fatal.
LEMMA InitializeRecorded ==
  ASSUME TypeOK, initialize
  PROVE  /\ act' \in Status /\ Recorded(act')
         /\ Recorded(act) => Keeps(act.errors, act'.errors)
<1>0. act \in Status /\ shaft \in Int
  BY ActuatorAssumption DEF TypeOK
<1> DEFINE t == loadStatusFromASF(act)
<1>1. /\ t \in Status /\ Recorded(t)
      /\ Recorded(act) => Keeps(act.errors, t.errors)
  BY <1>0, LoadRecorded
<1>2. PICK s \in ConfigurationLoaded(t) : act' \in recoverPosition(s)
  BY DEF initialize
<1> HIDE DEF t
<1>3. s \in Status /\ Recorded(s) /\ t.errors \subseteq s.errors
  <2>1. ASSUME NEW v \in Status, t.errors \subseteq v.errors,
               s = saveStatusToASF(v)
        PROVE  s \in Status /\ Recorded(s) /\ t.errors \subseteq s.errors
    BY <2>1, SaveTyped, SaveRecorded
  <2>2. \A e \in DatabaseErrors :
          /\ setError(t, {e}) \in Status
          /\ setError(t, {e}).errors = t.errors \cup {e}
          /\ setError(t, {e}).asf = t.asf
    BY <1>1, Codes, ErrorTyped
  <2>3. CASE s = t
    BY <1>1, <2>3
  <2>4. CASE s = saveStatusToASF(t)
    BY <1>1, <2>1, <2>4
  <2>5. ASSUME NEW e \in DatabaseErrors \cap {2, 3},
               s = saveStatusToASF(setError(t, {e}))
        PROVE  s \in Status /\ Recorded(s) /\ t.errors \subseteq s.errors
    BY <2>1, <2>2, <2>5
  <2>6. ASSUME NEW e \in DatabaseErrors \cap {2}, s = setError(t, {e})
        PROVE  s \in Status /\ Recorded(s) /\ t.errors \subseteq s.errors
    <3>1. 2 \notin FatalErrors
      BY DEF FatalErrors
    <3> QED BY <1>1, <2>2, <2>6, <3>1 DEF Recorded
  <2> QED BY <1>2, <2>3, <2>4, <2>5, <2>6 DEF ConfigurationLoaded
<1>4. act' \in Status /\ Recorded(act') /\ s.errors \subseteq act'.errors
  BY <1>0, <1>2, <1>3, RecoverRecorded
<1> QED BY <1>1, <1>3, <1>4 DEF Keeps

LEMMA EnterStepRecorded ==
  ASSUME TypeOK, Recorded(act),
         NEW steps, NEW next, NEW direction, EnterStep(steps, next, direction)
  PROVE  pc' = "loop" /\ Recorded(act') /\ Keeps(act.errors, act'.errors)
<1>1. act \in Status /\ shaft \in Int
  BY ActuatorAssumption DEF TypeOK
<1> QED BY <1>1, LoadAndRecoverRecorded DEF EnterStep

-----------------------------------------------------------------------------
(* Every step keeps the invariant, and keeps the fatal errors but where an *)
(* operator, a restart or a home that is found clears them.                *)

Clears ==
  \/ clearErrors \/ (\E e \in ErrorCodes : clearError(e))
  \/ SetHomeFromStop \/ HomeReached \/ Crash

Safe == ErrorsPart' /\ (Keeps(act.errors, act'.errors) \/ Clears)

\* A step that ends outside the searches.
LEMMA RestRecorded ==
  ASSUME pc' \in {"idle"} \cup Stepping, Recorded(act')
  PROVE  ErrorsPart'
BY DEF ErrorsPart, Recorded, Searching, Stepping

LEMMA EnvironmentKeeps ==
  ASSUME TypeOK, ErrorsPart, Environment
  PROVE  Safe
<1>0. act \in Status /\ shaft \in Int
  BY ActuatorAssumption DEF TypeOK
<1>1. CASE Start
  <2>1. pc' = "idle" /\ Recorded(act')
    BY <1>1, InitializeRecorded DEF Start
  <2>2. act.errors \cap FatalErrors = {}
    BY <1>1 DEF Start, ErrorsPart
  <2> QED BY <2>1, <2>2, RestRecorded DEF Safe, Keeps
<1>2. CASE Crash
  <2>1. act'.errors = NewErrors /\ pc' = "down"
    BY <1>2 DEF Crash
  <2>2. NewErrors \cap FatalErrors = {}
    BY DEF NewErrors, FatalErrors
  <2>3. ErrorsPart'
    BY <2>1, <2>2 DEF ErrorsPart, Searching, Stepping
  <2> QED BY <1>2, <2>3 DEF Safe, Clears
<1>3. CASE EnableDriver \/ DisableDriver \/ emergencyStop
  BY <1>3 DEF EnableDriver, DisableDriver, emergencyStop, Safe, Keeps,
     ErrorsPart, Recorded
<1>4. CASE turnOn
  <2>1. pc' = "idle" /\ Recorded(act') /\ Recorded(act)
    BY <1>4, InitializeRecorded DEF turnOn, ErrorsPart
  <2>2. Keeps(act.errors, act'.errors)
    BY <1>4, <2>1, InitializeRecorded DEF turnOn
  <2> QED BY <2>1, <2>2, RestRecorded DEF Safe
<1>5. CASE turnOff
  <2>1. act'.errors = act.errors /\ Recorded(act')
    BY <1>0, <1>5, SaveRecorded DEF turnOff
  <2>2. pc' = "idle"
    BY <1>5 DEF turnOff
  <2> QED BY <2>1, <2>2, RestRecorded DEF Safe, Keeps
<1> QED BY <1>1, <1>2, <1>3, <1>4, <1>5 DEF Environment

LEMMA OperatorKeeps ==
  ASSUME "blindProbe" \notin Faults, TypeOK, ErrorsPart, Operator
  PROVE  Safe
<1>0. act \in Status /\ shaft \in Int
  BY ActuatorAssumption DEF TypeOK
<1>1. CASE measureLength
  <2>1. pc' = "idle" /\ Recorded(act)
    BY <1>1 DEF measureLength, ErrorsPart
  <2>2. Recorded(act') /\ Keeps(act.errors, act'.errors)
    BY <1>0, <1>1, <2>1, LoadAndRecoverRecorded DEF measureLength
  <2> QED BY <2>1, <2>2, RestRecorded DEF Safe
<1>2. CASE forceRecover
  <2>1. PICK v \in Status :
          act' = saveStatusToASF(v) /\ act.errors \subseteq v.errors
    <3>1. CASE act' = VoltageFault(act)
      <4>1. /\ setError(act, {7}) \in Status
            /\ setError(act, {7}).errors = act.errors \cup {7}
        BY <1>0, Codes, ErrorTyped
      <4> QED BY <3>1, <4>1 DEF VoltageFault
    <3>2. ASSUME NEW d \in Deviations(act.position, shaft),
                 act' = saveStatusToASF(
                          setCurrentPosition(act, act.position + d))
          PROVE  \E v \in Status :
                   act' = saveStatusToASF(v) /\ act.errors \subseteq v.errors
      <4>1. act.position \in Int /\ d \in Int /\ act.position + d \in Int
        BY <1>0, DeviationsTyped DEF Status
      <4>2. /\ setCurrentPosition(act, act.position + d) \in Status
            /\ setCurrentPosition(act, act.position + d).errors = act.errors
        BY <1>0, <4>1, PlaceTyped
      <4> QED BY <3>2, <4>2
    <3> QED BY <1>2, <3>1, <3>2 DEF forceRecover
  <2>2. act'.errors = v.errors /\ Recorded(act')
    BY <2>1, SaveRecorded
  <2>3. pc' = "idle" /\ Recorded(act') /\ Keeps(act.errors, act'.errors)
    BY <1>2, <2>1, <2>2 DEF forceRecover, Keeps
  <2> QED BY <2>3, RestRecorded DEF Safe
<1>3. CASE clearErrors
  <2>1. unsetError(act, ErrorCodes) \in Status
    BY <1>0, ErrorTyped
  <2>2. Recorded(act') /\ pc' = "idle"
    BY <1>3, <2>1, SaveRecorded DEF clearErrors
  <2> QED BY <1>3, <2>2, RestRecorded DEF Safe, Clears
<1>4. ASSUME NEW e \in ClearRequests, clearError(e) PROVE Safe
  <2>1. e \in ErrorCodes
    BY ActuatorAssumption
  <2>2. act'.errors = act.errors \ {e} /\ act'.asf = act.asf /\ pc' = "idle"
    BY <1>0, <1>4, <2>1, ErrorTyped DEF clearError
  <2>3. Recorded(act')
    BY <1>4, <2>2 DEF clearError, ErrorsPart, Recorded
  <2> QED BY <1>4, <2>1, <2>2, <2>3, RestRecorded DEF Safe, Clears
<1>5. ASSUME NEW n \in StepRequests,
             step(n) \/ moveDeltaLength(n) \/ performHysteresisMotion(n)
      PROVE  Safe
  <2>1. Recorded(act)
    BY <1>5 DEF step, moveDeltaLength, performHysteresisMotion, ErrorsPart
  <2>2. pc' = "loop" /\ Recorded(act') /\ Keeps(act.errors, act'.errors)
    BY <1>5, <2>1, EnterStepRecorded
    DEF step, moveDeltaLength, performHysteresisMotion
  <2> QED BY <2>2, RestRecorded DEF Safe, Stepping
<1>6. ASSUME NEW direction \in {1, -1}, NEW kind \in {"findHome", "probeHome"},
             BeginSearch(direction, kind)
      PROVE  Safe
  <2>1. pc = "idle" /\ pc' = "coarse" /\ UNCHANGED act /\ 7 \notin act.errors
    BY <1>6 DEF BeginSearch, Fatal, FatalErrors
  <2> QED BY <2>1 DEF Safe, Keeps, ErrorsPart, Searching, Stepping, Recorded
<1> QED BY <1>1, <1>2, <1>3, <1>4, <1>5, <1>6 DEF Operator

LEMMA MotionKeeps ==
  ASSUME TypeOK, ErrorsPart, Motion
  PROVE  Safe
<1>0. /\ act \in Status /\ shaft \in Int /\ act.position \in Int
      /\ op.toTake \in Int
  <2>1. act \in Status /\ shaft \in Int /\ op \in Locals
    BY ActuatorAssumption DEF TypeOK
  <2> QED BY <2>1 DEF Status, Locals
<1>1. CASE DriveChunk \/ LeaveLoop \/ FinishStep
  BY <1>1 DEF DriveChunk, LeaveLoop, FinishStep, StepReturns, Safe, Keeps,
     ErrorsPart, Recorded, Stepping, Searching
<1>2. CASE CheckChunk
  <2>1. PICK v \in Status :
          act' = saveStatusToASF(v) /\ act.errors \subseteq v.errors
    <3>1. CASE act' = VoltageFault(act)
      <4>1. /\ setError(act, {7}) \in Status
            /\ setError(act, {7}).errors = act.errors \cup {7}
        BY <1>0, Codes, ErrorTyped
      <4> QED BY <3>1, <4>1 DEF VoltageFault
    <3>2. ASSUME NEW d \in Deviations(act.position - op.toTake, shaft), NEW s,
                 s = setCurrentPosition(act, act.position - (op.toTake - d)),
                 act' \in {saveStatusToASF(setError(s, {6})),
                           saveStatusToASF(setError(s, {8})),
                           saveStatusToASF(s)}
          PROVE  \E v \in Status :
                   act' = saveStatusToASF(v) /\ act.errors \subseteq v.errors
      <4>1. act.position - (op.toTake - d) \in Int
        <5>1. d \in Int
          BY ChunkDeviationTyped
        <5> QED BY <1>0, <5>1
      <4>2. s \in Status /\ s.errors = act.errors
        BY <1>0, <3>2, <4>1, PlaceTyped
      <4>3. /\ setError(s, {6}) \in Status
            /\ setError(s, {6}).errors = s.errors \cup {6}
            /\ setError(s, {8}) \in Status
            /\ setError(s, {8}).errors = s.errors \cup {8}
        BY <4>2, Codes, ErrorTyped
      <4> QED BY <3>2, <4>2, <4>3
    <3> QED BY <1>2, <3>1, <3>2 DEF CheckChunk
  <2>2. act'.errors = v.errors /\ Recorded(act')
    BY <2>1, SaveRecorded
  <2>3. pc' \in Stepping /\ Recorded(act') /\ Keeps(act.errors, act'.errors)
    BY <1>2, <2>1, <2>2
    DEF CheckChunk, StepReturns, Keeps, Stepping
  <2> QED BY <2>3, RestRecorded DEF Safe
<1>3. CASE FinishHysteresis \/ ReturnToStop
  <2>1. Recorded(act)
    BY <1>3 DEF FinishHysteresis, ReturnToStop, ErrorsPart, Stepping
  <2>2. pc' = "loop" /\ Recorded(act') /\ Keeps(act.errors, act'.errors)
    BY <1>3, <2>1, EnterStepRecorded DEF FinishHysteresis, ReturnToStop
  <2> QED BY <2>2, RestRecorded DEF Safe, Stepping
<1>4. CASE StuckAtStop
  <2>1. /\ setError(act, {0}) \in Status
        /\ setError(act, {0}).errors = act.errors \cup {0}
    BY <1>0, Codes, ErrorTyped
  <2>2. act'.errors = act.errors \cup {0} /\ Recorded(act') /\ pc' = "idle"
    BY <1>4, <2>1, SaveRecorded DEF StuckAtStop
  <2> QED BY <2>2, RestRecorded DEF Safe, Keeps
<1> QED BY <1>1, <1>2, <1>3, <1>4 DEF Motion

\* The coarse search ends with the status it has, or begins the fine one.
LEMMA CoarseKeeps ==
  ASSUME TypeOK, ErrorsPart, pc = "coarse",
         \/ UNCHANGED <<act, pc>>
         \/ AbandonSearch(act)
         \/ BeginFineSearch(act)
  PROVE  Safe
<1>1. act \in Status /\ Recorded(act) /\ 7 \notin act.errors
  BY DEF TypeOK, ErrorsPart, Searching
<1>2. CASE UNCHANGED <<act, pc>>
  BY <1>2 DEF Safe, Keeps, ErrorsPart, Recorded
<1>3. CASE AbandonSearch(act)
  <2>1. act' = act /\ pc' = "idle"
    BY <1>3 DEF AbandonSearch
  <2> QED BY <1>1, <2>1, RestRecorded DEF Safe, Keeps
<1>4. CASE BeginFineSearch(act)
  <2>1. act'.errors = act.errors \cup {0} /\ pc' = "fine"
    BY <1>1, <1>4, Codes, ErrorTyped DEF BeginFineSearch
  <2> QED BY <1>1, <2>1 DEF Safe, Keeps, ErrorsPart, Searching, Stepping
<1> QED BY <1>2, <1>3, <1>4

LEMMA SearchKeeps ==
  ASSUME "searchEncoder" \notin Faults, TypeOK, ErrorsPart,
         Search \/ Disturbance
  PROVE  Safe
<1>0. act \in Status /\ shaft \in Int
  BY ActuatorAssumption DEF TypeOK
<1>1. CASE CoarseStep \/ CoarseStopped
  BY <1>1, CoarseKeeps DEF CoarseStep, CoarsePass, CoarseStopped
<1>2. CASE FineStep \/ FineStopped \/ HomingStep
  BY <1>2 DEF FineStep, FineStopped, HomingStep, Homing, Safe, Keeps,
     ErrorsPart, Searching, Stepping
<1>3. CASE SetHomeFromStop
  <2>1. Recorded(act') /\ pc' \in {"idle", "loop"}
    <3>1. PICK s \in Status :
            \/ act' = saveStatusToASF(s) /\ pc' = "idle"
            \/ act' \in LoadAndRecover(s) /\ pc' = "loop"
      <4> DEFINE target == RecordedStop(op.direction)
                 d == checkAngleSlow(PositionOf(target).angle,
                                     ShaftAngle(shaft))
                 u == setCurrentPosition(act, target + d)
      <4>1. op.direction \in {1, -1}
        BY DEF TypeOK, Locals
      <4>2. target \in Int
        BY <4>1, RecordedStopTyped
      <4>3. d \in Int
        BY <1>0, <4>2, DeviationInteger
      <4>4. target + d \in Int
        BY <4>2, <4>3
      <4>5. u \in Status
        BY <1>0, <4>4, PlaceTyped
      <4>6. {act} \cup (IF "searchEncoder" \in Faults
                          THEN {VoltageFault(act)} ELSE {}) = {act}
        OBVIOUS
      <4>7. \/ act' = saveStatusToASF(setError(u, {12})) /\ pc' = "idle"
            \/ /\ act' \in LoadAndRecover(saveStatusToASF(unsetError(u, {0})))
               /\ pc' = "loop"
        BY <1>3, <4>6 DEF SetHomeFromStop
      <4> HIDE DEF u
      <4>8. setError(u, {12}) \in Status /\ unsetError(u, {0}) \in Status
        BY <4>5, Codes, ErrorTyped
      <4>9. saveStatusToASF(unsetError(u, {0})) \in Status
        BY <4>8, SaveTyped
      <4> QED BY <4>7, <4>8, <4>9
    <3> QED BY <1>0, <3>1, SaveRecorded, LoadAndRecoverRecorded
  <2> QED BY <1>3, <2>1, RestRecorded DEF Safe, Clears, Stepping
<1>4. CASE BeginHoming
  <2>1. /\ setError(act, {11}) \in Status
        /\ setError(act, {11}).errors = act.errors \cup {11}
    BY <1>0, Codes, ErrorTyped
  <2>2. saveStatusToASF(setError(act, {11})).errors = act.errors \cup {11}
    BY <2>1, SaveTyped
  <2>3. pc = "fineDone" /\ 7 \notin act.errors
    BY <1>4 DEF BeginHoming, ErrorsPart, Searching
  <2>4. act'.errors \in {act.errors, act.errors \cup {11}} /\ pc' = "homing"
    BY <1>4, <2>2, <2>3 DEF BeginHoming
  <2> QED BY <2>3, <2>4 DEF Safe, Keeps, ErrorsPart, Searching, Stepping
<1>5. CASE HomingStuck
  <2>1. /\ setError(act, {0}) \in Status
        /\ setError(act, {0}).errors = act.errors \cup {0}
    BY <1>0, Codes, ErrorTyped
  <2>2. act'.errors = act.errors \cup {0} /\ Recorded(act') /\ pc' = "idle"
    BY <1>5, <2>1, SaveRecorded DEF HomingStuck, AbandonSearch
  <2> QED BY <2>2, RestRecorded DEF Safe, Keeps
<1>6. CASE HomeReached
  <2>1. PICK e \in {{}, {13}} :
          act' = saveStatusToASF(
                   unsetError(setCurrentPosition(setError(act, e), 0), {0}))
    BY <1>6 DEF HomeReached, AbandonSearch
  <2> DEFINE u == setCurrentPosition(setError(act, e), 0)
  <2>2. setError(act, e) \in Status
    BY <1>0, Codes, ErrorTyped
  <2>3. u \in Status
    BY <2>2, PlaceTyped
  <2> HIDE DEF u
  <2>4. unsetError(u, {0}) \in Status
    BY <2>3, Codes, ErrorTyped
  <2>5. act' = saveStatusToASF(unsetError(u, {0})) /\ pc' = "idle"
    BY <1>6, <2>1 DEF u, HomeReached, AbandonSearch
  <2>6. Recorded(act')
    BY <2>4, <2>5, SaveRecorded
  <2> QED BY <1>6, <2>5, <2>6, RestRecorded DEF Safe, Clears
<1>7. CASE CoarseUnread \/ FineUnread \/ HomingUnread
  BY <1>7 DEF CoarseUnread, FineUnread, HomingUnread
<1> QED BY <1>1, <1>2, <1>3, <1>4, <1>5, <1>6, <1>7 DEF Search, Disturbance

-----------------------------------------------------------------------------
\* A fatal error that has been raised is never lost by reloading the file or by
\* a later motion, as long as the encoder can be read while an end stop is
\* searched (saveStatusToASF, loadStatusFromASF, __step, probeHome).
THEOREM FatalErrorsKept ==
  ASSUME Faults \cap {"searchEncoder", "blindProbe"} = {}
  PROVE  Spec => FatalErrorsPersist
<1>1. Init => ErrorInvariant
  <2> SUFFICES ASSUME Init PROVE ErrorsPart
    BY InitTyped DEF ErrorInvariant
  <2>1. act.errors = NewErrors /\ pc = "down"
    BY DEF Init
  <2> QED BY <2>1 DEF ErrorsPart, Searching, Stepping, NewErrors, FatalErrors
<1>2. ErrorInvariant /\ Next => TypeOK' /\ Safe
  <2> SUFFICES ASSUME ErrorInvariant, Next PROVE TypeOK' /\ Safe
    OBVIOUS
  <2> USE DEF ErrorInvariant
  <2>1. TypeOK'
    BY EnvironmentTyped, OperatorTyped, MotionTyped, SearchTyped,
       DisturbanceTyped
    DEF Next
  <2>2. Safe
    BY EnvironmentKeeps, OperatorKeeps, MotionKeeps, SearchKeeps DEF Next
  <2> QED BY <2>1, <2>2
<1>3. ErrorInvariant /\ [Next]_vars => ErrorInvariant'
  <2>1. CASE UNCHANGED vars
    BY <2>1 DEF vars, ErrorInvariant, TypeOK, ErrorsPart, Recorded
  <2> QED BY <1>2, <2>1 DEF ErrorInvariant, Safe
<1>4. ErrorInvariant /\ [Next]_vars =>
        [(\E e \in FatalErrors : e \in act.errors /\ e \notin act'.errors) =>
           \/ clearErrors \/ (\E e \in ErrorCodes : clearError(e))
           \/ SetHomeFromStop \/ HomeReached \/ Crash]_vars
  BY <1>2 DEF Safe, Keeps, Clears
<1> QED BY <1>1, <1>3, <1>4, PTL DEF Spec, FatalErrorsPersist
=============================================================================
