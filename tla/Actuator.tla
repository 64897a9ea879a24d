------------------------------- MODULE Actuator -------------------------------
(***************************************************************************)
(* One actuator of a panel: a stepper motor, an encoder that shows only    *)
(* the angle within a revolution, and the status file ("ASF") that carries *)
(* the position across restarts (src/common/alignment/actuator.cpp).       *)
(*                                                                         *)
(* One operation runs at a time here; an emergency stop, a driver being    *)
(* disabled and a crash of the process may fall between any two steps of   *)
(* it.  Positions are counted in steps from home: predictNewPosition keeps *)
(* that count exactly (theorem PredictPreservesSteps), so the pair         *)
(* (revolution, angle) is recovered by PositionOf where the code needs it. *)
(***************************************************************************)
EXTENDS ActuatorPosition, FiniteSets

CONSTANTS
  RecordingInterval,        \* steps driven between two records of the position
  FlaggedRecoverySteps,     \* recovering this many steps raises error 10
  MaxRecoverySteps,         \* recovering this many steps is refused
  MinimumMissedSteps,       \* m_MinimumMissedStepsToFlagError
  HysteresisSteps,
  EndstopSearchStepsize,
  EndStopRecoverySteps,
  CyclesDefiningHome,
  ExtendStopPosition, RetractStopPosition,  \* recorded stops, in steps
  ExtendRevolutionLimit, RetractRevolutionLimit,  \* the software range
  InitialPosition,          \* position of a new device and of a default ASF
  ExtendHardStop, RetractHardStop,          \* where the shaft really stops
  StartShaft,               \* where the shaft may be when the model starts
  StepRequests,             \* moves an operator asks for, in steps
  ClearRequests,            \* errors an operator clears one by one
  DatabaseErrors,           \* 1: no database is given; 2, 3: loading from it
                            \* may raise these errors
  Faults                    \* see AllFaults

\* Events that the theorems exclude and that single runs let in:
\*   searchStop     a stop arrives while an end stop is being searched
\*   searchCrash    the process dies during such a search
\*   searchEncoder  the encoder reading fails during such a search
\*   searchStall    the motor slips or loses its driver during such a search
\*   blindProbe     probeHome is called although error 7 is already set
\*   staleRead      the slot past the calibration table matches the voltage
AllFaults == {"searchStop", "searchCrash", "searchEncoder", "searchStall",
              "blindProbe", "staleRead"}

ErrorCodes  == 0 .. 13
FatalErrors == {0} \cup 3 .. 9
\* home is not calibrated, or the file that would say so could not be read
HomeUnknown == {0, 5}

ASSUME ActuatorAssumption ==
  /\ RecordingInterval \in Nat \ {0}
  /\ 2 * RecordingInterval < StepsPerRevolution
  /\ FlaggedRecoverySteps \in Nat \ {0}
  /\ MaxRecoverySteps \in Nat
  /\ FlaggedRecoverySteps <= MaxRecoverySteps
  /\ MinimumMissedSteps \in Nat
  /\ HysteresisSteps \in Nat
  /\ EndstopSearchStepsize \in Nat \ {0}
  /\ 2 * EndstopSearchStepsize < StepsPerRevolution
  /\ EndStopRecoverySteps \in Nat
  /\ CyclesDefiningHome \in Nat \ {0}
  /\ ExtendStopPosition \in Int
  /\ RetractStopPosition \in Int
  /\ ExtendRevolutionLimit \in Int /\ RetractRevolutionLimit \in Int
  /\ InitialPosition \in Int
  /\ ExtendHardStop \in Int /\ RetractHardStop \in Int
  /\ ExtendHardStop < RetractHardStop
  \* the recorded stops are within half a revolution of the real ones
  /\ 2 * Magnitude(ExtendHardStop - ExtendStopPosition) < StepsPerRevolution
  /\ 2 * Magnitude(RetractHardStop - RetractStopPosition) < StepsPerRevolution
  \* counting CyclesDefiningHome wraps from the extend stop ends at home
  /\ ExtendHardStop < -(CyclesDefiningHome - 1) * StepsPerRevolution
  /\ -CyclesDefiningHome * StepsPerRevolution <= ExtendHardStop
  /\ 0 <= RetractHardStop
  /\ StartShaft \subseteq ExtendHardStop .. RetractHardStop
  /\ StepRequests \subseteq Int
  /\ ClearRequests \subseteq ErrorCodes
  /\ DatabaseErrors \subseteq {1, 2, 3}
  /\ Faults \subseteq AllFaults

VARIABLES
  shaft,         \* where the shaft really is; no code can read it
  act,           \* m_CurrentPosition, m_Errors and the contents of the ASF
  keepStepping,  \* m_keepStepping
  enabled,       \* the driver of this actuator is enabled (isOn)
  pc,            \* what the running operation does next
  op,            \* its local variables
  dismissed,     \* history: an operator cleared the fatal errors of a lost
                 \* position, and home has not been found since
  probing        \* history: __probeEndStop has begun a search for home that
                 \* has not reached what it looks for

vars == <<shaft, act, keepStepping, enabled, pc, op, dismissed, probing>>

ASFContents == [kind : {"good", "torn", "missing"},
                position : Int, errors : SUBSET ErrorCodes]
Status == [position : Int, errors : SUBSET ErrorCodes, asf : ASFContents]

Searching == {"coarse", "fine", "fineDone", "homing"}
Stepping  == {"loop", "moved", "returned"}
Phases    == {"down", "idle"} \cup Searching \cup Stepping

\* What follows when __step returns, and which search is running.
Continuations == {"done", "hysteresis", "leaveStop", "findHome", "probeHome"}

Locals == [final : Int, toTake : Int, remaining : Int, next : Continuations,
           direction : {1, -1}, cycles : Nat]

NoLocals == [final |-> 0, toTake |-> 0, remaining |-> 0, next |-> "done",
             direction |-> 1, cycles |-> 0]

Fatal(errors) == errors \cap FatalErrors # {}

-----------------------------------------------------------------------------
(* The helpers of the class.  Each takes and gives the status of the       *)
(* device, so that an action can chain them the way the code calls them.   *)

EmptyASF(kind) == [kind |-> kind, position |-> 0, errors |-> {}]

setError(s, codes) == [s EXCEPT !.errors = @ \cup codes]
unsetError(s, codes) == [s EXCEPT !.errors = @ \ codes]
setCurrentPosition(s, n) == [s EXCEPT !.position = n]

saveStatusToASF(s) ==
  [s EXCEPT !.asf = [kind |-> "good", position |-> s.position,
                     errors |-> s.errors]]

\* Error: the default file does not say that home is unknown.
LoadDefaultWithoutError(s) ==
  CASE s.asf.kind = "good" ->
         [s EXCEPT !.position = s.asf.position, !.errors = s.asf.errors]
    [] s.asf.kind = "missing" ->
         saveStatusToASF([s EXCEPT !.position = InitialPosition, !.errors = {}])
    [] s.asf.kind = "torn" -> setError(s, {5})

\* A missing file is replaced by a default one that says home is not known; a
\* torn one raises error 5 and leaves the status in memory as it was.
loadStatusFromASF(s) ==
  CASE s.asf.kind = "good" ->
         [s EXCEPT !.position = s.asf.position, !.errors = s.asf.errors]
    [] s.asf.kind = "missing" ->
         [position |-> InitialPosition, errors |-> {0},
          asf |-> [kind |-> "good", position |-> InitialPosition,
                   errors |-> {0}]]
    [] s.asf.kind = "torn" -> setError(s, {5})

\* __readVoltage with a standard deviation that stays too high.
VoltageFault(s) == saveStatusToASF(setError(s, {7}))

\* checkAngleQuick against the shaft at position "at".
Deviations(expected, at) ==
  { checkAngleQuick(PositionOf(expected).angle, ShaftAngle(at), stale) :
      stale \in IF "staleRead" \in Faults THEN BOOLEAN ELSE {FALSE} }

\* Error: a recovered position is not recorded.
RecoveredUnsaved(s, d) ==
  IF d = 0 THEN s
  ELSE IF Magnitude(d) < MaxRecoverySteps
    THEN setCurrentPosition(s, s.position + d)
  ELSE saveStatusToASF(setError(s, {9, 0}))

\* recoverPosition once a deviation d has been measured.
Recovered(s, d) ==
  IF d = 0 THEN s
  ELSE IF Magnitude(d) < FlaggedRecoverySteps
    THEN saveStatusToASF(setCurrentPosition(s, s.position + d))
  ELSE IF Magnitude(d) < MaxRecoverySteps
    THEN saveStatusToASF(setError(setCurrentPosition(s, s.position + d), {10}))
  ELSE saveStatusToASF(setError(s, {9, 0}))

recoverPosition(s) ==
  {VoltageFault(s)} \cup
  (IF 7 \in s.errors THEN {s}
   ELSE { Recovered(s, d) : d \in Deviations(s.position, shaft) })

\* Error: the position is loaded but not compared with the encoder.
LoadOnly(s) == {loadStatusFromASF(s)}

LoadAndRecover(s) == recoverPosition(loadStatusFromASF(s))

\* Error: nothing bounds the travel.
Unbounded(n) == n

\* driver.step: the motor may lose any of the steps, and the mechanical stops
\* bound the travel.  Positive steps extend, which lowers the counter.
WithinStops(n) ==
  IF n < ExtendHardStop THEN ExtendHardStop
  ELSE IF n > RetractHardStop THEN RetractHardStop ELSE n

Between(a, b) == IF a <= b THEN a .. b ELSE b .. a

DrivenTo(steps) ==
  IF enabled THEN { WithinStops(shaft - n) : n \in Between(0, steps) }
             ELSE {shaft}

TolerableMissed(toTake) ==
  IF Magnitude(toTake) \div 10 > MinimumMissedSteps
    THEN Magnitude(toTake) \div 10 ELSE MinimumMissedSteps

StepsRemaining == act.position - op.final

\* The recorded position is less than half a revolution from the truth, so
\* that one encoder reading tells where the shaft is.
Located(position) == 2 * Magnitude(shaft - position) < StepsPerRevolution

-----------------------------------------------------------------------------
(* Power, database and operator *)

\* The ways loadConfigurationAndCalibration ends.  Error 1 stops it at once,
\* also when that error comes from the file.
ConfigurationLoaded(s) ==
  IF 1 \in s.errors THEN {s}
  ELSE {saveStatusToASF(s)}
       \cup { setError(s, {e}) : e \in DatabaseErrors \cap {2} }
       \cup { saveStatusToASF(setError(s, {e})) :
                e \in DatabaseErrors \cap {2, 3} }

\* The errors of a device that has just been constructed.
NewErrors == DatabaseErrors \cap {1}

initialize ==
  \E s \in ConfigurationLoaded(loadStatusFromASF(act)) :
    act' \in recoverPosition(s)

\* The process starts.
Start ==
  /\ pc = "down"
  /\ initialize
  /\ pc' = "idle"
  /\ keepStepping' = TRUE
  /\ UNCHANGED <<shaft, enabled, op, dismissed, probing>>

\* The process dies; only the ASF survives.  If it dies inside
\* saveStatusToASF, the file may have been truncated and not yet written.
Crash ==
  /\ pc # "down"
  /\ pc \in Searching => "searchCrash" \in Faults
  /\ \E file \in {act.asf, EmptyASF("torn")} :
       act' = [position |-> InitialPosition, errors |-> NewErrors, asf |-> file]
  /\ pc' = "down"
  /\ op' = NoLocals
  /\ enabled' = FALSE
  /\ UNCHANGED <<shaft, keepStepping, dismissed, probing>>

\* turnOn does not touch the driver; it initializes again.
turnOn ==
  /\ pc = "idle" /\ ~enabled
  /\ initialize
  /\ UNCHANGED <<shaft, keepStepping, enabled, pc, op, dismissed, probing>>

turnOff ==
  /\ pc = "idle" /\ enabled
  /\ act' = saveStatusToASF(act)
  /\ enabled' = FALSE
  /\ UNCHANGED <<shaft, keepStepping, pc, op, dismissed, probing>>

\* The platform's enableAll at the beginning of a motion.
EnableDriver ==
  /\ pc = "idle" /\ ~enabled
  /\ enabled' = TRUE
  /\ UNCHANGED <<shaft, act, keepStepping, pc, op, dismissed, probing>>

\* The platform's disableAll, perhaps at the end of another motion, or its
\* power going down.
DisableDriver ==
  /\ enabled
  /\ pc \in Searching => "searchStall" \in Faults
  /\ enabled' = FALSE
  /\ UNCHANGED <<shaft, act, keepStepping, pc, op, dismissed, probing>>

emergencyStop ==
  /\ pc \in Stepping \cup Searching /\ keepStepping
  /\ pc \in Searching => "searchStop" \in Faults
  /\ keepStepping' = FALSE
  /\ UNCHANGED <<shaft, act, enabled, pc, op, dismissed, probing>>

measureLength ==
  /\ pc = "idle"
  /\ act' \in LoadAndRecover(act)
  /\ UNCHANGED <<shaft, keepStepping, enabled, pc, op, dismissed, probing>>

forceRecover ==
  /\ pc = "idle"
  /\ \/ act' = VoltageFault(act)
     \/ /\ 7 \notin act.errors
        /\ \E d \in Deviations(act.position, shaft) :
             act' = saveStatusToASF(setCurrentPosition(act, act.position + d))
  /\ UNCHANGED <<shaft, keepStepping, enabled, pc, op, dismissed, probing>>

Dismisses(errors) == Fatal(errors) /\ ~Located(act.position)

clearErrors ==
  /\ pc = "idle" /\ act.errors # {}
  /\ act' = saveStatusToASF(unsetError(act, ErrorCodes))
  /\ dismissed' = (dismissed \/ Dismisses(act.errors))
  /\ probing' = (probing /\ act.errors \cap HomeUnknown = {})
  /\ UNCHANGED <<shaft, keepStepping, enabled, pc, op>>

\* unsetError changes the flags in memory only.
clearError(e) ==
  /\ pc = "idle" /\ e \in act.errors
  /\ act' = unsetError(act, {e})
  /\ dismissed' = (dismissed \/ Dismisses({e}))
  /\ probing' = (probing /\ e \notin HomeUnknown)
  /\ UNCHANGED <<shaft, keepStepping, enabled, pc, op>>

-----------------------------------------------------------------------------
(* Moving by a number of steps: __step *)

\* Entry of __step: reload the file, reconcile with the encoder, set the goal
\* and allow stepping, whatever an earlier stop had asked for.
EnterStep(steps, next, direction) ==
  /\ act' \in LoadAndRecover(act)
  /\ op' = [final     |-> act'.position - steps,
            toTake    |-> IF steps < 0 THEN -RecordingInterval
                                       ELSE RecordingInterval,
            remaining |-> 0, next |-> next, direction |-> direction,
            cycles    |-> 0]
  /\ keepStepping' = TRUE
  /\ pc' = "loop"

\* The platform, which makes every such request, refuses one whose goal lies
\* outside the software range (Platform::__step).
InSoftwareRange(goal) ==
  LET revolution == PositionOf(goal).revolution
  IN  revolution >= ExtendRevolutionLimit /\ revolution < RetractRevolutionLimit

step(steps) ==
  /\ pc = "idle" /\ ~Fatal(act.errors) /\ enabled
  /\ InSoftwareRange(act.position - steps)
  /\ EnterStep(steps, "done", 1)
  /\ UNCHANGED <<shaft, enabled, dismissed, probing>>

\* moveDeltaLength and moveToLength do not look at the error state first.
moveDeltaLength(steps) ==
  /\ pc = "idle" /\ InSoftwareRange(act.position - steps)
  /\ EnterStep(steps, "done", 1)
  /\ UNCHANGED <<shaft, enabled, dismissed, probing>>

performHysteresisMotion(steps) ==
  /\ pc = "idle" /\ InSoftwareRange(act.position - steps)
  /\ EnterStep(steps - HysteresisSteps, "hysteresis", 1)
  /\ UNCHANGED <<shaft, enabled, dismissed, probing>>

MayStep == keepStepping /\ ~Fatal(act.errors) /\ enabled

\* Error: the whole motion is driven before anything is recorded.
DriveUnrecorded ==
  /\ pc = "loop" /\ MayStep
  /\ shaft' \in DrivenTo(StepsRemaining)
  /\ op' = [op EXCEPT !.toTake = StepsRemaining]
  /\ keepStepping' = FALSE
  /\ pc' = "moved"
  /\ UNCHANGED <<act, enabled, dismissed, probing>>

\* One pass of the loop up to driver.step: the last chunk ends the loop.
DriveChunk ==
  /\ pc = "loop" /\ MayStep
  /\ LET last   == Magnitude(StepsRemaining) <= RecordingInterval
         toTake == IF last THEN StepsRemaining ELSE op.toTake
     IN  /\ shaft' \in DrivenTo(toTake)
         /\ op' = [op EXCEPT !.toTake = toTake]
         /\ keepStepping' = ~last
  /\ pc' = "moved"
  /\ UNCHANGED <<act, enabled, dismissed, probing>>

StepReturns(remaining) ==
  /\ pc' = "returned"
  /\ op' = [op EXCEPT !.remaining = remaining]

\* The rest of the pass: compare the encoder with the predicted position,
\* take the steps really made, record them.
CheckChunk ==
  /\ pc = "moved"
  /\ \/ /\ act' = VoltageFault(act)
        /\ StepReturns(StepsRemaining)
     \/ \E d \in Deviations(act.position - op.toTake, shaft) :
          LET taken == op.toTake - d
              s     == setCurrentPosition(act, act.position - taken)
          IN  \/ /\ taken = 0 /\ Magnitude(op.toTake) > MinimumMissedSteps
                 /\ act' = saveStatusToASF(setError(s, {6}))
                 /\ StepReturns(StepsRemaining)
              \/ /\ ~(taken = 0 /\ Magnitude(op.toTake) > MinimumMissedSteps)
                 /\ Magnitude(d) > TolerableMissed(op.toTake)
                 /\ act' = saveStatusToASF(setError(s, {8}))
                 /\ StepReturns(StepsRemaining)
              \/ /\ ~(taken = 0 /\ Magnitude(op.toTake) > MinimumMissedSteps)
                 /\ Magnitude(d) <= TolerableMissed(op.toTake)
                 /\ act' = saveStatusToASF(s)
                 /\ pc' = "loop"
                 /\ UNCHANGED op
  /\ UNCHANGED <<shaft, keepStepping, enabled, dismissed, probing>>

LeaveLoop ==
  /\ pc = "loop" /\ ~MayStep
  /\ StepReturns(StepsRemaining)
  /\ UNCHANGED <<shaft, act, keepStepping, enabled, dismissed, probing>>

FinishStep ==
  /\ pc = "returned" /\ op.next = "done"
  /\ pc' = "idle"
  /\ op' = NoLocals
  /\ UNCHANGED <<shaft, act, keepStepping, enabled, dismissed, probing>>

\* The second half of a hysteresis motion, also after a stop of the first.
FinishHysteresis ==
  /\ pc = "returned" /\ op.next = "hysteresis"
  /\ EnterStep(HysteresisSteps + op.remaining, "done", 1)
  /\ UNCHANGED <<shaft, enabled, dismissed, probing>>

\* Error: the error is set in memory and not recorded.
StuckUnsaved ==
  /\ pc = "returned" /\ op.next = "leaveStop"
  /\ Magnitude(op.remaining) > RecordingInterval \div 2
  /\ act' = setError(act, {0})
  /\ pc' = "idle"
  /\ op' = NoLocals
  /\ UNCHANGED <<shaft, keepStepping, enabled, dismissed, probing>>

\* After home has been set at an end stop the actuator steps away from it and
\* back, to see that it is not stuck there.
StuckAtStop ==
  /\ pc = "returned" /\ op.next = "leaveStop"
  /\ Magnitude(op.remaining) > RecordingInterval \div 2
  /\ act' = saveStatusToASF(setError(act, {0}))
  /\ pc' = "idle"
  /\ op' = NoLocals
  /\ UNCHANGED <<shaft, keepStepping, enabled, dismissed, probing>>

ReturnToStop ==
  /\ pc = "returned" /\ op.next = "leaveStop"
  /\ Magnitude(op.remaining) <= RecordingInterval \div 2
  /\ EnterStep(op.direction * RecordingInterval, "done", 1)
  /\ UNCHANGED <<shaft, enabled, dismissed, probing>>

-----------------------------------------------------------------------------
(* Finding home: the platform drives to the end stop, then the actuator    *)
(* searches it again and takes its position from it                        *)

SearchMoves(direction) ==
  IF "searchStall" \in Faults
    THEN DrivenTo(direction * EndstopSearchStepsize)
    ELSE {WithinStops(shaft - direction * EndstopSearchStepsize)}

\* Error: the end of the travel is never noticed.
NeverAtStop(before, after) == FALSE

\* The voltage changed by less than half of what the steps should change.
AtStop(before, after) ==
  2 * Magnitude(ShaftAngle(after) - ShaftAngle(before)) < EndstopSearchStepsize

BeginSearch(direction, kind) ==
  /\ pc = "idle"
  /\ kind = "findHome" => ~Fatal(act.errors)
  /\ kind = "probeHome" => /\ direction = 1
                           /\ 7 \in act.errors => "blindProbe" \in Faults
  /\ enabled' = TRUE
  /\ op' = [NoLocals EXCEPT !.next = kind, !.direction = direction]
  /\ pc' = "coarse"
  /\ UNCHANGED <<shaft, act, keepStepping, dismissed, probing>>

\* Error: the search begins without error 0.
BeginFineSilently(s) ==
  /\ act' = s
  /\ keepStepping' = TRUE
  /\ probing' = TRUE
  /\ pc' = IF 7 \in s.errors THEN "fineDone" ELSE "fine"

\* __probeEndStop begins: home is unknown from here on, in memory.
BeginFineSearch(s) ==
  /\ act' = setError(s, {0})
  /\ keepStepping' = TRUE
  /\ probing' = TRUE
  /\ pc' = IF 7 \in s.errors THEN "fineDone" ELSE "fine"

AbandonSearch(s) ==
  /\ act' = s
  /\ pc' = "idle"
  /\ op' = NoLocals
  /\ enabled' = FALSE

\* One pass of Platform::__probeEndStopAll for this actuator, s being what the
\* reading of the encoder leaves of its status.
CoarsePass(s) ==
  /\ pc = "coarse"
  /\ \E to \in SearchMoves(op.direction) :
       /\ shaft' = to
       /\ \/ ~AtStop(shaft, to) /\ act' = s
             /\ UNCHANGED <<pc, op, keepStepping, enabled, probing>>
          \/ AtStop(shaft, to)
             /\ IF op.next = "findHome" /\ Fatal(s.errors)
                  THEN AbandonSearch(s) /\ UNCHANGED <<keepStepping, probing>>
                  ELSE BeginFineSearch(s) /\ UNCHANGED <<op, enabled>>
  /\ UNCHANGED dismissed

CoarseStep == CoarsePass(act)
CoarseUnread == "searchEncoder" \in Faults /\ CoarsePass(VoltageFault(act))

\* The platform is switched off during __probeEndStopAll: finding home gives
\* up where it stands, probing home goes on with the next search.
CoarseStopped ==
  /\ pc = "coarse" /\ "searchStop" \in Faults
  /\ IF op.next = "findHome"
       THEN AbandonSearch(act) /\ UNCHANGED <<keepStepping, probing>>
       ELSE BeginFineSearch(act) /\ UNCHANGED <<op, enabled>>
  /\ UNCHANGED <<shaft, dismissed>>

\* One pass of the loop of __probeEndStop.
FineStep ==
  /\ pc = "fine" /\ keepStepping
  /\ shaft' \in SearchMoves(op.direction)
  /\ pc' = IF AtStop(shaft, shaft') THEN "fineDone" ELSE "fine"
  /\ UNCHANGED <<act, keepStepping, enabled, op, dismissed, probing>>

FineUnread ==
  /\ pc = "fine" /\ keepStepping /\ "searchEncoder" \in Faults
  /\ shaft' \in SearchMoves(op.direction)
  /\ act' = VoltageFault(act)
  /\ pc' = "fineDone"
  /\ UNCHANGED <<keepStepping, enabled, op, dismissed, probing>>

FineStopped ==
  /\ pc = "fine" /\ ~keepStepping
  /\ pc' = "fineDone"
  /\ UNCHANGED <<shaft, act, keepStepping, enabled, op, dismissed, probing>>

RecordedStop(direction) ==
  IF direction = 1 THEN ExtendStopPosition ELSE RetractStopPosition

HardStop(direction) ==
  IF direction = 1 THEN ExtendHardStop ELSE RetractHardStop

\* __findHomeFromEndStop after the search: take the position from the stop.
SetHomeFromStop ==
  /\ pc = "fineDone" /\ op.next = "findHome"
  /\ \E read \in {act} \cup (IF "searchEncoder" \in Faults
                              THEN {VoltageFault(act)} ELSE {}) :
     LET target == RecordedStop(op.direction)
         d == checkAngleSlow(PositionOf(target).angle, ShaftAngle(shaft))
         s == setCurrentPosition(read, target + d)
     IN  IF Magnitude(d) > EndStopRecoverySteps
           THEN /\ act' = saveStatusToASF(setError(s, {12}))
                /\ pc' = "idle"
                /\ op' = NoLocals
                /\ UNCHANGED <<keepStepping, dismissed, probing>>
           ELSE LET home  == saveStatusToASF(unsetError(s, {0}))
                    steps == -op.direction * RecordingInterval
                IN  /\ act' \in LoadAndRecover(home)
                    /\ op' = [NoLocals EXCEPT
                                !.final = act'.position - steps,
                                !.toTake = steps,
                                !.next = "leaveStop",
                                !.direction = op.direction]
                    /\ keepStepping' = TRUE
                    /\ pc' = "loop"
                    /\ dismissed' = FALSE
                    /\ probing' = (probing /\ shaft # HardStop(op.direction))
  /\ UNCHANGED <<shaft, enabled>>

\* probeHome after the search of the extend stop: retract one step at a time.
BeginHoming ==
  /\ pc = "fineDone" /\ op.next = "probeHome"
  /\ LET angle == ShaftAngle(shaft)
         midRange == /\ 4 * angle >= StepsPerRevolution
                     /\ 4 * angle <= 3 * StepsPerRevolution
     IN  IF 7 \in act.errors THEN AbandonSearch(act) /\ UNCHANGED keepStepping
         ELSE /\ act' = IF midRange THEN act
                        ELSE saveStatusToASF(setError(act, {11}))
              /\ keepStepping' = TRUE
              /\ pc' = "homing"
              /\ UNCHANGED <<op, enabled>>
  /\ UNCHANGED <<shaft, dismissed, probing>>

NotReachedHome == op.cycles < CyclesDefiningHome

Homing == pc = "homing" /\ NotReachedHome /\ keepStepping

\* One pass of the loop of probeHome; the angle wraps once per revolution.
HomingStep ==
  /\ Homing
  /\ shaft' = WithinStops(shaft + 1)
  /\ op' = [op EXCEPT !.cycles =
              IF ShaftAngle(shaft') < ShaftAngle(shaft) THEN @ + 1 ELSE @]
  /\ UNCHANGED <<act, pc, keepStepping, enabled, dismissed, probing>>

\* The voltage went down by less than a wrap.  Without a stall that takes a
\* shaft that stands at the other stop, and the noise of two equal readings.
HomingStuck ==
  /\ Homing
  /\ shaft = RetractHardStop \/ "searchStall" \in Faults
  /\ AbandonSearch(saveStatusToASF(setError(act, {0})))
  /\ UNCHANGED <<shaft, keepStepping, dismissed, probing>>

HomingUnread ==
  /\ Homing /\ "searchEncoder" \in Faults
  /\ AbandonSearch(VoltageFault(act))
  /\ shaft' = WithinStops(shaft + 1)
  /\ UNCHANGED <<keepStepping, dismissed, probing>>

\* Home is declared where the loop of probeHome ended.  Error 13 compares the
\* number of steps with the recorded stop, which is not counted here.
HomeReached ==
  /\ pc = "homing" /\ ~(NotReachedHome /\ keepStepping)
  /\ \E e \in {{}, {13}} :
       AbandonSearch(saveStatusToASF(
         unsetError(setCurrentPosition(setError(act, e), 0), {0})))
  /\ dismissed' = FALSE
  /\ probing' = (probing /\ shaft # 0)
  /\ UNCHANGED <<shaft, keepStepping>>

-----------------------------------------------------------------------------
\* A new actuator has no ASF; an old one has a file that says where it is.
Init ==
  /\ shaft \in StartShaft
  /\ \E file \in {EmptyASF("missing"),
                  [kind |-> "good", position |-> shaft, errors |-> {}]} :
       act = [position |-> InitialPosition, errors |-> NewErrors, asf |-> file]
  /\ keepStepping = TRUE
  /\ enabled = FALSE
  /\ pc = "down"
  /\ op = NoLocals
  /\ dismissed = FALSE
  /\ probing = FALSE

Environment ==
  \/ Start \/ Crash \/ EnableDriver \/ DisableDriver \/ emergencyStop
  \/ turnOn \/ turnOff

Operator ==
  \/ measureLength \/ forceRecover \/ clearErrors
  \/ \E e \in ClearRequests : clearError(e)
  \/ \E n \in StepRequests :
       step(n) \/ moveDeltaLength(n) \/ performHysteresisMotion(n)
  \/ \E direction \in {1, -1}, kind \in {"findHome", "probeHome"} :
       BeginSearch(direction, kind)

Motion ==
  \/ DriveChunk \/ CheckChunk \/ LeaveLoop \/ FinishStep \/ FinishHysteresis
  \/ StuckAtStop \/ ReturnToStop

Search ==
  \/ CoarseStep \/ FineStep \/ FineStopped
  \/ SetHomeFromStop \/ BeginHoming \/ HomingStep \/ HomingStuck \/ HomeReached

Disturbance ==
  \/ CoarseStopped \/ CoarseUnread \/ FineUnread \/ HomingUnread

Next == Environment \/ Operator \/ Motion \/ Search \/ Disturbance

Spec == Init /\ [][Next]_vars

\* A thread that is running an operation is not suspended for ever; nobody is
\* bound to stop or to disturb it.
FairSpec == Spec /\ WF_vars(Motion) /\ WF_vars(Search)

-----------------------------------------------------------------------------
(* Properties *)

TypeOK ==
  /\ shaft \in ExtendHardStop .. RetractHardStop
  /\ act \in Status
  /\ keepStepping \in BOOLEAN
  /\ enabled \in BOOLEAN
  /\ pc \in Phases
  /\ op \in Locals
  /\ dismissed \in BOOLEAN
  /\ probing \in BOOLEAN

\* An idle actuator without a fatal error knows where it is: the position it
\* reports is less than half a revolution from the shaft, whatever crashes,
\* torn files, missed steps, stops and unreadable encoders came before
\* (recoverPosition, saveStatusToASF, __step).
NoSilentMislocation ==
  pc = "idle" /\ ~Fatal(act.errors) /\ ~dismissed => Located(act.position)

\* A motion never drives its next chunk from a position that is off by even
\* one step: every chunk starts reconciled with the encoder (__step).
StepsFromTruth ==
  pc = "loop" /\ MayStep /\ ~dismissed => act.position = shaft

\* What survives a crash is enough to recover from: outside an end stop
\* search, a file without a fatal error is less than half a revolution off,
\* also while a chunk is being driven and not yet recorded.
FileLocates ==
  pc \notin Searching /\ act.asf.kind = "good" /\ ~Fatal(act.asf.errors)
    /\ ~dismissed => Located(act.asf.position)

\* The comment in __probeEndStop: "Set home position not found error until
\* probe home is complete".  An idle actuator whose search for home has begun
\* and not ended says so: it carries error 0, or error 5 if its file was torn.
HomeErrorUntilProbeComplete ==
  pc = "idle" /\ probing => act.errors \cap HomeUnknown # {}

\* A fatal error that has been raised is never lost by reloading the file or
\* by a later motion: only an operator, a restart or a home found clears it.
FatalErrorsPersist ==
  [][(\E e \in FatalErrors : e \in act.errors /\ e \notin act'.errors) =>
       \/ clearErrors \/ (\E e \in ErrorCodes : clearError(e))
       \/ SetHomeFromStop \/ HomeReached \/ Crash]_vars

\* Every operation comes to an end, also when the motor loses steps, the
\* encoder fails or the actuator is stopped (__step, __probeEndStop,
\* probeHome, Platform::__probeEndStopAll).
OperationsEnd == pc \notin {"down", "idle"} ~> pc \in {"down", "idle"}
=============================================================================
