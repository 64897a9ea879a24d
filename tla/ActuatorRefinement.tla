-------------------------- MODULE ActuatorRefinement --------------------------
(***************************************************************************)
(* An actuator keeps the promises of AbstractActuator.  It reports a       *)
(* position exactly when it carries no fatal error, no operator has        *)
(* dismissed the loss of it, and it is not looking for home.               *)
(***************************************************************************)
EXTENDS ActuatorInvariant

AbstractPhase ==
  CASE pc \in {"down", "idle"} -> pc
    [] pc \in Searching -> "searching"
    [] pc \in {"loop", "returned"} -> "moving"
    [] pc = "moved" -> "driven"

ReportsPosition ==
  pc \notin Searching \cup {"down"} /\ ~Fatal(act.errors) /\ ~dismissed

Promise == INSTANCE AbstractActuator
  WITH HalfTurn <- StepsPerRevolution, Chunk <- RecordingInterval,
       Tolerance <- TolerableMissed,
       known <- ReportsPosition, report <- act.position,
       phase <- AbstractPhase, goal <- op.final,
       asked <- IF pc = "moved" THEN op.toTake ELSE 0

\* The rest of what the refinement needs: a search has no goal, and the chunks
\* of a motion are full ones towards the goal but for the last.
GoalPart ==
  /\ pc \notin Stepping => op.final = 0
  /\ pc = "loop" /\ ReportsPosition
       /\ Magnitude(StepsRemaining) > RecordingInterval =>
         Magnitude(op.toTake) = RecordingInterval
           /\ (op.toTake > 0 <=> StepsRemaining > 0)
  /\ pc = "moved" /\ ReportsPosition =>
       /\ Promise!Within(act.position - op.toTake, act.position, op.final)
       /\ \/ act.position - op.toTake = op.final
          \/ Magnitude(op.toTake) = RecordingInterval

\* Every step of an actuator is a step the abstract one may make, or leaves
\* what it promises unchanged (Actuator, all operations, without the faults
\* the code does not survive).
Implements == Promise!Spec
=============================================================================
