-------------------------- MODULE ActuatorInvariant --------------------------
(***************************************************************************)
(* The inductive invariant behind the safety properties of an actuator     *)
(* when none of the excluded faults occurs (Faults = {}).                  *)
(***************************************************************************)
EXTENDS Actuator

\* What a position and the flags beside it say: the position tells where the
\* shaft is, or a fatal error says that it does not.
Honest(position, errors) == Located(position) \/ Fatal(errors)
Exact(position, errors) == position = shaft \/ Fatal(errors)

FileHonest(asf) == asf.kind = "good" => Honest(asf.position, asf.errors)

SaysHomeUnknown(errors) == errors \cap HomeUnknown # {}
FileSaysHomeUnknown(asf) == asf.kind = "good" => SaysHomeUnknown(asf.errors)

CopyOf(s) == [kind |-> "good", position |-> s.position, errors |-> s.errors]

\* Outside a search memory and file are honest, and as long as home is being
\* looked for both say so.
IdlePart ==
  /\ pc = "idle" /\ ~dismissed => Honest(act.position, act.errors)
  /\ pc \notin Searching /\ ~dismissed => FileHonest(act.asf)
  /\ pc \notin Searching /\ probing =>
       /\ FileSaysHomeUnknown(act.asf)
       /\ pc # "down" => SaysHomeUnknown(act.errors)

\* Between chunks the position is exact and the file is a copy of memory.
\* During a chunk the shaft is somewhere between the recorded position and the
\* predicted one, and no fatal error is set.
MotionPart ==
  /\ pc \in {"loop", "returned"} /\ ~dismissed =>
       Exact(act.position, act.errors)
  /\ pc \in {"loop", "moved"} =>
       /\ Magnitude(op.toTake) <= RecordingInterval
       /\ ~Fatal(act.errors) => act.asf = CopyOf(act)
  /\ pc = "moved" => ~Fatal(act.errors)
  /\ pc = "moved" /\ ~dismissed =>
       shaft \in Between(act.position, act.position - op.toTake)

\* A search runs with a readable encoder; the fine search runs with error 0
\* set, ends at the hard stop, and homing counts the revolutions left to home.
SearchPart ==
  /\ pc = "coarse" /\ op.next = "findHome" => ~Fatal(act.errors)
  /\ pc \in Searching =>
       /\ 7 \notin act.errors
       /\ op.next \in {"findHome", "probeHome"}
       /\ op.next = "probeHome" => op.direction = 1
       /\ pc # "homing" => op.cycles = 0
  /\ pc \in Searching \ {"coarse"} => 0 \in act.errors
  /\ pc \in {"fine", "homing"} => keepStepping
  /\ pc = "fineDone" => shaft = HardStop(op.direction)

RevolutionsLeft == CyclesDefiningHome - op.cycles

HomingPart ==
  pc = "homing" =>
    /\ op.next = "probeHome"
    /\ op.cycles <= CyclesDefiningHome
    /\ RevolutionsLeft = 0 => shaft = 0
    /\ RevolutionsLeft > 0 =>
         /\ -RevolutionsLeft * StepsPerRevolution <= shaft
         /\ shaft < -(RevolutionsLeft - 1) * StepsPerRevolution

SafetyInvariant == TypeOK /\ IdlePart /\ MotionPart /\ SearchPart /\ HomingPart
==============================================================================
