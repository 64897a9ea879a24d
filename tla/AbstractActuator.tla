--------------------------- MODULE AbstractActuator ---------------------------
(***************************************************************************)
(* What an actuator promises to the platform and to the operator, without  *)
(* encoder, revolutions, status file or error codes: at rest the position  *)
(* it reports is near the true one, a motion goes from an exact position   *)
(* towards its goal in bounded chunks and records each of them exactly,    *)
(* and whenever it cannot keep this it reports no position at all.         *)
(***************************************************************************)
EXTENDS Integers

CONSTANTS
  HalfTurn,        \* a reported position is off by less than HalfTurn / 2
  Chunk,           \* the most steps driven between two records
  Tolerance(_)     \* steps that a chunk may miss without being an error

VARIABLES
  shaft,           \* the true position
  known,           \* a position is reported
  report,          \* the reported position, if known
  phase,           \* "down", "idle", "moving", "driven", "searching"
  goal,            \* where the motion ends
  asked            \* the steps asked of the chunk that is being driven

vars == <<shaft, known, report, phase, goal, asked>>

Near(a, b) == -HalfTurn < 2 * (a - b) /\ 2 * (a - b) < HalfTurn
Within(x, a, b) == (a <= x /\ x <= b) \/ (b <= x /\ x <= a)

\* The two qualities of what is reported after a step.
ReportsNear  == known' \in BOOLEAN /\ (known' => Near(report', shaft'))
ReportsExact == known' \in BOOLEAN /\ (known' => report' = shaft')
ReportsNothing == ~known'

Init == shaft \in Int /\ ~known /\ phase = "down" /\ goal = 0 /\ asked = 0

\* A restart recovers the position from what survived, or reports none.
Restart ==
  /\ phase = "down" /\ phase' = "idle"
  /\ ReportsNear
  /\ UNCHANGED <<shaft, goal, asked>>

Crash ==
  /\ phase' = "down"
  /\ ReportsNothing
  /\ goal' = 0 /\ asked' = 0
  /\ UNCHANGED shaft

\* Measuring, recovering, clearing errors.
Attend ==
  /\ phase = "idle"
  /\ ReportsNear
  /\ UNCHANGED <<shaft, phase, goal, asked>>

\* A motion, or the next one of a sequence, starts from the exact position.
BeginMotion ==
  /\ phase \in {"idle", "moving", "searching"}
  /\ phase' = "moving"
  /\ ReportsExact
  /\ goal' \in Int
  /\ UNCHANGED <<shaft, asked>>

\* A chunk goes towards the goal and not past it.  After an operator has
\* dismissed the loss of the position nothing is promised about where it goes.
Drive ==
  /\ phase = "moving" /\ phase' = "driven"
  /\ asked' \in -Chunk .. Chunk
  /\ Within(shaft', shaft, shaft - asked')
  /\ known => Within(shaft - asked', shaft, goal)
  /\ UNCHANGED <<known, report, goal>>

\* The steps really made are recorded; too many missing ones are an error.
Record ==
  /\ phase = "driven" /\ phase' = "moving"
  /\ ReportsExact
  /\ known' => known /\ Within(report' - (report - asked),
                               -Tolerance(asked), Tolerance(asked))
  /\ asked' = 0
  /\ UNCHANGED <<shaft, goal>>

EndMotion ==
  /\ phase = "moving" /\ phase' = "idle"
  /\ ReportsExact
  /\ known' => known
  /\ goal' = 0
  /\ UNCHANGED <<shaft, asked>>

\* While the actuator looks for home it reports no position.
BeginSearch ==
  /\ phase = "idle" /\ phase' = "searching"
  /\ ReportsNothing
  /\ UNCHANGED <<shaft, goal, asked>>

Search ==
  /\ phase = "searching"
  /\ ReportsNothing
  /\ shaft' \in Int
  /\ UNCHANGED <<phase, goal, asked>>

EndSearch ==
  /\ phase = "searching" /\ phase' = "idle"
  /\ ReportsNear
  /\ UNCHANGED <<shaft, goal, asked>>

Next ==
  \/ Restart \/ Crash \/ Attend
  \/ BeginMotion \/ Drive \/ Record \/ EndMotion
  \/ BeginSearch \/ Search \/ EndSearch

Spec == Init /\ [][Next]_vars
=============================================================================
