------------------------------- MODULE Platform -------------------------------
(***************************************************************************)
(* The platform of a panel (src/common/alignment/platform.cpp) behind the  *)
(* methods of its server objects (src/server/controllers/panelcontroller   *)
(* and actcontroller).  Every method runs in a thread of its own, here a   *)
(* "caller", and nothing but the state of the device guards it.            *)
(*                                                                         *)
(* An actuator is what the platform sees of it: a recorded position, a     *)
(* fatal error, a busy flag and a driver.  Module Actuator is about what   *)
(* goes on inside of one.                                                  *)
(***************************************************************************)
EXTENDS Integers, FiniteSets, FiniteSetsExt

CONSTANTS
  NumActuators,         \* NUM_ACTS_PER_PLATFORM
  RecordingInterval,
  Tolerance,            \* steps a chunk may miss without an error
  MinPosition, MaxPosition,   \* the software range
  StopPosition,         \* the recorded position of the end stop, and the start
  ZeroLength,           \* position of the length zero, far out of the range
  OwedBound,            \* bound of the steps a motion keeps a note of
  Callers,              \* threads that run methods
  MethodsOf,            \* the methods each caller may call
  Deltas, Targets,      \* arguments of moves, by actuator
  Race                  \* TRUE: two calls may pass the guard before either
                        \* of them has locked the device

Actuators == 1 .. NumActuators
Moves == {"MoveDeltaLengths", "MoveToLengths"}
ActMoves == {"ActMoveDelta", "ActMoveToLength"}
Clears == {"ClearAllErrors", "ClearActuatorErrors", "ClearPlatformErrors"}
PanelMethods == Moves \cup Clears \cup {"Stop", "TurnOn", "TurnOff", "FindHome"}
ActMethods == ActMoves \cup {"ActTurnOff", "ActClearAllErrors"}
Methods == PanelMethods \cup ActMethods

ASSUME PlatformAssumption ==
  /\ NumActuators \in Nat \ {0}
  /\ RecordingInterval \in Nat \ {0}
  /\ Tolerance \in 0 .. RecordingInterval - 1
  /\ MinPosition \in Int /\ MaxPosition \in Int
  /\ StopPosition \in MinPosition .. MaxPosition - 1
  /\ ZeroLength \in Int /\ ZeroLength >= MaxPosition
  /\ OwedBound \in Nat /\ OwedBound > RecordingInterval
  /\ MethodsOf \in [Callers -> SUBSET Methods]
  /\ Deltas \subseteq [Actuators -> Int]
  /\ Targets \subseteq [Actuators -> Int]
  /\ Race \in BOOLEAN

VARIABLES
  on,         \* m_On
  powered,    \* powerUp and powerDown of the board
  busy,       \* m_Busy of the platform
  latched,    \* the fatal errors of the platform: that of an actuator by the
              \* actuator, error 12 as OutOfRange
  act,        \* the actuators
  pc,         \* what each caller does next
  loc,        \* its local variables
  told        \* history: the stops that began while this call was in motion

vars == <<on, powered, busy, latched, act, pc, loc, told>>

OutOfRange == 0

Driving == {"chunk", "hysteresis", "homing"}
\* Phases of a motion that look at the state of the platform before they drive.
Heeding == {"loop", "chunk", "settling", "settle", "hysteresis", "coarse"}
Moving  == Heeding \cup {"searched", "fine", "homing"}
Phases  == Moving \cup {"idle", "admitted", "measured", "pulse"}

Actuator == [position : Int, fatal : BOOLEAN, busy : BOOLEAN, driver : BOOLEAN]

PerActuator == [Actuators -> Int]
Locals == [method : Methods, a : Actuators, steps : PerActuator,
           goal : PerActuator, owed : PerActuator, left : PerActuator,
           rounds : Nat, i : Actuators]
Zero == [a \in Actuators |-> 0]
NoLocals == [method |-> "Stop", a |-> 1, steps |-> Zero, goal |-> Zero,
             owed |-> Zero, left |-> Zero, rounds |-> 0, i |-> 1]

Magnitude(n) == IF n < 0 THEN -n ELSE n
Sign(n) == IF n < 0 THEN -1 ELSE IF n > 0 THEN 1 ELSE 0
\* C++ division rounds towards zero.
Quotient(n, d) == Sign(n) * (Magnitude(n) \div d)
Bounded(n) ==
  IF Magnitude(n) > OwedBound THEN Sign(n) * OwedBound ELSE n

-----------------------------------------------------------------------------
(* The device as its methods see it *)

deviceState == IF ~on THEN "Off" ELSE IF busy THEN "Busy" ELSE "On"

actuatorState(a) ==
  IF ~act[a].driver THEN "Off" ELSE IF act[a].busy THEN "Busy" ELSE "On"

\* Looking at the error state latches the errors of all actuators.
checkActuatorStatus(errors) == errors \cup {a \in Actuators : act[a].fatal}
FatalNow == checkActuatorStatus(latched) # {}
LookAtErrors == latched' = checkActuatorStatus(latched)

setDrivers(enabled) ==
  act' = [a \in Actuators |-> [act[a] EXCEPT !.driver = enabled]]

Change(a, field, value) == act' = [act EXCEPT ![a][field] = value]

\* The call is over.
Return(c) ==
  /\ pc' = [pc EXCEPT ![c] = "idle"]
  /\ loc' = [loc EXCEPT ![c] = NoLocals]
  /\ told' = [told EXCEPT ![c] = {}]

GoOn(c, phase, locals) ==
  /\ pc' = [pc EXCEPT ![c] = phase]
  /\ loc' = [loc EXCEPT ![c] = locals]
  /\ UNCHANGED told

\* Error: the drivers stay enabled.
EndMotionEnabled(c) == busy' = FALSE /\ Return(c) /\ UNCHANGED act

\* disableAll, return and release the busy lock, from anywhere in a motion.
EndMotion(c) == setDrivers(FALSE) /\ busy' = FALSE /\ Return(c)

-----------------------------------------------------------------------------
(* The guards of operate *)

\* Error: nothing refuses a call while the panel is busy.
AlwaysMay(m) == TRUE

PanelMay(m) == deviceState # "Busy" \/ m = "Stop"

ActMay(m, a) ==
  /\ actuatorState(a) # "Busy" \/ m = "ActTurnOff"
  /\ m \in ActMoves => actuatorState(a) = "On" /\ ~act[a].fatal

Arguments(m) ==
  CASE m \in {"MoveDeltaLengths", "ActMoveDelta"} -> Deltas
    [] m \in {"MoveToLengths", "ActMoveToLength"} -> Targets
    [] OTHER -> {Zero}

Call(c) ==
  \E m \in MethodsOf[c] \ {"Stop"}, a \in Actuators :
    /\ pc[c] = "idle"
    /\ Race \/ \A d \in Callers : pc[d] \notin {"admitted", "measured"}
    /\ IF m \in PanelMethods THEN PanelMay(m) /\ a = 1 ELSE ActMay(m, a)
    /\ \E s \in Arguments(m) :
         GoOn(c, "admitted", [NoLocals EXCEPT !.method = m, !.a = a,
                                              !.steps = s])
    /\ UNCHANGED <<on, powered, busy, latched, act>>

Admitted(c, methods) == pc[c] = "admitted" /\ loc[c].method \in methods

-----------------------------------------------------------------------------
(* Power, errors and the stop *)

TurnOn(c) ==
  /\ Admitted(c, {"TurnOn"})
  /\ IF deviceState = "Off" THEN powered' = TRUE /\ on' = TRUE /\ busy' = FALSE
                            ELSE UNCHANGED <<powered, on, busy>>
  /\ Return(c)
  /\ UNCHANGED <<latched, act>>

TurnOff(c) ==
  /\ Admitted(c, {"TurnOff"})
  /\ IF deviceState = "On"
     THEN powered' = FALSE /\ on' = FALSE /\ busy' = FALSE /\ setDrivers(FALSE)
     ELSE UNCHANGED <<powered, on, busy, act>>
  /\ Return(c)
  /\ UNCHANGED latched

\* The errors of an actuator are cleared in it and in the platform.
ClearErrors(c) ==
  /\ Admitted(c, Clears)
  /\ LET m == loc[c].method
         cleared == (IF m # "ClearPlatformErrors" THEN Actuators ELSE {})
                      \cup (IF m # "ClearActuatorErrors" THEN {OutOfRange} ELSE {})
     IN  /\ latched' = latched \ cleared
         /\ act' = [a \in Actuators |->
                      [act[a] EXCEPT !.fatal = @ /\ a \notin cleared]]
  /\ Return(c)
  /\ UNCHANGED <<on, powered, busy>>

ActClearAllErrors(c) ==
  /\ Admitted(c, {"ActClearAllErrors"})
  /\ Change(loc[c].a, "fatal", FALSE)
  /\ Return(c)
  /\ UNCHANGED <<on, powered, busy, latched>>

ActTurnOff(c) ==
  /\ Admitted(c, {"ActTurnOff"})
  /\ IF actuatorState(loc[c].a) = "On" THEN Change(loc[c].a, "driver", FALSE)
                                       ELSE UNCHANGED act
  /\ Return(c)
  /\ UNCHANGED <<on, powered, busy, latched>>

StopBegin(c) ==
  /\ pc[c] = "idle" /\ "Stop" \in MethodsOf[c]
  /\ on' = FALSE
  /\ pc' = [pc EXCEPT ![c] = "pulse"]
  /\ told' = [d \in Callers |->
                IF pc[d] \in Moving THEN told[d] \cup {c} ELSE told[d]]
  /\ UNCHANGED <<powered, busy, latched, act, loc>>

\* The pulse takes a second, longer than a chunk: a motion that looks at the
\* state between its chunks has done so by then.
StopEnd(c) ==
  /\ pc[c] = "pulse"
  /\ \A d \in Callers : c \in told[d] => pc[d] \notin Heeding
  /\ on' = TRUE
  /\ Return(c)
  /\ UNCHANGED <<powered, busy, latched, act>>

-----------------------------------------------------------------------------
(* Motions: moveDeltaLengths, moveToLengths and __step *)

\* A move of one actuator first measures all lengths, under a busy lock of the
\* platform and one of each actuator.
MeasureFirst(c) ==
  /\ Admitted(c, {"ActMoveDelta"})
  /\ busy' = FALSE
  /\ act' = [a \in Actuators |-> [act[a] EXCEPT !.busy = FALSE]]
  /\ GoOn(c, "measured", loc[c])
  /\ UNCHANGED <<on, powered, latched>>

MayBegin(c) ==
  Admitted(c, Moves \cup {"ActMoveToLength"}) \/ pc[c] = "measured"

\* The goal of every actuator.  A move of one actuator to a length asks the
\* length zero of all others.
Goal(c) ==
  LET m == loc[c].method
      s == loc[c].steps
  IN  [b \in Actuators |->
         CASE m = "MoveDeltaLengths" -> act[b].position - s[b]
           [] m = "MoveToLengths" -> s[b]
           [] m = "ActMoveDelta" ->
                act[b].position - (IF b = loc[c].a THEN s[b] ELSE 0)
           [] OTHER -> IF b = loc[c].a THEN s[b] ELSE ZeroLength]

InRange(goal) ==
  \A a \in Actuators : goal[a] \in MinPosition .. MaxPosition - 1

\* Moves to a length measure first, which releases the actuators' busy locks.
Measured(c) ==
  [a \in Actuators |->
     [act[a] EXCEPT !.busy = @ /\ loc[c].method \in {"MoveDeltaLengths",
                                                     "ActMoveDelta"}]]

RefuseMove(c) ==
  /\ MayBegin(c) /\ ~InRange(Goal(c))
  /\ latched' = latched \cup {OutOfRange}
  /\ busy' = FALSE
  /\ act' = Measured(c)
  /\ Return(c)
  /\ UNCHANGED <<on, powered>>

StepsRemaining(a, goal) == act[a].position - goal[a]

Iterations(n) ==
  IF n = 0 THEN 0 ELSE 1 + (Magnitude(n) - 1) \div RecordingInterval
MostIterations(left) == Max({Iterations(left[a]) : a \in Actuators})

\* On to the next actuator with more than one iteration, in this pass of the
\* loop, the next one, or on to the hysteresis motions.
NextUp(c, l, j) ==
  LET more == {a \in Actuators : Iterations(l.left[a]) > 1}
      here == {a \in more : a >= j}
  IN  IF here # {} THEN GoOn(c, "loop", [l EXCEPT !.i = Min(here)])
      ELSE IF more = {} THEN GoOn(c, "settling", [l EXCEPT !.i = 1])
      ELSE GoOn(c, "loop", [l EXCEPT !.i = Min(more),
                                     !.rounds = MostIterations(l.left)])

\* Error: the drivers stay as they are.
BeginWithoutDrivers(c) ==
  /\ MayBegin(c) /\ InRange(Goal(c))
  /\ busy' = TRUE
  /\ act' = Measured(c)
  /\ LET left == [a \in Actuators |-> StepsRemaining(a, Goal(c))]
     IN  NextUp(c, [loc[c] EXCEPT !.steps = Zero, !.goal = Goal(c),
                                  !.left = left, !.owed = Zero,
                                  !.rounds = MostIterations(left)], 1)
  /\ UNCHANGED <<on, powered, latched>>

BeginMove(c) ==
  /\ MayBegin(c) /\ InRange(Goal(c))
  /\ busy' = TRUE
  /\ act' = [a \in Actuators |-> [Measured(c)[a] EXCEPT !.driver = TRUE]]
  /\ LET left == [a \in Actuators |-> StepsRemaining(a, Goal(c))]
     IN  NextUp(c, [loc[c] EXCEPT !.steps = Zero, !.goal = Goal(c),
                                  !.left = left, !.owed = Zero,
                                  !.rounds = MostIterations(left)], 1)
  /\ UNCHANGED <<on, powered, latched>>

\* Error: the state of the device is not looked at.
ToldByError(c) == FatalNow

Told(c) == ~on \/ FatalNow

StopMotion(c) ==
  /\ pc[c] \in {"loop", "settle"} /\ Told(c)
  /\ IF on THEN LookAtErrors ELSE UNCHANGED latched
  /\ EndMotion(c)
  /\ UNCHANGED <<on, powered>>

\* An actuator whose driver is off makes no steps and reports no error.
Visit(c) ==
  LET l == loc[c]
      a == l.i
      owed == Bounded(l.owed[a] + Quotient(l.left[a], l.rounds))
      due  == Magnitude(owed) > RecordingInterval
      now  == [l EXCEPT !.owed[a] = owed]
  IN  /\ pc[c] = "loop" /\ ~Told(c)
      /\ CASE due /\ act[a].driver ->
                Change(a, "busy", TRUE) /\ GoOn(c, "chunk", now)
           [] due /\ ~act[a].driver ->
                /\ NextUp(c, [now EXCEPT !.left[a] = StepsRemaining(a, l.goal)],
                          a + 1)
                /\ UNCHANGED act
           [] ~due -> NextUp(c, now, a + 1) /\ UNCHANGED act
      /\ UNCHANGED <<on, powered, busy, latched>>

\* What becomes of an actuator that was to make some steps: all but a few of
\* them, or a fatal error and any part of them.
Outcomes(a, steps) ==
  { [act[a] EXCEPT !.busy = FALSE, !.position = @ - steps + miss] :
      miss \in IF powered THEN -Tolerance .. Tolerance ELSE {} }
  \cup { [act[a] EXCEPT !.busy = FALSE, !.fatal = TRUE,
                        !.position = @ - Sign(steps) * taken] :
           taken \in {0, Magnitude(steps)} }

FinishChunk(c) ==
  LET l == loc[c]
      a == l.i
      chunk == Sign(l.owed[a]) * RecordingInterval
  IN  /\ pc[c] = "chunk"
      /\ \E after \in Outcomes(a, chunk) :
           /\ act' = [act EXCEPT ![a] = after]
           /\ NextUp(c, [l EXCEPT
                           !.owed[a] = Bounded(@ - (act[a].position - after.position)),
                           !.left[a] = after.position - l.goal[a]], a + 1)
      /\ UNCHANGED <<on, powered, busy, latched>>

BeginSettling(c) ==
  /\ pc[c] = "settling"
  /\ LookAtErrors
  /\ IF FatalNow THEN EndMotion(c)
                 ELSE GoOn(c, "settle", loc[c]) /\ UNCHANGED <<busy, act>>
  /\ UNCHANGED <<on, powered>>

\* Errors: the motion ends at the first actuator that needs no hysteresis
\* motion, or goes on past the last actuator.
EndAtFirst(c) == EndMotion(c)
SettlePastLast(c) ==
  GoOn(c, "settle", [loc[c] EXCEPT !.i = @ + 1]) /\ UNCHANGED <<busy, act>>

\* On to the hysteresis motion of the next actuator.
SettleNext(c) ==
  IF loc[c].i = NumActuators THEN EndMotion(c)
  ELSE GoOn(c, "settle", [loc[c] EXCEPT !.i = @ + 1]) /\ UNCHANGED <<busy, act>>

Settle(c) ==
  LET a == loc[c].i IN
  /\ pc[c] = "settle" /\ ~Told(c)
  /\ IF loc[c].left[a] # 0 /\ act[a].driver
     THEN /\ Change(a, "busy", TRUE)
          /\ GoOn(c, "hysteresis", loc[c])
          /\ UNCHANGED busy
     ELSE SettleNext(c)
  /\ UNCHANGED <<on, powered, latched>>

FinishHysteresis(c) ==
  LET a == loc[c].i IN
  /\ pc[c] = "hysteresis"
  /\ \E after \in Outcomes(a, loc[c].left[a]) :
       IF a = NumActuators
       THEN /\ act' = [b \in Actuators |->
                         [(IF b = a THEN after ELSE act[b]) EXCEPT !.driver = FALSE]]
            /\ busy' = FALSE
            /\ Return(c)
       ELSE /\ act' = [act EXCEPT ![a] = after]
            /\ GoOn(c, "settle", [loc[c] EXCEPT !.i = @ + 1])
            /\ UNCHANGED busy
  /\ UNCHANGED <<on, powered, latched>>

-----------------------------------------------------------------------------
(* findHomeFromEndStopAll *)

BeginFindHome(c) ==
  /\ Admitted(c, {"FindHome"})
  /\ LookAtErrors
  /\ IF FatalNow \/ ~on
     THEN Return(c) /\ UNCHANGED <<busy, act>>
     ELSE /\ busy' = TRUE
          /\ setDrivers(TRUE)
          /\ GoOn(c, "coarse", loc[c])
  /\ UNCHANGED <<on, powered>>

\* Error: the drivers stay enabled after the search.
EndSearchEnabled(c) ==
  /\ pc[c] = "coarse"
  /\ GoOn(c, "searched", loc[c])
  /\ UNCHANGED <<on, powered, busy, latched, act>>

\* __probeEndStopAll ends, at the stops or because the platform is off; how
\* long it takes is left open.
EndCoarseSearch(c) ==
  /\ pc[c] = "coarse"
  /\ setDrivers(FALSE)
  /\ GoOn(c, "searched", loc[c])
  /\ UNCHANGED <<on, powered, busy, latched>>

Searched(c) ==
  /\ pc[c] = "searched"
  /\ LookAtErrors
  /\ IF FatalNow \/ ~on
     THEN busy' = FALSE /\ Return(c) /\ UNCHANGED act
     ELSE setDrivers(TRUE) /\ GoOn(c, "fine", loc[c]) /\ UNCHANGED busy
  /\ UNCHANGED <<on, powered>>

\* Nothing is looked at before the next actuator searches its stop.
BeginHoming(c) ==
  /\ pc[c] = "fine"
  /\ Change(loc[c].i, "busy", TRUE)
  /\ GoOn(c, "homing", loc[c])
  /\ UNCHANGED <<on, powered, busy, latched>>

\* The search sets the position and sets or clears the error of a lost home.
FinishHoming(c) ==
  LET a == loc[c].i IN
  /\ pc[c] = "homing"
  /\ \E fatal \in BOOLEAN, miss \in -Tolerance .. Tolerance :
       LET found == [act EXCEPT ![a].busy = FALSE, ![a].fatal = fatal,
                                ![a].position = StopPosition + miss]
       IN  IF a = NumActuators
           THEN /\ act' = [b \in Actuators |-> [found[b] EXCEPT !.driver = FALSE]]
                /\ busy' = FALSE
                /\ Return(c)
           ELSE /\ act' = found
                /\ GoOn(c, "fine", [loc[c] EXCEPT !.i = @ + 1])
                /\ UNCHANGED busy
  /\ UNCHANGED <<on, powered, latched>>

-----------------------------------------------------------------------------
(* Reads by other clients, and the specification *)

ReadErrorState ==
  LookAtErrors /\ UNCHANGED <<on, powered, busy, act, pc, loc, told>>

\* A reading may find a fatal error, and ends with the busy flag cleared.
MeasureLength ==
  /\ \E a \in Actuators, found \in BOOLEAN :
       act' = [act EXCEPT ![a].busy = FALSE, ![a].fatal = @ \/ found]
  /\ UNCHANGED <<on, powered, busy, latched, pc, loc, told>>

Init ==
  /\ on = TRUE /\ powered = TRUE /\ busy = FALSE /\ latched = {}
  /\ act = [a \in Actuators |-> [position |-> StopPosition, fatal |-> FALSE,
                                 busy |-> FALSE, driver |-> FALSE]]
  /\ pc = [c \in Callers |-> "idle"]
  /\ loc = [c \in Callers |-> NoLocals]
  /\ told = [c \in Callers |-> {}]

Quick(c) == TurnOn(c) \/ TurnOff(c) \/ ClearErrors(c) \/ ActClearAllErrors(c)
              \/ ActTurnOff(c) \/ StopEnd(c)

Motion(c) == MeasureFirst(c) \/ RefuseMove(c) \/ BeginMove(c) \/ StopMotion(c)
               \/ Visit(c) \/ FinishChunk(c) \/ BeginSettling(c) \/ Settle(c)
               \/ FinishHysteresis(c)

FindHome(c) == BeginFindHome(c) \/ EndCoarseSearch(c) \/ Searched(c)
                 \/ BeginHoming(c) \/ FinishHoming(c)

Next ==
  \/ \E c \in Callers :
       Call(c) \/ StopBegin(c) \/ Quick(c) \/ Motion(c) \/ FindHome(c)
  \/ ReadErrorState \/ MeasureLength

Spec == Init /\ [][Next]_vars

\* The threads of the running calls go on, and the driver returns.
FairSpec ==
  Spec /\ \A c \in Callers : WF_vars(Quick(c) \/ Motion(c) \/ FindHome(c))

-----------------------------------------------------------------------------
(* Properties *)

\* All variables keep their types.
TypeOK ==
  /\ on \in BOOLEAN /\ powered \in BOOLEAN /\ busy \in BOOLEAN
  /\ latched \subseteq Actuators \cup {OutOfRange}
  /\ act \in [Actuators -> Actuator]
  /\ pc \in [Callers -> Phases]
  /\ loc \in [Callers -> Locals]
  /\ told \in [Callers -> SUBSET Callers]

\* Once a stop has begun (emergencyStop, platform.cpp:176) a motion that was
\* under way finishes the chunk it is in and drives no actuator again, neither
\* while the stop lasts nor after it.
StopHalts ==
  [][\A c \in Callers :
       told[c] # {} /\ pc'[c] \in Driving => pc[c] = pc'[c]]_vars

\* However motions end and whatever else goes on, no driver is left enabled
\* when no motion is under way (enableAll and disableAll, platform.cpp:434-482).
DriversOffAtRest ==
  (\A c \in Callers : pc[c] \notin Moving) =>
    \A a \in Actuators : ~act[a].driver

\* A motion of __step (platform.cpp:384) that runs to its end, neither told to
\* stop nor with a fatal error, has every actuator at its goal but for
\* the steps one chunk may miss.
Arrives ==
  [][\A c \in Callers :
       /\ pc[c] \in {"settle", "hysteresis"} /\ pc'[c] = "idle"
       /\ on /\ ~FatalNow'
       => \A a \in Actuators :
            Magnitude(act'[a].position - loc[c].goal[a]) <= Tolerance]_vars

\* One call at a time drives actuators: what the guards of operate are for
\* (panelcontroller.cpp:94 and 99, actcontroller.cpp:109).  A motion begun on a
\* panel that is off is let in, but must end before it drives.
OneMotion ==
  \A c, d \in Callers : pc[c] \in Driving /\ pc[d] \in Driving => c = d

\* Every motion ends (the loop of platform.cpp:435), whatever its actuators miss.
MotionEnds ==
  \A c \in Callers : pc[c] \in Moving ~> pc[c] = "idle"
=============================================================================
