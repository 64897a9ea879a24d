# A TLA+ development of the pSCT alignment software

The repository controls the segmented mirrors of a telescope. Each mirror panel stands
on six linear actuators; a controller board ("CBC") drives them, edge sensors ("MPES")
look from one panel at the next. One *server* process per panel board offers the panel,
its actuators and its sensors as OPC UA objects; one *client* process talks to all of
them and offers the mirrors, edges and panels as larger objects with alignment
operations. The repository documents how it is built and deployed but not how it
behaves, so everything here is read from the code and its comments.

## 1. Inventory

| component | source | state it keeps | operations |
|---|---|---|---|
| Device base | `common/alignment/device.*` | error flags, busy flag | set, unset and clear errors; device and error state; busy lock |
| Actuator | `common/alignment/actuator.*` | recorded position (revolution, angle), error flags, `m_keepStepping`, status file ("ASF") | initialize, step, move, hysteresis motion, measure, recover, force recover, find home from an end stop, probe home, stop, clear errors |
| Platform | `common/alignment/platform.*` | on/off, busy flag, latched errors of its actuators, platform errors | step, move, measure, probe end stops, find home, stop, clear errors, power |
| MPES | `common/alignment/mpes.*`, `common/mpescode` | exposure, video device, last reading | initialize by toggling USB power, expose, read |
| CBC | `common/cbccode` | registers of the board | drivers, encoders, ADC, USB power |
| Server controllers | `server/controllers` | target and remaining lengths | OPC UA methods and reads, guarded by the busy state |
| Client controllers | `client/controllers` | device state, alignment data, stop flags | sequences of asynchronous calls to the servers |
| OPC UA glue | `common/opcua`, `client/utilities`, node managers | node tree, subscriptions | method calls run in a thread pool |
| Global alignment | `common/globalalignment` | images and fits | PSD, rangefinder, laser, CCD |

**How they interact.** A client controller calls a method on a server object
asynchronously and polls the device state until it is no longer busy. The server runs
each method in a thread of a pool; its controllers check the busy state and call the
platform, without a lock (the mutex lockers are commented out). The platform loops over
its actuators, each of which drives the motor in chunks of at most `RecordingInterval`
steps and writes its status file after each. Stops are flags that another thread sets
and a loop looks at: `m_keepStepping` in an actuator, "off for a second" in a platform.

**What is hard.** The encoder shows only the angle within a revolution, so the position
lives in software and in the status file: crashes, missed steps, stops and unreadable
encoders may each separate it from the shaft, and a separation of half a revolution can
no longer be seen. On top of it come the threads of the server, the stop flags, the
latched errors and the client's polling.

**What makes each part correct.**

- Position arithmetic: no prediction loses a step; a deviation of less than half a
  revolution is found exactly.
- Actuator: when it loses its position it says so with a fatal error, and keeps saying
  so until an operator, or a home that was really found, clears it; the status file is
  always enough to recover; every operation ends.
- Platform: a stop halts the motion it was meant for; an actuator's fatal error ends the
  motion of all; a motion ends; latched errors follow those of the actuators.
- Panel server: one motion at a time; reads do not disturb a motion; a stop is always
  accepted.
- MPES: a sensor reads its own camera and shows only what it measured; the exposure it
  leaves is right or an error says why not; the exposure loop ends.
- Client: an operation is reported complete only when it is; a stop reaches the panels
  and is not overtaken by a later step of the sequence; no error path leaves an object
  busy.

The hazards behind these, each at its line, are in `PROJECT.json`.

## 2. Plan

1. `ActuatorPosition`, `Actuator`: the position of one actuator, with its proofs.
   **Done.**
2. `Platform`: the loop over the actuators, errors latched in the platform, the pulse of
   `emergencyStop`, and the concurrent method calls of panel and actuator objects: what
   the unlocked busy check excludes and what it does not. **Done**, with proofs.
3. `AbstractActuator`: what an actuator promises to the operator and to the platform,
   without encoder, file and error codes, implemented by `Actuator`. **Done**, with the
   proof of the refinement.
4. `ClientPanel`, `Edge`: asynchronous call and polling; the response matrix, the
   alignment in three calls and its stop. **Done**, with proofs.
5. `Mirror`: motions of many panels, the sequence over edges. **Done**, with proofs.
6. `ActuatorThreads`: a measurement that overlaps a motion of the same actuator.
7. `Mpes`: initialization, exposure and reading of the sensors of one board. **Done**,
   with proofs.
8. The optical table and the ring alignment, which repeat the protocol of 5.

## 3. Modules

| module | what it is |
|---|---|
| `ActuatorPosition` | operators: positions, `predictNewPosition`, `checkAngleQuick`, `checkAngleSlow` |
| `MCActuatorPosition` | a recorded position moved by chunks, to check the operators on |
| `ActuatorPositionProofs` | lemmas on truncated division; what the operators compute |
| `MCActuatorPositionProofs` | the same for any sequence of chunks |
| `Actuator` | one actuator: variables, actions, specification, properties |
| `ActuatorInvariant` | the inductive invariant `SafetyInvariant` |
| `AbstractActuator` | what an actuator promises |
| `ActuatorRefinement` | the mapping to it: `Implements` |
| `MCActuator` | values of the constants for TLC |
| `ActuatorProofs` | `Spec => []TypeOK`, `Spec => []SafetyInvariant` and the safety properties; a fatal error is never lost |
| `ActuatorRefinementProofs` | the step simulation of the refinement |
| `Platform` | the platform of a panel under calls from several threads |
| `MCPlatform` | which caller calls what, and the moves, for TLC |
| `PlatformProofs` | types, drivers, one motion at a time, the stop, arrival at the goal |
| `ClientPanel` | panels as the client sees them: calls on their way, motions, stops |
| `Edge` | the methods of the edges, over `ClientPanel` |
| `MCEdge` | an edge of two panels, an operator and one who stops |
| `EdgeProofs` | types, whoever calls; matrix, alignment and stop for one operator |
| `Mirror` | the methods of the mirror, over `Edge` |
| `MCMirror` | instances with one edge and with two that share a panel |
| `MirrorProofs` | types; which motion is executed, when it is complete, that it is sent once |
| `Mpes` | the sensors of a panel, their ports and cameras, under calls from several threads |
| `MCMpes` | two sensors: who calls what, what they see, how a camera fails |
| `MpesProofs` | types and locks; cameras, positions and exposures when one caller switches |

A definition under a comment that begins with "Error:" is not part of any specification:
it is a wrong form of the definition below it, which the property it is written for must
tell from the right one.

### ActuatorPosition

A position is the pair the code keeps. C++ division rounds towards zero, so the
correction `predictNewPosition` makes below home is modelled as it is written and not as
a floor. Voltages are encoder codes `0 .. StepsPerRevolution - 1`: the table lookup of
`checkAngleQuick` becomes a search for an offset whose code equals the measured one, and
a reading is exact, that is, its noise is smaller than half a code. An expected angle
equal to `StepsPerRevolution` reads one past the end of the table; what is found there
is the parameter `stale`.

### Actuator

| variable | code |
|---|---|
| `shaft` | the true place of the shaft, which no code reads |
| `act` | `m_CurrentPosition`, `m_Errors` and the contents of the ASF |
| `keepStepping` | `m_keepStepping` |
| `enabled` | the driver of this actuator, `isOn()` |
| `pc`, `op` | where the running operation is, and its locals |
| `dismissed`, `probing` | history variables for the properties |

The position is kept as a number of steps from home: by theorem `PredictPreservesSteps`
the code's pair carries exactly this number. A file is *missing*, *torn* (truncated by a
crash inside `saveStatusToASF`) or *good*.

One operation runs at a time; `emergencyStop`, `DisableDriver` and `Crash` may come
between any two of its steps. The steps of `__step` are `EnterStep` (reload, recover,
set the goal), `DriveChunk` (the driver makes any number of the steps asked for),
`CheckChunk` (compare with the encoder, record, raise error 6, 7 or 8) and `LeaveLoop`;
a stop or a crash between `DriveChunk` and `CheckChunk` is the case that matters most. A
search for home is the platform's coarse search (`CoarseStep`), the actuator's fine one
(`FineStep`), and then either `SetHomeFromStop`, which steps away from the stop and
back, or `BeginHoming`, `HomingStep`, `HomeReached`. In a search the motor makes all
steps the mechanical stop lets it make, unless the instance allows a stall.

`Faults` names what an instance lets in beyond this: a stop, a crash, a stall or an
unreadable encoder *during a search*, `probeHome` called with error 7 already set, and
the stale table entry. The code does not survive the first four and `blindProbe`
(section 5), so the theorems assume `Faults = {}` and single runs let them in one by
one.

Assumptions on the constants (`ActuatorAssumption`) hold for the values of the code,
where a revolution has 200 steps, a chunk 80 and a search step 15: chunk and search step
are less than half a revolution, the recorded end stops are within half a revolution of
the real ones, and home lies `CyclesDefiningHome` wraps of the angle from the extend
stop.

### Platform

| variable | code |
|---|---|
| `on` | `m_On` |
| `powered` | the board after `powerUp` or `powerDown` |
| `busy` | `m_Busy` of the platform |
| `latched` | the fatal entries of the platform's `m_Errors`; error 12 is `OutOfRange` |
| `act` | per actuator: recorded position, fatal error, `m_Busy`, driver |
| `pc`, `loc` | where each caller is, and its local variables |
| `told` | history: the stops that began while the call was in motion |

A *caller* is a thread of the server that runs one method after the other; `MethodsOf`
says which ones it may call. `Call` is the guard of `operate` in the two controllers,
`"admitted"` the time between it and the busy lock. With `Race = FALSE` no second call
passes the guard in that time.

The actions follow the code's looks at shared state, since other callers may come
between two of them. A move is `BeginMove` or `RefuseMove` (goals, software range,
drivers on), then for each actuator that has more than one iteration `Visit`, which
shares out its steps, and, when they exceed the recording interval, `FinishChunk`;
`StopMotion` where `Visit` would have gone on; then `BeginSettling`, and `Settle` and
`FinishHysteresis` for each actuator. Actuators with nothing to do are skipped inside
`NextUp`, as the loop skips them without looking at anything. Find home is
`BeginFindHome`, `EndCoarseSearch`, `Searched`, and for each actuator `BeginHoming` and
`FinishHoming`.

Abstractions, and why they are sound here:

- *What a chunk does* (`Outcomes`): the steps asked for but for `Tolerance`, or a fatal
  error and all or none of them. This is the contract of `Actuator`; a deviation within
  the threshold of error 8 raises no error, one beyond it does. A chunk of an actuator
  whose driver is off makes no steps and raises no error (`Actuator::__step` never
  enters its loop).
- *Time*: the pulse of a stop takes one second, a chunk of 80 steps or a hysteresis
  motion a fraction of one, so `StopEnd` waits until every motion the stop began in has
  looked at the state. The searches for a stop take as long as they take, and `StopEnd`
  does not wait for them. The model is silent about a chunk that would take longer than
  a second.
- *Positions* are numbers of steps; `ZeroLength` is the far away position of length
  zero, which `ActController::moveToLength` asks of the other five actuators (such a
  move is always refused with error 12 unless zero lies in the range).
- `OwedBound` bounds the steps a motion keeps a note of (`StepsToTake`), which can grow
  without end only while an actuator makes no steps.
- The hysteresis motion goes past its goal and back in one; a reading may find a fatal
  error but moves no position.

### AbstractActuator and its refinement

An abstract actuator has its true position, possibly a reported one, and a phase. It
promises that a position reported at rest is within half a revolution of the true one,
that a motion starts from an exact report and drives in bounded chunks towards its goal
and not past it, that each record is exact and misses no more than `Tolerance` of the
chunk, and that otherwise it reports nothing. `ActuatorRefinement` maps an actuator to
it: a position is reported when the actuator is up, not in a search, carries no fatal
error and no operator has dismissed the loss (`clearErrors` may do that without
repairing anything). `goal` is where the motion ends, `asked` the chunk being driven.
`Platform` relies on this contract in `Outcomes`.

### ClientPanel and Edge

| variable | code |
|---|---|
| `sent`, `stops` | calls of `callMethodAsync` that the server has not begun |
| `moving` | the motion a panel makes; its state is Busy unless it rests |
| `state` | `m_State` of an edge, set to Off by a stop and read by the methods |
| `calc`, `frac` | `m_Xcalculated`, `m_lastSetAlignFrac` |
| `pc`, `loc` | where each caller is, and its local variables |
| `told`, `applied`, `abandoned` | history, for the properties |
| `owed` in `loc` | history: the actuators a response matrix has sent out and not asked back |

A panel is its server seen from outside: the pool of threads takes the calls that have
been sent in any order, a busy panel drops a motion (`Refuse`, with `Refusals` also one
at rest, for its errors) and nobody learns of it, a stop ends a motion where it is.
`Call` is the guard of `operate`, `"admitted"` the time between the guard and the line
that sets the state to Busy, which is outside of any lock. The actions are the code
between two looks at shared state:

- `findMatrix`: `BeginMatrix`, `NextPanel`, then for each actuator `StepOut`, `WaitOut`,
  `ReadAgain`, `StepBack`, `WaitBack`. After each wait and after the second reading the
  code looks whether the state has become Off; a stop may come between that look and
  the next call. The waits poll the panel from the moment the call is on its way
  (`SeenIdle`): a step that its server has not begun is taken for one that is over.
- `getCurrentReadings`: `BeginReading`, `EndReading`, and `CheckEdge`, `CompareEdge`
  where `checkForCollision` reads the edges of a panel. They set the state to Busy and
  then to On, whichever method is running.
- `align`: `Calculate`, `SetFraction` with `JudgeFraction` for each panel,
  `BeginExecute`, `SendPart` for each panel, `EndExecute`.
- `PanelController::operate`, a move of one panel: `CallPanelMove`, `SendPanelMove`,
  `EndPanelMove`.
- Stop: `StopBegin` sets the state, `StopPanel` sends the stop to one panel after the
  other.

A call that cannot be sent takes the error path (`SendFails`). A calculated motion is a
number and the panels it is for; a part of it is what `MoveDeltaLengths` gets: its
origin, its number, the fraction it is multiplied by and the panel whose lengths it
holds, or `Garbled`: the slice of the second panel is taken from the eighth of twelve
elements.

`Delay` says what the code leaves to chance, namely when a call that has been sent
has begun at its server: within the five seconds that `operate` of a panel and the
mirror sleep before they ask for its state, and before an operator calls the next method
(`Landed`), or at any time. `findSingleMatrix` does not sleep, and for it both values
are the same.

### Mirror

`Mirror` extends `Edge`: its callers run methods of the mirror, and those that use edges
run the edge's actions as calls (`loc[c].for = "mirror"`, with the result in `pc`).

| variable | code |
|---|---|
| `mState` | `m_State` of the mirror |
| `mCalc` | `m_Xcalculated` and `m_panelsToMove` |
| `mMethod`, `mFrac` | `m_previousCalculatedMethod`, `m_lastSetAlignFrac` |
| `mpc`, `mloc` | where each caller is, and its local variables |
| `reviewed` | history: the part of the motion that was last shown |

The eight calculations share two shapes, `MotionMethods`: those that note their method
only after a success, and those that note it always. `MirrorSetFraction` is
`__setAlignFrac`, `MirrorExecute` with `SendMirrorPart`, `AskPanel` and `EndRound` is
`__moveSelectedPanels` with its polling. `NextEdge` to `EdgeAligned` are the loops of
`alignSequential`; `MirrorStop`, `StopNextEdge` and `EndMirrorStop` stop each edge and
set the mirror's own state last, as `operate` does.

### Mpes

A sensor is a webcam on a port of the board, and has no address: `__initialize` switches
the port off and on and looks which video device has come.

| variable | code |
|---|---|
| `usb` | power of the ports, `isOn()` |
| `node` | which video device each camera is, a number that the kernel gives |
| `panel` | `m_On` and `m_Busy` of the platform |
| `busy`, `errors`, `position` | `m_Busy`, `m_Errors`, `m_Position` |
| `device` | `m_pDevice` with its exposure, and `shot`: what the last `Capture` left in `m_pImageSet` |
| `pc`, `loc` | where each thread is, and what it has yet to do |
| `dismissed` | history: an operator has cleared an error of the sensor |

A call is a list of operations of sensors, `todo`: `TurnOn` of one sensor is `turnOn`
and the `initialize` of its controller (`"readjust"`), `PanelTurnOn` is `turnOn` of all,
and `Start` is `addMPES` of all and `initialize` of all controllers. Each operation
begins with `Lock` or `Refuse` and ends with `Finish`. `Disable`, `Enable` and `Find`
are `__initialize`; a pass of the loop of `__setExposure` is `GiveUp`, `Adjust` or
`Conclude`; `ReadCamera` is `updatePosition`. A `position` says which camera it really
came from and whether it was measured (`kind`, `of`), which the code does not know.
Intensity is proportional to exposure, as the comment at `mpes.cpp:46` assumes.
`PanelTurnOff` takes the ports from under whatever runs. `Crash` is the end of the
server when a sensor is used that has never been initialized.

## 4. Runs

| run | question | properties |
|---|---|---|
| `position` | is the arithmetic exact on both sides of home and round the wrap? | `TypeOK`, `StepsPreserved`, `DeviationExact`, `DeviationCongruent` |
| `actuator` | does an actuator that lost its position say so, through motions, searches, crashes and torn files, and keep saying so? | `TypeOK`, `NoSilentMislocation`, `StepsFromTruth`, `FileLocates`, `HomeErrorUntilProbeComplete`, `SafetyInvariant`, `Implements`, `FatalErrorsPersist` |
| `actuator_liveness` | does every operation end? | `OperationsEnd` |
| `platform_moves` | does the busy flag admit one motion at a time, does every motion end, and does one that nothing stops arrive? | `TypeOK`, `OneMotion`, `DriversOffAtRest`, `Arrives`, `MotionEnds` |
| `platform_all` | are the drivers off at rest, and does a stop halt a motion, whatever is called when? | `DriversOffAtRest`, `StopHalts` |
| `edge` | does a response matrix ask back what it sent out and heed a stop, is a motion sent once, is an edge given back, and does each method end? | `TypeOK`, `StepsAskedBack`, `StopHeeded`, `BusyMeansRunning`, `AppliedOnce`, `MethodsEnd` |
| `mirror` | is a motion of many panels over when it is reported complete, sent once, and of the method that executes it? | `MirrorTypeOK`, `ByItsMethod`, `MotionsComplete`, `AppliedOnce` |
| `mpes` | does each sensor read its own camera and show only what it measured, and is the exposure it leaves right or an error? | `MpesTypeOK`, `OwnCamera`, `TruePosition`, `ExposureRight`, `MethodsEnd` |
| `home_search_stopped`, `platform_stop_home`, `mirror_review`, `mirror_sequence` | where code and comment disagree, section 5 | one each |

**Bounds.** `position`: 20 codes per revolution, positions within 45 steps of home (more
than two revolutions to either side) and moves of up to 12 steps: every combination of a
start below, at or above home with a move across it, a wrap, and a deviation below and
above half a revolution. `actuator`: 12 codes, chunks of five, a travel of a bit less
than two revolutions with home half a revolution from the extend stop; the thresholds
keep the order of the real ones, and the requested moves are one shorter than a chunk,
one longer, and one of two chunks in the other direction. The state space is finite
without a constraint, because no fault leads the recorded position away from the shaft
unnoticed. `actuator_liveness`: six codes, chunks of two. Here an interrupted search
followed by `forceRecover` can shift the recorded position by up to half a revolution
each time, without end; `NearTravel` cuts executions off where it leaves the travel by
more than one step, so that the run says nothing about operations that start outside of
it.

`platform_*`: two actuators and two callers. Two actuators are enough for one to be
ahead of the other, in the loop, in the settling and in the search. With a recording
interval of two and a tolerance of one, moves of five and minus two steps need three
rounds and one, a chunk may miss half of its steps, and repeated moves reach both ends
of the range. `platform_moves` has two callers that may each move and search, one of
them also clears errors. `platform_all` adds stops, power and the actuator methods, and
so keeps to chunks of one step that miss nothing. `OwedBound` is larger than any value
reached without an actuator that stands still.

`edge`: one edge of two panels with two actuators each, an operator who calls every
method and moves panels, and one who stops; every call may fail to be sent. Two panels
and two actuators make the four places where the matrix goes on. One number for
calculations is enough, since it is given again only when no motion has it. `InFlight`
bounds the motions on their way to a panel: with two a step out and the step back may
be on their way at once, and arrive in either order or meet a panel that is busy. A
motion is not sent again before the same one has arrived (`MaySend`), which the code
does not ensure: a matrix of the model gets no further ahead of its panel than two
steps. `told` counts to three, one more than the two it may reach. The fraction is one
half. `mirror`: the same panels with one actuator, motions
that are on their way for up to five seconds, one fraction, a second caller that reads
the edge and stops. `mirror_sequence` has three panels and two edges that share one.

`mpes`: two sensors, so that a number may be free or taken when a camera comes up.
Exposures from 2 to 4 with a precision of 3/2 stand for 50 to 4999 with 1.258: the loop
still jumps to a limit, comes back and goes on in steps. The first sensor sees light
that is right at the default exposure for its target or too bright at all of them, and
its camera may stay away, show no spot or send no image; the second sees an uneven spot.
One operator reads, exposes and switches off the first sensor, switches the panel, and
clears errors of the second; the other switches either sensor on.

**Fairness.** `FairSpec` of `Actuator` asks for weak fairness of the steps of a running
motion or search, and of nothing else: the thread of the operation keeps being
scheduled. No operator request, stop, restart or failing encoder is assumed to come. One
step relies on chance: `HomingStuck` at the far end of the travel, where the code
compares two readings of the same voltage and takes a fall, which is noise, for "stuck";
sooner or later there is one.

In `Platform`, `FairSpec` asks for weak fairness of each caller's steps once its call
has been admitted: the thread is scheduled, the driver returns from a chunk and the
search for a stop ends. No call is assumed to come. `MotionEnds` is checked with two
callers that move and search. It needs no luck of the chunks: one that ends without an
error makes at least one step. It does *not* hold when something disables a driver under
a motion, such as `turnOff` of that actuator or another motion that ends: the loop at
`platform.cpp:435` then goes round for ever.

In `Edge`, `FairSpec` asks for weak fairness of the steps of each running method, and of
each panel's server for beginning, ending and stopping what it was asked to.
`MethodsEnd` uses it: a method that waits for a panel sees it at rest once its motion
has ended. Refusing a motion is not assumed.

In `Mpes`, `FairSpec` asks for weak fairness of the steps of a thread that has something
to do, and for strong fairness of `Lock`. With `Overlap = FALSE` a thread waits until no
other one toggles a port, for which the code has no counterpart; strong fairness keeps
this wait from lasting for ever. `MethodsEnd` excuses a thread in the exposure loop
whose readings fail again and again, as the code's loop then need not end.

**Deadlock** is checked in every run but `mirror_review`, where nobody stops and the
mirror may be left busy (section 5). That no method waits for ever is `OperationsEnd`,
`MotionEnds` and `MethodsEnd`.

## 5. What the runs show

An actuator keeps its position through everything in the `actuator` run, and keeps the
promises of the abstract one. A panel that is on, whose calls do not come together, has
one motion at a time, and a stop halts a motion for good. With one operator the response
matrix of an edge asks back each actuator it has sent out, a stop reaches it, and no
calculated motion is sent twice. Each sensor of a panel reads its own camera, as long as no two
ports are toggled at once. Disagreements of code and comment:

- `home_search_stopped`: a stop during `__probeEndStop` ends its loop like an end stop
  does; the position is set from it and error 0 is unset.
- `platform_stop_home`: after its coarse search `findHomeFromEndStopAll` never looks at
  the state again, so a stop does not keep the remaining actuators from searching.
- `mirror_review`: with constraints `__setAlignFrac` replaces the calculated motion by
  the part of it that was reviewed, and the execution multiplies that by the fraction
  again, though the message of execute has the operator review what will be executed.
- `mirror_sequence`: `alignSequential` takes an edge for aligned as soon as its motion
  has been sent, since it looks at a motion it has just set to zero. Its loop "until the
  edge is aligned" runs once, and the sensors of the next edge are read while its panel
  still moves.

The same properties fail in further ways, which the passing runs leave out by their
constants and the theorems by their assumptions:

- `HomeErrorUntilProbeComplete` with `"searchCrash"` or `"blindProbe"` in `Faults`:
  error 0 is set in memory and not saved when a search begins, so that a restart, or a
  `probeHome` that returns at once because of error 7 and is followed by a reload,
  forgets it.
- `OneMotion` with `Race = TRUE`: the check of the busy state and the busy lock are
  apart and no mutex is held.
- `OneMotion` with a caller of an actuator's own `moveDelta`: between two of its chunks
  the actuator is on and not busy, so its controller lets in a move in the middle of a
  motion of the panel.
- `OneMotion` on a panel that may be turned off: "Off" hides "Busy"; two moves are let
  in, and both go on if the panel is turned on while they still measure.
- A move on a panel with a fatal error begins, enables the drivers, and ends at its
  first look at the errors; the comment of `operate` has it refused.
- `Arrives` with `Race = TRUE`, or with a caller that turns off an actuator or clears
  its errors: both are let in between two chunks of a motion. An actuator that is off is
  passed over, an error that is cleared is not seen, and the motion ends as if it had
  arrived.
- `StopHalts` with two callers that stop: the first one ends the pulse of the second. A
  stop of a panel that is off leaves it on without power.
- `MatrixWaits`, whatever the constants are. The comment in `findSingleMatrix`
  (`edgecontroller.cpp:319`) has "it to actually complete before the next step. So we
  wait", but the first look at the panel comes right after the asynchronous call, and
  the server is busy only once it has taken the call from its pool and read six lengths.
  That look finds the panel at rest, and the sensors are read before the step has begun.
  `tlc -config EdgeMatrix.cfg MCEdge` shows it in five steps: `Call`, `BeginMatrix`,
  `NextPanel`, `StepOut`, `WaitOut`. The step back may then reach a panel that is busy
  with the step out, which drops it: the actuator stays out, and the matrix goes on to
  the next one. This is why `StepsAskedBack` speaks of what is asked of the panels, and
  not of what they have done.
- `MotionsComplete` with `Delay = "long"`: nothing but the sleep ensures that a call has
  arrived when the panel is asked whether it is busy.
- `StopHeeded` with a second operator who reads the edge: the reading sets the state to
  On and the matrix goes on. It fails with `Race = TRUE` too.
- `StepsAskedBack` with a second operator, for the same reason.
- When edges share a panel and the neighbour is stopped, that stop ends a step of the
  matrix, which is not told and goes on.
- `BusyMeansRunning` after a response matrix that could not send a step: the edge stays
  busy until it is stopped, and `alignSequential`, which waits for it, does so too.
- `AppliedOnce` after a call that failed: the motion stays calculated, so that executing
  it again also sends the parts that had been sent.
- `ByItsMethod` for the methods that load sensor positions: they note themselves
  although their calculation failed.
- `OwnCamera` with `Overlap = TRUE`, which is what the code allows: two sensors toggle
  their ports at once, and one takes the camera of the other for its own.
- `TruePosition` with `"cut"` in `Faults`: a series of images that breaks off puts the
  failed one (-2) into the average.
- `MethodsEnd` without its excuse: a failed reading is "too dim" and sends the exposure
  up, the next good one brings it back.
- A motion of the mirror whose fraction is out of range, or whose calculation cannot
  read a panel, leaves the mirror busy; only a stop frees it.

Seen while reading, with no property: `SetExposure` on a sensor that is on and was never
initialized ends the server (`Crash`); `__setExposure` clears error 5 before it gives up
on the uneven reading that had raised it, so that the sensor counts as operable; a
`Capture` that cannot open its camera returns the count of the one before.
`setAlignFrac` of an edge checks the first panel's part for every panel, with the
fraction applied twice, and leaves the fraction set when that is a collision. The second
panel's part is cut from the wrong elements (`Garbled`). At an exact negative number of
revolutions `predictNewPosition` yields the angle 200 and one revolution too few,
although its comment asks for floor division: the sum is right, but the angle is one
past the calibration table (theorem `WholeRevolutionsBelowHome`).

## 6. Proofs

TLAPS checks, for every value of the constants that meets the assumptions:

- `PredictPreservesSteps`, `SlowDeviationExact`, `QuickDeviationExact`,
  `WholeRevolutionsBelowHome`: the arithmetic. `WalkTypeCorrect`, `WalkPreservesSteps`,
  `WalkDeviationExact` and `WalkDeviationCongruent` carry it to every sequence of
  chunks.
- `TypeCorrect`: `Spec => []TypeOK`, for all faults.
- `SafetyInductive`: `Spec => []SafetyInvariant` when `Faults = {}`, and from it
  `IdleIsLocated`, `ChunksStartExact`, `FileIsEnough` and `SearchIsReported` for the
  four safety properties.
- `FatalErrorsKept`: `Spec => FatalErrorsPersist` unless `Faults` has `"searchEncoder"`
  or `"blindProbe"`. Its invariant says that the file, if it can be read, has every
  fatal error that the memory has, except in the searches after the coarse one.
- `ActuatorImplements`: `Spec => Implements` when `Faults = {}`. `GoalPart` adds to
  `SafetyInvariant` what a motion has yet to do: chunks are full ones towards the goal
  but for the last. One lemma per group of actions maps each step to an abstract step or
  a stutter; the temporal step is that of an invariant.

The properties alone are not inductive: an idle actuator is located because the
operation it ran ended located. `SafetyInvariant` says what holds in the middle of one.
Between chunks the recorded position is exact or a fatal error is set, and the file is a
copy of the memory (`MotionPart`); while a chunk is driven the shaft is between the
recorded and the predicted position, less than half a revolution from either, so that
the encoder can tell where (this is where `2 * RecordingInterval < StepsPerRevolution`
is needed); a search runs with error 0 set and ends at the hard stop (`SearchPart`);
homing counts the revolutions left (`HomingPart`). One lemma per action shows that it is
kept; `SlowDeviationExact` and `QuickDeviationExact` carry the encoder checks. The TLC
run `actuator` checks the same invariant on its instance.

For the platform, with any number of actuators and callers, any range, any moves and any
assignment of methods:

- `PlatformTypeCorrect`: `Spec => []TypeOK`. It rests on a motion in its loop having
  rounds left to divide by, that is on `MostIterations` being the greatest value; a
  finite sequence of numbers has one by the least-number principle (`LeastNatural`, from
  the well-foundedness of `<`), which takes the place of an induction.
- `DriversRest`: `Spec => []DriversOffAtRest`. The invariant `DriversFollowMotions` is
  stronger: no driver is on either between the two searches of find home.
- `MotionsExclude`: `Spec => []OneMotion` when `~Race` and no caller stops, turns off or
  moves a single actuator (`Undisturbed`). In `BusyInMotion` at most one caller is *in
  charge*, moving or admitted to a method of the panel, and the panel is busy while it
  moves. Every condition is needed, as the violations of section 5 show.
- `StopIsHeeded`: `Spec => StopHalts` when one caller only stops and nobody turns on or
  searches home (`Stopper`). By `StopLasts` the panel is off, and the stop in its pulse,
  as long as a motion knows of it. `platform_stop_home` shows why the search is
  excluded. Two stops that overlap, or a turn on within the second, end the pulse early.
- `MotionsArrive`: `Spec => Arrives` under the conditions of `MotionsExclude`, when
  nobody calls `turnOff` or `clearAllErrors` of a single actuator either
  (`ActuatorsLeftAlone`). In `Approaching` a motion has all drivers on, and the steps it
  takes to be left of each actuator are those that are left, however much the chunks
  missed; in the settling, the actuators before the present one are at their goals, or
  one has a fatal error, which nobody clears. That the loop ends is not part of it
  (`MotionEnds`).

For the client, with any panels, actuators, callers, and any edges of two or three
panels (`Alone(op, methods)` says that no caller but `op` may call these methods):

- `EdgeTypeCorrect`: `Spec => []TypeOK`. `Typed` also says what each method has in its
  locals at each of its steps. The code relies on it when it takes the next panel of a
  set or the first actuator. It holds for the methods that the mirror calls as well;
  that there are none of these in `Spec` is an invariant of its own, `Operated`.
- `EdgesAreGivenBack`: `Spec => []BusyMeansRunning` if one caller does everything but
  stop. `Held`: a busy edge is held by the method at its step, or was abandoned.
- `ExecutedOnce`: `Spec => AppliedOnce` if one caller calculates and executes. `Unsent`:
  the parts a running execution has still to send have not been applied, and those of a
  motion that is still calculated at rest have not been either.
- `StopsAreHeeded`: `Spec => []StopHeeded` if one caller does everything but stop and
  `Race = FALSE`. `Heeding`: while a matrix that was told runs, its edge is Off, and
  where it stands says how many steps it may have sent since.
- `StepsAreAskedBack`: `Spec => []StepsAskedBack` if one caller does everything but
  stop. Nothing is assumed of the panels, of the calls or of the time of a stop:
  `Owing` says which actuator may be out at each step of the matrix, that none is where
  it turns to another, and that only a stop makes it go on with one out.

For the mirror over these edges, with any selection of panels and any sweep:

- `MirrorTypeCorrect`: `MirrorSpec => []MirrorTypeOK`. In `MirrorSound` the locals of a
  method fit its step (`MLocalsOK`), and a thread that is in a method of the mirror is
  in one of an edge only while the sequence waits for it (`OwnThreads`), so that the
  invariants of the edges carry over, whoever calls them.
- `ExecutesItsOwnMotion`: `MirrorSpec => []ByItsMethod`, without a condition. `Noted`: a
  motion that is calculated while `MoveDeltaCoords` is noted is one of that method. The
  execution compares the two in the step in which it copies the motion.
- `MotionsAreCompleted`: `MirrorSpec => MotionsComplete` if one caller moves the
  selected panels (`AloneMoves`) and `Delay = "short"`. `Followed`: in a round of
  the polling that has met no busy panel, the panels that were asked have no part of a
  motion of the mirror on its way or being made, and those that are not selected never
  have.
- `MirrorExecutesOnce`: `MirrorSpec => AppliedOnce` if one caller moves panels by the
  mirror, by its sequence or by an edge (`AloneAligns`). To `Unsent` of the edge, which
  the methods called by the sequence keep, comes `MirrorUnsent`: what the mirror sends
  is what is calculated, and no panel that it has still to send to has had its part.

For the sensors, with any number of them, any callers, scenes and limits of exposure:

- `MpesTypes`: `Spec => []MpesTypeOK`, also when toggles overlap. It comes from
  `SpecSound`: a sensor is busy while exactly one thread works at it, no method runs
  before the server has started, and no two cameras have one number. A number is free
  for a camera that comes up, as there are as many numbers as sensors (a pigeonhole
  argument on finite sets).
- `SensorsKnowTheirCameras`: `Spec => []OwnCamera` if one caller at a time switches
  sensors on (`OneSwitches`, which `Overlap = FALSE` gives for any callers). `Known`:
  one thread at a time toggles a port, and the devices it saw before are all but the one
  that will come, so that the one that is new is the sensor's own. `Sequel` says who can
  be toggling: the start, or a method that switches.
- `PositionsAreTrue` and `ExposuresAreRight`: `Spec => []TruePosition` and `Spec =>
  ExposureRight` if, besides, no series of images breaks off (`NoSeriesCut`). `Told`
  carries the position through a reading: as long as the sensor is worked at, it is the
  one before, or what its own camera has just shown.

Section 5 shows what happens without some of these conditions.

Only model-checked: `OperationsEnd`, `MotionEnds` and the two `MethodsEnd`, since
liveness under fairness and ENABLED are outside of what the prover handles. Every other
property of a passing run is the statement of a theorem, most of them under the
conditions given here. The properties of the remaining runs, `ExecutedAsReviewed` and
`SequenceWaits` among them, are violated.

## 7. What is not modelled

- The database copy of the status: its recovery and save functions have no caller.
- `DummyActuator` and `DummyPlatform`, used without hardware.
- Encoder noise of more than half a code, other than a reading that fails (error 7).
- Numerical code (kinematics, image analysis, fits), CBC register access, OPC UA glue
  and node management: their logic is data conversion or vendor protocol.
- Of the platform: `probeHomeAll` and `probeEndStopAll`, which no server method calls,
  high current and temperatures. Of the server: `clearError` of a single code, and
  `turnOn`, `forceRecover` and `stop` of an actuator object.
- Of the client: the moves of a panel to lengths and to coordinates, which send and wait
  as the one modelled; `__calculateAlignRing` and the tests of single actuators; the
  saving and loading of files; fits and coordinates, of which success, a zero motion or
  an error is kept. The liveness of the mirror's methods is not checked.
- Of the sensors: cameras that come up later than the four seconds of `__initialize`
  (the next sensor to be toggled may take such a one for its own) or are unplugged (old
  images are shown as new), a `/dev` that cannot be read, the calibrated path, in which
  the images are not averaged at all, `DummyMPES`, and the sensor objects of the client,
  one of which reports the data from before a readjusted exposure. The question whether
  a sensor is busy and the mark that it is are one step.
- The optical table repeats the protocol of the mirror for a single platform. A reading
  that overlaps a motion of the same actuator is left in the plan.
