--------------------------------- MODULE Mpes ---------------------------------
(***************************************************************************)
(* The edge sensors of a panel (src/common/alignment/mpes.cpp) behind their *)
(* server objects (src/server/controllers/mpescontroller.cpp), with the    *)
(* start of the server and the power of the panel as far as they touch     *)
(* them.  A sensor is a webcam on a USB port of the board.  It has no      *)
(* address: it is told from the others by switching its port off and on    *)
(* and looking which video device has come.                                *)
(*                                                                         *)
(* A method of the server is a list of operations of sensors that its      *)
(* thread works off; every operation asks whether the sensor is busy and   *)
(* then marks it so, which the model takes for one step (the code does not *)
(* lock it).                                                               *)
(***************************************************************************)
EXTENDS Integers, FiniteSets, FiniteSetsExt, Sequences

CONSTANTS
  NumSensors,
  Callers,              \* threads that serve calls of methods
  Main,                 \* the thread that starts the server
  CallsOf,              \* the methods each caller may call, with the sensor
  Target,               \* kNOMINAL_INTENSITY
  Num, Den,             \* kPRECISION = Num / Den
  MinExposure, MaxExposure, DefaultExposure,
  Bright, TooBright,    \* intensities of errors 4 and 3
  Images,               \* images of a reading
  Scenes,               \* what each sensor may see: intensity for a unit of
                        \* exposure, and how even the spot is
  Faults,               \* of each camera, among FaultKinds
  Overlap               \* TRUE: two ports may be toggled at the same time

Sensors == 1 .. NumSensors
Threads == Callers \cup {Main}
SensorMethods == {"TurnOn", "TurnOff", "Read", "SetExposure"}
PanelMethods == {"PanelTurnOn", "PanelTurnOff"}
PanelItself == 0
Methods == ((SensorMethods \cup {"Clear"}) \X Sensors) \cup (PanelMethods \X {PanelItself})
\* A camera that does not come up; images without a spot, that do not arrive,
\* or that stop arriving.
FaultKinds == {"dead", "dark", "timeout", "cut"}

ASSUME MpesAssumption ==
  /\ NumSensors \in Nat \ {0} /\ Main \notin Callers
  /\ CallsOf \in [Callers -> SUBSET Methods]
  /\ Faults \in [Sensors -> SUBSET FaultKinds]
  /\ Den \in Nat \ {0} /\ Num \in Nat /\ Num > Den
  /\ MinExposure \in Nat /\ MaxExposure \in Nat
  /\ DefaultExposure \in MinExposure .. MaxExposure
  /\ (MinExposure * Num) \div Den > MinExposure   \* a step up is one
  /\ Target \in Nat \ {0} /\ Images \in Nat \ {0}
  /\ Bright \in Nat /\ TooBright \in Nat
  /\ Scenes \in [Sensors -> SUBSET [gain : Nat, shape : {"even", "mild", "severe"}]]
  /\ Overlap \in BOOLEAN

VARIABLES
  usb,        \* power of the ports
  node,       \* the number of the video device each camera is
  panel,      \* m_On and m_Busy of the platform
  busy,       \* m_Busy of the sensors
  device,     \* m_pDevice with m_pImageSet
  position,   \* m_Position
  errors,     \* m_Errors
  pc,         \* what each thread does next
  loc,        \* its local variables
  dismissed   \* history: an operator has cleared an error of the sensor

hardware == <<usb, node>>
sensor == <<busy, device, position, errors>>
vars == <<hardware, panel, sensor, pc, loc, dismissed>>

NoNode == -1
Nodes == 0 .. NumSensors - 1
Fatal == {0, 1, 2, 3, 5, 7}

\* A reading, by what it really is: of is the camera that took it.
Reading(kind, s, intensity, shape) ==
  [kind |-> kind, of |-> s, intensity |-> intensity, shape |-> shape]
Unread(s) == Reading("unread", s, 0, "even")
Failed(s) == Reading("failed", s, -3, "even")
None(s) == Reading("none", s, 0, "even")

\* shot is what the arrays of the last Capture hold; none of them: its count
\* of images is zero.
NoDevice(s) == [id |-> NoNode, exposure |-> DefaultExposure, shot |-> None(s)]

\* scene is what the camera sees during the operation.
Dark == [gain |-> 0, shape |-> "even"]
NoLocals == [method |-> "idle", todo |-> <<>>, old |-> {}, extreme |-> FALSE,
             scene |-> Dark]
Op(name, s) == [op |-> name, s |-> s]
Now(t) == loc[t].todo[1].s
Doing(t) == loc[t].todo[1].op
ForEach(name) == [s \in Sensors |-> Op(name, s)]

At(t, step) == pc' = [pc EXCEPT ![t] = step]
ErrorState(s) == IF errors[s] \cap Fatal = {} THEN "operable" ELSE "fatal"
DeviceState(s) ==
  IF ~usb[s] THEN "Off" ELSE IF busy[s] THEN "Busy" ELSE "On"

Toggling == {"disable", "enable", "find"}
Working == Toggling \cup {"expose", "capture", "shut"}

-----------------------------------------------------------------------------
(* The cameras.                                                            *)

Used == {node[s] : s \in Sensors} \ {NoNode}
LowestFree == Min(Nodes \ Used)

Intensity(t, exposure) == loc[t].scene.gain * exposure
CamerasOf(s) == {c \in Sensors : node[c] # NoNode /\ node[c] = device[s].id}

\* What the arrays hold after a Capture with camera c: images without a spot
\* are thrown away and may leave none; a first image that does not arrive is
\* the only one, a later one is the last and is averaged with the others.
Shots(t, s, c) ==
  LET full == Intensity(t, device[s].exposure)
      shot(kind, intensity) == Reading(kind, c, intensity, loc[t].scene.shape)
  IN  {shot("measured", full)}
      \cup {None(s) : f \in Faults[c] \cap {"dark"}}
      \cup {Reading("failed", c, -2, "even") : f \in Faults[c] \cap {"timeout"}}
      \cup {shot("mixed", (k * full - 2) \div (k + 1)) :
              k \in {n \in 1 .. Images - 1 : "cut" \in Faults[c]}}

\* Error: a Capture that leaves no image keeps the count of the one before.
CapturesKeepCount(t, s) ==
  LET before == device[s].shot
      stale == [shot |-> before,
                shown |-> IF before.kind = "none" THEN Failed(s)
                          ELSE [before EXCEPT !.kind = "stale"]]
      shots == UNION {Shots(t, s, c) : c \in CamerasOf(s)} \ {None(c) : c \in Sensors}
  IN  {stale} \cup {[shot |-> x, shown |-> x] : x \in shots}

\* __updatePosition sees a count of images.  A Capture that cannot open its
\* camera returns that of the one before and has left its arrays alone.
Captures(t, s) ==
  IF CamerasOf(s) = {}
  THEN {[shot |-> device[s].shot,
         shown |-> IF device[s].shot.kind = "none" THEN Failed(s)
                   ELSE [device[s].shot EXCEPT !.kind = "stale"]]}
  ELSE {[shot |-> x, shown |-> IF x.kind = "none" THEN Failed(s) ELSE x] :
          x \in UNION {Shots(t, s, c) : c \in CamerasOf(s)}}

ReadingErrors(p) ==
  (IF p.intensity = -1 THEN {7} ELSE {})
  \cup (CASE p.intensity = -2 -> {1}
          [] p.intensity = -3 -> {0}
          [] p.intensity > Bright /\ p.intensity < TooBright -> {4}
          [] p.intensity > TooBright -> {3}
          [] OTHER -> {})
  \cup (CASE p.shape = "severe" -> {5} [] p.shape = "mild" -> {6} [] OTHER -> {})

-----------------------------------------------------------------------------
(* Operations of a sensor.                                                 *)

\* A thread is through with an operation: with the last one its method ends,
\* and with that of the panel its lock on the panel.
Drop(t) ==
  LET rest == Tail(loc[t].todo) IN
  IF rest = <<>>
  THEN /\ loc' = [loc EXCEPT ![t] = NoLocals]
       /\ At(t, "idle")
       /\ panel' = IF loc[t].method = "PanelTurnOn"
                   THEN [on |-> TRUE, busy |-> FALSE] ELSE panel
  ELSE /\ loc' = [loc EXCEPT ![t] = [NoLocals EXCEPT !.method = loc[t].method,
                                                    !.todo = rest]]
       /\ At(t, "next")
       /\ UNCHANGED panel
\* The end of an operation, where its CustomBusyLock is destroyed.
Finish(t) == Drop(t) /\ busy' = [busy EXCEPT ![Now(t)] = FALSE]

FirstStep(op) ==
  CASE op \in {"initialize", "turnOn"} -> "disable"
    [] op \in {"setExposure", "readjust"} -> "expose"
    [] op = "updatePosition" -> "capture"
    [] op = "turnOff" -> "shut"

\* A busy sensor refuses; MPESController::initialize also leaves one alone
\* that has a fatal error.
Refuse(t) ==
  /\ pc[t] = "next"
  /\ \/ busy[Now(t)]
     \/ Doing(t) = "readjust" /\ ErrorState(Now(t)) = "fatal"
  /\ Drop(t)
  /\ UNCHANGED <<hardware, sensor, dismissed>>

\* What the sensor sees stands still while it is worked on.
Lock(t) ==
  LET first == FirstStep(Doing(t)) IN
  /\ pc[t] = "next"
  /\ ~busy[Now(t)]
  /\ Doing(t) = "readjust" => ErrorState(Now(t)) # "fatal"
  /\ first = "disable" /\ ~Overlap => \A u \in Threads : pc[u] \notin Toggling
  /\ At(t, first)
  /\ busy' = [busy EXCEPT ![Now(t)] = TRUE]
  /\ \E x \in Scenes[Now(t)] :
       loc' = [loc EXCEPT ![t].extreme = TRUE, ![t].scene = x]
  /\ UNCHANGED <<hardware, panel, device, position, errors, dismissed>>

\* __initialize, in the three steps between which the board and the kernel act.
Disable(t) ==
  /\ pc[t] = "disable"
  /\ errors' = [errors EXCEPT ![Now(t)] = {}]
  /\ usb' = [usb EXCEPT ![Now(t)] = FALSE]
  /\ node' = [node EXCEPT ![Now(t)] = NoNode]
  /\ loc' = [loc EXCEPT ![t].old = Used \ {node[Now(t)]}]
  /\ dismissed' = [dismissed EXCEPT ![Now(t)] = FALSE]
  /\ At(t, "enable")
  /\ UNCHANGED <<panel, busy, device, position>>

Enable(t) ==
  /\ pc[t] = "enable"
  /\ usb' = [usb EXCEPT ![Now(t)] = TRUE]
  /\ \E n \in {LowestFree} \cup {NoNode : f \in Faults[Now(t)] \cap {"dead"}} :
       node' = [node EXCEPT ![Now(t)] = n]
  /\ At(t, "find")
  /\ UNCHANGED <<panel, sensor, loc, dismissed>>

\* Error: the video devices from before the toggling are not taken away.
FindLast(t) ==
  LET s == Now(t) IN
  /\ pc[t] = "find"
  /\ IF Used = {}
     THEN errors' = [errors EXCEPT ![s] = @ \cup {0}] /\ UNCHANGED device
     ELSE /\ device' = [device EXCEPT ![s] = [NoDevice(s) EXCEPT !.id = Max(Used)]]
          /\ UNCHANGED errors
  /\ IF Used # {} /\ Doing(t) = "turnOn"
     THEN At(t, "expose") /\ UNCHANGED <<panel, busy, loc>>
     ELSE Finish(t)
  /\ UNCHANGED <<hardware, position, dismissed>>

Find(t) ==
  LET s == Now(t)
      toggled == Used \ loc[t].old
  IN
  /\ pc[t] = "find"
  /\ \/ /\ Cardinality(toggled) = 1
        /\ device' = [device EXCEPT ![s] =
             [NoDevice(s) EXCEPT !.id = CHOOSE n \in toggled : TRUE]]
        /\ IF Doing(t) = "turnOn"
           THEN At(t, "expose") /\ UNCHANGED <<panel, busy, loc>>
           ELSE Finish(t)
        /\ UNCHANGED errors
     \/ /\ Cardinality(toggled) # 1
        /\ errors' = [errors EXCEPT ![s] = @ \cup {0}]
        /\ Finish(t)
        /\ UNCHANGED device
  /\ UNCHANGED <<hardware, position, dismissed>>

\* A pass of the loop of __setExposure: it looks at the shape of the reading
\* before, and gives up without one of its own if that was severely uneven.
GiveUp(t) ==
  LET s == Now(t) IN
  /\ pc[t] = "expose" /\ device[s].id # NoNode
  /\ position[s].shape = "severe"
  /\ errors' = [errors EXCEPT ![s] = @ \ {4, 5, 6}]
  /\ Finish(t)
  /\ UNCHANGED <<hardware, device, position, dismissed>>

TooDim(i) == i * Num < Target * Den
TooLight(i) == i * Den > Target * Num
InRange(i) == ~TooDim(i) /\ ~TooLight(i)
Limits == MinExposure .. MaxExposure

\* Far from the target it tries the limit first, and then goes step by step.
ExtremelyDim(i, exposure) == i * MaxExposure <= Target * exposure
ExtremelyLight(i, exposure) == i * MinExposure >= Target * exposure
\* Error: the limit is tried again and again.
NextExtreme(i, exposure, extreme) ==
  CASE ExtremelyDim(i, exposure) -> MaxExposure
    [] ~ExtremelyDim(i, exposure) /\ ExtremelyLight(i, exposure) -> MinExposure
    [] OTHER -> (exposure * Target) \div i

NextExposure(i, exposure, extreme) ==
  CASE ExtremelyDim(i, exposure) ->
         IF extreme THEN MaxExposure ELSE (exposure * Num) \div Den
    [] ~ExtremelyDim(i, exposure) /\ ExtremelyLight(i, exposure) ->
         IF extreme THEN MinExposure ELSE (exposure * Den) \div Num
    [] OTHER -> (exposure * Target) \div i

LoopsOn(i, next) == ~InRange(i) /\ next \in Limits

\* Error: an exposure below its limit is taken back without an error.
ExposureErrorsDimOnly(i, next) ==
  IF next > MaxExposure /\ i * Num <= Target * Den THEN {2} ELSE {}

\* What is left when the loop has ended: an exposure out of its limits is
\* taken back to the last one, and is an error unless the reading is right.
ExposureErrors(i, next) ==
  CASE next > MaxExposure /\ i * Num <= Target * Den -> {2}
    [] next < MinExposure /\ i * Den >= Target * Num -> {4}
    [] OTHER -> {}
\* Error: an exposure out of its limits is kept.
ExposureKept(exposure, next) == next

ExposureLeft(exposure, next) == IF next \in Limits THEN next ELSE exposure

\* Otherwise a pass takes a reading and sets the next exposure by it.
Measures(t) ==
  /\ pc[t] = "expose" /\ device[Now(t)].id # NoNode
  /\ position[Now(t)].shape # "severe"

Adjust(t) ==
  LET s == Now(t)
      exposure == device[s].exposure
  IN
  /\ Measures(t)
  /\ \E x \in Captures(t, s) :
       LET i == x.shown.intensity
           next == NextExposure(i, exposure, loc[t].extreme)
       IN
       /\ LoopsOn(i, next)
       /\ position' = [position EXCEPT ![s] = x.shown]
       /\ device' = [device EXCEPT ![s].shot = x.shot, ![s].exposure = next]
       /\ errors' = [errors EXCEPT ![s] = (@ \ {4, 5, 6}) \cup ReadingErrors(x.shown)]
       /\ loc' = [loc EXCEPT ![t].extreme =
            @ /\ ~ExtremelyDim(i, exposure) /\ ~ExtremelyLight(i, exposure)]
       /\ UNCHANGED <<hardware, panel, busy, pc, dismissed>>

Conclude(t) ==
  LET s == Now(t)
      exposure == device[s].exposure
  IN
  /\ Measures(t)
  /\ \E x \in Captures(t, s) :
       LET i == x.shown.intensity
           next == NextExposure(i, exposure, loc[t].extreme)
       IN
       /\ ~LoopsOn(i, next)
       /\ position' = [position EXCEPT ![s] = x.shown]
       /\ device' = [device EXCEPT ![s].shot = x.shot,
                                  ![s].exposure = ExposureLeft(exposure, next)]
       /\ errors' = [errors EXCEPT ![s] = (@ \ {4, 5, 6}) \cup ReadingErrors(x.shown)
                                            \cup ExposureErrors(i, next)]
       /\ Finish(t)
       /\ UNCHANGED <<hardware, dismissed>>

ReadCamera(t) ==
  LET s == Now(t) IN
  /\ pc[t] = "capture" /\ device[s].id # NoNode
  /\ \E x \in Captures(t, s) :
       /\ device' = [device EXCEPT ![s].shot = x.shot]
       /\ position' = [position EXCEPT ![s] = x.shown]
       /\ errors' = [errors EXCEPT ![s] = @ \cup ReadingErrors(x.shown)]
  /\ Finish(t)
  /\ UNCHANGED <<hardware, dismissed>>

Shut(t) ==
  /\ pc[t] = "shut"
  /\ usb' = [usb EXCEPT ![Now(t)] = FALSE]
  /\ node' = [node EXCEPT ![Now(t)] = NoNode]
  /\ Finish(t)
  /\ UNCHANGED <<device, position, errors, dismissed>>

\* Both use m_pDevice or m_pImageSet, which are null until a first
\* initialization has succeeded: the server goes down.
Crash(t) ==
  /\ pc[t] \in {"expose", "capture"} /\ device[Now(t)].id = NoNode
  /\ pc' = [u \in Threads |-> IF u = Main THEN "down" ELSE "idle"]
  /\ loc' = [u \in Threads |-> NoLocals]
  /\ panel' = [on |-> TRUE, busy |-> FALSE]
  /\ busy' = [s \in Sensors |-> FALSE]
  /\ device' = [s \in Sensors |-> NoDevice(s)]
  /\ position' = [s \in Sensors |-> Unread(s)]
  /\ errors' = [s \in Sensors |-> {}]
  /\ dismissed' = [s \in Sensors |-> FALSE]
  /\ UNCHANGED hardware

-----------------------------------------------------------------------------
(* Methods.                                                                *)

Begins(t, method, todo) ==
  /\ loc' = [loc EXCEPT ![t] = [NoLocals EXCEPT !.method = method, !.todo = todo]]
  /\ At(t, "next")

\* The board is set up with all its ports off; then the sensors are added and
\* their controllers initialized.
Start ==
  /\ pc[Main] = "down"
  /\ usb' = [s \in Sensors |-> FALSE]
  /\ node' = [s \in Sensors |-> NoNode]
  /\ Begins(Main, "Start", ForEach("initialize") \o ForEach("readjust"))
  /\ UNCHANGED <<panel, sensor, dismissed>>

Ready(c, method, s) ==
  pc[Main] = "idle" /\ pc[c] = "idle" /\ <<method, s>> \in CallsOf[c]

Operations(method, s) ==
  CASE method = "TurnOn" -> <<Op("turnOn", s), Op("readjust", s)>>
    [] method = "TurnOff" -> <<Op("turnOff", s)>>
    [] method = "Read" -> <<Op("updatePosition", s)>>
    [] method = "SetExposure" -> <<Op("setExposure", s)>>

\* operate of the sensor's controller.
Admits(s, method) ==
  /\ DeviceState(s) = IF method = "TurnOn" THEN "Off" ELSE "On"
  /\ method = "Read" => ErrorState(s) # "fatal"

Call(c) ==
  /\ \E method \in SensorMethods, s \in Sensors :
       /\ Ready(c, method, s) /\ Admits(s, method)
       /\ Begins(c, method, Operations(method, s))
  /\ UNCHANGED <<hardware, panel, sensor, dismissed>>

ClearErrors(c) ==
  /\ \E s \in Sensors : \E cleared \in {errors[s]} \cup {{e} : e \in errors[s]} :
       /\ Ready(c, "Clear", s) /\ DeviceState(s) # "Busy" /\ cleared # {}
       /\ errors' = [errors EXCEPT ![s] = @ \ cleared]
       /\ dismissed' = [dismissed EXCEPT ![s] = TRUE]
  /\ UNCHANGED <<hardware, panel, busy, device, position, pc, loc>>

\* A panel that is off is not busy for operate, even if it is being turned on.
PanelTurnOn(c) ==
  /\ Ready(c, "PanelTurnOn", PanelItself)
  /\ ~panel.on
  /\ panel' = [panel EXCEPT !.busy = TRUE]
  /\ Begins(c, "PanelTurnOn", ForEach("turnOn"))
  /\ UNCHANGED <<hardware, sensor, dismissed>>

\* powerDown switches every port off, whatever its sensor is at.
PanelTurnOff(c) ==
  /\ Ready(c, "PanelTurnOff", PanelItself)
  /\ ~panel.busy /\ panel.on
  /\ panel' = [panel EXCEPT !.on = FALSE]
  /\ usb' = [s \in Sensors |-> FALSE]
  /\ node' = [s \in Sensors |-> NoNode]
  /\ UNCHANGED <<sensor, pc, loc, dismissed>>

Init ==
  /\ usb = [s \in Sensors |-> FALSE]
  /\ node = [s \in Sensors |-> NoNode]
  /\ panel = [on |-> TRUE, busy |-> FALSE]
  /\ busy = [s \in Sensors |-> FALSE]
  /\ device = [s \in Sensors |-> NoDevice(s)]
  /\ position = [s \in Sensors |-> Unread(s)]
  /\ errors = [s \in Sensors |-> {}]
  /\ pc = [t \in Threads |-> IF t = Main THEN "down" ELSE "idle"]
  /\ loc = [t \in Threads |-> NoLocals]
  /\ dismissed = [s \in Sensors |-> FALSE]

Initializing(t) == Disable(t) \/ Enable(t) \/ Find(t)
Exposing(t) == GiveUp(t) \/ Adjust(t) \/ Conclude(t)
Step(t) == Refuse(t) \/ Lock(t) \/ Initializing(t) \/ Exposing(t)
             \/ ReadCamera(t) \/ Shut(t) \/ Crash(t)
Calls(c) == Call(c) \/ ClearErrors(c) \/ PanelTurnOn(c) \/ PanelTurnOff(c)

Next ==
  \/ Start
  \/ \E t \in Threads : Step(t)
  \/ \E c \in Callers : Calls(c)

Spec == Init /\ [][Next]_vars
\* A thread that has something to do goes on; nobody need call or restart.
\* Where ports are not toggled together a thread may find others toggling time
\* and again: the code would not make it wait, so that it is not left out.
FairSpec == Spec /\ \A c \in Callers : WF_vars(Step(c)) /\ SF_vars(Lock(c))

-----------------------------------------------------------------------------
(* Properties.                                                             *)

\* Every variable has its type.
MpesTypeOK ==
  /\ usb \in [Sensors -> BOOLEAN]
  /\ node \in [Sensors -> Nodes \cup {NoNode}]
  /\ panel \in [on : BOOLEAN, busy : BOOLEAN]
  /\ busy \in [Sensors -> BOOLEAN]
  /\ \A s \in Sensors : /\ device[s].id \in Nodes \cup {NoNode}
                        /\ device[s].exposure \in Limits
                        /\ position[s].intensity \in Int
                        /\ errors[s] \subseteq 0 .. 7
  /\ pc \in [Threads -> Working \cup {"down", "idle", "next"}]
  /\ dismissed \in [Sensors -> BOOLEAN]

\* A sensor that is on and at rest and has not lost its connection (error 0)
\* reads its own camera, whatever was switched off and on in the meantime and
\* however the numbers of the video devices have moved (mpes.cpp:113).
AtRest(s) == DeviceState(s) = "On" /\ ~dismissed[s]
OwnCamera ==
  \A s \in Sensors :
    AtRest(s) /\ pc[Main] = "idle" /\ 0 \notin errors[s]
      => device[s].id # NoNode /\ node[s] = device[s].id

\* What the position of such a sensor says was measured by its own camera: a
\* reading that failed is a fatal error (mpes.cpp:283).  A severely uneven
\* reading is left out, as it may survive the loss of its error (GiveUp).
TruePosition ==
  \A s \in Sensors :
    AtRest(s) /\ pc[Main] = "idle" /\ ErrorState(s) # "fatal"
      /\ position[s].shape # "severe"
      => position[s].kind = "measured" /\ position[s].of = s

\* When __setExposure ends, the exposure that it leaves on the device (which
\* its last reading was not taken with) gives an intensity in the range around
\* the target, or an error says what is wrong (mpes.cpp:242): unless the panel
\* has been switched off meanwhile, or an operator has cleared an error of it.
ExposureRight ==
  [][\A t \in Threads : Conclude(t) =>
       LET s == Now(t) IN
       \/ ~usb[s] \/ dismissed[s]
       \/ CamerasOf(s) # {} /\ InRange(Intensity(t, device'[s].exposure))
       \/ errors'[s] \cap {0, 1, 2, 3, 4} # {}]_vars

\* A thread is again and again through with its method: a busy sensor refuses
\* rather than makes it wait, and the loop of __setExposure finds an exposure
\* or its limits in steady light (mpes.cpp:185) unless its readings fail again
\* and again in between.
ReadingFails(c) == pc[c] = "expose" /\ position[Now(c)].kind # "measured"
MethodsEnd == \A c \in Callers : []<>(pc[c] = "idle") \/ []<>ReadingFails(c)
=============================================================================
