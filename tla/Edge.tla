--------------------------------- MODULE Edge ---------------------------------
(***************************************************************************)
(* The edges of a mirror in the alignment client                           *)
(* (src/client/controllers/edgecontroller.cpp), together with the moves an *)
(* operator asks of a single panel (panelcontroller.cpp), which read the   *)
(* sensors of its edges.  Methods run in a pool of threads, here callers;  *)
(* the state of an edge, which nothing locks, is all that keeps them apart *)
(* and all that tells a running method to stop.                            *)
(***************************************************************************)
EXTENDS ClientPanel, FiniteSetsExt

CONSTANTS
  Actuators,       \* the actuators of a panel
  PanelsOf,        \* the panels of each edge
  InnerRing,       \* the panels of the inner ring (P1, S1)
  Callers,         \* threads that run methods
  MethodsOf,       \* the methods each caller may call
  Fractions,       \* align fractions asked for, out of Whole
  SendFails,       \* the methods whose calls may fail to be sent
  Race,            \* TRUE: a stop or another method may come between a
                   \* method's look at the state and its setting it to Busy,
                   \* and a method may begin before a stop has reached the panels
  Delay            \* when a call that was sent has reached its server:
                   \* "short": within the 5 s that some callers sleep, and
                   \* before an operator calls the next method,
                   \* "long": at any time

Methods == {"FindMatrix", "Calculate", "SetAlignFrac", "Execute", "Read",
            "Stop", "PanelMove"}

ASSUME EdgeAssumption ==
  /\ Edges # {}
  /\ PanelsOf \in [Edges -> SUBSET Panels]
  /\ \A e \in Edges : Cardinality(PanelsOf[e]) \in {2, 3}
  /\ MethodsOf \in [Callers -> SUBSET Methods]
  /\ Actuators \subseteq Nat \ {0} /\ IsFiniteSet(Actuators)
  /\ Actuators # {}
  /\ InnerRing \subseteq Panels
  /\ Fractions \subseteq 1 .. Whole
  /\ SendFails \subseteq Methods \cup {Mirror} /\ Race \in BOOLEAN
  /\ Delay \in {"short", "long"}

VARIABLES
  state,      \* m_State of each edge
  calc,       \* m_Xcalculated
  frac,       \* m_lastSetAlignFrac, 0 for the negative one
  pc,         \* what each caller does next
  loc,        \* its local variables; owed is history: the actuators that a
              \* response matrix has sent out and not yet asked back
  applied,    \* history: parts of a calculated motion sent to a panel
  told,       \* history: 0, or 1 and the motions a response matrix has sent
              \* since its edge was stopped.  Bound: 3
  abandoned   \* history: edges whose response matrix failed to send

edgeVars == <<state, calc, frac, applied, told, abandoned>>
vars == <<panelVars, edgeVars, pc, loc>>

\* A calculated motion, for the panels it is to move.
NoMotion == [id |-> 0, moved |-> {}]
Calculated ==
  [id : Calculations, moved : (SUBSET Panels) \ {{}}] \cup {NoMotion}

NoLocals == [method |-> "Read", edge |-> CHOOSE e \in Edges : TRUE,
             moved |-> {}, fraction |-> Whole, x |-> NoMotion, todo |-> {},
             panel |-> 0, actuator |-> 0, reads |-> {},
             at |-> CHOOSE e \in Edges : TRUE, hit |-> FALSE,
             for |-> "operator", owed |-> {}]

Locals ==
  [method : Methods, edge : Edges, moved : SUBSET Panels, fraction : 1 .. Whole,
   x : Calculated, todo : SUBSET Panels, panel : Panels \cup {0},
   actuator : Actuators \cup {0}, reads : SUBSET Edges, at : Edges,
   hit : BOOLEAN, for : {"operator", "mirror"},
   owed : SUBSET (Panels \X Actuators)]

Phases == {"idle", "admitted", "good", "bad",
           "nextPanel", "stepOut", "waitOut", "readAgain", "stepBack", "waitBack",
           "reading", "solving", "read", "setting", "check", "compare",
           "executing", "sending", "panelWait", "stopping"}

EdgesOf(p) == {e \in Edges : p \in PanelsOf[e]}

\* The panels an alignment may move: one panel of an edge of two; the panel of
\* the inner ring or the two others of an edge of three.
AlignChoices(e) ==
  IF Cardinality(PanelsOf[e]) = 2
    THEN { {p} : p \in PanelsOf[e] }
    ELSE UNION { {{p}, PanelsOf[e] \ {p}} : p \in PanelsOf[e] \cap InnerRing }

-----------------------------------------------------------------------------
(* Threads *)

\* Back to the operator, or to the sequence of the mirror that called.
Return(c, status) ==
  /\ pc' = [pc EXCEPT ![c] = IF loc[c].for = "operator" THEN "idle" ELSE status]
  /\ loc' = [loc EXCEPT ![c] = NoLocals]
  /\ told' = [told EXCEPT ![c] = 0]

GoOn(c, phase, locals) ==
  /\ pc' = [pc EXCEPT ![c] = phase]
  /\ loc' = [loc EXCEPT ![c] = locals]

Goto(c, phase) == GoOn(c, phase, loc[c])

E(c) == loc[c].edge
SetState(e, s) == state' = [state EXCEPT ![e] = s]

\* The method is over and leaves the state behind that it sets last.
EndOn(c, status) == SetState(E(c), "On") /\ Return(c, status)

Step(c, method, phase) == pc[c] = phase /\ loc[c].method = method

Arguments(m, e) ==
  IF m \in {"Calculate", "SetAlignFrac", "Execute"}
    THEN [moved : AlignChoices(e),
          fraction : IF m = "Calculate" THEN {Whole} ELSE Fractions]
    ELSE {[moved |-> {}, fraction |-> Whole]}

Landed == Delay = "short" => \A p \in Panels : sent[p] = {}

NobodyAdmitted == \A d \in Callers : pc[d] # "admitted"

\* operate: a busy edge refuses everything but a stop.
NobodyStops ==
  (\A d \in Callers : pc[d] # "stopping") /\ (\A p \in Panels : ~stops[p])
Admits(e) == state[e] # "Busy" /\ (Race \/ (NobodyAdmitted /\ NobodyStops))

Call(c) ==
  /\ pc[c] = "idle" /\ Landed
  /\ \E m \in MethodsOf[c] \ {"Stop", "PanelMove"}, e \in Edges :
       /\ Admits(e)
       /\ \E a \in Arguments(m, e) :
            GoOn(c, "admitted", [NoLocals EXCEPT !.method = m, !.edge = e,
                   !.moved = a.moved, !.fraction = a.fraction])
  /\ UNCHANGED <<panelVars, edgeVars>>

-----------------------------------------------------------------------------
(* Stop *)

Tell(e) == [d \in Callers |->
              IF loc[d].method = "FindMatrix" /\ E(d) = e /\ told[d] = 0
                THEN 1 ELSE told[d]]

\* Error: the panels are stopped, but no running method is told.
StopPanelsOnly(c, e, locals) ==
  /\ Race \/ NobodyAdmitted
  /\ GoOn(c, "stopping", [locals EXCEPT !.method = "Stop", !.edge = e,
                                        !.todo = PanelsOf[e]])
  /\ told' = Tell(e)
  /\ UNCHANGED state

\* Every running method is told by the state; then the panels are stopped.
StopEdge(c, e, locals) ==
  /\ Race \/ NobodyAdmitted
  /\ SetState(e, "Off")
  /\ GoOn(c, "stopping", [locals EXCEPT !.method = "Stop", !.edge = e,
                                        !.todo = PanelsOf[e]])
  /\ told' = Tell(e)

StopBegin(c) ==
  /\ pc[c] = "idle" /\ "Stop" \in MethodsOf[c]
  /\ \E e \in Edges : StopEdge(c, e, NoLocals)
  /\ UNCHANGED <<panelVars, calc, frac, applied, abandoned>>

StopPanel(c) ==
  /\ Step(c, "Stop", "stopping")
  /\ IF loc[c].todo = {} THEN Return(c, "good") /\ UNCHANGED stops
     ELSE LET p == Min(loc[c].todo)
          IN  /\ stops' = [stops EXCEPT ![p] = TRUE]
              /\ GoOn(c, "stopping", [loc[c] EXCEPT !.todo = @ \ {p}])
              /\ UNCHANGED told
  /\ UNCHANGED <<sent, moving, state, calc, frac, applied,
                 abandoned>>

-----------------------------------------------------------------------------
(* findMatrix and findSingleMatrix *)

BeginMatrix(c) ==
  /\ Step(c, "FindMatrix", "admitted")
  /\ SetState(E(c), "Busy")
  /\ GoOn(c, "nextPanel", [loc[c] EXCEPT !.todo = PanelsOf[E(c)]])
  /\ abandoned' = abandoned \ {E(c)}
  /\ UNCHANGED <<panelVars, calc, frac, applied, told>>

NextPanel(c) ==
  /\ Step(c, "FindMatrix", "nextPanel")
  /\ IF loc[c].todo = {} \/ state[E(c)] = "Off"
     THEN EndOn(c, "good")
     ELSE /\ LET p == Min(loc[c].todo)
             IN  GoOn(c, "stepOut", [loc[c] EXCEPT !.todo = @ \ {p},
                        !.panel = p, !.actuator = Min(Actuators)])
          /\ UNCHANGED <<state, told>>
  /\ UNCHANGED <<panelVars, calc, frac, applied, abandoned>>

\* One call of __moveDeltaLengths by the response matrix.  If it cannot be
\* sent, findMatrix returns and leaves the state as it is.
SendStep(c, back, next) ==
  LET p == loc[c].panel
      m == [kind |-> "step", back |-> back]
      step == {<<p, loc[c].actuator>>}
  IN  /\ \/ /\ MaySend(p, m) /\ sent' = Sent(p, m)
            /\ GoOn(c, next, [loc[c] EXCEPT !.owed = IF back THEN @ \ step
                                                             ELSE @ \cup step])
            /\ told' = [told EXCEPT ![c] = IF @ \in {1, 2} THEN @ + 1 ELSE @]
            /\ UNCHANGED abandoned
         \/ /\ "FindMatrix" \in SendFails
            /\ abandoned' = abandoned \cup {E(c)}
            /\ Return(c, "bad")
            /\ UNCHANGED sent
      /\ UNCHANGED <<stops, moving, state, calc, frac, applied>>

\* The sensors are read, and the actuator moves.
StepOut(c) ==
  Step(c, "FindMatrix", "stepOut") /\ SendStep(c, FALSE, "waitOut")

\* The panel is asked for its state until it is not busy.  The first look comes at
\* once: a step that has not begun, or was refused, is taken for one that is over.
SeenIdle(c) == ~Busy(loc[c].panel)

Later(c) == {a \in Actuators : a > loc[c].actuator}

NextActuator(c) ==
  IF Later(c) = {} THEN Goto(c, "nextPanel")
  ELSE GoOn(c, "stepOut", [loc[c] EXCEPT !.actuator = Min(Later(c))])

\* Error: after a stop the actuator is left where it is, and the next one moved.
WaitOutAndGoOn(c) ==
  /\ Step(c, "FindMatrix", "waitOut") /\ SeenIdle(c)
  /\ IF state[E(c)] = "Off" THEN NextActuator(c) ELSE Goto(c, "readAgain")
  /\ UNCHANGED <<panelVars, edgeVars>>

WaitOut(c) ==
  /\ Step(c, "FindMatrix", "waitOut") /\ SeenIdle(c)
  /\ Goto(c, IF state[E(c)] = "Off" THEN "nextPanel" ELSE "readAgain")
  /\ UNCHANGED <<panelVars, edgeVars>>

\* The sensors are read again, and then the state.
ReadAgain(c) ==
  /\ Step(c, "FindMatrix", "readAgain")
  /\ Goto(c, IF state[E(c)] = "Off" THEN "nextPanel" ELSE "stepBack")
  /\ UNCHANGED <<panelVars, edgeVars>>

\* The actuator moves back.
StepBack(c) ==
  Step(c, "FindMatrix", "stepBack") /\ SendStep(c, TRUE, "waitBack")

WaitBack(c) ==
  /\ Step(c, "FindMatrix", "waitBack") /\ SeenIdle(c)
  /\ IF state[E(c)] = "Off" THEN Goto(c, "nextPanel") ELSE NextActuator(c)
  /\ UNCHANGED <<panelVars, edgeVars>>

-----------------------------------------------------------------------------
(* Reading the sensors: getCurrentReadings sets the state, whoever calls *)

BeginReading(c) ==
  /\ pc[c] = "admitted" /\ loc[c].method \in {"Calculate", "Read"}
  /\ SetState(E(c), "Busy")
  /\ Goto(c, "reading")
  /\ UNCHANGED <<panelVars, calc, frac, applied, told, abandoned>>

EndReading(c) ==
  /\ pc[c] = "reading"
  /\ SetState(E(c), "On")
  /\ Goto(c, IF loc[c].method = "Read" THEN "read" ELSE "solving")
  /\ UNCHANGED <<panelVars, calc, frac, applied, told, abandoned>>

\* Read looks for a stop only now.
EndRead(c) ==
  /\ Step(c, "Read", "read")
  /\ IF state[E(c)] = "Off" THEN EndOn(c, "good")
                            ELSE Return(c, "good") /\ UNCHANGED state
  /\ UNCHANGED <<panelVars, calc, frac, applied, abandoned>>

-----------------------------------------------------------------------------
(* align: calculate, setAlignFrac, execute *)

\* A number for a calculation that no motion on its way or held by a thread has.
Unused(of, held) ==
  {n \in Calculations \ held :
     \A p \in Panels : \A m \in sent[p] \cup {moving[p]} :
       m \in FitMotions => m.of # of \/ m.id # n}

Forget(of, n) == applied' = {a \in applied : a[2] # of \/ a[3] # n}

\* The motion of a fit, which is zero if nothing is out of place, or an error:
\* too few sensors, no solution.  The fraction stays.
Calculate(c) ==
  LET e == E(c)
      numbers == Unused(e, {loc[d].x.id : d \in {d \in Callers : E(d) = e}})
  IN
  /\ Step(c, "Calculate", "solving")
  /\ \/ /\ numbers # {}
        /\ LET n == Min(numbers)
           IN  /\ \E x \in {[id |-> n, moved |-> loc[c].moved], NoMotion} :
                    calc' = [calc EXCEPT ![e] = x]
               /\ Forget(e, n)
        /\ EndOn(c, "good")
     \/ UNCHANGED <<calc, applied>> /\ EndOn(c, "bad")
  /\ UNCHANGED <<panelVars, frac, abandoned>>

BeginAlign(c) ==
  /\ pc[c] = "admitted" /\ loc[c].method \in {"SetAlignFrac", "Execute"}
  /\ SetState(E(c), "Busy")
  /\ Goto(c, IF loc[c].method = "Execute" THEN "executing" ELSE "setting")
  /\ UNCHANGED <<panelVars, calc, frac, applied, told, abandoned>>

\* The fraction is set before the collisions are checked.
SetFraction(c) ==
  LET e == E(c)
      p == Min(loc[c].moved)
  IN  /\ Step(c, "SetAlignFrac", "setting")
      /\ IF calc[e] = NoMotion THEN EndOn(c, "bad") /\ UNCHANGED frac
         ELSE /\ frac' = [frac EXCEPT ![e] = loc[c].fraction]
              /\ GoOn(c, "check", [loc[c] EXCEPT !.x = calc[e],
                        !.todo = loc[c].moved \ {p}, !.panel = p,
                        !.reads = EdgesOf(p)])
              /\ UNCHANGED <<state, told>>
      /\ UNCHANGED <<panelVars, calc, applied, abandoned>>

\* checkForCollision reads the sensors of every edge of the panel, or takes
\* lengths that it cannot read for a collision.
CheckEdgeAgain(c) ==   \* Error: never goes on to the next edge.
  /\ pc[c] = "check" /\ loc[c].reads # {}
  /\ LET e == CHOOSE e \in loc[c].reads : TRUE
     IN  /\ SetState(e, "Busy")
         /\ GoOn(c, "compare", [loc[c] EXCEPT !.at = e])
  /\ UNCHANGED <<panelVars, calc, frac, applied, told, abandoned>>

CheckEdge(c) ==
  /\ pc[c] = "check" /\ loc[c].reads # {}
  /\ LET e == CHOOSE e \in loc[c].reads : TRUE
     IN  /\ SetState(e, "Busy")
         /\ GoOn(c, "compare", [loc[c] EXCEPT !.at = e, !.reads = @ \ {e}])
  /\ UNCHANGED <<panelVars, calc, frac, applied, told, abandoned>>

CompareEdge(c) ==
  /\ pc[c] = "compare"
  /\ SetState(loc[c].at, "On")
  /\ \E hit \in BOOLEAN :
       GoOn(c, "check", [loc[c] EXCEPT !.hit = @ \/ hit])
  /\ UNCHANGED <<panelVars, calc, frac, applied, told, abandoned>>

Part(e, x, fraction, part) ==
  [kind |-> "fit", of |-> e, id |-> x.id, fraction |-> fraction, part |-> part]

\* What is checked for every panel is the first part of the motion, with the
\* fraction applied twice; the fraction stays set if that is a collision.
JudgeFraction(c) ==
  LET l == loc[c] IN
  /\ Step(c, "SetAlignFrac", "check") /\ l.reads = {}
  /\ IF l.hit \/ l.todo = {} THEN EndOn(c, IF l.hit THEN "bad" ELSE "good")
     ELSE LET p == Min(l.todo)
          IN  /\ GoOn(c, "check", [l EXCEPT !.todo = @ \ {p}, !.panel = p,
                                            !.reads = EdgesOf(p)])
              /\ UNCHANGED <<state, told>>
  /\ UNCHANGED <<panelVars, calc, frac, applied, abandoned>>

\* The fraction must be the last one set; the panels need not be the same.
MayExecute(c) ==
  /\ calc[E(c)] # NoMotion
  /\ frac[E(c)] = loc[c].fraction

\* Error: an execution that is refused leaves the edge busy.
BeginExecuteOrHang(c) ==
  /\ Step(c, "Execute", "executing")
  /\ IF MayExecute(c)
     THEN /\ GoOn(c, "sending", [loc[c] EXCEPT !.x = calc[E(c)],
                                               !.todo = loc[c].moved])
          /\ UNCHANGED told
     ELSE Return(c, "bad")
  /\ UNCHANGED <<panelVars, state, calc, frac, applied, abandoned>>

BeginExecute(c) ==
  /\ Step(c, "Execute", "executing")
  /\ IF MayExecute(c)
     THEN /\ GoOn(c, "sending", [loc[c] EXCEPT !.x = calc[E(c)],
                                               !.todo = loc[c].moved])
          /\ UNCHANGED <<state, told>>
     ELSE EndOn(c, "bad")
  /\ UNCHANGED <<panelVars, calc, frac, applied, abandoned>>

\* The second panel gets the elements from the eighth on, of twelve.  If a call
\* cannot be sent the motion stays calculated.
SendPart(c) ==
  LET l == loc[c]
      p == Min(l.todo)
      m == Part(l.edge, l.x, l.fraction,
                IF p = Min(l.moved) THEN Min(l.x.moved) ELSE Garbled)
  IN  /\ Step(c, "Execute", "sending") /\ l.todo # {}
      /\ \/ /\ MaySend(p, m) /\ sent' = Sent(p, m)
            /\ applied' = applied \cup {<<p, l.edge, l.x.id>>}
            /\ GoOn(c, "sending", [l EXCEPT !.todo = @ \ {p}])
            /\ UNCHANGED <<state, told>>
         \/ /\ "Execute" \in SendFails
            /\ EndOn(c, "bad")
            /\ Forget(l.edge, l.x.id)
            /\ UNCHANGED sent
      /\ UNCHANGED <<stops, moving, calc, frac, abandoned>>

\* Error: the motion stays calculated.
EndExecuteKeeping(c) ==
  /\ Step(c, "Execute", "sending") /\ loc[c].todo = {}
  /\ EndOn(c, "good")
  /\ UNCHANGED <<panelVars, calc, frac, applied, abandoned>>

\* Error: of the motion only its number is reset.
EndExecuteHalf(c) ==
  /\ Step(c, "Execute", "sending") /\ loc[c].todo = {}
  /\ calc' = [calc EXCEPT ![E(c)].id = 0]
  /\ frac' = [frac EXCEPT ![E(c)] = 0]
  /\ EndOn(c, "good")
  /\ UNCHANGED <<panelVars, applied, abandoned>>

EndExecute(c) ==
  /\ Step(c, "Execute", "sending") /\ loc[c].todo = {}
  /\ calc' = [calc EXCEPT ![E(c)] = NoMotion]
  /\ frac' = [frac EXCEPT ![E(c)] = 0]
  /\ EndOn(c, "good")
  /\ UNCHANGED <<panelVars, applied, abandoned>>

-----------------------------------------------------------------------------
(* The move of one panel: PanelController::operate of the client *)

CallPanelMove(c) ==
  /\ pc[c] = "idle" /\ "PanelMove" \in MethodsOf[c] /\ Landed
  /\ \E p \in Panels :
       /\ ~Busy(p)
       /\ GoOn(c, "check", [NoLocals EXCEPT !.method = "PanelMove", !.panel = p,
                                            !.reads = EdgesOf(p)])
  /\ UNCHANGED <<panelVars, edgeVars>>

\* Whether the call can be sent or not, the caller waits.
SendPanelMove(c) ==
  LET p == loc[c].panel IN
  /\ Step(c, "PanelMove", "check") /\ loc[c].reads = {}
  /\ IF loc[c].hit THEN Return(c, "bad") /\ UNCHANGED sent
     ELSE /\ \/ MaySend(p, PanelMotion) /\ sent' = Sent(p, PanelMotion)
             \/ "PanelMove" \in SendFails /\ UNCHANGED sent
          /\ Goto(c, "panelWait")
          /\ UNCHANGED told
  /\ UNCHANGED <<stops, moving, state, calc, frac, applied,
                 abandoned>>

EndPanelMove(c) ==
  /\ Step(c, "PanelMove", "panelWait") /\ SeenIdle(c)
  /\ Delay = "short" => sent[loc[c].panel] = {}
  /\ Return(c, "good")
  /\ UNCHANGED <<panelVars, state, calc, frac, applied, abandoned>>

-----------------------------------------------------------------------------
EdgeInit ==
  /\ PanelInit
  /\ state = [e \in Edges |-> "On"]
  /\ calc = [e \in Edges |-> NoMotion]
  /\ frac = [e \in Edges |-> 0]
  /\ pc = [c \in Callers |-> "idle"]
  /\ loc = [c \in Callers |-> NoLocals]
  /\ applied = {} /\ abandoned = {}
  /\ told = [c \in Callers |-> 0]

Matrix(c) == BeginMatrix(c) \/ NextPanel(c) \/ StepOut(c) \/ WaitOut(c)
               \/ ReadAgain(c) \/ StepBack(c) \/ WaitBack(c)

Align(c) == Calculate(c) \/ BeginAlign(c) \/ SetFraction(c) \/ JudgeFraction(c)
              \/ BeginExecute(c) \/ SendPart(c) \/ EndExecute(c)

Reading(c) == BeginReading(c) \/ EndReading(c) \/ EndRead(c)
                \/ CheckEdge(c) \/ CompareEdge(c)

Run(c) == StopPanel(c) \/ Matrix(c) \/ Reading(c) \/ Align(c)
            \/ SendPanelMove(c) \/ EndPanelMove(c)

Served(A) == A /\ UNCHANGED <<edgeVars, pc, loc>>
Servers == \E p \in Panels : Served(PanelStep(p))

Next ==
  \/ \E c \in Callers : Call(c) \/ CallPanelMove(c) \/ StopBegin(c) \/ Run(c)
  \/ Servers

Spec == EdgeInit /\ [][Next]_vars

\* Running threads go on, and the server of a panel begins, ends and stops what
\* it has been asked to.
FairSpec ==
  /\ Spec
  /\ \A c \in Callers : WF_vars(Run(c))
  /\ \A p \in Panels : /\ WF_vars(Served(Begin(p)))
                       /\ WF_vars(Served(Finish(p)))
                       /\ WF_vars(Served(Stop(p)))

-----------------------------------------------------------------------------
(* Properties *)

TypeOK ==
  /\ PanelTypeOK
  /\ state \in [Edges -> {"On", "Busy", "Off"}]
  /\ calc \in [Edges -> Calculated]
  /\ frac \in [Edges -> 0 .. Whole]
  /\ pc \in [Callers -> Phases]
  /\ loc \in [Callers -> Locals]
  /\ applied \subseteq Panels \X (Edges \cup {Mirror}) \X Calculations
  /\ told \in [Callers -> 0 .. 3]
  /\ abandoned \subseteq Edges

\* "here, we want it to actually complete before the next step. So we wait"
\* (edgecontroller.cpp, findSingleMatrix): when the sensors are read no step that
\* the panel was asked for is on its way or being made.  The code does not keep
\* this, since it looks before the step has begun.
MatrixWaits ==
  \A c \in Callers :
    pc[c] \in {"stepOut", "readAgain"} =>
      (sent[loc[c].panel] \cup {moving[loc[c].panel]}) \cap StepMotions = {}

\* "move the same actuator back" (findSingleMatrix): at most one actuator of the
\* edge has been sent out and not asked back, however the matrix is stopped and
\* whichever calls fail; and it goes on to the next panel, or ends, with one out
\* only if it was told to stop.
StepsAskedBack ==
  \A c \in Callers :
    loc[c].method = "FindMatrix" /\ pc[c] # "admitted" =>
      /\ \A s, t \in loc[c].owed : s = t
      /\ pc[c] = "nextPanel" /\ told[c] = 0 => loc[c].owed = {}

\* "Turn state off to stop all methods" (Stop of operate): once an edge has been
\* stopped its response matrix makes the step it is about to make, and no more.
StopHeeded == \A c \in Callers : told[c] <= 2

\* Every part of a calculated motion is sent at most once: what has been
\* executed cannot be executed again.
AppliedOnce ==
  [][\A p \in Panels :
       \A m \in sent'[p] \ sent[p] :
         m \in FitMotions => <<p, m.of, m.id>> \notin applied]_vars

\* An edge does not stay busy when nothing runs, but after a response matrix
\* that could not send its steps.
BusyMeansRunning ==
  (\A c \in Callers : pc[c] = "idle") =>
    \A e \in Edges : state[e] = "Busy" => e \in abandoned

\* Every method comes to an end.
MethodsEnd == \A c \in Callers : pc[c] # "idle" ~> pc[c] = "idle"
=============================================================================
