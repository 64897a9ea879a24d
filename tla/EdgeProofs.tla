------------------------------ MODULE EdgeProofs ------------------------------
(***************************************************************************)
(* The edges of the alignment client for every set of panels, edges and    *)
(* callers: their types, and what holds when only one thread aligns,       *)
(* measures, or does anything but stop.                                    *)
(***************************************************************************)
EXTENDS Edge, FiniteSetTheorems, WellFoundedInduction, TLAPS

-----------------------------------------------------------------------------
(* Least numbers, and the panels of an alignment *)

\* A nonempty set of numbers has a least element.
LEMMA LeastMember ==
  ASSUME NEW S \in SUBSET Nat, S # {}
  PROVE  Min(S) \in S
<1> DEFINE R == OpToRel(<, Nat)
<1>1. IsWellFoundedOn(R, Nat)
  BY NatLessThanWellFounded
<1>2. \A x, y \in S : y < x => <<y, x>> \in R
  BY DEF OpToRel
<1> HIDE DEF R
<1>3. PICK x \in S : \A y \in S : ~(<<y, x>> \in R)
  BY <1>1, WFMin
<1>4. \A y \in S : ~(y < x)
  BY <1>2, <1>3
<1>5. \E z \in S : \A y \in S : z <= y
  BY <1>4, SMT
<1> QED
  BY <1>5 DEF Min

LEMMA LeastPanel ==
  ASSUME NEW S \in SUBSET Panels, S # {}
  PROVE  Min(S) \in S /\ Min(S) \in Panels
BY LeastMember, ClientAssumption

\* An alignment moves some panel: an edge of three has others than the inner one.
LEMMA ChoicesMove ==
  ASSUME NEW e \in Edges, NEW moved \in AlignChoices(e)
  PROVE  moved \in SUBSET Panels /\ moved # {}
<1>1. PanelsOf[e] \in SUBSET Panels
  BY EdgeAssumption
<1>2. CASE Cardinality(PanelsOf[e]) = 2
  BY <1>1, <1>2 DEF AlignChoices
<1>3. CASE Cardinality(PanelsOf[e]) # 2
  <2>1. PICK p \in PanelsOf[e] : moved \in {{p}, PanelsOf[e] \ {p}}
    BY <1>3 DEF AlignChoices
  <2>2. PanelsOf[e] # {p}
    <3>1. Cardinality({p}) = 1
      BY FS_Singleton
    <3>2. Cardinality(PanelsOf[e]) = 3
      BY <1>3, EdgeAssumption
    <3> QED BY <3>1, <3>2
  <2> QED BY <1>1, <2>1, <2>2
<1> QED BY <1>2, <1>3

-----------------------------------------------------------------------------
(* The type invariant *)

\* The phases outside a method: the mirror has yet to look at what a method that
\* it called has returned.
Ended == {"idle", "good", "bad"}

\* The methods of an edge that the mirror calls.
MirrorCalls == {"Calculate", "SetAlignFrac", "Execute", "Stop"}

\* What the locals of a caller are in each phase of its method, whether the
\* operator or the mirror has called it.
Aligning == {"Calculate", "SetAlignFrac", "Execute"}
Stepping == {"stepOut", "waitOut", "readAgain", "stepBack", "waitBack"}

LocalsOK(c, phase, l) ==
  /\ l \in Locals
  /\ phase \in Ended => l = NoLocals
  /\ phase \notin Ended =>
       l.method \in IF l.for = "operator" THEN MethodsOf[c] ELSE MirrorCalls
  /\ l.method \in Aligning => l.moved # {}
  /\ phase \in Stepping => l.panel \in Panels /\ l.actuator \in Actuators
  /\ phase \in Stepping \cup {"nextPanel"} => l.method = "FindMatrix"
  /\ phase = "reading" => l.method \in {"Calculate", "Read"}
  /\ phase = "read" => l.method = "Read"
  /\ phase = "solving" => l.method = "Calculate"
  /\ phase = "setting" => l.method = "SetAlignFrac"
  /\ phase = "executing" => l.method = "Execute"
  /\ phase = "panelWait" => l.method = "PanelMove"
  /\ phase = "sending" => l.method = "Execute" /\ l.x # NoMotion
  /\ phase \in {"check", "compare"} => l.method \in {"SetAlignFrac", "PanelMove"}
  /\ phase = "stopping" => l.method = "Stop"
  /\ phase = "admitted" => l.method \notin {"Stop", "PanelMove"}

CallersTyped ==
  /\ pc \in [Callers -> Phases]
  /\ loc \in [Callers -> Locals]
  /\ \A c \in Callers : LocalsOK(c, pc[c], loc[c])

EdgesTyped ==
  /\ state \in [Edges -> {"On", "Busy", "Off"}]
  /\ calc \in [Edges -> Calculated]
  /\ frac \in [Edges -> 0 .. Whole]
  /\ applied \subseteq Panels \X (Edges \cup {Mirror}) \X Calculations
  /\ told \in [Callers -> 0 .. 3]
  /\ abandoned \subseteq Edges

Typed == CallersTyped /\ EdgesTyped /\ PanelTypeOK

\* The mirror calls nothing: so it is when the edges are all there is.
Operated == \A c \in Callers : loc[c].for = "operator" /\ pc[c] \notin {"good", "bad"}

LEMMA NoLocalsTyped ==
  /\ NoLocals \in Locals /\ NoLocals.method = "Read"
  /\ NoLocals.for = "operator" /\ NoLocals.x = NoMotion
<1>1. (CHOOSE e \in Edges : TRUE) \in Edges
  BY EdgeAssumption
<1>2. Whole \in 1 .. Whole
  BY ClientAssumption
<1> QED
  BY <1>1, <1>2 DEF NoLocals, Locals, Methods, Calculated, NoMotion

LEMMA IdleLocals ==
  ASSUME NEW c \in Callers, NEW phase \in Ended
  PROVE  LocalsOK(c, phase, NoLocals)
BY NoLocalsTyped DEF LocalsOK, Aligning, Stepping, Ended

LEMMA GoOnTyped ==
  ASSUME CallersTyped, NEW c \in Callers, NEW phase \in Phases, NEW l,
         LocalsOK(c, phase, l), GoOn(c, phase, l)
  PROVE  /\ CallersTyped'
         /\ pc'[c] = phase /\ loc'[c] = l
         /\ \A d \in Callers \ {c} : pc'[d] = pc[d] /\ loc'[d] = loc[d]
<1>1. l \in Locals
  BY DEF LocalsOK
<1>2. /\ pc' \in [Callers -> Phases]
      /\ loc' \in [Callers -> Locals]
      /\ pc'[c] = phase /\ loc'[c] = l
      /\ \A d \in Callers \ {c} : pc'[d] = pc[d] /\ loc'[d] = loc[d]
  BY <1>1 DEF GoOn, CallersTyped
<1>3. ASSUME NEW d \in Callers
      PROVE  LocalsOK(d, pc'[d], loc'[d])
  BY <1>2 DEF CallersTyped
<1> QED BY <1>2, <1>3 DEF CallersTyped

\* A method ends, idle or with a status that the mirror will look at.
LEMMA ReturnTyped ==
  ASSUME Typed, NEW c \in Callers, NEW status \in {"good", "bad"},
         Return(c, status)
  PROVE  /\ CallersTyped'
         /\ told' \in [Callers -> 0 .. 3]
         /\ told'[c] = 0
         /\ \A d \in Callers \ {c} : told'[d] = told[d]
         /\ pc'[c] \in Ended /\ loc'[c] = NoLocals
         /\ loc[c].for = "operator" => pc'[c] = "idle"
         /\ \A d \in Callers \ {c} : pc'[d] = pc[d] /\ loc'[d] = loc[d]
<1> DEFINE phase == IF loc[c].for = "operator" THEN "idle" ELSE status
<1>1. phase \in Ended /\ (loc[c].for = "operator" => phase = "idle")
  BY DEF Ended
<1>2. GoOn(c, phase, NoLocals)
  BY DEF Return, GoOn
<1>3. /\ told' \in [Callers -> 0 .. 3]
      /\ told'[c] = 0
      /\ \A d \in Callers \ {c} : told'[d] = told[d]
  BY DEF Return, Typed, EdgesTyped
<1>4. phase \in Phases
  BY <1>1 DEF Phases, Ended
<1> HIDE DEF phase
<1> QED BY <1>1, <1>2, <1>3, <1>4, IdleLocals, GoOnTyped DEF Typed

LEMMA StateTyped ==
  ASSUME Typed, NEW e \in Edges, NEW s \in {"On", "Busy", "Off"}, SetState(e, s)
  PROVE  /\ state' \in [Edges -> {"On", "Busy", "Off"}]
         /\ state'[e] = s
         /\ \A d \in Edges \ {e} : state'[d] = state[d]
BY DEF Typed, EdgesTyped, SetState

LEMMA EndOnTyped ==
  ASSUME Typed, NEW c \in Callers, NEW status \in {"good", "bad"},
         EndOn(c, status)
  PROVE  /\ CallersTyped'
         /\ state' \in [Edges -> {"On", "Busy", "Off"}]
         /\ told' \in [Callers -> 0 .. 3]
<1>1. loc[c].edge \in Edges
  BY DEF Typed, CallersTyped, Locals
<1> QED BY <1>1, ReturnTyped, StateTyped DEF EndOn, E

-----------------------------------------------------------------------------
(* The steps of a caller keep the types *)

LEMMA CallTyped ==
  ASSUME Typed, NEW c \in Callers, Call(c)
  PROVE  Typed'
<1>1. PICK m \in MethodsOf[c] \ {"Stop", "PanelMove"}, e \in Edges :
        \E a \in Arguments(m, e) :
          GoOn(c, "admitted", [NoLocals EXCEPT !.method = m, !.edge = e,
                 !.moved = a.moved, !.fraction = a.fraction])
  BY DEF Call
<1>2. PICK a \in Arguments(m, e) :
        GoOn(c, "admitted", [NoLocals EXCEPT !.method = m, !.edge = e,
               !.moved = a.moved, !.fraction = a.fraction])
  BY <1>1
<1> DEFINE l == [NoLocals EXCEPT !.method = m, !.edge = e,
                   !.moved = a.moved, !.fraction = a.fraction]
<1>3. m \in Methods
  BY EdgeAssumption
<1>4. /\ a.moved \in SUBSET Panels
      /\ a.fraction \in 1 .. Whole
      /\ m \in Aligning => a.moved # {}
  <2>1. Whole \in 1 .. Whole /\ Fractions \subseteq 1 .. Whole
    BY ClientAssumption, EdgeAssumption
  <2>2. CASE m \in Aligning
    <3>1. a.moved \in AlignChoices(e)
      BY <2>2 DEF Arguments, Aligning
    <3>2. a.fraction \in {Whole} \cup Fractions
      BY <2>2 DEF Arguments, Aligning
    <3> QED BY <2>1, <3>1, <3>2, ChoicesMove
  <2>3. CASE m \notin Aligning
    BY <2>1, <2>3 DEF Arguments, Aligning
  <2> QED BY <2>2, <2>3
<1>5. /\ l \in Locals /\ l.for = "operator"
      /\ l.method = m /\ l.moved = a.moved
  BY <1>3, <1>4, NoLocalsTyped DEF Locals
<1> HIDE DEF l
<1>6. LocalsOK(c, "admitted", l)
  BY <1>4, <1>5 DEF LocalsOK, Stepping, Ended
<1>7. GoOn(c, "admitted", l)
  BY <1>2 DEF l
<1>8. CallersTyped'
  BY <1>6, <1>7, GoOnTyped DEF Typed, Phases
<1> QED
  BY <1>8 DEF Typed, EdgesTyped, PanelTypeOK, Call, panelVars, edgeVars

\* A caller goes on in the same method, where the phase it goes on in asks for
\* no more than the phase it was in.
LEMMA Resume ==
  ASSUME Typed, NEW c \in Callers, NEW phase \in Phases, NEW l \in Locals,
         pc[c] \notin Ended, phase \notin Ended, GoOn(c, phase, l),
         l.for = loc[c].for, l.method = loc[c].method, l.moved = loc[c].moved,
         phase \in Stepping => l.panel \in Panels /\ l.actuator \in Actuators,
         phase \in Stepping \cup {"nextPanel"} => l.method = "FindMatrix",
         phase = "reading" => l.method \in {"Calculate", "Read"},
         phase = "read" => l.method = "Read",
         phase = "solving" => l.method = "Calculate",
         phase = "setting" => l.method = "SetAlignFrac",
         phase = "executing" => l.method = "Execute",
         phase = "panelWait" => l.method = "PanelMove",
         phase = "sending" => l.method = "Execute" /\ l.x # NoMotion,
         phase \in {"check", "compare"} =>
           l.method \in {"SetAlignFrac", "PanelMove"},
         phase = "stopping" => l.method = "Stop",
         phase # "admitted"
  PROVE  CallersTyped'
<1>1. LocalsOK(c, pc[c], loc[c])
  BY DEF Typed, CallersTyped
<1>2. LocalsOK(c, phase, l)
  BY <1>1 DEF LocalsOK
<1> QED BY <1>2, GoOnTyped DEF Typed

LEMMA StopBeginTyped ==
  ASSUME Typed, NEW c \in Callers, StopBegin(c)
  PROVE  Typed'
<1>1. PICK e \in Edges : StopEdge(c, e, NoLocals)
  BY DEF StopBegin
<1> DEFINE l == [NoLocals EXCEPT !.method = "Stop", !.edge = e,
                                 !.todo = PanelsOf[e]]
<1>2. /\ l \in Locals /\ l.for = "operator" /\ l.method = "Stop"
  BY NoLocalsTyped, EdgeAssumption DEF Locals, Methods
<1> HIDE DEF l
<1>3. LocalsOK(c, "stopping", l)
  BY <1>2 DEF LocalsOK, Stepping, Aligning, StopBegin, Ended
<1>4. GoOn(c, "stopping", l)
  BY <1>1 DEF StopEdge, l
<1>5. CallersTyped'
  BY <1>3, <1>4, GoOnTyped DEF Typed, Phases
<1>6. state' \in [Edges -> {"On", "Busy", "Off"}]
  BY <1>1, StateTyped DEF StopEdge
<1>7. told' \in [Callers -> 0 .. 3]
  BY <1>1 DEF StopEdge, Tell, Typed, EdgesTyped
<1> QED
  BY <1>5, <1>6, <1>7 DEF Typed, EdgesTyped, PanelTypeOK, StopBegin, panelVars

LEMMA StopPanelTyped ==
  ASSUME Typed, NEW c \in Callers, StopPanel(c)
  PROVE  Typed'
<1>0. loc[c] \in Locals /\ pc[c] = "stopping" /\ loc[c].method = "Stop"
  BY DEF Typed, CallersTyped, StopPanel, Step
<1>1. CASE loc[c].todo = {}
  <2>1. Return(c, "good") /\ UNCHANGED stops
    BY <1>1 DEF StopPanel
  <2> QED
    BY <2>1, ReturnTyped DEF Typed, EdgesTyped, PanelTypeOK, StopPanel
<1>2. CASE loc[c].todo # {}
  <2> DEFINE p == Min(loc[c].todo)
             l == [loc[c] EXCEPT !.todo = @ \ {p}]
  <2>1. /\ stops' = [stops EXCEPT ![p] = TRUE]
        /\ GoOn(c, "stopping", l)
        /\ UNCHANGED told
    BY <1>2 DEF StopPanel
  <2>2. /\ l \in Locals /\ l.for = loc[c].for /\ l.method = loc[c].method
        /\ l.moved = loc[c].moved
    BY <1>0 DEF Locals
  <2> HIDE DEF l
  <2>3. CallersTyped'
    BY <1>0, <2>1, <2>2, Resume DEF Phases, Stepping, Ended
  <2> QED
    BY <2>1, <2>3 DEF Typed, EdgesTyped, PanelTypeOK, StopPanel
<1> QED BY <1>1, <1>2

LEMMA LocalsOf ==
  ASSUME Typed, NEW c \in Callers
  PROVE  /\ loc[c] \in Locals /\ E(c) \in Edges
         /\ LocalsOK(c, pc[c], loc[c])
BY DEF Typed, CallersTyped, Locals, E

LEMMA BeginMatrixTyped ==
  ASSUME Typed, NEW c \in Callers, BeginMatrix(c)
  PROVE  Typed'
<1> DEFINE l == [loc[c] EXCEPT !.todo = PanelsOf[E(c)]]
<1>1. /\ loc[c] \in Locals /\ E(c) \in Edges /\ pc[c] = "admitted"
      /\ loc[c].method = "FindMatrix"
      /\ PanelsOf[E(c)] \in SUBSET Panels
  BY LocalsOf, EdgeAssumption DEF BeginMatrix, Step
<1>2. /\ l \in Locals /\ l.for = loc[c].for /\ l.method = loc[c].method
      /\ l.moved = loc[c].moved
  BY <1>1 DEF Locals
<1>3. GoOn(c, "nextPanel", l) /\ SetState(E(c), "Busy")
  BY DEF BeginMatrix
<1> HIDE DEF l
<1>4. CallersTyped'
  BY <1>1, <1>2, <1>3, Resume DEF Phases, Stepping, Ended
<1>5. state' \in [Edges -> {"On", "Busy", "Off"}]
  BY <1>1, <1>3, StateTyped
<1> QED
  BY <1>4, <1>5 DEF Typed, EdgesTyped, PanelTypeOK, BeginMatrix, panelVars

LEMMA LeastActuator ==
  ASSUME NEW S \in SUBSET Actuators, S # {}
  PROVE  Min(S) \in Actuators
BY LeastMember, EdgeAssumption

LEMMA NextPanelTyped ==
  ASSUME Typed, NEW c \in Callers, NextPanel(c)
  PROVE  Typed'
<1>1. /\ loc[c] \in Locals /\ E(c) \in Edges /\ pc[c] = "nextPanel"
      /\ loc[c].method = "FindMatrix"
  BY LocalsOf DEF NextPanel, Step
<1>2. CASE loc[c].todo = {} \/ state[E(c)] = "Off"
  <2>1. EndOn(c, "good")
    BY <1>2 DEF NextPanel
  <2> QED
    BY <2>1, EndOnTyped
    DEF Typed, EdgesTyped, PanelTypeOK, NextPanel, panelVars
<1>3. CASE ~(loc[c].todo = {} \/ state[E(c)] = "Off")
  <2> DEFINE p == Min(loc[c].todo)
             l == [loc[c] EXCEPT !.todo = @ \ {p}, !.panel = p,
                                 !.actuator = Min(Actuators)]
  <2>1. GoOn(c, "stepOut", l) /\ UNCHANGED <<state, told>>
    BY <1>3 DEF NextPanel
  <2>2. p \in Panels /\ Min(Actuators) \in Actuators
    BY <1>1, <1>3, LeastPanel, LeastActuator, EdgeAssumption DEF Locals
  <2>3. /\ l \in Locals /\ l.for = loc[c].for /\ l.method = loc[c].method
        /\ l.moved = loc[c].moved
        /\ l.panel = p /\ l.actuator = Min(Actuators)
    BY <1>1, <2>2 DEF Locals
  <2> HIDE DEF l
  <2>4. CallersTyped'
    BY <1>1, <2>1, <2>2, <2>3, Resume DEF Phases, Ended
  <2> QED
    BY <2>1, <2>4 DEF Typed, EdgesTyped, PanelTypeOK, NextPanel, panelVars
<1> QED BY <1>2, <1>3

\* A motion that may be sent to a panel is on its way afterwards.
LEMMA SentTyped ==
  ASSUME Typed, NEW p \in Panels, NEW m \in Motions, sent' = Sent(p, m)
  PROVE  /\ sent' \in [Panels -> SUBSET Motions]
         /\ sent'[p] = sent[p] \cup {m}
         /\ \A q \in Panels \ {p} : sent'[q] = sent[q]
BY DEF Typed, PanelTypeOK, Sent

\* The locals of a response matrix after a call for a step, out or back.
AfterStep(c, back) ==
  [loc[c] EXCEPT !.owed = IF back THEN @ \ {<<loc[c].panel, loc[c].actuator>>}
                          ELSE @ \cup {<<loc[c].panel, loc[c].actuator>>}]

LEMMA AfterStepTyped ==
  ASSUME Typed, NEW c \in Callers, NEW back \in BOOLEAN, pc[c] \in Stepping
  PROVE  LET l == AfterStep(c, back)
         IN  /\ l \in Locals
             /\ l.for = loc[c].for /\ l.method = loc[c].method
             /\ l.moved = loc[c].moved /\ l.edge = loc[c].edge
             /\ l.panel = loc[c].panel /\ l.actuator = loc[c].actuator
             /\ back => l.owed = loc[c].owed \ {<<loc[c].panel, loc[c].actuator>>}
             /\ ~back =>
                  l.owed = loc[c].owed \cup {<<loc[c].panel, loc[c].actuator>>}
<1>1. /\ loc[c] \in Locals
      /\ loc[c].panel \in Panels /\ loc[c].actuator \in Actuators
  BY LocalsOf DEF LocalsOK
<1>2. /\ loc[c].owed \in SUBSET (Panels \X Actuators)
      /\ <<loc[c].panel, loc[c].actuator>> \in Panels \X Actuators
  BY <1>1 DEF Locals
<1>3. (IF back THEN loc[c].owed \ {<<loc[c].panel, loc[c].actuator>>}
       ELSE loc[c].owed \cup {<<loc[c].panel, loc[c].actuator>>})
        \in SUBSET (Panels \X Actuators)
  BY <1>2
<1> QED BY <1>1, <1>3 DEF AfterStep, Locals

LEMMA SendStepTyped ==
  ASSUME Typed, NEW c \in Callers, NEW back \in BOOLEAN,
         NEW next \in {"waitOut", "waitBack"},
         pc[c] \in Stepping, SendStep(c, back, next)
  PROVE  Typed'
<1> DEFINE p == loc[c].panel
           m == [kind |-> "step", back |-> back]
           l == AfterStep(c, back)
<1>1. /\ loc[c] \in Locals /\ E(c) \in Edges /\ loc[c].method = "FindMatrix"
      /\ p \in Panels /\ loc[c].actuator \in Actuators
      /\ pc[c] # "idle"
  BY LocalsOf DEF LocalsOK, Stepping
<1>2. CASE /\ MaySend(p, m) /\ sent' = Sent(p, m)
           /\ GoOn(c, next, l)
           /\ told' = [told EXCEPT ![c] = IF @ \in {1, 2} THEN @ + 1 ELSE @]
           /\ UNCHANGED abandoned
  <2>1. m \in Motions
    BY DEF Motions, StepMotions
  <2>2. sent' \in [Panels -> SUBSET Motions]
    BY <1>1, <1>2, <2>1, SentTyped
  <2>3. /\ l \in Locals /\ l.for = loc[c].for /\ l.method = loc[c].method
        /\ l.moved = loc[c].moved
        /\ l.panel = loc[c].panel /\ l.actuator = loc[c].actuator
    BY AfterStepTyped
  <2> HIDE DEF l
  <2>4. CallersTyped'
    BY <1>1, <1>2, <2>3, Resume DEF Phases, Stepping, Ended
  <2>5. told' \in [Callers -> 0 .. 3]
    <3>1. told \in [Callers -> 0 .. 3]
      BY DEF Typed, EdgesTyped
    <3> QED BY <1>2, <3>1
  <2> QED
    BY <1>2, <2>2, <2>4, <2>5 DEF Typed, EdgesTyped, PanelTypeOK, SendStep
<1>3. CASE /\ abandoned' = abandoned \cup {E(c)}
           /\ Return(c, "bad")
           /\ UNCHANGED sent
  BY <1>1, <1>3, ReturnTyped DEF Typed, EdgesTyped, PanelTypeOK, SendStep
<1> QED BY <1>2, <1>3 DEF SendStep, AfterStep

\* The state of the edge decides where a wait or a step goes on.
LEMMA GotoTyped ==
  ASSUME Typed, NEW c \in Callers, pc[c] \in Stepping,
         NEW phase \in {"nextPanel", "readAgain", "stepBack"}, Goto(c, phase),
         UNCHANGED <<panelVars, edgeVars>>
  PROVE  Typed'
<1>1. /\ loc[c] \in Locals /\ loc[c].method = "FindMatrix"
      /\ loc[c].panel \in Panels /\ loc[c].actuator \in Actuators
      /\ pc[c] # "idle"
  BY LocalsOf DEF LocalsOK, Stepping
<1>2. CallersTyped'
  BY <1>1, Resume DEF Goto, Phases, Stepping, Ended
<1> QED
  BY <1>2 DEF Typed, EdgesTyped, PanelTypeOK, panelVars, edgeVars

LEMMA MatrixTyped ==
  ASSUME Typed, NEW c \in Callers, Matrix(c)
  PROVE  Typed'
<1>1. CASE BeginMatrix(c)
  BY <1>1, BeginMatrixTyped
<1>2. CASE NextPanel(c)
  BY <1>2, NextPanelTyped
<1>3. CASE StepOut(c)
  BY <1>3, SendStepTyped DEF StepOut, Step, Stepping
<1>4. CASE WaitOut(c)
  BY <1>4, GotoTyped DEF WaitOut, Step, Stepping
<1>5. CASE ReadAgain(c)
  BY <1>5, GotoTyped DEF ReadAgain, Step, Stepping
<1>6. CASE StepBack(c)
  BY <1>6, SendStepTyped DEF StepBack, Step, Stepping
<1>7. CASE WaitBack(c)
  <2> DEFINE l == [loc[c] EXCEPT !.actuator = Min(Later(c))]
  <2>1. pc[c] = "waitBack" /\ UNCHANGED <<panelVars, edgeVars>>
    BY <1>7 DEF WaitBack, Step
  <2>2. CASE Goto(c, "nextPanel")
    BY <2>1, <2>2, GotoTyped DEF Stepping
  <2>3. CASE Later(c) # {} /\ GoOn(c, "stepOut", l)
    <3>1. GoOn(c, "stepOut", l)
      BY <2>3
    <3>2. Min(Later(c)) \in Actuators
      BY <2>3, LeastActuator DEF Later
    <3>3. /\ loc[c] \in Locals /\ loc[c].method = "FindMatrix"
          /\ loc[c].panel \in Panels
      BY <2>1, LocalsOf DEF LocalsOK, Stepping
    <3>4. /\ l \in Locals /\ l.for = loc[c].for /\ l.method = loc[c].method
          /\ l.moved = loc[c].moved
          /\ l.panel = loc[c].panel /\ l.actuator \in Actuators
      BY <3>2, <3>3 DEF Locals
    <3> HIDE DEF l
    <3>5. CallersTyped'
      BY <2>1, <3>1, <3>3, <3>4, Resume DEF Phases, Stepping, Ended
    <3> QED
      BY <2>1, <3>5 DEF Typed, EdgesTyped, PanelTypeOK, panelVars, edgeVars
  <2> QED BY <1>7, <2>2, <2>3 DEF WaitBack, NextActuator
<1> QED
  BY <1>1, <1>2, <1>3, <1>4, <1>5, <1>6, <1>7 DEF Matrix

\* Only the state of one edge and the phase of the caller change.
LEMMA StateAndPhase ==
  ASSUME Typed, NEW e \in Edges, NEW s \in {"On", "Busy", "Off"}, SetState(e, s),
         CallersTyped', UNCHANGED <<panelVars, calc, frac, applied, told, abandoned>>
  PROVE  Typed'
<1>1. state' \in [Edges -> {"On", "Busy", "Off"}]
  BY StateTyped
<1> QED BY <1>1 DEF Typed, EdgesTyped, PanelTypeOK, panelVars

LEMMA ReadingTyped ==
  ASSUME Typed, NEW c \in Callers, Reading(c)
  PROVE  Typed'
<1>0. loc[c] \in Locals /\ E(c) \in Edges /\ LocalsOK(c, pc[c], loc[c])
  BY LocalsOf
<1>1. CASE BeginReading(c)
  <2>1. /\ pc[c] = "admitted" /\ loc[c].method \in {"Calculate", "Read"}
        /\ SetState(E(c), "Busy") /\ Goto(c, "reading")
        /\ UNCHANGED <<panelVars, calc, frac, applied, told, abandoned>>
    BY <1>1 DEF BeginReading
  <2>2. CallersTyped'
    BY <1>0, <2>1, Resume DEF Goto, Phases, Stepping, Ended
  <2> QED BY <1>0, <2>1, <2>2, StateAndPhase
<1>2. CASE EndReading(c)
  <2>1. /\ pc[c] = "reading"
        /\ SetState(E(c), "On")
        /\ Goto(c, IF loc[c].method = "Read" THEN "read" ELSE "solving")
        /\ UNCHANGED <<panelVars, calc, frac, applied, told, abandoned>>
    BY <1>2 DEF EndReading
  <2>2. CASE loc[c].method = "Read"
    <3>1. Goto(c, "read")
      BY <2>1, <2>2
    <3>2. CallersTyped'
      BY <1>0, <2>1, <2>2, <3>1, Resume DEF Goto, Phases, Stepping, Ended
    <3> QED BY <1>0, <2>1, <3>2, StateAndPhase
  <2>3. CASE loc[c].method # "Read"
    <3>1. Goto(c, "solving") /\ loc[c].method = "Calculate"
      BY <1>0, <2>1, <2>3 DEF LocalsOK
    <3>2. CallersTyped'
      BY <1>0, <2>1, <3>1, Resume DEF Goto, Phases, Stepping, Ended
    <3> QED BY <1>0, <2>1, <3>2, StateAndPhase
  <2> QED BY <2>2, <2>3
<1>3. CASE EndRead(c)
  <2>1. CASE EndOn(c, "good")
    BY <1>3, <2>1, EndOnTyped DEF Typed, EdgesTyped, PanelTypeOK, EndRead, panelVars
  <2>2. CASE Return(c, "good") /\ UNCHANGED state
    BY <1>3, <2>2, ReturnTyped DEF Typed, EdgesTyped, PanelTypeOK, EndRead, panelVars
  <2> QED BY <1>3, <2>1, <2>2 DEF EndRead
<1>4. CASE CheckEdge(c)
  <2> DEFINE e == CHOOSE e \in loc[c].reads : TRUE
             l == [loc[c] EXCEPT !.at = e, !.reads = @ \ {e}]
  <2>1. /\ pc[c] = "check" /\ SetState(e, "Busy")
        /\ GoOn(c, "compare", l)
        /\ UNCHANGED <<panelVars, calc, frac, applied, told, abandoned>>
    BY <1>4 DEF CheckEdge
  <2>2. e \in Edges
    BY <1>0, <1>4 DEF CheckEdge, Locals
  <2> HIDE DEF e
  <2>3. /\ l \in Locals /\ l.for = loc[c].for /\ l.method = loc[c].method
        /\ l.moved = loc[c].moved
    BY <1>0, <2>2 DEF Locals
  <2>4. l.method \in {"SetAlignFrac", "PanelMove"}
    BY <1>0, <2>1, <2>3 DEF LocalsOK
  <2> HIDE DEF l
  <2>5. CallersTyped'
    BY <2>1, <2>3, <2>4, Resume DEF Phases, Stepping, Ended
  <2> QED BY <2>1, <2>2, <2>5, StateAndPhase
<1>5. CASE CompareEdge(c)
  <2>1. PICK hit \in BOOLEAN : GoOn(c, "check", [loc[c] EXCEPT !.hit = @ \/ hit])
    BY <1>5 DEF CompareEdge
  <2> DEFINE l == [loc[c] EXCEPT !.hit = @ \/ hit]
  <2>2. /\ pc[c] = "compare" /\ SetState(loc[c].at, "On")
        /\ UNCHANGED <<panelVars, calc, frac, applied, told, abandoned>>
    BY <1>5 DEF CompareEdge
  <2>3. (loc[c].hit \/ hit) \in BOOLEAN
    OBVIOUS
  <2>4. /\ l \in Locals /\ l.for = loc[c].for /\ l.method = loc[c].method
        /\ l.moved = loc[c].moved
    BY <1>0, <2>3 DEF Locals
  <2>5. l.method \in {"SetAlignFrac", "PanelMove"} /\ loc[c].at \in Edges
    BY <1>0, <2>2, <2>4 DEF LocalsOK, Locals
  <2>6. GoOn(c, "check", l)
    BY <2>1
  <2> HIDE DEF l
  <2>7. CallersTyped'
    BY <2>2, <2>4, <2>5, <2>6, Resume DEF Phases, Stepping, Ended
  <2> QED BY <2>2, <2>5, <2>7, StateAndPhase
<1> QED
  BY <1>1, <1>2, <1>3, <1>4, <1>5 DEF Reading

LEMMA CalculateTyped ==
  ASSUME Typed, NEW c \in Callers, Calculate(c)
  PROVE  Typed'
<1> DEFINE e == E(c)
           numbers == Unused(e, {loc[d].x.id : d \in {d \in Callers : E(d) = e}})
           n == Min(numbers)
<1>0. /\ loc[c] \in Locals /\ e \in Edges /\ pc[c] = "solving"
      /\ loc[c].method = "Calculate" /\ LocalsOK(c, pc[c], loc[c])
  BY LocalsOf DEF Calculate, Step
<1>1. CASE /\ numbers # {}
           /\ \E x \in {[id |-> n, moved |-> loc[c].moved], NoMotion} :
                calc' = [calc EXCEPT ![e] = x]
           /\ Forget(e, n)
           /\ EndOn(c, "good")
  <2>1. n \in Calculations
    <3>1. numbers \subseteq Calculations /\ numbers \in SUBSET Nat
      BY ClientAssumption DEF Unused
    <3> QED BY <1>1, <3>1, LeastMember
  <2> HIDE DEF n, numbers
  <2>2. PICK x \in {[id |-> n, moved |-> loc[c].moved], NoMotion} :
          calc' = [calc EXCEPT ![e] = x]
    BY <1>1
  <2>3. loc[c].moved \in (SUBSET Panels) \ {{}}
    BY <1>0 DEF LocalsOK, Locals, Aligning
  <2>4. x \in Calculated
    BY <2>1, <2>3 DEF Calculated
  <2>5. calc' \in [Edges -> Calculated]
    BY <2>2, <2>4 DEF Typed, EdgesTyped
  <2>6. applied' \subseteq applied
    BY <1>1 DEF Forget
  <2> QED
    BY <1>1, <2>5, <2>6, EndOnTyped
    DEF Typed, EdgesTyped, PanelTypeOK, Calculate, panelVars
<1>2. CASE UNCHANGED <<calc, applied>> /\ EndOn(c, "bad")
  BY <1>2, EndOnTyped DEF Typed, EdgesTyped, PanelTypeOK, Calculate, panelVars
<1> QED BY <1>1, <1>2 DEF Calculate

LEMMA BeginAlignTyped ==
  ASSUME Typed, NEW c \in Callers, BeginAlign(c)
  PROVE  Typed'
<1>0. /\ loc[c] \in Locals /\ E(c) \in Edges
      /\ pc[c] = "admitted" /\ loc[c].method \in {"SetAlignFrac", "Execute"}
      /\ SetState(E(c), "Busy")
      /\ UNCHANGED <<panelVars, calc, frac, applied, told, abandoned>>
  BY LocalsOf DEF BeginAlign
<1>1. PICK phase \in {"executing", "setting"} :
        /\ Goto(c, phase)
        /\ phase = "executing" <=> loc[c].method = "Execute"
  BY <1>0 DEF BeginAlign
<1>2. CallersTyped'
  BY <1>0, <1>1, Resume DEF Goto, Phases, Stepping, Ended
<1> QED BY <1>0, <1>2, StateAndPhase

\* The check of a panel begins with the edges it belongs to.
LEMMA CheckTyped ==
  ASSUME Typed, NEW c \in Callers, loc[c].method = "SetAlignFrac",
         pc[c] \notin Ended, NEW x \in Calculated, NEW todo \in SUBSET Panels,
         NEW p \in Panels,
         GoOn(c, "check", [loc[c] EXCEPT !.x = x, !.todo = todo, !.panel = p,
                                         !.reads = EdgesOf(p)])
  PROVE  CallersTyped'
<1> DEFINE l == [loc[c] EXCEPT !.x = x, !.todo = todo, !.panel = p,
                               !.reads = EdgesOf(p)]
<1>1. loc[c] \in Locals /\ EdgesOf(p) \in SUBSET Edges
  BY LocalsOf DEF EdgesOf
<1>2. /\ l \in Locals /\ l.for = loc[c].for /\ l.method = loc[c].method
      /\ l.moved = loc[c].moved
  BY <1>1 DEF Locals
<1>3. GoOn(c, "check", l)
  OBVIOUS
<1> HIDE DEF l
<1> QED BY <1>2, <1>3, Resume DEF Phases, Stepping, Ended

LEMMA SetFractionTyped ==
  ASSUME Typed, NEW c \in Callers, SetFraction(c)
  PROVE  Typed'
<1> DEFINE e == E(c)
           p == Min(loc[c].moved)
<1>0. /\ loc[c] \in Locals /\ e \in Edges /\ pc[c] = "setting"
      /\ loc[c].method = "SetAlignFrac" /\ LocalsOK(c, pc[c], loc[c])
      /\ UNCHANGED <<panelVars, calc, applied, abandoned>>
  BY LocalsOf DEF SetFraction, Step
<1>1. CASE EndOn(c, "bad") /\ UNCHANGED frac
  BY <1>0, <1>1, EndOnTyped DEF Typed, EdgesTyped, PanelTypeOK, panelVars
<1>2. CASE calc[e] # NoMotion
  <2>1. /\ frac' = [frac EXCEPT ![e] = loc[c].fraction]
        /\ GoOn(c, "check", [loc[c] EXCEPT !.x = calc[e],
                  !.todo = loc[c].moved \ {p}, !.panel = p,
                  !.reads = EdgesOf(p)])
        /\ UNCHANGED <<state, told>>
    BY <1>2 DEF SetFraction
  <2>2. loc[c].moved \in SUBSET Panels /\ loc[c].moved # {}
    BY <1>0 DEF LocalsOK, Locals, Aligning
  <2>3. p \in Panels
    BY <2>2, LeastPanel
  <2>4. calc[e] \in Calculated /\ loc[c].fraction \in 0 .. Whole
    BY <1>0, ClientAssumption DEF Typed, EdgesTyped, Locals
  <2>5. loc[c].moved \ {p} \in SUBSET Panels
    BY <2>2
  <2> HIDE DEF p
  <2>6. CallersTyped'
    BY <1>0, <2>1, <2>3, <2>4, <2>5, CheckTyped DEF Ended
  <2> QED
    BY <1>0, <2>1, <2>4, <2>6 DEF Typed, EdgesTyped, PanelTypeOK, panelVars
<1> QED BY <1>1, <1>2 DEF SetFraction

LEMMA JudgeFractionTyped ==
  ASSUME Typed, NEW c \in Callers, JudgeFraction(c)
  PROVE  Typed'
<1> DEFINE p == Min(loc[c].todo)
<1>0. /\ loc[c] \in Locals /\ pc[c] = "check"
      /\ loc[c].method = "SetAlignFrac"
      /\ UNCHANGED <<panelVars, calc, frac, applied, abandoned>>
  BY LocalsOf DEF JudgeFraction, Step
<1>1. CASE loc[c].hit \/ loc[c].todo = {}
  <2>1. PICK status \in {"good", "bad"} : EndOn(c, status)
    BY <1>1 DEF JudgeFraction
  <2> QED
    BY <1>0, <2>1, EndOnTyped DEF Typed, EdgesTyped, PanelTypeOK, panelVars
<1>2. CASE ~(loc[c].hit \/ loc[c].todo = {})
  <2>1. /\ GoOn(c, "check", [loc[c] EXCEPT !.todo = @ \ {p}, !.panel = p,
                                           !.reads = EdgesOf(p)])
        /\ UNCHANGED <<state, told>>
    BY <1>2 DEF JudgeFraction
  <2>2. p \in Panels /\ loc[c].todo \ {p} \in SUBSET Panels
    BY <1>0, <1>2, LeastPanel DEF Locals
  <2> HIDE DEF p
  <2>3. EdgesOf(p) \in SUBSET Edges
    BY DEF EdgesOf
  <2> DEFINE l == [loc[c] EXCEPT !.todo = @ \ {p}, !.panel = p,
                                 !.reads = EdgesOf(p)]
  <2>4. /\ l \in Locals /\ l.for = loc[c].for /\ l.method = loc[c].method
        /\ l.moved = loc[c].moved
    BY <1>0, <2>2, <2>3 DEF Locals
  <2>5. GoOn(c, "check", l)
    BY <2>1
  <2> HIDE DEF l
  <2>6. CallersTyped'
    BY <1>0, <2>4, <2>5, Resume DEF Phases, Stepping, Ended
  <2> QED
    BY <1>0, <2>1, <2>6 DEF Typed, EdgesTyped, PanelTypeOK, panelVars
<1> QED BY <1>1, <1>2

LEMMA BeginExecuteTyped ==
  ASSUME Typed, NEW c \in Callers, BeginExecute(c)
  PROVE  Typed'
<1>0. /\ loc[c] \in Locals /\ E(c) \in Edges /\ pc[c] = "executing"
      /\ loc[c].method = "Execute"
      /\ UNCHANGED <<panelVars, calc, frac, applied, abandoned>>
  BY LocalsOf DEF BeginExecute, Step
<1>1. CASE EndOn(c, "bad")
  BY <1>0, <1>1, EndOnTyped DEF Typed, EdgesTyped, PanelTypeOK, panelVars
<1>2. CASE MayExecute(c)
  <2> DEFINE l == [loc[c] EXCEPT !.x = calc[E(c)], !.todo = loc[c].moved]
  <2>1. GoOn(c, "sending", l) /\ UNCHANGED <<state, told>>
    BY <1>2 DEF BeginExecute
  <2>2. calc[E(c)] \in Calculated /\ calc[E(c)] # NoMotion
    BY <1>0, <1>2 DEF Typed, EdgesTyped, MayExecute
  <2>3. /\ l \in Locals /\ l.for = loc[c].for /\ l.method = loc[c].method
        /\ l.moved = loc[c].moved /\ l.x = calc[E(c)]
    BY <1>0, <2>2 DEF Locals
  <2> HIDE DEF l
  <2>4. CallersTyped'
    BY <1>0, <2>1, <2>2, <2>3, Resume DEF Phases, Stepping, Ended
  <2> QED
    BY <1>0, <2>1, <2>4 DEF Typed, EdgesTyped, PanelTypeOK, panelVars
<1> QED BY <1>1, <1>2 DEF BeginExecute

\* A motion whose parts are being sent is one that was calculated.
LEMMA SendingMotion ==
  ASSUME Typed, NEW c \in Callers, Step(c, "Execute", "sending")
  PROVE  /\ loc[c].x.id \in Calculations
         /\ loc[c].x.moved \in SUBSET Panels /\ loc[c].x.moved # {}
         /\ loc[c].moved \in SUBSET Panels /\ loc[c].moved # {}
         /\ loc[c].todo \in SUBSET Panels
         /\ E(c) \in Edges /\ loc[c].edge = E(c)
<1>1. loc[c] \in Locals /\ E(c) \in Edges /\ LocalsOK(c, pc[c], loc[c])
  BY LocalsOf
<1>2. loc[c].x \in Calculated /\ loc[c].x # NoMotion
  BY <1>1 DEF LocalsOK, Step, Locals
<1>3. loc[c].x.id \in Calculations /\ loc[c].x.moved \in (SUBSET Panels) \ {{}}
  BY <1>2 DEF Calculated
<1> QED BY <1>1, <1>3 DEF LocalsOK, Step, Locals, E, Aligning

\* The parts of it are motions of the panels they are sent to.
LEMMA PartTyped ==
  ASSUME Typed, NEW c \in Callers, Step(c, "Execute", "sending"),
         NEW part \in Panels \cup {Garbled}
  PROVE  Part(loc[c].edge, loc[c].x, loc[c].fraction, part) \in FitMotions
<1>1. loc[c].fraction \in 0 .. Whole /\ loc[c].edge \in Edges
  BY LocalsOf, ClientAssumption DEF Locals, E
<1> QED BY <1>1, SendingMotion DEF Part, FitMotions

LEMMA SendPartTyped ==
  ASSUME Typed, NEW c \in Callers, SendPart(c)
  PROVE  Typed'
<1> DEFINE l == loc[c]
           p == Min(l.todo)
           part == IF p = Min(l.moved) THEN Min(l.x.moved) ELSE Garbled
           m == Part(l.edge, l.x, l.fraction, part)
           next == [l EXCEPT !.todo = @ \ {p}]
<1>0. /\ Step(c, "Execute", "sending") /\ l.todo # {}
      /\ UNCHANGED <<stops, moving, calc, frac, abandoned>>
  BY DEF SendPart
<1>1. /\ l \in Locals /\ E(c) \in Edges /\ l.x.id \in Calculations
      /\ l.todo \in SUBSET Panels
  BY <1>0, LocalsOf, SendingMotion
<1>2. CASE /\ MaySend(p, m) /\ sent' = Sent(p, m)
           /\ applied' = applied \cup {<<p, l.edge, l.x.id>>}
           /\ GoOn(c, "sending", next)
           /\ UNCHANGED <<state, told>>
  <2>1. p \in Panels
    BY <1>0, <1>1, LeastPanel
  <2>2. part \in Panels \cup {Garbled}
    BY <1>0, SendingMotion, LeastPanel
  <2>3. m \in Motions
    BY <1>0, <2>2, PartTyped DEF Motions
  <2> HIDE DEF m, p
  <2>4. sent' \in [Panels -> SUBSET Motions]
    BY <1>2, <2>1, <2>3, SentTyped
  <2>5. /\ next \in Locals /\ next.for = l.for /\ next.method = l.method
        /\ next.moved = l.moved /\ next.x = l.x
    BY <1>1 DEF Locals
  <2>6. l.x # NoMotion
    BY <1>0, LocalsOf DEF LocalsOK, Step
  <2> HIDE DEF next
  <2>7. CallersTyped'
    BY <1>0, <1>2, <2>5, <2>6, Resume DEF Phases, Stepping, Step, Ended
  <2>8. <<p, l.edge, l.x.id>> \in Panels \X (Edges \cup {Mirror}) \X Calculations
    BY <1>1, <2>1 DEF E
  <2> QED
    BY <1>0, <1>2, <2>4, <2>7, <2>8 DEF Typed, EdgesTyped, PanelTypeOK
<1>3. CASE EndOn(c, "bad") /\ Forget(l.edge, l.x.id) /\ UNCHANGED sent
  <2>1. applied' \subseteq applied
    BY <1>3 DEF Forget
  <2> QED
    BY <1>0, <1>3, <2>1, EndOnTyped DEF Typed, EdgesTyped, PanelTypeOK
<1> QED BY <1>2, <1>3 DEF SendPart

LEMMA EndExecuteTyped ==
  ASSUME Typed, NEW c \in Callers, EndExecute(c)
  PROVE  Typed'
<1>1. E(c) \in Edges
  BY LocalsOf
<1>2. calc' \in [Edges -> Calculated]
  BY <1>1 DEF EndExecute, Typed, EdgesTyped, Calculated
<1>3. frac' \in [Edges -> 0 .. Whole]
  BY <1>1, ClientAssumption DEF EndExecute, Typed, EdgesTyped
<1> QED
  BY <1>2, <1>3, EndOnTyped
  DEF EndExecute, Typed, EdgesTyped, PanelTypeOK, panelVars

LEMMA AlignTyped ==
  ASSUME Typed, NEW c \in Callers, Align(c)
  PROVE  Typed'
BY CalculateTyped, BeginAlignTyped, SetFractionTyped, JudgeFractionTyped,
   BeginExecuteTyped, SendPartTyped, EndExecuteTyped DEF Align

LEMMA CallPanelMoveTyped ==
  ASSUME Typed, NEW c \in Callers, CallPanelMove(c)
  PROVE  Typed'
<1>1. PICK p \in Panels :
        GoOn(c, "check", [NoLocals EXCEPT !.method = "PanelMove", !.panel = p,
                                          !.reads = EdgesOf(p)])
  BY DEF CallPanelMove
<1> DEFINE l == [NoLocals EXCEPT !.method = "PanelMove", !.panel = p,
                                 !.reads = EdgesOf(p)]
<1>2. EdgesOf(p) \in SUBSET Edges
  BY DEF EdgesOf
<1>3. /\ l \in Locals /\ l.for = "operator" /\ l.method = "PanelMove"
  BY <1>2, NoLocalsTyped DEF Locals, Methods
<1> HIDE DEF l
<1>4. LocalsOK(c, "check", l)
  BY <1>3 DEF LocalsOK, Stepping, Aligning, CallPanelMove, Ended
<1>5. GoOn(c, "check", l)
  BY <1>1 DEF l
<1>6. CallersTyped'
  BY <1>4, <1>5, GoOnTyped DEF Typed, Phases
<1> QED
  BY <1>6 DEF Typed, EdgesTyped, PanelTypeOK, CallPanelMove, panelVars, edgeVars

LEMMA SendPanelMoveTyped ==
  ASSUME Typed, NEW c \in Callers, SendPanelMove(c)
  PROVE  Typed'
<1> DEFINE p == loc[c].panel
<1>0. /\ loc[c] \in Locals /\ pc[c] = "check" /\ loc[c].method = "PanelMove"
      /\ UNCHANGED <<stops, moving, state, calc, frac, applied, abandoned>>
  BY LocalsOf DEF SendPanelMove, Step
<1>1. CASE Return(c, "bad") /\ UNCHANGED sent
  BY <1>0, <1>1, ReturnTyped DEF Typed, EdgesTyped, PanelTypeOK
<1>2. CASE /\ \/ sent' = Sent(p, PanelMotion)
              \/ UNCHANGED sent
           /\ Goto(c, "panelWait")
           /\ UNCHANGED told
  <2>1. CallersTyped'
    BY <1>0, <1>2, Resume DEF Goto, Phases, Stepping, Ended
  <2>2. sent' \in [Panels -> SUBSET Motions]
    BY <1>2 DEF Typed, PanelTypeOK, Sent, Motions
  <2> QED BY <1>0, <1>2, <2>1, <2>2 DEF Typed, EdgesTyped, PanelTypeOK
<1> QED BY <1>1, <1>2 DEF SendPanelMove

LEMMA EndPanelMoveTyped ==
  ASSUME Typed, NEW c \in Callers, EndPanelMove(c)
  PROVE  Typed'
BY ReturnTyped DEF EndPanelMove, Typed, EdgesTyped, PanelTypeOK, panelVars

LEMMA ServersTyped ==
  ASSUME Typed, Servers
  PROVE  Typed'
<1>1. PICK p \in Panels : PanelStep(p) /\ UNCHANGED <<edgeVars, pc, loc>>
  BY DEF Servers, Served
<1>2. PanelTypeOK'
  <2>0. PanelTypeOK
    BY DEF Typed
  <2>1. CASE Begin(p)
    <3>1. PICK m \in sent[p] : /\ sent' = [sent EXCEPT ![p] = @ \ {m}]
                               /\ moving' = [moving EXCEPT ![p] = m]
      BY <2>1 DEF Begin
    <3>2. m \in Motions
      BY <2>0 DEF PanelTypeOK
    <3> QED BY <2>0, <2>1, <3>1, <3>2 DEF Begin, PanelTypeOK
  <2>2. CASE Refuse(p)
    BY <2>0, <2>2 DEF Refuse, PanelTypeOK
  <2>3. CASE Finish(p)
    BY <2>0, <2>3 DEF Finish, PanelTypeOK
  <2>4. CASE Stop(p)
    BY <2>0, <2>4 DEF Stop, PanelTypeOK
  <2> QED BY <1>1, <2>1, <2>2, <2>3, <2>4 DEF PanelStep
<1> QED BY <1>1, <1>2 DEF Typed, CallersTyped, EdgesTyped, edgeVars

-----------------------------------------------------------------------------

LEMMA InitTyped == EdgeInit => Typed
<1> SUFFICES ASSUME EdgeInit PROVE Typed
  OBVIOUS
<1>1. CallersTyped
  <2>1. pc \in [Callers -> Phases]
    BY DEF EdgeInit, Phases
  <2>2. loc \in [Callers -> Locals]
    BY NoLocalsTyped DEF EdgeInit
  <2>3. \A c \in Callers : pc[c] = "idle" /\ loc[c] = NoLocals
    BY DEF EdgeInit
  <2> QED BY <2>1, <2>2, <2>3, IdleLocals DEF CallersTyped, Ended
<1>2. PanelTypeOK
  BY DEF EdgeInit, PanelInit, PanelTypeOK
<1>3. EdgesTyped
  <2>1. NoMotion \in Calculated /\ 0 \in 0 .. Whole
    BY ClientAssumption DEF Calculated
  <2> QED BY <2>1 DEF EdgeInit, EdgesTyped
<1> QED BY <1>1, <1>2, <1>3 DEF Typed

LEMMA NextTyped == Typed /\ [Next]_vars => Typed'
<1> SUFFICES ASSUME Typed, [Next]_vars PROVE Typed'
  OBVIOUS
<1>1. CASE UNCHANGED vars
  BY <1>1 DEF vars, panelVars, edgeVars, Typed, CallersTyped, EdgesTyped,
              PanelTypeOK
<1>2. CASE Servers
  BY <1>2, ServersTyped
<1>3. ASSUME NEW c \in Callers,
             Call(c) \/ CallPanelMove(c) \/ StopBegin(c) \/ Run(c)
      PROVE  Typed'
  BY <1>3, CallTyped, CallPanelMoveTyped, StopBeginTyped, StopPanelTyped,
     MatrixTyped, ReadingTyped, AlignTyped, SendPanelMoveTyped,
     EndPanelMoveTyped DEF Run
<1> QED BY <1>1, <1>2, <1>3 DEF Next

LEMMA AlwaysTyped == Spec => []Typed
BY InitTyped, NextTyped, PTL DEF Spec

\* The state of the edges, the threads and the panels of a client is always
\* within its types, in whatever numbers they come: a motion that is sent is one
\* of Motions, with the parts of panels there are, and the locals of a method are
\* the ones its phase works with.
THEOREM EdgeTypeCorrect == Spec => []TypeOK
<1>1. Typed => TypeOK
  BY DEF Typed, CallersTyped, EdgesTyped, TypeOK
<1> QED BY <1>1, AlwaysTyped, PTL

-----------------------------------------------------------------------------
(* What a step of one caller leaves alone *)

Act(c) == Call(c) \/ CallPanelMove(c) \/ StopBegin(c) \/ Run(c)

LEMMA ActCases ==
  ASSUME NEW c, Act(c)
  PROVE  \/ Call(c) \/ CallPanelMove(c) \/ StopBegin(c) \/ StopPanel(c)
         \/ BeginMatrix(c) \/ NextPanel(c) \/ StepOut(c) \/ WaitOut(c)
         \/ ReadAgain(c) \/ StepBack(c) \/ WaitBack(c)
         \/ BeginReading(c) \/ EndReading(c) \/ EndRead(c)
         \/ CheckEdge(c) \/ CompareEdge(c)
         \/ Calculate(c) \/ BeginAlign(c) \/ SetFraction(c) \/ JudgeFraction(c)
         \/ BeginExecute(c) \/ SendPart(c) \/ EndExecute(c)
         \/ SendPanelMove(c) \/ EndPanelMove(c)
BY DEF Act, Run, Matrix, Reading, Align

LEMMA ReturnGoesOn ==
  ASSUME NEW c, NEW status, Return(c, status)
  PROVE  \E phase, l : GoOn(c, phase, l)
<1>1. GoOn(c, IF loc[c].for = "operator" THEN "idle" ELSE status, NoLocals)
  BY DEF Return, GoOn
<1> QED BY <1>1

\* It is only the caller itself that goes on.
LEMMA GoesOn ==
  ASSUME NEW c \in Callers, Act(c)
  PROVE  \E phase, l : GoOn(c, phase, l)
<1>1. CASE Call(c) \/ CallPanelMove(c) \/ StopBegin(c) \/ StopPanel(c)
  BY <1>1, ReturnGoesOn DEF Call, CallPanelMove, StopBegin, StopEdge, StopPanel
<1>2. CASE \/ BeginMatrix(c) \/ NextPanel(c) \/ StepOut(c) \/ WaitOut(c)
           \/ ReadAgain(c) \/ StepBack(c) \/ WaitBack(c)
  BY <1>2, ReturnGoesOn
  DEF BeginMatrix, NextPanel, StepOut, WaitOut, ReadAgain, StepBack, WaitBack,
      SendStep, NextActuator, EndOn, Goto
<1>3. CASE \/ BeginReading(c) \/ EndReading(c) \/ EndRead(c)
           \/ CheckEdge(c) \/ CompareEdge(c)
  BY <1>3, ReturnGoesOn
  DEF BeginReading, EndReading, EndRead, CheckEdge, CompareEdge, EndOn, Goto
<1>4. CASE \/ Calculate(c) \/ BeginAlign(c) \/ SetFraction(c) \/ JudgeFraction(c)
           \/ BeginExecute(c) \/ SendPart(c) \/ EndExecute(c)
  BY <1>4, ReturnGoesOn
  DEF Calculate, BeginAlign, SetFraction, JudgeFraction, BeginExecute, SendPart,
      EndExecute, EndOn, Goto
<1>5. CASE SendPanelMove(c) \/ EndPanelMove(c)
  BY <1>5, ReturnGoesOn DEF SendPanelMove, EndPanelMove, Goto
<1> QED BY <1>1, <1>2, <1>3, <1>4, <1>5, ActCases

\* A method that runs returns to whoever called it, or goes on for them
\* in the same method.
LEMMA RunsOn ==
  ASSUME Typed, NEW c \in Callers, Run(c)
  PROVE  /\ pc[c] \notin Ended
         /\ \/ \E status \in {"good", "bad"} : Return(c, status)
            \/ \E phase \in Phases \ Ended : \E l :
                 GoOn(c, phase, l) /\ l.for = loc[c].for
                   /\ l.method = loc[c].method
<1>0. loc[c] \in Locals
  BY LocalsOf
<1> DEFINE Returns == \E status \in {"good", "bad"} : Return(c, status)
           On(l) == l.for = loc[c].for /\ l.method = loc[c].method
<1>1. ASSUME NEW phase \in Phases \ Ended, Goto(c, phase)
      PROVE  \E go \in Phases \ Ended : \E l :
               GoOn(c, go, l) /\ On(l)
  BY <1>1 DEF Goto
<1>2. CASE StopPanel(c)
  <2> DEFINE l == [loc[c] EXCEPT !.todo = @ \ {Min(loc[c].todo)}]
  <2>1. On(l)
    BY <1>0 DEF Locals
  <2>2. pc[c] = "stopping" /\ (Returns \/ GoOn(c, "stopping", l))
    BY <1>2 DEF StopPanel, Step
  <2> HIDE DEF l
  <2> QED BY <2>1, <2>2 DEF Phases, Ended
<1>3. CASE BeginMatrix(c)
  <2> DEFINE l == [loc[c] EXCEPT !.todo = PanelsOf[E(c)]]
  <2>1. On(l)
    BY <1>0 DEF Locals
  <2>2. pc[c] = "admitted" /\ GoOn(c, "nextPanel", l)
    BY <1>3 DEF BeginMatrix, Step
  <2> HIDE DEF l
  <2> QED BY <2>1, <2>2 DEF Phases, Ended
<1>4. CASE NextPanel(c)
  <2> DEFINE p == Min(loc[c].todo)
             l == [loc[c] EXCEPT !.todo = @ \ {p}, !.panel = p,
                                 !.actuator = Min(Actuators)]
  <2>1. On(l)
    BY <1>0 DEF Locals
  <2>2. pc[c] = "nextPanel" /\ (Returns \/ GoOn(c, "stepOut", l))
    BY <1>4 DEF NextPanel, Step, EndOn
  <2> HIDE DEF l
  <2> QED BY <2>1, <2>2 DEF Phases, Ended
<1>5. CASE StepOut(c) \/ StepBack(c)
  <2>1. PICK back \in BOOLEAN, next \in {"waitOut", "waitBack"} :
          SendStep(c, back, next)
    BY <1>5 DEF StepOut, StepBack
  <2>2. pc[c] \in Stepping
    BY <1>5 DEF StepOut, StepBack, Step, Stepping
  <2> DEFINE l == AfterStep(c, back)
  <2>3. Returns \/ GoOn(c, next, l)
    BY <2>1 DEF SendStep, AfterStep
  <2>4. On(l)
    BY <2>2, AfterStepTyped
  <2> HIDE DEF l
  <2> QED BY <2>2, <2>3, <2>4 DEF Phases, Ended, Stepping
<1>6. CASE WaitOut(c) \/ ReadAgain(c) \/ WaitBack(c)
  <2> DEFINE l == [loc[c] EXCEPT !.actuator = Min(Later(c))]
  <2>1. On(l)
    BY <1>0 DEF Locals
  <2>2. /\ pc[c] \in Stepping
        /\ \/ \E phase \in Stepping \cup {"nextPanel"} : Goto(c, phase)
           \/ GoOn(c, "stepOut", l)
    BY <1>6 DEF WaitOut, ReadAgain, WaitBack, NextActuator, Step, Stepping
  <2> HIDE DEF l
  <2> QED BY <1>1, <2>1, <2>2 DEF Phases, Ended, Stepping
<1>7. CASE BeginReading(c) \/ EndReading(c) \/ EndRead(c)
  <2>1. /\ pc[c] \in {"admitted", "reading", "read"}
        /\ \/ Returns
           \/ \E phase \in {"reading", "read", "solving"} : Goto(c, phase)
    BY <1>7 DEF BeginReading, EndReading, EndRead, EndOn, Step
  <2> QED BY <1>1, <2>1 DEF Phases, Ended
<1>8. CASE CheckEdge(c)
  <2> DEFINE e == CHOOSE e \in loc[c].reads : TRUE
             l == [loc[c] EXCEPT !.at = e, !.reads = @ \ {e}]
  <2>1. On(l)
    BY <1>0 DEF Locals
  <2>2. pc[c] = "check" /\ GoOn(c, "compare", l)
    BY <1>8 DEF CheckEdge
  <2> HIDE DEF l
  <2> QED BY <2>1, <2>2 DEF Phases, Ended
<1>9. CASE CompareEdge(c)
  <2>1. PICK hit : GoOn(c, "check", [loc[c] EXCEPT !.hit = @ \/ hit])
    BY <1>9 DEF CompareEdge
  <2> DEFINE l == [loc[c] EXCEPT !.hit = @ \/ hit]
  <2>2. On(l)
    BY <1>0 DEF Locals
  <2>3. pc[c] = "compare"
    BY <1>9 DEF CompareEdge
  <2> HIDE DEF l
  <2> QED BY <2>1, <2>2, <2>3 DEF Phases, Ended, l
<1>10. CASE Calculate(c) \/ BeginAlign(c) \/ EndExecute(c)
  <2>1. /\ pc[c] \in {"solving", "admitted", "sending"}
        /\ Returns \/ \E phase \in {"executing", "setting"} : Goto(c, phase)
    BY <1>10 DEF Calculate, BeginAlign, EndExecute, EndOn, Step
  <2> QED BY <1>1, <2>1 DEF Phases, Ended
<1>11. CASE SetFraction(c)
  <2> DEFINE p == Min(loc[c].moved)
             l == [loc[c] EXCEPT !.x = calc[E(c)], !.todo = loc[c].moved \ {p},
                                 !.panel = p, !.reads = EdgesOf(p)]
  <2>1. On(l)
    BY <1>0 DEF Locals
  <2>2. pc[c] = "setting" /\ (Returns \/ GoOn(c, "check", l))
    BY <1>11 DEF SetFraction, Step, EndOn
  <2> HIDE DEF l
  <2> QED BY <2>1, <2>2 DEF Phases, Ended
<1>12. CASE JudgeFraction(c)
  <2> DEFINE p == Min(loc[c].todo)
             l == [loc[c] EXCEPT !.todo = @ \ {p}, !.panel = p,
                                 !.reads = EdgesOf(p)]
  <2>1. On(l)
    BY <1>0 DEF Locals
  <2>2. pc[c] = "check" /\ (Returns \/ GoOn(c, "check", l))
    BY <1>12 DEF JudgeFraction, Step, EndOn
  <2> HIDE DEF l
  <2> QED BY <2>1, <2>2 DEF Phases, Ended
<1>13. CASE BeginExecute(c)
  <2> DEFINE l == [loc[c] EXCEPT !.x = calc[E(c)], !.todo = loc[c].moved]
  <2>1. On(l)
    BY <1>0 DEF Locals
  <2>2. pc[c] = "executing" /\ (Returns \/ GoOn(c, "sending", l))
    BY <1>13 DEF BeginExecute, Step, EndOn
  <2> HIDE DEF l
  <2> QED BY <2>1, <2>2 DEF Phases, Ended
<1>14. CASE SendPart(c)
  <2> DEFINE l == [loc[c] EXCEPT !.todo = @ \ {Min(loc[c].todo)}]
  <2>1. On(l)
    BY <1>0 DEF Locals
  <2>2. pc[c] = "sending" /\ (Returns \/ GoOn(c, "sending", l))
    BY <1>14 DEF SendPart, Step, EndOn
  <2> HIDE DEF l
  <2> QED BY <2>1, <2>2 DEF Phases, Ended
<1>15. CASE SendPanelMove(c) \/ EndPanelMove(c)
  <2>1. /\ pc[c] \in {"check", "panelWait"}
        /\ Returns \/ Goto(c, "panelWait")
    BY <1>15 DEF SendPanelMove, EndPanelMove, Step
  <2> QED BY <1>1, <2>1 DEF Phases, Ended
<1> QED
  BY <1>2, <1>3, <1>4, <1>5, <1>6, <1>7, <1>8, <1>9, <1>10, <1>11, <1>12,
     <1>13, <1>14, <1>15
  DEF Run, Matrix, Reading, Align

LEMMA OthersStay ==
  ASSUME Typed, NEW c \in Callers, Act(c), NEW d \in Callers, d # c
  PROVE  pc'[d] = pc[d] /\ loc'[d] = loc[d]
<1>1. PICK phase, l : GoOn(c, phase, l)
  BY GoesOn
<1> QED BY <1>1 DEF GoOn, Typed, CallersTyped

LEMMA ActOperated ==
  ASSUME Typed, Operated, NEW c \in Callers, Act(c)
  PROVE  Operated'
<1>1. ASSUME NEW phase \in Phases \ {"good", "bad"}, NEW l,
             GoOn(c, phase, l), l.for = "operator"
      PROVE  Operated'
  BY <1>1 DEF GoOn, Typed, CallersTyped, Operated
<1>2. CASE Call(c)
  <2>1. PICK m, e : \E a :
          GoOn(c, "admitted", [NoLocals EXCEPT !.method = m, !.edge = e,
                 !.moved = a.moved, !.fraction = a.fraction])
    BY <1>2 DEF Call
  <2>2. PICK a :
          GoOn(c, "admitted", [NoLocals EXCEPT !.method = m, !.edge = e,
                 !.moved = a.moved, !.fraction = a.fraction])
    BY <2>1
  <2> DEFINE l == [NoLocals EXCEPT !.method = m, !.edge = e,
                     !.moved = a.moved, !.fraction = a.fraction]
  <2>3. l.for = "operator"
    BY DEF NoLocals
  <2> HIDE DEF l
  <2> QED BY <1>1, <2>2, <2>3 DEF Phases, l
<1>3. CASE CallPanelMove(c)
  <2>1. PICK p : GoOn(c, "check", [NoLocals EXCEPT !.method = "PanelMove",
                          !.panel = p, !.reads = EdgesOf(p)])
    BY <1>3 DEF CallPanelMove
  <2> DEFINE l == [NoLocals EXCEPT !.method = "PanelMove", !.panel = p,
                                   !.reads = EdgesOf(p)]
  <2>2. l.for = "operator"
    BY DEF NoLocals
  <2> HIDE DEF l
  <2> QED BY <1>1, <2>1, <2>2 DEF Phases, l
<1>4. CASE StopBegin(c)
  <2>1. PICK e : StopEdge(c, e, NoLocals)
    BY <1>4 DEF StopBegin
  <2> DEFINE l == [NoLocals EXCEPT !.method = "Stop", !.edge = e,
                                   !.todo = PanelsOf[e]]
  <2>2. l.for = "operator" /\ GoOn(c, "stopping", l)
    BY <2>1 DEF NoLocals, StopEdge
  <2> HIDE DEF l
  <2> QED BY <1>1, <2>2 DEF Phases
<1>5. CASE Run(c)
  <2>1. CASE \E status \in {"good", "bad"} : Return(c, status)
    <3>1. pc'[c] = "idle" /\ loc'[c] = NoLocals
      BY <2>1, ReturnTyped DEF Operated
    <3> QED BY <3>1, NoLocalsTyped, OthersStay DEF Operated
  <2>2. CASE \E phase \in Phases \ Ended : \E l :
               GoOn(c, phase, l) /\ l.for = loc[c].for
    BY <1>1, <2>2 DEF Operated, Ended
  <2> QED BY <1>5, <2>1, <2>2, RunsOn
<1> QED BY <1>2, <1>3, <1>4, <1>5 DEF Act

LEMMA AlwaysOperated == Spec => []Operated
<1>1. EdgeInit => Operated
  BY NoLocalsTyped DEF EdgeInit, Operated
<1>2. Typed /\ Operated /\ [Next]_vars => Operated'
  <2> SUFFICES ASSUME Typed, Operated, [Next]_vars PROVE Operated'
    OBVIOUS
  <2>1. CASE UNCHANGED <<pc, loc>>
    BY <2>1 DEF Operated
  <2>2. CASE \E c \in Callers : Act(c)
    BY <2>2, ActOperated
  <2> QED BY <2>1, <2>2 DEF Next, Act, Servers, Served, vars
<1> QED BY <1>1, <1>2, AlwaysTyped, PTL DEF Spec

\* What the panels do is the servers' business.
LEMMA ActKeepsMoving ==
  ASSUME NEW c \in Callers, Act(c)
  PROVE  moving' = moving
<1>1. CASE Call(c) \/ CallPanelMove(c) \/ StopBegin(c) \/ StopPanel(c)
  BY <1>1 DEF Call, CallPanelMove, StopBegin, StopPanel, panelVars
<1>2. CASE \/ BeginMatrix(c) \/ NextPanel(c) \/ StepOut(c) \/ WaitOut(c)
           \/ ReadAgain(c) \/ StepBack(c) \/ WaitBack(c)
  BY <1>2 DEF BeginMatrix, NextPanel, StepOut, WaitOut, ReadAgain, StepBack,
              WaitBack, SendStep, panelVars
<1>3. CASE \/ BeginReading(c) \/ EndReading(c) \/ EndRead(c)
           \/ CheckEdge(c) \/ CompareEdge(c)
  BY <1>3 DEF BeginReading, EndReading, EndRead, CheckEdge, CompareEdge,
              panelVars
<1>4. CASE \/ Calculate(c) \/ BeginAlign(c) \/ SetFraction(c) \/ JudgeFraction(c)
           \/ BeginExecute(c) \/ SendPart(c) \/ EndExecute(c)
  BY <1>4 DEF Calculate, BeginAlign, SetFraction, JudgeFraction, BeginExecute,
              SendPart, EndExecute, panelVars
<1>5. CASE SendPanelMove(c) \/ EndPanelMove(c)
  BY <1>5 DEF SendPanelMove, EndPanelMove, panelVars
<1> QED BY <1>1, <1>2, <1>3, <1>4, <1>5, ActCases

\* Only four steps send a motion: two of the response matrix, the execution of
\* an alignment, and the move of a panel.
LEMMA OthersSendNothing ==
  ASSUME NEW c \in Callers, Act(c), ~StepOut(c), ~StepBack(c), ~SendPart(c),
         ~SendPanelMove(c)
  PROVE  sent' = sent
<1>1. CASE Call(c) \/ CallPanelMove(c) \/ StopBegin(c) \/ StopPanel(c)
  BY <1>1 DEF Call, CallPanelMove, StopBegin, StopPanel, panelVars
<1>2. CASE \/ BeginMatrix(c) \/ NextPanel(c)
           \/ WaitOut(c) \/ ReadAgain(c) \/ WaitBack(c)
  BY <1>2 DEF BeginMatrix, NextPanel, WaitOut, ReadAgain, WaitBack, panelVars
<1>3. CASE \/ BeginReading(c) \/ EndReading(c) \/ EndRead(c)
           \/ CheckEdge(c) \/ CompareEdge(c)
  BY <1>3 DEF BeginReading, EndReading, EndRead, CheckEdge, CompareEdge,
              panelVars
<1>4. CASE \/ Calculate(c) \/ BeginAlign(c) \/ SetFraction(c) \/ JudgeFraction(c)
           \/ BeginExecute(c) \/ EndExecute(c)
  BY <1>4 DEF Calculate, BeginAlign, SetFraction, JudgeFraction, BeginExecute,
              EndExecute, panelVars
<1>5. CASE EndPanelMove(c)
  BY <1>5 DEF EndPanelMove, panelVars
<1> QED BY <1>1, <1>2, <1>3, <1>4, <1>5, ActCases

\* An execution sends a part to a panel that is to get one, or, when the call
\* fails, nothing.
LEMMA SendsPart ==
  ASSUME Typed, NEW c \in Callers, SendPart(c)
  PROVE  /\ \E p \in loc[c].todo, m \in FitMotions :
              /\ m.of = E(c) /\ m.id = loc[c].x.id
              /\ p \in Panels
              /\ \/ /\ sent' = Sent(p, m)
                    /\ applied' = applied \cup {<<p, E(c), loc[c].x.id>>}
                    /\ GoOn(c, "sending", [loc[c] EXCEPT !.todo = @ \ {p}])
                    /\ UNCHANGED state
                 \/ /\ sent' = sent
                    /\ EndOn(c, "bad")
                    /\ Forget(E(c), loc[c].x.id)
         /\ \E p \in Panels, m \in FitMotions : sent' \in {Sent(p, m), sent}
<1> DEFINE l == loc[c]
           p == Min(l.todo)
           part == IF p = Min(l.moved) THEN Min(l.x.moved) ELSE Garbled
           m == Part(l.edge, l.x, l.fraction, part)
<1>1. Step(c, "Execute", "sending") /\ l.todo # {}
  BY DEF SendPart
<1>2. p \in Panels /\ p \in l.todo /\ part \in Panels \cup {Garbled}
  BY <1>1, SendingMotion, LeastPanel
<1>3. m \in FitMotions /\ m.of = E(c) /\ m.id = l.x.id
  BY <1>1, <1>2, PartTyped, SendingMotion DEF Part
<1>4. \/ /\ sent' = Sent(p, m)
         /\ applied' = applied \cup {<<p, l.edge, l.x.id>>}
         /\ GoOn(c, "sending", [l EXCEPT !.todo = @ \ {p}])
         /\ UNCHANGED state
      \/ /\ sent' = sent
         /\ EndOn(c, "bad")
         /\ Forget(l.edge, l.x.id)
  BY DEF SendPart
<1> HIDE DEF m, p
<1> QED BY <1>1, <1>2, <1>3, <1>4 DEF E

-----------------------------------------------------------------------------
(* Only one thread does anything but stop *)

\* Nobody else calls these methods.
Alone(op, methods) == \A c \in Callers \ {op} : MethodsOf[c] \cap methods = {}

LEMMA OthersStop ==
  ASSUME Typed, Operated, NEW op \in Callers, Alone(op, Methods \ {"Stop"}),
         NEW c \in Callers, c # op, Act(c)
  PROVE  StopBegin(c) \/ StopPanel(c)
<1>1. MethodsOf[c] \subseteq {"Stop"}
  <2>1. MethodsOf[c] \subseteq Methods
    BY EdgeAssumption
  <2>2. MethodsOf[c] \cap (Methods \ {"Stop"}) = {}
    BY DEF Alone
  <2> QED BY <2>1, <2>2
<1>2. pc[c] # "idle" => loc[c].method = "Stop"
  BY <1>1, LocalsOf DEF LocalsOK, Operated, Ended
<1>3. pc[c] \notin {"reading", "check", "compare"}
  BY <1>2, LocalsOf DEF LocalsOK
<1>4. ~Call(c) /\ ~CallPanelMove(c)
  BY <1>1 DEF Call, CallPanelMove
<1>5. /\ ~BeginMatrix(c) /\ ~NextPanel(c) /\ ~StepOut(c) /\ ~WaitOut(c)
      /\ ~ReadAgain(c) /\ ~StepBack(c) /\ ~WaitBack(c)
  BY <1>2 DEF BeginMatrix, NextPanel, StepOut, WaitOut, ReadAgain, StepBack,
              WaitBack, Step
<1>6. /\ ~BeginReading(c) /\ ~EndReading(c) /\ ~EndRead(c)
      /\ ~CheckEdge(c) /\ ~CompareEdge(c)
  BY <1>2, <1>3
  DEF BeginReading, EndReading, EndRead, CheckEdge, CompareEdge, Step
<1>7. /\ ~Calculate(c) /\ ~BeginAlign(c) /\ ~SetFraction(c)
      /\ ~JudgeFraction(c) /\ ~BeginExecute(c) /\ ~SendPart(c)
      /\ ~EndExecute(c) /\ ~SendPanelMove(c) /\ ~EndPanelMove(c)
  BY <1>2 DEF Calculate, BeginAlign, SetFraction, JudgeFraction, BeginExecute,
              SendPart, EndExecute, SendPanelMove, EndPanelMove, Step
<1> QED BY <1>4, <1>5, <1>6, <1>7, ActCases

LEMMA Arrives ==
  ASSUME Typed, NEW c \in Callers, NEW phase, NEW l, GoOn(c, phase, l)
  PROVE  pc'[c] = phase /\ loc'[c] = l
BY DEF GoOn, Typed, CallersTyped

\* The phases in which a method has set the state of its edge to busy and has not
\* set it back, and the reading of an edge during a check.
Holding == Stepping \cup {"nextPanel", "reading", "setting", "check", "compare",
                          "executing", "sending"}

Holds(phase, l, e) ==
  \/ phase \in Holding /\ l.method # "PanelMove" /\ l.edge = e
  \/ phase = "compare" /\ l.at = e

Held(op) ==
  \A e \in Edges : state[e] = "Busy" => e \in abandoned \/ Holds(pc[op], loc[op], e)

\* A method that ends gives up its edge.
LEMMA EndOnHeld ==
  ASSUME Typed, NEW op \in Callers, Held(op), pc[op] # "compare",
         NEW status \in {"good", "bad"}, EndOn(op, status), UNCHANGED abandoned
  PROVE  Held(op)'
<1>1. E(op) \in Edges
  BY LocalsOf
<1>2. /\ state'[E(op)] = "On"
      /\ \A e \in Edges \ {E(op)} : state'[e] = state[e]
  BY <1>1, StateTyped DEF EndOn
<1> QED BY <1>1, <1>2 DEF Held, Holds, E

\* A method that held no edge, and leaves the states alone.
LEMMA NoneHeld ==
  ASSUME Typed, NEW op \in Callers, Held(op), UNCHANGED <<state, abandoned>>,
         pc[op] \notin Holding \/ loc[op].method = "PanelMove",
         pc[op] # "compare"
  PROVE  Held(op)'
BY DEF Held, Holds, Holding

\* A method that goes on with its edge.
LEMMA StillHeld ==
  ASSUME Typed, NEW op \in Callers, Held(op), UNCHANGED <<state, abandoned>>,
         NEW phase \in Holding, NEW l, GoOn(op, phase, l),
         l.edge = loc[op].edge, l.method = loc[op].method,
         l.method # "PanelMove", pc[op] # "compare"
  PROVE  Held(op)'
<1>1. pc'[op] = phase /\ loc'[op] = l
  BY Arrives
<1> QED BY <1>1 DEF Held, Holds

LEMMA MatrixHeld ==
  ASSUME Typed, NEW op \in Callers, Held(op), Matrix(op)
  PROVE  Held(op)'
<1>0. loc[op] \in Locals /\ E(op) \in Edges /\ E(op) = loc[op].edge
  BY LocalsOf DEF E
<1>1. CASE BeginMatrix(op)
  <2>1. /\ SetState(E(op), "Busy") /\ abandoned' = abandoned \ {E(op)}
        /\ pc[op] = "admitted" /\ loc[op].method = "FindMatrix"
        /\ GoOn(op, "nextPanel", [loc[op] EXCEPT !.todo = PanelsOf[E(op)]])
    BY <1>1 DEF BeginMatrix, Step
  <2>2. /\ pc'[op] = "nextPanel" /\ loc'[op].edge = E(op)
        /\ loc'[op].method = "FindMatrix"
    BY <1>0, <2>1, Arrives DEF Locals
  <2>3. \A e \in Edges \ {E(op)} : state'[e] = state[e]
    BY <1>0, <2>1, StateTyped
  <2> QED BY <2>1, <2>2, <2>3 DEF Held, Holds, Holding, Stepping
<1>2. CASE NextPanel(op)
  <2>1. pc[op] = "nextPanel" /\ loc[op].method = "FindMatrix" /\ UNCHANGED abandoned
    BY <1>2 DEF NextPanel, Step
  <2>2. CASE EndOn(op, "good")
    BY <2>1, <2>2, EndOnHeld
  <2>3. CASE ~EndOn(op, "good")
    <3> DEFINE p == Min(loc[op].todo)
               l == [loc[op] EXCEPT !.todo = @ \ {p}, !.panel = p,
                                    !.actuator = Min(Actuators)]
    <3>1. GoOn(op, "stepOut", l) /\ UNCHANGED state
      BY <1>2, <2>3 DEF NextPanel
    <3>2. l.edge = loc[op].edge /\ l.method = loc[op].method
      BY <1>0 DEF Locals
    <3> HIDE DEF l
    <3> QED BY <2>1, <3>1, <3>2, StillHeld DEF Holding, Stepping
  <2> QED BY <2>2, <2>3
<1>3. ASSUME NEW back \in BOOLEAN, NEW next \in {"waitOut", "waitBack"},
             SendStep(op, back, next), pc[op] \in Stepping
      PROVE  Held(op)'
  <2>1. loc[op].method = "FindMatrix" /\ UNCHANGED state
    BY <1>3, LocalsOf DEF LocalsOK, SendStep
  <2> DEFINE l == AfterStep(op, back)
  <2>2. CASE GoOn(op, next, l) /\ UNCHANGED abandoned
    <3>1. l.edge = loc[op].edge /\ l.method = loc[op].method
      BY <1>3, AfterStepTyped
    <3>2. pc[op] # "compare"
      BY <1>3 DEF Stepping
    <3> HIDE DEF l
    <3> QED BY <2>1, <2>2, <3>1, <3>2, StillHeld DEF Holding, Stepping
  <2>3. CASE abandoned' = abandoned \cup {E(op)}
    BY <1>0, <1>3, <2>1, <2>3 DEF Held, Holds, Stepping
  <2> QED BY <1>3, <2>2, <2>3 DEF SendStep, AfterStep
<1>4. ASSUME NEW phase \in {"nextPanel", "readAgain", "stepBack"},
             Goto(op, phase),
             UNCHANGED <<state, abandoned>>, pc[op] \in Stepping
      PROVE  Held(op)'
  <2>1. loc[op].method = "FindMatrix"
    BY <1>4, LocalsOf DEF LocalsOK
  <2> QED BY <1>4, <2>1, StillHeld DEF Goto, Holding, Stepping
<1>5. CASE StepOut(op)
  BY <1>3, <1>5 DEF StepOut, Step, Stepping
<1>6. CASE WaitOut(op) \/ ReadAgain(op)
  BY <1>4, <1>6 DEF WaitOut, ReadAgain, Step, Stepping, edgeVars
<1>7. CASE StepBack(op)
  BY <1>3, <1>7 DEF StepBack, Step, Stepping
<1>8. CASE WaitBack(op)
  <2>1. pc[op] = "waitBack" /\ UNCHANGED <<state, abandoned>>
        /\ loc[op].method = "FindMatrix"
    BY <1>8 DEF WaitBack, Step, edgeVars
  <2>2. CASE Goto(op, "nextPanel")
    BY <1>4, <2>1, <2>2 DEF Stepping
  <2>3. CASE ~Goto(op, "nextPanel")
    <3> DEFINE l == [loc[op] EXCEPT !.actuator = Min(Later(op))]
    <3>1. GoOn(op, "stepOut", l)
      BY <1>8, <2>3 DEF WaitBack, NextActuator
    <3>2. l.edge = loc[op].edge /\ l.method = loc[op].method
      BY <1>0 DEF Locals
    <3> HIDE DEF l
    <3> QED BY <2>1, <3>1, <3>2, StillHeld DEF Holding, Stepping
  <2> QED BY <2>2, <2>3
<1> QED
  BY <1>1, <1>2, <1>5, <1>6, <1>7, <1>8 DEF Matrix

LEMMA ReadingHeld ==
  ASSUME Typed, NEW op \in Callers, Held(op), Reading(op)
  PROVE  Held(op)'
<1>0. /\ loc[op] \in Locals /\ E(op) \in Edges /\ E(op) = loc[op].edge
      /\ LocalsOK(op, pc[op], loc[op])
  BY LocalsOf DEF E
<1>1. CASE BeginReading(op)
  <2>1. /\ SetState(E(op), "Busy") /\ UNCHANGED abandoned
        /\ pc[op] = "admitted" /\ loc[op].method \in {"Calculate", "Read"}
        /\ GoOn(op, "reading", loc[op])
    BY <1>1 DEF BeginReading, Goto
  <2>2. pc'[op] = "reading" /\ loc'[op] = loc[op]
    BY <2>1, Arrives
  <2>3. \A e \in Edges \ {E(op)} : state'[e] = state[e]
    BY <1>0, <2>1, StateTyped
  <2> QED BY <1>0, <2>1, <2>2, <2>3 DEF Held, Holds, Holding, Stepping
<1>2. CASE EndReading(op)
  <2>1. SetState(E(op), "On") /\ UNCHANGED abandoned /\ pc[op] = "reading"
    BY <1>2 DEF EndReading
  <2>2. /\ state'[E(op)] = "On"
        /\ \A e \in Edges \ {E(op)} : state'[e] = state[e]
    BY <1>0, <2>1, StateTyped
  <2> QED BY <1>0, <2>1, <2>2 DEF Held, Holds
<1>3. CASE EndRead(op)
  <2>1. pc[op] = "read" /\ UNCHANGED abandoned
    BY <1>3 DEF EndRead, Step
  <2>2. CASE EndOn(op, "good")
    BY <2>1, <2>2, EndOnHeld
  <2>3. CASE UNCHANGED state
    BY <2>1, <2>3, NoneHeld DEF Holding, Stepping
  <2> QED BY <1>3, <2>2, <2>3 DEF EndRead
<1>4. CASE CheckEdge(op)
  <2> DEFINE e == CHOOSE e \in loc[op].reads : TRUE
             l == [loc[op] EXCEPT !.at = e, !.reads = @ \ {e}]
  <2>1. /\ pc[op] = "check" /\ SetState(e, "Busy") /\ GoOn(op, "compare", l)
        /\ UNCHANGED abandoned
    BY <1>4 DEF CheckEdge
  <2>2. e \in Edges
    BY <1>0, <1>4 DEF CheckEdge, Locals
  <2> HIDE DEF e
  <2>3. l.at = e /\ l.edge = E(op) /\ l.method = loc[op].method
    BY <1>0, <2>2 DEF Locals
  <2> HIDE DEF l
  <2>4. pc'[op] = "compare" /\ loc'[op] = l
    BY <2>1, Arrives
  <2>5. \A d \in Edges \ {e} : state'[d] = state[d]
    BY <2>1, <2>2, StateTyped
  <2> QED
    BY <1>0, <2>1, <2>3, <2>4, <2>5 DEF Held, Holds, Holding, Stepping
<1>5. CASE CompareEdge(op)
  <2>1. PICK hit \in BOOLEAN : GoOn(op, "check", [loc[op] EXCEPT !.hit = @ \/ hit])
    BY <1>5 DEF CompareEdge
  <2> DEFINE l == [loc[op] EXCEPT !.hit = @ \/ hit]
  <2>2. /\ pc[op] = "compare" /\ SetState(loc[op].at, "On") /\ UNCHANGED abandoned
    BY <1>5 DEF CompareEdge
  <2>3. l.edge = E(op) /\ l.method = loc[op].method
    BY <1>0 DEF Locals
  <2>4. GoOn(op, "check", l)
    BY <2>1
  <2> HIDE DEF l
  <2>5. pc'[op] = "check" /\ loc'[op] = l
    BY <2>4, Arrives
  <2>6. /\ loc[op].at \in Edges /\ state'[loc[op].at] = "On"
        /\ \A d \in Edges \ {loc[op].at} : state'[d] = state[d]
    <3>1. loc[op].at \in Edges
      BY <1>0 DEF Locals
    <3> QED BY <2>2, <3>1, StateTyped
  <2> QED
    BY <1>0, <2>2, <2>3, <2>5, <2>6 DEF Held, Holds, Holding, Stepping
<1> QED
  BY <1>1, <1>2, <1>3, <1>4, <1>5 DEF Reading

LEMMA AlignHeld ==
  ASSUME Typed, NEW op \in Callers, Held(op), Align(op)
  PROVE  Held(op)'
<1>0. /\ loc[op] \in Locals /\ E(op) \in Edges /\ E(op) = loc[op].edge
      /\ LocalsOK(op, pc[op], loc[op])
  BY LocalsOf DEF E
<1>1. CASE Calculate(op)
  BY <1>1, EndOnHeld DEF Calculate, Step
<1>2. CASE BeginAlign(op)
  <2>1. /\ SetState(E(op), "Busy") /\ UNCHANGED abandoned
        /\ pc[op] = "admitted" /\ loc[op].method \in {"SetAlignFrac", "Execute"}
        /\ GoOn(op, IF loc[op].method = "Execute" THEN "executing" ELSE "setting",
                loc[op])
    BY <1>2 DEF BeginAlign, Goto
  <2>2. pc'[op] \in {"executing", "setting"} /\ loc'[op] = loc[op]
    BY <2>1, Arrives
  <2>3. \A e \in Edges \ {E(op)} : state'[e] = state[e]
    BY <1>0, <2>1, StateTyped
  <2> QED BY <1>0, <2>1, <2>2, <2>3 DEF Held, Holds, Holding, Stepping
<1>3. ASSUME NEW x, NEW todo, NEW p, NEW reads, UNCHANGED <<state, abandoned>>,
             pc[op] # "compare", loc[op].method = "SetAlignFrac",
             \/ GoOn(op, "check", [loc[op] EXCEPT !.x = x, !.todo = todo,
                                                  !.panel = p, !.reads = reads])
             \/ GoOn(op, "check", [loc[op] EXCEPT !.todo = todo,
                                                  !.panel = p, !.reads = reads])
      PROVE  Held(op)'
  <2> DEFINE l == [loc[op] EXCEPT !.todo = todo, !.panel = p, !.reads = reads]
             k == [loc[op] EXCEPT !.x = x, !.todo = todo, !.panel = p,
                                  !.reads = reads]
  <2>1. /\ l.edge = loc[op].edge /\ l.method = loc[op].method
        /\ k.edge = loc[op].edge /\ k.method = loc[op].method
    BY <1>0 DEF Locals
  <2>2. GoOn(op, "check", l) \/ GoOn(op, "check", k)
    BY <1>3
  <2> HIDE DEF l, k
  <2> QED BY <1>3, <2>1, <2>2, StillHeld DEF Holding
<1>4. CASE SetFraction(op)
  <2>1. pc[op] = "setting" /\ loc[op].method = "SetAlignFrac" /\ UNCHANGED abandoned
    BY <1>4 DEF SetFraction, Step
  <2>2. CASE EndOn(op, "bad")
    BY <2>1, <2>2, EndOnHeld
  <2>3. CASE ~EndOn(op, "bad")
    BY <1>3, <1>4, <2>1, <2>3 DEF SetFraction
  <2> QED BY <2>2, <2>3
<1>5. CASE JudgeFraction(op)
  <2>1. pc[op] = "check" /\ loc[op].method = "SetAlignFrac" /\ UNCHANGED abandoned
    BY <1>5 DEF JudgeFraction, Step
  <2>2. CASE loc[op].hit \/ loc[op].todo = {}
    <3>1. PICK status \in {"good", "bad"} : EndOn(op, status)
      BY <1>5, <2>2 DEF JudgeFraction
    <3> QED BY <2>1, <3>1, EndOnHeld
  <2>3. CASE ~(loc[op].hit \/ loc[op].todo = {})
    BY <1>3, <1>5, <2>1, <2>3 DEF JudgeFraction
  <2> QED BY <2>2, <2>3
<1>6. CASE BeginExecute(op)
  <2>1. pc[op] = "executing" /\ loc[op].method = "Execute" /\ UNCHANGED abandoned
    BY <1>6 DEF BeginExecute, Step
  <2>2. CASE EndOn(op, "bad")
    BY <2>1, <2>2, EndOnHeld
  <2>3. CASE ~EndOn(op, "bad")
    <3> DEFINE l == [loc[op] EXCEPT !.x = calc[E(op)], !.todo = loc[op].moved]
    <3>1. GoOn(op, "sending", l) /\ UNCHANGED state
      BY <1>6, <2>3 DEF BeginExecute
    <3>2. l.edge = loc[op].edge /\ l.method = loc[op].method
      BY <1>0 DEF Locals
    <3> HIDE DEF l
    <3> QED BY <2>1, <3>1, <3>2, StillHeld DEF Holding
  <2> QED BY <2>2, <2>3
<1>7. CASE SendPart(op)
  <2>1. pc[op] = "sending" /\ loc[op].method = "Execute" /\ UNCHANGED abandoned
    BY <1>7 DEF SendPart, Step
  <2>2. CASE EndOn(op, "bad")
    BY <2>1, <2>2, EndOnHeld
  <2>3. CASE ~EndOn(op, "bad")
    <3>1. PICK p : /\ GoOn(op, "sending", [loc[op] EXCEPT !.todo = @ \ {p}])
                   /\ UNCHANGED state
      BY <1>7, <2>3, SendsPart
    <3> DEFINE l == [loc[op] EXCEPT !.todo = @ \ {p}]
    <3>2. l.edge = loc[op].edge /\ l.method = loc[op].method
      BY <1>0 DEF Locals
    <3>3. GoOn(op, "sending", l)
      BY <3>1
    <3> HIDE DEF l
    <3> QED BY <2>1, <3>1, <3>2, <3>3, StillHeld DEF Holding
  <2> QED BY <2>2, <2>3
<1>8. CASE EndExecute(op)
  BY <1>8, EndOnHeld DEF EndExecute, Step
<1> QED
  BY <1>1, <1>2, <1>4, <1>5, <1>6, <1>7, <1>8 DEF Align

LEMMA ActHeld ==
  ASSUME Typed, Operated, NEW op \in Callers, Held(op), Alone(op, Methods \ {"Stop"}),
         NEW c \in Callers, Act(c)
  PROVE  Held(op)'
<1>1. CASE StopBegin(c)
  <2>1. PICK e \in Edges : StopEdge(c, e, NoLocals)
    BY <1>1 DEF StopBegin
  <2>2. /\ state'[e] = "Off" /\ \A d \in Edges \ {e} : state'[d] = state[d]
        /\ UNCHANGED abandoned /\ pc[c] = "idle"
    BY <1>1, <2>1, StateTyped DEF StopBegin, StopEdge
  <2>3. CASE c = op
    BY <2>2, <2>3 DEF Held, Holds, Holding, Stepping
  <2>4. CASE c # op
    BY <2>2, <2>4, OthersStay DEF Held
  <2> QED BY <2>3, <2>4
<1>2. CASE StopPanel(c)
  <2>1. pc[c] = "stopping" /\ UNCHANGED <<state, abandoned>>
    BY <1>2 DEF StopPanel, Step
  <2>2. CASE c = op
    BY <2>1, <2>2, NoneHeld DEF Holding, Stepping
  <2>3. CASE c # op
    BY <2>1, <2>3, OthersStay DEF Held
  <2> QED BY <2>2, <2>3
<1>3. CASE ~StopBegin(c) /\ ~StopPanel(c)
  <2>1. c = op
    BY <1>3, OthersStop
  <2>2. CASE Call(op) \/ CallPanelMove(op)
    BY <2>2, NoneHeld
    DEF Call, CallPanelMove, edgeVars, Holding, Stepping
  <2>3. CASE SendPanelMove(op) \/ EndPanelMove(op)
    BY <2>3, NoneHeld DEF SendPanelMove, EndPanelMove, Step
  <2> QED
    BY <1>3, <2>1, <2>2, <2>3, MatrixHeld, ReadingHeld, AlignHeld DEF Act, Run
<1> QED BY <1>1, <1>2, <1>3

\* When the other threads do nothing but stop, every method of an edge ends with
\* the edge not busy, on each of its returns, whenever it is stopped and whichever
\* calls fail: all but a response matrix whose steps could not be sent
\* (edgecontroller.cpp, findSingleMatrix), which leaves the edge busy for good.
THEOREM EdgesAreGivenBack ==
  ASSUME NEW op \in Callers, Alone(op, Methods \ {"Stop"})
  PROVE  Spec => []BusyMeansRunning
<1>1. EdgeInit => Held(op)
  BY DEF EdgeInit, Held
<1>2. Typed /\ Operated /\ Held(op) /\ [Next]_vars => Held(op)'
  <2> SUFFICES ASSUME Typed, Operated, Held(op), [Next]_vars PROVE Held(op)'
    OBVIOUS
  <2>1. CASE UNCHANGED vars
    BY <2>1 DEF vars, edgeVars, Held
  <2>2. CASE Servers
    BY <2>2 DEF Servers, Served, edgeVars, Held
  <2>3. ASSUME NEW c \in Callers, Act(c) PROVE Held(op)'
    BY <2>3, ActHeld
  <2> QED BY <2>1, <2>2, <2>3 DEF Next, Act
<1>3. Held(op) => BusyMeansRunning
  BY DEF Held, Holds, Holding, Stepping, BusyMeansRunning
<1> QED BY <1>1, <1>2, <1>3, AlwaysTyped, AlwaysOperated, PTL DEF Spec

-----------------------------------------------------------------------------
(* What was executed is not executed again *)

\* No part of a calculated motion has been sent, but for the panels an execution
\* is done with.
Unsent(op) ==
  /\ pc[op] = "sending" => loc[op].x = calc[E(op)]
  /\ \A e \in Edges, p \in Panels :
       /\ calc[e] # NoMotion
       /\ pc[op] = "sending" /\ E(op) = e => p \in loc[op].todo
       => <<p, e, calc[e].id>> \notin applied

\* Motions are calculated, forgotten and sent by three steps, and executed after
\* a fourth.
LEMMA OthersKeepMotions ==
  ASSUME Typed, NEW c \in Callers, Act(c),
         ~Calculate(c), ~SendPart(c), ~EndExecute(c)
  PROVE  /\ UNCHANGED <<calc, applied>>
         /\ pc[c] # "sending"
         /\ pc'[c] = "sending" => BeginExecute(c)
<1>0. LocalsOK(c, pc[c], loc[c])
  BY LocalsOf
<1>1. CASE Call(c) \/ CallPanelMove(c) \/ StopBegin(c) \/ StopPanel(c)
  <2>1. UNCHANGED <<calc, applied>> /\ pc[c] # "sending"
    BY <1>1 DEF Call, CallPanelMove, StopBegin, StopPanel, edgeVars, Step
  <2>2. \/ \E phase \in {"admitted", "check", "stopping"} : \E l : GoOn(c, phase, l)
        \/ Return(c, "good")
    BY <1>1 DEF Call, CallPanelMove, StopBegin, StopEdge, StopPanel
  <2>3. pc'[c] # "sending"
    BY <2>2, Arrives, ReturnTyped DEF Ended
  <2> QED BY <2>1, <2>3
<1>2. CASE \/ BeginMatrix(c) \/ NextPanel(c) \/ StepOut(c) \/ WaitOut(c)
           \/ ReadAgain(c) \/ StepBack(c) \/ WaitBack(c)
  <2>1. UNCHANGED <<calc, applied>> /\ pc[c] # "sending"
    BY <1>2 DEF BeginMatrix, NextPanel, StepOut, WaitOut, ReadAgain, StepBack,
                WaitBack, SendStep, edgeVars, Step
  <2>2. \/ \E phase \in Stepping \cup {"nextPanel"} : \E l : GoOn(c, phase, l)
        \/ \E status \in {"good", "bad"} : Return(c, status)
    BY <1>2 DEF BeginMatrix, NextPanel, StepOut, WaitOut, ReadAgain, StepBack,
                WaitBack, SendStep, NextActuator, EndOn, Goto, Stepping
  <2>3. pc'[c] # "sending"
    BY <2>2, Arrives, ReturnTyped DEF Stepping, Ended
  <2> QED BY <2>1, <2>3
<1>3. CASE \/ BeginReading(c) \/ EndReading(c) \/ EndRead(c)
           \/ CheckEdge(c) \/ CompareEdge(c)
  <2>1. UNCHANGED <<calc, applied>> /\ pc[c] # "sending"
    BY <1>3 DEF BeginReading, EndReading, EndRead, CheckEdge, CompareEdge, Step
  <2>2. \/ \E phase \in {"reading", "read", "solving", "compare", "check"} : \E l :
             GoOn(c, phase, l)
        \/ \E status \in {"good", "bad"} : Return(c, status)
    BY <1>3 DEF BeginReading, EndReading, EndRead, CheckEdge, CompareEdge,
                EndOn, Goto
  <2>3. pc'[c] # "sending"
    BY <2>2, Arrives, ReturnTyped DEF Ended
  <2> QED BY <2>1, <2>3
<1>4. CASE BeginAlign(c) \/ SetFraction(c) \/ JudgeFraction(c)
  <2>1. UNCHANGED <<calc, applied>> /\ pc[c] # "sending"
    BY <1>4 DEF BeginAlign, SetFraction, JudgeFraction, Step
  <2>2. \/ \E phase \in {"executing", "setting", "check"} : \E l : GoOn(c, phase, l)
        \/ \E status \in {"good", "bad"} : Return(c, status)
    BY <1>4 DEF BeginAlign, SetFraction, JudgeFraction, EndOn, Goto
  <2>3. pc'[c] # "sending"
    BY <2>2, Arrives, ReturnTyped DEF Ended
  <2> QED BY <2>1, <2>3
<1>5. CASE BeginExecute(c)
  BY <1>5 DEF BeginExecute, Step
<1>6. CASE SendPanelMove(c) \/ EndPanelMove(c)
  <2>1. UNCHANGED <<calc, applied>> /\ pc[c] # "sending"
    BY <1>6 DEF SendPanelMove, EndPanelMove, Step
  <2>2. \/ \E phase \in {"panelWait"} : \E l : GoOn(c, phase, l)
        \/ \E status \in {"good", "bad"} : Return(c, status)
    BY <1>6 DEF SendPanelMove, EndPanelMove, Goto
  <2>3. pc'[c] # "sending"
    BY <2>2, Arrives, ReturnTyped DEF Ended
  <2> QED BY <2>1, <2>3
<1> QED BY <1>1, <1>2, <1>3, <1>4, <1>5, <1>6, ActCases

\* Nobody else is in one of these methods.
NoOther(op, methods) ==
  \A c \in Callers \ {op} : pc[c] \notin Ended => loc[c].method \notin methods

LEMMA AloneNoOther ==
  ASSUME Typed, Operated, NEW op, NEW methods, Alone(op, methods)
  PROVE  NoOther(op, methods)
BY LocalsOf DEF LocalsOK, Operated, Alone, NoOther

LEMMA ActUnsent ==
  ASSUME Typed, NEW op \in Callers, NoOther(op, {"Calculate", "Execute"}),
         Unsent(op), NEW c \in Callers, Act(c)
  PROVE  Unsent(op)'
<1>0. /\ loc[op] \in Locals /\ E(op) \in Edges /\ E(op) = loc[op].edge
      /\ calc \in [Edges -> Calculated]
  BY LocalsOf DEF E, Typed, EdgesTyped
<1>1. ASSUME c # op, pc[c] \notin Ended
      PROVE  loc[c].method \notin {"Calculate", "Execute"}
  BY <1>1 DEF NoOther
<1>2. CASE Calculate(c)
  <2>1. c = op
    BY <1>1, <1>2 DEF Calculate, Step, Ended
  <2>2. \E status \in {"good", "bad"} : EndOn(op, status)
    BY <1>2, <2>1 DEF Calculate
  <2>3. pc'[op] # "sending"
    BY <2>2, ReturnTyped DEF EndOn, Ended
  <2>4. CASE UNCHANGED <<calc, applied>>
    <3>1. pc[op] # "sending"
      BY <1>2, <2>1 DEF Calculate, Step
    <3> QED BY <2>3, <2>4, <3>1 DEF Unsent
  <2>5. CASE ~UNCHANGED <<calc, applied>>
    <3> DEFINE e == E(op)
               numbers == Unused(e, {loc[d].x.id : d \in {d \in Callers : E(d) = e}})
               n == Min(numbers)
    <3>1. PICK x \in {[id |-> n, moved |-> loc[op].moved], NoMotion} :
            calc' = [calc EXCEPT ![e] = x] /\ Forget(e, n)
      BY <1>2, <2>1, <2>5 DEF Calculate
    <3>2. pc[op] # "sending"
      BY <1>2, <2>1 DEF Calculate, Step
    <3> HIDE DEF n
    <3>3. ASSUME NEW d \in Edges, NEW p \in Panels, calc'[d] # NoMotion
          PROVE  <<p, d, calc'[d].id>> \notin applied'
      <4>1. CASE d = e
        <5>1. calc'[d].id = n
          BY <1>0, <3>1, <3>3, <4>1
        <5> QED BY <3>1, <4>1, <5>1 DEF Forget
      <4>2. CASE d # e
        <5>1. calc'[d] = calc[d]
          BY <1>0, <3>1, <4>2
        <5>2. <<p, d, calc[d].id>> \notin applied
          BY <3>2, <3>3, <5>1 DEF Unsent
        <5> QED BY <3>1, <5>1, <5>2 DEF Forget
      <4> QED BY <4>1, <4>2
    <3> QED BY <2>3, <3>3 DEF Unsent
  <2> QED BY <2>4, <2>5
<1>3. CASE SendPart(c)
  <2>1. c = op /\ pc[op] = "sending" /\ UNCHANGED calc
    BY <1>1, <1>3 DEF SendPart, Step, Ended
  <2>2. PICK p \in loc[op].todo, m \in FitMotions :
          \/ /\ applied' = applied \cup {<<p, E(op), loc[op].x.id>>}
             /\ GoOn(op, "sending", [loc[op] EXCEPT !.todo = @ \ {p}])
          \/ /\ EndOn(op, "bad")
             /\ Forget(E(op), loc[op].x.id)
    BY <1>3, <2>1, SendsPart
  <2>3. CASE /\ applied' = applied \cup {<<p, E(op), loc[op].x.id>>}
             /\ GoOn(op, "sending", [loc[op] EXCEPT !.todo = @ \ {p}])
    <3> DEFINE l == [loc[op] EXCEPT !.todo = @ \ {p}]
    <3>1. l.todo = loc[op].todo \ {p} /\ l.edge = loc[op].edge /\ l.x = loc[op].x
      BY <1>0 DEF Locals
    <3>2. GoOn(op, "sending", l)
      BY <2>3
    <3> HIDE DEF l
    <3>3. pc'[op] = "sending" /\ loc'[op] = l
      BY <3>2, Arrives
    <3>4. ASSUME NEW d \in Edges, NEW q \in Panels, calc[d] # NoMotion,
                 E(op) = d => q \in l.todo
          PROVE  <<q, d, calc[d].id>> \notin applied'
      <4>1. <<q, d, calc[d].id>> \notin applied
        BY <2>1, <3>1, <3>4 DEF Unsent
      <4>2. <<q, d, calc[d].id>> # <<p, E(op), loc[op].x.id>>
        BY <3>1, <3>4
      <4> QED BY <2>3, <4>1, <4>2
    <3> QED BY <2>1, <3>1, <3>3, <3>4 DEF Unsent, E
  <2>4. CASE EndOn(op, "bad") /\ Forget(E(op), loc[op].x.id)
    <3>1. pc'[op] # "sending"
      BY <2>4, ReturnTyped DEF EndOn, Ended
    <3>2. ASSUME NEW d \in Edges, NEW q \in Panels, calc[d] # NoMotion
          PROVE  <<q, d, calc[d].id>> \notin applied'
      <4>1. CASE d = E(op)
        <5>1. loc[op].x = calc[d]
          BY <2>1, <4>1 DEF Unsent
        <5> QED BY <2>4, <4>1, <5>1 DEF Forget
      <4>2. CASE d # E(op)
        <5>1. <<q, d, calc[d].id>> \notin applied
          BY <3>2, <4>2 DEF Unsent
        <5> QED BY <2>4, <5>1 DEF Forget
      <4> QED BY <4>1, <4>2
    <3> QED BY <2>1, <3>1, <3>2 DEF Unsent
  <2> QED BY <2>2, <2>3, <2>4
<1>4. CASE EndExecute(c)
  <2>1. c = op
    BY <1>1, <1>4 DEF EndExecute, Step, Ended
  <2>2. /\ calc' = [calc EXCEPT ![E(op)] = NoMotion] /\ UNCHANGED applied
        /\ EndOn(op, "good")
    BY <1>4, <2>1 DEF EndExecute
  <2>3. pc'[op] # "sending"
    BY <2>2, ReturnTyped DEF EndOn, Ended
  <2>4. ASSUME NEW d \in Edges, NEW p \in Panels, calc'[d] # NoMotion
        PROVE  <<p, d, calc'[d].id>> \notin applied
    <3>1. d # E(op) /\ calc'[d] = calc[d]
      BY <1>0, <2>2, <2>4
    <3> QED BY <2>4, <3>1 DEF Unsent
  <2> QED BY <2>2, <2>3, <2>4 DEF Unsent
<1>5. CASE BeginExecute(c)
  <2>1. c = op /\ pc[op] = "executing" /\ UNCHANGED <<calc, applied>>
    BY <1>1, <1>5 DEF BeginExecute, Step, Ended
  <2>2. CASE EndOn(op, "bad")
    <3>1. pc'[op] # "sending"
      BY <2>2, ReturnTyped DEF EndOn, Ended
    <3> QED BY <2>1, <3>1 DEF Unsent
  <2>3. CASE ~EndOn(op, "bad")
    <3> DEFINE l == [loc[op] EXCEPT !.x = calc[E(op)], !.todo = loc[op].moved]
    <3>1. GoOn(op, "sending", l)
      BY <1>5, <2>1, <2>3 DEF BeginExecute
    <3>2. l.x = calc[E(op)] /\ l.edge = E(op)
      BY <1>0 DEF Locals
    <3> HIDE DEF l
    <3>3. pc'[op] = "sending" /\ loc'[op] = l
      BY <3>1, Arrives
    <3> QED BY <2>1, <3>2, <3>3 DEF Unsent, E
  <2> QED BY <2>2, <2>3
<1>6. CASE ~Calculate(c) /\ ~SendPart(c) /\ ~EndExecute(c) /\ ~BeginExecute(c)
  <2>1. /\ UNCHANGED <<calc, applied>> /\ pc[c] # "sending"
        /\ pc'[c] # "sending"
    BY <1>6, OthersKeepMotions
  <2>2. CASE c = op
    BY <2>1, <2>2 DEF Unsent
  <2>3. CASE c # op
    <3>1. pc'[op] = pc[op] /\ loc'[op] = loc[op]
      BY <2>3, OthersStay
    <3> QED BY <2>1, <3>1 DEF Unsent, E
  <2> QED BY <2>2, <2>3
<1> QED BY <1>2, <1>3, <1>4, <1>5, <1>6

\* A part of a fit is sent by an execution.
LEMMA OnlyExecuteSendsParts ==
  ASSUME Typed, NEW c \in Callers, Act(c), NEW p \in Panels,
         NEW m \in FitMotions, m \in sent'[p] \ sent[p]
  PROVE  /\ SendPart(c) /\ p \in loc[c].todo
         /\ m.of = E(c) /\ m.id = loc[c].x.id
<1>0. sent \in [Panels -> SUBSET Motions]
  BY DEF Typed, PanelTypeOK
<1>1. CASE SendPart(c)
  <2>1. PICK q \in loc[c].todo, n \in FitMotions :
          /\ n.of = E(c) /\ n.id = loc[c].x.id
          /\ sent' = Sent(q, n) \/ sent' = sent
    BY <1>1, SendsPart
  <2>2. m = n /\ p = q
    BY <1>0, <2>1 DEF Sent
  <2> QED BY <1>1, <2>1, <2>2
<1>2. CASE SendPanelMove(c)
  <2>1. m # PanelMotion
    BY DEF FitMotions, PanelMotion
  <2> QED BY <1>0, <1>2, <2>1 DEF SendPanelMove, Sent
<1>3. CASE StepOut(c) \/ StepBack(c)
  <2>1. CASE UNCHANGED sent
    BY <2>1
  <2>2. CASE ~UNCHANGED sent
    <3>1. PICK back \in BOOLEAN : \E next : SendStep(c, back, next)
      BY <1>3, <2>2 DEF StepOut, StepBack, panelVars
    <3> DEFINE n == [kind |-> "step", back |-> back]
    <3>2. sent' \in {Sent(loc[c].panel, n), sent}
      BY <3>1 DEF SendStep
    <3>3. m.kind = "fit" /\ n.kind = "step"
      BY DEF FitMotions
    <3> HIDE DEF n
    <3> QED BY <1>0, <3>2, <3>3 DEF Sent
  <2> QED BY <2>1, <2>2
<1>4. CASE ~StepOut(c) /\ ~StepBack(c) /\ ~SendPart(c) /\ ~SendPanelMove(c)
  BY <1>4, OthersSendNothing
<1> QED BY <1>1, <1>2, <1>3, <1>4

\* When one thread calculates and executes the alignments, each part of a motion
\* that was calculated is sent at most once, whatever the other threads measure,
\* read, move and stop in between: the panels get no second copy of a motion that
\* was executed (edgecontroller.cpp, alignMove, which resets what was calculated).
THEOREM ExecutedOnce ==
  ASSUME NEW op \in Callers, Alone(op, {"Calculate", "Execute"})
  PROVE  Spec => AppliedOnce
<1> DEFINE Once == \A p \in Panels : \A m \in sent'[p] \ sent[p] :
                     m \in FitMotions => <<p, m.of, m.id>> \notin applied
<1>1. EdgeInit => Unsent(op)
  BY DEF EdgeInit, Unsent
<1>2. Typed /\ Operated /\ Unsent(op) /\ [Next]_vars => Unsent(op)'
  <2> SUFFICES ASSUME Typed, Operated, Unsent(op), [Next]_vars PROVE Unsent(op)'
    OBVIOUS
  <2>1. CASE UNCHANGED vars
    BY <2>1 DEF vars, edgeVars, Unsent, E
  <2>2. CASE Servers
    BY <2>2 DEF Servers, Served, edgeVars, Unsent, E
  <2>3. ASSUME NEW c \in Callers, Act(c) PROVE Unsent(op)'
    BY <2>3, ActUnsent, AloneNoOther
  <2> QED BY <2>1, <2>2, <2>3 DEF Next, Act
<1>3. Typed /\ Operated /\ Unsent(op) /\ [Next]_vars => [Once]_vars
  <2> SUFFICES ASSUME Typed, Operated, Unsent(op), Next,
                      NEW p \in Panels, NEW m \in sent'[p] \ sent[p],
                      m \in FitMotions
               PROVE  <<p, m.of, m.id>> \notin applied
    OBVIOUS
  <2>1. CASE Servers
    <3>1. PICK q \in Panels : PanelStep(q)
      BY <2>1 DEF Servers, Served
    <3>2. sent'[p] \subseteq sent[p]
      BY <3>1 DEF PanelStep, Begin, Refuse, Finish, Stop, Typed, PanelTypeOK
    <3> QED BY <3>2
  <2>2. ASSUME NEW c \in Callers, Act(c)
        PROVE  <<p, m.of, m.id>> \notin applied
    <3>1. /\ SendPart(c) /\ p \in loc[c].todo
          /\ m.of = E(c) /\ m.id = loc[c].x.id
      BY <2>2, OnlyExecuteSendsParts
    <3>2. pc[c] = "sending" /\ loc[c].method = "Execute" /\ E(c) \in Edges
      BY <3>1, LocalsOf DEF SendPart, Step
    <3>3. c = op
      BY <3>2, LocalsOf DEF LocalsOK, Alone, Operated, Ended
    <3>4. loc[c].x # NoMotion
      BY <3>2, LocalsOf DEF LocalsOK
    <3> QED BY <3>1, <3>2, <3>3, <3>4 DEF Unsent
  <2> QED BY <2>1, <2>2 DEF Next, Act
<1> QED BY <1>1, <1>2, <1>3, AlwaysTyped, AlwaysOperated, PTL DEF Spec, AppliedOnce

-----------------------------------------------------------------------------
(* A stop of an edge is heeded *)

\* After the stop its edge is off, and once the step it was about to make has been
\* asked for the matrix is on its way out.
Heeding(op) ==
  /\ \A c \in Callers \ {op} : told[c] = 0
  /\ told[op] # 0 => /\ loc[op].method = "FindMatrix"
                     /\ state[E(op)] = "Off"
                     /\ pc[op] \in Stepping \cup {"nextPanel"}
  /\ told[op] \in 0 .. 2
  /\ told[op] = 2 => pc[op] \notin {"stepOut", "stepBack"}

LEMMA StopBeginHeeding ==
  ASSUME Typed, Operated, NEW op \in Callers, Alone(op, Methods \ {"Stop"}), Race = FALSE,
         Heeding(op), NEW c \in Callers, StopBegin(c)
  PROVE  Heeding(op)'
<1>1. PICK e \in Edges : StopEdge(c, e, NoLocals)
  BY DEF StopBegin
<1>2. /\ told' = Tell(e) /\ SetState(e, "Off") /\ NobodyAdmitted
      /\ pc[c] = "idle"
  BY <1>1 DEF StopEdge, StopBegin
<1>3. ASSUME NEW d \in Callers, pc[d] = "idle" PROVE loc[d].method = "Read"
  BY <1>3, LocalsOf, NoLocalsTyped DEF LocalsOK, Ended
<1>4. ASSUME NEW d \in Callers \ {op} PROVE told'[d] = 0
  <2>1. loc[d].method # "FindMatrix"
    <3>1. CASE pc[d] = "idle"
      BY <1>3, <3>1
    <3>2. CASE pc[d] # "idle"
      BY <3>2, LocalsOf DEF LocalsOK, Alone, Methods, Operated, Ended
    <3> QED BY <3>1, <3>2
  <2> QED BY <1>2, <2>1 DEF Tell, Heeding
<1>5. CASE c = op
  <2>1. told'[op] = 0
    <3>1. told[op] = 0 /\ loc[op].method = "Read"
      BY <1>2, <1>3, <1>5 DEF Heeding, Stepping
    <3> QED BY <1>2, <3>1 DEF Tell
  <2> QED BY <1>4, <2>1 DEF Heeding
<1>6. CASE c # op
  <2>0. Act(c)
    BY DEF Act
  <2>1. pc'[op] = pc[op] /\ loc'[op] = loc[op] /\ E(op) \in Edges
    BY <1>6, <2>0, OthersStay, LocalsOf
  <2>2. /\ state'[e] = "Off" /\ \A d \in Edges \ {e} : state'[d] = state[d]
    BY <1>2, StateTyped
  <2>3. CASE loc[op].method = "FindMatrix" /\ E(op) = e /\ told[op] = 0
    <3>1. told'[op] = 1
      BY <1>2, <2>3 DEF Tell
    <3>2. pc[op] \notin {"idle", "admitted"}
      BY <1>2, <1>3, <2>3 DEF NobodyAdmitted
    <3>3. pc[op] \in Stepping \cup {"nextPanel"}
      BY <2>3, <3>2, LocalsOf DEF LocalsOK, Typed, CallersTyped, Phases, Stepping, Operated, Ended
    <3> QED BY <1>4, <2>1, <2>2, <2>3, <3>1, <3>3 DEF Heeding, E
  <2>4. CASE ~(loc[op].method = "FindMatrix" /\ E(op) = e /\ told[op] = 0)
    <3>1. told'[op] = told[op]
      BY <1>2, <2>4 DEF Tell
    <3> QED BY <1>4, <2>1, <2>2, <3>1 DEF Heeding, E
  <2> QED BY <2>3, <2>4
<1> QED BY <1>5, <1>6

\* Steps that leave told alone, or end the method.
LEMMA QuietHeeding ==
  ASSUME Typed, NEW op \in Callers, Heeding(op), told[op] = 0,
         \/ UNCHANGED told
         \/ \E status \in {"good", "bad"} : Return(op, status)
  PROVE  Heeding(op)'
BY ReturnTyped DEF Heeding, Ended

LEMMA EndHeeding ==
  ASSUME Typed, NEW op \in Callers, Heeding(op),
         NEW status \in {"good", "bad"}, Return(op, status)
  PROVE  Heeding(op)'
BY ReturnTyped DEF Heeding, Ended

\* While it measures, a matrix that has been told goes to no phase but its way out.
LEMMA GoHeeding ==
  ASSUME Typed, NEW op \in Callers, Heeding(op), UNCHANGED <<state, told>>,
         NEW phase \in Stepping \cup {"nextPanel"}, NEW l, GoOn(op, phase, l),
         l.method = loc[op].method, l.edge = loc[op].edge,
         phase \in {"stepOut", "stepBack"} => state[E(op)] # "Off"
  PROVE  Heeding(op)'
<1>1. pc'[op] = phase /\ loc'[op] = l
  BY Arrives
<1> QED BY <1>1 DEF Heeding, E

LEMMA MatrixHeeding ==
  ASSUME Typed, NEW op \in Callers, Heeding(op), Matrix(op)
  PROVE  Heeding(op)'
<1>0. loc[op] \in Locals /\ E(op) = loc[op].edge
  BY LocalsOf DEF E
<1>1. CASE BeginMatrix(op)
  BY <1>1, QuietHeeding DEF BeginMatrix, Step, Heeding, Stepping
<1>2. CASE NextPanel(op)
  <2>1. CASE loc[op].todo = {} \/ state[E(op)] = "Off"
    BY <1>2, <2>1, EndHeeding DEF NextPanel, EndOn
  <2>2. CASE ~(loc[op].todo = {} \/ state[E(op)] = "Off")
    <3> DEFINE p == Min(loc[op].todo)
               l == [loc[op] EXCEPT !.todo = @ \ {p}, !.panel = p,
                                    !.actuator = Min(Actuators)]
    <3>1. GoOn(op, "stepOut", l) /\ UNCHANGED <<state, told>>
      BY <1>2, <2>2 DEF NextPanel
    <3>2. l.edge = loc[op].edge /\ l.method = loc[op].method
      BY <1>0 DEF Locals
    <3> HIDE DEF l
    <3> QED BY <2>2, <3>1, <3>2, GoHeeding DEF Stepping
  <2> QED BY <2>1, <2>2
<1>3. ASSUME NEW back \in BOOLEAN, NEW next \in {"waitOut", "waitBack"},
             SendStep(op, back, next), pc[op] \in {"stepOut", "stepBack"}
      PROVE  Heeding(op)'
  <2>1. CASE Return(op, "bad")
    BY <2>1, EndHeeding
  <2>2. CASE ~Return(op, "bad")
    <3> DEFINE l == AfterStep(op, back)
    <3>1. /\ GoOn(op, next, l)
          /\ told' = [told EXCEPT ![op] = IF @ \in {1, 2} THEN @ + 1 ELSE @]
          /\ UNCHANGED state
      BY <1>3, <2>2 DEF SendStep, AfterStep
    <3>2. /\ pc'[op] = next
          /\ loc'[op].edge = loc[op].edge /\ loc'[op].method = loc[op].method
      <4>1. l.edge = loc[op].edge /\ l.method = loc[op].method
        BY <1>3, AfterStepTyped DEF Stepping
      <4> HIDE DEF l
      <4> QED BY <3>1, <4>1, Arrives
    <3>3. told[op] \in {0, 1}
      BY <1>3 DEF Heeding
    <3>4. told'[op] = IF told[op] = 1 THEN 2 ELSE 0
      BY <3>1, <3>3 DEF Typed, EdgesTyped
    <3>5. \A c \in Callers \ {op} : told'[c] = told[c]
      BY <3>1 DEF Typed, EdgesTyped
    <3> QED BY <3>1, <3>2, <3>3, <3>4, <3>5 DEF Heeding, Stepping, E
  <2> QED BY <2>1, <2>2
<1>4. CASE StepOut(op)
  BY <1>3, <1>4 DEF StepOut, Step
<1>5. CASE WaitOut(op)
  BY <1>5, GoHeeding DEF WaitOut, Goto, Stepping, edgeVars
<1>6. CASE ReadAgain(op)
  BY <1>6, GoHeeding DEF ReadAgain, Goto, Stepping, edgeVars
<1>7. CASE StepBack(op)
  BY <1>3, <1>7 DEF StepBack, Step
<1>8. CASE WaitBack(op)
  <2> DEFINE l == [loc[op] EXCEPT !.actuator = Min(Later(op))]
  <2>0. UNCHANGED <<state, told>>
    BY <1>8 DEF WaitBack, edgeVars
  <2>1. CASE Goto(op, "nextPanel")
    BY <2>0, <2>1, GoHeeding DEF Goto
  <2>2. CASE state[E(op)] # "Off" /\ GoOn(op, "stepOut", l)
    <3>1. GoOn(op, "stepOut", l)
      BY <2>2
    <3>2. l.edge = loc[op].edge /\ l.method = loc[op].method
      BY <1>0 DEF Locals
    <3> HIDE DEF l
    <3> QED BY <2>0, <2>2, <3>1, <3>2, GoHeeding DEF Stepping
  <2> QED BY <1>8, <2>1, <2>2 DEF WaitBack, NextActuator
<1> QED BY <1>1, <1>2, <1>4, <1>5, <1>6, <1>7, <1>8 DEF Matrix

LEMMA ActHeeding ==
  ASSUME Typed, Operated, NEW op \in Callers, Alone(op, Methods \ {"Stop"}), Race = FALSE,
         Heeding(op), NEW c \in Callers, Act(c)
  PROVE  Heeding(op)'
<1>1. CASE StopBegin(c)
  BY <1>1, StopBeginHeeding
<1>2. CASE StopPanel(c)
  <2>1. pc[c] = "stopping" /\ UNCHANGED state
    BY <1>2 DEF StopPanel, Step
  <2>2. UNCHANGED told \/ Return(c, "good")
    BY <1>2 DEF StopPanel
  <2>3. CASE c = op
    BY <2>1, <2>2, <2>3, QuietHeeding DEF Heeding, Stepping
  <2>4. CASE c # op
    <3>1. pc'[op] = pc[op] /\ loc'[op] = loc[op]
      BY <2>4, OthersStay
    <3>2. told'[op] = told[op] /\ \A d \in Callers \ {op} : told'[d] = 0
      BY <2>2, <2>4, ReturnTyped DEF Heeding
    <3> QED BY <2>1, <3>1, <3>2 DEF Heeding, E
  <2> QED BY <2>3, <2>4
<1>3. CASE ~StopBegin(c) /\ ~StopPanel(c)
  <2>1. c = op
    BY <1>3, OthersStop
  <2>2. CASE Call(op) \/ CallPanelMove(op)
    BY <2>2, QuietHeeding
    DEF Call, CallPanelMove, Heeding, Stepping, edgeVars
  <2>3. CASE SendPanelMove(op) \/ EndPanelMove(op)
    <3>1. told[op] = 0 /\ (UNCHANGED told \/ \E status \in {"good", "bad"} : Return(op, status))
      BY <2>3 DEF SendPanelMove, EndPanelMove, Step, Heeding, Stepping
    <3> QED BY <3>1, QuietHeeding
  <2>4. CASE Reading(op)
    <3>1. told[op] = 0 /\ (UNCHANGED told \/ \E status \in {"good", "bad"} : Return(op, status))
      BY <2>4 DEF Reading, BeginReading, EndReading, EndRead, CheckEdge,
                  CompareEdge, EndOn, Step, Heeding, Stepping
    <3> QED BY <3>1, QuietHeeding
  <2>5. CASE Align(op)
    <3>1. told[op] = 0
      BY <2>5 DEF Align, Calculate, BeginAlign, SetFraction, JudgeFraction,
                  BeginExecute, SendPart, EndExecute, Step, Heeding, Stepping
    <3>2. UNCHANGED told \/ \E status \in {"good", "bad"} : Return(op, status)
      BY <2>5 DEF Align, Calculate, BeginAlign, SetFraction, JudgeFraction,
                  BeginExecute, SendPart, EndExecute, EndOn
    <3> QED BY <3>1, <3>2, QuietHeeding
  <2> QED
    BY <1>3, <2>1, <2>2, <2>3, <2>4, <2>5, MatrixHeeding DEF Act, Run
<1> QED BY <1>1, <1>2, <1>3

\* "Turn state off to stop all methods" (edgecontroller.cpp, operate): when the
\* other threads do nothing but stop, and no stop comes between a method's look at
\* the state of its edge and its setting it to busy, a response matrix asks for no
\* more than one step after its edge was stopped, however many panels and
\* actuators it has still to go through.
THEOREM StopsAreHeeded ==
  ASSUME NEW op \in Callers, Alone(op, Methods \ {"Stop"}), Race = FALSE
  PROVE  Spec => []StopHeeded
<1>1. EdgeInit => Heeding(op)
  BY DEF EdgeInit, Heeding
<1>2. Typed /\ Operated /\ Heeding(op) /\ [Next]_vars => Heeding(op)'
  <2> SUFFICES ASSUME Typed, Operated, Heeding(op), [Next]_vars PROVE Heeding(op)'
    OBVIOUS
  <2>1. CASE UNCHANGED vars
    BY <2>1 DEF vars, edgeVars, Heeding, E
  <2>2. CASE Servers
    BY <2>2 DEF Servers, Served, edgeVars, Heeding, E
  <2>3. ASSUME NEW c \in Callers, Act(c) PROVE Heeding(op)'
    BY <2>3, ActHeeding
  <2> QED BY <2>1, <2>2, <2>3 DEF Next, Act
<1>3. Heeding(op) => StopHeeded
  <2> SUFFICES ASSUME Heeding(op), NEW c \in Callers PROVE told[c] <= 2
    BY DEF StopHeeded
  <2> QED BY DEF Heeding
<1> QED BY <1>1, <1>2, <1>3, AlwaysTyped, AlwaysOperated, PTL DEF Spec

-----------------------------------------------------------------------------
(* What a response matrix has sent out it asks back *)

Measuring == Stepping \cup {"nextPanel"}

\* What is out is the actuator the matrix is at, and nothing is out where it turns
\* to the next one, but after a stop.
Owing(op) ==
  /\ pc[op] = "admitted" => loc[op].owed = {}
  /\ pc[op] \in Measuring =>
       \A s \in loc[op].owed : s = <<loc[op].panel, loc[op].actuator>>
  /\ pc[op] \in {"stepOut", "waitBack"} => loc[op].owed = {}
  /\ pc[op] = "nextPanel" /\ state[E(op)] # "Off" => loc[op].owed = {}
  /\ pc[op] \in Measuring /\ told[op] = 0 => state[E(op)] # "Off"

\* The other methods begin and end outside the phases of a matrix.
LEMMA OutsideMatrix ==
  ASSUME Typed, NEW c \in Callers, Act(c), ~Matrix(c)
  PROVE  /\ pc[c] \notin Measuring /\ pc'[c] \notin Measuring
         /\ pc'[c] = "admitted" => Call(c)
<1>1. CASE Call(c) \/ CallPanelMove(c) \/ StopBegin(c) \/ StopPanel(c)
  <2>1. pc[c] \notin Measuring
    BY <1>1 DEF Call, CallPanelMove, StopBegin, StopPanel, Step, Measuring,
                Stepping
  <2>2. \/ Call(c) /\ \E l : GoOn(c, "admitted", l)
        \/ \E phase \in {"check", "stopping"} : \E l : GoOn(c, phase, l)
        \/ Return(c, "good")
    BY <1>1 DEF Call, CallPanelMove, StopBegin, StopEdge, StopPanel
  <2> QED BY <2>1, <2>2, Arrives, ReturnTyped DEF Measuring, Stepping, Ended
<1>2. CASE Reading(c)
  <2>1. pc[c] \notin Measuring
    BY <1>2 DEF Reading, BeginReading, EndReading, EndRead, CheckEdge,
                CompareEdge, Step, Measuring, Stepping
  <2>2. \/ \E phase \in {"reading", "read", "solving", "compare", "check"} : \E l :
             GoOn(c, phase, l)
        \/ \E status \in {"good", "bad"} : Return(c, status)
    BY <1>2 DEF Reading, BeginReading, EndReading, EndRead, CheckEdge,
                CompareEdge, EndOn, Goto
  <2> QED BY <2>1, <2>2, Arrives, ReturnTyped DEF Measuring, Stepping, Ended
<1>3. CASE Align(c)
  <2>1. pc[c] \notin Measuring
    BY <1>3 DEF Align, Calculate, BeginAlign, SetFraction, JudgeFraction,
                BeginExecute, SendPart, EndExecute, Step, Measuring, Stepping
  <2>2. \/ \E phase \in {"executing", "setting", "check", "sending"} : \E l :
             GoOn(c, phase, l)
        \/ \E status \in {"good", "bad"} : Return(c, status)
    BY <1>3 DEF Align, Calculate, BeginAlign, SetFraction, JudgeFraction,
                BeginExecute, SendPart, EndExecute, EndOn, Goto
  <2> QED BY <2>1, <2>2, Arrives, ReturnTyped DEF Measuring, Stepping, Ended
<1>4. CASE SendPanelMove(c) \/ EndPanelMove(c)
  <2>1. pc[c] \notin Measuring
    BY <1>4 DEF SendPanelMove, EndPanelMove, Step, Measuring, Stepping
  <2>2. \/ \E phase \in {"panelWait"} : \E l : GoOn(c, phase, l)
        \/ \E status \in {"good", "bad"} : Return(c, status)
    BY <1>4 DEF SendPanelMove, EndPanelMove, Goto
  <2> QED BY <2>1, <2>2, Arrives, ReturnTyped DEF Measuring, Stepping, Ended
<1> QED BY <1>1, <1>2, <1>3, <1>4 DEF Act, Run

\* A method that is not measuring owes nothing.
LEMMA OutsideOwing ==
  ASSUME Typed, NEW op \in Callers, Act(op), ~Matrix(op)
  PROVE  Owing(op)'
<1>1. pc'[op] \notin Measuring /\ (pc'[op] = "admitted" => Call(op))
  BY OutsideMatrix
<1>2. CASE pc'[op] = "admitted"
  <2>1. PICK m, e : \E a :
          GoOn(op, "admitted", [NoLocals EXCEPT !.method = m, !.edge = e,
                 !.moved = a.moved, !.fraction = a.fraction])
    BY <1>1, <1>2 DEF Call
  <2>2. PICK a :
          GoOn(op, "admitted", [NoLocals EXCEPT !.method = m, !.edge = e,
                 !.moved = a.moved, !.fraction = a.fraction])
    BY <2>1
  <2> DEFINE l == [NoLocals EXCEPT !.method = m, !.edge = e,
                     !.moved = a.moved, !.fraction = a.fraction]
  <2>3. l.owed = {}
    BY DEF NoLocals
  <2> HIDE DEF l
  <2>4. loc'[op] = l
    BY <2>2, Arrives DEF l
  <2> QED BY <1>1, <1>2, <2>3, <2>4 DEF Owing, Measuring, Stepping
<1>3. CASE pc'[op] # "admitted"
  BY <1>1, <1>3 DEF Owing, Measuring, Stepping
<1> QED BY <1>2, <1>3

\* While it measures, a matrix turns to another actuator only with nothing out, and
\* steps over one that is out only after a stop.
LEMMA GoOwing ==
  ASSUME Typed, NEW op \in Callers, Owing(op), UNCHANGED <<state, told>>,
         pc[op] \in Measuring, NEW phase \in Measuring, NEW l,
         GoOn(op, phase, l),
         l.owed = loc[op].owed, l.edge = loc[op].edge,
         \/ l.panel = loc[op].panel /\ l.actuator = loc[op].actuator
         \/ loc[op].owed = {},
         phase \in {"stepOut", "waitBack"} => loc[op].owed = {},
         phase = "nextPanel" /\ state[E(op)] # "Off" => loc[op].owed = {}
  PROVE  Owing(op)'
<1>1. pc'[op] = phase /\ loc'[op] = l
  BY Arrives
<1>2. phase # "admitted"
  BY DEF Measuring, Stepping
<1> QED BY <1>1, <1>2 DEF Owing, E

\* A method that ends owes nothing more.
LEMMA EndOwing ==
  ASSUME Typed, NEW op \in Callers,
         NEW status \in {"good", "bad"}, Return(op, status)
  PROVE  Owing(op)'
BY ReturnTyped DEF Owing, Ended, Measuring, Stepping

LEMMA SendStepOwing ==
  ASSUME Typed, NEW op \in Callers, Owing(op), NEW back \in BOOLEAN,
         pc[op] = IF back THEN "stepBack" ELSE "stepOut",
         SendStep(op, back, IF back THEN "waitBack" ELSE "waitOut")
  PROVE  Owing(op)'
<1> DEFINE next == IF back THEN "waitBack" ELSE "waitOut"
           l == AfterStep(op, back)
<1>0. pc[op] \in Stepping /\ pc[op] \in Measuring
  BY DEF Stepping, Measuring
<1>1. CASE Return(op, "bad")
  BY <1>1, EndOwing
<1>2. CASE ~Return(op, "bad")
  <2>1. /\ GoOn(op, next, l)
        /\ told' = [told EXCEPT ![op] = IF @ \in {1, 2} THEN @ + 1 ELSE @]
        /\ UNCHANGED state
    BY <1>2 DEF SendStep, AfterStep
  <2>2. /\ l.edge = loc[op].edge
        /\ l.panel = loc[op].panel /\ l.actuator = loc[op].actuator
        /\ back => l.owed = loc[op].owed \ {<<loc[op].panel, loc[op].actuator>>}
        /\ ~back =>
             l.owed = loc[op].owed \cup {<<loc[op].panel, loc[op].actuator>>}
    BY <1>0, AfterStepTyped
  <2> HIDE DEF l
  <2>3. /\ pc'[op] = IF back THEN "waitBack" ELSE "waitOut"
        /\ loc'[op] = l
    BY <2>1, Arrives
  <2>4. /\ \A s \in l.owed : s = <<l.panel, l.actuator>>
        /\ back => l.owed = {}
    BY <1>0, <2>2 DEF Owing
  <2>5. told'[op] = 0 => told[op] = 0
    <3>1. told[op] \in 0 .. 3
      BY DEF Typed, EdgesTyped
    <3> QED BY <2>1, <3>1 DEF Typed, EdgesTyped
  <2>6. E(op)' = E(op) /\ state'[E(op)] = state[E(op)]
    BY <2>1, <2>2, <2>3 DEF E
  <2> QED BY <1>0, <2>3, <2>4, <2>5, <2>6 DEF Owing
<1> QED BY <1>1, <1>2

LEMMA MatrixOwing ==
  ASSUME Typed, NEW op \in Callers, Owing(op), Matrix(op)
  PROVE  Owing(op)'
<1>0. loc[op] \in Locals /\ E(op) \in Edges /\ E(op) = loc[op].edge
  BY LocalsOf DEF E
<1>1. CASE BeginMatrix(op)
  <2> DEFINE l == [loc[op] EXCEPT !.todo = PanelsOf[E(op)]]
  <2>1. /\ pc[op] = "admitted" /\ SetState(E(op), "Busy")
        /\ GoOn(op, "nextPanel", l)
    BY <1>1 DEF BeginMatrix, Step
  <2>2. l.owed = {} /\ l.edge = loc[op].edge
    BY <1>0, <2>1 DEF Owing, Locals
  <2> HIDE DEF l
  <2>3. pc'[op] = "nextPanel" /\ loc'[op] = l
    BY <2>1, Arrives
  <2>4. state'[E(op)] = "Busy"
    BY <1>0, <2>1, StateTyped
  <2> QED BY <1>0, <2>2, <2>3, <2>4 DEF Owing, E
<1>2. CASE NextPanel(op)
  <2>1. CASE loc[op].todo = {} \/ state[E(op)] = "Off"
    BY <1>2, <2>1, EndOwing DEF NextPanel, EndOn
  <2>2. CASE ~(loc[op].todo = {} \/ state[E(op)] = "Off")
    <3> DEFINE p == Min(loc[op].todo)
               l == [loc[op] EXCEPT !.todo = @ \ {p}, !.panel = p,
                                    !.actuator = Min(Actuators)]
    <3>1. /\ GoOn(op, "stepOut", l) /\ UNCHANGED <<state, told>>
          /\ pc[op] = "nextPanel"
      BY <1>2, <2>2 DEF NextPanel, Step
    <3>2. l.edge = loc[op].edge /\ l.owed = loc[op].owed
      BY <1>0 DEF Locals
    <3>3. loc[op].owed = {}
      BY <2>2, <3>1 DEF Owing
    <3> HIDE DEF l
    <3> QED BY <3>1, <3>2, <3>3, GoOwing DEF Measuring, Stepping
  <2> QED BY <2>1, <2>2
<1>3. CASE StepOut(op)
  BY <1>3, SendStepOwing DEF StepOut, Step
<1>4. CASE WaitOut(op) \/ ReadAgain(op)
  <2>1. /\ pc[op] \in Measuring /\ UNCHANGED <<state, told>>
        /\ \/ state[E(op)] = "Off" /\ Goto(op, "nextPanel")
           \/ \E phase \in {"readAgain", "stepBack"} : Goto(op, phase)
    BY <1>4 DEF WaitOut, ReadAgain, Step, Measuring, Stepping, edgeVars
  <2> QED BY <2>1, GoOwing DEF Goto, Measuring, Stepping
<1>5. CASE StepBack(op)
  BY <1>5, SendStepOwing DEF StepBack, Step
<1>6. CASE WaitBack(op)
  <2> DEFINE l == [loc[op] EXCEPT !.actuator = Min(Later(op))]
  <2>1. /\ pc[op] = "waitBack" /\ pc[op] \in Measuring
        /\ UNCHANGED <<state, told>>
        /\ Goto(op, "nextPanel") \/ GoOn(op, "stepOut", l)
    BY <1>6
    DEF WaitBack, NextActuator, Step, Measuring, Stepping, edgeVars
  <2>2. loc[op].owed = {}
    BY <2>1 DEF Owing
  <2>3. l.edge = loc[op].edge /\ l.owed = loc[op].owed
    BY <1>0 DEF Locals
  <2> HIDE DEF l
  <2> QED BY <2>1, <2>2, <2>3, GoOwing DEF Goto, Measuring, Stepping
<1> QED BY <1>1, <1>2, <1>3, <1>4, <1>5, <1>6 DEF Matrix

\* A stop by another thread tells the matrix it turns off.
LEMMA StopOwing ==
  ASSUME Typed, NEW op \in Callers, Owing(op), NEW c \in Callers, c # op,
         StopBegin(c) \/ StopPanel(c)
  PROVE  Owing(op)'
<1>0. pc'[op] = pc[op] /\ loc'[op] = loc[op] /\ E(op)' = E(op)
  BY OthersStay DEF Act, Run, E
<1>1. CASE StopBegin(c)
  <2>1. PICK e \in Edges : StopEdge(c, e, NoLocals)
    BY <1>1 DEF StopBegin
  <2>2. /\ told' = Tell(e)
        /\ state'[e] = "Off" /\ \A d \in Edges \ {e} : state'[d] = state[d]
    BY <2>1, StateTyped DEF StopEdge
  <2>3. E(op) \in Edges
    BY LocalsOf
  <2>4. CASE E(op) # e
    <3>1. told'[op] = told[op] /\ state'[E(op)] = state[E(op)]
      BY <2>2, <2>3, <2>4 DEF Tell
    <3> QED BY <1>0, <3>1 DEF Owing
  <2>5. CASE E(op) = e
    <3>1. ASSUME pc[op] \in Measuring PROVE told'[op] # 0
      <4>1. loc[op].method = "FindMatrix"
        BY <3>1, LocalsOf DEF LocalsOK, Measuring
      <4> QED BY <2>2, <2>5, <4>1 DEF Tell
    <3> QED BY <1>0, <2>2, <2>5, <3>1 DEF Owing
  <2> QED BY <2>4, <2>5
<1>2. CASE StopPanel(c)
  <2>1. UNCHANGED state /\ (UNCHANGED told \/ Return(c, "good"))
    BY <1>2 DEF StopPanel
  <2>2. told'[op] = told[op]
    BY <2>1, ReturnTyped
  <2> QED BY <1>0, <2>1, <2>2 DEF Owing
<1> QED BY <1>1, <1>2

\* "move the same actuator back" (edgecontroller.cpp, findSingleMatrix): when the
\* other threads do nothing but stop, at whatever time, a response matrix asks for
\* the step back of each actuator that it has sent out before it sends out another
\* one, and before it goes on to the next panel or ends, but after a stop; however
\* slow the calls are, and whichever of them fail or are refused by the panels.
THEOREM StepsAreAskedBack ==
  ASSUME NEW op \in Callers, Alone(op, Methods \ {"Stop"})
  PROVE  Spec => []StepsAskedBack
<1>1. EdgeInit => Owing(op)
  BY DEF EdgeInit, Owing, Measuring, Stepping
<1>2. Typed /\ Operated /\ Owing(op) /\ [Next]_vars => Owing(op)'
  <2> SUFFICES ASSUME Typed, Operated, Owing(op), [Next]_vars PROVE Owing(op)'
    OBVIOUS
  <2>1. CASE UNCHANGED vars
    BY <2>1 DEF vars, edgeVars, Owing, E
  <2>2. CASE Servers
    BY <2>2 DEF Servers, Served, edgeVars, Owing, E
  <2>3. ASSUME NEW c \in Callers, Act(c) PROVE Owing(op)'
    <3>1. CASE c # op
      BY <2>3, <3>1, OthersStop, StopOwing
    <3>2. CASE c = op
      BY <2>3, <3>2, MatrixOwing, OutsideOwing
    <3> QED BY <3>1, <3>2
  <2> QED BY <2>1, <2>2, <2>3 DEF Next, Act
<1>3. Typed /\ Operated /\ Owing(op) => StepsAskedBack
  <2> SUFFICES ASSUME Typed, Operated, Owing(op), NEW c \in Callers,
                      loc[c].method = "FindMatrix", pc[c] # "admitted"
               PROVE  /\ \A s, t \in loc[c].owed : s = t
                      /\ pc[c] = "nextPanel" /\ told[c] = 0 => loc[c].owed = {}
    BY DEF StepsAskedBack
  <2>1. pc[c] # "idle"
    BY LocalsOf, NoLocalsTyped DEF LocalsOK, Ended
  <2>2. pc[c] \in Measuring
    BY <2>1, LocalsOf
    DEF LocalsOK, Typed, CallersTyped, Phases, Measuring, Stepping, Operated,
        Ended
  <2>3. c = op
    BY <2>1, LocalsOf DEF LocalsOK, Alone, Methods, Operated, Ended
  <2> QED BY <2>2, <2>3 DEF Owing
<1> QED BY <1>1, <1>2, <1>3, AlwaysTyped, AlwaysOperated, PTL DEF Spec

=============================================================================
