-------------------------------- MODULE Mirror --------------------------------
(***************************************************************************)
(* The mirror of the alignment client                                      *)
(* (src/client/controllers/mirrorcontroller.cpp) with its edges and panels: *)
(* motions of the selected panels that are calculated, reviewed with an    *)
(* align fraction and executed in three calls; the alignment of edges one  *)
(* after the other; and the stop.  As in module Edge nothing is locked and *)
(* the state of the mirror is what tells a method to stop.                 *)
(***************************************************************************)
EXTENDS Edge, Sequences

CONSTANTS
  MirrorMethodsOf,  \* the methods of the mirror each caller may call
  Constraints,      \* whether a fraction is given as a negative number
  Selected,         \* m_selectedPanels
  Sweep,            \* the edges from the start edge to the end edge
  Smaller           \* the panel of each edge that the sequence moves

\* A motion whose method is noted by its calculation, one whose method is noted
\* also when the calculation has failed (LoadMPESPositions and
\* LoadMPESAlignmentOffset), the reading and saving of positions.
MotionMethods == {"MoveDeltaCoords", "LoadMPESPositions"}
MirrorMethods == MotionMethods \cup {"ReadPosition", "AlignSequential", "Stop"}
Commands == {"calculate", "setAlignFrac", "execute"}

ASSUME MirrorAssumption ==
  /\ MirrorMethodsOf \in [Callers -> SUBSET MirrorMethods]
  /\ Constraints \subseteq BOOLEAN
  /\ Selected \in (SUBSET Panels) \ {{}}
  /\ Sweep \in Seq(Edges)
  /\ Smaller \in [Edges -> Panels]
  /\ \A e \in Edges : Smaller[e] \in PanelsOf[e]

VARIABLES
  mState,     \* m_State
  mCalc,      \* m_Xcalculated with m_panelsToMove, and history: by which method
  mMethod,    \* m_previousCalculatedMethod
  mFrac,      \* m_lastSetAlignFrac, 0 for the negative one
  mpc,        \* what each caller does next
  mloc,       \* its local variables
  reviewed    \* history: the part of the motion last shown for review

mVars == <<mState, mCalc, mMethod, mFrac, mpc, mloc, reviewed>>
mirrorVars == <<vars, mVars>>
edgeSide == <<state, calc, frac, pc, loc, told, abandoned>>

\* scale: the part of the motion that a constrained review has left of it;
\* sized: as long as the panels to be moved ask for.
NoMirrorMotion == [id |-> 0, scale |-> Whole, moved |-> {}, sized |-> TRUE,
                   by |-> "none"]
MirrorMotions ==
  [id : Calculations, scale : 0 .. Whole, moved : {Selected}, sized : BOOLEAN,
   by : MotionMethods] \cup {NoMirrorMotion}

NotReviewed == Whole + 1

NoMirrorLocals == [method |-> "ReadPosition", command |-> "execute",
                   fraction |-> 0, constrain |-> FALSE, x |-> NoMirrorMotion,
                   todo |-> {}, hit |-> FALSE, stopped |-> {},
                   first |-> 1, at |-> 0]

MirrorPhases == {"idle", "admitted", "calculate", "setAlignFrac", "execute",
                 "sending", "polling", "reading", "nextEdge", "align",
                 "fraction", "edgeWait", "edgeDone", "stopping"}

-----------------------------------------------------------------------------
(* Threads *)

MGoOn(c, phase, locals) ==
  /\ mpc' = [mpc EXCEPT ![c] = phase]
  /\ mloc' = [mloc EXCEPT ![c] = locals]

\* The method returns; mostly it sets the state to On, but not on every error.
MReturn(c) == MGoOn(c, "idle", NoMirrorLocals)
MEndOn(c) == mState' = "On" /\ MReturn(c)

MArguments(m) ==
  IF m \in MotionMethods
    THEN [command : {"calculate"}, fraction : {Whole}, constrain : {FALSE}]
           \cup [command : {"setAlignFrac"}, fraction : Fractions \cup {0},
                 constrain : Constraints]
           \cup [command : {"execute"}, fraction : Fractions \cup {0},
                 constrain : {FALSE}]
    ELSE {[command |-> "execute", fraction |-> 0, constrain |-> FALSE]}

MNobodyAdmitted == \A d \in Callers : mpc[d] # "admitted"

MirrorCall(c) ==
  /\ pc[c] = "idle" /\ mpc[c] = "idle"
  /\ mState # "Busy"
  /\ Race \/ (MNobodyAdmitted /\ \A d \in Callers : mpc[d] # "stopping")
  /\ \E m \in MirrorMethodsOf[c] \ {"Stop"} : \E a \in MArguments(m) :
       MGoOn(c, "admitted",
             [NoMirrorLocals EXCEPT !.method = m, !.command = a.command,
                !.fraction = a.fraction, !.constrain = a.constrain])
  /\ UNCHANGED <<vars, mState, mCalc, mMethod, mFrac, reviewed>>

MirrorBegin(c) ==
  LET l == mloc[c] IN
  /\ mpc[c] = "admitted"
  /\ mState' = "Busy"
  /\ MGoOn(c, CASE l.method \in MotionMethods    -> l.command
                [] l.method = "AlignSequential" -> "nextEdge"
                [] OTHER                        -> "reading", l)
  /\ UNCHANGED <<vars, mCalc, mMethod, mFrac, reviewed>>

MirrorRead(c) ==
  /\ mpc[c] = "reading"
  /\ MEndOn(c)
  /\ UNCHANGED <<vars, mCalc, mMethod, mFrac, reviewed>>

-----------------------------------------------------------------------------
(* A motion of the selected panels *)

\* The fraction stays.  A calculation that fails, or gives a motion of another
\* length than the panels to be moved ask for, leaves the mirror busy.
MirrorCalculate(c) ==
  LET m == mloc[c].method
      numbers == Unused(Mirror, {mloc[d].x.id : d \in Callers})
  IN
  /\ mpc[c] = "calculate"
  /\ \/ /\ numbers # {}
        /\ LET n == Min(numbers)
           IN  /\ \E sized \in BOOLEAN :
                    /\ mCalc' = [id |-> n, scale |-> Whole, moved |-> Selected,
                                 sized |-> sized, by |-> m]
                    /\ IF sized THEN MEndOn(c) ELSE MReturn(c) /\ UNCHANGED mState
               /\ Forget(Mirror, n)
        /\ mMethod' = m
        /\ reviewed' = NotReviewed
     \/ /\ mCalc' = NoMirrorMotion
        /\ mMethod' = m
        /\ reviewed' = NotReviewed
        /\ MEndOn(c)
        /\ UNCHANGED applied
     \/ /\ mMethod' \in IF m = "LoadMPESPositions" THEN {mMethod, m} ELSE {mMethod}
        /\ MReturn(c)
        /\ UNCHANGED <<mCalc, mState, applied, reviewed>>
  /\ UNCHANGED <<panelVars, edgeSide, mFrac>>

\* Given as a negative number the fraction asks for constraints, and what they
\* leave of the fraction of the motion becomes the calculated motion.
MirrorSetFraction(c) ==
  LET shown == (mCalc.scale * mloc[c].fraction) \div Whole IN
  /\ mpc[c] = "setAlignFrac"
  /\ IF mloc[c].fraction = 0 \/ mCalc = NoMirrorMotion
     THEN UNCHANGED <<mFrac, mCalc, reviewed>>
     ELSE /\ mFrac' = mloc[c].fraction
          /\ mCalc' = IF mloc[c].constrain THEN [mCalc EXCEPT !.scale = shown]
                                           ELSE mCalc
          /\ reviewed' = shown
  /\ MEndOn(c)
  /\ UNCHANGED <<vars, mMethod>>

\* Error: a motion of any method is executed.
MayMoveAny(c) ==
  /\ mCalc # NoMirrorMotion
  /\ mFrac = mloc[c].fraction
  /\ mCalc.sized

MayMove(c) ==
  /\ mCalc # NoMirrorMotion
  /\ mMethod = mloc[c].method
  /\ mFrac = mloc[c].fraction
  /\ mCalc.sized

\* A fraction out of range leaves the mirror busy; what __moveSelectedPanels
\* returns is dropped.
MirrorExecute(c) ==
  /\ mpc[c] = "execute"
  /\ \/ /\ mloc[c].fraction = 0
        /\ MReturn(c)
        /\ UNCHANGED mState
     \/ /\ mloc[c].fraction # 0 /\ ~MayMove(c)
        /\ MEndOn(c)
     \/ /\ mloc[c].fraction # 0 /\ MayMove(c)
        /\ MGoOn(c, "sending", [mloc[c] EXCEPT !.x = mCalc, !.todo = mCalc.moved])
        /\ UNCHANGED mState
  /\ UNCHANGED <<vars, mCalc, mMethod, mFrac, reviewed>>

StartRound(c, l) == MGoOn(c, "polling", [l EXCEPT !.todo = l.x.moved, !.hit = FALSE])

\* The panels in the order of a map of pointers.  A stop is looked for after
\* each call.  If a call cannot be sent everything stays as it is.
SendMirrorPart(c) ==
  LET l == mloc[c] IN
  /\ mpc[c] = "sending"
  /\ \E p \in l.todo :
       LET m == Part(Mirror, [id |-> l.x.id, moved |-> l.x.moved],
                     (l.x.scale * l.fraction) \div Whole, p)
       IN  \/ /\ MaySend(p, m) /\ sent' = Sent(p, m)
              /\ applied' = applied \cup {<<p, Mirror, l.x.id>>}
              /\ IF mState = "Off" \/ l.todo = {p} THEN StartRound(c, l)
                 ELSE MGoOn(c, "sending", [l EXCEPT !.todo = @ \ {p}])
              /\ UNCHANGED mState
           \/ /\ Mirror \in SendFails
              /\ MEndOn(c)
              /\ Forget(Mirror, l.x.id)
              /\ UNCHANGED sent
  /\ UNCHANGED <<stops, moving, edgeSide, mCalc, mMethod, mFrac,
                 reviewed>>

\* After 5 s the panels are asked one by one whether they are busy, until none
\* of a round was.
AskPanelLast(c) ==   \* Error: the panel asked last decides.
  /\ mpc[c] = "polling"
  /\ \E p \in mloc[c].todo :
       /\ Delay = "short" => sent[p] = {}
       /\ MGoOn(c, "polling", [mloc[c] EXCEPT !.todo = @ \ {p}, !.hit = Busy(p)])
  /\ UNCHANGED <<vars, mState, mCalc, mMethod, mFrac, reviewed>>

AskPanel(c) ==
  /\ mpc[c] = "polling"
  /\ \E p \in mloc[c].todo :
       /\ Delay = "short" => sent[p] = {}
       /\ MGoOn(c, "polling", [mloc[c] EXCEPT !.todo = @ \ {p},
                                              !.hit = @ \/ Busy(p)])
  /\ UNCHANGED <<vars, mState, mCalc, mMethod, mFrac, reviewed>>

RoundOver(c, Reset) ==
  /\ mpc[c] = "polling" /\ mloc[c].todo = {}
  /\ IF mloc[c].hit
     THEN /\ StartRound(c, mloc[c])
          /\ UNCHANGED <<mState, mCalc, mMethod, mFrac, reviewed>>
     ELSE MEndOn(c) /\ Reset
  /\ UNCHANGED vars

ResetTo(motion) ==
  /\ mCalc' = motion
  /\ mMethod' = "none"
  /\ mFrac' = 0
  /\ reviewed' = NotReviewed

\* Errors: only the number of the motion is reset; nothing is.
EndRoundHalf(c) == RoundOver(c, ResetTo([mCalc EXCEPT !.id = 0]))
EndRoundNoReset(c) == RoundOver(c, UNCHANGED <<mCalc, mMethod, mFrac, reviewed>>)

EndRound(c) == RoundOver(c, ResetTo(NoMirrorMotion))

-----------------------------------------------------------------------------
(* alignSequential: to each edge of the sweep in turn it and all the edges   *)
(* before it are aligned, backwards, each once: an edge counts as aligned as *)
(* soon as a motion of it has been sent.                                     *)

At(c) == Sweep[mloc[c].at]
EdgeReturned(c) == pc[c] \in {"good", "bad"}

CallEdge(c, m, next) ==
  /\ MGoOn(c, next, mloc[c])
  /\ IF state[At(c)] = "Busy"
     THEN pc' = [pc EXCEPT ![c] = "bad"] /\ UNCHANGED loc
     ELSE /\ Admits(At(c))
          /\ GoOn(c, "admitted", [NoLocals EXCEPT !.method = m, !.edge = At(c),
                                    !.moved = {Smaller[At(c)]}, !.for = "mirror"])
  /\ UNCHANGED mState

\* On to the edge before in the sweep, or to the next round of the outer loop.
Onward(c, phase, locals) ==
  /\ MGoOn(c, phase, locals)
  /\ pc' = [pc EXCEPT ![c] = "idle"]
  /\ UNCHANGED <<mState, loc>>
OuterLoop(c) == Onward(c, "nextEdge", [mloc[c] EXCEPT !.first = @ + 1])

SequenceUnchanged ==
  UNCHANGED <<panelVars, edgeVars, mCalc, mMethod, mFrac, reviewed>>

NextEdge(c) ==
  /\ mpc[c] = "nextEdge"
  /\ IF mloc[c].first > Len(Sweep) \/ mState = "Off"
     THEN MEndOn(c)
     ELSE MGoOn(c, "align", [mloc[c] EXCEPT !.at = mloc[c].first]) /\ UNCHANGED mState
  /\ UNCHANGED <<vars, mCalc, mMethod, mFrac, reviewed>>

CalculateEdge(c) ==
  /\ mpc[c] = "align"
  /\ IF mloc[c].at = 0 THEN OuterLoop(c) ELSE CallEdge(c, "Calculate", "fraction")
  /\ SequenceUnchanged

SetEdgeFraction(c) ==
  /\ mpc[c] = "fraction" /\ EdgeReturned(c)
  /\ CallEdge(c, "SetAlignFrac", "edgeWait")
  /\ SequenceUnchanged

ExecuteEdge(c) ==
  /\ mpc[c] = "edgeWait" /\ EdgeReturned(c)
  /\ state[At(c)] # "Busy"
  /\ IF mState = "Off" THEN OuterLoop(c) ELSE CallEdge(c, "Execute", "edgeDone")
  /\ SequenceUnchanged

EdgeAligned(c) ==
  /\ mpc[c] = "edgeDone" /\ EdgeReturned(c)
  /\ IF pc[c] = "bad"
     THEN MEndOn(c) /\ pc' = [pc EXCEPT ![c] = "idle"] /\ UNCHANGED loc
     ELSE IF mState = "Off" THEN OuterLoop(c)
     ELSE Onward(c, "align", [mloc[c] EXCEPT !.at = @ - 1])
  /\ SequenceUnchanged

-----------------------------------------------------------------------------
(* Stop: of each edge with its panels, and only then of the mirror *)

MirrorStop(c) ==
  /\ pc[c] = "idle" /\ mpc[c] = "idle" /\ "Stop" \in MirrorMethodsOf[c]
  /\ MGoOn(c, "stopping", [NoMirrorLocals EXCEPT !.method = "Stop"])
  /\ UNCHANGED <<vars, mState, mCalc, mMethod, mFrac, reviewed>>

\* The stop of the next edge begins when the one before has stopped its panels.
StopNextEdge(c) ==
  /\ mpc[c] = "stopping" /\ pc[c] \in {"idle", "good"}
  /\ \E e \in Edges \ mloc[c].stopped :
       /\ StopEdge(c, e, [NoLocals EXCEPT !.for = "mirror"])
       /\ MGoOn(c, "stopping", [mloc[c] EXCEPT !.stopped = @ \cup {e}])
  /\ UNCHANGED <<panelVars, calc, frac, applied, abandoned>>
  /\ UNCHANGED <<mState, mCalc, mMethod, mFrac, reviewed>>

EndMirrorStop(c) ==
  /\ mpc[c] = "stopping" /\ pc[c] = "good" /\ mloc[c].stopped = Edges
  /\ Race \/ MNobodyAdmitted
  /\ mState' = "Off"
  /\ MReturn(c)
  /\ pc' = [pc EXCEPT ![c] = "idle"]
  /\ UNCHANGED <<panelVars, edgeVars, loc, mCalc, mMethod, mFrac, reviewed>>

-----------------------------------------------------------------------------
MirrorInit ==
  /\ EdgeInit
  /\ mState = "On"
  /\ mCalc = NoMirrorMotion
  /\ mMethod = "none"
  /\ mFrac = 0
  /\ mpc = [c \in Callers |-> "idle"]
  /\ mloc = [c \in Callers |-> NoMirrorLocals]
  /\ reviewed = NotReviewed

MirrorRun(c) ==
  \/ MirrorBegin(c) \/ MirrorRead(c)
  \/ MirrorCalculate(c) \/ MirrorSetFraction(c) \/ MirrorExecute(c)
  \/ SendMirrorPart(c) \/ AskPanel(c) \/ EndRound(c)
  \/ NextEdge(c) \/ CalculateEdge(c) \/ SetEdgeFraction(c)
  \/ ExecuteEdge(c) \/ EdgeAligned(c)
  \/ StopNextEdge(c) \/ EndMirrorStop(c)

\* What happens in the edges and the panels.
EdgeCall(c) == mpc[c] = "idle" /\ (Call(c) \/ CallPanelMove(c) \/ StopBegin(c))
                 /\ UNCHANGED mVars
EdgeRun(c) == Run(c) /\ UNCHANGED mVars
PanelRun == Servers /\ UNCHANGED mVars

MirrorNext ==
  \/ \E c \in Callers : MirrorCall(c) \/ MirrorStop(c) \/ MirrorRun(c)
                          \/ EdgeCall(c) \/ EdgeRun(c)
  \/ PanelRun

MirrorSpec == MirrorInit /\ [][MirrorNext]_mirrorVars

-----------------------------------------------------------------------------
(* Properties *)

MirrorTypeOK ==
  /\ TypeOK
  /\ mState \in {"On", "Busy", "Off"}
  /\ mCalc \in MirrorMotions
  /\ mMethod \in MotionMethods \cup {"none"}
  /\ mFrac \in 0 .. Whole
  /\ reviewed \in 0 .. NotReviewed
  /\ mpc \in [Callers -> MirrorPhases]
  /\ \A c \in Callers : mloc[c].at \in 0 .. Len(Sweep)

\* "Done! All motions completed for execute() method": when __moveSelectedPanels
\* has said so and resets the motion, no part of it is on its way or being made.
MotionsComplete ==
  [][\A c \in Callers :
       mpc[c] = "polling" /\ mpc'[c] = "idle" =>
         \A p \in Panels : \A m \in sent[p] \cup {moving[p]} :
           m \in FitMotions => m.of # Mirror \/ m.id # mloc[c].x.id]_mirrorVars

\* The message of execute: "always call setAlignFrac with the align fraction you
\* want, review it, and then execute": what the mirror sends is the part of the
\* motion that was shown for review last.
ExecutedAsReviewed ==
  [][\A p \in Panels :
       \A m \in sent'[p] \ sent[p] :
         m \in FitMotions /\ m.of = Mirror => m.fraction = reviewed]_mirrorVars

\* "No calculated motion found. Call the method with command=calculate once
\* first" (__moveSelectedPanels): a method executes the motion it calculated, and
\* never one of another method.  The methods that note themselves also when their
\* calculation has failed are left out: after a stop they do execute another's.
ByItsMethod ==
  \A c \in Callers :
    mpc[c] = "sending" /\ mloc[c].method = "MoveDeltaCoords" =>
      mloc[c].x.by = "MoveDeltaCoords"

\* "do this until the edge is aligned" (alignSequential): the sensors of an edge
\* are read, from the second round on, when its panels are at rest.
SequenceWaits ==
  \A c \in Callers :
    pc[c] = "solving" /\ loc[c].for = "mirror" /\ mloc[c].first > 1 =>
      \A p \in PanelsOf[E(c)] : Quiet(p)
=============================================================================
