------------------------------ MODULE MirrorProofs ------------------------------
(***************************************************************************)
(* The mirror of the alignment client with its edges and panels, for every *)
(* set of panels, edges and callers: its types, which method a motion that *)
(* is executed comes from, and, for one thread that moves the mirror, that *)
(* no part of a motion is under way when the method has said that it is    *)
(* done, and that none is sent twice.                                      *)
(***************************************************************************)
EXTENDS Mirror, EdgeProofs

-----------------------------------------------------------------------------
(* The type invariant *)

MirrorLocals ==
  [method : MirrorMethods, command : Commands, fraction : 0 .. Whole,
   constrain : BOOLEAN, x : MirrorMotions, todo : SUBSET Panels, hit : BOOLEAN,
   stopped : SUBSET Edges, first : 1 .. Len(Sweep) + 1, at : 0 .. Len(Sweep)]

\* The sequence has called an edge, whose number in the sweep is not 0, in the
\* three phases in which it waits for it.
Waiting == {"fraction", "edgeWait", "edgeDone"}

MLocalsOK(c, phase, l) ==
  /\ l \in MirrorLocals
  /\ phase # "idle" => l.method \in MirrorMethodsOf[c]
  /\ phase \in Commands \cup {"sending", "polling"} => l.method \in MotionMethods
  /\ phase \in {"sending", "polling"} =>
       l.x # NoMirrorMotion /\ l.todo \subseteq l.x.moved
  /\ phase \in Waiting \cup {"align", "nextEdge"} => l.method = "AlignSequential"
  /\ phase \in Waiting => l.at # 0
  /\ phase \in Waiting \cup {"align"} => l.first <= Len(Sweep)

MCallersTyped ==
  /\ mpc \in [Callers -> MirrorPhases]
  /\ mloc \in [Callers -> MirrorLocals]
  /\ \A c \in Callers : MLocalsOK(c, mpc[c], mloc[c])

MotionTyped ==
  /\ mState \in {"On", "Busy", "Off"}
  /\ mCalc \in MirrorMotions
  /\ mMethod \in MotionMethods \cup {"none"}
  /\ mFrac \in 0 .. Whole
  /\ reviewed \in 0 .. NotReviewed

\* A thread that is in a method of the mirror is in a method of an edge only when
\* that called it.
OwnThreads ==
  \A c \in Callers :
    mpc[c] \notin Waiting \cup {"idle", "stopping"} => pc[c] = "idle"

MirrorTyped == MCallersTyped /\ MotionTyped /\ OwnThreads

\* The edges are in their types whoever calls them.
MirrorSound == Typed /\ MirrorTyped

LEMMA NoMirrorLocalsTyped ==
  /\ NoMirrorLocals \in MirrorLocals /\ NoMirrorLocals.first = 1
  /\ NoMirrorLocals.todo = {} /\ NoMirrorLocals.x = NoMirrorMotion
  /\ Len(Sweep) \in Nat
<1>1. Len(Sweep) \in Nat /\ Whole \in Nat
  BY MirrorAssumption, ClientAssumption
<1>2. NoMirrorMotion \in MirrorMotions
  BY DEF MirrorMotions
<1> HIDE DEF NoMirrorMotion, MirrorMotions
<1> QED
  BY <1>1, <1>2
  DEF NoMirrorLocals, MirrorLocals, MirrorMethods, MotionMethods, Commands

LEMMA MGoOnTyped ==
  ASSUME MCallersTyped, NEW c \in Callers, NEW phase \in MirrorPhases, NEW l,
         MLocalsOK(c, phase, l), MGoOn(c, phase, l)
  PROVE  /\ MCallersTyped'
         /\ mpc'[c] = phase /\ mloc'[c] = l
         /\ \A d \in Callers \ {c} : mpc'[d] = mpc[d] /\ mloc'[d] = mloc[d]
<1>1. l \in MirrorLocals
  BY DEF MLocalsOK
<1> HIDE DEF MirrorLocals
<1>2. /\ mpc' \in [Callers -> MirrorPhases]
      /\ mloc' \in [Callers -> MirrorLocals]
      /\ mpc'[c] = phase /\ mloc'[c] = l
      /\ \A d \in Callers \ {c} : mpc'[d] = mpc[d] /\ mloc'[d] = mloc[d]
  BY <1>1 DEF MGoOn, MCallersTyped
<1>3. ASSUME NEW d \in Callers
      PROVE  MLocalsOK(d, mpc'[d], mloc'[d])
  BY <1>2 DEF MCallersTyped
<1> QED BY <1>2, <1>3 DEF MCallersTyped

LEMMA MReturnTyped ==
  ASSUME MCallersTyped, NEW c \in Callers, MReturn(c)
  PROVE  /\ MCallersTyped'
         /\ mpc'[c] = "idle" /\ mloc'[c] = NoMirrorLocals
         /\ \A d \in Callers \ {c} : mpc'[d] = mpc[d] /\ mloc'[d] = mloc[d]
<1>1. MLocalsOK(c, "idle", NoMirrorLocals)
  BY NoMirrorLocalsTyped DEF MLocalsOK, Waiting, Commands
<1>2. "idle" \in MirrorPhases
  BY DEF MirrorPhases
<1> QED BY <1>1, <1>2, MGoOnTyped DEF MReturn

LEMMA MLocalsOf ==
  ASSUME MirrorSound, NEW c \in Callers
  PROVE  /\ mpc[c] \in MirrorPhases /\ mloc[c] \in MirrorLocals
         /\ MLocalsOK(c, mpc[c], mloc[c])
BY DEF MirrorSound, MirrorTyped, MCallersTyped

LEMMA EdgesUntouched ==
  ASSUME Typed, UNCHANGED vars
  PROVE  Typed'
BY DEF vars, panelVars, edgeVars, Typed, CallersTyped, EdgesTyped, PanelTypeOK

\* A thread that is in no method of an edge, and calls none.
LEMMA OwnStep ==
  ASSUME MirrorSound, NEW c \in Callers, MCallersTyped', UNCHANGED pc,
         pc[c] = "idle" \/ mpc'[c] \in Waiting \cup {"idle", "stopping"},
         \A d \in Callers \ {c} : mpc'[d] = mpc[d]
  PROVE  OwnThreads'
BY DEF MirrorSound, MirrorTyped, OwnThreads

LEMMA MotionKept ==
  ASSUME MirrorSound, UNCHANGED <<mCalc, mMethod, mFrac, reviewed>>,
         mState' \in {"On", "Busy", "Off"}
  PROVE  MotionTyped'
BY DEF MirrorSound, MirrorTyped, MotionTyped

-----------------------------------------------------------------------------
(* The steps of the mirror keep the types *)

LEMMA MirrorCallSound ==
  ASSUME MirrorSound, NEW c \in Callers, MirrorCall(c)
  PROVE  MirrorSound'
<1>1. PICK m \in MirrorMethodsOf[c] \ {"Stop"} : \E a \in MArguments(m) :
        MGoOn(c, "admitted",
              [NoMirrorLocals EXCEPT !.method = m, !.command = a.command,
                 !.fraction = a.fraction, !.constrain = a.constrain])
  BY DEF MirrorCall
<1>2. PICK a \in MArguments(m) :
        MGoOn(c, "admitted",
              [NoMirrorLocals EXCEPT !.method = m, !.command = a.command,
                 !.fraction = a.fraction, !.constrain = a.constrain])
  BY <1>1
<1> DEFINE l == [NoMirrorLocals EXCEPT !.method = m, !.command = a.command,
                   !.fraction = a.fraction, !.constrain = a.constrain]
<1>3. m \in MirrorMethods
  BY MirrorAssumption
<1>4. a.command \in Commands /\ a.fraction \in 0 .. Whole /\ a.constrain \in BOOLEAN
  <2>1. /\ Whole \in 0 .. Whole /\ 0 \in 0 .. Whole /\ Fractions \subseteq 0 .. Whole
        /\ Constraints \subseteq BOOLEAN
    BY ClientAssumption, EdgeAssumption, MirrorAssumption
  <2>2. CASE m \in MotionMethods
    BY <2>1, <2>2 DEF MArguments, Commands
  <2>3. CASE m \notin MotionMethods
    <3>1. a = [command |-> "execute", fraction |-> 0, constrain |-> FALSE]
      BY <2>3 DEF MArguments
    <3>2. /\ a.command = "execute" /\ a.fraction = 0 /\ a.constrain = FALSE
      BY <3>1
    <3> QED BY <2>1, <3>2 DEF Commands
  <2> QED BY <2>2, <2>3
<1>5. l \in MirrorLocals /\ l.method = m
  <2> HIDE DEF MirrorMethods, MirrorMotions, Commands
  <2> QED BY <1>3, <1>4, NoMirrorLocalsTyped DEF MirrorLocals
<1> HIDE DEF l
<1>6. MLocalsOK(c, "admitted", l)
  BY <1>5 DEF MLocalsOK, Waiting, Commands
<1>7. MGoOn(c, "admitted", l)
  BY <1>2 DEF l
<1>8. MCallersTyped' /\ \A d \in Callers \ {c} : mpc'[d] = mpc[d]
  BY <1>6, <1>7, MGoOnTyped DEF MirrorSound, MirrorTyped, MirrorPhases
<1>9. pc[c] = "idle" /\ UNCHANGED pc /\ Typed'
  BY EdgesUntouched DEF MirrorCall, MirrorSound, vars
<1>10. MotionTyped'
  BY MotionKept DEF MirrorCall, MirrorSound, MirrorTyped, MotionTyped
<1> QED
  BY <1>8, <1>9, <1>10, OwnStep DEF MirrorSound, MirrorTyped

\* What changes is where a thread is in a method of the mirror, and the state.
LEMMA ThreadStep ==
  ASSUME MirrorSound, NEW c \in Callers, NEW phase \in MirrorPhases, NEW l,
         MLocalsOK(c, phase, l), MGoOn(c, phase, l),
         pc[c] = "idle" \/ phase \in Waiting \cup {"idle", "stopping"},
         UNCHANGED <<vars, mCalc, mMethod, mFrac, reviewed>>,
         mState' \in {"On", "Busy", "Off"}
  PROVE  MirrorSound'
<1>1. /\ MCallersTyped' /\ mpc'[c] = phase
      /\ \A d \in Callers \ {c} : mpc'[d] = mpc[d]
  BY MGoOnTyped DEF MirrorSound, MirrorTyped
<1>2. UNCHANGED pc /\ Typed'
  BY EdgesUntouched DEF MirrorSound, vars
<1>3. MotionTyped'
  BY MotionKept
<1> QED BY <1>1, <1>2, <1>3, OwnStep DEF MirrorSound, MirrorTyped

LEMMA ThreadReturns ==
  ASSUME MirrorSound, NEW c \in Callers, MReturn(c),
         UNCHANGED <<vars, mCalc, mMethod, mFrac, reviewed>>,
         mState' \in {"On", "Busy", "Off"}
  PROVE  MirrorSound'
<1>1. MLocalsOK(c, "idle", NoMirrorLocals)
  BY NoMirrorLocalsTyped DEF MLocalsOK, Waiting, Commands
<1>2. "idle" \in MirrorPhases
  BY DEF MirrorPhases
<1> QED BY <1>1, <1>2, ThreadStep DEF MReturn

LEMMA MStateTyped ==
  ASSUME MirrorSound
  PROVE  mState \in {"On", "Busy", "Off"}
BY DEF MirrorSound, MirrorTyped, MotionTyped

\* In the same method, with the locals that the phase asks for.
LEMMA MResume ==
  ASSUME MirrorSound, NEW c \in Callers, mpc[c] # "idle",
         NEW phase \in MirrorPhases, NEW l \in MirrorLocals,
         l.method = mloc[c].method,
         phase \in Commands \cup {"sending", "polling"} =>
           l.method \in MotionMethods,
         phase \in {"sending", "polling"} =>
           l.x # NoMirrorMotion /\ l.todo \subseteq l.x.moved,
         phase \in Waiting \cup {"align", "nextEdge"} =>
           l.method = "AlignSequential",
         phase \in Waiting => l.at # 0,
         phase \in Waiting \cup {"align"} => l.first <= Len(Sweep)
  PROVE  MLocalsOK(c, phase, l)
<1>1. MLocalsOK(c, mpc[c], mloc[c])
  BY MLocalsOf
<1> QED BY <1>1 DEF MLocalsOK

LEMMA MirrorBeginSound ==
  ASSUME MirrorSound, NEW c \in Callers, MirrorBegin(c)
  PROVE  MirrorSound'
<1> DEFINE l == mloc[c]
           phase == CASE l.method \in MotionMethods    -> l.command
                      [] l.method = "AlignSequential" -> "nextEdge"
                      [] OTHER                        -> "reading"
<1>0. /\ mpc[c] = "admitted" /\ mState' = "Busy" /\ MGoOn(c, phase, l)
      /\ UNCHANGED <<vars, mCalc, mMethod, mFrac, reviewed>>
  BY DEF MirrorBegin
<1>1. l \in MirrorLocals /\ l.command \in Commands
  BY MLocalsOf DEF MirrorLocals
<1>2. pc[c] = "idle"
  BY <1>0 DEF MirrorSound, MirrorTyped, OwnThreads, Waiting
<1>3. /\ phase \in MirrorPhases
      /\ phase \in Commands \cup {"reading", "nextEdge"}
      /\ phase \in Commands => l.method \in MotionMethods
      /\ phase = "nextEdge" => l.method = "AlignSequential"
  <2>1. CASE l.method \in MotionMethods
    BY <1>1, <2>1 DEF Commands, MirrorPhases, MotionMethods
  <2>2. CASE l.method = "AlignSequential"
    BY <2>2 DEF Commands, MirrorPhases, MotionMethods
  <2>3. CASE l.method \notin MotionMethods \cup {"AlignSequential"}
    BY <2>3 DEF Commands, MirrorPhases
  <2> QED BY <2>1, <2>2, <2>3
<1> HIDE DEF phase
<1>4. MLocalsOK(c, phase, l)
  BY <1>0, <1>1, <1>3, MResume DEF Waiting, Commands
<1> QED BY <1>0, <1>2, <1>3, <1>4, ThreadStep

LEMMA MirrorReadSound ==
  ASSUME MirrorSound, NEW c \in Callers, MirrorRead(c)
  PROVE  MirrorSound'
BY ThreadReturns DEF MirrorRead, MEndOn

\* The motion may change with what else a method leaves of it.
LEMMA MotionStep ==
  ASSUME MirrorSound, NEW c \in Callers, MReturn(c), UNCHANGED pc,
         Typed', MotionTyped'
  PROVE  MirrorSound'
<1>1. /\ MCallersTyped' /\ mpc'[c] = "idle"
      /\ \A d \in Callers \ {c} : mpc'[d] = mpc[d]
  BY MReturnTyped DEF MirrorSound, MirrorTyped
<1> QED BY <1>1, OwnStep DEF MirrorSound, MirrorTyped

LEMMA MirrorCalculateSound ==
  ASSUME MirrorSound, NEW c \in Callers, MirrorCalculate(c)
  PROVE  MirrorSound'
<1> DEFINE m == mloc[c].method
           numbers == Unused(Mirror, {mloc[d].x.id : d \in Callers})
           n == Min(numbers)
           x(sized) == [id |-> n, scale |-> Whole, moved |-> Selected,
                        sized |-> sized, by |-> m]
<1>0. /\ mpc[c] = "calculate" /\ UNCHANGED <<panelVars, edgeSide, mFrac>>
      /\ m \in MotionMethods /\ MotionTyped
  BY MLocalsOf
  DEF MirrorCalculate, MLocalsOK, Commands, MirrorSound, MirrorTyped
<1>1. ASSUME applied' \subseteq applied PROVE Typed' /\ UNCHANGED pc
  BY <1>0, <1>1
  DEF MirrorSound, Typed, CallersTyped, EdgesTyped, PanelTypeOK, panelVars, edgeSide
<1>2. CASE /\ numbers # {}
           /\ \E sized \in BOOLEAN :
                /\ mCalc' = x(sized)
                /\ IF sized THEN MEndOn(c) ELSE MReturn(c) /\ UNCHANGED mState
           /\ Forget(Mirror, n)
           /\ mMethod' = m
           /\ reviewed' = NotReviewed
  <2>1. n \in Calculations
    <3>1. numbers \subseteq Calculations /\ numbers \in SUBSET Nat
      BY ClientAssumption DEF Unused
    <3> HIDE DEF numbers
    <3> QED BY <1>2, <3>1, LeastMember
  <2> HIDE DEF n, m
  <2>2. PICK sized \in BOOLEAN :
          /\ mCalc' = x(sized)
          /\ IF sized THEN MEndOn(c) ELSE MReturn(c) /\ UNCHANGED mState
    BY <1>2
  <2>3. x(sized) \in MirrorMotions
    BY <1>0, <2>1, ClientAssumption DEF MirrorMotions
  <2>4. MReturn(c) /\ mState' \in {"On", "Busy", "Off"}
    BY <2>2, MStateTyped DEF MEndOn
  <2>5. Typed' /\ UNCHANGED pc
    BY <1>1, <1>2 DEF Forget
  <2>6. NotReviewed \in 0 .. NotReviewed
    BY ClientAssumption DEF NotReviewed
  <2>7. MotionTyped'
    <3> HIDE DEF x, MirrorMotions
    <3> QED BY <1>0, <1>2, <2>2, <2>3, <2>4, <2>6 DEF MotionTyped
  <2> QED BY <2>4, <2>5, <2>7, MotionStep
<1>3. CASE /\ mCalc' = NoMirrorMotion
           /\ mMethod' = m
           /\ reviewed' = NotReviewed
           /\ MEndOn(c)
           /\ UNCHANGED applied
  <2>1. NotReviewed \in 0 .. NotReviewed /\ NoMirrorMotion \in MirrorMotions
    BY ClientAssumption DEF NotReviewed, MirrorMotions
  <2>2. MotionTyped'
    <3> HIDE DEF m, NoMirrorMotion, MirrorMotions
    <3> QED BY <1>0, <1>3, <2>1 DEF MotionTyped, MEndOn
  <2> QED BY <1>1, <1>3, <2>2, MotionStep DEF MEndOn
<1>4. CASE /\ mMethod' \in IF m = "LoadMPESPositions" THEN {mMethod, m} ELSE {mMethod}
           /\ MReturn(c)
           /\ UNCHANGED <<mCalc, mState, applied, reviewed>>
  <2>1. MotionTyped'
    <3> HIDE DEF m
    <3> QED BY <1>0, <1>4 DEF MotionTyped
  <2> QED BY <1>1, <1>4, <2>1, MotionStep
<1> HIDE DEF m, numbers, n, x
<1> QED BY <1>2, <1>3, <1>4 DEF MirrorCalculate, m, numbers, n, x

\* A part of a part is a part.
LEMMA PartOfWhole ==
  ASSUME NEW a \in 0 .. Whole, NEW b \in 0 .. Whole
  PROVE  (a * b) \div Whole \in 0 .. Whole
<1> DEFINE ab == a * b
           q == ab \div Whole
<1>0. Whole \in Nat \ {0} /\ a \in Nat /\ b \in Nat /\ a <= Whole /\ b <= Whole
  BY ClientAssumption
<1>1. ab \in Nat /\ ab <= Whole * Whole
  <2>1. a * b <= Whole * b
    BY <1>0
  <2>2. Whole * b <= Whole * Whole
    BY <1>0
  <2>3. a * b \in Nat /\ Whole * b \in Nat /\ Whole * Whole \in Nat
    BY <1>0
  <2> QED BY <2>1, <2>2, <2>3
<1> HIDE DEF ab
<1>2. q \in Nat /\ Whole * q <= ab
  BY <1>0, <1>1
<1> HIDE DEF q
<1>3. Whole * q <= Whole * Whole
  <2>1. Whole * q \in Nat /\ Whole * Whole \in Nat
    BY <1>0, <1>2
  <2> QED BY <1>1, <1>2, <2>1
<1>4. q <= Whole
  <2>1. Whole < q => Whole * Whole < Whole * q
    BY <1>0, <1>2
  <2>2. Whole * q \in Nat /\ Whole * Whole \in Nat
    BY <1>0, <1>2
  <2> QED BY <1>0, <1>2, <1>3, <2>1, <2>2
<1> QED BY <1>0, <1>2, <1>4 DEF q, ab

\* The motion that is calculated, if there is one.
LEMMA CalculatedMotion ==
  ASSUME NEW x \in MirrorMotions, x # NoMirrorMotion
  PROVE  /\ x \in [id : Calculations, scale : 0 .. Whole, moved : {Selected},
                   sized : BOOLEAN, by : MotionMethods]
         /\ x.id \in Calculations /\ x.scale \in 0 .. Whole
         /\ x.moved = Selected /\ x.moved \subseteq Panels /\ x.by \in MotionMethods
<1>1. x \in [id : Calculations, scale : 0 .. Whole, moved : {Selected},
             sized : BOOLEAN, by : MotionMethods]
  BY DEF MirrorMotions
<1> QED BY <1>1, MirrorAssumption

LEMMA MirrorSetFractionSound ==
  ASSUME MirrorSound, NEW c \in Callers, MirrorSetFraction(c)
  PROVE  MirrorSound'
<1> DEFINE shown == (mCalc.scale * mloc[c].fraction) \div Whole
<1>0. /\ MReturn(c) /\ mState' = "On" /\ UNCHANGED vars /\ UNCHANGED mMethod
      /\ MotionTyped /\ mCalc \in MirrorMotions
  BY DEF MirrorSetFraction, MEndOn, MirrorSound, MirrorTyped, MotionTyped
<1>1. Typed' /\ UNCHANGED pc
  BY <1>0, EdgesUntouched DEF MirrorSound, vars
<1>2. CASE UNCHANGED <<mFrac, mCalc, reviewed>>
  <2>1. MotionTyped'
    BY <1>0, <1>2, MotionKept
  <2> QED BY <1>0, <1>1, <2>1, MotionStep
<1>3. CASE /\ mCalc # NoMirrorMotion
           /\ mFrac' = mloc[c].fraction
           /\ mCalc' = IF mloc[c].constrain THEN [mCalc EXCEPT !.scale = shown]
                                            ELSE mCalc
           /\ reviewed' = shown
  <2>1. mloc[c].fraction \in 0 .. Whole
    BY MLocalsOf DEF MirrorLocals
  <2>2. shown \in 0 .. Whole
    BY <1>0, <1>3, <2>1, CalculatedMotion, PartOfWhole
  <2> HIDE DEF shown
  <2>3. [mCalc EXCEPT !.scale = shown] \in MirrorMotions
    <3>1. mCalc \in [id : Calculations, scale : 0 .. Whole, moved : {Selected},
                     sized : BOOLEAN, by : MotionMethods]
      BY <1>0, <1>3, CalculatedMotion
    <3> HIDE DEF MotionMethods
    <3> QED BY <2>2, <3>1 DEF MirrorMotions
  <2>4. mCalc' \in MirrorMotions
    BY <1>0, <1>3, <2>3
  <2>5. shown \in 0 .. NotReviewed
    BY <2>2, ClientAssumption DEF NotReviewed
  <2>6. MotionTyped'
    <3> HIDE DEF MirrorMotions
    <3> QED BY <1>0, <1>3, <2>1, <2>4, <2>5 DEF MotionTyped
  <2> QED BY <1>0, <1>1, <2>6, MotionStep
<1> HIDE DEF shown
<1> QED BY <1>2, <1>3 DEF MirrorSetFraction, shown

LEMMA MirrorExecuteSound ==
  ASSUME MirrorSound, NEW c \in Callers, MirrorExecute(c)
  PROVE  MirrorSound'
<1>0. /\ mpc[c] = "execute" /\ UNCHANGED <<vars, mCalc, mMethod, mFrac, reviewed>>
      /\ mState' \in {"On", "Busy", "Off"}
  BY MStateTyped DEF MirrorExecute, MEndOn
<1>1. CASE MReturn(c)
  BY <1>0, <1>1, ThreadReturns
<1>2. CASE ~MReturn(c)
  <2> DEFINE l == [mloc[c] EXCEPT !.x = mCalc, !.todo = mCalc.moved]
  <2>1. MGoOn(c, "sending", l) /\ mCalc # NoMirrorMotion
    BY <1>2 DEF MirrorExecute, MEndOn, MayMove
  <2>2. mCalc \in MirrorMotions /\ mCalc.moved \in SUBSET Panels
    BY <2>1, CalculatedMotion DEF MirrorSound, MirrorTyped, MotionTyped
  <2>3. mloc[c] \in MirrorLocals /\ mloc[c].method \in MotionMethods
    BY <1>0, MLocalsOf DEF MLocalsOK, Commands
  <2>4. l \in MirrorLocals /\ l.method = mloc[c].method /\ l.x = mCalc
        /\ l.todo = mCalc.moved
    <3> HIDE DEF MirrorMotions, MirrorMethods, Commands
    <3> QED BY <2>2, <2>3 DEF MirrorLocals
  <2> HIDE DEF l
  <2>5. MLocalsOK(c, "sending", l) /\ "sending" \in MirrorPhases
    BY <1>0, <2>1, <2>3, <2>4, MResume DEF MirrorPhases, Waiting
  <2>6. pc[c] = "idle"
    BY <1>0 DEF MirrorSound, MirrorTyped, OwnThreads, Waiting
  <2> QED BY <1>0, <2>1, <2>5, <2>6, ThreadStep
<1> QED BY <1>1, <1>2

\* The locals of a thread that goes on with its motion.
LEMMA MovingOn ==
  ASSUME MirrorSound, NEW c \in Callers, mpc[c] \in {"sending", "polling"},
         NEW todo \in SUBSET mloc[c].x.moved, NEW hit \in BOOLEAN,
         NEW phase \in {"sending", "polling"}
  PROVE  LET l == [mloc[c] EXCEPT !.todo = todo, !.hit = hit]
         IN  /\ MLocalsOK(c, phase, l) /\ phase \in MirrorPhases
             /\ l.x = mloc[c].x /\ l.todo = todo /\ l.hit = hit
             /\ l.method = mloc[c].method
<1> DEFINE l == [mloc[c] EXCEPT !.todo = todo, !.hit = hit]
<1>1. /\ mloc[c] \in MirrorLocals /\ mloc[c].method \in MotionMethods
      /\ mloc[c].x # NoMirrorMotion /\ mloc[c].x \in MirrorMotions
  BY MLocalsOf DEF MLocalsOK, MirrorLocals
<1>2. todo \in SUBSET Panels
  BY <1>1, CalculatedMotion
<1>3. /\ l \in MirrorLocals /\ l.method = mloc[c].method /\ l.x = mloc[c].x
      /\ l.todo = todo /\ l.hit = hit
  <2> HIDE DEF MirrorMotions, MirrorMethods, Commands
  <2> QED BY <1>1, <1>2 DEF MirrorLocals
<1> HIDE DEF l
<1>4. MLocalsOK(c, phase, l) /\ phase \in MirrorPhases
  BY <1>1, <1>3, MResume DEF MirrorPhases, Waiting
<1> QED BY <1>3, <1>4 DEF l

LEMMA StartRoundTyped ==
  ASSUME MirrorSound, NEW c \in Callers, mpc[c] \in {"sending", "polling"},
         StartRound(c, mloc[c])
  PROVE  LET l == [mloc[c] EXCEPT !.todo = mloc[c].x.moved, !.hit = FALSE]
         IN  /\ MGoOn(c, "polling", l) /\ MLocalsOK(c, "polling", l)
             /\ l.x = mloc[c].x /\ l.todo = mloc[c].x.moved /\ l.hit = FALSE
             /\ l.method = mloc[c].method
<1>1. /\ mloc[c].x.moved \in SUBSET mloc[c].x.moved
      /\ FALSE \in BOOLEAN /\ "polling" \in {"sending", "polling"}
  OBVIOUS
<1> DEFINE l == [mloc[c] EXCEPT !.todo = mloc[c].x.moved, !.hit = FALSE]
<1>2. /\ MLocalsOK(c, "polling", l)
      /\ l.x = mloc[c].x /\ l.todo = mloc[c].x.moved /\ l.hit = FALSE
      /\ l.method = mloc[c].method
  <2>1. MLocalsOK(c, "polling", l)
    BY <1>1, MovingOn, Zenon
  <2>2. /\ l.x = mloc[c].x /\ l.todo = mloc[c].x.moved /\ l.hit = FALSE
        /\ l.method = mloc[c].method
    <3>1. mloc[c] \in MirrorLocals
      BY MLocalsOf DEF MLocalsOK
    <3> HIDE DEF MirrorMotions, MirrorMethods, Commands
    <3> QED BY <3>1 DEF MirrorLocals
  <2> QED BY <2>1, <2>2
<1>3. MGoOn(c, "polling", l)
  BY DEF StartRound
<1> QED BY <1>2, <1>3

LEMMA AtRest ==
  ASSUME MirrorSound, NEW c \in Callers, mpc[c] \in {"sending", "polling"}
  PROVE  /\ pc[c] = "idle" /\ "sending" \in MirrorPhases
         /\ "polling" \in MirrorPhases
BY DEF MirrorSound, MirrorTyped, OwnThreads, Waiting, MirrorPhases

LEMMA SendMirrorPartSound ==
  ASSUME MirrorSound, NEW c \in Callers, SendMirrorPart(c)
  PROVE  MirrorSound'
<1> DEFINE l == mloc[c]
           m(p) == Part(Mirror, [id |-> l.x.id, moved |-> l.x.moved],
                        (l.x.scale * l.fraction) \div Whole, p)
           next(p) == [l EXCEPT !.todo = @ \ {p}]
<1>0. /\ mpc[c] = "sending"
      /\ UNCHANGED <<stops, moving, edgeSide, mCalc, mMethod, mFrac,
                     reviewed>>
  BY DEF SendMirrorPart
<1>1. /\ l \in MirrorLocals /\ l.fraction \in 0 .. Whole
      /\ l.x \in MirrorMotions /\ l.x # NoMirrorMotion
      /\ l.todo \subseteq l.x.moved /\ l.hit \in BOOLEAN
      /\ pc[c] = "idle"
  BY <1>0, MLocalsOf, AtRest DEF MLocalsOK, MirrorLocals
<1>2. PICK p \in l.todo :
        \/ /\ sent' = Sent(p, m(p))
           /\ applied' = applied \cup {<<p, Mirror, l.x.id>>}
           /\ IF mState = "Off" \/ l.todo = {p} THEN StartRound(c, l)
              ELSE MGoOn(c, "sending", next(p))
           /\ UNCHANGED mState
        \/ /\ MEndOn(c)
           /\ Forget(Mirror, l.x.id)
           /\ UNCHANGED sent
  BY DEF SendMirrorPart
<1>3. /\ l.x.id \in Calculations /\ l.x.scale \in 0 .. Whole
      /\ l.x.moved \subseteq Panels /\ p \in Panels
  BY <1>1, CalculatedMotion
<1>4. m(p) \in Motions
  <2>1. (l.x.scale * l.fraction) \div Whole \in 0 .. Whole
    BY <1>1, <1>3, PartOfWhole
  <2> QED BY <1>3, <2>1 DEF Part, Motions, FitMotions
<1> HIDE DEF m
<1>5. ASSUME sent' \in [Panels -> SUBSET Motions],
             applied' \subseteq Panels \X (Edges \cup {Mirror}) \X Calculations
      PROVE  Typed'
  BY <1>0, <1>5
  DEF MirrorSound, Typed, CallersTyped, EdgesTyped, PanelTypeOK, edgeSide
<1>6. UNCHANGED pc
  BY <1>0 DEF edgeSide
<1>7. CASE /\ sent' = Sent(p, m(p))
           /\ applied' = applied \cup {<<p, Mirror, l.x.id>>}
           /\ IF mState = "Off" \/ l.todo = {p} THEN StartRound(c, l)
              ELSE MGoOn(c, "sending", next(p))
           /\ UNCHANGED mState
  <2>1. sent' \in [Panels -> SUBSET Motions]
    BY <1>3, <1>4, <1>7, SentTyped DEF MirrorSound
  <2>2. applied' \subseteq Panels \X (Edges \cup {Mirror}) \X Calculations
    BY <1>3, <1>7 DEF MirrorSound, Typed, EdgesTyped
  <2>3. Typed'
    BY <1>5, <2>1, <2>2
  <2>4. PICK phase, k :
          phase \in {"sending", "polling"} /\ MLocalsOK(c, phase, k) /\ MGoOn(c, phase, k)
    <3>1. CASE StartRound(c, l)
      BY <1>0, <3>1, StartRoundTyped
    <3>2. CASE MGoOn(c, "sending", next(p))
      <4> DEFINE k == [l EXCEPT !.todo = l.todo \ {p}, !.hit = l.hit]
      <4>1. k = next(p)
        <5> HIDE DEF MirrorMotions, MirrorMethods, Commands
        <5> QED BY <1>1 DEF MirrorLocals
      <4>2. MLocalsOK(c, "sending", k)
        BY <1>0, <1>1, MovingOn
      <4> HIDE DEF k
      <4> QED BY <3>2, <4>1, <4>2
    <3> QED BY <1>7, <3>1, <3>2
  <2>5. phase \in MirrorPhases
    BY <1>0, <2>4, AtRest
  <2>6. MCallersTyped' /\ \A d \in Callers \ {c} : mpc'[d] = mpc[d]
    BY <2>4, <2>5, MGoOnTyped DEF MirrorSound, MirrorTyped
  <2>7. MotionTyped'
    BY <1>0, <1>7, MotionKept, MStateTyped
  <2> QED
    BY <1>1, <1>6, <2>3, <2>6, <2>7, OwnStep DEF MirrorSound, MirrorTyped
<1>8. CASE MEndOn(c) /\ Forget(Mirror, l.x.id) /\ UNCHANGED sent
  <2>1. applied' \subseteq applied
    BY <1>8 DEF Forget
  <2>2. Typed'
    BY <1>5, <1>8, <2>1 DEF MirrorSound, Typed, EdgesTyped, PanelTypeOK
  <2>3. MotionTyped'
    BY <1>0, <1>8, MotionKept DEF MEndOn
  <2> QED BY <1>6, <1>8, <2>2, <2>3, MotionStep DEF MEndOn
<1> QED BY <1>2, <1>7, <1>8

LEMMA AskPanelSound ==
  ASSUME MirrorSound, NEW c \in Callers, AskPanel(c)
  PROVE  MirrorSound'
<1>0. /\ mpc[c] = "polling"
      /\ UNCHANGED <<vars, mState, mCalc, mMethod, mFrac, reviewed>>
  BY DEF AskPanel
<1>1. PICK p \in mloc[c].todo :
        MGoOn(c, "polling", [mloc[c] EXCEPT !.todo = @ \ {p}, !.hit = @ \/ Busy(p)])
  BY DEF AskPanel
<1> DEFINE todo == mloc[c].todo \ {p}
           hit == mloc[c].hit \/ Busy(p)
           l == [mloc[c] EXCEPT !.todo = todo, !.hit = hit]
<1>2. mloc[c].todo \subseteq mloc[c].x.moved /\ mloc[c].hit \in BOOLEAN
  BY <1>0, MLocalsOf DEF MLocalsOK, MirrorLocals
<1>3. todo \in SUBSET mloc[c].x.moved /\ hit \in BOOLEAN
  BY <1>2
<1>4. MGoOn(c, "polling", l)
  BY <1>1
<1> HIDE DEF todo, hit
<1>5. MLocalsOK(c, "polling", l)
  BY <1>0, <1>3, MovingOn
<1> HIDE DEF l
<1> QED BY <1>0, <1>4, <1>5, AtRest, MStateTyped, ThreadStep

LEMMA EndRoundSound ==
  ASSUME MirrorSound, NEW c \in Callers, EndRound(c)
  PROVE  MirrorSound'
<1>0. mpc[c] = "polling" /\ UNCHANGED vars
  BY DEF EndRound, RoundOver
<1>1. CASE /\ StartRound(c, mloc[c])
           /\ UNCHANGED <<mState, mCalc, mMethod, mFrac, reviewed>>
  <2> DEFINE l == [mloc[c] EXCEPT !.todo = mloc[c].x.moved, !.hit = FALSE]
  <2>1. MGoOn(c, "polling", l) /\ MLocalsOK(c, "polling", l)
    BY <1>0, <1>1, StartRoundTyped
  <2> HIDE DEF l
  <2> QED BY <1>0, <1>1, <2>1, AtRest, MStateTyped, ThreadStep
<1>2. CASE MEndOn(c) /\ ResetTo(NoMirrorMotion)
  <2>1. /\ NotReviewed \in 0 .. NotReviewed /\ NoMirrorMotion \in MirrorMotions
        /\ 0 \in 0 .. Whole
    BY ClientAssumption DEF NotReviewed, MirrorMotions
  <2>2. MotionTyped'
    <3> HIDE DEF NoMirrorMotion, MirrorMotions
    <3> QED BY <1>2, <2>1 DEF MotionTyped, MEndOn, ResetTo
  <2>3. Typed' /\ UNCHANGED pc
    BY <1>0, EdgesUntouched DEF MirrorSound, vars
  <2> QED BY <1>2, <2>2, <2>3, MotionStep DEF MEndOn
<1> QED BY <1>1, <1>2 DEF EndRound, RoundOver

-----------------------------------------------------------------------------
(* The steps of the sequence, of the stop and of the edges keep the types *)

\* The thread goes on in the sequence, and in an edge it has called.
LEMMA SequenceStep ==
  ASSUME MirrorSound, NEW c \in Callers, NEW phase \in MirrorPhases, NEW l,
         MLocalsOK(c, phase, l), MGoOn(c, phase, l),
         CallersTyped', \A d \in Callers \ {c} : pc'[d] = pc[d],
         pc'[c] = "idle" \/ phase \in Waiting \cup {"idle", "stopping"},
         mState' \in {"On", "Busy", "Off"}, SequenceUnchanged
  PROVE  MirrorSound'
<1>1. /\ MCallersTyped' /\ mpc'[c] = phase
      /\ \A d \in Callers \ {c} : mpc'[d] = mpc[d]
  BY MGoOnTyped DEF MirrorSound, MirrorTyped
<1>2. Typed'
  BY DEF SequenceUnchanged, MirrorSound, Typed, EdgesTyped, PanelTypeOK,
         panelVars, edgeVars
<1>3. MotionTyped'
  BY MotionKept DEF SequenceUnchanged
<1>4. OwnThreads'
  BY <1>1 DEF MirrorSound, MirrorTyped, OwnThreads
<1> QED BY <1>1, <1>2, <1>3, <1>4 DEF MirrorSound, MirrorTyped

\* A thread that is in no method of an edge leaves the edges.
LEMMA LeaveEdge ==
  ASSUME Typed, NEW c \in Callers, pc[c] \in Ended,
         pc' = [pc EXCEPT ![c] = "idle"], UNCHANGED loc
  PROVE  /\ CallersTyped' /\ pc'[c] = "idle"
         /\ \A d \in Callers \ {c} : pc'[d] = pc[d]
<1>1. loc[c] = NoLocals /\ loc[c] \in Locals
  BY LocalsOf DEF LocalsOK
<1>2. GoOn(c, "idle", NoLocals)
  BY <1>1 DEF GoOn, Typed, CallersTyped
<1>3. LocalsOK(c, "idle", NoLocals) /\ "idle" \in Phases
  BY IdleLocals DEF Phases, Ended
<1> QED BY <1>2, <1>3, GoOnTyped DEF Typed

\* The sequence is in the middle of the sweep.
Sequencing(c) == mpc[c] \in Waiting \cup {"align"}

LEMMA SequenceLocals ==
  ASSUME MirrorSound, NEW c \in Callers, Sequencing(c)
  PROVE  /\ mloc[c] \in MirrorLocals /\ mloc[c].method = "AlignSequential"
         /\ mpc[c] # "idle"
         /\ mloc[c].first \in 1 .. Len(Sweep)
         /\ mloc[c].at \in 0 .. Len(Sweep)
         /\ mloc[c].at # 0 => At(c) \in Edges /\ Smaller[At(c)] \in Panels
         /\ mpc[c] \in Waiting => mloc[c].at # 0
<1>1. MLocalsOK(c, mpc[c], mloc[c])
  BY MLocalsOf
<1>2. /\ mloc[c] \in MirrorLocals /\ mloc[c].method = "AlignSequential"
      /\ mloc[c].first <= Len(Sweep)
      /\ mpc[c] \in Waiting => mloc[c].at # 0
  BY <1>1 DEF MLocalsOK, Sequencing
<1>3. mloc[c].first \in 1 .. Len(Sweep) + 1 /\ mloc[c].at \in 0 .. Len(Sweep)
  BY <1>2 DEF MirrorLocals
<1>4. Len(Sweep) \in Nat /\ Sweep \in Seq(Edges) /\ Smaller \in [Edges -> Panels]
  BY MirrorAssumption
<1>5. ASSUME mloc[c].at # 0 PROVE At(c) \in Edges
  <2>1. mloc[c].at \in 1 .. Len(Sweep)
    BY <1>3, <1>4, <1>5
  <2> QED BY <1>4, <2>1 DEF At
<1>6. mloc[c].first \in 1 .. Len(Sweep)
  BY <1>2, <1>3, <1>4
<1>7. mpc[c] # "idle"
  BY DEF Sequencing, Waiting
<1>8. mloc[c].at # 0 => Smaller[At(c)] \in Panels
  BY <1>4, <1>5
<1> HIDE DEF MirrorLocals
<1> QED BY <1>2, <1>3, <1>5, <1>6, <1>7, <1>8

\* The locals of the sequence when it goes on with another edge.
LEMMA AnotherEdge ==
  ASSUME MirrorSound, NEW c \in Callers, Sequencing(c),
         NEW phase \in Waiting \cup {"align", "nextEdge"}
  PROVE  /\ phase \in MirrorPhases
         /\ mloc[c].at # 0 \/ phase = "align" => MLocalsOK(c, phase, mloc[c])
         /\ phase = "nextEdge" =>
              MLocalsOK(c, phase, [mloc[c] EXCEPT !.first = @ + 1])
         /\ phase = "align" /\ mloc[c].at # 0 =>
              MLocalsOK(c, phase, [mloc[c] EXCEPT !.at = @ - 1])
<1>0. Len(Sweep) \in Nat
  BY NoMirrorLocalsTyped
<1>1. phase \in MirrorPhases
  BY DEF Waiting, MirrorPhases
<1>2. mloc[c].at # 0 \/ phase = "align" => MLocalsOK(c, phase, mloc[c])
  BY <1>1, SequenceLocals, MResume DEF Waiting, Commands
<1>3. ASSUME phase = "nextEdge"
      PROVE  MLocalsOK(c, phase, [mloc[c] EXCEPT !.first = @ + 1])
  <2> DEFINE l == [mloc[c] EXCEPT !.first = mloc[c].first + 1]
  <2>1. mloc[c].first + 1 \in 1 .. Len(Sweep) + 1
    BY <1>0, SequenceLocals
  <2>2. l \in MirrorLocals /\ l.method = mloc[c].method
    <3> HIDE DEF MirrorMotions, MirrorMethods, Commands
    <3> QED BY <2>1, SequenceLocals DEF MirrorLocals
  <2> HIDE DEF l
  <2>3. MLocalsOK(c, phase, l)
    BY <1>1, <1>3, <2>2, SequenceLocals, MResume DEF Waiting, Commands
  <2> QED BY <2>3 DEF l
<1>4. ASSUME phase = "align", mloc[c].at # 0
      PROVE  MLocalsOK(c, phase, [mloc[c] EXCEPT !.at = @ - 1])
  <2> DEFINE l == [mloc[c] EXCEPT !.at = mloc[c].at - 1]
  <2>1. mloc[c].at - 1 \in 0 .. Len(Sweep)
    BY <1>0, <1>4, SequenceLocals
  <2>2. /\ l \in MirrorLocals /\ l.method = mloc[c].method
        /\ l.first = mloc[c].first
    <3> HIDE DEF MirrorMotions, MirrorMethods, Commands
    <3> QED BY <2>1, SequenceLocals DEF MirrorLocals
  <2> HIDE DEF l
  <2>3. l.first <= Len(Sweep)
    BY <1>0, <2>2, SequenceLocals
  <2>4. MLocalsOK(c, phase, l)
    BY <1>1, <1>4, <2>2, <2>3, SequenceLocals, MResume DEF Waiting, Commands
  <2> QED BY <2>4 DEF l
<1> QED BY <1>1, <1>2, <1>3, <1>4

LEMMA OuterLoopSound ==
  ASSUME MirrorSound, NEW c \in Callers, Sequencing(c), pc[c] \in Ended,
         OuterLoop(c), SequenceUnchanged
  PROVE  MirrorSound'
<1> DEFINE l == [mloc[c] EXCEPT !.first = @ + 1]
<1>1. /\ MGoOn(c, "nextEdge", l) /\ pc' = [pc EXCEPT ![c] = "idle"]
      /\ UNCHANGED <<mState, loc>>
  BY DEF OuterLoop, Onward
<1>2. MLocalsOK(c, "nextEdge", l) /\ "nextEdge" \in MirrorPhases
  BY AnotherEdge
<1> HIDE DEF l
<1>3. CallersTyped' /\ pc'[c] = "idle" /\ \A d \in Callers \ {c} : pc'[d] = pc[d]
  BY <1>1, LeaveEdge DEF MirrorSound
<1> QED BY <1>1, <1>2, <1>3, MStateTyped, SequenceStep

LEMMA CallEdgeSound ==
  ASSUME MirrorSound, NEW c \in Callers, Sequencing(c), pc[c] \in Ended,
         mloc[c].at # 0, NEW m \in Aligning, NEW next \in Waiting,
         CallEdge(c, m, next), SequenceUnchanged
  PROVE  MirrorSound'
<1>1. MGoOn(c, next, mloc[c]) /\ UNCHANGED mState
  BY DEF CallEdge
<1>2. MLocalsOK(c, next, mloc[c]) /\ next \in MirrorPhases
  BY AnotherEdge
<1>3. CallersTyped' /\ \A d \in Callers \ {c} : pc'[d] = pc[d]
  <2>1. CASE pc' = [pc EXCEPT ![c] = "bad"] /\ UNCHANGED loc
    <3>1. loc[c] = NoLocals
      BY LocalsOf DEF LocalsOK, MirrorSound
    <3>2. GoOn(c, "bad", NoLocals)
      BY <2>1, <3>1 DEF GoOn, MirrorSound, Typed, CallersTyped
    <3>3. LocalsOK(c, "bad", NoLocals) /\ "bad" \in Phases
      BY IdleLocals DEF Phases, Ended
    <3> QED BY <3>2, <3>3, GoOnTyped DEF MirrorSound, Typed
  <2>2. CASE ~(pc' = [pc EXCEPT ![c] = "bad"] /\ UNCHANGED loc)
    <3> DEFINE l == [NoLocals EXCEPT !.method = m, !.edge = At(c),
                       !.moved = {Smaller[At(c)]}, !.for = "mirror"]
    <3>1. GoOn(c, "admitted", l)
      BY <2>2 DEF CallEdge
    <3>2. /\ l \in Locals /\ l.for = "mirror" /\ l.method = m
          /\ l.moved # {}
      <4>1. /\ At(c) \in Edges /\ {Smaller[At(c)]} \in SUBSET Panels
            /\ m \in Methods
        BY SequenceLocals DEF Methods, Aligning
      <4>2. NoLocals \in Locals
        BY NoLocalsTyped
      <4> QED BY <4>1, <4>2 DEF Locals
    <3> HIDE DEF l
    <3>3. LocalsOK(c, "admitted", l) /\ "admitted" \in Phases
      BY <3>2 DEF LocalsOK, Stepping, Aligning, Ended, MirrorCalls, Phases
    <3> QED BY <3>1, <3>3, GoOnTyped DEF MirrorSound, Typed
  <2> QED BY <2>1, <2>2
<1> QED BY <1>1, <1>2, <1>3, MStateTyped, SequenceStep

LEMMA SequenceSound ==
  ASSUME MirrorSound, NEW c \in Callers,
         \/ NextEdge(c) \/ CalculateEdge(c) \/ SetEdgeFraction(c)
         \/ ExecuteEdge(c) \/ EdgeAligned(c)
  PROVE  MirrorSound'
<1>1. CASE NextEdge(c)
  <2>0. /\ mpc[c] = "nextEdge" /\ pc[c] = "idle"
        /\ UNCHANGED <<vars, mCalc, mMethod, mFrac, reviewed>>
    BY <1>1 DEF NextEdge, MirrorSound, MirrorTyped, OwnThreads, Waiting
  <2>1. CASE MEndOn(c)
    BY <2>0, <2>1, ThreadReturns DEF MEndOn
  <2>2. CASE ~MEndOn(c)
    <3> DEFINE l == [mloc[c] EXCEPT !.at = mloc[c].first]
    <3>1. MGoOn(c, "align", l) /\ UNCHANGED mState /\ ~(mloc[c].first > Len(Sweep))
      BY <1>1, <2>2 DEF NextEdge
    <3>2. mloc[c] \in MirrorLocals /\ mloc[c].method = "AlignSequential"
      BY <2>0, MLocalsOf DEF MLocalsOK
    <3>3. mloc[c].first \in 1 .. Len(Sweep) + 1 /\ Len(Sweep) \in Nat
      BY <3>2, NoMirrorLocalsTyped DEF MirrorLocals
    <3>4. mloc[c].first <= Len(Sweep) /\ mloc[c].first \in 0 .. Len(Sweep)
      BY <3>1, <3>3
    <3>5. /\ l \in MirrorLocals /\ l.method = mloc[c].method
          /\ l.first = mloc[c].first
      <4> HIDE DEF MirrorMotions, MirrorMethods, Commands
      <4> QED BY <3>2, <3>4 DEF MirrorLocals
    <3> HIDE DEF l
    <3>6. MLocalsOK(c, "align", l) /\ "align" \in MirrorPhases
      BY <2>0, <3>2, <3>4, <3>5, MResume DEF Waiting, Commands, MirrorPhases
    <3> QED BY <2>0, <3>1, <3>6, MStateTyped, ThreadStep
  <2> QED BY <2>1, <2>2
<1>2. CASE CalculateEdge(c)
  <2>1. Sequencing(c) /\ pc[c] \in Ended /\ SequenceUnchanged
    BY <1>2
    DEF CalculateEdge, Sequencing, MirrorSound, MirrorTyped, OwnThreads, Waiting,
        Ended
  <2>2. \/ OuterLoop(c)
        \/ mloc[c].at # 0 /\ CallEdge(c, "Calculate", "fraction")
    BY <1>2 DEF CalculateEdge
  <2> QED
    BY <2>1, <2>2, OuterLoopSound, CallEdgeSound DEF Aligning, Waiting
<1>3. CASE SetEdgeFraction(c)
  <2>1. /\ Sequencing(c) /\ pc[c] \in Ended /\ SequenceUnchanged
        /\ mpc[c] \in Waiting /\ CallEdge(c, "SetAlignFrac", "edgeWait")
    BY <1>3 DEF SetEdgeFraction, EdgeReturned, Sequencing, Waiting, Ended
  <2> QED
    BY <2>1, SequenceLocals, CallEdgeSound DEF Aligning, Waiting
<1>4. CASE ExecuteEdge(c)
  <2>1. /\ Sequencing(c) /\ pc[c] \in Ended /\ SequenceUnchanged
        /\ mpc[c] \in Waiting
        /\ OuterLoop(c) \/ CallEdge(c, "Execute", "edgeDone")
    BY <1>4 DEF ExecuteEdge, EdgeReturned, Sequencing, Waiting, Ended
  <2> QED
    BY <2>1, SequenceLocals, OuterLoopSound, CallEdgeSound DEF Aligning, Waiting
<1>5. CASE EdgeAligned(c)
  <2>1. /\ Sequencing(c) /\ pc[c] \in Ended /\ SequenceUnchanged
        /\ mpc[c] \in Waiting
    BY <1>5 DEF EdgeAligned, EdgeReturned, Sequencing, Waiting, Ended
  <2>2. CASE MEndOn(c) /\ pc' = [pc EXCEPT ![c] = "idle"] /\ UNCHANGED loc
    <3>1. MLocalsOK(c, "idle", NoMirrorLocals) /\ "idle" \in MirrorPhases
      BY NoMirrorLocalsTyped DEF MLocalsOK, Waiting, Commands, MirrorPhases
    <3> QED
      BY <2>1, <2>2, <3>1, LeaveEdge, SequenceStep DEF MEndOn, MReturn, MirrorSound
  <2>3. CASE OuterLoop(c)
    BY <2>1, <2>3, OuterLoopSound
  <2>4. CASE Onward(c, "align", [mloc[c] EXCEPT !.at = @ - 1])
    <3> DEFINE l == [mloc[c] EXCEPT !.at = @ - 1]
    <3>1. MLocalsOK(c, "align", l) /\ "align" \in MirrorPhases
      BY <2>1, SequenceLocals, AnotherEdge
    <3> HIDE DEF l
    <3>2. /\ MGoOn(c, "align", l) /\ pc' = [pc EXCEPT ![c] = "idle"]
          /\ UNCHANGED <<mState, loc>>
      BY <2>4 DEF Onward, l
    <3> QED
      BY <2>1, <3>1, <3>2, LeaveEdge, SequenceStep, MStateTyped DEF MirrorSound
  <2> QED BY <1>5, <2>2, <2>3, <2>4 DEF EdgeAligned
<1> QED BY <1>1, <1>2, <1>3, <1>4, <1>5

LEMMA MirrorStopSound ==
  ASSUME MirrorSound, NEW c \in Callers, MirrorStop(c)
  PROVE  MirrorSound'
<1> DEFINE l == [NoMirrorLocals EXCEPT !.method = "Stop"]
<1>1. /\ MGoOn(c, "stopping", l) /\ "Stop" \in MirrorMethodsOf[c]
      /\ UNCHANGED <<vars, mState, mCalc, mMethod, mFrac, reviewed>>
  BY DEF MirrorStop
<1>2. "Stop" \in MirrorMethods
  BY DEF MirrorMethods
<1>3. l \in MirrorLocals /\ l.method = "Stop"
  <2> HIDE DEF MirrorMotions, MirrorMethods, Commands
  <2> QED BY <1>2, NoMirrorLocalsTyped DEF MirrorLocals
<1> HIDE DEF l
<1>4. MLocalsOK(c, "stopping", l) /\ "stopping" \in MirrorPhases
  BY <1>1, <1>3 DEF MLocalsOK, Waiting, Commands, MirrorPhases
<1> QED BY <1>1, <1>4, MStateTyped, ThreadStep

\* What the mirror is stopped with, edge after edge.
LEMMA StopNextEdgeSound ==
  ASSUME MirrorSound, NEW c \in Callers, StopNextEdge(c)
  PROVE  MirrorSound'
<1>0. /\ mpc[c] = "stopping"
      /\ UNCHANGED <<panelVars, calc, frac, applied, abandoned>>
      /\ UNCHANGED <<mState, mCalc, mMethod, mFrac, reviewed>>
  BY DEF StopNextEdge
<1>1. PICK e \in Edges \ mloc[c].stopped :
        /\ StopEdge(c, e, [NoLocals EXCEPT !.for = "mirror"])
        /\ MGoOn(c, "stopping", [mloc[c] EXCEPT !.stopped = @ \cup {e}])
  BY DEF StopNextEdge
<1> DEFINE l == [[NoLocals EXCEPT !.for = "mirror"]
                   EXCEPT !.method = "Stop", !.edge = e, !.todo = PanelsOf[e]]
           k == [mloc[c] EXCEPT !.stopped = mloc[c].stopped \cup {e}]
<1>2. l \in Locals /\ l.for = "mirror" /\ l.method = "Stop"
  BY NoLocalsTyped, EdgeAssumption DEF Locals, Methods
<1>3. GoOn(c, "stopping", l)
  BY <1>1 DEF StopEdge
<1> HIDE DEF l
<1>4. LocalsOK(c, "stopping", l) /\ "stopping" \in Phases
  BY <1>2 DEF LocalsOK, Stepping, Aligning, Ended, MirrorCalls, Phases
<1>5. CallersTyped' /\ \A d \in Callers \ {c} : pc'[d] = pc[d]
  BY <1>3, <1>4, GoOnTyped DEF MirrorSound, Typed
<1>6. state' \in [Edges -> {"On", "Busy", "Off"}]
  BY <1>1, StateTyped DEF StopEdge, MirrorSound
<1>7. told' \in [Callers -> 0 .. 3]
  BY <1>1 DEF StopEdge, Tell, MirrorSound, Typed, EdgesTyped
<1>8. Typed'
  BY <1>0, <1>5, <1>6, <1>7
  DEF MirrorSound, Typed, EdgesTyped, PanelTypeOK, panelVars
<1>9. k \in MirrorLocals /\ k.method = mloc[c].method
  <2>1. mloc[c] \in MirrorLocals
    BY MLocalsOf
  <2> HIDE DEF MirrorMotions, MirrorMethods, Commands
  <2> QED BY <2>1 DEF MirrorLocals
<1>10. MGoOn(c, "stopping", k)
  BY <1>1
<1> HIDE DEF k
<1>11. MLocalsOK(c, "stopping", k) /\ "stopping" \in MirrorPhases
  BY <1>0, <1>9, MResume DEF Waiting, Commands, MirrorPhases
<1>12. /\ MCallersTyped' /\ mpc'[c] = "stopping"
       /\ \A d \in Callers \ {c} : mpc'[d] = mpc[d]
  BY <1>10, <1>11, MGoOnTyped DEF MirrorSound, MirrorTyped
<1>13. OwnThreads'
  BY <1>5, <1>12 DEF MirrorSound, MirrorTyped, OwnThreads
<1>14. MotionTyped'
  BY <1>0, MotionKept, MStateTyped
<1> QED BY <1>8, <1>12, <1>13, <1>14 DEF MirrorSound, MirrorTyped

LEMMA EndMirrorStopSound ==
  ASSUME MirrorSound, NEW c \in Callers, EndMirrorStop(c)
  PROVE  MirrorSound'
<1>1. /\ pc[c] \in Ended /\ MGoOn(c, "idle", NoMirrorLocals) /\ mState' = "Off"
      /\ pc' = [pc EXCEPT ![c] = "idle"] /\ UNCHANGED loc /\ SequenceUnchanged
  BY DEF EndMirrorStop, MReturn, SequenceUnchanged, Ended
<1>2. MLocalsOK(c, "idle", NoMirrorLocals) /\ "idle" \in MirrorPhases
  BY NoMirrorLocalsTyped DEF MLocalsOK, Waiting, Commands, MirrorPhases
<1> QED BY <1>1, <1>2, LeaveEdge, SequenceStep DEF MirrorSound

\* A step of a method of an edge, begun by an operator or going on.
LEMMA EdgeActSound ==
  ASSUME MirrorSound, NEW c \in Callers, EdgeCall(c) \/ EdgeRun(c)
  PROVE  MirrorSound'
<1>1. UNCHANGED mVars /\ Act(c)
  BY DEF EdgeCall, EdgeRun, Act
<1>2. Typed'
  BY <1>1, CallTyped, CallPanelMoveTyped, StopBeginTyped, StopPanelTyped,
     MatrixTyped, ReadingTyped, AlignTyped, SendPanelMoveTyped,
     EndPanelMoveTyped DEF Act, Run, MirrorSound
<1>3. MCallersTyped' /\ MotionTyped'
  BY <1>1 DEF MirrorSound, MirrorTyped, MCallersTyped, MotionTyped, mVars
<1>4. \A d \in Callers \ {c} : pc'[d] = pc[d]
  BY <1>1, OthersStay DEF MirrorSound
<1>5. mpc[c] = "idle" \/ pc[c] # "idle"
  <2>1. CASE EdgeCall(c)
    BY <2>1 DEF EdgeCall
  <2>2. CASE EdgeRun(c)
    BY <2>2, RunsOn DEF EdgeRun, Ended, MirrorSound
  <2> QED BY <2>1, <2>2
<1>6. OwnThreads'
  BY <1>1, <1>4, <1>5 DEF MirrorSound, MirrorTyped, OwnThreads, mVars
<1> QED BY <1>2, <1>3, <1>6 DEF MirrorSound, MirrorTyped

LEMMA PanelRunSound ==
  ASSUME MirrorSound, PanelRun
  PROVE  MirrorSound'
<1>1. Typed'
  BY ServersTyped DEF PanelRun, MirrorSound
<1>2. UNCHANGED mVars /\ UNCHANGED pc
  BY DEF PanelRun, Servers, Served
<1> QED
  BY <1>1, <1>2
  DEF MirrorSound, MirrorTyped, MCallersTyped, MotionTyped, OwnThreads, mVars

-----------------------------------------------------------------------------

\* The steps of the threads and panels.
LEMMA MirrorSteps ==
  ASSUME MirrorNext
  PROVE  \/ PanelRun
         \/ \E c \in Callers :
              \/ MirrorCall(c) \/ MirrorBegin(c) \/ MirrorRead(c)
              \/ MirrorCalculate(c) \/ MirrorSetFraction(c) \/ MirrorExecute(c)
              \/ SendMirrorPart(c) \/ AskPanel(c) \/ EndRound(c)
              \/ NextEdge(c) \/ CalculateEdge(c) \/ SetEdgeFraction(c)
              \/ ExecuteEdge(c) \/ EdgeAligned(c)
              \/ MirrorStop(c) \/ StopNextEdge(c) \/ EndMirrorStop(c)
              \/ EdgeCall(c) \/ EdgeRun(c)
BY DEF MirrorNext, MirrorRun

LEMMA AlwaysMirrorSound == MirrorSpec => []MirrorSound
<1>1. MirrorInit => MirrorSound
  <2> SUFFICES ASSUME MirrorInit PROVE MirrorSound
    OBVIOUS
  <2>1. Typed
    BY InitTyped DEF MirrorInit
  <2>2. /\ NotReviewed \in 0 .. NotReviewed /\ NoMirrorMotion \in MirrorMotions
        /\ 0 \in 0 .. Whole
    BY ClientAssumption DEF NotReviewed, MirrorMotions
  <2>3. MotionTyped
    <3> HIDE DEF NoMirrorMotion, MirrorMotions
    <3> QED BY <2>2 DEF MirrorInit, MotionTyped
  <2>4. \A c \in Callers : MLocalsOK(c, "idle", NoMirrorLocals)
    BY NoMirrorLocalsTyped DEF MLocalsOK, Waiting, Commands
  <2>5. MCallersTyped
    BY <2>4, NoMirrorLocalsTyped DEF MirrorInit, MCallersTyped, MirrorPhases
  <2>6. OwnThreads
    BY DEF MirrorInit, OwnThreads
  <2> QED BY <2>1, <2>3, <2>5, <2>6 DEF MirrorSound, MirrorTyped
<1>2. MirrorSound /\ [MirrorNext]_mirrorVars => MirrorSound'
  <2> SUFFICES ASSUME MirrorSound, [MirrorNext]_mirrorVars PROVE MirrorSound'
    OBVIOUS
  <2>1. CASE UNCHANGED mirrorVars
    <3>1. UNCHANGED vars /\ UNCHANGED mVars /\ UNCHANGED pc
      BY <2>1 DEF mirrorVars, vars
    <3>2. Typed'
      BY <3>1, EdgesUntouched DEF MirrorSound
    <3> QED
      BY <3>1, <3>2
      DEF MirrorSound, MirrorTyped, MCallersTyped, MotionTyped, OwnThreads, mVars
  <2>2. CASE PanelRun
    BY <2>2, PanelRunSound
  <2>3. ASSUME NEW c \in Callers,
               \/ MirrorCall(c) \/ MirrorBegin(c) \/ MirrorRead(c)
               \/ MirrorCalculate(c) \/ MirrorSetFraction(c) \/ MirrorExecute(c)
               \/ SendMirrorPart(c) \/ AskPanel(c) \/ EndRound(c)
               \/ NextEdge(c) \/ CalculateEdge(c) \/ SetEdgeFraction(c)
               \/ ExecuteEdge(c) \/ EdgeAligned(c)
               \/ MirrorStop(c) \/ StopNextEdge(c) \/ EndMirrorStop(c)
               \/ EdgeCall(c) \/ EdgeRun(c)
        PROVE  MirrorSound'
    BY <2>3, MirrorCallSound, MirrorBeginSound, MirrorReadSound,
       MirrorCalculateSound, MirrorSetFractionSound, MirrorExecuteSound,
       SendMirrorPartSound, AskPanelSound, EndRoundSound, SequenceSound,
       MirrorStopSound, StopNextEdgeSound, EndMirrorStopSound, EdgeActSound
  <2> QED BY <2>1, <2>2, <2>3, MirrorSteps
<1> QED BY <1>1, <1>2, PTL DEF MirrorSpec

\* The mirror, its edges and its panels are always within their types, whoever
\* calls what, and wherever a stop, a failed call or another thread comes in
\* between: the sequence never looks at an edge outside its sweep, and a motion
\* that is reviewed, executed or sent is one that can have been calculated, with
\* a fraction that is not more than the whole of it.
THEOREM MirrorTypeCorrect == MirrorSpec => []MirrorTypeOK
<1>1. MirrorSound => MirrorTypeOK
  <2> SUFFICES ASSUME MirrorSound PROVE MirrorTypeOK
    OBVIOUS
  <2>1. TypeOK
    BY DEF MirrorSound, Typed, CallersTyped, EdgesTyped, TypeOK
  <2>2. \A c \in Callers : mloc[c].at \in 0 .. Len(Sweep)
    BY MLocalsOf DEF MirrorLocals
  <2> QED
    BY <2>1, <2>2
    DEF MirrorSound, MirrorTyped, MCallersTyped, MotionTyped, MirrorTypeOK
<1> QED BY <1>1, AlwaysMirrorSound, PTL

-----------------------------------------------------------------------------
(* What the steps leave alone that have no part in a motion of the mirror *)

Moving == {"sending", "polling"}

Aside(c) ==
  \/ MirrorCall(c) \/ MirrorBegin(c) \/ MirrorRead(c)
  \/ NextEdge(c) \/ CalculateEdge(c) \/ SetEdgeFraction(c)
  \/ ExecuteEdge(c) \/ EdgeAligned(c)
  \/ MirrorStop(c) \/ StopNextEdge(c) \/ EndMirrorStop(c)

LEMMA MSteps ==
  ASSUME MirrorSound, [MirrorNext]_mirrorVars
  PROVE  \/ UNCHANGED mirrorVars \/ PanelRun
         \/ \E c \in Callers :
              \/ MirrorCalculate(c) \/ MirrorSetFraction(c) \/ MirrorExecute(c)
              \/ SendMirrorPart(c) \/ AskPanel(c) \/ EndRound(c)
              \/ Aside(c)
              \/ Act(c) /\ UNCHANGED mVars
BY MirrorSteps DEF Aside, Act, EdgeCall, EdgeRun

\* The thread of such a step is not in a motion, and no other thread moves.
LEMMA AsideKeeps ==
  ASSUME MirrorSound, NEW c \in Callers, Aside(c)
  PROVE  /\ UNCHANGED <<panelVars, calc, applied, mCalc, mMethod>>
         /\ mpc[c] \notin Moving /\ mpc'[c] \notin Moving
         /\ pc[c] \in Ended /\ pc'[c] # "sending"
         /\ \A d \in Callers \ {c} :
              /\ mpc'[d] = mpc[d] /\ mloc'[d] = mloc[d]
              /\ pc'[d] = pc[d] /\ loc'[d] = loc[d]
<1>0. /\ mpc \in [Callers -> MirrorPhases] /\ mloc \in [Callers -> MirrorLocals]
      /\ pc \in [Callers -> Phases] /\ loc \in [Callers -> Locals]
  BY DEF MirrorSound, MirrorTyped, MCallersTyped, Typed, CallersTyped
<1>1. UNCHANGED <<panelVars, calc, applied, mCalc, mMethod>>
  BY DEF Aside, MirrorCall, MirrorBegin, MirrorRead, NextEdge, CalculateEdge,
         SetEdgeFraction, ExecuteEdge, EdgeAligned, MirrorStop, StopNextEdge,
         EndMirrorStop, SequenceUnchanged, vars, edgeVars
<1>2. mpc[c] \notin Moving
  BY DEF Aside, MirrorCall, MirrorBegin, MirrorRead, NextEdge, CalculateEdge,
         SetEdgeFraction, ExecuteEdge, EdgeAligned, MirrorStop, StopNextEdge,
         EndMirrorStop, Moving
<1>3. pc[c] \in Ended
  <2>1. CASE mpc[c] \in Waiting \cup {"stopping"}
    BY <2>1
    DEF Aside, MirrorCall, MirrorBegin, MirrorRead, NextEdge, CalculateEdge,
        SetEdgeFraction, ExecuteEdge, EdgeAligned, MirrorStop, StopNextEdge,
        EndMirrorStop, Waiting, EdgeReturned, Ended
  <2>2. CASE mpc[c] = "idle"
    BY <2>2
    DEF Aside, MirrorCall, MirrorBegin, MirrorRead, NextEdge, CalculateEdge,
        SetEdgeFraction, ExecuteEdge, EdgeAligned, MirrorStop, StopNextEdge,
        EndMirrorStop, Ended
  <2>3. CASE mpc[c] \notin Waiting \cup {"idle", "stopping"}
    BY <2>3 DEF MirrorSound, MirrorTyped, OwnThreads, Ended
  <2> QED BY <2>1, <2>2, <2>3
<1>4. PICK phase, l : MGoOn(c, phase, l) /\ phase \notin Moving
  <2>1. CASE MirrorCall(c)
    BY <2>1 DEF MirrorCall, Moving
  <2>2. CASE MirrorBegin(c)
    <3>1. mloc[c].command \in Commands
      BY MLocalsOf DEF MirrorLocals
    <3>2. PICK phase \in Commands \cup {"nextEdge", "reading"} :
            MGoOn(c, phase, mloc[c])
      BY <2>2, <3>1 DEF MirrorBegin
    <3> QED BY <3>2 DEF Commands, Moving
  <2>3. CASE MirrorRead(c) \/ NextEdge(c)
    BY <2>3 DEF MirrorRead, NextEdge, MEndOn, MReturn, Moving
  <2>4. CASE CalculateEdge(c) \/ SetEdgeFraction(c)
    BY <2>4 DEF CalculateEdge, SetEdgeFraction, OuterLoop, Onward, CallEdge, Moving
  <2>5. CASE ExecuteEdge(c) \/ EdgeAligned(c)
    BY <2>5 DEF ExecuteEdge, EdgeAligned, OuterLoop, Onward, CallEdge, MEndOn,
                MReturn, Moving
  <2>6. CASE MirrorStop(c) \/ StopNextEdge(c) \/ EndMirrorStop(c)
    BY <2>6 DEF MirrorStop, StopNextEdge, EndMirrorStop, MReturn, Moving
  <2> QED BY <2>1, <2>2, <2>3, <2>4, <2>5, <2>6 DEF Aside
<1>5. \/ \E phase2, k : GoOn(c, phase2, k) /\ phase2 # "sending"
      \/ \E phase2 : pc' = [pc EXCEPT ![c] = phase2] /\ UNCHANGED loc
                       /\ phase2 # "sending"
      \/ UNCHANGED <<pc, loc>>
  <2>1. CASE MirrorCall(c) \/ MirrorBegin(c) \/ MirrorRead(c) \/ NextEdge(c)
    BY <2>1 DEF MirrorCall, MirrorBegin, MirrorRead, NextEdge, vars
  <2>2. CASE CalculateEdge(c) \/ SetEdgeFraction(c)
    BY <2>2 DEF CalculateEdge, SetEdgeFraction, OuterLoop, Onward, CallEdge
  <2>3. CASE ExecuteEdge(c) \/ EdgeAligned(c)
    BY <2>3 DEF ExecuteEdge, EdgeAligned, OuterLoop, Onward, CallEdge
  <2>4. CASE MirrorStop(c) \/ StopNextEdge(c) \/ EndMirrorStop(c)
    BY <2>4 DEF MirrorStop, StopNextEdge, StopEdge, EndMirrorStop, vars
  <2> QED BY <2>1, <2>2, <2>3, <2>4 DEF Aside
<1> HIDE DEF MirrorLocals
<1>6. /\ mpc'[c] \notin Moving
      /\ \A d \in Callers \ {c} : mpc'[d] = mpc[d] /\ mloc'[d] = mloc[d]
  BY <1>0, <1>4 DEF MGoOn
<1>7. /\ pc'[c] # "sending"
      /\ \A d \in Callers \ {c} : pc'[d] = pc[d] /\ loc'[d] = loc[d]
  BY <1>0, <1>3, <1>5 DEF GoOn, Ended
<1> QED BY <1>1, <1>2, <1>3, <1>6, <1>7

\* Another thread than that of a motion of the mirror.
LEMMA MotionKeepsOthers ==
  ASSUME MirrorSound, NEW c \in Callers,
         \/ MirrorCalculate(c) \/ MirrorSetFraction(c) \/ MirrorExecute(c)
         \/ SendMirrorPart(c) \/ AskPanel(c) \/ EndRound(c)
  PROVE  /\ UNCHANGED <<moving, calc, pc, loc>>
         /\ mloc[c].method \in MotionMethods /\ mpc[c] # "idle"
         /\ \A d \in Callers \ {c} : mpc'[d] = mpc[d] /\ mloc'[d] = mloc[d]
<1>0. mpc \in [Callers -> MirrorPhases] /\ mloc \in [Callers -> MirrorLocals]
  BY DEF MirrorSound, MirrorTyped, MCallersTyped
<1>1. UNCHANGED <<moving, calc, pc, loc>>
  BY DEF MirrorCalculate, MirrorSetFraction, MirrorExecute, SendMirrorPart,
         AskPanel, EndRound, RoundOver, vars, panelVars, edgeVars, edgeSide
<1>2. mpc[c] \in Commands \cup Moving
  BY DEF MirrorCalculate, MirrorSetFraction, MirrorExecute, SendMirrorPart,
         AskPanel, EndRound, RoundOver, Commands, Moving
<1>3. mloc[c].method \in MotionMethods /\ mpc[c] # "idle"
  BY <1>2, MLocalsOf DEF MLocalsOK, Commands, Moving
<1>4. \E phase, l : MGoOn(c, phase, l)
  <2>1. CASE MirrorCalculate(c) \/ MirrorSetFraction(c) \/ MirrorExecute(c)
    BY <2>1 DEF MirrorCalculate, MirrorSetFraction, MirrorExecute, MEndOn, MReturn
  <2>2. CASE SendMirrorPart(c) \/ AskPanel(c) \/ EndRound(c)
    BY <2>2 DEF SendMirrorPart, AskPanel, EndRound, RoundOver, StartRound, MEndOn,
                MReturn
  <2> QED BY <2>1, <2>2
<1> HIDE DEF MirrorLocals
<1> QED BY <1>0, <1>1, <1>3, <1>4 DEF MGoOn

-----------------------------------------------------------------------------
(* The motion that is executed is one of the method that executes it *)

\* What a calculation leaves behind: a motion of MoveDeltaCoords whenever that is
\* the method that is noted.
Noted ==
  mCalc # NoMirrorMotion /\ mMethod = "MoveDeltaCoords" =>
    mCalc.by = "MoveDeltaCoords"

ByMethod == Noted /\ ByItsMethod

\* A method that neither sends its motion nor keeps it from being sent.
LEMMA SendsByMethod ==
  ASSUME ByItsMethod, NEW c \in Callers,
         mpc'[c] = "sending" /\ mloc'[c].method = "MoveDeltaCoords" =>
           mloc'[c].x.by = "MoveDeltaCoords",
         \A d \in Callers \ {c} : mpc'[d] = mpc[d] /\ mloc'[d] = mloc[d]
  PROVE  ByItsMethod'
BY DEF ByItsMethod

LEMMA MethodReturns ==
  ASSUME MirrorSound, NEW c \in Callers, MReturn(c)
  PROVE  mpc'[c] = "idle"
BY MReturnTyped DEF MirrorSound, MirrorTyped

LEMMA MotionByMethod ==
  ASSUME MirrorSound, ByMethod, NEW c \in Callers,
         MirrorCalculate(c) \/ MirrorSetFraction(c)
  PROVE  ByMethod'
<1>1. mpc'[c] = "idle"
  BY MethodReturns DEF MirrorCalculate, MirrorSetFraction, MEndOn
<1>2. ByItsMethod'
  BY <1>1, MotionKeepsOthers, SendsByMethod DEF ByMethod
<1>3. CASE MirrorCalculate(c)
  BY <1>2, <1>3 DEF MirrorCalculate, ByMethod, Noted
<1>4. CASE MirrorSetFraction(c)
  <2>1. mMethod' = mMethod
    BY <1>4 DEF MirrorSetFraction
  <2>2. CASE mCalc = NoMirrorMotion
    BY <1>2, <1>4, <2>2 DEF MirrorSetFraction, ByMethod, Noted
  <2>3. CASE mCalc # NoMirrorMotion
    <3>1. mCalc \in [id : Calculations, scale : 0 .. Whole, moved : {Selected},
                     sized : BOOLEAN, by : MotionMethods]
      BY <2>3, CalculatedMotion DEF MirrorSound, MirrorTyped, MotionTyped
    <3>2. \/ mCalc' = mCalc
          \/ \E scale : mCalc' = [mCalc EXCEPT !.scale = scale]
      BY <1>4 DEF MirrorSetFraction
    <3>3. mCalc'.by = mCalc.by
      BY <3>1, <3>2
    <3> QED BY <1>2, <2>1, <2>3, <3>3 DEF ByMethod, Noted
  <2> QED BY <2>2, <2>3
<1> QED BY <1>2, <1>3, <1>4 DEF ByMethod

LEMMA ExecuteByMethod ==
  ASSUME MirrorSound, ByMethod, NEW c \in Callers,
         \/ MirrorExecute(c) \/ SendMirrorPart(c) \/ AskPanel(c) \/ EndRound(c)
  PROVE  ByMethod'
<1> DEFINE Sends(x) == mloc'[c].method = "MoveDeltaCoords" =>
                          x.by = "MoveDeltaCoords"
<1>0. mpc \in [Callers -> MirrorPhases] /\ mloc \in [Callers -> MirrorLocals]
  BY DEF MirrorSound, MirrorTyped, MCallersTyped
<1>1. Noted'
  BY DEF MirrorExecute, SendMirrorPart, AskPanel, EndRound, RoundOver, ResetTo,
         StartRound, ByMethod, Noted
<1>2. CASE mpc'[c] # "sending"
  BY <1>1, <1>2, MotionKeepsOthers, SendsByMethod DEF ByMethod
<1>3. CASE mpc'[c] = "sending" /\ MirrorExecute(c)
  <2> DEFINE l == [mloc[c] EXCEPT !.x = mCalc, !.todo = mCalc.moved]
  <2>1. MGoOn(c, "sending", l) /\ MayMove(c)
    BY <1>3, MethodReturns DEF MirrorExecute, MEndOn
  <2>2. l.method = mloc[c].method /\ l.x = mCalc
    BY <1>0 DEF MirrorLocals
  <2> HIDE DEF l, MirrorLocals
  <2>3. mloc'[c] = l
    BY <1>0, <2>1 DEF MGoOn
  <2>4. mloc'[c].method = "MoveDeltaCoords" => mloc'[c].x.by = "MoveDeltaCoords"
    BY <2>1, <2>2, <2>3 DEF MayMove, ByMethod, Noted
  <2> QED BY <1>1, <2>4, MotionKeepsOthers, SendsByMethod DEF ByMethod
<1>4. CASE mpc'[c] = "sending" /\ SendMirrorPart(c)
  <2>1. mpc[c] = "sending"
    BY <1>4 DEF SendMirrorPart
  <2>2. PICK p \in mloc[c].todo :
          MGoOn(c, "sending", [mloc[c] EXCEPT !.todo = @ \ {p}])
    <3>1. ~MReturn(c)
      BY <1>4, MethodReturns
    <3>2. ~MGoOn(c, "polling", [mloc[c] EXCEPT !.todo = mloc[c].x.moved,
                                               !.hit = FALSE])
      BY <1>0, <1>4 DEF MGoOn
    <3> QED BY <1>4, <3>1, <3>2 DEF SendMirrorPart, StartRound, MEndOn
  <2>3. mloc'[c].method = mloc[c].method /\ mloc'[c].x = mloc[c].x
    BY <1>0, <2>2 DEF MGoOn, MirrorLocals
  <2>4. mloc'[c].method = "MoveDeltaCoords" => mloc'[c].x.by = "MoveDeltaCoords"
    BY <2>1, <2>3 DEF ByMethod, ByItsMethod
  <2> QED BY <1>1, <2>4, MotionKeepsOthers, SendsByMethod DEF ByMethod
<1>5. CASE mpc'[c] = "sending" /\ (AskPanel(c) \/ EndRound(c))
  <2>1. \E l : MGoOn(c, "polling", l) \/ MGoOn(c, "idle", l)
    BY <1>5 DEF AskPanel, EndRound, RoundOver, StartRound, MEndOn, MReturn
  <2> QED BY <1>0, <1>5, <2>1 DEF MGoOn
<1> QED BY <1>2, <1>3, <1>4, <1>5

LEMMA StepByMethod ==
  ASSUME MirrorSound, ByMethod, [MirrorNext]_mirrorVars
  PROVE  ByMethod'
<1>1. CASE UNCHANGED mVars
  BY <1>1 DEF ByMethod, Noted, ByItsMethod, mVars
<1>2. CASE UNCHANGED mirrorVars \/ PanelRun
  BY <1>1, <1>2 DEF mirrorVars, PanelRun
<1>3. ASSUME NEW c \in Callers, Aside(c)
      PROVE  ByMethod'
  <2>1. ByItsMethod'
    BY <1>3, AsideKeeps, SendsByMethod DEF ByMethod, Moving
  <2> QED BY <1>3, <2>1, AsideKeeps DEF ByMethod, Noted
<1> QED BY <1>1, <1>2, <1>3, MSteps, MotionByMethod, ExecuteByMethod

\* MoveDeltaCoords executes the motion that it has calculated itself, with any
\* number of threads in any methods of the mirror, for any panels and edges: the
\* method that is noted is set in the same step as the motion, the noted method
\* is compared when the execution takes the motion, and the motion is taken as a
\* copy, which nothing that another thread calculates later can change.
THEOREM ExecutesItsOwnMotion == MirrorSpec => []ByItsMethod
<1>1. MirrorInit => ByMethod
  BY DEF MirrorInit, ByMethod, Noted, ByItsMethod
<1>2. MirrorSound /\ ByMethod /\ [MirrorNext]_mirrorVars => ByMethod'
  BY StepByMethod
<1>3. ByMethod => ByItsMethod
  BY DEF ByMethod
<1> QED BY <1>1, <1>2, <1>3, AlwaysMirrorSound, PTL DEF MirrorSpec

-----------------------------------------------------------------------------
(* A motion of the mirror is waited for *)

\* Nobody else moves the selected panels.
AloneMoves(op) ==
  \A c \in Callers \ {op} : MirrorMethodsOf[c] \cap MotionMethods = {}

LEMMA OpMoves ==
  ASSUME MirrorSound, NEW op \in Callers, AloneMoves(op), NEW c \in Callers,
         mpc[c] # "idle", mloc[c].method \in MotionMethods
  PROVE  c = op
<1>1. mloc[c].method \in MirrorMethodsOf[c]
  BY MLocalsOf DEF MLocalsOK
<1> QED BY <1>1 DEF AloneMoves

\* The parts of motions of the mirror that are on their way to a panel, and the
\* one that it makes.
MirrorParts(p) ==
  {m \in (sent[p] \cup {moving[p]}) \cap FitMotions : m.of = Mirror}

LEMMA RestIsNoPart == Rest \notin FitMotions
<1>1. Rest.kind = "rest" /\ \A m \in FitMotions : m.kind = "fit"
  BY DEF Rest, FitMotions
<1> QED BY <1>1

\* They begin and end, or are refused; edges send other motions.
LEMMA PartsDwindle ==
  ASSUME MirrorSound, [MirrorNext]_mirrorVars, NEW p \in Panels,
         \A c \in Callers : ~SendMirrorPart(c)
  PROVE  MirrorParts(p)' \subseteq MirrorParts(p)
<1>0. /\ sent \in [Panels -> SUBSET Motions]
      /\ moving \in [Panels -> Motions \cup {Rest}]
  BY DEF MirrorSound, Typed, PanelTypeOK
<1>1. CASE UNCHANGED <<sent, moving>>
  BY <1>1 DEF MirrorParts
<1>2. CASE UNCHANGED mirrorVars
  BY <1>1, <1>2 DEF mirrorVars, vars, panelVars
<1>3. CASE PanelRun
  <2>1. PICK q \in Panels : PanelStep(q)
    BY <1>3 DEF PanelRun, Servers, Served
  <2>2. CASE p # q
    <3>1. sent'[p] = sent[p] /\ moving'[p] = moving[p]
      BY <1>0, <2>1, <2>2 DEF PanelStep, Begin, Refuse, Finish, Stop
    <3> QED BY <3>1 DEF MirrorParts
  <2>3. CASE p = q
    <3>1. /\ sent'[p] \subseteq sent[p]
          /\ moving'[p] \in sent[p] \cup {moving[p], Rest}
      BY <1>0, <2>1, <2>3 DEF PanelStep, Begin, Refuse, Finish, Stop
    <3> HIDE DEF Rest, FitMotions
    <3> QED BY <3>1, RestIsNoPart DEF MirrorParts
  <2> QED BY <2>2, <2>3
<1>4. ASSUME NEW c \in Callers, Aside(c)
      PROVE  UNCHANGED <<sent, moving>>
  BY <1>4, AsideKeeps DEF panelVars
<1>5. ASSUME NEW c \in Callers,
             \/ MirrorCalculate(c) \/ MirrorSetFraction(c) \/ MirrorExecute(c)
             \/ AskPanel(c) \/ EndRound(c)
      PROVE  UNCHANGED <<sent, moving>>
  BY <1>5 DEF MirrorCalculate, MirrorSetFraction, MirrorExecute, AskPanel,
              EndRound, RoundOver, vars, panelVars
<1>6. ASSUME NEW c \in Callers, Act(c)
      PROVE  MirrorParts(p)' \subseteq MirrorParts(p)
  <2>1. ASSUME NEW m \in FitMotions, m \in sent'[p], m.of = Mirror
        PROVE  m \in sent[p]
    <3>1. CASE m \in sent'[p] \ sent[p]
      <4>1. m.of = E(c) /\ E(c) \in Edges
        BY <1>6, <3>1, OnlyExecuteSendsParts, LocalsOf DEF MirrorSound
      <4> QED BY <2>1, <4>1, ClientAssumption
    <3> QED BY <2>1, <3>1
  <2>2. moving' = moving
    BY <1>6, ActKeepsMoving
  <2> HIDE DEF FitMotions
  <2> QED BY <2>1, <2>2 DEF MirrorParts
<1> QED BY <1>1, <1>2, <1>3, <1>4, <1>5, <1>6, MSteps

\* In a round in which no panel has been busy yet, none of those that have been
\* asked has a part of a motion; nor ever has one that is not moved.
Followed(op) ==
  /\ \A p \in Panels \ Selected : MirrorParts(p) = {}
  /\ mpc[op] = "polling" /\ ~mloc[op].hit =>
       \A p \in Panels \ mloc[op].todo : MirrorParts(p) = {}

\* A round begins with all the panels that are moved.
LEMMA RoundFollowed ==
  ASSUME MirrorSound, NEW c \in Callers, mpc[c] \in Moving,
         StartRound(c, mloc[c]),
         \A p \in Panels \ Selected : MirrorParts(p)' = {}
  PROVE  Followed(c)'
<1>1. mloc[c].x.moved = Selected
  BY MLocalsOf, CalculatedMotion DEF MLocalsOK, Moving, MirrorLocals
<1> DEFINE l == [mloc[c] EXCEPT !.todo = mloc[c].x.moved, !.hit = FALSE]
<1>2. MGoOn(c, "polling", l) /\ l.todo = Selected
  BY <1>1, StartRoundTyped DEF Moving
<1> HIDE DEF l
<1>3. mloc'[c].todo = Selected
  BY <1>2 DEF MGoOn, MirrorSound, MirrorTyped, MCallersTyped
<1> QED BY <1>3 DEF Followed

LEMMA SendFollowed ==
  ASSUME MirrorSound, NEW c \in Callers, Followed(c), SendMirrorPart(c)
  PROVE  Followed(c)'
<1>0. /\ mpc[c] = "sending" /\ UNCHANGED moving
      /\ sent \in [Panels -> SUBSET Motions]
      /\ mpc \in [Callers -> MirrorPhases]
  BY DEF SendMirrorPart, MirrorSound, MirrorTyped, MCallersTyped, Typed,
         PanelTypeOK
<1>1. mloc[c].todo \subseteq Selected
  BY <1>0, MLocalsOf, CalculatedMotion DEF MLocalsOK, MirrorLocals
<1>2. \A p \in Panels \ Selected : sent'[p] = sent[p]
  BY <1>0, <1>1 DEF SendMirrorPart, Sent
<1>3. \A p \in Panels \ Selected : MirrorParts(p)' = {}
  BY <1>0, <1>2 DEF Followed, MirrorParts
<1>4. CASE StartRound(c, mloc[c])
  BY <1>0, <1>3, <1>4, RoundFollowed DEF Moving
<1>5. CASE ~StartRound(c, mloc[c])
  <2>1. mpc'[c] # "polling"
    BY <1>0, <1>5 DEF SendMirrorPart, MEndOn, MReturn, MGoOn
  <2> QED BY <1>3, <2>1 DEF Followed
<1> QED BY <1>4, <1>5

\* A panel that is asked when nothing is on its way to it, and rests, has no part.
LEMMA AskFollowed ==
  ASSUME MirrorSound, Delay = "short", NEW c \in Callers, Followed(c), AskPanel(c)
  PROVE  Followed(c)'
<1>1. PICK p \in mloc[c].todo :
        /\ sent[p] = {}
        /\ MGoOn(c, "polling", [mloc[c] EXCEPT !.todo = @ \ {p},
                                               !.hit = @ \/ Busy(p)])
  BY DEF AskPanel
<1>2. mpc[c] = "polling" /\ UNCHANGED <<sent, moving>>
  BY DEF AskPanel, vars, panelVars
<1> DEFINE l == [mloc[c] EXCEPT !.todo = mloc[c].todo \ {p},
                                !.hit = mloc[c].hit \/ Busy(p)]
<1>3. l.todo = mloc[c].todo \ {p} /\ l.hit = (mloc[c].hit \/ Busy(p))
  BY MLocalsOf DEF MirrorLocals
<1>4. mloc'[c] = l
  BY <1>1 DEF MGoOn, MirrorSound, MirrorTyped, MCallersTyped
<1> HIDE DEF l
<1>5. \A q \in Panels : MirrorParts(q)' = MirrorParts(q)
  BY <1>2 DEF MirrorParts
<1>6. ~Busy(p) => MirrorParts(p) = {}
  <2> HIDE DEF Rest, FitMotions
  <2> QED BY <1>1, RestIsNoPart DEF Busy, MirrorParts
<1>7. ASSUME ~mloc'[c].hit, NEW q \in Panels \ mloc'[c].todo
      PROVE  MirrorParts(q) = {}
  <2>1. ~mloc[c].hit /\ ~Busy(p)
    BY <1>3, <1>4, <1>7
  <2>2. q = p \/ q \in Panels \ mloc[c].todo
    BY <1>3, <1>4, <1>7
  <2> QED BY <1>2, <1>6, <2>1, <2>2 DEF Followed
<1> QED BY <1>5, <1>7 DEF Followed

LEMMA StepFollowed ==
  ASSUME MirrorSound, Delay = "short", NEW op \in Callers, AloneMoves(op),
         Followed(op), [MirrorNext]_mirrorVars
  PROVE  Followed(op)'
<1>1. CASE \E c \in Callers : SendMirrorPart(c)
  BY <1>1, SendFollowed, MotionKeepsOthers, OpMoves
<1>2. CASE \A c \in Callers : ~SendMirrorPart(c)
  <2>1. \A p \in Panels : MirrorParts(p)' \subseteq MirrorParts(p)
    BY <1>2, PartsDwindle
  <2>2. \A p \in Panels \ Selected : MirrorParts(p)' = {}
    BY <2>1 DEF Followed
  <2>3. CASE mpc'[op] # "polling"
    BY <2>2, <2>3 DEF Followed
  <2>4. CASE mpc'[op] = mpc[op] /\ mloc'[op] = mloc[op]
    BY <2>1, <2>2, <2>4 DEF Followed
  <2>5. CASE UNCHANGED mirrorVars \/ PanelRun
    BY <2>4, <2>5 DEF mirrorVars, mVars, PanelRun
  <2>6. ASSUME NEW c \in Callers, Act(c) /\ UNCHANGED mVars
        PROVE  Followed(op)'
    BY <2>4, <2>6 DEF mVars
  <2>7. ASSUME NEW c \in Callers, Aside(c)
        PROVE  Followed(op)'
    BY <2>3, <2>4, <2>7, AsideKeeps DEF Moving
  <2>8. ASSUME NEW c \in Callers,
               \/ MirrorCalculate(c) \/ MirrorSetFraction(c) \/ MirrorExecute(c)
               \/ AskPanel(c) \/ EndRound(c)
        PROVE  Followed(op)'
    <3>1. c = op
      BY <2>8, MotionKeepsOthers, OpMoves
    <3>2. CASE AskPanel(op)
      BY <3>2, AskFollowed
    <3>3. CASE EndRound(op)
      <4>1. CASE StartRound(op, mloc[op])
        BY <2>2, <3>3, <4>1, RoundFollowed DEF EndRound, RoundOver, Moving
      <4>2. CASE ~StartRound(op, mloc[op])
        BY <2>3, <3>3, <4>2, MethodReturns DEF EndRound, RoundOver, MEndOn
      <4> QED BY <4>1, <4>2
    <3>4. CASE MirrorCalculate(op) \/ MirrorSetFraction(op)
      BY <2>3, <3>4, MethodReturns DEF MirrorCalculate, MirrorSetFraction, MEndOn
    <3>5. CASE MirrorExecute(op)
      <4>1. \E l : MGoOn(op, "sending", l) \/ MGoOn(op, "idle", l)
        BY <3>5 DEF MirrorExecute, MEndOn, MReturn
      <4>2. mpc'[op] # "polling"
        BY <4>1 DEF MGoOn, MirrorSound, MirrorTyped, MCallersTyped
      <4> QED BY <2>3, <4>2
    <3> QED BY <2>8, <3>1, <3>2, <3>3, <3>4, <3>5
  <2> QED BY <1>2, <2>5, <2>6, <2>7, <2>8, MSteps
<1> QED BY <1>1, <1>2

\* When one thread moves the selected panels, and a call arrives before the panel
\* is asked for the first time, then "Done! All motions completed" is true: when
\* the method says so and resets the motion, no part of it is on its way to any
\* panel or being made, for any panels, edges and callers, whatever the panels
\* refuse, and whatever is stopped and the edges move in between.
THEOREM MotionsAreCompleted ==
  ASSUME Delay = "short", NEW op \in Callers, AloneMoves(op)
  PROVE  MirrorSpec => MotionsComplete
<1> DEFINE Complete ==
      \A c \in Callers :
        mpc[c] = "polling" /\ mpc'[c] = "idle" =>
          \A p \in Panels : \A m \in sent[p] \cup {moving[p]} :
            m \in FitMotions => m.of # Mirror \/ m.id # mloc[c].x.id
<1>1. MirrorInit => Followed(op)
  <2> SUFFICES ASSUME MirrorInit PROVE Followed(op)
    OBVIOUS
  <2>1. sent = [p \in Panels |-> {}] /\ moving = [p \in Panels |-> Rest]
    BY DEF MirrorInit, EdgeInit, PanelInit
  <2>2. \A p \in Panels : MirrorParts(p) = {}
    <3> HIDE DEF Rest, FitMotions
    <3> QED BY <2>1, RestIsNoPart DEF MirrorParts
  <2> QED BY <2>2 DEF Followed
<1>2. MirrorSound /\ Followed(op) /\ [MirrorNext]_mirrorVars => Followed(op)'
  BY StepFollowed
<1>3. MirrorSound /\ Followed(op) /\ [MirrorNext]_mirrorVars => [Complete]_mirrorVars
  <2> SUFFICES ASSUME MirrorSound, Followed(op), [MirrorNext]_mirrorVars,
                      NEW c \in Callers, mpc[c] = "polling", mpc'[c] = "idle"
               PROVE  \A p \in Panels : MirrorParts(p) = {}
    BY DEF MirrorParts
  <2>1. \E d \in Callers :
          \/ MirrorCalculate(d) \/ MirrorSetFraction(d) \/ MirrorExecute(d)
          \/ SendMirrorPart(d) \/ AskPanel(d) \/ EndRound(d)
    BY MSteps, AsideKeeps DEF mirrorVars, mVars, PanelRun, Moving
  <2>2. \/ MirrorCalculate(c) \/ MirrorSetFraction(c) \/ MirrorExecute(c)
        \/ SendMirrorPart(c) \/ AskPanel(c) \/ EndRound(c)
    BY <2>1, MotionKeepsOthers
  <2>3. c = op
    BY <2>2, MotionKeepsOthers, OpMoves
  <2>4. AskPanel(c) \/ EndRound(c)
    BY <2>2 DEF MirrorCalculate, MirrorSetFraction, MirrorExecute, SendMirrorPart
  <2>5. mloc[c].todo = {} /\ ~mloc[c].hit
    BY <2>4 DEF AskPanel, EndRound, RoundOver, StartRound, MGoOn, MirrorSound,
                MirrorTyped, MCallersTyped
  <2> QED BY <2>3, <2>5 DEF Followed
<1> QED BY <1>1, <1>2, <1>3, AlwaysMirrorSound, PTL DEF MirrorSpec, MotionsComplete

-----------------------------------------------------------------------------
(* Nothing that was calculated is sent twice *)

\* Nobody else moves the selected panels, or moves panels by an edge, whether by
\* calling it or through the sequence of the mirror.
AloneAligns(op) ==
  /\ Alone(op, {"Calculate", "Execute"})
  /\ \A c \in Callers \ {op} :
       MirrorMethodsOf[c] \cap (MotionMethods \cup {"AlignSequential"}) = {}

\* The sequence is the only method of the mirror that calls a method of an edge
\* other than its stop.
LEMMA AsideCalls ==
  ASSUME MirrorSound, NEW c \in Callers, Aside(c), pc'[c] \notin Ended
  PROVE  \/ mloc[c].method = "AlignSequential" /\ mpc[c] # "idle"
         \/ loc'[c].method = "Stop"
<1>0. pc[c] \in Ended /\ Typed
  BY AsideKeeps DEF MirrorSound
<1>1. CASE MirrorCall(c) \/ MirrorBegin(c) \/ MirrorRead(c) \/ MirrorStop(c)
  BY <1>0, <1>1 DEF MirrorCall, MirrorBegin, MirrorRead, MirrorStop, vars
<1>2. CASE \/ NextEdge(c) \/ CalculateEdge(c) \/ SetEdgeFraction(c)
           \/ ExecuteEdge(c) \/ EdgeAligned(c)
  <2>1. mpc[c] \in Waiting \cup {"align", "nextEdge"}
    BY <1>2 DEF NextEdge, CalculateEdge, SetEdgeFraction, ExecuteEdge,
                EdgeAligned, Waiting
  <2> QED BY <2>1, MLocalsOf DEF MLocalsOK, Waiting
<1>3. CASE StopNextEdge(c)
  <2>1. PICK e : StopEdge(c, e, [NoLocals EXCEPT !.for = "mirror"])
    BY <1>3 DEF StopNextEdge
  <2> DEFINE l == [[NoLocals EXCEPT !.for = "mirror"]
                     EXCEPT !.method = "Stop", !.edge = e, !.todo = PanelsOf[e]]
  <2>2. l.method = "Stop" /\ GoOn(c, "stopping", l)
    BY <2>1 DEF NoLocals, StopEdge
  <2> HIDE DEF l
  <2> QED BY <1>0, <2>2, Arrives
<1>4. CASE EndMirrorStop(c)
  BY <1>0, <1>4 DEF EndMirrorStop, Typed, CallersTyped, Ended
<1> QED BY <1>1, <1>2, <1>3, <1>4 DEF Aside

\* A method of an edge that an operator begins is one that they may call; one that
\* goes on is the method that it was.
LEMMA ActMethod ==
  ASSUME Typed, NEW c \in Callers, Act(c), pc'[c] \notin Ended
  PROVE  \/ loc'[c].method \in MethodsOf[c] \cup {"Stop", "PanelMove"}
         \/ pc[c] \notin Ended /\ loc'[c].method = loc[c].method
<1>1. CASE Call(c)
  <2>1. PICK m, e : m \in MethodsOf[c] /\ \E a :
          GoOn(c, "admitted", [NoLocals EXCEPT !.method = m, !.edge = e,
                 !.moved = a.moved, !.fraction = a.fraction])
    BY <1>1 DEF Call
  <2>2. PICK a :
          GoOn(c, "admitted", [NoLocals EXCEPT !.method = m, !.edge = e,
                 !.moved = a.moved, !.fraction = a.fraction])
    BY <2>1
  <2> DEFINE l == [NoLocals EXCEPT !.method = m, !.edge = e,
                     !.moved = a.moved, !.fraction = a.fraction]
  <2>3. l.method = m
    BY DEF NoLocals
  <2>4. GoOn(c, "admitted", l)
    BY <2>2
  <2> HIDE DEF l
  <2> QED BY <2>1, <2>3, <2>4, Arrives
<1>2. CASE CallPanelMove(c)
  <2>1. PICK p : GoOn(c, "check", [NoLocals EXCEPT !.method = "PanelMove",
                          !.panel = p, !.reads = EdgesOf(p)])
    BY <1>2 DEF CallPanelMove
  <2> DEFINE l == [NoLocals EXCEPT !.method = "PanelMove", !.panel = p,
                                   !.reads = EdgesOf(p)]
  <2>2. l.method = "PanelMove"
    BY DEF NoLocals
  <2>3. GoOn(c, "check", l)
    BY <2>1
  <2> HIDE DEF l
  <2> QED BY <2>2, <2>3, Arrives
<1>3. CASE StopBegin(c)
  <2>1. PICK e : StopEdge(c, e, NoLocals)
    BY <1>3 DEF StopBegin
  <2> DEFINE l == [NoLocals EXCEPT !.method = "Stop", !.edge = e,
                                   !.todo = PanelsOf[e]]
  <2>2. l.method = "Stop" /\ GoOn(c, "stopping", l)
    BY <2>1 DEF NoLocals, StopEdge
  <2> HIDE DEF l
  <2> QED BY <2>2, Arrives
<1>4. CASE Run(c)
  <2>1. CASE \E status \in {"good", "bad"} : Return(c, status)
    BY <2>1, ReturnTyped
  <2>2. CASE \E phase, l : GoOn(c, phase, l) /\ l.method = loc[c].method
    BY <1>4, <2>2, Arrives, RunsOn
  <2> QED BY <1>4, <2>1, <2>2, RunsOn
<1> QED BY <1>1, <1>2, <1>3, <1>4 DEF Act

Moves == {"Calculate", "Execute"}

\* The other threads move no panels by an edge, whoever calls them.
LEMMA StepNoOther ==
  ASSUME MirrorSound, NEW op \in Callers, AloneAligns(op), NoOther(op, Moves),
         [MirrorNext]_mirrorVars
  PROVE  NoOther(op, Moves)'
<1>1. CASE UNCHANGED <<pc, loc>>
  BY <1>1 DEF NoOther
<1>2. CASE UNCHANGED mirrorVars \/ PanelRun
  BY <1>1, <1>2 DEF mirrorVars, vars, PanelRun, Servers, Served, edgeVars
<1>3. ASSUME NEW c \in Callers,
             pc'[c] \notin Ended /\ c # op => loc'[c].method \notin Moves,
             \A d \in Callers \ {c} : pc'[d] = pc[d] /\ loc'[d] = loc[d]
      PROVE  NoOther(op, Moves)'
  BY <1>3 DEF NoOther
<1>4. ASSUME NEW c \in Callers, Aside(c)
      PROVE  NoOther(op, Moves)'
  <2>1. ASSUME pc'[c] \notin Ended, c # op
        PROVE  loc'[c].method = "Stop"
    <3>1. mpc[c] # "idle" => mloc[c].method # "AlignSequential"
      BY <2>1, MLocalsOf DEF MLocalsOK, AloneAligns
    <3> QED BY <1>4, <2>1, <3>1, AsideCalls
  <2> QED BY <1>3, <1>4, <2>1, AsideKeeps DEF Moves
<1>5. ASSUME NEW c \in Callers, Act(c)
      PROVE  NoOther(op, Moves)'
  <2>1. ASSUME pc'[c] \notin Ended, c # op
        PROVE  loc'[c].method \notin Moves
    <3>1. MethodsOf[c] \cap Moves = {}
      BY <2>1 DEF AloneAligns, Alone, Moves
    <3>2. pc[c] \notin Ended => loc[c].method \notin Moves
      BY <2>1 DEF NoOther
    <3> QED BY <1>5, <2>1, <3>1, <3>2, ActMethod DEF MirrorSound, Moves
  <2> QED BY <1>3, <1>5, <2>1, OthersStay DEF MirrorSound
<1> QED BY <1>1, <1>2, <1>4, <1>5, MSteps, MotionKeepsOthers

\* The mirror notes only what it sends itself, and so do the edges.
LEMMA MotionApplied ==
  ASSUME NEW c \in Callers, NEW p, NEW e \in Edges, NEW n,
         \/ MirrorCalculate(c) \/ MirrorSetFraction(c) \/ MirrorExecute(c)
         \/ SendMirrorPart(c) \/ AskPanel(c) \/ EndRound(c),
         <<p, e, n>> \in applied'
  PROVE  <<p, e, n>> \in applied
<1>1. CASE MirrorCalculate(c)
  BY <1>1 DEF MirrorCalculate, Forget
<1>2. CASE SendMirrorPart(c)
  BY <1>2, ClientAssumption DEF SendMirrorPart, Forget
<1>3. CASE \/ MirrorSetFraction(c) \/ MirrorExecute(c) \/ AskPanel(c)
           \/ EndRound(c)
  BY <1>3 DEF MirrorSetFraction, MirrorExecute, AskPanel, EndRound, RoundOver,
              vars, edgeVars
<1> QED BY <1>1, <1>2, <1>3

LEMMA EdgeApplied ==
  ASSUME Typed, NEW c \in Callers, Act(c), NEW p, NEW n,
         <<p, Mirror, n>> \in applied'
  PROVE  <<p, Mirror, n>> \in applied
<1>1. CASE Calculate(c)
  BY <1>1 DEF Calculate, Forget
<1>2. CASE SendPart(c)
  <2>1. E(c) # Mirror
    BY LocalsOf, ClientAssumption
  <2>2. PICK q \in loc[c].todo : \/ applied' = applied \cup {<<q, E(c), loc[c].x.id>>}
                                 \/ Forget(E(c), loc[c].x.id)
    BY <1>2, SendsPart
  <2> HIDE DEF E
  <2> QED BY <2>1, <2>2 DEF Forget
<1>3. CASE EndExecute(c)
  BY <1>3 DEF EndExecute
<1>4. CASE ~Calculate(c) /\ ~SendPart(c) /\ ~EndExecute(c)
  BY <1>4, OthersKeepMotions
<1> QED BY <1>1, <1>2, <1>3, <1>4

LEMMA StepUnsent ==
  ASSUME MirrorSound, NEW op \in Callers, NoOther(op, Moves), Unsent(op),
         [MirrorNext]_mirrorVars
  PROVE  Unsent(op)'
<1>1. CASE UNCHANGED mirrorVars \/ PanelRun
  BY <1>1 DEF mirrorVars, vars, PanelRun, Servers, Served, edgeVars, Unsent, E
<1>2. ASSUME NEW c \in Callers, Act(c)
      PROVE  Unsent(op)'
  BY <1>2, ActUnsent DEF MirrorSound, Moves
<1>3. ASSUME NEW c \in Callers, Aside(c)
      PROVE  Unsent(op)'
  <2>1. UNCHANGED <<calc, applied>>
    BY <1>3, AsideKeeps
  <2>2. CASE c = op
    <3>1. pc[op] # "sending" /\ pc'[op] # "sending"
      BY <1>3, <2>2, AsideKeeps DEF Ended
    <3> QED BY <2>1, <3>1 DEF Unsent
  <2>3. CASE c # op
    <3>1. pc'[op] = pc[op] /\ loc'[op] = loc[op]
      BY <1>3, <2>3, AsideKeeps
    <3> QED BY <2>1, <3>1 DEF Unsent, E
  <2> QED BY <2>2, <2>3
<1>4. ASSUME NEW c \in Callers,
             \/ MirrorCalculate(c) \/ MirrorSetFraction(c) \/ MirrorExecute(c)
             \/ SendMirrorPart(c) \/ AskPanel(c) \/ EndRound(c)
      PROVE  Unsent(op)'
  <2>1. UNCHANGED <<calc, pc, loc>>
    BY <1>4, MotionKeepsOthers
  <2>2. \A e \in Edges, p \in Panels : \A n :
          <<p, e, n>> \in applied' => <<p, e, n>> \in applied
    BY <1>4, MotionApplied
  <2> QED BY <2>1, <2>2 DEF Unsent, E
<1> QED BY <1>1, <1>2, <1>3, <1>4, MSteps

\* What the mirror sends is what is calculated, and none of it has been sent, but
\* for the panels that a method has sent theirs.
MirrorUnsent(op) ==
  /\ mpc[op] \in Moving => mloc[op].x = mCalc
  /\ mCalc # NoMirrorMotion /\ mpc[op] # "polling" =>
       \A p \in Panels :
         (mpc[op] = "sending" => p \in mloc[op].todo) =>
           <<p, Mirror, mCalc.id>> \notin applied

\* A motion that is calculated has a number that is forgotten first; reviewing it
\* leaves its number.
LEMMA CalculateUnsent ==
  ASSUME MirrorSound, NEW op \in Callers, MirrorUnsent(op),
         MirrorCalculate(op) \/ MirrorSetFraction(op)
  PROVE  MirrorUnsent(op)'
<1>1. mpc'[op] = "idle" /\ mpc[op] \notin Moving
  BY MethodReturns DEF MirrorCalculate, MirrorSetFraction, MEndOn, Moving
<1>2. CASE mCalc' = NoMirrorMotion
  BY <1>1, <1>2 DEF MirrorUnsent, Moving
<1>3. CASE mCalc' # NoMirrorMotion /\ mCalc'.id = mCalc.id /\ UNCHANGED applied
             /\ mCalc # NoMirrorMotion
  BY <1>1, <1>3 DEF MirrorUnsent, Moving
<1>4. CASE MirrorCalculate(op)
  <2>1. CASE Forget(Mirror, mCalc'.id)
    BY <1>1, <2>1 DEF MirrorUnsent, Moving, Forget
  <2>2. CASE UNCHANGED <<mCalc, applied>>
    BY <1>1, <2>2 DEF MirrorUnsent, Moving
  <2> QED BY <1>2, <1>4, <2>1, <2>2 DEF MirrorCalculate
<1>5. CASE MirrorSetFraction(op)
  <2>1. UNCHANGED applied
    BY <1>5 DEF MirrorSetFraction, vars, edgeVars
  <2>2. CASE mCalc' = mCalc
    BY <1>1, <2>1, <2>2 DEF MirrorUnsent, Moving
  <2>3. CASE mCalc' # mCalc
    <3>1. mCalc # NoMirrorMotion /\ \E scale : mCalc' = [mCalc EXCEPT !.scale = scale]
      BY <1>5, <2>3 DEF MirrorSetFraction
    <3>2. mCalc \in [id : Calculations, scale : 0 .. Whole, moved : {Selected},
                     sized : BOOLEAN, by : MotionMethods]
      BY <3>1, CalculatedMotion DEF MirrorSound, MirrorTyped, MotionTyped
    <3>3. mCalc'.id = mCalc.id
      BY <3>1, <3>2
    <3> QED BY <1>2, <1>3, <2>1, <3>1, <3>3
  <2> QED BY <2>2, <2>3
<1> QED BY <1>4, <1>5

LEMMA ExecuteUnsent ==
  ASSUME MirrorSound, NEW op \in Callers, MirrorUnsent(op), MirrorExecute(op)
  PROVE  MirrorUnsent(op)'
<1>0. /\ mpc[op] = "execute" /\ UNCHANGED <<mCalc, applied>>
      /\ mpc \in [Callers -> MirrorPhases] /\ mloc \in [Callers -> MirrorLocals]
  BY DEF MirrorExecute, vars, edgeVars, MirrorSound, MirrorTyped, MCallersTyped
<1>1. mCalc # NoMirrorMotion =>
        \A p \in Panels : <<p, Mirror, mCalc.id>> \notin applied
  BY <1>0 DEF MirrorUnsent
<1>2. CASE MReturn(op)
  BY <1>0, <1>1, <1>2, MethodReturns DEF MirrorUnsent, Moving
<1>3. CASE ~MReturn(op)
  <2> DEFINE l == [mloc[op] EXCEPT !.x = mCalc, !.todo = mCalc.moved]
  <2>1. MGoOn(op, "sending", l)
    BY <1>3 DEF MirrorExecute, MEndOn
  <2>2. l.x = mCalc
    BY <1>0 DEF MirrorLocals
  <2> HIDE DEF l, MirrorLocals
  <2>3. mloc'[op] = l
    BY <1>0, <2>1 DEF MGoOn
  <2>4. mloc'[op].x = mCalc'
    BY <1>0, <2>2, <2>3
  <2>5. mCalc' # NoMirrorMotion =>
          \A p \in Panels : <<p, Mirror, mCalc'.id>> \notin applied'
    BY <1>0, <1>1
  <2> QED BY <2>4, <2>5 DEF MirrorUnsent
<1> QED BY <1>2, <1>3

\* A panel that is sent its part is done with; a call that cannot be sent lets the
\* whole motion be made again, with the parts of it that were sent.
LEMMA SendUnsent ==
  ASSUME MirrorSound, NEW op \in Callers, MirrorUnsent(op), SendMirrorPart(op)
  PROVE  MirrorUnsent(op)'
<1>0. /\ mpc[op] = "sending" /\ UNCHANGED mCalc
      /\ mpc \in [Callers -> MirrorPhases] /\ mloc \in [Callers -> MirrorLocals]
  BY DEF SendMirrorPart, MirrorSound, MirrorTyped, MCallersTyped
<1>1. mloc[op].x = mCalc /\ mCalc # NoMirrorMotion
  BY <1>0, MLocalsOf DEF MirrorUnsent, Moving, MLocalsOK
<1>2. \A p \in mloc[op].todo : p \in Panels => <<p, Mirror, mCalc.id>> \notin applied
  BY <1>0, <1>1 DEF MirrorUnsent
<1>3. CASE StartRound(op, mloc[op])
  <2> DEFINE l == [mloc[op] EXCEPT !.todo = mloc[op].x.moved, !.hit = FALSE]
  <2>1. MGoOn(op, "polling", l) /\ l.x = mloc[op].x
    BY <1>0, <1>3, StartRoundTyped
  <2> HIDE DEF l, MirrorLocals
  <2>2. mpc'[op] = "polling" /\ mloc'[op] = l
    BY <1>0, <2>1 DEF MGoOn
  <2> QED BY <1>0, <1>1, <2>1, <2>2 DEF MirrorUnsent
<1>4. CASE MEndOn(op) /\ Forget(Mirror, mloc[op].x.id)
  BY <1>0, <1>1, <1>4, MethodReturns DEF MEndOn, MirrorUnsent, Moving, Forget
<1>5. ASSUME NEW p \in mloc[op].todo,
             applied' = applied \cup {<<p, Mirror, mloc[op].x.id>>},
             MGoOn(op, "sending", [mloc[op] EXCEPT !.todo = @ \ {p}])
      PROVE  MirrorUnsent(op)'
  <2> DEFINE l == [mloc[op] EXCEPT !.todo = mloc[op].todo \ {p}]
  <2>1. l.x = mloc[op].x /\ l.todo = mloc[op].todo \ {p}
    BY <1>0 DEF MirrorLocals
  <2>2. MGoOn(op, "sending", l)
    BY <1>5
  <2> HIDE DEF l, MirrorLocals
  <2>3. mpc'[op] = "sending" /\ mloc'[op] = l
    BY <1>0, <2>2 DEF MGoOn
  <2>4. ASSUME NEW q \in Panels, q \in l.todo
        PROVE  <<q, Mirror, mCalc.id>> \notin applied'
    <3>1. q # p /\ <<q, Mirror, mCalc.id>> \notin applied
      BY <1>2, <2>1, <2>4
    <3> QED BY <1>5, <3>1
  <2> QED BY <1>0, <1>1, <2>1, <2>3, <2>4 DEF MirrorUnsent
<1> QED BY <1>3, <1>4, <1>5 DEF SendMirrorPart

LEMMA RoundUnsent ==
  ASSUME MirrorSound, NEW op \in Callers, MirrorUnsent(op),
         AskPanel(op) \/ EndRound(op)
  PROVE  MirrorUnsent(op)'
<1>0. /\ mpc[op] = "polling"
      /\ mpc \in [Callers -> MirrorPhases] /\ mloc \in [Callers -> MirrorLocals]
      /\ mloc[op].x = mCalc
  BY DEF AskPanel, EndRound, RoundOver, MirrorSound, MirrorTyped, MCallersTyped,
         MirrorUnsent, Moving
<1>1. CASE MEndOn(op) /\ mCalc' = NoMirrorMotion
  BY <1>1, MethodReturns DEF MEndOn, MirrorUnsent, Moving
<1>2. ASSUME NEW todo, NEW hit, UNCHANGED mCalc,
             MGoOn(op, "polling", [mloc[op] EXCEPT !.todo = todo, !.hit = hit])
      PROVE  MirrorUnsent(op)'
  <2> DEFINE l == [mloc[op] EXCEPT !.todo = todo, !.hit = hit]
  <2>1. l.x = mloc[op].x
    BY <1>0 DEF MirrorLocals
  <2>2. MGoOn(op, "polling", l)
    BY <1>2
  <2> HIDE DEF l, MirrorLocals
  <2>3. mpc'[op] = "polling" /\ mloc'[op] = l
    BY <1>0, <2>2 DEF MGoOn
  <2> QED BY <1>0, <1>2, <2>1, <2>3 DEF MirrorUnsent
<1>3. CASE AskPanel(op)
  BY <1>2, <1>3 DEF AskPanel
<1>4. CASE EndRound(op)
  BY <1>1, <1>2, <1>4 DEF EndRound, RoundOver, StartRound, ResetTo
<1> QED BY <1>3, <1>4

LEMMA StepMirrorUnsent ==
  ASSUME MirrorSound, NEW op \in Callers, AloneMoves(op), MirrorUnsent(op),
         [MirrorNext]_mirrorVars
  PROVE  MirrorUnsent(op)'
<1>1. CASE UNCHANGED mirrorVars \/ PanelRun
  BY <1>1 DEF mirrorVars, vars, PanelRun, Servers, Served, edgeVars, mVars,
              MirrorUnsent
<1>2. ASSUME NEW c \in Callers, Act(c) /\ UNCHANGED mVars
      PROVE  MirrorUnsent(op)'
  <2>1. \A p, n : <<p, Mirror, n>> \in applied' => <<p, Mirror, n>> \in applied
    BY <1>2, EdgeApplied DEF MirrorSound
  <2> QED BY <1>2, <2>1 DEF MirrorUnsent, mVars
<1>3. ASSUME NEW c \in Callers, Aside(c)
      PROVE  MirrorUnsent(op)'
  <2>1. UNCHANGED <<mCalc, applied>>
    BY <1>3, AsideKeeps
  <2>2. CASE c = op
    <3>1. mpc[op] \notin Moving /\ mpc'[op] \notin Moving
      BY <1>3, <2>2, AsideKeeps
    <3> QED BY <2>1, <3>1 DEF MirrorUnsent, Moving
  <2>3. CASE c # op
    <3>1. mpc'[op] = mpc[op] /\ mloc'[op] = mloc[op]
      BY <1>3, <2>3, AsideKeeps
    <3> QED BY <2>1, <3>1 DEF MirrorUnsent
  <2> QED BY <2>2, <2>3
<1>4. ASSUME NEW c \in Callers,
             \/ MirrorCalculate(c) \/ MirrorSetFraction(c) \/ MirrorExecute(c)
             \/ SendMirrorPart(c) \/ AskPanel(c) \/ EndRound(c)
      PROVE  MirrorUnsent(op)'
  <2>1. c = op
    BY <1>4, MotionKeepsOthers, OpMoves
  <2> QED BY <1>4, <2>1, CalculateUnsent, ExecuteUnsent, SendUnsent, RoundUnsent
<1> QED BY <1>1, <1>2, <1>3, <1>4, MSteps

\* With one thread that moves panels, of the mirror, of an edge, or of its edges
\* one after the other, each part of a motion that was calculated is sent at most
\* once, for any panels, edges and callers, whatever the others read, measure,
\* move by hand and stop in between: neither execute of the mirror nor alignMove
\* of an edge, which the sequence calls, moves its panels again by what it has
\* moved them by.
THEOREM MirrorExecutesOnce ==
  ASSUME NEW op \in Callers, AloneAligns(op)
  PROVE  MirrorSpec => AppliedOnce
<1> DEFINE Inv == NoOther(op, Moves) /\ Unsent(op) /\ MirrorUnsent(op)
           Once == \A p \in Panels : \A m \in sent'[p] \ sent[p] :
                     m \in FitMotions => <<p, m.of, m.id>> \notin applied
<1>0. AloneMoves(op)
  BY DEF AloneAligns, AloneMoves
<1>1. MirrorInit => Inv
  BY DEF MirrorInit, EdgeInit, NoOther, Unsent, MirrorUnsent, Moving, Ended
<1>2. MirrorSound /\ Inv /\ [MirrorNext]_mirrorVars => Inv'
  BY <1>0, StepNoOther, StepUnsent, StepMirrorUnsent
<1>3. MirrorSound /\ Inv /\ [MirrorNext]_mirrorVars => [Once]_vars
  <2> SUFFICES ASSUME MirrorSound, Inv, [MirrorNext]_mirrorVars,
                      NEW p \in Panels, NEW m \in sent'[p] \ sent[p],
                      m \in FitMotions
               PROVE  <<p, m.of, m.id>> \notin applied
    OBVIOUS
  <2>0. sent \in [Panels -> SUBSET Motions]
    BY DEF MirrorSound, Typed, PanelTypeOK
  <2>1. CASE PanelRun
    <3>1. PICK q \in Panels : PanelStep(q)
      BY <2>1 DEF PanelRun, Servers, Served
    <3>2. sent'[p] \subseteq sent[p]
      BY <2>0, <3>1 DEF PanelStep, Begin, Refuse, Finish, Stop
    <3> QED BY <3>2
  <2>2. ASSUME NEW c \in Callers, Act(c)
        PROVE  <<p, m.of, m.id>> \notin applied
    <3>1. /\ SendPart(c) /\ p \in loc[c].todo
          /\ m.of = E(c) /\ m.id = loc[c].x.id
      BY <2>2, OnlyExecuteSendsParts DEF MirrorSound
    <3>2. pc[c] = "sending" /\ loc[c].method = "Execute" /\ E(c) \in Edges
      BY <3>1, LocalsOf DEF SendPart, Step, MirrorSound
    <3>3. c = op
      BY <3>2 DEF NoOther, Ended, Moves
    <3>4. loc[c].x # NoMotion
      BY <3>2, LocalsOf DEF LocalsOK, MirrorSound
    <3> QED BY <3>1, <3>2, <3>3, <3>4 DEF Unsent
  <2>3. ASSUME NEW c \in Callers, SendMirrorPart(c)
        PROVE  <<p, m.of, m.id>> \notin applied
    <3>1. PICK q, fraction :
            /\ q \in mloc[c].todo
            /\ LET n == Part(Mirror, [id |-> mloc[c].x.id,
                                     moved |-> mloc[c].x.moved], fraction, q)
               IN  sent' = Sent(q, n) \/ sent' = sent
      BY <2>3 DEF SendMirrorPart
    <3>2. p = q /\ m.of = Mirror /\ m.id = mloc[c].x.id
      BY <2>0, <3>1 DEF Sent, Part
    <3>3. c = op
      BY <1>0, <2>3, MotionKeepsOthers, OpMoves
    <3>4. mpc[op] = "sending" /\ mloc[op].x = mCalc /\ mCalc # NoMirrorMotion
      BY <2>3, <3>3, MLocalsOf
      DEF SendMirrorPart, MLocalsOK, MirrorUnsent, Moving
    <3> QED BY <3>1, <3>2, <3>3, <3>4 DEF MirrorUnsent
  <2>4. ASSUME NEW c \in Callers,
               \/ MirrorCalculate(c) \/ MirrorSetFraction(c) \/ MirrorExecute(c)
               \/ AskPanel(c) \/ EndRound(c) \/ Aside(c)
        PROVE  UNCHANGED sent
    BY <2>4, AsideKeeps
    DEF MirrorCalculate, MirrorSetFraction, MirrorExecute, AskPanel, EndRound,
        RoundOver, vars, panelVars
  <2>5. CASE UNCHANGED mirrorVars
    BY <2>5 DEF mirrorVars, vars, panelVars
  <2> QED BY <2>1, <2>2, <2>3, <2>4, <2>5, MSteps
<1> QED BY <1>1, <1>2, <1>3, AlwaysMirrorSound, PTL DEF MirrorSpec, AppliedOnce

=============================================================================
