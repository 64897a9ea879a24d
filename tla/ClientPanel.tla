------------------------------ MODULE ClientPanel ------------------------------
(***************************************************************************)
(* The panels of a mirror as the alignment client sees them.  The client   *)
(* calls a motion and goes on at once (callMethodAsync, whose answer it    *)
(* never looks at); later it asks a panel whether it is busy.  The pool of *)
(* threads of the panel's server takes the calls in any order.             *)
(***************************************************************************)
EXTENDS Naturals, FiniteSets

CONSTANTS
  Panels,          \* the panels, numbered by their position
  Edges,           \* the edges between panels
  Mirror,          \* the mirror, as the origin of a motion
  Calculations,    \* numbers given to calculated motions in turn
  Whole,           \* the align fraction 1.0
  InFlight,        \* bound: motions on their way to one panel
  Refusals         \* TRUE: the server may refuse a motion for its errors

ASSUME ClientAssumption ==
  /\ Panels \subseteq Nat \ {0} /\ IsFiniteSet(Panels)
  /\ Mirror \notin Edges
  /\ Calculations \subseteq Nat \ {0} /\ IsFiniteSet(Calculations)
  /\ Whole \in Nat \ {0}
  /\ InFlight \in Nat \ {0}
  /\ Refusals \in BOOLEAN

\* The arguments of MoveDeltaLengths: one step of an actuator, out or back; the part
\* of a calculated motion that belongs to some panel, times a fraction; or what an
\* operator asks of a panel.  Garbled is a part that belongs to no panel.
Garbled == 0
StepMotions == [kind : {"step"}, back : BOOLEAN]
FitMotions  == [kind : {"fit"}, of : Edges \cup {Mirror}, id : Calculations,
                fraction : 0 .. Whole, part : Panels \cup {Garbled}]
PanelMotion == [kind |-> "panel"]
Motions == StepMotions \cup FitMotions \cup {PanelMotion}
Rest    == [kind |-> "rest"]

VARIABLES
  sent,        \* motions on their way to the server of each panel.  Bounds:
               \* InFlight, and a motion is not sent again before it arrived
  stops,       \* a stop is on its way
  moving       \* what each panel does; its state is Busy unless it rests

panelVars == <<sent, stops, moving>>

MaySend(p, m) == m \notin sent[p] /\ Cardinality(sent[p]) < InFlight
Sent(p, m) == [sent EXCEPT ![p] = @ \cup {m}]

Busy(p) == moving[p] # Rest
Quiet(p) == sent[p] = {} /\ ~Busy(p)

-----------------------------------------------------------------------------
(* The server of a panel (module Platform has the details) *)

Begin(p) ==
  /\ ~Busy(p)
  /\ \E m \in sent[p] :
       /\ sent' = [sent EXCEPT ![p] = @ \ {m}]
       /\ moving' = [moving EXCEPT ![p] = m]
  /\ UNCHANGED stops

\* A busy panel refuses, and the caller does not learn of it.
Refuse(p) ==
  /\ Busy(p) \/ Refusals
  /\ \E m \in sent[p] : sent' = [sent EXCEPT ![p] = @ \ {m}]
  /\ UNCHANGED <<stops, moving>>

Finish(p) ==
  /\ Busy(p)
  /\ moving' = [moving EXCEPT ![p] = Rest]
  /\ UNCHANGED <<sent, stops>>

\* The motion ends where it is.
Stop(p) ==
  /\ stops[p]
  /\ stops' = [stops EXCEPT ![p] = FALSE]
  /\ moving' = [moving EXCEPT ![p] = Rest]
  /\ UNCHANGED sent

PanelInit ==
  /\ sent = [p \in Panels |-> {}]
  /\ stops = [p \in Panels |-> FALSE]
  /\ moving = [p \in Panels |-> Rest]

PanelStep(p) == Begin(p) \/ Refuse(p) \/ Finish(p) \/ Stop(p)

PanelTypeOK ==
  /\ sent \in [Panels -> SUBSET Motions]
  /\ stops \in [Panels -> BOOLEAN]
  /\ moving \in [Panels -> Motions \cup {Rest}]
=============================================================================
