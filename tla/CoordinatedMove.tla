--------------------------- MODULE CoordinatedMove ---------------------------
(***************************************************************************)
(* What cncmove(2) promises of the machine position, without pins, polls,  *)
(* interpolation or time: a move is led by an axis that has the greatest   *)
(* distance to travel; at every step the lead axis advances by one         *)
(* increment towards the target, every other axis stays or advances by one *)
(* increment towards the target, and no axis is ever beyond its target.    *)
(* The move ends with the step that brings the lead axis to its target,    *)
(* or it is abandoned between two steps.  The position is redefined        *)
(* (CNC_SETPOS) only while no move is in progress.                         *)
(***************************************************************************)
EXTENDS Integers

CONSTANTS
  Axes,       \* the axes of the machine
  Targets     \* the positions a caller may ask for

VARIABLES
  at,         \* the machine position
  goal,       \* the target of the move in progress
  lead,       \* the axis that leads the move in progress
  busy        \* a move is in progress

vars == <<at, goal, lead, busy>>

Distance(i, p, q) == IF p[i] < q[i] THEN q[i] - p[i] ELSE p[i] - q[i]

\* One increment of axis i from p[i] towards q[i].
Towards(i, p, q) ==
  IF p[i] < q[i] THEN p[i] + 1 ELSE IF q[i] < p[i] THEN p[i] - 1 ELSE p[i]

Init == /\ at = [i \in Axes |-> 0]
        /\ busy = FALSE
        /\ goal \in [Axes -> Int]
        /\ lead \in Axes

\* CNC_SETPOS: the position is redefined, nothing moves.
Teach == /\ ~busy
         /\ at' \in Targets
         /\ UNCHANGED <<goal, lead, busy>>

Begin == /\ ~busy
         /\ busy'
         /\ goal' \in Targets
         /\ lead' \in Axes
         /\ at[lead'] # goal'[lead']
         /\ \A i \in Axes : Distance(i, at, goal') <= Distance(lead', at, goal')
         /\ UNCHANGED at

Advance == /\ busy
           /\ at' \in [Axes -> Int]
           /\ \A i \in Axes : at'[i] \in {at[i], Towards(i, at, goal)}
           /\ at'[lead] = Towards(lead, at, goal)
           /\ at[lead] # goal[lead]
           /\ IF at'[lead] = goal[lead]
                THEN ~busy'
                ELSE busy' /\ UNCHANGED <<goal, lead>>

Abandon == busy /\ ~busy' /\ UNCHANGED at

Next == Teach \/ Begin \/ Advance \/ Abandon

Spec == Init /\ [][Next]_vars
==============================================================================
