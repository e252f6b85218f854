------------------------------- MODULE MCMotion -------------------------------
(***************************************************************************)
(* Constants for checking Motion, and the plan of its moves, with the      *)
(* STEPLEN of the code.                                                    *)
(***************************************************************************)
EXTENDS MovePlan

\* Two axes, for the runs about e-stops.
Targets2 == {[i \in Axes |-> 0], [i \in Axes |-> IF i = 0 THEN 2 ELSE -1]}

Vector(x, y, z) == [i \in Axes |-> CASE i = 0 -> x [] i = 1 -> y [] OTHER -> z]

\* The three axes of CNC_NAXES, for the runs about contours: diagonals that
\* are, and are not, multiples of each other, reversals, ties for the
\* greatest travel, and minor axes with nothing to do.
Targets3 == {Vector(0, 0, 0), Vector(3, 2, -1), Vector(3, -1, 3)}

\* A long diagonal.
TargetsFar == {[i \in Axes |-> 0], [i \in Axes |-> IF i = 0 THEN 10 ELSE -10]}

\* dt = 1 s (F = 1 step/s) throughout, or also half a second, and a second
\* prolonged by the acceleration phase; and F = 100 steps/s.
StepTimes1 == {<<1, 1>>}
StepTimes3 == {<<1, 1>>, <<1, 2>>, <<13, 12>>}
StepTimesFast == {<<1, 100>>}
==============================================================================
