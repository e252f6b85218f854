--------------------------- MODULE MCCapturedMotion ---------------------------
(***************************************************************************)
(* Constants for checking CapturedMotion.                                  *)
(***************************************************************************)
EXTENDS CapturedMotion, TLC

\* There and back on a diagonal.  Moves that overlap, or that an e-stop ends,
\* leave the machine beside it, and later ones begin from there.
Targets2 == {[i \in Axes |-> 0], [i \in Axes |-> IF i = 0 THEN 2 ELSE -2]}

StepTimes1 == {<<1, 1>>}

\* The processes are interchangeable.
Symmetry == Permutations(Movers)

\* Neither the level of the STEP pins nor what the last call returned is read
\* by an action or told apart by a property: states that differ in nothing
\* else are explored once.
Observed == <<calibrated, pos, scDir, dirPin, slip, estopVars, moveVars, pollVars,
              pin, call, held, captureVars>>
==============================================================================
