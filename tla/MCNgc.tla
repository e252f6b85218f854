--------------------------------- MODULE MCNgc ---------------------------------
(***************************************************************************)
(* Constants for checking Ngc: blocks in which stages meet, with and       *)
(* without what they need.                                                 *)
(***************************************************************************)
EXTENDS Ngc

B(g, w) == [g |-> g, w |-> w]

\* Homing, motion and both; every pair of stage 18; G94 alone; the settings
\* that make a later block fail, and those that fail themselves.
Blocks1 == {
  B({0}, [X |-> 1]), B({1, 20}, [Y |-> 1, F |-> 5]), B({2}, [X |-> 1]),
  B({28}, <<>>), B({30, 1}, [X |-> 1]), B({28, 92}, [X |-> 1]),
  B({10}, [L |-> 2, P |-> 3, X |-> 1]), B({10, 92}, [L |-> 2, P |-> 3, X |-> 1]),
  B({10, 28}, [L |-> 2, P |-> 3]), B({92, 0}, [X |-> 2]), B({92001}, [X |-> 0]), B({92002}, [X |-> 0]),
  B({94}, <<>>), B({93, 1}, [X |-> 1, F |-> 5]), B({1}, <<>>),
  B({18, 99}, <<>>), B({41}, <<>>), B({17, 42}, [D |-> 1]), B({40, 98, 21}, <<>>),
  B({43}, [S |-> 100]), B({49, 4}, [P |-> 0, T |-> 2]), B({19, 4}, <<>>)}

Places1 == {[a \in Axes |-> 0], [a \in Axes |-> 100]}

\* Nothing saved, and offsets of one millimetre and a half.
Saved1 == {[a \in Axes |-> 0], [a \in Axes |-> IF a = "X" THEN 100 ELSE -50]}

Home1 == [n \in HomeCodes |-> IF n = 28 THEN 0 ELSE 100]
==============================================================================
