------------------------------- MODULE MovePlan -------------------------------
(***************************************************************************)
(* The plan of a move with the widths of the code: cnc_pos_t has 64 bits,  *)
(* abs() takes and returns an int.  Motion plans with unbounded integers;  *)
(* this module says where the two differ.                                  *)
(***************************************************************************)
EXTENDS Motion

CONSTANTS
  IntHalf,        \* an int is one of -IntHalf .. IntHalf - 1 (2^31)
  LongHalf        \* an int64_t, one of -LongHalf .. LongHalf - 1 (2^63)

ASSUME WidthAssumption ==
  /\ IntHalf \in Nat \ {0}
  /\ LongHalf \in Nat
  /\ IntHalf * StepLen < LongHalf

\* A number kept in a signed word: what does not fit wraps around.
Word(x, half) == ((x + half) % (2 * half)) - half

\* The least int has no absolute value: abs() of it is undefined, and the
\* build answers with the same word, or with what the negation would be.
LeastAbs == {-IntHalf, IntHalf}

\* abs() of a difference of positions, in a build where it is u for the
\* least int.
Displacement(i, v1, v2, u) ==
  LET x == Word(Word(v2[i] - v1[i], LongHalf), IntHalf)
  IN  IF x = -IntHalf THEN u ELSE AbsInt(x)

\* nonzero: the move is not over before it begins.
Somewhere(v1, v2, u) == \E i \in Axes : Displacement(i, v1, v2, u) # 0

\* axisMajor: the first with the greatest displacement above 0, or else 0.
PlannedMajor(m, v1, v2, u) ==
  LET d(i) == Displacement(i, v1, v2, u)
  IN  \/ /\ d(m) > 0
         /\ \A i \in Axes : d(i) <= d(m) /\ (i < m => d(i) < d(m))
      \/ /\ m = 0
         /\ \A i \in Axes : d(i) <= 0

\* The division of C, by a positive divisor: it truncates towards zero.
Quotient(a, b) == IF a < 0 THEN -((-a) \div b) ELSE a \div b

\* d.v[i] of a minor axis, rescaled, where d.v[m] is positive.
PlannedShare(i, m, v1, v2, u) ==
  Quotient(Word(Displacement(i, v1, v2, u) * StepLen, LongHalf),
           Displacement(m, v1, v2, u))

-----------------------------------------------------------------------------
\* The plan of a move from v1 to v2 is the one that Motion begins it with.
PlanTold(v1, v2) ==
  \A u \in LeastAbs :
     /\ \A i \in Axes : Displacement(i, v1, v2, u) = Travel(i, v1, v2)
     /\ Somewhere(v1, v2, u) <=> v1 # v2
     /\ v1 # v2 =>
          \A m \in Axes :
             /\ PlannedMajor(m, v1, v2, u) <=> Leads(m, v1, v2)
             /\ Leads(m, v1, v2) =>
                  \A i \in Axes :
                     PlannedShare(i, m, v1, v2, u)
                       = (Travel(i, v1, v2) * StepLen) \div Travel(m, v1, v2)

\* From wherever the moves before it have left the machine, completed or
\* interrupted, sys_cncmove() computes the plan of a move without the widths
\* of int and int64_t showing.  It checks nothing: this is so because no move
\* leaves the range of the positions it is given, and holds where that range
\* is less than 2^31 wide.
PlansTold == call = "none" => \A v2 \in Targets : PlanTold(pos, v2)
==============================================================================
