---------------------------- MODULE MovePlanProofs ----------------------------
(***************************************************************************)
(* Theorems about MovePlan, for any widths in which STEPLEN times the      *)
(* greatest int fits into an int64_t, as it does in the code.              *)
(***************************************************************************)
EXTENDS MovePlan, MotionProofs

-----------------------------------------------------------------------------
(* Words.                                                                  *)

\* What fits into a word is kept.
LEMMA WordKeeps ==
  ASSUME NEW x \in Int, NEW half \in Nat \ {0}, -half <= x, x < half
  PROVE  Word(x, half) = x
<1>1. (x + half) % (2 * half) = x + half
  OBVIOUS
<1>. QED  BY <1>1 DEF Word

\* Whatever is stored in a word, a word comes out.
LEMMA WordBounds ==
  ASSUME NEW x \in Int, NEW half \in Nat \ {0}
  PROVE  Word(x, half) \in -half .. half - 1
<1>1. (x + half) % (2 * half) \in 0 .. 2 * half - 1
  OBVIOUS
<1>. QED  BY <1>1 DEF Word

\* An int64_t holds every int, and every int times STEPLEN.
LEMMA Widths ==
  /\ IntHalf \in Nat \ {0} /\ LongHalf \in Nat \ {0} /\ IntHalf <= LongHalf
  /\ \A x \in -IntHalf .. IntHalf : /\ x * StepLen \in Int
                                    /\ -LongHalf <= x * StepLen
                                    /\ x * StepLen < LongHalf
<1>1. IntHalf \in Nat \ {0} /\ LongHalf \in Nat /\ StepLen \in Nat \ {0}
      /\ IntHalf * StepLen < LongHalf
  BY WidthAssumption, MachineAssumption
<1>2. IntHalf * 1 <= IntHalf * StepLen
  BY <1>1, ProductMonotone
<1>3. ASSUME NEW x \in -IntHalf .. IntHalf
      PROVE  /\ x * StepLen \in Int
             /\ -LongHalf <= x * StepLen
             /\ x * StepLen < LongHalf
  <2>1. CASE x >= 0
    <3>1. x \in Nat /\ x <= IntHalf
      BY <2>1, <1>1
    <3>2. x * StepLen <= IntHalf * StepLen /\ x * StepLen \in Nat
      BY <3>1, <1>1, ProductMonotone
    <3>. QED  BY <3>2, <1>1
  <2>2. CASE x < 0
    <3>1. -x \in Nat /\ -x <= IntHalf
      BY <2>2, <1>1
    <3>2. (-x) * StepLen <= IntHalf * StepLen /\ (-x) * StepLen \in Nat
      BY <3>1, <1>1, ProductMonotone
    <3>3. x * StepLen = -((-x) * StepLen)
      BY <1>1, <3>1
    <3>. QED  BY <3>2, <3>3, <1>1
  <2>. QED  BY <2>1, <2>2, <1>1
<1>. QED  BY <1>1, <1>2, <1>3

-----------------------------------------------------------------------------
(* Displacements.                                                          *)

\* A travel is a natural number.
LEMMA TravelNat ==
  ASSUME NEW v1 \in [Axes -> Int], NEW v2 \in [Axes -> Int], NEW i \in Axes
  PROVE  /\ v2[i] - v1[i] \in Int
         /\ Travel(i, v1, v2) \in Nat
         /\ Travel(i, v1, v2) = 0 <=> v1[i] = v2[i]
  BY DEF Travel, AbsInt

\* A travel that an int can hold is computed as it is, in every build.
LEMMA DisplacementExact ==
  ASSUME NEW v1 \in [Axes -> Int], NEW v2 \in [Axes -> Int], NEW i \in Axes,
         NEW u \in LeastAbs, Travel(i, v1, v2) < IntHalf
  PROVE  Displacement(i, v1, v2, u) = Travel(i, v1, v2)
<1> DEFINE x == v2[i] - v1[i]
<1>1. x \in Int /\ -IntHalf < x /\ x < IntHalf
  BY TravelNat, Widths DEF Travel, AbsInt
<1> HIDE DEF x
<1>2. Word(x, LongHalf) = x
  BY <1>1, Widths, WordKeeps
<1>3. Word(x, IntHalf) = x
  BY <1>1, Widths, WordKeeps
<1>. QED  BY <1>1, <1>2, <1>3 DEF Displacement, Travel, x

\* No displacement is greater than an int can tell.
LEMMA DisplacementBounds ==
  ASSUME NEW v1 \in [Axes -> Int], NEW v2 \in [Axes -> Int], NEW i \in Axes,
         NEW u \in LeastAbs
  PROVE  Displacement(i, v1, v2, u) \in -IntHalf .. IntHalf
<1> DEFINE y == Word(v2[i] - v1[i], LongHalf)
           x == Word(y, IntHalf)
<1>1. y \in Int
  BY TravelNat, Widths, WordBounds
<1> HIDE DEF y
<1>2. x \in -IntHalf .. IntHalf - 1
  BY <1>1, Widths, WordBounds
<1> HIDE DEF x
<1>3. Displacement(i, v1, v2, u) = IF x = -IntHalf THEN u ELSE AbsInt(x)
  BY DEF Displacement, x, y
<1>4. u \in -IntHalf .. IntHalf
  BY Widths DEF LeastAbs
<1>5. AbsInt(x) \in -IntHalf .. IntHalf
  BY <1>2, Widths DEF AbsInt
<1>. QED  BY <1>3, <1>4, <1>5

\* No axis is ever planned to go farther than it was asked to, and beyond
\* what an int can hold it is planned to stop short: abs() narrows its
\* argument, and sys_cncmove() does not look.
THEOREM NeverFarther ==
  ASSUME NEW v1 \in [Axes -> Int], NEW v2 \in [Axes -> Int], NEW i \in Axes,
         NEW u \in LeastAbs
  PROVE  /\ Displacement(i, v1, v2, u) <= Travel(i, v1, v2)
         /\ Travel(i, v1, v2) > IntHalf
              => Displacement(i, v1, v2, u) < Travel(i, v1, v2)
<1>1. CASE Travel(i, v1, v2) < IntHalf
  BY <1>1, DisplacementExact, TravelNat, Widths
<1>2. CASE Travel(i, v1, v2) >= IntHalf
  BY <1>2, DisplacementBounds, TravelNat, Widths
<1>. QED  BY <1>1, <1>2, TravelNat, Widths

\* Whatever the positions, the product of the rescaling does not overflow:
\* an int has been made of the travel before it is multiplied.
THEOREM ShareFits ==
  ASSUME NEW v1 \in [Axes -> Int], NEW v2 \in [Axes -> Int], NEW i \in Axes,
         NEW m \in Axes, NEW u \in LeastAbs
  PROVE  PlannedShare(i, m, v1, v2, u)
           = Quotient(Displacement(i, v1, v2, u) * StepLen,
                      Displacement(m, v1, v2, u))
<1> DEFINE d == Displacement(i, v1, v2, u)
<1>1. d \in -IntHalf .. IntHalf
  BY DisplacementBounds
<1> HIDE DEF d
<1>2. Word(d * StepLen, LongHalf) = d * StepLen
  BY <1>1, Widths, WordKeeps
<1>. QED  BY <1>2 DEF PlannedShare, d

\* The rescaling divides by zero, or by a negative number, in one case alone:
\* when abs() has been asked for that of the least int, on some axis.
THEOREM DivisorPositive ==
  ASSUME NEW v1 \in [Axes -> Int], NEW v2 \in [Axes -> Int], NEW m \in Axes,
         NEW u \in LeastAbs, Somewhere(v1, v2, u), PlannedMajor(m, v1, v2, u),
         \A i \in Axes : Displacement(i, v1, v2, u) # -IntHalf
  PROVE  Displacement(m, v1, v2, u) > 0
<1>1. ASSUME NEW i \in Axes PROVE Displacement(i, v1, v2, u) >= 0
  <2> DEFINE y == Word(v2[i] - v1[i], LongHalf)
             x == Word(y, IntHalf)
  <2>1. y \in Int
    BY TravelNat, Widths, WordBounds
  <2> HIDE DEF y
  <2>2. x \in -IntHalf .. IntHalf - 1
    BY <2>1, Widths, WordBounds
  <2> HIDE DEF x
  <2>3. Displacement(i, v1, v2, u) = IF x = -IntHalf THEN u ELSE AbsInt(x)
    BY DEF Displacement, x, y
  <2>4. u = IntHalf \/ u = -IntHalf
    BY DEF LeastAbs
  <2>. QED  BY <2>2, <2>3, <2>4, Widths DEF AbsInt
<1>2. PICK j \in Axes : Displacement(j, v1, v2, u) # 0
  BY DEF Somewhere
<1>3. Displacement(j, v1, v2, u) > 0
  BY <1>1, <1>2, DisplacementBounds
<1>4. CASE m = 0 /\ \A i \in Axes : Displacement(i, v1, v2, u) <= 0
  BY <1>3, <1>4, DisplacementBounds
<1>. QED  BY <1>4 DEF PlannedMajor

\* Between positions less than 2^31 apart on every axis, the plan with the
\* widths of the code is the plan without them, in every build.
THEOREM PlanExact ==
  ASSUME NEW v1 \in [Axes -> Int], NEW v2 \in [Axes -> Int],
         \A i \in Axes : Travel(i, v1, v2) < IntHalf
  PROVE  PlanTold(v1, v2)
<1> SUFFICES ASSUME NEW u \in LeastAbs
             PROVE  /\ \A i \in Axes : Displacement(i, v1, v2, u) = Travel(i, v1, v2)
                    /\ Somewhere(v1, v2, u) <=> v1 # v2
                    /\ v1 # v2 =>
                         \A m \in Axes :
                            /\ PlannedMajor(m, v1, v2, u) <=> Leads(m, v1, v2)
                            /\ Leads(m, v1, v2) =>
                                 \A i \in Axes :
                                    PlannedShare(i, m, v1, v2, u)
                                      = (Travel(i, v1, v2) * StepLen) \div Travel(m, v1, v2)
  BY DEF PlanTold
<1>1. \A i \in Axes : Displacement(i, v1, v2, u) = Travel(i, v1, v2)
  BY DisplacementExact
<1>2. \A i \in Axes : /\ Travel(i, v1, v2) \in Nat
                      /\ Travel(i, v1, v2) = 0 <=> v1[i] = v2[i]
  BY TravelNat
<1>3. Somewhere(v1, v2, u) <=> v1 # v2
  BY <1>1, <1>2 DEF Somewhere
<1>4. ASSUME v1 # v2, NEW m \in Axes
      PROVE  PlannedMajor(m, v1, v2, u) <=> Leads(m, v1, v2)
  <2>1. PICK j \in Axes : Travel(j, v1, v2) > 0
    BY <1>2, <1>4
  <2>2. (\A i \in Axes : Travel(i, v1, v2) <= Travel(m, v1, v2)) => Travel(m, v1, v2) > 0
    BY <1>2, <2>1
  <2>3. ~ \A i \in Axes : Travel(i, v1, v2) <= 0
    BY <1>2, <2>1
  <2>. QED  BY <1>1, <2>2, <2>3 DEF PlannedMajor, Leads
<1>5. ASSUME NEW m \in Axes, NEW i \in Axes
      PROVE  PlannedShare(i, m, v1, v2, u)
               = (Travel(i, v1, v2) * StepLen) \div Travel(m, v1, v2)
  <2>1. PlannedShare(i, m, v1, v2, u)
          = Quotient(Travel(i, v1, v2) * StepLen, Travel(m, v1, v2))
    BY <1>1, ShareFits
  <2>2. Travel(i, v1, v2) * StepLen \in Nat
    BY <1>2, MachineAssumption, ProductMonotone
  <2>. QED  BY <2>1, <2>2 DEF Quotient
<1>. QED  BY <1>1, <1>3, <1>4, <1>5

-----------------------------------------------------------------------------
(* Plans on a machine of some range.                                       *)

\* On a machine whose positions are all less than 2^31 increments apart, and
\* whose moves are timely, the plan of every move, from wherever the ones
\* before it were interrupted, is the one that Motion states, and the theorems
\* about Motion are about.
THEOREM PlansExact ==
  ASSUME NEW lo \in Int, NEW hi \in Int, lo <= 0, 0 <= hi, hi - lo < IntHalf,
         \A v \in Targets, i \in Axes : lo <= v[i] /\ v[i] <= hi
  PROVE  Spec /\ []Timely => []PlansTold
<1>1. TypeOK /\ Within(lo, hi) => PlansTold
  <2> SUFFICES ASSUME TypeOK, Within(lo, hi), NEW v2 \in Targets
               PROVE  PlanTold(pos, v2)
    BY DEF PlansTold
  <2>1. pos \in [Axes -> Int] /\ v2 \in [Axes -> Int]
    BY MachineAssumption DEF TypeOK, ServoTypes
  <2>2. ASSUME NEW i \in Axes PROVE Travel(i, pos, v2) < IntHalf
    BY <2>1, Widths DEF Within, Travel, AbsInt
  <2>. QED  BY <2>1, <2>2, PlanExact
<1>2. Init => Within(lo, hi)
  BY RangeKept
<1>3. TypeOK /\ TypeOK' /\ MoveInv /\ Timely /\ Within(lo, hi) /\ [Next]_vars
        => Within(lo, hi)'
  BY RangeKept
<1>. QED  BY <1>1, <1>2, <1>3, MoveKept, Typing, PTL DEF Spec
==============================================================================
