------------------------------- MODULE NgcProofs -------------------------------
(***************************************************************************)
(* Proofs about Ngc: what a program does to the machine and to its own     *)
(* settings, whatever its blocks are and however long it is.               *)
(***************************************************************************)
EXTENDS Ngc, FiniteSetTheorems, TLAPS

-----------------------------------------------------------------------------
(* The inductive invariant.                                                *)

\* Stage 18 has homed, set an origin, or set offsets, or none of them yet.
OneOf18 == did \in {{}, {"home"}, {"origin"}, {"offset"}}

\* A block that has come to gohome() has one of its codes.
HomeCode == stage \in {"via", "home"} => First(blk, <<28, 30>>) \in HomeCodes

\* Such a block does not set an origin or offsets first.
HomeDid == stage \in {"via", "home"} => did = {"home"}

\* Within a block there is room to count it.
DoneBound == exit = "none" /\ stage # "next" => done < MaxBlocks

\* Only homing moves the machine before the last stage, and the block is
\* over when the last stage has moved it.
DrivenInv ==
  driven => \/ "home" \in did
            \/ stage = "next" \/ exit = "stopped"

SettingsFirst == stage = "settings" => ~driven

IInv == /\ TypeOK /\ HomeCode /\ HomeDid /\ DoneBound /\ OneOf18 /\ DrivenInv /\ SettingsFirst
        /\ OffsetsSaved
        /\ (exit = "error" => stage # "next")

-----------------------------------------------------------------------------
(* Operators.                                                              *)

\* First() finds one of the codes, or none.
LEMMA FirstFound ==
  ASSUME NEW b, NEW codes
  PROVE  First(b, codes) = -1 \/ \E k \in DOMAIN codes : First(b, codes) = codes[k]
BY DEF First

LEMMA FirstOfTwo ==
  ASSUME NEW b, NEW m, NEW n
  PROVE  First(b, <<m, n>>) \in {-1, m, n}
<1>1. \A k \in DOMAIN <<m, n>> : <<m, n>>[k] \in {m, n}
  OBVIOUS
<1>. QED  BY <1>1, FirstFound

LEMMA FirstOfThree ==
  ASSUME NEW b, NEW m, NEW n, NEW o
  PROVE  First(b, <<m, n, o>>) \in {-1, m, n, o}
<1>1. \A k \in DOMAIN <<m, n, o>> : <<m, n, o>>[k] \in {m, n, o}
  OBVIOUS
<1>. QED  BY <1>1, FirstFound

\* The settings of a block are settings.
LEMMA SettingsTyped ==
  ASSUME TypeOK, NEW b
  PROVE  [feed |-> FeedMode(b), plane |-> Plane(b), units |-> Units(b),
          cutter |-> Cutter(b), distance |-> Distance(b)] \in Modal
<1>. modal \in Modal
  BY DEF TypeOK
<1>1. FeedMode(b) \in {"perMinute", "inverse"}
  BY DEF FeedMode, Modal
<1>2. Plane(b) \in {17, 18, 19}
  BY FirstOfThree DEF Plane, Modal
<1>3. Units(b) \in {"inch", "metric"}
  BY DEF Units, Modal
<1>4. Cutter(b) \in {40, 41, 42}
  BY FirstOfThree DEF Cutter, Modal
<1>5. Distance(b) \in {90, 91}
  BY FirstOfTwo DEF Distance, Modal
<1>. QED  BY <1>1, <1>2, <1>3, <1>4, <1>5 DEF Modal

LEMMA BlockTyped ==
  ASSUME TypeOK, NEW a \in DOMAIN blk.w
  PROVE  blk.w[a] \in Int
<1>1. CASE blk = NoBlock
  <2>1. blk.w = <<>> /\ DOMAIN <<>> = {}
    BY <1>1 DEF NoBlock
  <2>. QED  BY <2>1
<1>2. CASE blk \in Blocks
  BY <1>2, BlockAssumption
<1>. QED  BY <1>1, <1>2 DEF TypeOK

\* A vector of lengths stays one, and has a length in steps on every axis.
LEMMA VectorTyped ==
  ASSUME TypeOK, NEW V \in Lengths
  PROVE  Vector(blk, V) \in Lengths
<1>. SUFFICES ASSUME NEW a \in Axes
              PROVE  (IF a \notin AxisWords(blk) \/ wordType[a] = "other" THEN V[a]
                      ELSE IF wordType[a] = "linear" THEN InMillimetres(blk.w[a])
                      ELSE blk.w[a] * Millimetre) \in Int
  BY DEF Vector, Lengths
<1>1. a \in AxisWords(blk) => blk.w[a] \in Int
  BY BlockTyped DEF AxisWords
<1>. QED  BY <1>1 DEF Lengths, InMillimetres, Inch, Millimetre

LEMMA StepsTyped == ASSUME NEW V \in Lengths PROVE Steps(V) \in Lengths
BY DEF Steps, Lengths, LinScale, Millimetre

LEMMA LoadedTyped == ASSUME NEW p \in Lengths PROVE Loaded(p) \in Lengths
BY DEF Loaded, Lengths, RotScale, Millimetre

LEMMA HalfwayTyped ==
  ASSUME NEW p \in Lengths, NEW q \in Lengths
  PROVE  Halfway(p, q) \in Lengths
BY DEF Halfway, Lengths

LEMMA HomeTyped ==
  ASSUME NEW n \in HomeCodes
  PROVE  Steps([a \in Axes |-> HomeX[n]]) \in Lengths
<1>1. [a \in Axes |-> HomeX[n]] \in Lengths
  BY NgcAssumption DEF Lengths
<1>. QED  BY <1>1, StepsTyped

\* What a move does, wherever it is made.
LEMMA Moved ==
  ASSUME IInv, exit = "none", NEW p \in Lengths, NEW next, Move(p, next)
  PROVE  /\ pos' \in Lengths
         /\ driven' \in BOOLEAN
         /\ \/ stage' = next /\ exit' = "none"
            \/ stage' = stage /\ exit' = "stopped"
<1>1. pos \in Lengths /\ Halfway(pos, p) \in Lengths
  BY HalfwayTyped DEF IInv, TypeOK
<1>2. driven \in BOOLEAN
  BY DEF IInv, TypeOK
<1>3. CASE simulate
  BY <1>1, <1>2, <1>3 DEF Move, Goto
<1>4. CASE ~simulate
  <2>1. driven' = TRUE
    BY <1>4 DEF Move
  <2>2. CASE pos' = p /\ Goto(next)
    BY <2>1, <2>2 DEF Goto
  <2>3. CASE pos' \in {pos, Halfway(pos, p)} /\ Fail("stopped")
    BY <2>1, <2>3, <1>1 DEF Fail
  <2>. QED  BY <2>2, <2>3, <1>4 DEF Move
<1>. QED  BY <1>3, <1>4

LEMMA Starts == Init => IInv
<1>. SUFFICES ASSUME Init PROVE IInv
  OBVIOUS
<1>1. pos \in Lengths /\ ngcPos \in Lengths
  <2>1. pos \in Lengths
    BY NgcAssumption DEF Init, Lengths
  <2>. QED  BY <2>1, LoadedTyped DEF Init
<1>2. offset \in Lengths /\ param \in Lengths /\ origin \in [Offsets -> Lengths]
  BY NgcAssumption DEF Init, Lengths
<1>3. modal \in Modal /\ done \in 0 .. MaxBlocks
  BY NgcAssumption DEF Init, Modal
<1>4. TypeOK
  BY <1>1, <1>2, <1>3 DEF Init, TypeOK
<1>. QED
  BY <1>4 DEF Init, IInv, HomeCode, HomeDid, DoneBound, OneOf18, DrivenInv, SettingsFirst, OffsetsSaved

-----------------------------------------------------------------------------
(* The steps.                                                              *)

LEMMA NextBlockKept == ASSUME IInv, NEW b \in Blocks, NextBlock(b) PROVE IInv'
<1>. USE DEF NextBlock, At, IInv, processVars, dataVars
<1>1. TypeOK'
  BY DEF TypeOK
<1>. QED
  BY <1>1 DEF HomeCode, HomeDid, DoneBound, OneOf18, DrivenInv, SettingsFirst, OffsetsSaved

LEMMA SettingsKept == ASSUME IInv, Settings PROVE IInv'
<1>. USE DEF Settings, At, Stay, Goto, Fail, processVars, dataVars, blockVars
<1>1. TypeOK'
  <2>1. modal' \in Modal
    BY SettingsTyped DEF IInv, TypeOK
  <2>. QED  BY <2>1 DEF IInv, TypeOK
<1>2. HomeCode'
  <2>1. First(blk, <<28, 30>>) \in {-1, 28, 30}
    BY FirstOfTwo
  <2>. QED  BY <2>1 DEF HomeCode, HomeCodes, First, IInv
<1>3. HomeDid' /\ DoneBound' /\ OneOf18' /\ DrivenInv' /\ SettingsFirst'
      /\ (exit' = "error" => stage' # "next")
  BY DEF IInv, HomeDid, DoneBound, OneOf18, DrivenInv, SettingsFirst
<1>4. OffsetsSaved'
  BY DEF IInv, OffsetsSaved
<1>. QED  BY <1>1, <1>2, <1>3, <1>4 DEF IInv

LEMMA GohomeKept == ASSUME IInv, HomeVia \/ Home PROVE IInv'
<1>. USE DEF IInv
<1>1. /\ exit = "none" /\ stage \in {"via", "home"} /\ did = {"home"}
      /\ UNCHANGED <<processVars, modal, dataVars, blockVars, did>>
  BY DEF HomeVia, Home, At, HomeDid
<1>2. \/ Goto("home") /\ Stay
      \/ \E p \in Lengths : \E next \in {"home", "origin"} : Move(p, next)
  <2>1. CASE HomeVia
    <3>1. \A V \in Places : Steps(Vector(blk, V)) \in Lengths
      BY VectorTyped, StepsTyped, NgcAssumption DEF Lengths
    <3>. QED  BY <3>1, <2>1 DEF HomeVia
  <2>2. CASE Home
    <3>1. Steps([a \in Axes |-> HomeX[First(blk, <<28, 30>>)]]) \in Lengths
      BY <1>1, HomeTyped DEF HomeCode
    <3>. QED  BY <3>1, <2>2 DEF Home
  <2>. QED  BY <2>1, <2>2
<1>3. /\ pos' \in Lengths
      /\ driven' \in BOOLEAN
      /\ stage' \in {"via", "home", "origin"} /\ exit' \in {"none", "stopped"}
  <2>1. CASE Goto("home") /\ Stay
    BY <2>1, <1>1 DEF Goto, Stay, TypeOK
  <2>2. CASE \E p \in Lengths : \E next \in {"home", "origin"} : Move(p, next)
    BY <2>2, <1>1, Moved
  <2>. QED  BY <1>2, <2>1, <2>2
<1>4. TypeOK'
  BY <1>1, <1>3 DEF TypeOK, processVars, dataVars, blockVars
<1>5. HomeCode'
  BY <1>1, <1>3 DEF HomeCode, First, blockVars
<1>. QED
  BY <1>1, <1>3, <1>4, <1>5
     DEF OneOf18, HomeDid, DoneBound, DrivenInv, SettingsFirst,
         OffsetsSaved, processVars, dataVars, blockVars

LEMMA SetOriginKept == ASSUME IInv, SetOrigin PROVE IInv'
<1>. USE DEF SetOrigin, At, Stay, Goto, Fail, processVars, blockVars
<1>1. origin' \in [Offsets -> Lengths]
  <2>1. CASE origin' = origin
    BY <2>1 DEF IInv, TypeOK
  <2>2. CASE origin' # origin
    <3>. DEFINE V == [a \in Axes |-> IF a \in AxisWords(blk) THEN blk.w[a] * Millimetre
                                     ELSE origin[blk.w["P"]][a]]
    <3>1. blk.w["P"] \in Offsets /\ origin' = [origin EXCEPT ![blk.w["P"]] = V]
      BY <2>2
    <3>2. V \in Lengths
      <4>1. \A a \in AxisWords(blk) : blk.w[a] \in Int
        BY BlockTyped DEF AxisWords, IInv
      <4>. QED  BY <3>1, <4>1 DEF IInv, TypeOK, Lengths, Millimetre
    <3>. HIDE DEF V
    <3>. QED  BY <3>1, <3>2 DEF IInv, TypeOK
  <2>. QED  BY <2>1, <2>2
<1>2. TypeOK'
  BY <1>1 DEF IInv, TypeOK
<1>3. HomeCode' /\ HomeDid' /\ DoneBound' /\ OneOf18' /\ DrivenInv' /\ SettingsFirst'
      /\ (exit' = "error" => stage' # "next")
  BY DEF IInv, HomeCode, HomeDid, DoneBound, First, OneOf18, DrivenInv, SettingsFirst
<1>4. OffsetsSaved'
  BY DEF IInv, OffsetsSaved
<1>. QED  BY <1>2, <1>3, <1>4 DEF IInv

LEMMA SetOffsetKept == ASSUME IInv, SetOffset PROVE IInv'
<1>. USE DEF SetOffset, At, Stay, Goto, Fail, processVars, blockVars
<1>. DEFINE code == OffsetCode(blk)
<1>1. ASSUME offset' = NewOffset(blk, code), param' = NewParam(blk, code)
      PROVE  OffsetsSaved' /\ offset' \in Lengths /\ param' \in Lengths
  <2>1. offset' \in Lengths /\ param' \in Lengths
    <3>1. \A a \in AxisWords(blk) : blk.w[a] \in Int
      BY BlockTyped DEF AxisWords, IInv
    <3>2. \A a \in Axes : NewOffset(blk, code)[a] \in Int
      BY <3>1 DEF NewOffset, IInv, TypeOK, Lengths, Millimetre
    <3>. HIDE DEF code
    <3>3. NewOffset(blk, code) \in Lengths
      BY <3>2 DEF NewOffset, Lengths
    <3>4. NewParam(blk, code) \in Lengths
      BY <3>3 DEF NewParam, IInv, TypeOK, Lengths
    <3>. QED  BY <3>3, <3>4, <1>1
  <2>2. OffsetsSaved'
    <3>. SUFFICES ASSUME NEW a \in Axes PROVE offset'[a] \in {0, param'[a]}
      BY DEF OffsetsSaved
    <3>. HIDE DEF code
    <3>1. offset[a] \in {0, param[a]}
      BY DEF IInv, OffsetsSaved
    <3>2. offset'[a] = NewOffset(blk, code)[a]
      BY <1>1
    <3>3. CASE (code = 92 /\ a \in AxisWords(blk)) \/ code = 92001
      <4>1. param'[a] = NewOffset(blk, code)[a]
        BY <3>3, <1>1 DEF NewParam
      <4>. QED  BY <4>1, <3>2
    <3>4. CASE ~((code = 92 /\ a \in AxisWords(blk)) \/ code = 92001)
      <4>1. param'[a] = param[a]
        BY <3>4, <1>1 DEF NewParam
      <4>2. NewOffset(blk, code)[a] \in {0, offset[a]}
        BY <3>4 DEF NewOffset
      <4>. QED  BY <4>1, <4>2, <3>1, <3>2
    <3>. QED  BY <3>3, <3>4
  <2>. QED  BY <2>1, <2>2
<1>2. ASSUME UNCHANGED <<offset, param>>
      PROVE  OffsetsSaved' /\ offset' \in Lengths /\ param' \in Lengths
  BY <1>2 DEF IInv, OffsetsSaved, TypeOK
<1>3. OffsetsSaved' /\ offset' \in Lengths /\ param' \in Lengths
  BY <1>1, <1>2
<1>4. TypeOK'
  BY <1>3 DEF IInv, TypeOK
<1>5. HomeCode' /\ HomeDid' /\ DoneBound' /\ OneOf18' /\ DrivenInv' /\ SettingsFirst'
      /\ (exit' = "error" => stage' # "next")
  BY DEF IInv, HomeCode, HomeDid, DoneBound, First, OneOf18, DrivenInv, SettingsFirst
<1>. QED  BY <1>3, <1>4, <1>5 DEF IInv

LEMMA MotionKept == ASSUME IInv, Motion PROVE IInv'
<1>. USE DEF IInv
<1>1. /\ exit = "none" /\ stage = "motion" /\ done' = done + 1
      /\ UNCHANGED <<processVars, modal, dataVars, blk, did>>
  BY DEF Motion, At
<1>2. Steps(Vector(blk, ngcPos)) \in Lengths
  BY VectorTyped, StepsTyped DEF TypeOK
<1>3. /\ pos' \in Lengths
      /\ driven' \in BOOLEAN
      /\ \/ stage' = "next" /\ exit' = "none"
         \/ stage' = "motion" /\ exit' = "stopped"
         \/ stage' = "motion" /\ exit' = "error" /\ driven' = driven
  <2>1. CASE Move(Steps(Vector(blk, ngcPos)), "next")
    BY <2>1, <1>1, <1>2, Moved
  <2>2. CASE (Goto("next") \/ Fail("error")) /\ Stay
    BY <2>2, <1>1 DEF Goto, Fail, Stay, TypeOK
  <2>. QED  BY <2>1, <2>2 DEF Motion
<1>4. done' \in 0 .. MaxBlocks
  BY <1>1, NgcAssumption DEF TypeOK, DoneBound
<1>5. TypeOK'
  BY <1>1, <1>3, <1>4 DEF TypeOK, processVars, dataVars
<1>. QED
  BY <1>1, <1>3, <1>5
     DEF HomeCode, HomeDid, DoneBound, OneOf18, DrivenInv, SettingsFirst, OffsetsSaved, processVars, dataVars

LEMMA Kept == IInv /\ [Next]_vars => IInv'
<1>. SUFFICES ASSUME IInv, [Next]_vars PROVE IInv'
  OBVIOUS
<1>1. CASE EndOfProgram \/ \E p \in Places : OtherMove(p)
  <2>1. pos' \in Lengths
    BY <1>1, NgcAssumption DEF EndOfProgram, OtherMove, IInv, TypeOK, Lengths
  <2>2. TypeOK'
    BY <2>1, <1>1 DEF EndOfProgram, OtherMove, IInv, TypeOK, processVars, dataVars, blockVars
  <2>. QED
    BY <2>2, <1>1
       DEF EndOfProgram, OtherMove, At, IInv, HomeCode, HomeDid, DoneBound, OneOf18, DrivenInv,
           SettingsFirst, OffsetsSaved, First, processVars,
           dataVars, blockVars
<1>2. CASE UNCHANGED vars
  BY <1>2 DEF IInv, TypeOK, HomeCode, HomeDid, DoneBound, OneOf18, DrivenInv, SettingsFirst, OffsetsSaved, First, vars, processVars, dataVars,
              blockVars
<1>. QED
  BY <1>1, <1>2, NextBlockKept, SettingsKept, GohomeKept, SetOriginKept, SetOffsetKept, MotionKept
     DEF Next, Interpreter, Execute

LEMMA Inductive == Spec => []IInv
<1>1. QED
  BY Starts, Kept, PTL DEF Spec

\* Every variable of the interpreter has its type.
THEOREM NgcTyping == Spec => []TypeOK
<1>1. IInv => TypeOK
  BY DEF IInv
<1>2. QED
  BY <1>1, Inductive, PTL

\* No block combines homing, an origin and offsets.
THEOREM Stage18Once == Spec => []OneOfStage18
<1>1. IInv => OneOfStage18
  <2>1. Cardinality({}) = 0 /\ \A x : Cardinality({x}) = 1
    BY FS_EmptySet, FS_Singleton
  <2>2. IInv => Cardinality(did) \in {0, 1}
    BY <2>1 DEF IInv, OneOf18
  <2>. QED  BY <2>2 DEF OneOfStage18
<1>2. QED
  BY <1>1, Inductive, PTL

\* A block in error has not moved the machine, but for homing.
THEOREM ErrorsStandStill == Spec => []ErrorsBeforeMotion
<1>1. IInv => ErrorsBeforeMotion
  BY DEF IInv, DrivenInv, ErrorsBeforeMotion
<1>2. QED
  BY <1>1, Inductive, PTL

\* Offsets that are in use are saved, whatever the parameter file held.
THEOREM OffsetsKept == Spec => []OffsetsSaved
<1>1. IInv => OffsetsSaved
  BY DEF IInv
<1>2. QED
  BY <1>1, Inductive, PTL
==============================================================================
