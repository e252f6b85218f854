---------------------------------- MODULE Ngc ----------------------------------
(***************************************************************************)
(* ngc(1), the RS274/NGC interpreter: the execution of a program, block by *)
(* block, and of a block, stage by stage in the order of ngc_block_exec(). *)
(* A call of cncmove ends an action, because other processes run while the *)
(* machine is, or could be, moving; between two calls nothing that another *)
(* process does is visible to ngc.                                         *)
(*                                                                         *)
(* A block is a record: g is the set of its G codes (92001 stands for      *)
(* G92.1, and so on) and w maps its other letters to their values.  A      *)
(* letter occurs once.  Lengths are in hundredths of a millimetre, which   *)
(* makes every conversion exact.                                           *)
(***************************************************************************)
EXTENDS Integers, Sequences, FiniteSets

CONSTANTS
  Axes,         \* the axes of the kernel, named by their letters
  Blocks,       \* the blocks a program may have
  MaxBlocks,    \* bound: the length of a program
  Places,       \* where other processes move the machine, in steps
  Saved,        \* what the parameter file may hold in 5211 to 5216
  HomeX         \* parameters 5161 and 5181, in hundredths

LinScale == 400       \* ngc_linscale: steps per millimetre
RotScale == 100       \* ngc_rotscale: steps per degree
Millimetre == 100     \* in hundredths
Inch == 2540

Offsets == 1 .. 9     \* the work offsets
HomeCodes == {28, 30}

ASSUME BlockAssumption ==
  /\ "X" \in Axes
  /\ \A b \in Blocks : b.g \subseteq Nat /\ \A a \in DOMAIN b.w : b.w[a] \in Int

ASSUME NgcAssumption ==
  /\ MaxBlocks \in Nat
  /\ Places \subseteq [Axes -> Int]
  /\ Saved \subseteq [Axes -> Int]
  /\ HomeX \in [HomeCodes -> Int]

VARIABLES
  simulate,     \* ngc_simulate
  wordType,     \* what ngc_axis_types['X'] and the like hold in this build
  pos,          \* cnc_pos, in the kernel
  ngcPos,       \* ngc_pos
  modal,        \* the modal settings that later blocks read
  offset,       \* ngc_csys_offset
  param,        \* parameters 5211 to 5216, the saved offsets
  origin,       \* the origins of the work offsets
  done,         \* blocks executed
  blk,          \* the block being executed
  stage,        \* where its execution is
  exit,         \* how the program ended, if it did
  did,          \* history: what stage 18 has done in this block
  driven        \* history: ngc has called cncmove in this block

processVars == <<simulate, wordType, ngcPos>>
dataVars == <<offset, param, origin>>
blockVars == <<done, blk>>

vars == <<processVars, pos, modal, dataVars, blockVars, stage, exit, did, driven>>

-----------------------------------------------------------------------------
(* Words.                                                                  *)

Has(b, letter) == letter \in DOMAIN b.w

AxisWords(b) == Axes \cap DOMAIN b.w

\* The first of codes that b has, as the chains of ngc_getcmd() find it.
First(b, codes) ==
  LET Chosen(k) == codes[k] \in b.g /\ \A j \in 1 .. k - 1 : codes[j] \notin b.g
  IN IF \E k \in DOMAIN codes : Chosen(k)
       THEN codes[CHOOSE k \in DOMAIN codes : Chosen(k)]
       ELSE -1

\* ngc_units_to_mm().
InMillimetres(v) == IF modal.units = "inch" THEN v * Inch ELSE v * Millimetre

\* ngc_axiswords_to_vec() on V: the type of an axis is looked up with its
\* letter, beyond the end of the array, and a type that is none of the two
\* leaves the axis alone although it counts as a word.
Vector(b, V) ==
  [a \in Axes |->
     IF a \notin AxisWords(b) \/ wordType[a] = "other" THEN V[a]
     ELSE IF wordType[a] = "linear" THEN InMillimetres(b.w[a])
     ELSE b.w[a] * Millimetre]

\* loadposition(): the scale of the rotary axes is applied to the linear ones.
Loaded(p) == [a \in Axes |-> (p[a] * Millimetre) \div RotScale]

\* kPos, in steps.
Steps(V) == [a \in Axes |-> (V[a] * LinScale) \div Millimetre]

-----------------------------------------------------------------------------
(* The end of the program, and cncmove.                                    *)

Goto(next) == stage' = next /\ UNCHANGED exit

\* ngc_block_exec() returns -1, and main() calls errx().
Fail(how) == exit' = how /\ UNCHANGED stage

\* An e-stop ends a move somewhere on its way.
Halfway(p, q) == [a \in Axes |-> (p[a] + q[a]) \div 2]

\* cncmove() to p, unless the program is only simulated.  It arrives (to
\* within the error of Motion), or is refused or stopped, and main() exits.
Move(p, next) ==
  \/ /\ simulate
     /\ Goto(next)
     /\ UNCHANGED <<pos, driven>>
  \/ /\ ~simulate
     /\ driven' = TRUE
     /\ \/ pos' = p /\ Goto(next)
        \/ pos' \in {pos, Halfway(pos, p)} /\ Fail("stopped")

-----------------------------------------------------------------------------
(* The stages of ngc_block_exec().                                         *)

At(where) == exit = "none" /\ stage = where

Stay == UNCHANGED <<pos, driven>>

\* main(): the next block, or the end of the program.
NextBlock(b) ==
  /\ At("next") /\ done < MaxBlocks
  /\ blk' = b
  /\ stage' = "settings"
  /\ did' = {}
  /\ driven' = FALSE
  /\ UNCHANGED <<processVars, pos, modal, dataVars, done, exit>>

EndOfProgram ==
  /\ At("next")
  /\ exit' = "done"
  /\ UNCHANGED <<processVars, pos, modal, dataVars, blockVars, stage, did, driven>>

\* The modal settings after stages 1, 10, 11 and 12 of b.  G98 and G99 write
\* the retract mode over the distance mode, in stage 17.
FeedMode(b) == CASE First(b, <<94, 93>>) = 94 -> "perMinute"
                 [] First(b, <<94, 93>>) = 93 -> "inverse"
                 [] OTHER -> modal.feed
Plane(b) == LET c == First(b, <<17, 18, 19>>) IN IF c = -1 THEN modal.plane ELSE c
Units(b) == CASE First(b, <<20, 21>>) = 20 -> "inch"
              [] First(b, <<20, 21>>) = 21 -> "metric"
              [] OTHER -> modal.units
Cutter(b) == LET c == First(b, <<40, 41, 42>>) IN IF c = -1 THEN modal.cutter ELSE c

\* Faulty: G98 and G99 are stored as they are.
DistanceRaw(b) == LET c == First(b, <<99, 98, 90, 91>>)
                  IN IF c = -1 THEN modal.distance ELSE c

Distance(b) == CASE First(b, <<99, 98>>) = 99 -> 90
                 [] First(b, <<99, 98>>) = 98 -> 91
                 [] OTHER -> LET c == First(b, <<90, 91>>)
                             IN IF c = -1 THEN modal.distance ELSE c

Missing(b, letter) == ~Has(b, letter) \/ b.w[letter] < 0

Negative(b, letter) == Has(b, letter) /\ b.w[letter] < 0

\* G41 or G42 while compensation is on, off the XY plane, or with a bad D.
CutterRefused(b) ==
  /\ First(b, <<40, 41, 42>>) \in {41, 42}
  /\ modal.cutter # 40 \/ Plane(b) # 17 \/ Negative(b, "D")

\* What is wrong with b in stages 1 to 17.
SettingsWrong(b) ==
  \/ FeedMode(b) = "inverse" /\ ~Has(b, "F") /\ b.g \cap {1, 2, 3} # {}
  \/ Negative(b, "S") \/ Negative(b, "T")
  \/ 4 \in b.g /\ Missing(b, "P")
  \/ CutterRefused(b)
  \/ First(b, <<43, 49>>) = 43 /\ Missing(b, "H")

\* Stages 1 to 17.
Settings ==
  /\ At("settings")
  /\ IF SettingsWrong(blk)
       THEN Fail("error") /\ UNCHANGED <<modal, did>>
       ELSE /\ modal' = [feed |-> FeedMode(blk), plane |-> Plane(blk), units |-> Units(blk),
                         cutter |-> Cutter(blk), distance |-> Distance(blk)]
            /\ IF First(blk, <<28, 30>>) = -1
                 THEN Goto("origin") /\ UNCHANGED did
                 ELSE Goto("via") /\ did' = {"home"}
  /\ Stay
  /\ UNCHANGED <<processVars, dataVars, blockVars>>

\* gohome(), through the intermediate point.  Tint is not initialised, so
\* that the axes without a word go anywhere.
HomeVia ==
  /\ At("via")
  /\ IF AxisWords(blk) = {}
       THEN Goto("home") /\ Stay
       ELSE \E V \in Places : Move(Steps(Vector(blk, V)), "home")
  /\ UNCHANGED <<processVars, modal, dataVars, blockVars, did>>

\* gohome(), to the home position: every axis to that of X.
Home ==
  /\ At("home")
  /\ Move(Steps([a \in Axes |-> HomeX[First(blk, <<28, 30>>)]]), "origin")
  /\ UNCHANGED <<processVars, modal, dataVars, blockVars, did>>

\* G10 L2: setcsysorigin(), which nothing reads.
SetOrigin ==
  /\ At("origin")
  /\ IF 10 \in blk.g /\ Has(blk, "L") /\ blk.w["L"] = 2
       THEN IF did # {} \/ ~Has(blk, "P") \/ blk.w["P"] \notin Offsets
              THEN Fail("error") /\ UNCHANGED <<origin, did>>
              ELSE /\ origin' = [origin EXCEPT ![blk.w["P"]] =
                        [a \in Axes |-> IF a \in AxisWords(blk)
                                        THEN blk.w[a] * Millimetre ELSE @[a]]]
                   /\ did' = {"origin"}
                   /\ Goto("offset")
       ELSE Goto("offset") /\ UNCHANGED <<origin, did>>
  /\ Stay
  /\ UNCHANGED <<processVars, modal, offset, param, blockVars>>

\* setcsysoffset(): G94 is dispatched here where G92.3 is meant, and does
\* nothing, but not without axis words.
NewOffset(b, code) ==
  [a \in Axes |->
     CASE code = 92 -> IF a \in AxisWords(b)
                         THEN offset[a] + ngcPos[a] - b.w[a] * Millimetre
                         ELSE offset[a]
       [] code \in {92001, 92002} -> 0
       [] OTHER -> offset[a]]

\* Faulty: the offset is saved before it is changed.
NewParamEarly(b, code) ==
  [a \in Axes |->
     IF code = 92 /\ a \in AxisWords(b) THEN offset[a]
     ELSE IF code = 92001 THEN 0 ELSE param[a]]

\* G92 and G92.1 also save the offsets they change.
NewParam(b, code) ==
  [a \in Axes |->
     IF (code = 92 /\ a \in AxisWords(b)) \/ code = 92001
       THEN NewOffset(b, code)[a] ELSE param[a]]

OffsetCode(b) == First(b, <<92, 92001, 92002, 94>>)

\* Faulty: case18 is only compared with 1.
SetOffsetUnchecked ==
  /\ At("offset")
  /\ IF OffsetCode(blk) = -1
       THEN Goto("motion") /\ UNCHANGED <<offset, param, did>>
       ELSE IF "home" \in did \/ AxisWords(blk) = {}
              THEN Fail("error") /\ UNCHANGED <<offset, param, did>>
              ELSE /\ offset' = NewOffset(blk, OffsetCode(blk))
                   /\ param' = NewParam(blk, OffsetCode(blk))
                   /\ did' = did \cup {"offset"}
                   /\ Goto("motion")
  /\ Stay
  /\ UNCHANGED <<processVars, modal, origin, blockVars>>

SetOffset ==
  /\ At("offset")
  /\ IF OffsetCode(blk) = -1
       THEN Goto("motion") /\ UNCHANGED <<offset, param, did>>
       ELSE IF did # {} \/ AxisWords(blk) = {}
              THEN Fail("error") /\ UNCHANGED <<offset, param, did>>
              ELSE /\ offset' = NewOffset(blk, OffsetCode(blk))
                   /\ param' = NewParam(blk, OffsetCode(blk))
                   /\ did' = did \cup {"offset"}
                   /\ Goto("motion")
  /\ Stay
  /\ UNCHANGED <<processVars, modal, origin, blockVars>>

\* G0, or else G1, or else an arc, which does nothing.
MotionCode(b) == First(b, <<0, 1>>)

\* G0 and G1 without axis words, and G1 in inverse time mode.
MotionWrong(b) ==
  /\ MotionCode(b) # -1
  /\ AxisWords(b) = {} \/ (MotionCode(b) = 1 /\ modal.feed = "inverse")

\* Faulty: an unsupported feed mode is reported after the move.
MotionThenCheck ==
  /\ At("motion")
  /\ done' = done + 1
  /\ IF MotionCode(blk) = -1
       THEN Goto("next") /\ Stay
       ELSE IF MotionWrong(blk)
              THEN pos' = Steps(Vector(blk, ngcPos)) /\ driven' = TRUE
                   /\ Fail("error")
              ELSE Move(Steps(Vector(blk, ngcPos)), "next")
  /\ UNCHANGED <<processVars, modal, dataVars, blk, did>>

\* Faulty: a block whose move does not succeed is executed again.
MotionAgain ==
  /\ At("motion")
  /\ IF MotionCode(blk) = -1
       THEN Goto("next") /\ Stay /\ done' = done + 1
       ELSE IF MotionWrong(blk)
              THEN Fail("error") /\ Stay /\ UNCHANGED done
              ELSE \/ Move(Steps(Vector(blk, ngcPos)), "next") /\ done' = done + 1
                   \/ Goto("settings") /\ Stay /\ UNCHANGED done
  /\ UNCHANGED <<processVars, modal, dataVars, blk, did>>

\* Stage 19: movelinear_fast() and movelinear_feed(), from a position that
\* was loaded before the first block and is not updated by any move.
Motion ==
  /\ At("motion")
  /\ done' = done + 1
  /\ IF MotionCode(blk) = -1
       THEN Goto("next") /\ Stay
       ELSE IF MotionWrong(blk)
              THEN Fail("error") /\ Stay
              ELSE Move(Steps(Vector(blk, ngcPos)), "next")
  /\ UNCHANGED <<processVars, modal, dataVars, blk, did>>

-----------------------------------------------------------------------------

\* jog, cncctl -p, or the operator's wheel, between two calls of ngc.
OtherMove(p) ==
  /\ exit = "none"
  /\ pos' = p
  /\ UNCHANGED <<processVars, modal, dataVars, blockVars, stage, exit, did, driven>>

NoBlock == [g |-> {}, w |-> <<>>]

\* loadparams() leaves ngc_csys_offset as it is, 0, whatever is saved.
Init ==
  /\ simulate \in BOOLEAN
  /\ wordType \in [Axes -> {"linear", "rotary", "other"}]
  /\ pos \in Places
  /\ ngcPos = Loaded(pos)
  /\ modal = [feed |-> "perMinute", plane |-> 17, units |-> "metric",
              cutter |-> 40, distance |-> 91]
  /\ offset = [a \in Axes |-> 0]
  /\ param \in Saved
  /\ origin = [n \in Offsets |-> [a \in Axes |-> 0]]
  /\ done = 0 /\ blk = NoBlock
  /\ stage = "next" /\ exit = "none"
  /\ did = {} /\ driven = FALSE

Execute == Settings \/ HomeVia \/ Home \/ SetOrigin \/ SetOffset \/ Motion

Interpreter == (\E b \in Blocks : NextBlock(b)) \/ EndOfProgram \/ Execute

Next == Interpreter \/ \E p \in Places : OtherMove(p)

\* ngc runs on, and cncmove() and sleep() return (CallReturns of Motion).
Spec == Init /\ [][Next]_vars /\ WF_vars(Interpreter)

-----------------------------------------------------------------------------
(* Properties.                                                             *)

Lengths == [Axes -> Int]

Modal == [feed : {"perMinute", "inverse"}, plane : {17, 18, 19},
          units : {"inch", "metric"}, cutter : {40, 41, 42}, distance : {90, 91}]

\* Every variable ranges over what the C declarations and the code allow.
TypeOK ==
  /\ simulate \in BOOLEAN /\ driven \in BOOLEAN
  /\ wordType \in [Axes -> {"linear", "rotary", "other"}]
  /\ pos \in Lengths /\ ngcPos \in Lengths
  /\ modal \in Modal
  /\ offset \in Lengths /\ param \in Lengths /\ origin \in [Offsets -> Lengths]
  /\ done \in 0 .. MaxBlocks /\ blk \in Blocks \cup {NoBlock}
  /\ stage \in {"next", "settings", "via", "home", "origin", "offset", "motion"}
  /\ exit \in {"none", "done", "error", "stopped"}
  /\ did \subseteq {"home", "origin", "offset"}

\* Homing, a new origin and new offsets exclude each other in a block, in
\* whatever combination its codes come (case18 of ngc_block_exec).
OneOfStage18 == Cardinality(did) <= 1

\* A block that is in error has not moved the machine, unless it homes it:
\* all that can be wrong with a motion is found before the motion.
ErrorsBeforeMotion == (exit = "error" /\ driven) => "home" \in did

\* An axis that is offset has the same offset saved (5211 and on), after any
\* sequence of G92, G92.1 and G92.2.  Not the other way round: G92.2 clears
\* only the offset in use, and what the parameter file holds is never put
\* into use, neither when it is loaded nor by G92.3, in whose place stage 18
\* looks for G94 (setcsysoffset, loadparams).
OffsetsSaved == \A a \in Axes : offset[a] \in {0, param[a]}

\* Every program ends, though an e-stop be held for ever.
ProgramEnds == <>(exit # "none")

\* ngc.h calls ngc_pos the "Current position", and ngc.c fetches it "from
\* the kernel ... per the effective scaling factors": the axes a linear
\* motion takes from it, because its block does not name them, hold still.
UnnamedAxesHold ==
  [][stage = "motion" /\ stage' = "next"
       => \A a \in Axes : a \notin DOMAIN blk.w => pos'[a] = pos[a]]_vars
==============================================================================
