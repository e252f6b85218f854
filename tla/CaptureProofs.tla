---------------------------- MODULE CaptureProofs ----------------------------
(***************************************************************************)
(* Proofs about Capture for any number of movers, buffer, read and move    *)
(* sizes: types, the rendezvous, and the interrupt level of the movers.           *)
(***************************************************************************)
EXTENDS Capture, TLAPS

\* A step that moves no mover along.
ReaderStep == Open \/ Enable \/ Disable \/ Close \/ Read \/ ReadWoken \/ ReadCopy

\* A step of mover m, of any kind.
MoverStep(m) ==
  \/ MoveUncaptured(m)
  \/ \E k \in 1 .. MaxMove : MoveCaptured(m, k)
  \/ Resume(m)
  \/ ResumeStopped(m)
  \/ Signal(m)

\* The steps of the system, split by who makes them.
LEMMA NextSplit == Next <=> ReaderStep \/ \E m \in Movers : MoverStep(m)
  BY DEF Next, ReaderStep, Reading, MoverStep, Moving

-----------------------------------------------------------------------------
(* Types.                                                                  *)

\* The lesser of two naturals.
LEMMA LesserFact ==
  ASSUME NEW a \in Nat, NEW b \in Nat
  PROVE  /\ Lesser(a, b) \in Nat
         /\ Lesser(a, b) <= a /\ Lesser(a, b) <= b
         /\ Lesser(a, b) \in {a, b}
  BY DEF Lesser

\* The top of the read loop keeps the reader's variables in their types.
LEMMA ReadLoopType ==
  ASSUME BufTypes, fileOffset \in 0 .. BufSize,
         NEW off \in Nat, NEW res \in 0 .. ReadSize, ReadLoop(off, res)
  PROVE  ReaderTypes'
<1>1. ASSUME NEW o \in Nat PROVE Capped(o) \in 0 .. BufSize
  BY <1>1, CaptureAssumption DEF Capped, Lesser
<1>2. CASE /\ reader' = "user" /\ fileOffset' = Capped(fileOffset + ReadSize - res)
           /\ offset' = 0 /\ resid' = 0 /\ chunk' = 0
  <2>1. fileOffset + ReadSize - res \in Nat
    BY CaptureAssumption
  <2>2. fileOffset' \in 0 .. BufSize
    BY <1>1, <1>2, <2>1
  <2>3. QED
    BY <1>2, <2>2, CaptureAssumption DEF ReaderTypes
<1>3. CASE /\ reader' = "asleep" /\ UNCHANGED fileOffset
           /\ offset' = Capped(off) /\ resid' = res /\ chunk' = 0
  BY <1>1, <1>3, CaptureAssumption DEF ReaderTypes
<1>4. CASE /\ reader' = "copying" /\ UNCHANGED fileOffset
           /\ off < size /\ offset' = off /\ resid' = res /\ chunk' = size
  BY <1>4, CaptureAssumption DEF ReaderTypes, BufTypes
<1>5. QED
  BY <1>2, <1>3, <1>4 DEF ReadLoop

\* Appending frames keeps the buffer within its bounds.
LEMMA AppendType ==
  ASSUME BufTypes, NEW k \in Nat, Append(k)
  PROVE  BufTypes'
<1>1. size + k \in Nat /\ BufSize \in Nat
  BY CaptureAssumption DEF BufTypes
<1>2. QED
  BY <1>1, LesserFact DEF Append, BufTypes

\* The Booleans, which no other part depends on.
LEMMA FlagStep == FlagTypes /\ [Next]_vars => FlagTypes'
<1> USE DEF FlagTypes, fileVars, readVars, moverVars
<1>1. ASSUME FlagTypes, ReaderStep PROVE FlagTypes'
  BY <1>1 DEF ReaderStep, Open, Enable, Disable, Close, Read, ReadWoken, ReadCopy,
              ReadLoop, Tear
<1>2. ASSUME FlagTypes, NEW m \in Movers, MoverStep(m) PROVE FlagTypes'
  BY <1>2 DEF MoverStep, MoveUncaptured, MoveCaptured, Resume, ResumeStopped,
              Onward, Pause, RunOn, Finish, Leave, Signal
<1>3. ASSUME FlagTypes, UNCHANGED vars PROVE FlagTypes'
  BY <1>3 DEF vars
<1>4. QED
  BY <1>1, <1>2, <1>3, NextSplit

\* The reader's steps keep the types.
LEMMA ReaderStepType ==
  ASSUME TypeOK, ReaderStep
  PROVE  (MoverTypes /\ ReaderTypes /\ BufTypes)'
<1> USE CaptureAssumption DEF TypeOK, fileVars, readVars, moverVars
<1>1. CASE Open \/ Enable \/ Disable \/ Close
  BY <1>1 DEF Open, Enable, Disable, Close, MoverTypes, ReaderTypes, BufTypes
<1>2. CASE Read
  <2>1. ReaderTypes'
    BY <1>2, ReadLoopType DEF Read, ReaderTypes
  <2>2. QED
    BY <1>2, <2>1 DEF Read, MoverTypes, BufTypes
<1>3. CASE ReadWoken
  BY <1>3 DEF ReadWoken, MoverTypes, ReaderTypes, BufTypes
<1>4. CASE ReadCopy
  <2> DEFINE n == Lesser(chunk, resid)
  <2>1. offset + n \in Nat /\ resid - n \in 0 .. ReadSize
    <3>1. offset \in Nat /\ chunk \in Nat /\ resid \in 0 .. ReadSize
      BY DEF ReaderTypes
    <3>2. n \in Nat /\ n <= resid
      BY <3>1, LesserFact
    <3>3. QED
      BY <3>1, <3>2
  <2>2. ReadLoop(offset + n, resid - n)
    BY <1>4 DEF ReadCopy
  <2>3. ReaderTypes'
    BY <2>1, <2>2, ReadLoopType DEF ReaderTypes
  <2>4. QED
    BY <1>4, <2>3 DEF ReadCopy, Woken, MoverTypes, BufTypes
<1>5. QED
  BY <1>1, <1>2, <1>3, <1>4 DEF ReaderStep

\* What a mover does in one go keeps the types.
LEMMA GoType ==
  ASSUME TypeOK, NEW m \in Movers
  PROVE  /\ \A h \in BOOLEAN : Leave(m, h) /\ UNCHANGED <<size, reader>>
              => (MoverTypes /\ ReaderTypes /\ BufTypes)'
         /\ \A k \in 1 .. MaxMove : Pause(m, k) \/ RunOn(m, k)
              => (MoverTypes /\ ReaderTypes /\ BufTypes)'
<1> USE CaptureAssumption DEF TypeOK, fileVars, readVars
<1>1. ASSUME NEW h \in BOOLEAN, Leave(m, h), UNCHANGED <<size, reader>>
      PROVE  (MoverTypes /\ ReaderTypes /\ BufTypes)'
  BY <1>1 DEF Leave, MoverTypes, ReaderTypes, BufTypes
<1>2. ASSUME NEW k \in 1 .. MaxMove, Pause(m, k)
      PROVE  (MoverTypes /\ ReaderTypes /\ BufTypes)'
  <2>1. BufTypes'
    BY <1>2, AppendType DEF Pause
  <2>2. QED
    BY <1>2, <2>1 DEF Pause, ReaderWoken, Woken, MoverTypes, ReaderTypes
<1>3. ASSUME NEW k \in 1 .. MaxMove, RunOn(m, k)
      PROVE  (MoverTypes /\ ReaderTypes /\ BufTypes)'
  <2>1. PICK j \in 1 .. k : Append(j)
    BY <1>3 DEF RunOn
  <2>2. BufTypes'
    BY <2>1, AppendType
  <2>3. QED
    BY <1>3, <2>2 DEF RunOn, ReaderWoken, Woken, MoverTypes, ReaderTypes
<1>4. QED
  BY <1>1, <1>2, <1>3

\* The steps of the movers keep the types.
LEMMA MoverStepType ==
  ASSUME TypeOK, NEW m \in Movers, MoverStep(m)
  PROVE  (MoverTypes /\ ReaderTypes /\ BufTypes)'
<1>1. CASE MoveUncaptured(m) \/ ResumeStopped(m)
  BY <1>1, GoType DEF MoveUncaptured, ResumeStopped, Finish
<1>2. CASE \E k \in 1 .. MaxMove : MoveCaptured(m, k)
  BY <1>2, GoType DEF MoveCaptured
<1>3. CASE Resume(m)
  <2>1. left[m] \in 0 .. MaxMove
    BY DEF TypeOK, MoverTypes
  <2>2. CASE left[m] > 0 /\ capture
    <3>1. left[m] \in 1 .. MaxMove
      BY <2>1, <2>2, CaptureAssumption
    <3>2. Pause(m, left[m]) \/ RunOn(m, left[m])
      BY <1>3, <2>2 DEF Resume, Onward
    <3>3. QED
      BY <3>1, <3>2, GoType
  <2>3. CASE ~(left[m] > 0 /\ capture)
    BY <1>3, <2>3, GoType DEF Resume, Onward, Finish
  <2>4. QED
    BY <2>2, <2>3
<1>4. CASE Signal(m)
  BY <1>4 DEF Signal, TypeOK, MoverTypes, ReaderTypes, BufTypes, fileVars, readVars
<1>5. QED
  BY <1>1, <1>2, <1>3, <1>4 DEF MoverStep

\* The variables of the capture machinery stay within their types.
THEOREM CaptureTyping == Spec => []TypeOK
<1>1. Init => TypeOK
  <2>1. Init => FlagTypes
    BY DEF Init, FlagTypes
  <2>2. Init => MoverTypes /\ ReaderTypes /\ BufTypes
    BY CaptureAssumption DEF Init, MoverTypes, ReaderTypes, BufTypes
  <2>3. QED
    BY <2>1, <2>2 DEF TypeOK
<1>2. TypeOK /\ [Next]_vars => TypeOK'
  <2>1. ASSUME TypeOK, UNCHANGED vars PROVE (MoverTypes /\ ReaderTypes /\ BufTypes)'
    BY <2>1 DEF TypeOK, vars, readVars, moverVars,
       MoverTypes, ReaderTypes, BufTypes
  <2>2. QED
    BY <2>1, FlagStep, ReaderStepType, MoverStepType, NextSplit DEF TypeOK
<1>3. QED
  BY <1>1, <1>2, PTL DEF Spec

-----------------------------------------------------------------------------
(* The rendezvous.                                                         *)

\* A read that has copied the buffer never sleeps beside a sleeping mover.
THEOREM RendezvousHeld == Spec => []Rendezvous
<1> USE DEF Rendezvous
<1>1. Init => Rendezvous
  BY DEF Init
<1>2. Rendezvous /\ [Next]_vars => Rendezvous'
  <2> SUFFICES ASSUME Rendezvous, [Next]_vars PROVE Rendezvous'
    OBVIOUS
  <2>1. CASE ReaderStep
    BY <2>1 DEF ReaderStep, Open, Enable, Disable, Close, Read, ReadWoken, ReadCopy,
                Woken
  <2>2. ASSUME NEW m \in Movers, MoverStep(m) PROVE Rendezvous'
    <3>1. CASE Pause(m, left[m]) \/ RunOn(m, left[m])
               \/ \E k \in 1 .. MaxMove : MoveCaptured(m, k)
      BY <3>1 DEF Pause, RunOn, MoveCaptured, ReaderWoken
    <3>2. ASSUME NEW h \in BOOLEAN, Leave(m, h), UNCHANGED <<size, reader>>
          PROVE  Rendezvous'
      BY <3>2 DEF Leave, readVars
    <3>3. CASE Signal(m)
      BY <3>3 DEF Signal, readVars
    <3>4. QED
      BY <2>2, <3>1, <3>2, <3>3
      DEF MoverStep, MoveUncaptured, Resume, ResumeStopped, Onward, Finish
  <2>3. CASE UNCHANGED vars
    BY <2>3 DEF vars, readVars, moverVars
  <2>4. QED
    BY <2>1, <2>2, <2>3, NextSplit
<1>3. QED
  BY <1>1, <1>2, PTL DEF Spec

-----------------------------------------------------------------------------
(* The interrupt level.                                                    *)

\* A move still in progress with capture off has lost it.
LevelInv ==
  /\ LevelKept
  /\ \A m \in Movers : mover[m] # "idle" /\ ~capture => torn[m]

\* Opens, ioctls, closes and reads keep LevelInv: whoever turns capture off
\* tears the moves in progress.
LEMMA LevelReader == FlagTypes /\ LevelInv /\ ReaderStep => LevelInv'
<1> SUFFICES ASSUME FlagTypes, LevelInv, ReaderStep PROVE LevelInv'
  OBVIOUS
<1> USE DEF LevelInv, LevelKept, FlagTypes, fileVars, moverVars
<1>1. CASE Open \/ Enable \/ Read \/ ReadWoken
  BY <1>1 DEF Open, Enable, Read, ReadWoken
<1>2. CASE Disable \/ Close
  BY <1>2 DEF Disable, Close, Tear
<1>3. CASE ReadCopy
  BY <1>3 DEF ReadCopy, Woken
<1>4. QED
  BY <1>1, <1>2, <1>3 DEF ReaderStep

\* The movers keep LevelInv: splx(s) disturbs the level of a torn move only.
LEMMA LevelMover ==
  ASSUME FlagTypes, MoverTypes, LevelInv, NEW m \in Movers, MoverStep(m)
  PROVE  LevelInv'
<1> USE DEF LevelInv, LevelKept, FlagTypes, MoverTypes, fileVars, moverVars
<1>1. ASSUME NEW h \in BOOLEAN, Leave(m, h), h \/ mover[m] # "idle"
      PROVE  LevelInv'
  BY <1>1 DEF Leave
<1>2. ASSUME NEW k, capture, Pause(m, k) \/ RunOn(m, k)
      PROVE  LevelInv'
  BY <1>2 DEF Pause, RunOn, Woken
<1>3. CASE Signal(m)
  BY <1>3 DEF Signal
<1>4. QED
  BY <1>1, <1>2, <1>3
  DEF MoverStep, MoveUncaptured, MoveCaptured, Resume, ResumeStopped, Onward, Finish

\* Interrupts are held off only by a process whose move lost capture.
THEOREM LevelRestored == Spec => []LevelKept
<1>1. Init => LevelInv
  BY DEF Init, LevelInv, LevelKept
<1>2. TypeOK /\ LevelInv /\ [Next]_vars => LevelInv'
  <2>1. ASSUME LevelInv, UNCHANGED vars PROVE LevelInv'
    BY <2>1 DEF LevelInv, LevelKept, vars, fileVars, moverVars
  <2>2. QED
    BY <2>1, LevelReader, LevelMover, NextSplit DEF TypeOK
<1>3. LevelInv => LevelKept
  BY DEF LevelInv
<1>4. QED
  BY <1>1, <1>2, <1>3, CaptureTyping, PTL DEF Spec
==============================================================================
